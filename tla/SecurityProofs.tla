--------------------------- MODULE SecurityProofs ---------------------------
(***************************************************************************)
(* Proofs about API keys, for any number of keys and concurrent calls, and *)
(* about accounts, for any number of users, names, passwords and tokens.   *)
(***************************************************************************)
EXTENDS ApiKeys, Accounts, FiniteSetTheorems, TLAPS

-----------------------------------------------------------------------------
(* API keys. *)

(* A revocation is of a key that exists, and what it has committed stays. *)
RevocationsHold ==
    \A k \in Keys : /\ revoke[k] # "none" => row[k] # NoRow
                    /\ revoke[k] = "committed" => ~row[k].is_active

(* A settled key is inactive in the repository, out of the cache, and no call
   is about to bring it back. *)
SettledOut ==
    \A k \in settled : /\ row[k] # NoRow /\ ~row[k].is_active
                       /\ cache[k] = NoRow
                       /\ \A c \in Calls : ~HoldsActiveCopy(c, k)

(* A call that began after its key was settled has not got past the check. *)
LateCallsWait ==
    \A c \in Calls : call[c].late => /\ call[c].key \in settled
                                     /\ call[c].pc \notin {"touch", "accepted"}

(* A key that passed the check had not expired when the call began. *)
PassedUnexpired ==
    \A c \in Calls :
        /\ call[c].began <= now
        /\ call[c].pc \in {"touch", "accepted"} =>
              /\ call[c].copy \in APIKey
              /\ \/ call[c].copy.expires_at = Never
                 \/ call[c].copy.expires_at > call[c].began

KeyInv == KeyTypeOK /\ RevocationsHold /\ SettledOut /\ LateCallsWait /\ PassedUnexpired

(* No key, call or revocation exists initially. *)
LEMMA KeyInitInv == KeyInit => KeyInv
<1> SUFFICES ASSUME KeyInit PROVE KeyInv
  OBVIOUS
<1>1. (CHOOSE k \in Keys : TRUE) \in Keys
  BY KeyAssumption
<1>2. KeyTypeOK
  <2>1. 0 \in 0 .. MaxTime
    BY KeyAssumption
  <2>2. call \in [Calls -> Call]
    BY <1>1, <2>1 DEF KeyInit, Call
  <2> QED BY <2>1, <2>2 DEF KeyInit, KeyTypeOK
<1>3. RevocationsHold /\ SettledOut
  BY DEF KeyInit, RevocationsHold, SettledOut
<1>4. \A c \in Calls : call[c].late = FALSE /\ call[c].pc = "idle" /\ call[c].began = 0 /\ now = 0
  BY DEF KeyInit
<1>5. LateCallsWait /\ PassedUnexpired
  BY <1>4 DEF LateCallsWait, PassedUnexpired
<1> QED BY <1>2, <1>3, <1>5 DEF KeyInv

(* generate_key. *)
LEMMA GenerateInv ==
    ASSUME KeyInv, NEW k \in Keys, generate_key(k)
    PROVE  KeyInv'
<1>1. PICK e \in (1 .. MaxTime) \cup {Never} :
         row' = [row EXCEPT ![k] = [is_active |-> TRUE, expires_at |-> e]]
  BY DEF generate_key
<1>2. UNCHANGED <<repository, cache, call, revoke, settled, now>> /\ row[k] = NoRow
  BY DEF generate_key
<1>3. [is_active |-> TRUE, expires_at |-> e] \in APIKey
  BY KeyAssumption DEF APIKey
<1>4. KeyTypeOK'
  BY <1>1, <1>2, <1>3 DEF KeyInv, KeyTypeOK
<1>5. k \notin settled /\ revoke[k] = "none"
  BY <1>2 DEF KeyInv, SettledOut, RevocationsHold, KeyTypeOK
<1>6. RevocationsHold' /\ SettledOut'
  BY <1>1, <1>2, <1>5
     DEF KeyInv, KeyTypeOK, RevocationsHold, SettledOut, HoldsActiveCopy
<1> QED BY <1>2, <1>4, <1>6 DEF KeyInv, LateCallsWait, PassedUnexpired

(* validate_key, the first part: the cache. *)
LEMMA ValidateInv ==
    ASSUME KeyInv, NEW c \in Calls, NEW k \in Keys, validate_key(c, k)
    PROVE  KeyInv'
<1> DEFINE hit == cache[k] # NoRow /\ cache[k].is_active /\ Unexpired(cache[k])
           next == IF hit THEN "accepted" ELSE IF repository THEN "query" ELSE "refused"
           new == [pc |-> next, key |-> k, copy |-> cache[k], began |-> now,
                   late |-> k \in settled]
<1>1. call' = [call EXCEPT ![c] = new]
      /\ UNCHANGED <<repository, row, cache, revoke, settled, now>>
  BY DEF validate_key
<1>2. next \in {"accepted", "query", "refused"} /\ (next = "accepted" => hit)
  OBVIOUS
<1>3. new \in Call
  <2>1. cache[k] \in APIKey \cup {NoRow} /\ now \in 0 .. MaxTime
    BY DEF KeyInv, KeyTypeOK
  <2>2. (k \in settled) \in BOOLEAN
    OBVIOUS
  <2> HIDE DEF next
  <2> QED BY <1>2, <2>1, <2>2 DEF Call
<1>4. /\ new.pc = next /\ new.key = k /\ new.copy = cache[k] /\ new.began = now
      /\ new.late <=> k \in settled
  OBVIOUS
<1>5. hit => cache[k] \in APIKey /\ k \notin settled
             /\ (cache[k].expires_at = Never \/ cache[k].expires_at > now)
  BY DEF KeyInv, KeyTypeOK, SettledOut, Unexpired
<1> HIDE DEF new, next, hit
<1>6. call'[c] = new /\ \A d \in Calls \ {c} : call'[d] = call[d]
  BY <1>1 DEF KeyInv, KeyTypeOK
<1>7. KeyTypeOK'
  BY <1>1, <1>3 DEF KeyInv, KeyTypeOK
<1>8. SettledOut'
  BY <1>1, <1>2, <1>4, <1>6 DEF KeyInv, SettledOut, HoldsActiveCopy
<1>9. LateCallsWait'
  BY <1>1, <1>2, <1>4, <1>5, <1>6 DEF KeyInv, LateCallsWait
<1>10. PassedUnexpired'
  <2>1. now \in Nat
    BY KeyAssumption DEF KeyInv, KeyTypeOK
  <2> QED BY <1>1, <1>2, <1>4, <1>5, <1>6, <2>1 DEF KeyInv, PassedUnexpired
<1> QED BY <1>1, <1>7, <1>8, <1>9, <1>10 DEF KeyInv, RevocationsHold

(* The repository answers, or raises. *)
LEMMA FetchInv ==
    ASSUME KeyInv, NEW c \in Calls, get_by_key_hash(c)
    PROVE  KeyInv'
<1>1. UNCHANGED <<repository, row, cache, revoke, settled, now>> /\ call[c].pc = "query"
  BY DEF get_by_key_hash
<1>2. call[c] \in Call /\ row[call[c].key] \in APIKey \cup {NoRow}
  BY DEF KeyInv, KeyTypeOK, Call
<1>3. /\ call' \in [Calls -> Call]
      /\ \A d \in Calls \ {c} : call'[d] = call[d]
      /\ call'[c].key = call[c].key /\ call'[c].began = call[c].began
      /\ call'[c].late = call[c].late
      /\ \/ call'[c].pc = "fetched" /\ call'[c].copy = row[call[c].key]
         \/ call'[c].pc = "raised"
  BY <1>2 DEF get_by_key_hash, KeyInv, KeyTypeOK, Call
<1>4. KeyTypeOK'
  BY <1>1, <1>3 DEF KeyInv, KeyTypeOK
<1>5. SettledOut'
  BY <1>1, <1>3 DEF KeyInv, SettledOut, HoldsActiveCopy
<1>6. LateCallsWait' /\ PassedUnexpired'
  BY <1>1, <1>3 DEF KeyInv, LateCallsWait, PassedUnexpired
<1> QED BY <1>1, <1>4, <1>5, <1>6 DEF KeyInv, RevocationsHold

(* The call goes on with the copy it was given. *)
LEMMA CheckInv ==
    ASSUME KeyInv, NEW c \in Calls, CheckFetched(c)
    PROVE  KeyInv'
<1> DEFINE key == call[c].copy
           good == key # NoRow /\ key.is_active /\ Unexpired(key)
<1>1. UNCHANGED <<repository, row, revoke, settled, now>> /\ call[c].pc = "fetched"
  BY DEF CheckFetched
<1>2. call[c] \in Call /\ call[c].key \in Keys /\ key \in APIKey \cup {NoRow}
  BY DEF KeyInv, KeyTypeOK, Call
<1>3. /\ call' \in [Calls -> Call]
      /\ \A d \in Calls \ {c} : call'[d] = call[d]
      /\ call'[c].key = call[c].key /\ call'[c].began = call[c].began
      /\ call'[c].late = call[c].late /\ call'[c].copy = call[c].copy
      /\ call'[c].pc = IF good THEN "touch" ELSE "refused"
  BY <1>2 DEF CheckFetched, KeyInv, KeyTypeOK, Call
<1>4. /\ cache' \in [Keys -> APIKey \cup {NoRow}]
      /\ \A k \in Keys : cache'[k] = cache[k] \/ (good /\ k = call[c].key)
  BY <1>2 DEF CheckFetched, KeyInv, KeyTypeOK
<1>5. good => call[c].key \notin settled
  BY <1>1 DEF KeyInv, SettledOut, HoldsActiveCopy
<1>6. good => key \in APIKey /\ (key.expires_at = Never \/ key.expires_at > now)
  BY <1>2 DEF Unexpired
<1> HIDE DEF good
<1>7. KeyTypeOK'
  BY <1>1, <1>3, <1>4 DEF KeyInv, KeyTypeOK
<1>8. SettledOut'
  BY <1>1, <1>3, <1>4, <1>5 DEF KeyInv, KeyTypeOK, SettledOut, HoldsActiveCopy
<1>9. LateCallsWait'
  BY <1>1, <1>3, <1>5 DEF KeyInv, LateCallsWait
<1>10. PassedUnexpired'
  <2>1. now \in Nat /\ call[c].began \in Nat
    BY <1>2, KeyAssumption DEF KeyInv, KeyTypeOK, Call
  <2>2. good => key.expires_at = Never \/ key.expires_at > call[c].began
    BY <1>6, <2>1, KeyAssumption DEF KeyInv, PassedUnexpired, APIKey
  <2> QED BY <1>1, <1>3, <1>6, <2>2 DEF KeyInv, PassedUnexpired
<1> QED BY <1>1, <1>7, <1>8, <1>9, <1>10 DEF KeyInv, RevocationsHold

(* Writing the last use changes nothing the invariant speaks of. *)
LEMMA TouchInv ==
    ASSUME KeyInv, NEW c \in Calls, update_last_used(c)
    PROVE  KeyInv'
<1>1. UNCHANGED <<repository, row, cache, revoke, settled, now>> /\ call[c].pc = "touch"
  BY DEF update_last_used
<1>2. /\ call' \in [Calls -> Call]
      /\ \A d \in Calls \ {c} : call'[d] = call[d]
      /\ call'[c].key = call[c].key /\ call'[c].began = call[c].began
      /\ call'[c].late = call[c].late /\ call'[c].copy = call[c].copy
      /\ call'[c].pc = "accepted"
  BY DEF update_last_used, KeyInv, KeyTypeOK, Call
<1>3. KeyTypeOK'
  BY <1>1, <1>2 DEF KeyInv, KeyTypeOK
<1>4. SettledOut'
  BY <1>1, <1>2 DEF KeyInv, SettledOut, HoldsActiveCopy
<1>5. LateCallsWait' /\ PassedUnexpired'
  BY <1>1, <1>2 DEF KeyInv, LateCallsWait, PassedUnexpired
<1> QED BY <1>1, <1>3, <1>4, <1>5 DEF KeyInv, RevocationsHold

(* The steps of revoke_key. *)
LEMMA DeactivateFacts ==
    ASSUME KeyTypeOK, NEW k \in Keys, row[k] # NoRow, Deactivate(k)
    PROVE  /\ row' \in [Keys -> APIKey \cup {NoRow}]
           /\ row'[k] # NoRow /\ ~row'[k].is_active
           /\ \A j \in Keys \ {k} : row'[j] = row[j]
<1>1. row[k] \in APIKey
  BY DEF KeyTypeOK
<1>2. [row[k] EXCEPT !.is_active = FALSE] \in APIKey
  BY <1>1 DEF APIKey
<1>3. row' = [row EXCEPT ![k] = [row[k] EXCEPT !.is_active = FALSE]]
  BY DEF Deactivate, KeyTypeOK
<1>4. row'[k] = [row[k] EXCEPT !.is_active = FALSE]
  BY <1>3 DEF KeyTypeOK
<1>5. ~[row[k] EXCEPT !.is_active = FALSE].is_active
  BY <1>1 DEF APIKey
<1> QED BY <1>2, <1>3, <1>4, <1>5, KeyAssumption DEF KeyTypeOK

(* A revocation is asked for, is committed to the repository, or fails. *)
LEMMA RevokeInv ==
    ASSUME KeyInv, NEW k \in Keys,
           revoke_key(k) \/ RepositoryRevokes(k) \/ RevokeRaises(k)
    PROVE  KeyInv'
<1>1. UNCHANGED <<repository, cache, call, settled, now>>
  BY DEF revoke_key, RepositoryRevokes, RevokeRaises
<1>2. /\ revoke' \in [Keys -> {"none", "asked", "committed"}]
      /\ \A j \in Keys \ {k} : revoke'[j] = revoke[j]
  BY DEF revoke_key, RepositoryRevokes, RevokeRaises, KeyInv, KeyTypeOK
<1>3. /\ row[k] # NoRow
      /\ revoke'[k] = "committed" => Deactivate(k)
      /\ Deactivate(k) \/ UNCHANGED row
  BY DEF revoke_key, RepositoryRevokes, RevokeRaises, KeyInv, KeyTypeOK, RevocationsHold
<1>4. CASE Deactivate(k)
  <2>1. /\ row' \in [Keys -> APIKey \cup {NoRow}]
        /\ row'[k] # NoRow /\ ~row'[k].is_active
        /\ \A j \in Keys \ {k} : row'[j] = row[j]
    BY <1>3, <1>4, DeactivateFacts DEF KeyInv
  <2>2. KeyTypeOK'
    BY <1>1, <1>2, <2>1 DEF KeyInv, KeyTypeOK
  <2>3. RevocationsHold'
    BY <1>2, <2>1 DEF KeyInv, RevocationsHold
  <2>4. SettledOut'
    BY <1>1, <2>1 DEF KeyInv, KeyTypeOK, SettledOut, HoldsActiveCopy
  <2> QED BY <1>1, <2>2, <2>3, <2>4 DEF KeyInv, LateCallsWait, PassedUnexpired
<1>5. CASE UNCHANGED row /\ ~Deactivate(k)
  <2>1. KeyTypeOK'
    BY <1>1, <1>2, <1>5 DEF KeyInv, KeyTypeOK
  <2>2. RevocationsHold'
    BY <1>2, <1>3, <1>5 DEF KeyInv, RevocationsHold
  <2>3. SettledOut'
    BY <1>1, <1>5 DEF KeyInv, SettledOut, HoldsActiveCopy
  <2> QED BY <1>1, <2>1, <2>2, <2>3 DEF KeyInv, LateCallsWait, PassedUnexpired
<1> QED BY <1>3, <1>4, <1>5

(* A revocation drops the key from the cache and returns. *)
LEMMA RevokeReturnsInv ==
    ASSUME KeyInv, NEW k \in Keys, RevokeReturns(k)
    PROVE  KeyInv'
<1>1. UNCHANGED <<repository, row, call, now>> /\ revoke[k] = "committed" /\ Settle(k)
  BY DEF RevokeReturns
<1>2. /\ cache' \in [Keys -> APIKey \cup {NoRow}]
      /\ cache'[k] = NoRow /\ \A j \in Keys \ {k} : cache'[j] = cache[j]
      /\ revoke' \in [Keys -> {"none", "asked", "committed"}]
      /\ revoke'[k] = "none" /\ \A j \in Keys \ {k} : revoke'[j] = revoke[j]
  BY DEF RevokeReturns, KeyInv, KeyTypeOK
<1>3. /\ settled \subseteq settled' /\ settled' \subseteq settled \cup {k}
      /\ k \in settled' => k \in settled \/ \A c \in Calls : ~HoldsActiveCopy(c, k)
  BY <1>1 DEF Settle
<1>4. KeyTypeOK'
  BY <1>1, <1>2, <1>3 DEF KeyInv, KeyTypeOK
<1>5. RevocationsHold'
  BY <1>1, <1>2 DEF KeyInv, RevocationsHold
<1>6. SettledOut'
  <2>1. \A c \in Calls, j \in Keys : HoldsActiveCopy(c, j)' <=> HoldsActiveCopy(c, j)
    BY <1>1 DEF HoldsActiveCopy
  <2>2. row[k] # NoRow /\ ~row[k].is_active
    BY <1>1 DEF KeyInv, RevocationsHold
  <2> QED BY <1>1, <1>2, <1>3, <1>4, <2>1, <2>2 DEF KeyInv, KeyTypeOK, SettledOut
<1>7. LateCallsWait' /\ PassedUnexpired'
  BY <1>1, <1>3 DEF KeyInv, LateCallsWait, PassedUnexpired
<1> QED BY <1>4, <1>5, <1>6, <1>7 DEF KeyInv

(* Time passes. *)
LEMMA KeyTickInv ==
    ASSUME KeyInv, KeyTick
    PROVE  KeyInv'
<1>1. UNCHANGED <<repository, row, cache, call, revoke, settled>> /\ now' = now + 1
      /\ now < MaxTime
  BY DEF KeyTick
<1>2. KeyTypeOK'
  BY <1>1, KeyAssumption DEF KeyInv, KeyTypeOK
<1>3. PassedUnexpired'
  <2>1. \A c \in Calls : call[c].began \in Nat /\ now \in Nat
    BY KeyAssumption DEF KeyInv, KeyTypeOK, Call
  <2> QED BY <1>1, <2>1 DEF KeyInv, PassedUnexpired
<1> QED
  BY <1>1, <1>2, <1>3 DEF KeyInv, RevocationsHold, SettledOut, HoldsActiveCopy, LateCallsWait

(* The key service keeps its invariant. *)
THEOREM KeyInvariant == KeySpec => []KeyInv
<1>1. ASSUME KeyInv, [KeyNext]_keyVars
      PROVE  KeyInv'
  <2>1. ASSUME NEW k \in Keys, generate_key(k)
        PROVE  KeyInv'
    BY <1>1, <2>1, GenerateInv
  <2>2. ASSUME NEW k \in Keys, revoke_key(k) \/ RepositoryRevokes(k) \/ RevokeRaises(k)
        PROVE  KeyInv'
    BY <1>1, <2>2, RevokeInv
  <2>3. ASSUME NEW k \in Keys, RevokeReturns(k)
        PROVE  KeyInv'
    BY <1>1, <2>3, RevokeReturnsInv
  <2>4. ASSUME NEW c \in Calls, NEW k \in Keys, validate_key(c, k)
        PROVE  KeyInv'
    BY <1>1, <2>4, ValidateInv
  <2>5. ASSUME NEW c \in Calls, get_by_key_hash(c) \/ CheckFetched(c) \/ update_last_used(c)
        PROVE  KeyInv'
    BY <1>1, <2>5, FetchInv, CheckInv, TouchInv
  <2>6. CASE KeyTick
    BY <1>1, <2>6, KeyTickInv
  <2>7. CASE UNCHANGED keyVars
    BY <1>1, <2>7 DEF keyVars, KeyInv, KeyTypeOK, RevocationsHold, SettledOut,
                      HoldsActiveCopy, LateCallsWait, PassedUnexpired
  <2> QED BY <1>1, <2>1, <2>2, <2>3, <2>4, <2>5, <2>6, <2>7 DEF KeyNext
<1> QED BY <1>1, KeyInitInv, PTL DEF KeySpec

(* For any number of keys and of calls at once: a revocation that overlaps no
   validation holding an active copy is final. *)
THEOREM RevokedKeysStayOut == KeySpec => []RevokedStaysOut
<1>1. KeyInv => RevokedStaysOut
  BY DEF KeyInv, LateCallsWait, RevokedStaysOut
<1> QED BY <1>1, KeyInvariant, PTL

(* No key that had expired when its validation began is accepted. *)
THEOREM ExpiredKeysRefused == KeySpec => []ExpiredRefused
<1>1. KeyInv => ExpiredRefused
  BY DEF KeyInv, PassedUnexpired, ExpiredRefused
<1> QED BY <1>1, KeyInvariant, PTL

-----------------------------------------------------------------------------
(* Accounts. *)

(* Stored users were created, and differ in their names. *)
NamesUnique ==
    \A i, j \in UserIds :
        users[i] # NoUser =>
            /\ i \in created
            /\ users[j] # NoUser /\ users[i].username = users[j].username => i = j

(* A refresh token grants nothing. *)
RefreshGrantsNothing == \A t \in tokens : t.type = "refresh" => t.permissions = {}

AccInv == AccTypeOK /\ NamesUnique /\ RefreshGrantsNothing

(* What a login or a refresh hands out. *)
LEMMA IssueInv ==
    ASSUME AccInv, NEW id \in UserIds \cup {AdminId},
           NEW perms \in PermissionLists \cup {DefaultPermissions, AdminPermissions},
           Issue(id, perms)
    PROVE  AccInv'
<1> DEFINE a == create_access_token(id, perms)  r == create_refresh_token(id)
<1>1. tokens' = tokens \cup {a, r} /\ UNCHANGED <<users, created, clock>>
  BY DEF Issue
<1>2. clock + ACCESS_TTL \in Nat /\ clock + REFRESH_TTL \in Nat
  BY AccountAssumption DEF AccInv, AccTypeOK
<1>3. a \in Token /\ a.type = "access"
  BY <1>2 DEF create_access_token, Token
<1>4. r \in Token /\ r.permissions = {}
  BY <1>2 DEF create_refresh_token, Token
<1> HIDE DEF a, r
<1>5. AccTypeOK'
  BY <1>1, <1>3, <1>4 DEF AccInv, AccTypeOK
<1>6. RefreshGrantsNothing'
  BY <1>1, <1>3, <1>4 DEF AccInv, RefreshGrantsNothing
<1> QED BY <1>1, <1>5, <1>6 DEF AccInv, NamesUnique

(* Who a login is answered as. *)
LEMMA LoginUser ==
    ASSUME AccTypeOK, NEW name, NEW password, NEW u \in authenticate_user(name, password)
    PROVE  /\ u.id = AdminId \/ (u.id \in UserIds /\ users[u.id] # NoUser)
           /\ u.permissions \in PermissionLists \cup {DefaultPermissions, AdminPermissions}
<1>1. CASE name = ADMIN_USERNAME /\ password = ADMIN_PASSWORD
  BY <1>1 DEF authenticate_user
<1>2. CASE ~(name = ADMIN_USERNAME /\ password = ADMIN_PASSWORD)
  <2>1. PICK id \in Matches(name, password) :
           u = [id |-> id, permissions |-> users[id].permissions]
    BY <1>2 DEF authenticate_user
  <2>2. id \in UserIds /\ users[id] # NoUser
    BY DEF Matches
  <2>3. users[id].permissions \in PermissionLists \cup {DefaultPermissions}
    BY <2>2 DEF AccTypeOK, User
  <2> QED BY <2>1, <2>2, <2>3
<1> QED BY <1>1, <1>2

(* A login issues tokens with the claims of the user it matched. *)
LEMMA LoginInv ==
    ASSUME AccInv, NEW name, NEW password, login(name, password)
    PROVE  AccInv'
<1>1. PICK u \in authenticate_user(name, password) : Issue(u.id, u.permissions)
  BY DEF login
<1>2. /\ u.id \in UserIds \cup {AdminId}
      /\ u.permissions \in PermissionLists \cup {DefaultPermissions, AdminPermissions}
  BY LoginUser DEF AccInv
<1> QED BY <1>1, <1>2, IssueInv

(* A refresh issues tokens with the administrator's claims. *)
LEMMA RefreshInv ==
    ASSUME AccInv, NEW t \in tokens, refresh_token(t)
    PROVE  AccInv'
<1>1. t.sub \in UserIds \cup {AdminId} /\ Issue(t.sub, AdminPermissions)
  BY DEF refresh_token, AccInv, AccTypeOK, Token
<1> QED BY <1>1, IssueInv

(* A change of one user keeps the names apart if it keeps its own. *)
LEMMA ChangeInv ==
    ASSUME AccInv, NEW id \in UserIds, NEW user \in User \cup {NoUser}, Change(id, user),
           created' \in SUBSET UserIds, created \subseteq created',
           user # NoUser => /\ id \in created'
                            /\ \A j \in UserIds \ {id} : users[j] # NoUser =>
                                  users[j].username # user.username
    PROVE  AccInv'
<1>1. users' = [users EXCEPT ![id] = user] /\ UNCHANGED <<tokens, clock>>
  BY DEF Change
<1>2. users'[id] = user /\ \A j \in UserIds \ {id} : users'[j] = users[j]
  BY <1>1 DEF AccInv, AccTypeOK
<1>3. AccTypeOK'
  BY <1>1 DEF AccInv, AccTypeOK
<1>4. NamesUnique'
  BY <1>2 DEF AccInv, NamesUnique
<1> QED BY <1>1, <1>3, <1>4 DEF AccInv, RefreshGrantsNothing

(* A user is created under a name that no stored user has. *)
LEMMA CreateInv ==
    ASSUME AccInv, NEW id \in UserIds, NEW name \in Usernames, NEW password \in Passwords,
           NEW permissions \in PermissionLists, create_user(id, name, password, permissions)
    PROVE  AccInv'
<1> DEFINE u == [username |-> name, password |-> password,
                 permissions |-> OrDefault(permissions)]
<1>1. u \in User
  BY DEF User, OrDefault
<1>2. u.username = name
  OBVIOUS
<1> HIDE DEF u
<1>3. Change(id, u) /\ ~Taken(name) /\ created' = created \cup {id}
  BY DEF create_user, u
<1>4. created' \in SUBSET UserIds
  BY <1>3 DEF AccInv, AccTypeOK
<1> QED BY <1>1, <1>2, <1>3, <1>4, ChangeInv DEF Taken

(* Updates, resets and deletions. *)
LEMMA ModifyInv ==
    ASSUME AccInv, NEW id \in UserIds, users[id] # NoUser, created' = created,
           NEW u \in User \cup {NoUser}, Change(id, u),
           u # NoUser => u.username = users[id].username
    PROVE  AccInv'
<1>1. created' \in SUBSET UserIds /\ created \subseteq created' /\ id \in created'
  BY DEF AccInv, AccTypeOK, NamesUnique
<1>2. u # NoUser => \A j \in UserIds \ {id} : users[j] # NoUser =>
                                  users[j].username # u.username
  BY DEF AccInv, NamesUnique
<1> QED BY <1>1, <1>2, ChangeInv

(* An update changes no name. *)
LEMMA UpdateInv ==
    ASSUME AccInv, NEW id \in UserIds, users[id] # NoUser,
           NEW password \in Passwords \cup {users[id].password},
           NEW permissions \in PermissionLists \cup {users[id].permissions},
           update_user(id, password, permissions)
    PROVE  AccInv'
<1> DEFINE u == [users[id] EXCEPT !.password = password, !.permissions = permissions]
<1>1. users[id] \in User
  BY DEF AccInv, AccTypeOK
<1>2. u \in User /\ u.username = users[id].username
  BY <1>1 DEF User
<1>3. Change(id, u) /\ created' = created
  BY DEF update_user
<1> HIDE DEF u
<1> QED BY <1>2, <1>3, ModifyInv

(* A password reset changes no name. *)
LEMMA ResetInv ==
    ASSUME AccInv, NEW id \in UserIds, reset_user_password(id)
    PROVE  AccInv'
<1> DEFINE u == [users[id] EXCEPT !.password = TempPassword]
<1>1. users[id] \in User /\ users[id] # NoUser
  BY DEF reset_user_password, AccInv, AccTypeOK
<1>2. u \in User /\ u.username = users[id].username
  BY <1>1 DEF User
<1>3. Change(id, u) /\ created' = created
  BY DEF reset_user_password
<1> HIDE DEF u
<1> QED BY <1>1, <1>2, <1>3, ModifyInv

(* A user is deleted; its tokens stay. *)
LEMMA DeleteInv ==
    ASSUME AccInv, NEW id \in UserIds, delete_user(id)
    PROVE  AccInv'
<1>1. users[id] # NoUser /\ Change(id, NoUser) /\ created' = created
  BY DEF delete_user
<1> QED BY <1>1, ModifyInv

(* Users and tokens keep their invariant. *)
THEOREM AccInvariant == AccSpec => []AccInv
<1>1. AccInit => AccInv
  BY AccountAssumption DEF AccInit, AccInv, AccTypeOK, NamesUnique, RefreshGrantsNothing
<1>2. ASSUME AccInv, [AccNext]_accVars
      PROVE  AccInv'
  <2>1. ASSUME NEW name \in Usernames, NEW password \in Passwords \cup {TempPassword},
               login(name, password)
        PROVE  AccInv'
    BY <1>2, <2>1, LoginInv
  <2>2. ASSUME NEW t \in tokens, refresh_token(t)
        PROVE  AccInv'
    BY <1>2, <2>2, RefreshInv
  <2>3. ASSUME NEW t \in tokens, logout(t)
        PROVE  AccInv'
    BY <1>2, <2>3 DEF logout, AccInv, AccTypeOK, NamesUnique, RefreshGrantsNothing
  <2>4. ASSUME NEW id \in UserIds, NEW name \in Usernames, NEW password \in Passwords,
               NEW permissions \in PermissionLists,
               create_user(id, name, password, permissions)
        PROVE  AccInv'
    BY <1>2, <2>4, CreateInv
  <2>5. ASSUME NEW id \in UserIds, users[id] # NoUser,
               NEW password \in Passwords \cup {users[id].password},
               NEW permissions \in PermissionLists \cup {users[id].permissions},
               update_user(id, password, permissions)
        PROVE  AccInv'
    BY <1>2, <2>5, UpdateInv
  <2>6. ASSUME NEW id \in UserIds, reset_user_password(id) \/ delete_user(id)
        PROVE  AccInv'
    BY <1>2, <2>6, ResetInv, DeleteInv
  <2>7. CASE AccTick
    BY <1>2, <2>7, AccountAssumption
       DEF AccTick, AccInv, AccTypeOK, NamesUnique, RefreshGrantsNothing
  <2>8. CASE UNCHANGED accVars
    BY <1>2, <2>8 DEF accVars, AccInv, AccTypeOK, NamesUnique, RefreshGrantsNothing
  <2> QED BY <1>2, <2>1, <2>2, <2>3, <2>4, <2>5, <2>6, <2>7, <2>8 DEF AccNext
<1> QED BY <1>1, <1>2, PTL DEF AccSpec

(* For any users, names and passwords, and any order of creations, updates,
   resets and deletions: a login has at most one match. *)
THEOREM LoginsAreDeterministic == AccSpec => []LoginDeterministic
<1>1. ASSUME AccInv, NEW name, NEW password
      PROVE  Cardinality(authenticate_user(name, password)) <= 1
  <2> DEFINE S == authenticate_user(name, password)
  <2>1. \A u, v \in S : u = v
    BY <1>1 DEF authenticate_user, Matches, AccInv, NamesUnique
  <2>2. S = {} \/ \E u : S = {u}
    BY <2>1
  <2> HIDE DEF S
  <2>3. Cardinality(S) = 0 \/ Cardinality(S) = 1
    BY <2>2, FS_EmptySet, FS_Singleton
  <2> QED BY <2>3 DEF S
<1>2. AccInv => LoginDeterministic
  BY <1>1 DEF LoginDeterministic
<1> QED BY <1>2, AccInvariant, PTL

(* Every change of the user store is authorized by an access token. *)
THEOREM WritesAreAuthorized == AccSpec => WritesAuthorized
<1> DEFINE A == users' # users =>
                  \E t \in tokens : /\ t.type = "access" /\ t.exp > clock
                                    /\ has_permission(t.permissions, Write("admin"))
<1>1. ASSUME AccInv, [AccNext]_accVars
      PROVE  [A]_accVars
  <2>1. SUFFICES ASSUME users' # users, AccNext
                 PROVE  \E t \in tokens : /\ t.type = "access" /\ t.exp > clock
                                          /\ has_permission(t.permissions, Write("admin"))
    BY <1>1 DEF accVars
  <2>2. require_permissions(Write("admin"))
    BY <2>1 DEF AccNext, login, refresh_token, logout, Issue, AccTick, create_user,
                update_user, reset_user_password, delete_user, Change
  <2>3. PICK t \in tokens : t.exp > clock /\ has_permission(t.permissions, Write("admin"))
    BY <2>2 DEF require_permissions, decode_token
  <2>4. t.permissions # {}
    BY <2>3 DEF has_permission
  <2>5. t.type \in {"access", "refresh"}
    BY <1>1 DEF AccInv, AccTypeOK, Token
  <2>6. t.type = "access"
    BY <1>1, <2>4, <2>5 DEF AccInv, RefreshGrantsNothing
  <2> QED BY <2>3, <2>6
<1> QED BY <1>1, AccInvariant, PTL DEF AccSpec, WritesAuthorized

(* New tokens of a deleted user come from a good refresh token. *)
THEOREM DeletedUsersOnlyRefresh == AccSpec => DeletedOnlyRefresh
<1> DEFINE A == \A t \in tokens' \ tokens : t.sub \in created /\ users[t.sub] = NoUser =>
                  \E r \in tokens : r.sub = t.sub /\ r.type = "refresh" /\ r.exp > clock
<1>1. ASSUME AccInv, [AccNext]_accVars
      PROVE  [A]_accVars
  <2>1. SUFFICES ASSUME AccNext,
                        NEW t \in tokens' \ tokens, t.sub \in created, users[t.sub] = NoUser
                 PROVE  \E r \in tokens : r.sub = t.sub /\ r.type = "refresh" /\ r.exp > clock
    BY <1>1 DEF accVars
  <2>2. \A id, perms : Issue(id, perms) => t.sub = id
    BY DEF Issue, create_access_token, create_refresh_token
  <2>3. ASSUME NEW name, NEW password, login(name, password)
        PROVE  FALSE
    <3>1. PICK u \in authenticate_user(name, password) : Issue(u.id, u.permissions)
      BY <2>3 DEF login
    <3>2. u.id = AdminId \/ (u.id \in UserIds /\ users[u.id] # NoUser)
      BY <1>1, LoginUser DEF AccInv
    <3>3. t.sub = u.id
      BY <2>2, <3>1
    <3> QED BY <1>1, <2>1, <3>2, <3>3, AccountAssumption DEF AccInv, AccTypeOK
  <2>4. ASSUME NEW r \in tokens, refresh_token(r)
        PROVE  r.sub = t.sub /\ r.type = "refresh" /\ r.exp > clock
    BY <2>2, <2>4 DEF refresh_token, verify_refresh_token, decode_token
  <2>5. \/ \E name \in Usernames, password \in Passwords \cup {TempPassword} :
              login(name, password)
        \/ \E r \in tokens : refresh_token(r)
    BY <2>1 DEF AccNext, logout, AccTick, create_user, update_user, reset_user_password,
                delete_user, Change
  <2> QED BY <2>3, <2>4, <2>5
<1> QED BY <1>1, AccInvariant, PTL DEF AccSpec, DeletedOnlyRefresh
=============================================================================
