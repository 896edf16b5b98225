------------------------------- MODULE ApiKeys -------------------------------
(***************************************************************************)
(* The API key service of core/security/api_key_service.py: a repository   *)
(* of keys, an in-memory cache in front of it, and calls of validate_key   *)
(* and revoke_key that interleave at every await.  A key stands for its    *)
(* plain text, its hash and its key_id: _hash_key is injective and both    *)
(* parts are random.                                                       *)
(***************************************************************************)
EXTENDS Naturals

CONSTANTS Keys,      \* the keys generate_key has returned or will return
          Calls,     \* the validate_key calls that may run at once
          Never,     \* expires_at = None
          NoRow,     \* what get_by_key_hash returns for an unknown key
          MaxTime    \* bound: the clock stops here

(* The part of an APIKey that the service reads. *)
APIKey == [is_active : BOOLEAN, expires_at : (0..MaxTime) \cup {Never}]

ASSUME KeyAssumption ==
    /\ Keys # {}
    /\ MaxTime \in Nat
    /\ Never \notin Nat
    /\ NoRow \notin APIKey

VARIABLES
    repository, \* whether the service was given a repository
    row,        \* the repository: key -> APIKey or NoRow
    cache,      \* self._cache: key -> APIKey, or NoRow when it has no entry
    call,       \* the validate_key calls
    revoke,     \* where the revoke_key call of a key is
    settled,    \* history: keys whose revocation no validation overlapped
    now

keyVars == <<repository, row, cache, call, revoke, settled, now>>

(* A call holds the key, the copy of the row it works on, the time it began,
   and (history) whether the key's revocation was settled by then. *)
Call == [pc : {"idle", "query", "fetched", "touch", "accepted", "refused", "raised"},
         key : Keys, copy : APIKey \cup {NoRow}, began : 0..MaxTime, late : BOOLEAN]

KeyTypeOK ==
    /\ repository \in BOOLEAN
    /\ row \in [Keys -> APIKey \cup {NoRow}]
    /\ cache \in [Keys -> APIKey \cup {NoRow}]
    /\ call \in [Calls -> Call]
    /\ revoke \in [Keys -> {"none", "asked", "committed"}]
    /\ settled \subseteq Keys
    /\ now \in 0..MaxTime

(* APIKeyService.__init__: an empty cache, with a repository or (the
   singleton of get_api_key_service) without one. *)
KeyInit ==
    /\ repository \in BOOLEAN
    /\ row = [k \in Keys |-> NoRow]
    /\ cache = [k \in Keys |-> NoRow]
    /\ call = [c \in Calls |-> [pc |-> "idle", key |-> CHOOSE k \in Keys : TRUE,
                                copy |-> NoRow, began |-> 0, late |-> FALSE]]
    /\ revoke = [k \in Keys |-> "none"]
    /\ settled = {}
    /\ now = 0

-----------------------------------------------------------------------------
Unexpired(key) == key.expires_at = Never \/ key.expires_at > now

(* generate_key, and the repository's create.  The keys it makes never
   expire; the owner of the repository may set an expiry. *)
generate_key(k) ==
    /\ row[k] = NoRow
    /\ \E e \in (1..MaxTime) \cup {Never} :
          row' = [row EXCEPT ![k] = [is_active |-> TRUE, expires_at |-> e]]
    /\ UNCHANGED <<repository, cache, call, revoke, settled, now>>

Running(c) == call[c].pc \in {"query", "fetched", "touch"}

(* Mutant: a cached key is returned whatever its expiry. *)
ValidateIgnoresExpiry(c, k) ==
    /\ ~Running(c)
    /\ LET hit == cache[k] # NoRow /\ cache[k].is_active
           next == IF hit THEN "accepted" ELSE IF repository THEN "query" ELSE "refused"
       IN call' = [call EXCEPT ![c] = [pc |-> next, key |-> k, copy |-> cache[k],
                                       began |-> now, late |-> k \in settled]]
    /\ UNCHANGED <<repository, row, cache, revoke, settled, now>>

(* validate_key up to its first await: the cached key if it is good,
   otherwise the repository's turn, None when there is no repository. *)
validate_key(c, k) ==
    /\ ~Running(c)
    /\ LET hit == cache[k] # NoRow /\ cache[k].is_active /\ Unexpired(cache[k])
           next == IF hit THEN "accepted" ELSE IF repository THEN "query" ELSE "refused"
       IN call' = [call EXCEPT ![c] = [pc |-> next, key |-> k, copy |-> cache[k],
                                       began |-> now, late |-> k \in settled]]
    /\ UNCHANGED <<repository, row, cache, revoke, settled, now>>

(* The repository answers the query: a copy of the row as it is now, which
   the call sees when it is resumed; or the query raises. *)
get_by_key_hash(c) ==
    /\ call[c].pc = "query"
    /\ \/ call' = [call EXCEPT ![c].pc = "fetched", ![c].copy = row[call[c].key]]
       \/ call' = [call EXCEPT ![c].pc = "raised"]
    /\ UNCHANGED <<repository, row, cache, revoke, settled, now>>

(* The call is resumed: refuse, or write the cache and await again. *)
CheckFetched(c) ==
    LET key == call[c].copy IN
    /\ call[c].pc = "fetched"
    /\ IF key # NoRow /\ key.is_active /\ Unexpired(key)
       THEN /\ cache' = [cache EXCEPT ![call[c].key] = key]
            /\ call' = [call EXCEPT ![c].pc = "touch"]
       ELSE /\ call' = [call EXCEPT ![c].pc = "refused"]
            /\ UNCHANGED cache
    /\ UNCHANGED <<repository, row, revoke, settled, now>>

(* update_last_used returns, or raises and is only logged. *)
update_last_used(c) ==
    /\ call[c].pc = "touch"
    /\ call' = [call EXCEPT ![c].pc = "accepted"]
    /\ UNCHANGED <<repository, row, cache, revoke, settled, now>>

(* revoke_key up to its await; without a repository it returns False. *)
revoke_key(k) ==
    /\ repository
    /\ row[k] # NoRow
    /\ revoke[k] = "none"
    /\ revoke' = [revoke EXCEPT ![k] = "asked"]
    /\ UNCHANGED <<repository, row, cache, call, settled, now>>

Deactivate(k) == row' = [row EXCEPT ![k].is_active = FALSE]

RepositoryRevokes(k) ==
    /\ revoke[k] = "asked"
    /\ Deactivate(k)
    /\ revoke' = [revoke EXCEPT ![k] = "committed"]
    /\ UNCHANGED <<repository, cache, call, settled, now>>

(* repository.revoke raises, applied or not: revoke_key returns False and
   leaves the cache alone. *)
RevokeRaises(k) ==
    /\ revoke[k] = "asked"
    /\ Deactivate(k) \/ UNCHANGED row
    /\ revoke' = [revoke EXCEPT ![k] = "none"]
    /\ UNCHANGED <<repository, cache, call, settled, now>>

(* A validation that has read the row as active and has yet to write it. *)
HoldsActiveCopy(c, k) ==
    /\ call[c].pc = "fetched" /\ call[c].key = k
    /\ call[c].copy # NoRow /\ call[c].copy.is_active

Settle(k) == settled' = IF \E c \in Calls : HoldsActiveCopy(c, k)
                        THEN settled ELSE settled \cup {k}

(* Mutant: the cache entry is not removed. *)
RevokeKeepsEntry(k) ==
    /\ revoke[k] = "committed"
    /\ revoke' = [revoke EXCEPT ![k] = "none"]
    /\ Settle(k)
    /\ UNCHANGED <<repository, row, cache, call, now>>

(* revoke_key is resumed: it removes the key's entry and returns True. *)
RevokeReturns(k) ==
    /\ revoke[k] = "committed"
    /\ cache' = [cache EXCEPT ![k] = NoRow]
    /\ revoke' = [revoke EXCEPT ![k] = "none"]
    /\ Settle(k)
    /\ UNCHANGED <<repository, row, call, now>>

KeyTick ==
    /\ now < MaxTime
    /\ now' = now + 1
    /\ UNCHANGED <<repository, row, cache, call, revoke, settled>>

-----------------------------------------------------------------------------
KeyNext ==
    \/ \E k \in Keys : generate_key(k) \/ revoke_key(k) \/ RepositoryRevokes(k)
                          \/ RevokeRaises(k) \/ RevokeReturns(k)
    \/ \E c \in Calls : \/ \E k \in Keys : validate_key(c, k)
                        \/ get_by_key_hash(c) \/ CheckFetched(c) \/ update_last_used(c)
    \/ KeyTick

KeySpec == KeyInit /\ [][KeyNext]_keyVars

-----------------------------------------------------------------------------
(* Properties. *)

(* revoke_key against the cache of validate_key: once revoke_key has returned
   True, no validation that begins later accepts the key, unless some
   validation was, when revoke_key returned, between reading the row as
   active and caching it.  Other revocations of the key, other validations
   and failing repository calls make no difference. *)
RevokedStaysOut ==
    \A c \in Calls : call[c].pc = "accepted" => ~call[c].late

(* Through the cache or past it, also when the key expires or is revoked
   while the call waits: an accepted key had not expired when its validation
   began, so a stale entry lives at most until the key's expiry. *)
ExpiredRefused ==
    \A c \in Calls : call[c].pc = "accepted" =>
        call[c].copy.expires_at = Never \/ call[c].copy.expires_at > call[c].began

=============================================================================
