--------------------------- MODULE JobStoreProofs ---------------------------
(***************************************************************************)
(* Facts about the operations of the job store that the proofs about both  *)
(* tiers use: what an update writes, and that no operation leaves the      *)
(* types of the store.                                                     *)
(***************************************************************************)
EXTENDS JobStore, TLAPS

UpdatePhases == {"start", "done", "fail"}

(* A merged document is a document of the same type: update_job's
   data.update keeps every field it is not given. *)
LEMMA MergeType ==
    ASSUME NEW r \in JobRecord, NEW k \in UpdatePhases
    PROVE  /\ Merge(r, Patch[k]) \in JobRecord
           /\ Merge(r, Patch[k]).job_type = r.job_type
           /\ Merge(r, Patch[k]).status = Patch[k].status
           /\ Merge(r, Patch[k]).filled = r.filled \cup Patch[k].fields
<1>1. Patch[k].status \in Statuses /\ Patch[k].fields \subseteq OptionalFields
  <2>1. CASE k = "start" BY <2>1 DEF Patch, Statuses, OptionalFields
  <2>2. CASE k = "done" BY <2>2 DEF Patch, Statuses, OptionalFields
  <2>3. CASE k = "fail" BY <2>3 DEF Patch, Statuses, OptionalFields
  <2> QED BY <2>1, <2>2, <2>3 DEF UpdatePhases
<1>2. SUFFICES ASSUME NEW p, p.status \in Statuses, p.fields \subseteq OptionalFields
               PROVE  /\ Merge(r, p) \in JobRecord
                      /\ Merge(r, p).job_type = r.job_type
                      /\ Merge(r, p).status = p.status
                      /\ Merge(r, p).filled = r.filled \cup p.fields
  BY <1>1
<1>3. r.filled \cup p.fields \in SUBSET OptionalFields
  BY <1>2 DEF JobRecord
<1> QED BY <1>2, <1>3 DEF Merge, JobRecord

(* A key that is set holds a document and its full TTL. *)
LEMMA SetKeyType ==
    ASSUME StoreTypeOK, NEW j \in Jobs, NEW r \in JobRecord, SetKey(j, r)
    PROVE  /\ store' \in [Jobs -> JobRecord \cup {Absent}]
           /\ ttl' \in [Jobs -> 0 .. JOB_TTL]
  BY StoreAssumption DEF StoreTypeOK, SetKey

(* create_job preserves the types of the store. *)
LEMMA CreateType ==
    ASSUME StoreTypeOK, NEW j \in Jobs, NEW type \in JobTypes, create_job(j, type)
    PROVE  StoreTypeOK'
<1>1. NewRecord(type) \in JobRecord
  BY DEF NewRecord, JobRecord, Statuses
<1>2. SetKey(j, NewRecord(type)) BY DEF create_job
<1> QED BY <1>1, <1>2, SetKeyType DEF StoreTypeOK, create_job

(* Both halves of update_job, its early return, its failure and the loss of
   its process preserve the types of the store. *)
LEMMA UpdateType ==
    ASSUME StoreTypeOK, NEW w \in Workers, NEW j \in Jobs, NEW k \in UpdatePhases,
           \/ UpdateGet(w, j)
           \/ UpdateMissing(w, j)
           \/ UpdateSet(w, j, Patch[k])
           \/ UpdateError(w, j, Patch[k])
           \/ DropSnap(w)
    PROVE  StoreTypeOK'
<1>1. CASE UpdateGet(w, j)
  BY <1>1 DEF UpdateGet, StoreTypeOK, get_job
<1>2. CASE UpdateMissing(w, j)
  BY <1>2 DEF UpdateMissing, StoreTypeOK, storeVars
<1>3. CASE UpdateSet(w, j, Patch[k])
  <2>1. Merge(snap[w], Patch[k]) \in JobRecord
    BY <1>3, MergeType DEF UpdateSet, StoreTypeOK
  <2>2. SetKey(j, Merge(snap[w], Patch[k])) BY <1>3 DEF UpdateSet
  <2> QED BY <1>3, <2>1, <2>2, SetKeyType DEF UpdateSet, StoreTypeOK
<1>4. CASE UpdateError(w, j, Patch[k])
  <2>1. snap' \in [Workers -> JobRecord \cup {NoSnap}] /\ issued' = issued
    BY <1>4 DEF UpdateError, StoreTypeOK
  <2>2. CASE UNCHANGED <<store, ttl>> BY <2>1, <2>2 DEF StoreTypeOK
  <2>3. CASE snap[w] # NoSnap /\ SetKey(j, Merge(snap[w], Patch[k]))
    <3>1. Merge(snap[w], Patch[k]) \in JobRecord
      BY <2>3, MergeType DEF StoreTypeOK
    <3> QED BY <2>1, <2>3, <3>1, SetKeyType DEF StoreTypeOK
  <2> QED BY <1>4, <2>2, <2>3 DEF UpdateError
<1>5. CASE DropSnap(w)
  BY <1>5 DEF DropSnap, StoreTypeOK
<1> QED BY <1>1, <1>2, <1>3, <1>4, <1>5

(* The clock preserves the types of the store. *)
LEMMA TickType ==
    ASSUME StoreTypeOK, Tick
    PROVE  StoreTypeOK'
  BY StoreAssumption DEF Tick, StoreTypeOK

(* An update of a coherent document leaves a coherent document that is not
   pending, provided only the "running" update meets a pending one. *)
LEMMA MergeCoherent ==
    ASSUME NEW r \in JobRecord, Coherent(r), NEW k \in UpdatePhases,
           k = "start" \/ r.status # "pending"
    PROVE  /\ Coherent(Merge(r, Patch[k]))
           /\ Merge(r, Patch[k]).status # "pending"
<1> DEFINE d == Merge(r, Patch[k])
<1>1. d.status = Patch[k].status /\ d.filled = r.filled \cup Patch[k].fields
  BY MergeType
<1>2. r.status # "pending" => "started_at" \in r.filled BY DEF Coherent
<1> HIDE DEF d
<1>3. Coherent(d) /\ d.status # "pending"
  <2>1. CASE k = "start"
    <3>1. d.status = "running" /\ d.filled = r.filled \cup {"started_at"}
      BY <1>1, <2>1 DEF Patch
    <3> QED BY <3>1 DEF Coherent
  <2>2. CASE k = "done"
    <3>1. d.status = "completed" /\ d.filled = r.filled \cup {"result", "completed_at"}
      BY <1>1, <2>2 DEF Patch
    <3> QED BY <1>2, <2>2, <3>1 DEF Coherent
  <2>3. CASE k = "fail"
    <3>1. d.status = "failed" /\ d.filled = r.filled \cup {"error", "completed_at"}
      BY <1>1, <2>3 DEF Patch
    <3> QED BY <1>2, <2>3, <3>1 DEF Coherent
  <2> QED BY <2>1, <2>2, <2>3 DEF UpdatePhases
<1> QED BY <1>3 DEF d

-----------------------------------------------------------------------------
(* The operations of the store are steps of the polling contract. *)

(* To a poller, the SET of an update is the job being started or ended. *)
LEMMA UpdateIsContractStep ==
    ASSUME NEW j \in Jobs, NEW k \in UpdatePhases, NEW r \in JobRecord,
           k = "start" \/ r.status # "pending",
           store[j] # Absent => k = "start" \/ store[j].status # "pending",
           r.job_type = issued[j], Coherent(r), issued[j] # Absent,
           UNCHANGED issued, SetKey(j, Merge(r, Patch[k]))
    PROVE  Contract!Next
<1> DEFINE d == Merge(r, Patch[k])
<1>1. d \in JobRecord /\ Coherent(d) /\ d.status = Patch[k].status
  BY MergeType, MergeCoherent
<1>2. d = Contract!Document(issued[j], d.status, d.filled)
  BY DEF Merge, Contract!Document
<1>3. d.filled \in SUBSET OptionalFields BY <1>1 DEF JobRecord
<1>4. store' = [store EXCEPT ![j] = d] BY DEF SetKey
<1> HIDE DEF d
<1>5. CASE k = "start"
  <2>1. d.status = "running" /\ {"started_at"} \subseteq d.filled
    BY <1>1, <1>5 DEF Coherent, Patch
  <2>2. Contract!Report(j, "running", {"started_at"})
    BY <1>2, <1>3, <1>4, <2>1 DEF Contract!Report
  <2> QED BY <2>2 DEF Contract!Next, Contract!Start
<1>6. CASE k = "done"
  <2>1. /\ d.status = "completed"
        /\ {"started_at", "completed_at", "result"} \subseteq d.filled
    BY <1>1, <1>6 DEF Coherent, Patch
  <2>2. Contract!Report(j, "completed", {"started_at", "completed_at", "result"})
    BY <1>2, <1>3, <1>4, <2>1 DEF Contract!Report
  <2> QED BY <1>6, <2>2 DEF Contract!Next, Contract!End
<1>7. CASE k = "fail"
  <2>1. /\ d.status = "failed"
        /\ {"started_at", "completed_at", "error"} \subseteq d.filled
    BY <1>1, <1>7 DEF Coherent, Patch
  <2>2. Contract!Report(j, "failed", {"started_at", "completed_at", "error"})
    BY <1>2, <1>3, <1>4, <2>1 DEF Contract!Report
  <2> QED BY <1>7, <2>2 DEF Contract!Next, Contract!End
<1> QED BY <1>5, <1>6, <1>7 DEF UpdatePhases

(* create_job is the creation of the contract. *)
LEMMA CreateIsContractStep ==
    ASSUME NEW j \in Jobs, NEW type \in JobTypes, create_job(j, type)
    PROVE  Contract!Next
<1>1. /\ issued[j] = Absent /\ issued' = [issued EXCEPT ![j] = type]
      /\ store' = [store EXCEPT ![j] = Contract!Document(type, "pending", {})]
  BY DEF create_job, SetKey, NewRecord, Contract!Document
<1>2. Contract!Create(j) BY <1>1 DEF Contract!Create
<1> QED BY <1>2 DEF Contract!Next

(* A tick is an expiry of the contract. *)
LEMMA TickIsContractStep ==
    ASSUME Tick
    PROVE  Contract!Next
<1> DEFINE E == {j \in Jobs : ttl[j] <= 1}
<1>1. /\ UNCHANGED issued
      /\ store' = [j \in Jobs |-> IF j \in E THEN Absent ELSE store[j]]
  BY DEF Tick
<1>2. E \in SUBSET Jobs OBVIOUS
<1> HIDE DEF E
<1>3. Contract!Expire BY <1>1, <1>2 DEF Contract!Expire
<1> QED BY <1>3 DEF Contract!Next

=============================================================================
