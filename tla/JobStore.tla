------------------------------ MODULE JobStore ------------------------------
(***************************************************************************)
(* The Redis-backed job store shared by both tiers                         *)
(* (app/infra/jobs/redis_job_store.py).  A job is one Redis key holding a  *)
(* JSON document with a time to live.                                      *)
(*                                                                         *)
(* A document is abstracted to its job_type, its status and the set of its *)
(* optional fields that are not None.  update_job merges fields into the   *)
(* document and never puts a field back to None, so `filled' is all that a *)
(* reader of the document can tell apart.                                  *)
(*                                                                         *)
(* update_job is a GET, an await, and a SET of the whole document: the two *)
(* halves are separate actions, and `snap' is the document read but not    *)
(* yet written back.                                                       *)
(***************************************************************************)
EXTENDS Naturals

CONSTANTS
    Jobs,       \* the job ids (uuid4) that create_job will draw, each once
    Workers,    \* the worker processes that call update_job
    Absent,     \* what GET returns for a missing or expired key
    NoSnap,     \* a worker that is not between the GET and the SET
    JOB_TTL     \* JOB_TTL_SECONDS, in ticks of the model's clock

JobTypes == {"ragas_single_turn", "ragas_multi_turn"}
Statuses == {"pending", "running", "completed", "failed"}
OptionalFields == {"result", "error", "started_at", "completed_at"}

JobRecord == [job_type : JobTypes, status : Statuses,
              filled : SUBSET OptionalFields]

ASSUME StoreAssumption ==
    /\ JOB_TTL \in Nat \ {0}
    /\ Absent \notin JobRecord \cup JobTypes
    /\ NoSnap \notin JobRecord

VARIABLES
    store,      \* the document under each job's key
    ttl,        \* the ticks left before Redis drops the key
    snap,       \* the document each worker holds between its GET and its SET
    issued      \* history: the type each job was created with

storeVars == <<store, ttl, snap, issued>>

StoreTypeOK ==
    /\ store \in [Jobs -> JobRecord \cup {Absent}]
    /\ ttl \in [Jobs -> 0 .. JOB_TTL]
    /\ snap \in [Workers -> JobRecord \cup {NoSnap}]
    /\ issued \in [Jobs -> JobTypes \cup {Absent}]

StoreInit ==
    /\ store = [j \in Jobs |-> Absent]
    /\ ttl = [j \in Jobs |-> 0]
    /\ snap = [w \in Workers |-> NoSnap]
    /\ issued = [j \in Jobs |-> Absent]

-----------------------------------------------------------------------------
(* The document create_job writes. *)
NewRecord(type) == [job_type |-> type, status |-> "pending", filled |-> {}]

(* SET key document EX JOB_TTL_SECONDS: every write restarts the TTL. *)
SetKey(j, record) ==
    /\ store' = [store EXCEPT ![j] = record]
    /\ ttl' = [ttl EXCEPT ![j] = JOB_TTL]

(* A job id is a fresh uuid4: no id is created twice. *)
create_job(j, type) ==
    /\ issued[j] = Absent
    /\ SetKey(j, NewRecord(type))
    /\ issued' = [issued EXCEPT ![j] = type]
    /\ UNCHANGED snap

(* What GET /jobs/{job_id} answers: the document, or a 404. *)
get_job(j) == store[j]

(* The keyword arguments of the three update_job calls a worker makes. *)
Patch == [start |-> [status |-> "running",   fields |-> {"started_at"}],
          done  |-> [status |-> "completed", fields |-> {"result", "completed_at"}],
          fail  |-> [status |-> "failed",    fields |-> {"error", "completed_at"}]]

(* Mutant: the patch replaces the document instead of updating it. *)
MergeOverwrites(record, patch) ==
    [job_type |-> record.job_type, status |-> patch.status, filled |-> patch.fields]

(* data.update(fields) *)
Merge(record, patch) ==
    [job_type |-> record.job_type, status |-> patch.status,
     filled |-> record.filled \cup patch.fields]

(* The first half of update_job on an existing key. *)
UpdateGet(w, j) ==
    /\ snap[w] = NoSnap
    /\ get_job(j) # Absent
    /\ snap' = [snap EXCEPT ![w] = get_job(j)]
    /\ UNCHANGED <<store, ttl, issued>>

(* `if not raw: return' - the update is dropped. *)
UpdateMissing(w, j) ==
    /\ snap[w] = NoSnap
    /\ get_job(j) = Absent
    /\ UNCHANGED storeVars

(* The second half: the whole document is written back, whatever happened
   to the key since the GET. *)
UpdateSet(w, j, patch) ==
    /\ snap[w] # NoSnap
    /\ SetKey(j, Merge(snap[w], patch))
    /\ snap' = [snap EXCEPT ![w] = NoSnap]
    /\ UNCHANGED issued

(* A Redis call of update_job raises.  A failed SET may or may not have
   been applied by the server. *)
UpdateError(w, j, patch) ==
    /\ snap' = [snap EXCEPT ![w] = NoSnap]
    /\ \/ UNCHANGED <<store, ttl>>
       \/ snap[w] # NoSnap /\ SetKey(j, Merge(snap[w], patch))
    /\ UNCHANGED issued

(* The worker process dies: what it had read is gone. *)
DropSnap(w) ==
    /\ snap' = [snap EXCEPT ![w] = NoSnap]
    /\ UNCHANGED <<store, ttl, issued>>

(* One tick of the clock: Redis drops the keys whose TTL runs out. *)
Tick ==
    /\ \E j \in Jobs : ttl[j] > 0
    /\ ttl' = [j \in Jobs |-> IF ttl[j] = 0 THEN 0 ELSE ttl[j] - 1]
    /\ store' = [j \in Jobs |-> IF ttl[j] <= 1 THEN Absent ELSE store[j]]
    /\ UNCHANGED <<snap, issued>>

-----------------------------------------------------------------------------
(* Properties of the store that both tiers keep. *)

Coherent(record) ==
    /\ record.status = "pending" => record.filled = {}
    /\ record.status # "pending" => "started_at" \in record.filled
    /\ record.status = "completed" => {"result", "completed_at"} \subseteq record.filled
    /\ record.status = "failed" => {"error", "completed_at"} \subseteq record.filled

(* A poller never reads a document whose fields contradict its status: no
   "completed" without a result, no terminal status on a job that was never
   started, whatever interleaving of update_job's GETs and SETs, expiries,
   crashes, duplicate deliveries and Redis errors led to it. *)
RecordCoherent == \A j \in Jobs : store[j] # Absent => Coherent(store[j])

(* The tier implements the polling contract: every step of its API, its
   queue, its workers and the clock is, to a poller, a step of JobContract
   or no step at all. *)
Contract == INSTANCE JobContract WITH
    Types <- JobTypes, Fields <- OptionalFields, NoJob <- Absent,
    view <- store, type <- issued

ImplementsContract == Contract!Spec

=============================================================================
