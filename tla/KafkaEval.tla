----------------------------- MODULE KafkaEval ------------------------------
(***************************************************************************)
(* The v2 asynchronous tier: the API endpoints that create a job and       *)
(* publish an EvalRequestedEvent (app/api/v2/eval_router.py), the Kafka    *)
(* topic eval.requested, and the eval_worker pods of one consumer group    *)
(* (app/workers/eval_worker.py) over the shared job store (JobStore).      *)
(*                                                                         *)
(* The consumer runs with enable_auto_commit: its position moves when a    *)
(* message is handed to the pod, and a background task commits the         *)
(* position whether or not the message has been handled.                   *)
(***************************************************************************)
EXTENDS JobStore, Sequences

CONSTANTS
    Partitions,         \* the partitions of eval.requested
    NoPod,              \* the owner of an unassigned partition
    NoJob,              \* a pod that handles no message
    MaxCrashes,         \* bound: pods killed
    MaxEvictions,       \* bound: pods expelled from the group while handling
    MaxRebalances,      \* bound: partitions moved between live pods
    MaxRedisErrors,     \* bound: update_job calls that raise
    MaxPublishErrors    \* bound: publishes of a worker's event that raise

Phases == {"idle", "start", "eval", "done", "pub_done", "fail", "pub_fail", "exit"}
Updating == {"start", "done", "fail"}
Publishing == {"pub_done", "pub_fail"}
FaultKinds == {"crash", "evict", "rebalance", "redis", "publish"}
FaultLimit == [crash |-> MaxCrashes, evict |-> MaxEvictions,
               rebalance |-> MaxRebalances, redis |-> MaxRedisErrors,
               publish |-> MaxPublishErrors]

ASSUME KafkaAssumption ==
    /\ MaxCrashes \in Nat /\ MaxEvictions \in Nat /\ MaxRebalances \in Nat
    /\ MaxRedisErrors \in Nat /\ MaxPublishErrors \in Nat
    /\ NoPod \notin Workers
    /\ NoJob \notin Jobs

VARIABLES
    api,        \* what the client of each job has seen of its request
    log,        \* the messages of each partition
    committed,  \* the group's committed offset in each partition
    position,   \* the owner's position in each partition
    owner,      \* the pod each partition is assigned to
    phase,      \* each pod's position in _handle
    cur,        \* the job each pod handles
    events,     \* the status events published, with the job they are about
    faults      \* the faults of each kind so far

topicVars == <<log, committed, position, owner>>
vars == <<store, ttl, snap, issued, api, log, committed, position, owner,
          phase, cur, events, faults>>

(* Type invariant. *)
TypeOK ==
    /\ StoreTypeOK
    /\ api \in [Jobs -> {"none", "created", "accepted", "error", "unavailable"}]
    /\ log \in [Partitions -> Seq(Jobs)]
    /\ committed \in [Partitions -> Nat]
    /\ position \in [Partitions -> Nat]
    /\ \A p \in Partitions :
          committed[p] <= position[p] /\ position[p] <= Len(log[p])
    /\ owner \in [Partitions -> Workers \cup {NoPod}]
    /\ phase \in [Workers -> Phases]
    /\ cur \in [Workers -> Jobs \cup {NoJob}]
    /\ \A w \in Workers : phase[w] \notin {"idle", "exit"} => cur[w] \in Jobs
    /\ events \subseteq {"completed", "failed"} \X Jobs
    /\ faults \in [FaultKinds -> Nat]

Init ==
    /\ StoreInit
    /\ api = [j \in Jobs |-> "none"]
    /\ log = [p \in Partitions |-> <<>>]
    /\ committed = [p \in Partitions |-> 0]
    /\ position = [p \in Partitions |-> 0]
    /\ owner = [p \in Partitions |-> NoPod]
    /\ phase = [w \in Workers |-> "idle"]
    /\ cur = [w \in Workers |-> NoJob]
    /\ events = {}
    /\ faults = [k \in FaultKinds |-> 0]

Fault(kind) ==
    /\ faults[kind] < FaultLimit[kind]
    /\ faults' = [faults EXCEPT ![kind] = @ + 1]

-----------------------------------------------------------------------------
(* evaluate_single_turn_v2 / evaluate_multi_turn_v2. *)

(* _get_kafka_publisher: this API instance runs without Kafka, 503. *)
Unavailable(j) ==
    /\ api[j] = "none"
    /\ api' = [api EXCEPT ![j] = "unavailable"]
    /\ UNCHANGED <<storeVars, topicVars, phase, cur, events, faults>>

CreateJob(j, type) ==
    /\ api[j] = "none"
    /\ create_job(j, type)
    /\ api' = [api EXCEPT ![j] = "created"]
    /\ UNCHANGED <<topicVars, phase, cur, events, faults>>

(* The event carries no key: the producer picks the partition. *)
AppendRequest(j) ==
    /\ \E p \in Partitions : log' = [log EXCEPT ![p] = Append(@, j)]
    /\ UNCHANGED <<committed, position, owner>>

(* send_and_wait with acks=all returned. *)
Publish(j) ==
    /\ api[j] = "created"
    /\ AppendRequest(j)
    /\ api' = [api EXCEPT ![j] = "accepted"]
    /\ UNCHANGED <<storeVars, phase, cur, events, faults>>

(* create_job or publish raises: the client gets an error, the document
   stays, and the topic may hold the message all the same. *)
PublishFails(j) ==
    /\ api[j] = "created"
    /\ AppendRequest(j) \/ UNCHANGED topicVars
    /\ api' = [api EXCEPT ![j] = "error"]
    /\ UNCHANGED <<storeVars, phase, cur, events, faults>>

-----------------------------------------------------------------------------
(* The consumer group. *)

(* Mutant: auto_offset_reset="latest" on every assignment. *)
AssignLatest(p) ==
    /\ owner[p] = NoPod
    /\ \E w \in Workers : owner' = [owner EXCEPT ![p] = w]
    /\ position' = [position EXCEPT ![p] = Len(log[p])]
    /\ UNCHANGED <<storeVars, api, log, committed, phase, cur, events, faults>>

(* An unassigned partition goes to a pod, which resumes at the committed
   offset (auto_offset_reset="earliest" when there is none). *)
Assign(p) ==
    /\ owner[p] = NoPod
    /\ \E w \in Workers : owner' = [owner EXCEPT ![p] = w]
    /\ position' = [position EXCEPT ![p] = committed[p]]
    /\ UNCHANGED <<storeVars, api, log, committed, phase, cur, events, faults>>

(* Mutant: the commit is one message ahead of the position. *)
AutoCommitAhead(p) ==
    /\ owner[p] # NoPod
    /\ committed[p] < position[p]
    /\ committed' = [committed EXCEPT ![p] = position[p] + 1]
    /\ UNCHANGED <<storeVars, api, log, position, owner, phase, cur, events, faults>>

(* The auto-commit task: every message handed out counts as consumed. *)
AutoCommit(p) ==
    /\ owner[p] # NoPod
    /\ committed[p] < position[p]
    /\ committed' = [committed EXCEPT ![p] = position[p]]
    /\ UNCHANGED <<storeVars, api, log, position, owner, phase, cur, events, faults>>

(* A pod joins or leaves: the owner commits, then gives the partition up,
   and goes on with the message it handles. *)
Rebalance(p) ==
    /\ owner[p] # NoPod
    /\ committed' = [committed EXCEPT ![p] = position[p]]
    /\ owner' = [owner EXCEPT ![p] = NoPod]
    /\ Fault("rebalance")
    /\ UNCHANGED <<storeVars, api, log, position, phase, cur, events>>

(* The poll interval or the session runs out: the pod's partitions are taken
   away without a commit, while it goes on with the message it handles. *)
Evict(w) ==
    /\ \E p \in Partitions : owner[p] = w
    /\ owner' = [p \in Partitions |-> IF owner[p] = w THEN NoPod ELSE owner[p]]
    /\ Fault("evict")
    /\ UNCHANGED <<storeVars, api, log, committed, position, phase, cur, events>>

-----------------------------------------------------------------------------
(* main and _handle of eval_worker. *)

(* Mutant: the "running" update is left out. *)
PollSkipsStart(w) ==
    /\ phase[w] = "idle"
    /\ \E p \in Partitions :
          /\ owner[p] = w
          /\ position[p] < Len(log[p])
          /\ cur' = [cur EXCEPT ![w] = log[p][position[p] + 1]]
          /\ position' = [position EXCEPT ![p] = @ + 1]
    /\ phase' = [phase EXCEPT ![w] = "eval"]
    /\ UNCHANGED <<storeVars, api, log, committed, owner, events, faults>>

(* `async for msg in consumer' *)
Poll(w) ==
    /\ phase[w] = "idle"
    /\ \E p \in Partitions :
          /\ owner[p] = w
          /\ position[p] < Len(log[p])
          /\ cur' = [cur EXCEPT ![w] = log[p][position[p] + 1]]
          /\ position' = [position EXCEPT ![p] = @ + 1]
    /\ phase' = [phase EXCEPT ![w] = "start"]
    /\ UNCHANGED <<storeVars, api, log, committed, owner, events, faults>>

(* Mutant: an error of the "running" update is swallowed. *)
AfterErrorSwallowed == [start |-> "eval", done |-> "fail", fail |-> "exit",
                        pub_done |-> "fail", pub_fail |-> "exit"]

(* Mutant: the "failed" event goes out although its update raised. *)
AfterErrorReports == [start |-> "exit", done |-> "fail", fail |-> "pub_fail",
                      pub_done |-> "fail", pub_fail |-> "exit"]

(* Where _handle goes when the update_job call of a phase returns ... *)
AfterUpdate == [start |-> "eval", done |-> "pub_done", fail |-> "pub_fail"]

(* ... and when it, or the publish, raises.  The "completed" update and the
   publish of its event are inside the try; the "running" update and the
   handler's own calls are not, and end the pod's main loop. *)
AfterError == [start |-> "exit", done |-> "fail", fail |-> "exit",
               pub_done |-> "fail", pub_fail |-> "exit"]

Updated(w) ==
    /\ phase' = [phase EXCEPT ![w] = AfterUpdate[@]]
    /\ UNCHANGED <<api, topicVars, cur, events, faults>>

UpdateRead(w) ==
    /\ phase[w] \in Updating
    /\ UpdateGet(w, cur[w])
    /\ UNCHANGED <<api, topicVars, phase, cur, events, faults>>

UpdateSkipped(w) ==
    /\ phase[w] \in Updating
    /\ UpdateMissing(w, cur[w])
    /\ Updated(w)

UpdateWrite(w) ==
    /\ phase[w] \in Updating
    /\ UpdateSet(w, cur[w], Patch[phase[w]])
    /\ Updated(w)

UpdateRaises(w) ==
    /\ phase[w] \in Updating
    /\ UpdateError(w, cur[w], Patch[phase[w]])
    /\ phase' = [phase EXCEPT ![w] = AfterError[@]]
    /\ Fault("redis")
    /\ UNCHANGED <<api, topicVars, cur, events>>

(* Mutant: the event is published before the result is stored. *)
EvaluatePublishesFirst(w) ==
    /\ phase[w] = "eval"
    /\ \E next \in {"pub_done", "fail"} : phase' = [phase EXCEPT ![w] = next]
    /\ UNCHANGED <<storeVars, api, topicVars, cur, events, faults>>

(* svc.evaluate_ragas_*: a result, or an exception the try catches. *)
Evaluate(w) ==
    /\ phase[w] = "eval"
    /\ \E next \in {"done", "fail"} : phase' = [phase EXCEPT ![w] = next]
    /\ UNCHANGED <<storeVars, api, topicVars, cur, events, faults>>

(* The event that goes out in each publishing phase. *)
EventOf == [pub_done |-> "completed", pub_fail |-> "failed"]
Emit(w) == events' = events \cup {<<EventOf[phase[w]], cur[w]>>}

(* The event is out and _handle returns to the loop. *)
PublishEvent(w) ==
    /\ phase[w] \in Publishing
    /\ Emit(w)
    /\ phase' = [phase EXCEPT ![w] = "idle"]
    /\ cur' = [cur EXCEPT ![w] = NoJob]
    /\ UNCHANGED <<storeVars, api, topicVars, faults>>

(* publish raises, with the event on the topic or not. *)
PublishRaises(w) ==
    /\ phase[w] \in Publishing
    /\ Emit(w) \/ UNCHANGED events
    /\ phase' = [phase EXCEPT ![w] = AfterError[@]]
    /\ Fault("publish")
    /\ UNCHANGED <<storeVars, api, topicVars, cur>>

(* The exception leaves main: consumer.stop() commits the position of every
   partition the pod owns, and the pod is started again. *)
Stop(w) ==
    /\ phase[w] = "exit"
    /\ committed' = [p \in Partitions |->
                        IF owner[p] = w THEN position[p] ELSE committed[p]]
    /\ owner' = [p \in Partitions |-> IF owner[p] = w THEN NoPod ELSE owner[p]]
    /\ phase' = [phase EXCEPT ![w] = "idle"]
    /\ cur' = [cur EXCEPT ![w] = NoJob]
    /\ UNCHANGED <<storeVars, api, log, position, events, faults>>

(* The pod is killed: nothing is committed on the way out. *)
Crash(w) ==
    /\ phase[w] # "idle" \/ \E p \in Partitions : owner[p] = w
    /\ DropSnap(w)
    /\ owner' = [p \in Partitions |-> IF owner[p] = w THEN NoPod ELSE owner[p]]
    /\ phase' = [phase EXCEPT ![w] = "idle"]
    /\ cur' = [cur EXCEPT ![w] = NoJob]
    /\ Fault("crash")
    /\ UNCHANGED <<api, log, committed, position, events>>

Expire == Tick /\ UNCHANGED <<api, topicVars, phase, cur, events, faults>>

(* Nothing is left to do: the pods wait for messages. *)
Idle ==
    /\ \A j \in Jobs : api[j] \in {"accepted", "error", "unavailable"}
    /\ \A p \in Partitions : owner[p] # NoPod /\ position[p] = Len(log[p])
    /\ \A w \in Workers : phase[w] = "idle"
    /\ UNCHANGED vars

-----------------------------------------------------------------------------
Submit(j) ==
    \/ Unavailable(j)
    \/ \E type \in JobTypes : CreateJob(j, type)
    \/ Publish(j) \/ PublishFails(j)

Work(w) ==
    \/ Poll(w)
    \/ UpdateRead(w) \/ UpdateSkipped(w) \/ UpdateWrite(w)
    \/ Evaluate(w)
    \/ PublishEvent(w)
    \/ Stop(w)

Next ==
    \/ \E j \in Jobs : Submit(j)
    \/ \E w \in Workers : Work(w) \/ UpdateRaises(w) \/ PublishRaises(w)
                            \/ Evict(w) \/ Crash(w)
    \/ \E p \in Partitions : Assign(p) \/ AutoCommit(p) \/ Rebalance(p)
    \/ Expire
    \/ Idle

Spec == Init /\ [][Next]_vars

(* A pod keeps running its loop, and the group coordinator assigns the
   partitions that have no owner. *)
Fairness ==
    /\ \A w \in Workers : WF_vars(Work(w))
    /\ \A p \in Partitions : WF_vars(Assign(p))

FairSpec == Spec /\ Fairness

-----------------------------------------------------------------------------
(* Properties. *)

(* A consumer of eval.completed that fetches the job finds its result, or a
   404: neither a redelivery after a crash, nor a failed publish, nor a Redis
   error takes the result away again.  (Until a first eviction, which lets
   two pods handle one message.) *)
CompletedEventHasResult ==
    \A j \in Jobs : <<"completed", j>> \in events /\ faults["evict"] = 0 =>
        store[j] = Absent \/ "result" \in store[j].filled

Agree(j, status) == store[j] = Absent \/ store[j].status = status

(* A job reported as completed or failed has that status in the store, also
   when a pod exits on a Redis error, commits and restarts, or a partition
   moves while its message is handled.  (Until a pod is killed or evicted, or
   a publish of its own raises.) *)
EventsAgree ==
    faults["crash"] + faults["evict"] + faults["publish"] = 0 =>
        \A e \in events : Agree(e[2], e[1])

(* Every accepted job is picked up, evaluated, and reported by an event. *)
EventuallyReported ==
    \A j \in Jobs : api[j] = "accepted" ~>
        \E status \in {"completed", "failed"} : <<status, j>> \in events

-----------------------------------------------------------------------------
(* eval_worker.py, module docstring: "v2 job status is written to Redis (same
   store as v1) and to Kafka topics eval.completed / eval.failed".  Refuted:
   the two do not agree once a publish raises. *)
StatusInBoth == \A e \in events : Agree(e[2], e[1])

=============================================================================
