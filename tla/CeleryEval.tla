----------------------------- MODULE CeleryEval -----------------------------
(***************************************************************************)
(* The v1 asynchronous tier: the API endpoints that create a job and       *)
(* dispatch a Celery task (app/api/v1/eval_router.py), the Redis broker    *)
(* with late acknowledgement (app/workers/celery_app.py) and the workers   *)
(* that run the two evaluation tasks (app/workers/tasks/eval_tasks.py)     *)
(* over the shared job store (JobStore).                                   *)
(*                                                                         *)
(* The two tasks have the same control flow, so one set of actions stands  *)
(* for both; the job's type lives in its document.  The broker is a set of *)
(* message slots (delivery tags).  A message stays "unacked" while a       *)
(* worker runs it, and goes back to its queue when the worker is lost      *)
(* (task_reject_on_worker_lost) or the visibility timeout passes.          *)
(***************************************************************************)
EXTENDS JobStore

CONSTANTS
    Tags,           \* delivery tags: the messages alive at one time
    NoTag,          \* a worker without a message
    MAX_RETRIES,    \* max_retries of both tasks
    MaxCrashes,     \* bound: worker processes lost
    MaxSlow,        \* bound: visibility timeouts that pass during a task
    MaxRedisErrors  \* bound: update_job calls that raise

Message == [job : Jobs, retries : 0 .. MAX_RETRIES]

(* Where a message is.  "dead_letter" is declared in task_queues. *)
Queues == {"evaluation", "dead_letter"}
Places == Queues \cup {"free", "unacked"}

(* Where a worker is in the task body. *)
Phases == {"idle", "start", "eval", "done", "fail", "retry", "ack"}
Updating == {"start", "done", "fail"}

FaultLimit == [crash |-> MaxCrashes, slow |-> MaxSlow, redis |-> MaxRedisErrors]

ASSUME CeleryAssumption ==
    /\ MAX_RETRIES \in Nat
    /\ MaxCrashes \in Nat /\ MaxSlow \in Nat /\ MaxRedisErrors \in Nat
    /\ NoTag \notin Tags
    /\ Jobs # {}

VARIABLES
    api,            \* what the client of each job has seen of its request
    place,          \* where the message of each tag is
    msg,            \* the message of each tag
    phase,          \* each worker's position in the task
    cur,            \* the tag of the message each worker runs
    outcome,        \* how the task of each job first ended ("none": it has not)
    evals,          \* how often each job was evaluated
    redelivered,    \* how often a message of each job went back to its queue
    faults          \* the faults of each kind so far

brokerVars == <<place, msg>>
workerVars == <<phase, cur>>
historyVars == <<outcome, evals, redelivered>>
vars == <<store, ttl, snap, issued, api, place, msg, phase, cur, outcome, evals,
          redelivered, faults>>

(* Type invariant. *)
TypeOK ==
    /\ StoreTypeOK
    /\ api \in [Jobs -> {"none", "created", "accepted", "error"}]
    /\ place \in [Tags -> Places]
    /\ msg \in [Tags -> Message]
    /\ phase \in [Workers -> Phases]
    /\ cur \in [Workers -> Tags \cup {NoTag}]
    /\ \A w \in Workers : phase[w] # "idle" => cur[w] \in Tags
    /\ outcome \in [Jobs -> {"none", "returned", "exhausted", "rejected"}]
    /\ evals \in [Jobs -> Nat]
    /\ redelivered \in [Jobs -> Nat]
    /\ faults \in [{"crash", "slow", "redis"} -> Nat]

Init ==
    /\ StoreInit
    /\ api = [j \in Jobs |-> "none"]
    /\ place = [t \in Tags |-> "free"]
    /\ msg = [t \in Tags |-> [job |-> CHOOSE j \in Jobs : TRUE, retries |-> 0]]
    /\ phase = [w \in Workers |-> "idle"]
    /\ cur = [w \in Workers |-> NoTag]
    /\ outcome = [j \in Jobs |-> "none"]
    /\ evals = [j \in Jobs |-> 0]
    /\ redelivered = [j \in Jobs |-> 0]
    /\ faults = [k \in {"crash", "slow", "redis"} |-> 0]

-----------------------------------------------------------------------------
(* The broker. *)

Job(w) == msg[cur[w]].job

Fault(kind) ==
    /\ faults[kind] < FaultLimit[kind]
    /\ faults' = [faults EXCEPT ![kind] = @ + 1]

Held(t) == \E w \in Workers : phase[w] # "idle" /\ cur[w] = t

(* A new message on the evaluation queue, under a tag nobody uses. *)
Publish(j, retries) ==
    \E t \in Tags :
        /\ place[t] = "free" /\ ~ Held(t)
        /\ place' = [place EXCEPT ![t] = "evaluation"]
        /\ msg' = [msg EXCEPT ![t] = [job |-> j, retries |-> retries]]

Requeue(t) ==
    /\ place' = [place EXCEPT ![t] = "evaluation"]
    /\ redelivered' = [redelivered EXCEPT ![msg[t].job] = @ + 1]
    /\ UNCHANGED <<storeVars, api, msg, phase, cur, outcome, evals>>

(* The message of a lost worker is restored to its queue. *)
Redeliver(t) ==
    /\ place[t] = "unacked" /\ ~ Held(t)
    /\ Requeue(t)
    /\ UNCHANGED faults

(* The visibility timeout passes while the task is still running: the
   message is delivered again beside it. *)
VisibilityTimeout(t) ==
    /\ place[t] = "unacked" /\ Held(t)
    /\ Requeue(t)
    /\ Fault("slow")

-----------------------------------------------------------------------------
(* evaluate_single_turn_async / evaluate_multi_turn_async: create_job, then
   task.delay, with the process free to be delayed or to fail in between. *)

CreateJob(j, type) ==
    /\ api[j] = "none"
    /\ create_job(j, type)
    /\ api' = [api EXCEPT ![j] = "created"]
    /\ UNCHANGED <<brokerVars, workerVars, historyVars, faults>>

Dispatch(j) ==
    /\ api[j] = "created"
    /\ Publish(j, 0)
    /\ api' = [api EXCEPT ![j] = "accepted"]
    /\ UNCHANGED <<storeVars, workerVars, historyVars, faults>>

(* create_job or delay raises: the client gets an error, the document stays,
   and the broker may have taken the message all the same. *)
DispatchFails(j) ==
    /\ api[j] = "created"
    /\ Publish(j, 0) \/ UNCHANGED brokerVars
    /\ api' = [api EXCEPT ![j] = "error"]
    /\ UNCHANGED <<storeVars, workerVars, historyVars, faults>>

-----------------------------------------------------------------------------
(* ragas_single_turn_task / ragas_multi_turn_task. *)

(* Mutant: the message is acknowledged when it is received. *)
ReceiveAcksEarly(w) ==
    /\ phase[w] = "idle"
    /\ \E t \in Tags :
          /\ place[t] = "evaluation"
          /\ place' = [place EXCEPT ![t] = "free"]
          /\ cur' = [cur EXCEPT ![w] = t]
    /\ phase' = [phase EXCEPT ![w] = "start"]
    /\ UNCHANGED <<storeVars, api, msg, historyVars, faults>>

Receive(w) ==
    /\ phase[w] = "idle"
    /\ \E t \in Tags :
          /\ place[t] = "evaluation"
          /\ place' = [place EXCEPT ![t] = "unacked"]
          /\ cur' = [cur EXCEPT ![w] = t]
    /\ phase' = [phase EXCEPT ![w] = "start"]
    /\ UNCHANGED <<storeVars, api, msg, historyVars, faults>>

(* Mutant: the task is retried although it returned. *)
AfterUpdateRetries == [start |-> "eval", done |-> "retry", fail |-> "retry"]

(* Mutant: an error of the "running" update is swallowed. *)
AfterErrorSwallowed == [start |-> "eval", done |-> "fail", fail |-> "retry"]

(* Where the task goes when the update_job call of a phase returns ... *)
AfterUpdate == [start |-> "eval", done |-> "ack", fail |-> "retry"]

(* ... and when it raises: the "running" update is outside the inner try,
   the "completed" update inside it, and the "failed" update is its handler. *)
AfterError == [start |-> "retry", done |-> "fail", fail |-> "retry"]

(* update_job returned: after the "completed" update the task returns. *)
Updated(w) ==
    /\ phase' = [phase EXCEPT ![w] = AfterUpdate[@]]
    /\ outcome' = IF phase[w] = "done" /\ outcome[Job(w)] = "none"
                  THEN [outcome EXCEPT ![Job(w)] = "returned"] ELSE outcome
    /\ UNCHANGED <<api, brokerVars, cur, evals, redelivered, faults>>

UpdateRead(w) ==
    /\ phase[w] \in Updating
    /\ UpdateGet(w, Job(w))
    /\ UNCHANGED <<api, brokerVars, workerVars, historyVars, faults>>

(* Mutant: update_job waits for a missing document instead of returning. *)
UpdateSkippedWaits(w) ==
    /\ phase[w] \in Updating
    /\ UpdateMissing(w, Job(w))
    /\ UNCHANGED <<api, brokerVars, workerVars, historyVars, faults>>

UpdateSkipped(w) ==
    /\ phase[w] \in Updating
    /\ UpdateMissing(w, Job(w))
    /\ Updated(w)

UpdateWrite(w) ==
    /\ phase[w] \in Updating
    /\ UpdateSet(w, Job(w), Patch[phase[w]])
    /\ Updated(w)

UpdateRaises(w) ==
    /\ phase[w] \in Updating
    /\ UpdateError(w, Job(w), Patch[phase[w]])
    /\ phase' = [phase EXCEPT ![w] = AfterError[@]]
    /\ Fault("redis")
    /\ UNCHANGED <<api, brokerVars, cur, historyVars>>

(* Mutant: an exception of the evaluation reaches the retry without the
   "failed" update. *)
EvaluateUncaught(w) ==
    /\ phase[w] = "eval"
    /\ \E next \in {"done", "retry"} : phase' = [phase EXCEPT ![w] = next]
    /\ evals' = [evals EXCEPT ![Job(w)] = @ + 1]
    /\ UNCHANGED <<storeVars, api, brokerVars, cur, outcome, redelivered, faults>>

(* svc.evaluate_ragas_*: a result, or an exception the inner try catches. *)
Evaluate(w) ==
    /\ phase[w] = "eval"
    /\ \E next \in {"done", "fail"} : phase' = [phase EXCEPT ![w] = next]
    /\ evals' = [evals EXCEPT ![Job(w)] = @ + 1]
    /\ UNCHANGED <<storeVars, api, brokerVars, cur, outcome, redelivered, faults>>

(* Mutant: one retry too many. *)
RetryOffByOne(w) ==
    /\ phase[w] = "retry"
    /\ msg[cur[w]].retries <= MAX_RETRIES
    /\ Publish(Job(w), msg[cur[w]].retries + 1)
    /\ phase' = [phase EXCEPT ![w] = "ack"]
    /\ UNCHANGED <<storeVars, api, cur, historyVars, faults>>

(* Mutant: the retry does not count itself. *)
RetryUncounted(w) ==
    /\ phase[w] = "retry"
    /\ msg[cur[w]].retries < MAX_RETRIES
    /\ Publish(Job(w), msg[cur[w]].retries)
    /\ phase' = [phase EXCEPT ![w] = "ack"]
    /\ UNCHANGED <<storeVars, api, cur, historyVars, faults>>

(* raise self.retry: a new message with one more retry is published, then
   the worker goes on to acknowledge the one it ran. *)
Retry(w) ==
    /\ phase[w] = "retry"
    /\ msg[cur[w]].retries < MAX_RETRIES
    /\ Publish(Job(w), msg[cur[w]].retries + 1)
    /\ phase' = [phase EXCEPT ![w] = "ack"]
    /\ UNCHANGED <<storeVars, api, cur, historyVars, faults>>

(* self.retry raises the task's own error once max_retries are used up, and
   Reject when the broker does not take the message: the task ends here. *)
GiveUp(w) ==
    /\ phase[w] = "retry"
    /\ \E how \in {"exhausted", "rejected"} :
          /\ how = "exhausted" <=> msg[cur[w]].retries >= MAX_RETRIES
          /\ outcome' = IF outcome[Job(w)] = "none"
                        THEN [outcome EXCEPT ![Job(w)] = how] ELSE outcome
    /\ phase' = [phase EXCEPT ![w] = "ack"]
    /\ UNCHANGED <<storeVars, api, brokerVars, cur, evals, redelivered, faults>>

(* task_acks_late: only now does the message leave the broker.  If it went
   back to the queue meanwhile, the acknowledgement finds nothing. *)
Ack(w) ==
    /\ phase[w] = "ack"
    /\ place' = [place EXCEPT ![cur[w]] = IF @ = "unacked" THEN "free" ELSE @]
    /\ phase' = [phase EXCEPT ![w] = "idle"]
    /\ cur' = [cur EXCEPT ![w] = NoTag]
    /\ UNCHANGED <<storeVars, api, msg, historyVars, faults>>

(* The worker process is lost and replaced by a fresh one. *)
Crash(w) ==
    /\ phase[w] # "idle"
    /\ DropSnap(w)
    /\ phase' = [phase EXCEPT ![w] = "idle"]
    /\ cur' = [cur EXCEPT ![w] = NoTag]
    /\ Fault("crash")
    /\ UNCHANGED <<api, brokerVars, historyVars>>

Expire == Tick /\ UNCHANGED <<api, brokerVars, workerVars, historyVars, faults>>

(* Nothing is left to do. *)
Terminated ==
    /\ \A j \in Jobs : api[j] \in {"accepted", "error"}
    /\ \A t \in Tags : place[t] = "free"
    /\ \A w \in Workers : phase[w] = "idle"
    /\ UNCHANGED vars

-----------------------------------------------------------------------------
Submit(j) ==
    \/ \E type \in JobTypes : CreateJob(j, type)
    \/ Dispatch(j)
    \/ DispatchFails(j)

Work(w) ==
    \/ Receive(w)
    \/ UpdateRead(w) \/ UpdateSkipped(w) \/ UpdateWrite(w)
    \/ Evaluate(w)
    \/ Retry(w) \/ GiveUp(w)
    \/ Ack(w)

Next ==
    \/ \E j \in Jobs : Submit(j)
    \/ \E w \in Workers : Work(w) \/ UpdateRaises(w) \/ Crash(w)
    \/ \E t \in Tags : Redeliver(t) \/ VisibilityTimeout(t)
    \/ Expire
    \/ Terminated

Spec == Init /\ [][Next]_vars

(* A worker process keeps running its task, and the broker restores the
   messages of lost workers. *)
Fairness ==
    /\ \A w \in Workers : WF_vars(Work(w))
    /\ \A t \in Tags : WF_vars(Redeliver(t))

FairSpec == Spec /\ Fairness

-----------------------------------------------------------------------------
(* Properties. *)

Live(t) == place[t] \in {"evaluation", "unacked"}

(* acks_late and reject_on_worker_lost: the task of a job whose request was
   accepted either ended or still has a message that the broker will deliver
   - also when a worker is lost between publishing a retry and acknowledging
   the message it ran. *)
NoLostTask ==
    \A j \in Jobs : api[j] = "accepted" /\ outcome[j] = "none" =>
        \E t \in Tags : Live(t) /\ msg[t].job = j

(* max_retries bounds the evaluations: a job is evaluated at most
   max_retries + 1 times, and that many times more for each redelivery. *)
RetryBound ==
    \A j \in Jobs : evals[j] <= (MAX_RETRIES + 1) * (1 + redelivered[j])

Quiet(j) ==
    /\ \A t \in Tags : Live(t) => msg[t].job # j
    /\ \A w \in Workers : phase[w] # "idle" => Job(w) # j

(* Once nothing is left to run for an accepted job, its document is terminal
   or has expired: no job is left "pending" or "running" for good, however
   many workers were lost.  (Until a Redis call of an update raises, or a
   second worker gets a message that the first still runs.) *)
QuietIsTerminal ==
    \A j \in Jobs :
        api[j] = "accepted" /\ Quiet(j) /\ faults["redis"] + faults["slow"] = 0 =>
            store[j] = Absent \/ store[j].status \in {"completed", "failed"}

(* Until a first fault, a completed job stays completed, with its result,
   until it expires: no retry or late write of its own task, and no task of
   another job, touches it. *)
CompletedIsFinal ==
    [][\A j \in Jobs :
          /\ \A kind \in DOMAIN faults : faults[kind] = 0
          /\ store[j] # Absent /\ store[j].status = "completed"
          => store'[j] \in {store[j], Absent}]_store

(* Every accepted job's task ends: it returns, runs out of retries, or its
   retry is refused by the broker. *)
EventuallyEnds ==
    \A j \in Jobs : api[j] = "accepted" ~> outcome[j] # "none"

-----------------------------------------------------------------------------
(* What a comment of the code says of this tier, and a run refutes. *)

(* redis_job_store.py, update_job: "Reset TTL on every update so long-running
   jobs don't expire mid-flight" - no document expires during its evaluation. *)
NoExpiryMidFlight ==
    [][\A w \in Workers : phase[w] = "eval" /\ store[Job(w)] # Absent =>
          store'[Job(w)] # Absent]_vars

=============================================================================
