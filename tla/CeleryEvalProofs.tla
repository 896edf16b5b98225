-------------------------- MODULE CeleryEvalProofs --------------------------
(***************************************************************************)
(* Theorems about the v1 tier, for every number of jobs, workers, delivery *)
(* tags, retries and faults.                                               *)
(***************************************************************************)
EXTENDS CeleryEval, JobStoreProofs, FiniteSetTheorems

(* Every action keeps the types of the state. *)
LEMMA TypeInductive == TypeOK /\ [Next]_vars => TypeOK'
<1> SUFFICES ASSUME TypeOK, [Next]_vars PROVE TypeOK'
  OBVIOUS
<1> USE CeleryAssumption
<1>1. ASSUME NEW j \in Jobs, NEW type \in JobTypes, CreateJob(j, type) PROVE TypeOK'
  <2>1. StoreTypeOK'
    BY <1>1, CreateType DEF CreateJob, TypeOK
  <2> QED BY <1>1, <2>1 DEF CreateJob, TypeOK, brokerVars, workerVars, historyVars
<1>2. ASSUME NEW j \in Jobs, NEW n \in 0 .. MAX_RETRIES, Publish(j, n)
      PROVE  place' \in [Tags -> Places] /\ msg' \in [Tags -> Message]
  BY <1>2 DEF Publish, TypeOK, Places, Queues, Message
<1>3. ASSUME NEW j \in Jobs, Dispatch(j) PROVE TypeOK'
  <2>1. place' \in [Tags -> Places] /\ msg' \in [Tags -> Message]
    BY <1>2, <1>3 DEF Dispatch
  <2> QED BY <1>3, <2>1
          DEF Dispatch, TypeOK, StoreTypeOK, storeVars, workerVars, historyVars
<1>4. ASSUME NEW j \in Jobs, DispatchFails(j) PROVE TypeOK'
  <2>1. place' \in [Tags -> Places] /\ msg' \in [Tags -> Message]
    BY <1>2, <1>4 DEF DispatchFails, brokerVars, TypeOK
  <2> QED BY <1>4, <2>1
          DEF DispatchFails, TypeOK, StoreTypeOK, storeVars, workerVars, historyVars
<1>5. ASSUME NEW w \in Workers, Receive(w) PROVE TypeOK'
  <2>1. PICK t \in Tags : /\ place' = [place EXCEPT ![t] = "unacked"]
                          /\ cur' = [cur EXCEPT ![w] = t]
    BY <1>5 DEF Receive
  <2> QED BY <1>5, <2>1 DEF Receive, TypeOK, StoreTypeOK, storeVars, historyVars,
                            Places, Phases
<1>6. ASSUME NEW w \in Workers, phase[w] \in Updating
      PROVE  /\ cur[w] \in Tags /\ Job(w) \in Jobs /\ phase[w] \in UpdatePhases
             /\ AfterUpdate[phase[w]] \in Phases /\ AfterUpdate[phase[w]] # "idle"
             /\ AfterError[phase[w]] \in Phases /\ AfterError[phase[w]] # "idle"
  BY <1>6 DEF TypeOK, Updating, UpdatePhases, Job, Message, AfterUpdate, AfterError, Phases
<1>7. ASSUME NEW w \in Workers, phase[w] \in Updating, StoreTypeOK', Updated(w)
      PROVE  TypeOK'
  <2>1. outcome' \in [Jobs -> {"none", "returned", "exhausted", "rejected"}]
    BY <1>6, <1>7 DEF Updated, TypeOK
  <2> QED BY <1>6, <1>7, <2>1 DEF Updated, TypeOK, brokerVars
<1>8. ASSUME NEW w \in Workers, UpdateRead(w) PROVE TypeOK'
  <2>1. StoreTypeOK'
    BY <1>6, <1>8, UpdateType DEF UpdateRead, TypeOK
  <2> QED BY <1>8, <2>1 DEF UpdateRead, TypeOK, brokerVars, workerVars, historyVars
<1>9. ASSUME NEW w \in Workers, UpdateSkipped(w) PROVE TypeOK'
  BY <1>6, <1>7, <1>9, UpdateType DEF UpdateSkipped, TypeOK
<1>10. ASSUME NEW w \in Workers, UpdateWrite(w) PROVE TypeOK'
  BY <1>6, <1>7, <1>10, UpdateType DEF UpdateWrite, TypeOK
<1>11. ASSUME NEW w \in Workers, UpdateRaises(w) PROVE TypeOK'
  <2>1. StoreTypeOK'
    BY <1>6, <1>11, UpdateType DEF UpdateRaises, TypeOK
  <2> QED BY <1>6, <1>11, <2>1
          DEF UpdateRaises, TypeOK, brokerVars, historyVars, Fault
<1>12. ASSUME NEW w \in Workers, Evaluate(w) PROVE TypeOK'
  <2>1. Job(w) \in Jobs BY <1>12 DEF Evaluate, TypeOK, Job, Message
  <2> QED BY <1>12, <2>1 DEF Evaluate, TypeOK, StoreTypeOK, storeVars, brokerVars, Phases
<1>13. ASSUME NEW w \in Workers, Retry(w) PROVE TypeOK'
  <2>1. Job(w) \in Jobs /\ msg[cur[w]].retries + 1 \in 0 .. MAX_RETRIES
    BY <1>13 DEF Retry, TypeOK, Job, Message
  <2>2. place' \in [Tags -> Places] /\ msg' \in [Tags -> Message]
    BY <1>2, <1>13, <2>1 DEF Retry
  <2> QED BY <1>13, <2>2 DEF Retry, TypeOK, StoreTypeOK, storeVars, historyVars, Phases
<1>14. ASSUME NEW w \in Workers, GiveUp(w) PROVE TypeOK'
  <2>1. Job(w) \in Jobs BY <1>14 DEF GiveUp, TypeOK, Job, Message
  <2>2. outcome' \in [Jobs -> {"none", "returned", "exhausted", "rejected"}]
    BY <1>14, <2>1 DEF GiveUp, TypeOK
  <2> QED BY <1>14, <2>2 DEF GiveUp, TypeOK, StoreTypeOK, storeVars, brokerVars, Phases
<1>15. ASSUME NEW w \in Workers, Ack(w) PROVE TypeOK'
  BY <1>15 DEF Ack, TypeOK, StoreTypeOK, storeVars, historyVars, Places, Phases
<1>16. ASSUME NEW w \in Workers, Crash(w) PROVE TypeOK'
  <2>1. StoreTypeOK' BY <1>16 DEF Crash, DropSnap, TypeOK, StoreTypeOK
  <2> QED BY <1>16, <2>1 DEF Crash, TypeOK, brokerVars, historyVars, Fault, Phases
<1>17. ASSUME NEW t \in Tags, Requeue(t),
              faults' \in [{"crash", "slow", "redis"} -> Nat]
       PROVE  TypeOK'
  <2>1. msg[t].job \in Jobs BY DEF TypeOK, Message
  <2> QED BY <1>17, <2>1 DEF Requeue, TypeOK, StoreTypeOK, storeVars, Places, Queues
<1>18. ASSUME NEW t \in Tags, Redeliver(t) PROVE TypeOK'
  BY <1>17, <1>18 DEF Redeliver, TypeOK
<1>19. ASSUME NEW t \in Tags, VisibilityTimeout(t) PROVE TypeOK'
  <2>1. faults' \in [{"crash", "slow", "redis"} -> Nat]
    BY <1>19 DEF VisibilityTimeout, Fault, TypeOK
  <2> QED BY <1>17, <1>19, <2>1 DEF VisibilityTimeout
<1>20. CASE Expire
  BY <1>20, TickType DEF Expire, TypeOK, brokerVars, workerVars, historyVars
<1>21. CASE UNCHANGED vars
  BY <1>21 DEF vars, TypeOK, StoreTypeOK
<1> QED BY <1>1, <1>3, <1>4, <1>5, <1>8, <1>9, <1>10, <1>11, <1>12, <1>13, <1>14,
           <1>15, <1>16, <1>18, <1>19, <1>20, <1>21
        DEF Next, Submit, Work, Terminated

(* The initial state is well typed. *)
LEMMA InitTypeOK == Init => TypeOK
<1>1. ASSUME Init PROVE TypeOK
  <2>1. PICK any \in Jobs : any = CHOOSE j \in Jobs : TRUE
    BY CeleryAssumption
  <2>2. msg = [t \in Tags |-> [job |-> any, retries |-> 0]]
    BY <1>1, <2>1, Zenon DEF Init
  <2>3. msg \in [Tags -> Message]
    BY <2>2, CeleryAssumption DEF Message
  <2>4. StoreTypeOK
    BY <1>1, StoreAssumption DEF Init, StoreInit, StoreTypeOK
  <2> QED BY <1>1, <2>3, <2>4 DEF Init, TypeOK, Places, Phases
<1> QED BY <1>1

(* The type invariant holds in every reachable state of the v1 tier. *)
THEOREM TypeCorrect == Spec => []TypeOK
  BY InitTypeOK, TypeInductive, PTL DEF Spec

-----------------------------------------------------------------------------
(* Why RecordCoherent holds.  It is not inductive alone: an update of a      *)
(* document that was never started would break it.  The strengthening        *)
(* follows a job through the task body.                                      *)

(* Only jobs that were created are on the broker or in a worker, so          *)
(* create_job never touches a job that somebody works on. *)
IssuedFirst ==
    /\ \A j \in Jobs : api[j] # "none" => issued[j] # Absent
    /\ \A t \in Tags : place[t] # "free" => issued[msg[t].job] # Absent
    /\ \A w \in Workers : phase[w] # "idle" => issued[Job(w)] # Absent

(* Documents, and the copies held between a GET and a SET, are coherent and  *)
(* of the type their job was created with. *)
DocumentsCoherent ==
    /\ \A j \in Jobs : store[j] # Absent =>
          /\ Coherent(store[j])
          /\ store[j].job_type = issued[j]
          /\ issued[j] # Absent
    /\ \A w \in Workers : snap[w] # NoSnap =>
          /\ phase[w] \in Updating
          /\ Coherent(snap[w])
          /\ snap[w].job_type = issued[Job(w)]

(* Past the "running" update, neither the document nor a copy of it is       *)
(* pending. *)
StartedFirst ==
    \A w \in Workers :
        /\ phase[w] \in {"eval", "done", "fail"} =>
              store[Job(w)] = Absent \/ store[Job(w)].status # "pending"
        /\ phase[w] \in {"done", "fail"} =>
              snap[w] = NoSnap \/ snap[w].status # "pending"

CoherenceInv == TypeOK /\ IssuedFirst /\ DocumentsCoherent /\ StartedFirst

(* Publishing a message does not change the message any worker runs. *)
LEMMA PublishKeepsJobs ==
    ASSUME TypeOK, NEW j \in Jobs, NEW n \in 0 .. MAX_RETRIES, Publish(j, n), cur' = cur
    PROVE  \A w \in Workers : phase[w] # "idle" =>
              /\ cur[w] \in Tags
              /\ msg'[cur[w]] = msg[cur[w]]
              /\ Job(w)' = Job(w)
  BY DEF TypeOK, Publish, Held, Job

(* A message on the broker is of a created job: publishing keeps it so. *)
LEMMA PublishIssued ==
    ASSUME TypeOK, IssuedFirst, NEW j \in Jobs, NEW n \in 0 .. MAX_RETRIES,
           Publish(j, n), issued[j] # Absent, UNCHANGED issued
    PROVE  \A t \in Tags : place'[t] # "free" => issued'[msg'[t].job] # Absent
<1>1. PICK t \in Tags : /\ place' = [place EXCEPT ![t] = "evaluation"]
                        /\ msg' = [msg EXCEPT ![t] = [job |-> j, retries |-> n]]
  BY DEF Publish
<1> QED BY <1>1 DEF TypeOK, IssuedFirst

(* The effect of a completed update_job on the invariant: worker w writes     *)
(* the merged copy and moves on to phase q. *)
LEMMA WriteCoherent ==
    ASSUME CoherenceInv, NEW w \in Workers, phase[w] \in Updating, snap[w] # NoSnap,
           SetKey(Job(w), Merge(snap[w], Patch[phase[w]])),
           snap' = [snap EXCEPT ![w] = NoSnap], UNCHANGED <<issued, cur, msg>>,
           NEW q \in Phases, phase' = [phase EXCEPT ![w] = q]
    PROVE  DocumentsCoherent' /\ StartedFirst'
<1> DEFINE r == Merge(snap[w], Patch[phase[w]])
<1>1. /\ Job(w) \in Jobs /\ phase[w] \in UpdatePhases /\ snap[w] \in JobRecord
  BY DEF CoherenceInv, TypeOK, StoreTypeOK, Job, Message, Updating, UpdatePhases
<1>2. phase[w] = "start" \/ snap[w].status # "pending"
  BY DEF CoherenceInv, StartedFirst, Updating
<1>3. /\ r \in JobRecord /\ Coherent(r) /\ r.status # "pending"
      /\ r.job_type = issued[Job(w)]
  BY <1>1, <1>2, MergeType, MergeCoherent DEF CoherenceInv, DocumentsCoherent
<1>4. store' = [store EXCEPT ![Job(w)] = r] BY DEF SetKey
<1>5. issued[Job(w)] # Absent
  BY DEF CoherenceInv, IssuedFirst, Updating
<1>6. \A v \in Workers : Job(v)' = Job(v) BY DEF Job
<1> HIDE DEF r
<1>7. DocumentsCoherent'
  BY <1>1, <1>3, <1>4, <1>5, <1>6 DEF CoherenceInv, DocumentsCoherent, TypeOK, StoreTypeOK
<1>8. StartedFirst'
  <2> SUFFICES ASSUME NEW v \in Workers
               PROVE  /\ phase'[v] \in {"eval", "done", "fail"} =>
                            store'[Job(v)] = Absent \/ store'[Job(v)].status # "pending"
                      /\ phase'[v] \in {"done", "fail"} =>
                            snap'[v] = NoSnap \/ snap'[v].status # "pending"
    BY <1>6 DEF StartedFirst
  <2>1. CASE v = w
    BY <2>1, <1>1, <1>3, <1>4 DEF CoherenceInv, TypeOK, StoreTypeOK
  <2>2. CASE v # w
    <3>1. phase'[v] = phase[v] /\ snap'[v] = snap[v]
      BY <2>2 DEF CoherenceInv, TypeOK, StoreTypeOK
    <3> QED BY <3>1, <1>1, <1>3, <1>4 DEF CoherenceInv, StartedFirst, TypeOK, StoreTypeOK
  <2> QED BY <2>1, <2>2
<1> QED BY <1>7, <1>8

(* Every action preserves the strengthened invariant. *)
LEMMA CoherenceInductive == CoherenceInv /\ [Next]_vars => CoherenceInv'
<1> SUFFICES ASSUME CoherenceInv, [Next]_vars PROVE CoherenceInv'
  OBVIOUS
<1>0. TypeOK /\ TypeOK' BY TypeInductive DEF CoherenceInv
<1> USE DEF CoherenceInv
<1>1. ASSUME NEW j \in Jobs, NEW type \in JobTypes, CreateJob(j, type)
      PROVE  CoherenceInv'
  <2>1. /\ issued[j] = Absent /\ type # Absent
        /\ issued' = [issued EXCEPT ![j] = type]
        /\ store' = [store EXCEPT ![j] = NewRecord(type)]
        /\ api' = [api EXCEPT ![j] = "created"]
        /\ UNCHANGED <<snap, place, msg, phase, cur>>
    BY <1>1, StoreAssumption DEF CreateJob, create_job, SetKey, brokerVars, workerVars
  <2>2. \A w \in Workers : Job(w)' = Job(w) BY <2>1 DEF Job
  <2>3. \A w \in Workers : phase[w] # "idle" => Job(w) # j
    BY <2>1 DEF IssuedFirst
  <2>4. \A w \in Workers : phase[w] # "idle" => Job(w) \in Jobs
    BY <1>0 DEF TypeOK, Job, Message
  <2>5. IssuedFirst'
    BY <1>0, <2>1, <2>2, <2>3, <2>4 DEF IssuedFirst, TypeOK, StoreTypeOK, Message
  <2>6. Coherent(NewRecord(type)) /\ NewRecord(type).job_type = type
    BY DEF Coherent, NewRecord
  <2>7. DocumentsCoherent'
    BY <1>0, <2>1, <2>2, <2>3, <2>4, <2>6
    DEF DocumentsCoherent, TypeOK, StoreTypeOK, Updating
  <2>8. StartedFirst'
    BY <1>0, <2>1, <2>2, <2>3, <2>4 DEF StartedFirst, TypeOK, StoreTypeOK
  <2> QED BY <1>0, <2>5, <2>7, <2>8
<1>2. ASSUME UNCHANGED storeVars, UNCHANGED phase,
             \A w \in Workers : phase[w] # "idle" => Job(w)' = Job(w)
      PROVE  DocumentsCoherent' /\ StartedFirst'
  BY <1>2 DEF DocumentsCoherent, StartedFirst, storeVars, Updating
<1>3. ASSUME NEW j \in Jobs, NEW n \in 0 .. MAX_RETRIES, Publish(j, n),
             issued[j] # Absent, UNCHANGED <<storeVars, phase, cur>>,
             \A i \in Jobs : api'[i] # "none" => api[i] # "none"
      PROVE  CoherenceInv'
  <2>1. \A w \in Workers : phase[w] # "idle" => Job(w)' = Job(w)
    BY <1>0, <1>3, PublishKeepsJobs
  <2>2. \A t \in Tags : place'[t] # "free" => issued'[msg'[t].job] # Absent
    BY <1>0, <1>3, PublishIssued DEF storeVars
  <2> QED BY <1>0, <1>2, <1>3, <2>1, <2>2 DEF IssuedFirst, storeVars
<1>4. ASSUME NEW j \in Jobs, Dispatch(j) PROVE CoherenceInv'
  <2>1. \A i \in Jobs : api'[i] # "none" => api[i] # "none"
    BY <1>0, <1>4 DEF Dispatch, TypeOK
  <2>2. issued[j] # Absent BY <1>4 DEF Dispatch, IssuedFirst
  <2> QED BY <1>3, <1>4, <2>1, <2>2, CeleryAssumption DEF Dispatch, workerVars
<1>5. ASSUME NEW j \in Jobs, DispatchFails(j) PROVE CoherenceInv'
  <2>1. \A i \in Jobs : api'[i] # "none" => api[i] # "none"
    BY <1>0, <1>5 DEF DispatchFails, TypeOK
  <2>2. issued[j] # Absent BY <1>5 DEF DispatchFails, IssuedFirst
  <2>3. CASE Publish(j, 0)
    BY <1>3, <1>5, <2>1, <2>2, <2>3, CeleryAssumption DEF DispatchFails, workerVars
  <2>4. CASE UNCHANGED brokerVars
    <3>1. \A w \in Workers : Job(w)' = Job(w)
      BY <1>5, <2>4 DEF DispatchFails, Job, workerVars, brokerVars
    <3> QED BY <1>0, <1>2, <1>5, <2>1, <2>4, <3>1
            DEF DispatchFails, IssuedFirst, workerVars, brokerVars, storeVars
  <2> QED BY <1>5, <2>3, <2>4 DEF DispatchFails
<1>6. ASSUME NEW w \in Workers, Receive(w) PROVE CoherenceInv'
  <2>1. PICK t \in Tags : /\ place[t] = "evaluation"
                          /\ place' = [place EXCEPT ![t] = "unacked"]
                          /\ cur' = [cur EXCEPT ![w] = t]
    BY <1>6 DEF Receive
  <2>2. /\ phase[w] = "idle" /\ phase' = [phase EXCEPT ![w] = "start"]
        /\ UNCHANGED <<store, snap, issued, api, msg>>
    BY <1>6 DEF Receive, storeVars
  <2>3. snap[w] = NoSnap BY <2>2 DEF DocumentsCoherent, Updating
  <2>4. Job(w)' = msg[t].job BY <1>0, <2>1, <2>2 DEF Job, TypeOK
  <2>5. \A v \in Workers : v # w => Job(v)' = Job(v) /\ phase'[v] = phase[v]
    BY <1>0, <2>1, <2>2 DEF Job, TypeOK
  <2>6. IssuedFirst'
    BY <1>0, <2>1, <2>2, <2>4, <2>5 DEF IssuedFirst, TypeOK
  <2>7. DocumentsCoherent'
    BY <1>0, <2>2, <2>3, <2>5 DEF DocumentsCoherent, TypeOK
  <2>8. StartedFirst'
    BY <1>0, <2>2, <2>5 DEF StartedFirst, TypeOK
  <2> QED BY <1>0, <2>6, <2>7, <2>8
<1>7. ASSUME NEW w \in Workers, phase[w] # "idle", NEW q \in Phases,
             phase' = [phase EXCEPT ![w] = q], UNCHANGED <<issued, api, place, msg, cur>>
      PROVE  IssuedFirst' /\ \A v \in Workers : Job(v)' = Job(v)
  BY <1>0, <1>7 DEF IssuedFirst, Job, TypeOK
<1>8. ASSUME NEW w \in Workers, phase[w] \in Updating
      PROVE  /\ AfterUpdate[phase[w]] \in Phases /\ AfterError[phase[w]] \in Phases
             /\ phase[w] # "idle" /\ Job(w) \in Jobs
  BY <1>0, <1>8 DEF Updating, AfterUpdate, AfterError, Phases, TypeOK, Job, Message
<1>9. ASSUME NEW w \in Workers, UpdateRead(w) PROVE CoherenceInv'
  <2>1. /\ phase[w] \in Updating /\ store[Job(w)] # Absent /\ Job(w) \in Jobs
        /\ snap' = [snap EXCEPT ![w] = store[Job(w)]]
        /\ UNCHANGED <<store, issued, api, place, msg, phase, cur>>
    BY <1>8, <1>9 DEF UpdateRead, UpdateGet, get_job, brokerVars, workerVars
  <2>2. \A v \in Workers : Job(v)' = Job(v) BY <2>1 DEF Job
  <2>3. IssuedFirst' BY <2>1, <2>2 DEF IssuedFirst
  <2>4. DocumentsCoherent'
    BY <1>0, <2>1, <2>2 DEF DocumentsCoherent, TypeOK, StoreTypeOK
  <2>5. StartedFirst'
    BY <1>0, <2>1, <2>2 DEF StartedFirst, TypeOK, StoreTypeOK
  <2> QED BY <1>0, <2>3, <2>4, <2>5
<1>10. ASSUME NEW w \in Workers, UpdateSkipped(w) PROVE CoherenceInv'
  <2>1. /\ phase[w] \in Updating /\ snap[w] = NoSnap /\ store[Job(w)] = Absent
        /\ phase' = [phase EXCEPT ![w] = AfterUpdate[phase[w]]]
        /\ UNCHANGED <<store, snap, issued, api, place, msg, cur>>
    BY <1>10 DEF UpdateSkipped, UpdateMissing, Updated, get_job, storeVars, brokerVars
  <2>2. IssuedFirst' /\ \A v \in Workers : Job(v)' = Job(v)
    BY <1>7, <1>8, <2>1
  <2>3. DocumentsCoherent'
    BY <1>0, <2>1, <2>2 DEF DocumentsCoherent, TypeOK
  <2>4. StartedFirst'
    BY <1>0, <2>1, <2>2 DEF StartedFirst, TypeOK
  <2> QED BY <1>0, <2>2, <2>3, <2>4
<1>11. ASSUME NEW w \in Workers, UpdateWrite(w) PROVE CoherenceInv'
  <2>1. /\ phase[w] \in Updating /\ snap[w] # NoSnap
        /\ SetKey(Job(w), Merge(snap[w], Patch[phase[w]]))
        /\ snap' = [snap EXCEPT ![w] = NoSnap]
        /\ phase' = [phase EXCEPT ![w] = AfterUpdate[phase[w]]]
        /\ UNCHANGED <<issued, api, place, msg, cur>>
    BY <1>11 DEF UpdateWrite, UpdateSet, Updated, brokerVars
  <2> QED BY <1>0, <1>7, <1>8, <2>1, WriteCoherent
<1>12. ASSUME NEW w \in Workers, UpdateRaises(w) PROVE CoherenceInv'
  <2>1. /\ phase[w] \in Updating
        /\ snap' = [snap EXCEPT ![w] = NoSnap]
        /\ phase' = [phase EXCEPT ![w] = AfterError[phase[w]]]
        /\ UNCHANGED <<issued, api, place, msg, cur>>
    BY <1>12 DEF UpdateRaises, UpdateError, brokerVars
  <2>2. IssuedFirst' /\ \A v \in Workers : Job(v)' = Job(v)
    BY <1>7, <1>8, <2>1
  <2>3. CASE snap[w] # NoSnap /\ SetKey(Job(w), Merge(snap[w], Patch[phase[w]]))
    BY <1>0, <1>8, <2>1, <2>2, <2>3, WriteCoherent
  <2>4. CASE UNCHANGED <<store, ttl>>
    <3>1. DocumentsCoherent'
      BY <1>0, <2>1, <2>2, <2>4 DEF DocumentsCoherent, TypeOK, StoreTypeOK
    <3>2. AfterError[phase[w]] \in {"done", "fail"} => phase[w] = "done"
      BY <2>1 DEF AfterError, Updating
    <3>3. AfterError[phase[w]] # "eval" BY <2>1 DEF AfterError, Updating
    <3>4. StartedFirst'
      BY <1>0, <2>1, <2>2, <2>4, <3>2, <3>3 DEF StartedFirst, TypeOK, StoreTypeOK
    <3> QED BY <1>0, <2>2, <3>1, <3>4
  <2> QED BY <1>12, <2>3, <2>4 DEF UpdateRaises, UpdateError
<1>13. ASSUME NEW w \in Workers, Evaluate(w) PROVE CoherenceInv'
  <2>1. PICK next \in {"done", "fail"} : phase' = [phase EXCEPT ![w] = next]
    BY <1>13 DEF Evaluate
  <2>2. /\ phase[w] = "eval" /\ next \in Phases
        /\ UNCHANGED <<store, snap, issued, api, place, msg, cur>>
    BY <1>13 DEF Evaluate, storeVars, brokerVars, Phases
  <2>3. snap[w] = NoSnap BY <2>2 DEF DocumentsCoherent, Updating
  <2>4. IssuedFirst' /\ \A v \in Workers : Job(v)' = Job(v)
    BY <1>7, <2>1, <2>2
  <2>5. DocumentsCoherent'
    BY <1>0, <2>1, <2>2, <2>3, <2>4 DEF DocumentsCoherent, TypeOK
  <2>6. StartedFirst'
    BY <1>0, <2>1, <2>2, <2>3, <2>4 DEF StartedFirst, TypeOK
  <2> QED BY <1>0, <2>4, <2>5, <2>6
<1>14. ASSUME NEW w \in Workers, Retry(w) PROVE CoherenceInv'
  <2>1. /\ phase[w] = "retry" /\ phase' = [phase EXCEPT ![w] = "ack"]
        /\ Publish(Job(w), msg[cur[w]].retries + 1)
        /\ UNCHANGED <<store, snap, issued, api, cur>>
    BY <1>14 DEF Retry, storeVars
  <2>2. Job(w) \in Jobs /\ msg[cur[w]].retries + 1 \in 0 .. MAX_RETRIES
    BY <1>0, <1>14, CeleryAssumption DEF Retry, TypeOK, Job, Message
  <2>3. \A v \in Workers : phase[v] # "idle" => Job(v)' = Job(v)
    BY <1>0, <2>1, <2>2, PublishKeepsJobs
  <2>4. \A t \in Tags : place'[t] # "free" => issued'[msg'[t].job] # Absent
    BY <1>0, <2>1, <2>2, PublishIssued DEF IssuedFirst
  <2>5. IssuedFirst' BY <1>0, <2>1, <2>3, <2>4 DEF IssuedFirst, TypeOK
  <2>6. snap[w] = NoSnap BY <2>1 DEF DocumentsCoherent, Updating
  <2>7. DocumentsCoherent'
    BY <1>0, <2>1, <2>3, <2>6 DEF DocumentsCoherent, TypeOK, Updating
  <2>8. StartedFirst' BY <1>0, <2>1, <2>3 DEF StartedFirst, TypeOK
  <2> QED BY <1>0, <2>5, <2>7, <2>8
<1>15. ASSUME NEW w \in Workers, GiveUp(w) PROVE CoherenceInv'
  <2>1. /\ phase[w] = "retry" /\ phase' = [phase EXCEPT ![w] = "ack"] /\ "ack" \in Phases
        /\ UNCHANGED <<store, snap, issued, api, place, msg, cur>>
    BY <1>15 DEF GiveUp, storeVars, brokerVars, Phases
  <2>2. IssuedFirst' /\ \A v \in Workers : Job(v)' = Job(v)
    BY <1>7, <2>1
  <2>3. snap[w] = NoSnap BY <2>1 DEF DocumentsCoherent, Updating
  <2>4. DocumentsCoherent'
    BY <1>0, <2>1, <2>2, <2>3 DEF DocumentsCoherent, TypeOK
  <2>5. StartedFirst' BY <1>0, <2>1, <2>2 DEF StartedFirst, TypeOK
  <2> QED BY <1>0, <2>2, <2>4, <2>5
<1>16. ASSUME NEW w \in Workers, phase' = [phase EXCEPT ![w] = "idle"],
              cur' = [cur EXCEPT ![w] = NoTag], snap' = [snap EXCEPT ![w] = NoSnap],
              UNCHANGED <<store, issued, api, msg>>,
              \A t \in Tags : place'[t] # "free" => place[t] # "free"
       PROVE  CoherenceInv'
  <2>1. \A v \in Workers : phase'[v] # "idle" =>
            v # w /\ phase'[v] = phase[v] /\ snap'[v] = snap[v] /\ Job(v)' = Job(v)
    BY <1>0, <1>16 DEF TypeOK, StoreTypeOK, Job
  <2>2. IssuedFirst' BY <1>16, <2>1 DEF IssuedFirst
  <2>3. DocumentsCoherent'
    BY <1>0, <1>16, <2>1 DEF DocumentsCoherent, TypeOK, StoreTypeOK, Updating
  <2>4. StartedFirst' BY <1>16, <2>1 DEF StartedFirst
  <2> QED BY <1>0, <2>2, <2>3, <2>4
<1>17. ASSUME NEW w \in Workers, Ack(w) PROVE CoherenceInv'
  <2>1. snap[w] = NoSnap BY <1>17 DEF Ack, DocumentsCoherent, Updating
  <2>2. snap' = [snap EXCEPT ![w] = NoSnap]
    BY <1>0, <1>17, <2>1 DEF Ack, storeVars, TypeOK, StoreTypeOK
  <2>3. \A t \in Tags : place'[t] # "free" => place[t] # "free"
    BY <1>0, <1>17 DEF Ack, TypeOK
  <2> QED BY <1>16, <1>17, <2>2, <2>3 DEF Ack, storeVars
<1>18. ASSUME NEW w \in Workers, Crash(w) PROVE CoherenceInv'
  BY <1>16, <1>18 DEF Crash, DropSnap, brokerVars
<1>19. ASSUME NEW t \in Tags, Requeue(t), place[t] = "unacked" PROVE CoherenceInv'
  <2>1. /\ place' = [place EXCEPT ![t] = "evaluation"]
        /\ UNCHANGED <<store, snap, issued, api, msg, phase, cur>>
    BY <1>19 DEF Requeue, storeVars
  <2>2. \A v \in Workers : Job(v)' = Job(v) BY <2>1 DEF Job
  <2>3. IssuedFirst' BY <1>0, <1>19, <2>1, <2>2 DEF IssuedFirst, TypeOK
  <2>4. DocumentsCoherent' BY <2>1, <2>2 DEF DocumentsCoherent
  <2>5. StartedFirst' BY <2>1, <2>2 DEF StartedFirst
  <2> QED BY <1>0, <2>3, <2>4, <2>5
<1>20. CASE Expire
  <2>1. /\ \A j \in Jobs : store'[j] \in {store[j], Absent}
        /\ UNCHANGED <<snap, issued, api, place, msg, phase, cur>>
    BY <1>20 DEF Expire, Tick, brokerVars, workerVars
  <2>2. \A v \in Workers : Job(v)' = Job(v) BY <2>1 DEF Job
  <2>3. \A v \in Workers : phase[v] # "idle" => Job(v) \in Jobs
    BY <1>0 DEF TypeOK, Job, Message
  <2>4. IssuedFirst' BY <2>1, <2>2 DEF IssuedFirst
  <2>5. DocumentsCoherent' BY <2>1, <2>2 DEF DocumentsCoherent
  <2>6. StartedFirst' BY <2>1, <2>2, <2>3 DEF StartedFirst
  <2> QED BY <1>0, <2>4, <2>5, <2>6
<1>21. CASE UNCHANGED vars
  <2>1. \A v \in Workers : Job(v)' = Job(v) BY <1>21 DEF Job, vars
  <2> QED BY <1>0, <1>21, <2>1 DEF vars, IssuedFirst, DocumentsCoherent, StartedFirst
<1> QED BY <1>1, <1>4, <1>5, <1>6, <1>9, <1>10, <1>11, <1>12, <1>13, <1>14, <1>15,
           <1>17, <1>18, <1>19, <1>20, <1>21
        DEF Next, Submit, Work, Redeliver, VisibilityTimeout, Terminated

(* The strengthened invariant holds initially. *)
LEMMA CoherenceInitially == Init => CoherenceInv
<1> SUFFICES ASSUME Init PROVE CoherenceInv OBVIOUS
<1>1. TypeOK BY InitTypeOK
<1> QED BY <1>1 DEF Init, StoreInit, CoherenceInv, IssuedFirst, DocumentsCoherent, StartedFirst

(* In every reachable state of the v1 tier, a document's fields agree with
   its status. *)
THEOREM RecordsStayCoherent == Spec => []RecordCoherent
<1>1. CoherenceInv => RecordCoherent
  BY DEF CoherenceInv, DocumentsCoherent, RecordCoherent
<1> QED BY <1>1, CoherenceInitially, CoherenceInductive, PTL DEF Spec

-----------------------------------------------------------------------------
(* The v1 tier implements the polling contract. *)

(* To a poller, the SET of an update is the job being started or ended. *)
LEMMA WriteIsContractStep ==
    ASSUME CoherenceInv, NEW w \in Workers, phase[w] \in Updating, snap[w] # NoSnap,
           SetKey(Job(w), Merge(snap[w], Patch[phase[w]])), UNCHANGED issued
    PROVE  Contract!Next
<1> DEFINE j == Job(w)
<1>1. j \in Jobs /\ phase[w] \in UpdatePhases /\ snap[w] \in JobRecord
  BY DEF CoherenceInv, TypeOK, StoreTypeOK, Job, Message, Updating, UpdatePhases
<1>2. phase[w] = "start" \/ snap[w].status # "pending"
  BY DEF CoherenceInv, StartedFirst, Updating
<1>3. store[j] # Absent => phase[w] = "start" \/ store[j].status # "pending"
  BY DEF CoherenceInv, StartedFirst, Updating
<1>4. snap[w].job_type = issued[j] /\ Coherent(snap[w])
  BY DEF CoherenceInv, DocumentsCoherent
<1>5. issued[j] # Absent BY DEF CoherenceInv, IssuedFirst, Updating
<1>6. UNCHANGED issued /\ SetKey(j, Merge(snap[w], Patch[phase[w]])) OBVIOUS
<1> HIDE DEF j
<1> QED BY <1>1, <1>2, <1>3, <1>4, <1>5, <1>6, UpdateIsContractStep

(* Every step of the tier is a step of the contract, or leaves what a poller
   reads unchanged. *)
LEMMA StepIsContractStep ==
    CoherenceInv /\ [Next]_vars => [Contract!Next]_(Contract!contractVars)
<1> SUFFICES ASSUME CoherenceInv, [Next]_vars
             PROVE  Contract!Next \/ UNCHANGED <<store, issued>>
  BY DEF Contract!contractVars
<1>1. ASSUME NEW j \in Jobs, NEW type \in JobTypes, CreateJob(j, type)
      PROVE  Contract!Next
  BY <1>1, CreateIsContractStep DEF CreateJob
<1>2. ASSUME NEW w \in Workers, UpdateWrite(w) PROVE Contract!Next
  BY <1>2, WriteIsContractStep DEF UpdateWrite, UpdateSet
<1>3. ASSUME NEW w \in Workers, UpdateRaises(w)
      PROVE  Contract!Next \/ UNCHANGED <<store, issued>>
  BY <1>3, WriteIsContractStep DEF UpdateRaises, UpdateError
<1>4. ASSUME Expire PROVE Contract!Next
  BY <1>4, TickIsContractStep DEF Expire
<1>5. ASSUME NEW j \in Jobs, Dispatch(j) \/ DispatchFails(j)
      PROVE  UNCHANGED <<store, issued>>
  BY <1>5 DEF Dispatch, DispatchFails, storeVars
<1>6. ASSUME NEW w \in Workers, UpdateRead(w) \/ UpdateSkipped(w) \/ Crash(w)
      PROVE  UNCHANGED <<store, issued>>
  BY <1>6 DEF UpdateRead, UpdateSkipped, Crash, UpdateGet, UpdateMissing, DropSnap, storeVars
<1>7. ASSUME NEW w \in Workers,
             Receive(w) \/ Evaluate(w) \/ Retry(w) \/ GiveUp(w) \/ Ack(w)
      PROVE  UNCHANGED <<store, issued>>
  BY <1>7 DEF Receive, Evaluate, Retry, GiveUp, Ack, storeVars
<1>8. ASSUME NEW t \in Tags, Redeliver(t) \/ VisibilityTimeout(t)
      PROVE  UNCHANGED <<store, issued>>
  BY <1>8 DEF Redeliver, VisibilityTimeout, Requeue, storeVars
<1>9. ASSUME UNCHANGED vars PROVE UNCHANGED <<store, issued>>
  BY <1>9 DEF vars
<1> QED BY <1>1, <1>2, <1>3, <1>4, <1>5, <1>6, <1>7, <1>8, <1>9
        DEF Next, Submit, Work, Terminated

(* Whatever the interleaving, the retries, the duplicate deliveries, the
   crashes and the Redis errors, a poller of the v1 tier sees a behaviour of
   JobContract. *)
THEOREM CeleryImplementsContract == Spec => ImplementsContract
<1>1. Init => Contract!Init
  BY DEF Init, StoreInit, Contract!Init
<1>2. Spec => []CoherenceInv
  BY CoherenceInitially, CoherenceInductive, PTL DEF Spec
<1> QED BY <1>1, <1>2, StepIsContractStep, PTL DEF Spec, ImplementsContract, Contract!Spec

-----------------------------------------------------------------------------
(* No accepted task is lost.  NoLostTask is not inductive: an acknowledgement
   removes a message, so the invariant also says what a worker that is about
   to acknowledge leaves behind - a message of the same job with more
   retries.  (Some other message of the job would not do: two workers could
   each rely on the message the other one is about to acknowledge.) *)

Successor(w) ==
    \E t \in Tags : /\ Live(t) /\ msg[t].job = Job(w)
                    /\ msg[t].retries > msg[cur[w]].retries

LeavesSuccessor ==
    \A w \in Workers : phase[w] = "ack" /\ outcome[Job(w)] = "none" => Successor(w)

NoLostInv == TypeOK /\ NoLostTask /\ LeavesSuccessor

(* A step that takes no message off the broker and makes no task unfinished
   again keeps every promise made before it; newly accepted jobs and workers
   that newly reach their acknowledgement are left to show. *)
KeepsMessages ==
    /\ \A t \in Tags : Live(t) => Live(t)' /\ msg'[t] = msg[t]
    /\ \A j \in Jobs : outcome'[j] = "none" => outcome[j] = "none"

(* Such a step loses no accepted task and no successor. *)
LEMMA KeepsTasks ==
    ASSUME NoLostInv, KeepsMessages
    PROVE  /\ \A j \in Jobs : api[j] = "accepted" /\ outcome'[j] = "none" =>
                 \E t \in Tags : Live(t)' /\ msg'[t].job = j
           /\ \A w \in Workers :
                 phase[w] = "ack" /\ cur'[w] = cur[w] /\ msg'[cur[w]] = msg[cur[w]]
                 /\ outcome'[Job(w)] = "none" => Successor(w)' /\ Job(w)' = Job(w)
<1>1. ASSUME NEW j \in Jobs, api[j] = "accepted", outcome'[j] = "none"
      PROVE  \E t \in Tags : Live(t)' /\ msg'[t].job = j
  BY <1>1 DEF NoLostInv, NoLostTask, KeepsMessages
<1>2. ASSUME NEW w \in Workers, phase[w] = "ack", cur'[w] = cur[w],
             msg'[cur[w]] = msg[cur[w]], outcome'[Job(w)] = "none"
      PROVE  Successor(w)' /\ Job(w)' = Job(w)
  <2>1. Job(w) \in Jobs /\ Job(w)' = Job(w)
    BY <1>2 DEF NoLostInv, TypeOK, Job, Message
  <2>2. PICK t \in Tags : /\ Live(t) /\ msg[t].job = Job(w)
                          /\ msg[t].retries > msg[cur[w]].retries
    BY <1>2, <2>1 DEF NoLostInv, LeavesSuccessor, KeepsMessages, Successor
  <2> QED BY <1>2, <2>1, <2>2 DEF KeepsMessages, Successor
<1> QED BY <1>1, <1>2

(* Publishing takes no message off the broker, and adds one. *)
LEMMA PublishAdds ==
    ASSUME TypeOK, NEW j \in Jobs, NEW n \in 0 .. MAX_RETRIES, Publish(j, n)
    PROVE  /\ \A t \in Tags : Live(t) => Live(t)' /\ msg'[t] = msg[t]
           /\ \E t \in Tags : Live(t)' /\ msg'[t] = [job |-> j, retries |-> n]
  BY DEF TypeOK, Publish, Live

(* Every action preserves the strengthened invariant. *)
LEMMA NoLostInductive == NoLostInv /\ [Next]_vars => NoLostInv'
<1> SUFFICES ASSUME NoLostInv, [Next]_vars PROVE NoLostInv'
  OBVIOUS
<1>0. TypeOK /\ TypeOK' BY TypeInductive DEF NoLostInv
<1>1. ASSUME UNCHANGED <<api, phase, cur, outcome>>, KeepsMessages,
             \A w \in Workers : phase[w] # "idle" => msg'[cur[w]] = msg[cur[w]]
      PROVE  NoLostInv'
  <2>1. NoLostTask' BY <1>1, KeepsTasks DEF NoLostTask
  <2>2. LeavesSuccessor'
    BY <1>0, <1>1, KeepsTasks DEF LeavesSuccessor, Job
  <2> QED BY <1>0, <2>1, <2>2 DEF NoLostInv
<1>2. ASSUME NEW w \in Workers, NEW q \in Phases \ {"ack"},
             phase' = [phase EXCEPT ![w] = q],
             cur' = cur \/ (q = "idle" /\ cur' = [cur EXCEPT ![w] = NoTag])
                        \/ (phase[w] = "idle" /\ \E t \in Tags : cur' = [cur EXCEPT ![w] = t]),
             UNCHANGED <<api, msg, outcome>>, \A t \in Tags : Live(t) => Live(t)'
      PROVE  NoLostInv'
  <2>1. KeepsMessages BY <1>2 DEF KeepsMessages
  <2>2. NoLostTask' BY <1>2, <2>1, KeepsTasks DEF NoLostTask
  <2>3. \A v \in Workers : phase'[v] = "ack" => phase[v] = "ack" /\ cur'[v] = cur[v]
    BY <1>0, <1>2 DEF TypeOK
  <2>4. LeavesSuccessor'
    BY <1>0, <1>2, <2>1, <2>3, KeepsTasks DEF LeavesSuccessor, Job
  <2> QED BY <1>0, <2>2, <2>4 DEF NoLostInv
<1>3. ASSUME NEW j \in Jobs, NEW type \in JobTypes, CreateJob(j, type) PROVE NoLostInv'
  <2>1. /\ api' = [api EXCEPT ![j] = "created"]
        /\ UNCHANGED <<place, msg, phase, cur, outcome>>
    BY <1>3 DEF CreateJob, brokerVars, workerVars, historyVars
  <2>2. NoLostTask'
    BY <1>0, <2>1 DEF NoLostInv, NoLostTask, Live, TypeOK
  <2>3. LeavesSuccessor'
    BY <2>1 DEF NoLostInv, LeavesSuccessor, Successor, Live, Job
  <2> QED BY <1>0, <2>2, <2>3 DEF NoLostInv
<1>4. ASSUME NEW j \in Jobs, Dispatch(j) \/ DispatchFails(j) PROVE NoLostInv'
  <2>1. /\ UNCHANGED <<phase, cur, outcome>>
        /\ Publish(j, 0) \/ UNCHANGED <<place, msg>>
        /\ \A i \in Jobs : api'[i] = "accepted" =>
              api[i] = "accepted" \/ (i = j /\ Publish(j, 0))
    BY <1>0, <1>4 DEF Dispatch, DispatchFails, workerVars, historyVars, brokerVars, TypeOK
  <2>2. 0 \in 0 .. MAX_RETRIES BY CeleryAssumption
  <2>3. KeepsMessages
    BY <1>0, <2>1, <2>2, PublishAdds DEF KeepsMessages, Live
  <2>4. \A w \in Workers : phase[w] # "idle" => msg'[cur[w]] = msg[cur[w]]
    BY <1>0, <2>1, <2>2, PublishKeepsJobs
  <2>5. NoLostTask'
    <3> SUFFICES ASSUME NEW i \in Jobs, api'[i] = "accepted", outcome'[i] = "none"
                 PROVE  \E t \in Tags : Live(t)' /\ msg'[t].job = i
      BY DEF NoLostTask
    <3>1. CASE api[i] = "accepted" BY <2>3, <3>1, KeepsTasks
    <3>2. CASE i = j /\ Publish(j, 0)
      <4>1. PICK t \in Tags : Live(t)' /\ msg'[t] = [job |-> j, retries |-> 0]
        BY <1>0, <2>2, <3>2, PublishAdds
      <4> QED BY <3>2, <4>1
    <3> QED BY <2>1, <3>1, <3>2
  <2>6. LeavesSuccessor'
    BY <1>0, <2>1, <2>3, <2>4, KeepsTasks DEF LeavesSuccessor, Job
  <2> QED BY <1>0, <2>5, <2>6 DEF NoLostInv
<1>5. ASSUME NEW w \in Workers, Receive(w) PROVE NoLostInv'
  <2>1. PICK t \in Tags : /\ place' = [place EXCEPT ![t] = "unacked"]
                          /\ cur' = [cur EXCEPT ![w] = t]
    BY <1>5 DEF Receive
  <2>2. \A u \in Tags : Live(u) => Live(u)' BY <1>0, <2>1 DEF Live, TypeOK
  <2> QED BY <1>2, <1>5, <2>1, <2>2 DEF Receive, historyVars, Phases
<1>6. ASSUME NEW w \in Workers, UpdateRead(w) PROVE NoLostInv'
  BY <1>1, <1>6 DEF UpdateRead, brokerVars, workerVars, historyVars, KeepsMessages, Live
<1>7. ASSUME NEW w \in Workers, phase[w] \in Updating, Updated(w) PROVE NoLostInv'
  <2>1. /\ phase' = [phase EXCEPT ![w] = AfterUpdate[phase[w]]]
        /\ UNCHANGED <<api, place, msg, cur>>
        /\ outcome' = IF phase[w] = "done" /\ outcome[Job(w)] = "none"
                      THEN [outcome EXCEPT ![Job(w)] = "returned"] ELSE outcome
    BY <1>7 DEF Updated, brokerVars
  <2>2. Job(w) \in Jobs BY <1>0, <1>7 DEF TypeOK, Job, Message, Updating
  <2>3. KeepsMessages BY <1>0, <2>1, <2>2 DEF KeepsMessages, Live, TypeOK
  <2>4. NoLostTask' BY <2>1, <2>3, KeepsTasks DEF NoLostTask
  <2>5. AfterUpdate[phase[w]] = "ack" => outcome'[Job(w)] # "none"
    BY <1>0, <1>7, <2>1, <2>2 DEF AfterUpdate, Updating, TypeOK
  <2>6. \A v \in Workers : Job(v)' = Job(v) BY <2>1 DEF Job
  <2>7. LeavesSuccessor'
    BY <1>0, <2>1, <2>3, <2>5, <2>6, KeepsTasks DEF LeavesSuccessor, TypeOK
  <2> QED BY <1>0, <2>4, <2>7 DEF NoLostInv
<1>8. ASSUME NEW w \in Workers, UpdateRaises(w) PROVE NoLostInv'
  <2>1. AfterError[phase[w]] \in Phases \ {"ack"}
    BY <1>8 DEF UpdateRaises, AfterError, Updating, Phases
  <2> QED BY <1>2, <1>8, <2>1 DEF UpdateRaises, brokerVars, historyVars, Live
<1>9. ASSUME NEW w \in Workers, Evaluate(w) PROVE NoLostInv'
  BY <1>2, <1>9 DEF Evaluate, brokerVars, Live, Phases
<1>10. ASSUME NEW w \in Workers, Retry(w) PROVE NoLostInv'
  <2>1. /\ phase[w] = "retry" /\ phase' = [phase EXCEPT ![w] = "ack"]
        /\ Publish(Job(w), msg[cur[w]].retries + 1)
        /\ UNCHANGED <<api, cur, outcome>>
    BY <1>10 DEF Retry, historyVars
  <2>2. /\ cur[w] \in Tags /\ Job(w) \in Jobs /\ msg[cur[w]].retries \in Nat
        /\ msg[cur[w]].retries + 1 \in 0 .. MAX_RETRIES
    BY <1>0, <1>10, CeleryAssumption DEF Retry, TypeOK, Job, Message
  <2>3. KeepsMessages BY <1>0, <2>1, <2>2, PublishAdds DEF KeepsMessages
  <2>4. \A v \in Workers : phase[v] # "idle" =>
            msg'[cur[v]] = msg[cur[v]] /\ Job(v)' = Job(v)
    BY <1>0, <2>1, <2>2, PublishKeepsJobs
  <2>5. NoLostTask' BY <2>1, <2>3, KeepsTasks DEF NoLostTask
  <2>6. Successor(w)'
    <3>1. PICK t \in Tags : Live(t)' /\ msg'[t] = [job |-> Job(w), retries |-> msg[cur[w]].retries + 1]
      BY <1>0, <2>1, <2>2, PublishAdds
    <3>2. msg'[t].job = Job(w)' /\ msg'[t].retries > msg'[cur'[w]].retries
      BY <2>1, <2>2, <2>4, <3>1
    <3> QED BY <3>1, <3>2 DEF Successor
  <2>7. LeavesSuccessor'
    BY <1>0, <2>1, <2>3, <2>4, <2>6, KeepsTasks DEF LeavesSuccessor, TypeOK
  <2> QED BY <1>0, <2>5, <2>7 DEF NoLostInv
<1>11. ASSUME NEW w \in Workers, GiveUp(w) PROVE NoLostInv'
  <2>1. PICK how \in {"exhausted", "rejected"} :
            outcome' = IF outcome[Job(w)] = "none"
                       THEN [outcome EXCEPT ![Job(w)] = how] ELSE outcome
    BY <1>11 DEF GiveUp
  <2>2. /\ phase[w] = "retry" /\ phase' = [phase EXCEPT ![w] = "ack"]
        /\ UNCHANGED <<api, place, msg, cur>>
    BY <1>11 DEF GiveUp, brokerVars
  <2>3. Job(w) \in Jobs BY <1>0, <2>2 DEF TypeOK, Job, Message
  <2>4. KeepsMessages BY <1>0, <2>1, <2>2, <2>3 DEF KeepsMessages, Live, TypeOK
  <2>5. NoLostTask' BY <2>2, <2>4, KeepsTasks DEF NoLostTask
  <2>6. outcome'[Job(w)] # "none" BY <1>0, <2>1, <2>3 DEF TypeOK
  <2>7. \A v \in Workers : Job(v)' = Job(v) BY <2>2 DEF Job
  <2>8. LeavesSuccessor'
    BY <1>0, <2>2, <2>4, <2>6, <2>7, KeepsTasks DEF LeavesSuccessor, TypeOK
  <2> QED BY <1>0, <2>5, <2>8 DEF NoLostInv
<1>12. ASSUME NEW w \in Workers, Ack(w) PROVE NoLostInv'
  <2>1. /\ phase[w] = "ack" /\ phase' = [phase EXCEPT ![w] = "idle"]
        /\ cur' = [cur EXCEPT ![w] = NoTag] /\ UNCHANGED <<api, msg, outcome>>
        /\ place' = [place EXCEPT ![cur[w]] = IF @ = "unacked" THEN "free" ELSE @]
    BY <1>12 DEF Ack, historyVars
  <2>2. cur[w] \in Tags /\ Job(w) \in Jobs /\ Job(w) = msg[cur[w]].job
    BY <1>0, <2>1 DEF TypeOK, Job, Message
  <2>3. \A t \in Tags : t # cur[w] /\ Live(t) => Live(t)'
    BY <1>0, <2>1 DEF Live, TypeOK
  <2>4. ASSUME NEW t \in Tags, Live(t), outcome[msg[t].job] = "none"
        PROVE  \E u \in Tags : /\ Live(u)' /\ msg[u].job = msg[t].job
                               /\ msg[u].retries >= msg[t].retries
    <3>0. \A u \in Tags : msg[u].retries \in Nat
      BY <1>0, CeleryAssumption DEF TypeOK, Message
    <3>1. CASE t # cur[w] BY <2>3, <2>4, <3>0, <3>1
    <3>2. CASE t = cur[w]
      <4>1. PICK u \in Tags : /\ Live(u) /\ msg[u].job = Job(w)
                              /\ msg[u].retries > msg[cur[w]].retries
        BY <2>1, <2>2, <2>4, <3>2 DEF NoLostInv, LeavesSuccessor, Successor
      <4>2. u # cur[w] BY <3>0, <4>1
      <4> QED BY <2>2, <2>3, <3>0, <3>2, <4>1, <4>2
    <3> QED BY <3>1, <3>2
  <2>5. NoLostTask'
    BY <2>1, <2>4 DEF NoLostInv, NoLostTask
  <2>6. LeavesSuccessor'
    <3> SUFFICES ASSUME NEW v \in Workers, phase'[v] = "ack", outcome'[Job(v)'] = "none"
                 PROVE  Successor(v)'
      BY DEF LeavesSuccessor
    <3>1. v # w /\ phase[v] = "ack" /\ cur'[v] = cur[v] /\ Job(v)' = Job(v)
      BY <1>0, <2>1 DEF TypeOK, Job
    <3>2. PICK t \in Tags : /\ Live(t) /\ msg[t].job = Job(v)
                            /\ msg[t].retries > msg[cur[v]].retries
      BY <2>1, <3>1 DEF NoLostInv, LeavesSuccessor, Successor
    <3>3. PICK u \in Tags : /\ Live(u)' /\ msg[u].job = msg[t].job
                            /\ msg[u].retries >= msg[t].retries
      BY <2>1, <2>4, <3>1, <3>2
    <3>4. cur[v] \in Tags /\ \A x \in Tags : msg[x].retries \in Nat
      BY <1>0, <3>1, CeleryAssumption DEF TypeOK, Message
    <3> QED BY <2>1, <3>1, <3>2, <3>3, <3>4 DEF Successor
  <2> QED BY <1>0, <2>5, <2>6 DEF NoLostInv
<1>13. ASSUME NEW w \in Workers, Crash(w) PROVE NoLostInv'
  BY <1>2, <1>13 DEF Crash, brokerVars, historyVars, Live, Phases
<1>14. ASSUME NEW t \in Tags, Redeliver(t) \/ VisibilityTimeout(t) PROVE NoLostInv'
  <2>1. /\ place' = [place EXCEPT ![t] = "evaluation"]
        /\ UNCHANGED <<api, msg, phase, cur, outcome>>
    BY <1>14 DEF Redeliver, VisibilityTimeout, Requeue
  <2>2. KeepsMessages BY <1>0, <2>1 DEF KeepsMessages, Live, TypeOK
  <2> QED BY <1>1, <2>1, <2>2
<1>15. CASE Expire \/ UNCHANGED vars
  BY <1>1, <1>15 DEF Expire, vars, brokerVars, workerVars, historyVars, KeepsMessages, Live
<1> QED BY <1>3, <1>4, <1>5, <1>6, <1>7, <1>8, <1>9, <1>10, <1>11, <1>12, <1>13,
           <1>14, <1>15
        DEF Next, Submit, Work, UpdateSkipped, UpdateWrite, Terminated

(* The broker never loses the task of an accepted job before it has ended,
   wherever workers are lost and however often messages are redelivered. *)
THEOREM NoTaskIsLost == Spec => []NoLostTask
<1>1. Init => NoLostInv
  <2> SUFFICES ASSUME Init PROVE NoLostInv OBVIOUS
  <2>1. TypeOK BY InitTypeOK
  <2> QED BY <2>1 DEF Init, NoLostInv, NoLostTask, LeavesSuccessor
<1>2. NoLostInv => NoLostTask BY DEF NoLostInv
<1> QED BY <1>1, <1>2, NoLostInductive, PTL DEF Spec

-----------------------------------------------------------------------------
(* Why QuietIsTerminal holds.  While no visibility timeout has passed, a
   message has at most one holder, and stays unacknowledged until that holder
   acknowledges it; so the message of a lost worker is delivered again, and
   every document that is not in a terminal state has a message to be
   delivered or a worker that will write it. *)

NonIdle(w) == phase[w] # "idle"

Holders ==
    faults["slow"] = 0 =>
        /\ \A w \in Workers : NonIdle(w) => place[cur[w]] = "unacked"
        /\ \A v, w \in Workers : NonIdle(v) /\ NonIdle(w) /\ cur[v] = cur[w] => v = w

(* What will still be delivered, and who will still write. *)
OpenMessage(t) == place[t] = "evaluation" \/ (place[t] = "unacked" /\ ~ Held(t))
OpenWorker(w) == phase[w] \in {"start", "eval", "done", "fail"}

Open(j) ==
    \/ \E t \in Tags : OpenMessage(t) /\ msg[t].job = j
    \/ \E w \in Workers : OpenWorker(w) /\ Job(w) = j

Ended(j) == store[j] = Absent \/ store[j].status \in {"completed", "failed"}

Driven ==
    faults["redis"] + faults["slow"] = 0 =>
        \A j \in Jobs : api[j] = "accepted" => Ended(j) \/ Open(j)

QuietInv == TypeOK /\ Holders /\ Driven

(* Faults are only ever counted up. *)
LEMMA FaultsGrow ==
    ASSUME TypeOK, [Next]_vars, NEW k \in {"crash", "slow", "redis"}, faults'[k] = 0
    PROVE  faults[k] = 0
<1>1. \/ faults' = faults
      \/ \E kind \in {"crash", "slow", "redis"} : faults' = [faults EXCEPT ![kind] = @ + 1]
  <2>1. ASSUME NEW j \in Jobs, Submit(j) PROVE faults' = faults
    BY <2>1 DEF Submit, CreateJob, Dispatch, DispatchFails
  <2>2. ASSUME NEW w \in Workers, Work(w) PROVE faults' = faults
    BY <2>2 DEF Work, Receive, UpdateRead, UpdateSkipped, UpdateWrite, Updated, Evaluate,
                Retry, GiveUp, Ack
  <2>3. ASSUME NEW w \in Workers, UpdateRaises(w) \/ Crash(w)
        PROVE  \E kind \in {"crash", "slow", "redis"} : faults' = [faults EXCEPT ![kind] = @ + 1]
    BY <2>3 DEF UpdateRaises, Crash, Fault
  <2>4. ASSUME NEW t \in Tags, Redeliver(t) \/ VisibilityTimeout(t)
        PROVE  \/ faults' = faults
               \/ \E kind \in {"crash", "slow", "redis"} : faults' = [faults EXCEPT ![kind] = @ + 1]
    BY <2>4 DEF Redeliver, VisibilityTimeout, Fault
  <2>5. ASSUME Expire \/ UNCHANGED vars PROVE faults' = faults
    BY <2>5 DEF Expire, vars
  <2> QED BY <2>1, <2>2, <2>3, <2>4, <2>5 DEF Next, Terminated
<1> QED BY <1>1 DEF TypeOK

(* An update that raises is counted. *)
LEMMA RaisesIsFault ==
    ASSUME TypeOK, NEW w \in Workers, UpdateRaises(w)
    PROVE  faults'["redis"] # 0
  BY DEF UpdateRaises, Fault, TypeOK

(* A lost worker is counted. *)
LEMMA CrashIsFault ==
    ASSUME TypeOK, NEW w \in Workers, Crash(w)
    PROVE  faults'["crash"] # 0
  BY DEF Crash, Fault, TypeOK

(* A visibility timeout is counted. *)
LEMMA TimeoutIsFault ==
    ASSUME TypeOK, NEW t \in Tags, VisibilityTimeout(t)
    PROVE  faults'["slow"] # 0
  BY DEF VisibilityTimeout, Fault, TypeOK

(* Publishing takes a free tag that nobody holds, and touches no other. *)
LEMMA PublishTakesFree ==
    ASSUME TypeOK, NEW j \in Jobs, NEW n, Publish(j, n)
    PROVE  \E t \in Tags :
              /\ place[t] = "free" /\ ~ Held(t)
              /\ place'[t] = "evaluation" /\ msg'[t] = [job |-> j, retries |-> n]
              /\ \A u \in Tags \ {t} : place'[u] = place[u] /\ msg'[u] = msg[u]
  BY DEF Publish, TypeOK

(* Only a visibility timeout puts a message back on the queue while a worker
   runs it. *)
LEMMA HoldersInductive == TypeOK /\ Holders /\ [Next]_vars => Holders'
<1> SUFFICES ASSUME TypeOK, Holders, [Next]_vars, faults'["slow"] = 0
             PROVE  /\ \A w \in Workers : NonIdle(w)' => place'[cur'[w]] = "unacked"
                    /\ \A v, w \in Workers :
                          NonIdle(v)' /\ NonIdle(w)' /\ cur'[v] = cur'[w] => v = w
  BY DEF Holders
<1>0. /\ \A w \in Workers : NonIdle(w) => cur[w] \in Tags /\ place[cur[w]] = "unacked"
      /\ \A v, w \in Workers : NonIdle(v) /\ NonIdle(w) /\ cur[v] = cur[w] => v = w
  BY FaultsGrow DEF Holders, TypeOK, NonIdle
<1> DEFINE Goal == /\ \A w \in Workers : NonIdle(w)' => place'[cur'[w]] = "unacked"
                   /\ \A v, w \in Workers :
                         NonIdle(v)' /\ NonIdle(w)' /\ cur'[v] = cur'[w] => v = w
<1>1. ASSUME UNCHANGED cur, \A w \in Workers : NonIdle(w)' => NonIdle(w),
             \A t \in Tags : Held(t) => place'[t] = place[t]
      PROVE  Goal
  BY <1>0, <1>1 DEF Held, NonIdle
<1>2. ASSUME NEW j \in Jobs, NEW n, Publish(j, n) PROVE \A t \in Tags : Held(t) => place'[t] = place[t]
  BY <1>2, PublishTakesFree
<1>3. ASSUME NEW j \in Jobs, Submit(j) PROVE Goal
  <2>1. UNCHANGED <<phase, cur>> /\ (UNCHANGED place \/ Publish(j, 0))
    BY <1>3 DEF Submit, CreateJob, Dispatch, DispatchFails, brokerVars, workerVars
  <2> QED BY <1>1, <1>2, <2>1 DEF NonIdle
<1>4. ASSUME NEW w \in Workers, Receive(w) PROVE Goal
  <2>1. PICK t \in Tags : /\ place[t] = "evaluation"
                          /\ place' = [place EXCEPT ![t] = "unacked"]
                          /\ cur' = [cur EXCEPT ![w] = t]
    BY <1>4 DEF Receive
  <2>2. phase' = [phase EXCEPT ![w] = "start"] BY <1>4 DEF Receive
  <2>3. cur'[w] = t /\ place'[t] = "unacked" BY <2>1 DEF TypeOK
  <2>4. \A v \in Workers : v # w /\ NonIdle(v)' =>
           NonIdle(v) /\ cur'[v] = cur[v] /\ cur[v] # t /\ place'[cur[v]] = place[cur[v]]
    BY <1>0, <2>1, <2>2 DEF TypeOK, NonIdle
  <2> QED BY <1>0, <2>3, <2>4
<1>5. ASSUME NEW w \in Workers, NonIdle(w), UNCHANGED cur,
             NEW q, phase' = [phase EXCEPT ![w] = q],
             \A t \in Tags : Held(t) => place'[t] = place[t]
      PROVE  Goal
  <2>1. \A v \in Workers : NonIdle(v)' => NonIdle(v) BY <1>5 DEF NonIdle, TypeOK
  <2> QED BY <1>1, <1>5, <2>1
<1>6. ASSUME NEW w \in Workers, UpdateRead(w) PROVE Goal
  BY <1>1, <1>6 DEF UpdateRead, brokerVars, workerVars, NonIdle
<1>7. ASSUME NEW w \in Workers, phase[w] \in Updating, Updated(w) PROVE Goal
  BY <1>5, <1>7 DEF Updated, brokerVars, NonIdle, Updating
<1>8. ASSUME NEW w \in Workers, UpdateRaises(w) PROVE Goal
  BY <1>5, <1>8 DEF UpdateRaises, brokerVars, NonIdle, Updating
<1>9. ASSUME NEW w \in Workers, Evaluate(w) \/ GiveUp(w) PROVE Goal
  BY <1>5, <1>9 DEF Evaluate, GiveUp, brokerVars, NonIdle
<1>10. ASSUME NEW w \in Workers, Retry(w) PROVE Goal
  <2>1. Job(w) \in Jobs BY <1>10 DEF Retry, TypeOK, Job, Message
  <2> QED BY <1>2, <1>5, <1>10, <2>1 DEF Retry, NonIdle
<1>11. ASSUME NEW w \in Workers, phase' = [phase EXCEPT ![w] = "idle"],
              cur' = [cur EXCEPT ![w] = NoTag], NonIdle(w),
              \A t \in Tags : t # cur[w] => place'[t] = place[t]
       PROVE  Goal
  <2>1. \A v \in Workers : NonIdle(v)' => v # w /\ NonIdle(v) /\ cur'[v] = cur[v]
    BY <1>11 DEF TypeOK, NonIdle
  <2> QED BY <1>0, <1>11, <2>1
<1>12. ASSUME NEW w \in Workers, Ack(w) \/ Crash(w) PROVE Goal
  <2>1. \A t \in Tags : t # cur[w] => place'[t] = place[t]
    BY <1>12 DEF Ack, Crash, brokerVars, TypeOK
  <2> QED BY <1>11, <1>12, <2>1 DEF Ack, Crash, NonIdle
<1>13. ASSUME NEW t \in Tags, Redeliver(t) PROVE Goal
  <2>1. \A u \in Tags : Held(u) => place'[u] = place[u]
    BY <1>13 DEF Redeliver, Requeue, TypeOK
  <2> QED BY <1>1, <1>13, <2>1 DEF Redeliver, Requeue, NonIdle
<1>14. CASE Expire \/ UNCHANGED vars
  BY <1>1, <1>14 DEF Expire, vars, brokerVars, workerVars, NonIdle
<1> QED BY <1>3, <1>4, <1>6, <1>7, <1>8, <1>9, <1>10, <1>12, <1>13, <1>14, TimeoutIsFault
        DEF Next, Work, UpdateSkipped, UpdateWrite, Terminated

(* A job stays open when each of its open messages and workers either stays
   open or hands over to one that is. *)
LEMMA StaysOpen ==
    ASSUME NEW j, Open(j),
           \A t \in Tags : OpenMessage(t) /\ msg[t].job = j => Open(j)',
           \A w \in Workers : OpenWorker(w) /\ Job(w) = j => Open(j)'
    PROVE  Open(j)'
  BY DEF Open

(* A step of one worker in the task body, with the broker left alone. *)
LEMMA BodyKeepsOpen ==
    ASSUME TypeOK, NEW w \in Workers, NonIdle(w), NEW q, q # "idle",
           phase' = [phase EXCEPT ![w] = q], UNCHANGED <<place, msg, cur>>,
           NEW j, Open(j), OpenWorker(w) /\ Job(w) = j => q \in {"start", "eval", "done", "fail"}
    PROVE  Open(j)'
<1>1. /\ phase'[w] = q
      /\ \A v \in Workers : Job(v)' = Job(v) /\ (v # w => phase'[v] = phase[v])
      /\ \A v \in Workers : NonIdle(v)' <=> NonIdle(v)
  BY DEF Job, NonIdle, TypeOK
<1>2. \A t \in Tags : Held(t)' <=> Held(t) BY <1>1 DEF Held, NonIdle
<1>3. ASSUME NEW t \in Tags, OpenMessage(t), msg[t].job = j PROVE Open(j)'
  BY <1>2, <1>3 DEF OpenMessage, Open
<1>4. ASSUME NEW v \in Workers, OpenWorker(v), Job(v) = j PROVE Open(j)'
  <2>1. OpenWorker(v)' /\ Job(v)' = j BY <1>1, <1>4 DEF OpenWorker
  <2> QED BY <2>1 DEF Open
<1> QED BY <1>3, <1>4, StaysOpen

(* Publishing opens its job and closes none. *)
LEMMA PublishOpens ==
    ASSUME TypeOK, NEW i \in Jobs, NEW n, Publish(i, n), UNCHANGED cur,
           \A v \in Workers : NonIdle(v)' <=> NonIdle(v),
           \A v \in Workers : OpenWorker(v) => OpenWorker(v)'
    PROVE  Open(i)' /\ \A j : Open(j) => Open(j)'
<1>1. PICK t \in Tags :
          /\ place[t] = "free" /\ ~ Held(t)
          /\ place'[t] = "evaluation" /\ msg'[t] = [job |-> i, retries |-> n]
          /\ \A u \in Tags \ {t} : place'[u] = place[u] /\ msg'[u] = msg[u]
  BY PublishTakesFree
<1>2. Open(i)'
  <2>1. OpenMessage(t)' /\ msg'[t].job = i BY <1>1 DEF OpenMessage
  <2> QED BY <2>1 DEF Open
<1>3. \A u \in Tags : Held(u)' <=> Held(u) BY DEF Held, NonIdle
<1>4. ASSUME NEW j, Open(j) PROVE Open(j)'
  <2>1. ASSUME NEW u \in Tags, OpenMessage(u), msg[u].job = j PROVE Open(j)'
    <3>1. u # t BY <1>1, <2>1 DEF OpenMessage
    <3>2. OpenMessage(u)' /\ msg'[u].job = j BY <1>1, <1>3, <2>1, <3>1 DEF OpenMessage
    <3> QED BY <3>2 DEF Open
  <2>2. ASSUME NEW v \in Workers, OpenWorker(v), Job(v) = j PROVE Open(j)'
    <3>1. cur[v] \in Tags /\ Held(cur[v]) BY <2>2 DEF OpenWorker, TypeOK, Held
    <3>2. Job(v)' = Job(v) BY <1>1, <3>1 DEF Job
    <3> QED BY <2>2, <3>2 DEF Open
  <2> QED BY <1>4, <2>1, <2>2, StaysOpen
<1> QED BY <1>2, <1>4

(* The endpoint: a job is accepted together with its message on the queue.
   *)
LEMMA SubmitDriven ==
    ASSUME TypeOK, NEW j \in Jobs, Submit(j),
           \A i \in Jobs : api[i] = "accepted" => Ended(i) \/ Open(i)
    PROVE  \A i \in Jobs : api'[i] = "accepted" => Ended(i)' \/ Open(i)'
<1>1. ASSUME NEW type \in JobTypes, CreateJob(j, type), NEW i \in Jobs, api'[i] = "accepted"
      PROVE  Ended(i)' \/ Open(i)'
  <2>1. /\ api' = [api EXCEPT ![j] = "created"] /\ UNCHANGED <<place, msg, phase, cur>>
        /\ store' = [store EXCEPT ![j] = NewRecord(type)]
    BY <1>1 DEF CreateJob, create_job, SetKey, brokerVars, workerVars
  <2>2. i # j /\ api[i] = "accepted" /\ store'[i] = store[i]
    BY <1>1, <2>1 DEF TypeOK, StoreTypeOK
  <2>3. Open(i) => Open(i)' BY <2>1 DEF Open, OpenMessage, OpenWorker, Held, Job
  <2> QED BY <2>2, <2>3 DEF Ended
<1>2. ASSUME Dispatch(j) \/ DispatchFails(j), NEW i \in Jobs, api'[i] = "accepted"
      PROVE  Ended(i)' \/ Open(i)'
  <2>1. /\ UNCHANGED <<store, phase, cur>>
        /\ Publish(j, 0) \/ UNCHANGED <<place, msg>>
        /\ api[i] = "accepted" \/ (i = j /\ Publish(j, 0))
    BY <1>2 DEF Dispatch, DispatchFails, storeVars, workerVars, brokerVars, TypeOK
  <2>2. Publish(j, 0) => Open(j)' /\ (Open(i) => Open(i)')
    <3>1. \A v \in Workers : (NonIdle(v)' <=> NonIdle(v)) /\ (OpenWorker(v) => OpenWorker(v)')
      BY <2>1 DEF NonIdle, OpenWorker
    <3> QED BY <2>1, <3>1, PublishOpens
  <2>3. UNCHANGED <<place, msg>> => (Open(i) => Open(i)')
    BY <2>1 DEF Open, OpenMessage, OpenWorker, Held, Job
  <2> QED BY <2>1, <2>2, <2>3 DEF Ended
<1> QED BY <1>1, <1>2 DEF Submit

(* The step of a worker that runs its task: whoever stops writing has just
   left the document terminal. *)
LEMMA TaskDriven ==
    ASSUME TypeOK, NEW w \in Workers,
           \/ UpdateRead(w) \/ UpdateSkipped(w) \/ UpdateWrite(w)
           \/ Evaluate(w) \/ Retry(w) \/ GiveUp(w),
           NEW j \in Jobs, Ended(j) \/ Open(j)
    PROVE  Ended(j)' \/ Open(j)'
<1>0. cur[w] \in Tags /\ Job(w) \in Jobs /\ NonIdle(w)
  BY DEF UpdateRead, UpdateSkipped, UpdateWrite, Evaluate, Retry, GiveUp, Updating,
         NonIdle, TypeOK, Job, Message
<1>i. PICK i \in Jobs : i = Job(w) BY <1>0
<1>1. CASE UpdateRead(w)
  <2>1. UNCHANGED <<store, place, msg, phase, cur>>
    BY <1>1 DEF UpdateRead, UpdateGet, brokerVars, workerVars
  <2> QED BY <2>1 DEF Ended, Open, OpenMessage, OpenWorker, Held, Job
<1>2. CASE UpdateSkipped(w)
  <2>1. /\ phase[w] \in Updating /\ store[Job(w)] = Absent
        /\ phase' = [phase EXCEPT ![w] = AfterUpdate[phase[w]]]
        /\ UNCHANGED <<store, place, msg, cur>> /\ AfterUpdate[phase[w]] # "idle"
    BY <1>2 DEF UpdateSkipped, UpdateMissing, Updated, get_job, storeVars, brokerVars,
                AfterUpdate, Updating
  <2>2. Ended(i)' /\ (Ended(j) => Ended(j)') BY <1>i, <2>1 DEF Ended
  <2>3. j # i => (Open(j) => Open(j)') BY <1>0, <1>i, <2>1, BodyKeepsOpen
  <2> QED BY <2>2, <2>3
<1>3. CASE UpdateWrite(w)
  <2>1. /\ phase[w] \in Updating
        /\ store' = [store EXCEPT ![Job(w)] = Merge(snap[w], Patch[phase[w]])]
        /\ phase' = [phase EXCEPT ![w] = AfterUpdate[phase[w]]]
        /\ UNCHANGED <<place, msg, cur>> /\ AfterUpdate[phase[w]] # "idle"
    BY <1>3 DEF UpdateWrite, UpdateSet, SetKey, Updated, brokerVars, AfterUpdate, Updating
  <2>2. CASE phase[w] = "start"
    <3>1. phase' = [phase EXCEPT ![w] = "eval"] BY <2>1, <2>2 DEF AfterUpdate
    <3>2. Open(i)'
      <4>1. OpenWorker(w)' /\ Job(w)' = i BY <1>i, <2>1, <3>1 DEF OpenWorker, Job, TypeOK
      <4> QED BY <4>1 DEF Open
    <3>3. Open(j) => Open(j)' BY <1>0, <2>1, <3>1, BodyKeepsOpen
    <3>4. j # i => (Ended(j) => Ended(j)') BY <1>i, <2>1 DEF Ended, TypeOK, StoreTypeOK
    <3> QED BY <3>2, <3>3, <3>4
  <2>3. CASE phase[w] # "start"
    <3>1. Patch[phase[w]].status \in {"completed", "failed"}
      BY <2>1, <2>3 DEF Patch, Updating
    <3>2. store'[Job(w)].status \in {"completed", "failed"}
      BY <1>0, <2>1, <3>1 DEF Merge, TypeOK, StoreTypeOK
    <3>3. Ended(i)' BY <1>i, <3>2 DEF Ended
    <3>4. j # i => (Ended(j) => Ended(j)') BY <1>i, <2>1 DEF Ended, TypeOK, StoreTypeOK
    <3>5. j # i => (Open(j) => Open(j)') BY <1>0, <1>i, <2>1, BodyKeepsOpen
    <3> QED BY <3>3, <3>4, <3>5
  <2> QED BY <2>2, <2>3
<1>4. CASE Evaluate(w)
  <2>1. PICK next \in {"done", "fail"} : phase' = [phase EXCEPT ![w] = next]
    BY <1>4 DEF Evaluate
  <2>2. UNCHANGED <<store, place, msg, cur>> BY <1>4 DEF Evaluate, storeVars, brokerVars
  <2> QED BY <1>0, <2>1, <2>2, BodyKeepsOpen DEF Ended
<1>5. CASE Retry(w)
  <2>1. /\ phase[w] = "retry" /\ phase' = [phase EXCEPT ![w] = "ack"]
        /\ Publish(Job(w), msg[cur[w]].retries + 1) /\ UNCHANGED <<store, cur>>
    BY <1>5 DEF Retry, storeVars
  <2>2. \A v \in Workers : (NonIdle(v)' <=> NonIdle(v)) /\ (OpenWorker(v) => OpenWorker(v)')
    BY <2>1 DEF NonIdle, OpenWorker, TypeOK
  <2>3. Open(j) => Open(j)' BY <1>0, <2>1, <2>2, PublishOpens
  <2> QED BY <2>1, <2>3 DEF Ended
<1>6. CASE GiveUp(w)
  <2>1. /\ phase[w] = "retry" /\ phase' = [phase EXCEPT ![w] = "ack"]
        /\ UNCHANGED <<store, place, msg, cur>>
    BY <1>6 DEF GiveUp, storeVars, brokerVars
  <2>2. ~ OpenWorker(w) BY <2>1 DEF OpenWorker
  <2> QED BY <1>0, <2>1, <2>2, BodyKeepsOpen DEF Ended
<1> QED BY <1>1, <1>2, <1>3, <1>4, <1>5, <1>6

(* A delivery hands the message to the worker; a lost worker leaves it to be
   delivered again; an acknowledged one was no longer open. *)
LEMMA DeliveryDriven ==
    ASSUME TypeOK, Holders, faults["slow"] = 0,
           \/ \E w \in Workers : Receive(w) \/ Ack(w) \/ Crash(w)
           \/ \E t \in Tags : Redeliver(t),
           NEW j \in Jobs, Open(j)
    PROVE  Open(j)'
<1>0. /\ \A w \in Workers : NonIdle(w) => cur[w] \in Tags /\ place[cur[w]] = "unacked"
      /\ \A v, w \in Workers : NonIdle(v) /\ NonIdle(w) /\ cur[v] = cur[w] => v = w
      /\ \A w \in Workers : OpenWorker(w) => NonIdle(w)
  BY DEF Holders, TypeOK, NonIdle, OpenWorker
<1>1. ASSUME NEW w \in Workers, Receive(w) PROVE Open(j)'
  <2>1. PICK t \in Tags : /\ place[t] = "evaluation"
                          /\ place' = [place EXCEPT ![t] = "unacked"]
                          /\ cur' = [cur EXCEPT ![w] = t]
    BY <1>1 DEF Receive
  <2>2. /\ phase[w] = "idle" /\ phase' = [phase EXCEPT ![w] = "start"] /\ msg' = msg
    BY <1>1 DEF Receive
  <2>3. OpenWorker(w)' /\ Job(w)' = msg[t].job
    BY <2>1, <2>2 DEF OpenWorker, Job, TypeOK
  <2>4. \A v \in Workers : v # w => phase'[v] = phase[v] /\ cur'[v] = cur[v] /\ Job(v)' = Job(v)
    BY <2>1, <2>2 DEF Job, TypeOK
  <2>5. \A u \in Tags : u # t /\ Held(u)' => Held(u)
    BY <2>1, <2>2, <2>4 DEF Held, TypeOK
  <2>6. ASSUME NEW u \in Tags, OpenMessage(u), msg[u].job = j PROVE Open(j)'
    <3>1. CASE u = t BY <2>3, <2>6, <3>1 DEF Open
    <3>2. CASE u # t
      <4>1. place'[u] = place[u] BY <2>1, <3>2 DEF TypeOK
      <4>2. OpenMessage(u)' BY <2>5, <2>6, <3>2, <4>1 DEF OpenMessage
      <4> QED BY <2>2, <2>6, <4>2 DEF Open
    <3> QED BY <3>1, <3>2
  <2>7. ASSUME NEW v \in Workers, OpenWorker(v), Job(v) = j PROVE Open(j)'
    <3>1. v # w BY <2>2, <2>7 DEF OpenWorker
    <3>2. OpenWorker(v)' /\ Job(v)' = j BY <2>4, <2>7, <3>1 DEF OpenWorker
    <3> QED BY <3>2 DEF Open
  <2> QED BY <2>6, <2>7, StaysOpen
<1>2. ASSUME NEW w \in Workers, Ack(w) \/ Crash(w) PROVE Open(j)'
  <2>1. /\ NonIdle(w) /\ phase' = [phase EXCEPT ![w] = "idle"]
        /\ cur' = [cur EXCEPT ![w] = NoTag] /\ msg' = msg
        /\ \A t \in Tags : t # cur[w] => place'[t] = place[t]
        /\ OpenWorker(w) => place' = place
    BY <1>2 DEF Ack, Crash, brokerVars, NonIdle, OpenWorker, TypeOK
  <2>t. PICK t \in Tags : t = cur[w] BY <1>0, <2>1
  <2>2. /\ phase'[w] = "idle"
        /\ \A v \in Workers : v # w => phase'[v] = phase[v] /\ cur'[v] = cur[v] /\ Job(v)' = Job(v)
    BY <2>1 DEF Job, TypeOK
  <2>3. \A u \in Tags : Held(u)' => Held(u) BY <2>2 DEF Held
  <2>4. ~ Held(t)'
    <3> SUFFICES ASSUME NEW v \in Workers, phase'[v] # "idle", cur'[v] = cur[w] PROVE FALSE
      BY <2>t DEF Held
    <3>1. v # w BY <2>2
    <3>2. phase[v] # "idle" /\ cur[v] = cur[w] BY <2>2, <3>1
    <3> QED BY <1>0, <2>1, <3>1, <3>2 DEF NonIdle
  <2>5. ASSUME NEW u \in Tags, OpenMessage(u), msg[u].job = j PROVE Open(j)'
    <3>1. u # cur[w] BY <1>0, <2>1, <2>5 DEF OpenMessage, Held, NonIdle
    <3>2. OpenMessage(u)' BY <2>1, <2>3, <2>5, <3>1 DEF OpenMessage
    <3> QED BY <2>1, <2>5, <3>2 DEF Open
  <2>6. ASSUME NEW v \in Workers, OpenWorker(v), Job(v) = j PROVE Open(j)'
    <3>1. CASE v # w
      <4>1. OpenWorker(v)' /\ Job(v)' = j BY <2>2, <2>6, <3>1 DEF OpenWorker
      <4> QED BY <4>1 DEF Open
    <3>2. CASE v = w
      <4>1. place'[cur[w]] = "unacked" /\ cur[w] \in Tags BY <1>0, <2>1, <2>6, <3>2
      <4>2. OpenMessage(t)' /\ msg'[t].job = j
        BY <2>1, <2>t, <2>4, <2>6, <3>2, <4>1 DEF OpenMessage, Job
      <4> QED BY <4>2 DEF Open
    <3> QED BY <3>1, <3>2
  <2> QED BY <2>5, <2>6, StaysOpen
<1>3. ASSUME NEW t \in Tags, Redeliver(t) PROVE Open(j)'
  <2>1. /\ place' = [place EXCEPT ![t] = "evaluation"] /\ UNCHANGED <<msg, phase, cur>>
    BY <1>3 DEF Redeliver, Requeue
  <2>2. \A u \in Tags : OpenMessage(u) => OpenMessage(u)'
    BY <2>1 DEF OpenMessage, Held, TypeOK
  <2> QED BY <2>1, <2>2 DEF Open, OpenWorker, Job
<1> QED BY <1>1, <1>2, <1>3

(* Every action preserves the strengthened invariant. *)
LEMMA QuietInductive == QuietInv /\ [Next]_vars => QuietInv'
<1> SUFFICES ASSUME QuietInv, [Next]_vars PROVE Driven'
  BY TypeInductive, HoldersInductive DEF QuietInv
<1>0. TypeOK /\ TypeOK' /\ Holders BY TypeInductive DEF QuietInv
<1> SUFFICES ASSUME faults'["redis"] + faults'["slow"] = 0
             PROVE  \A j \in Jobs : api'[j] = "accepted" => Ended(j)' \/ Open(j)'
  BY DEF Driven
<1>1. faults'["redis"] = 0 /\ faults'["slow"] = 0 BY <1>0 DEF TypeOK
<1>2. faults["redis"] = 0 /\ faults["slow"] = 0 BY <1>0, <1>1, FaultsGrow
<1>3. \A j \in Jobs : api[j] = "accepted" => Ended(j) \/ Open(j)
  BY <1>2 DEF QuietInv, Driven
<1>4. ASSUME NEW j \in Jobs, Submit(j)
      PROVE  \A i \in Jobs : api'[i] = "accepted" => Ended(i)' \/ Open(i)'
  BY <1>0, <1>3, <1>4, SubmitDriven
<1>5. ASSUME NEW w \in Workers,
             \/ UpdateRead(w) \/ UpdateSkipped(w) \/ UpdateWrite(w)
             \/ Evaluate(w) \/ Retry(w) \/ GiveUp(w)
      PROVE  \A i \in Jobs : api'[i] = "accepted" => Ended(i)' \/ Open(i)'
  <2>1. api' = api
    BY <1>5 DEF UpdateRead, UpdateSkipped, UpdateWrite, Updated, Evaluate, Retry, GiveUp
  <2> QED BY <1>0, <1>3, <1>5, <2>1, TaskDriven
<1>6. ASSUME \/ \E w \in Workers : Receive(w) \/ Ack(w) \/ Crash(w)
             \/ \E t \in Tags : Redeliver(t)
      PROVE  \A i \in Jobs : api'[i] = "accepted" => Ended(i)' \/ Open(i)'
  <2>1. UNCHANGED <<api, store>>
    BY <1>6 DEF Receive, Ack, Crash, DropSnap, Redeliver, Requeue, storeVars
  <2> QED BY <1>0, <1>2, <1>3, <1>6, <2>1, DeliveryDriven DEF Ended
<1>7. ASSUME Expire \/ UNCHANGED vars
      PROVE  \A i \in Jobs : api'[i] = "accepted" => Ended(i)' \/ Open(i)'
  <2>1. /\ UNCHANGED <<api, place, msg, phase, cur>>
        /\ \A i \in Jobs : store'[i] \in {store[i], Absent}
    BY <1>7 DEF Expire, Tick, vars, brokerVars, workerVars
  <2>2. \A i \in Jobs : (Open(i) => Open(i)') /\ (Ended(i) => Ended(i)')
    BY <2>1 DEF Open, OpenMessage, OpenWorker, Held, Job, Ended
  <2> QED BY <1>3, <2>1, <2>2
<1> QED BY <1>0, <1>1, <1>4, <1>5, <1>6, <1>7, RaisesIsFault, TimeoutIsFault
        DEF Next, Work, Terminated

(* No job is accepted and no worker busy initially. *)
LEMMA QuietInitially == Init => QuietInv
<1> SUFFICES ASSUME Init PROVE QuietInv OBVIOUS
<1>1. TypeOK BY InitTypeOK
<1> QED BY <1>1 DEF Init, QuietInv, Holders, Driven, NonIdle

(* Until a visibility timeout, a message that a worker runs is unacknowledged
   and no other worker runs it: a lost worker's message is delivered again only
   after the worker is gone. *)
THEOREM MessagesHeldOnce == Spec => []Holders
<1>1. QuietInv => Holders BY DEF QuietInv
<1> QED BY <1>1, QuietInitially, QuietInductive, PTL DEF Spec

(* Once nothing is left to run for an accepted job, its document is terminal
   or has expired, however many workers were lost on the way; until an update
   raises or a message is delivered beside its running task. *)
THEOREM QuietJobsAreTerminal == Spec => []QuietIsTerminal
<1>1. ASSUME QuietInv PROVE QuietIsTerminal
  <2> SUFFICES ASSUME NEW j \in Jobs, api[j] = "accepted", Quiet(j),
                      faults["redis"] + faults["slow"] = 0
               PROVE  Ended(j)
    BY DEF QuietIsTerminal, Ended
  <2>1. ~ Open(j) BY DEF Open, Quiet, Live, OpenMessage, OpenWorker
  <2> QED BY <1>1, <2>1 DEF QuietInv, Driven
<1> QED BY <1>1, QuietInitially, QuietInductive, PTL DEF Spec

-----------------------------------------------------------------------------
(* Why CompletedIsFinal holds.  Until a first fault a job is in one place at a
   time: one message waiting for it, or one worker busy with it (a worker that
   only has its acknowledgement left is not).  The worker that completes a job
   leaves it nowhere, and nothing brings it back. *)

NoFault == \A kind \in {"crash", "slow", "redis"} : faults[kind] = 0

WaitingFor(t, j) == place[t] = "evaluation" /\ msg[t].job = j
BusyWith(w, j) == phase[w] \notin {"idle", "ack"} /\ Job(w) = j

Whereabouts(j) ==
    {<<"message", t>> : t \in {t \in Tags : WaitingFor(t, j)}}
    \cup {<<"worker", w>> : w \in {w \in Workers : BusyWith(w, j)}}

InOnePlace(j) == \A x, y \in Whereabouts(j) : x = y

Completed(j) == store[j] # Absent /\ store[j].status = "completed"

FinalFacts ==
    /\ \A t \in Tags : place[t] = "unacked" => Held(t)
    /\ \A j \in Jobs :
          /\ InOnePlace(j)
          /\ Completed(j) => Whereabouts(j) = {}
          /\ api[j] \in {"none", "created"} => Whereabouts(j) = {} /\ ~ Completed(j)

FinalInv == CoherenceInv /\ Holders /\ (NoFault => FinalFacts)

(* The members of Whereabouts, spelled out for the provers. *)
LEMMA WhereaboutsMembers ==
    /\ \A j, t : <<"message", t>> \in Whereabouts(j) <=> t \in Tags /\ WaitingFor(t, j)
    /\ \A j, w : <<"worker", w>> \in Whereabouts(j) <=> w \in Workers /\ BusyWith(w, j)
    /\ \A j : \A x \in Whereabouts(j) :
          \/ \E t \in Tags : x = <<"message", t>> /\ WaitingFor(t, j)
          \/ \E w \in Workers : x = <<"worker", w>> /\ BusyWith(w, j)
  BY DEF Whereabouts

(* A job that moves from x to y, or goes nowhere new, stays in one place. *)
Moves(j, x, y) == x \in Whereabouts(j) /\ Whereabouts(j)' \subseteq (Whereabouts(j) \ {x}) \cup {y}

Carried(j) == Whereabouts(j)' \subseteq Whereabouts(j) \/ \E x, y : Moves(j, x, y)

(* Such a job is still in one place, or still in none. *)
LEMMA CarriedStays ==
    ASSUME NEW j, InOnePlace(j), Carried(j)
    PROVE  InOnePlace(j)' /\ (Whereabouts(j) = {} => Whereabouts(j)' = {})
<1>1. CASE Whereabouts(j)' \subseteq Whereabouts(j) BY <1>1 DEF InOnePlace
<1>2. CASE \E x, y : Moves(j, x, y)
  <2>1. PICK x, y : Moves(j, x, y) BY <1>2
  <2>2. Whereabouts(j)' \subseteq {y} /\ Whereabouts(j) # {} BY <2>1 DEF Moves, InOnePlace
  <2> QED BY <2>2 DEF InOnePlace
<1> QED BY <1>1, <1>2 DEF Carried

(* A step of one worker in the task body keeps the job where it is, or lets
   go of it. *)
LEMMA BodyCarries ==
    ASSUME TypeOK, NEW w \in Workers, NEW q, phase' = [phase EXCEPT ![w] = q],
           phase[w] \notin {"idle", "ack"}, UNCHANGED <<place, msg, cur>>
    PROVE  \A j : /\ Whereabouts(j)' \subseteq Whereabouts(j)
                  /\ q \in {"idle", "ack"} => <<"worker", w>> \notin Whereabouts(j)'
<1>1. /\ phase'[w] = q
      /\ \A v \in Workers : Job(v)' = Job(v) /\ (v # w => phase'[v] = phase[v])
  BY DEF Job, TypeOK
<1>2. ASSUME NEW j, NEW t \in Tags, WaitingFor(t, j)' PROVE WaitingFor(t, j)
  BY <1>2 DEF WaitingFor
<1>3. ASSUME NEW j, NEW v \in Workers, BusyWith(v, j)' PROVE BusyWith(v, j)
  BY <1>1, <1>3 DEF BusyWith
<1>4. ASSUME NEW j, q \in {"idle", "ack"} PROVE ~ BusyWith(w, j)'
  BY <1>1, <1>4 DEF BusyWith
<1> QED BY <1>2, <1>3, <1>4 DEF Whereabouts

(* Publishing adds one message to its job, and none to the others. *)
LEMMA PublishMoves ==
    ASSUME TypeOK, NEW i \in Jobs, NEW n, Publish(i, n), UNCHANGED cur,
           \A v \in Workers : phase'[v] # phase[v] => phase'[v] \in {"idle", "ack"}
    PROVE  \E t \in Tags :
              /\ Whereabouts(i)' \subseteq Whereabouts(i) \cup {<<"message", t>>}
              /\ \A j : j # i => Whereabouts(j)' \subseteq Whereabouts(j)
<1>1. PICK t \in Tags :
          /\ place[t] = "free" /\ ~ Held(t)
          /\ place'[t] = "evaluation" /\ msg'[t] = [job |-> i, retries |-> n]
          /\ \A u \in Tags \ {t} : place'[u] = place[u] /\ msg'[u] = msg[u]
  BY PublishTakesFree
<1>2. ASSUME NEW j, NEW u \in Tags, WaitingFor(u, j)', u # t PROVE WaitingFor(u, j)
  BY <1>1, <1>2 DEF WaitingFor
<1>3. ASSUME NEW j, WaitingFor(t, j)' PROVE j = i
  BY <1>1, <1>3 DEF WaitingFor
<1>4. ASSUME NEW j, NEW v \in Workers, BusyWith(v, j)' PROVE BusyWith(v, j)
  <2>1. phase'[v] = phase[v] /\ phase[v] \notin {"idle", "ack"} BY <1>4 DEF BusyWith
  <2>2. cur[v] \in Tags /\ cur[v] # t BY <1>1, <2>1 DEF TypeOK, Held
  <2>3. Job(v)' = Job(v) BY <1>1, <2>2 DEF Job
  <2> QED BY <1>4, <2>1, <2>3 DEF BusyWith
<1>5. Whereabouts(i)' \subseteq Whereabouts(i) \cup {<<"message", t>>}
  BY <1>2, <1>4 DEF Whereabouts
<1>6. ASSUME NEW j, j # i PROVE Whereabouts(j)' \subseteq Whereabouts(j)
  BY <1>2, <1>3, <1>4, <1>6 DEF Whereabouts
<1> QED BY <1>5, <1>6

(* What the steps of a worker do to the whereabouts of the jobs: nobody else's
   job moves, and its own goes from one place to another at most. *)
LEMMA WorkCarries ==
    ASSUME TypeOK, NEW w \in Workers, Work(w)
    PROVE  \A j \in Jobs : Carried(j)
<1>1. CASE Receive(w)
  <2>1. PICK t \in Tags : /\ place[t] = "evaluation"
                          /\ place' = [place EXCEPT ![t] = "unacked"]
                          /\ cur' = [cur EXCEPT ![w] = t]
    BY <1>1 DEF Receive
  <2>2. phase[w] = "idle" /\ phase' = [phase EXCEPT ![w] = "start"] /\ msg' = msg
    BY <1>1 DEF Receive
  <2>3. Job(w)' = msg[t].job BY <2>1, <2>2 DEF Job, TypeOK
  <2>4. \A v \in Workers : v # w => phase'[v] = phase[v] /\ Job(v)' = Job(v)
    BY <2>1, <2>2 DEF Job, TypeOK
  <2>5. ASSUME NEW j, NEW u \in Tags, WaitingFor(u, j)' PROVE WaitingFor(u, j) /\ u # t
    BY <2>1, <2>2, <2>5 DEF WaitingFor, TypeOK
  <2>6. ASSUME NEW j, NEW v \in Workers, BusyWith(v, j)', v # w PROVE BusyWith(v, j)
    BY <2>4, <2>6 DEF BusyWith
  <2>7. ASSUME NEW j, BusyWith(w, j)' PROVE j = msg[t].job
    BY <2>3, <2>7 DEF BusyWith
  <2>8. ASSUME NEW j \in Jobs PROVE Carried(j)
    <3>1. CASE j # msg[t].job
      <4>1. Whereabouts(j)' \subseteq Whereabouts(j)
        BY <2>5, <2>6, <2>7, <3>1 DEF Whereabouts
      <4> QED BY <4>1 DEF Carried
    <3>2. CASE j = msg[t].job
      <4>1. <<"message", t>> \in Whereabouts(j)
        BY <2>1, <3>2, WhereaboutsMembers DEF WaitingFor
      <4>2. \A x \in Whereabouts(j)' : x \in (Whereabouts(j) \ {<<"message", t>>}) \cup {<<"worker", w>>}
        BY <2>5, <2>6 DEF Whereabouts
      <4>3. Moves(j, <<"message", t>>, <<"worker", w>>) BY <4>1, <4>2 DEF Moves
      <4> QED BY <4>3 DEF Carried
    <3> QED BY <3>1, <3>2
  <2> QED BY <2>8
<1>2. CASE UpdateRead(w)
  <2>1. UNCHANGED <<place, msg, phase, cur>> BY <1>2 DEF UpdateRead, brokerVars, workerVars
  <2> QED BY <2>1 DEF Carried, Whereabouts, WaitingFor, BusyWith, Job
<1>3. ASSUME NEW q, phase' = [phase EXCEPT ![w] = q], phase[w] \notin {"idle", "ack"},
             UNCHANGED <<place, msg, cur>>
      PROVE  \A j \in Jobs : Carried(j)
  BY <1>3, BodyCarries DEF Carried
<1>4. CASE UpdateSkipped(w) \/ UpdateWrite(w)
  BY <1>3, <1>4 DEF UpdateSkipped, UpdateWrite, Updated, Updating, brokerVars
<1>5. CASE Evaluate(w) \/ GiveUp(w)
  BY <1>3, <1>5 DEF Evaluate, GiveUp, brokerVars
<1>6. CASE Retry(w)
  <2>1. /\ phase[w] = "retry" /\ phase' = [phase EXCEPT ![w] = "ack"]
        /\ Publish(Job(w), msg[cur[w]].retries + 1) /\ UNCHANGED cur
    BY <1>6 DEF Retry
  <2>2. PICK i \in Jobs : i = Job(w) BY <2>1 DEF TypeOK, Job, Message
  <2>3. \A v \in Workers : phase'[v] # phase[v] => phase'[v] \in {"idle", "ack"}
    BY <2>1 DEF TypeOK
  <2>4. PICK t \in Tags :
            /\ Whereabouts(i)' \subseteq Whereabouts(i) \cup {<<"message", t>>}
            /\ \A j : j # i => Whereabouts(j)' \subseteq Whereabouts(j)
    BY <2>1, <2>2, <2>3, PublishMoves
  <2>5. <<"worker", w>> \in Whereabouts(i)
    BY <2>1, <2>2, WhereaboutsMembers DEF BusyWith
  <2>6. <<"worker", w>> \notin Whereabouts(i)'
    <3>1. ~ BusyWith(w, i)' BY <2>1 DEF BusyWith, TypeOK
    <3> QED BY <3>1 DEF Whereabouts
  <2>7. Moves(i, <<"worker", w>>, <<"message", t>>) BY <2>4, <2>5, <2>6 DEF Moves
  <2> QED BY <2>4, <2>7 DEF Carried
<1>7. CASE Ack(w)
  <2>1. /\ phase[w] = "ack" /\ phase' = [phase EXCEPT ![w] = "idle"] /\ msg' = msg
        /\ cur' = [cur EXCEPT ![w] = NoTag] /\ cur[w] \in Tags
        /\ place' = [place EXCEPT ![cur[w]] = IF @ = "unacked" THEN "free" ELSE @]
    BY <1>7 DEF Ack, TypeOK
  <2>2. ASSUME NEW j, NEW t \in Tags, WaitingFor(t, j)' PROVE WaitingFor(t, j)
    BY <2>1, <2>2 DEF WaitingFor, TypeOK
  <2>3. ASSUME NEW j, NEW v \in Workers, BusyWith(v, j)' PROVE BusyWith(v, j)
    BY <2>1, <2>3 DEF BusyWith, Job, TypeOK
  <2>4. \A j : Whereabouts(j)' \subseteq Whereabouts(j) BY <2>2, <2>3 DEF Whereabouts
  <2> QED BY <2>4 DEF Carried
<1> QED BY <1>1, <1>2, <1>4, <1>5, <1>6, <1>7 DEF Work

(* A message is unacknowledged only while a worker holds it. *)
LEMMA UnackedHeld ==
    ASSUME TypeOK, Holders, [Next]_vars, NoFault, NoFault', FinalFacts
    PROVE  \A t \in Tags : place'[t] = "unacked" => Held(t)'
<1>0. /\ \A w \in Workers : NonIdle(w) => cur[w] \in Tags /\ place[cur[w]] = "unacked"
      /\ \A v, w \in Workers : NonIdle(v) /\ NonIdle(w) /\ cur[v] = cur[w] => v = w
      /\ \A t \in Tags : place[t] = "unacked" => Held(t)
      /\ faults'["crash"] = 0 /\ faults'["slow"] = 0 /\ faults'["redis"] = 0
  BY DEF Holders, NoFault, FinalFacts, TypeOK, NonIdle
<1>1. ASSUME UNCHANGED cur, \A v \in Workers : NonIdle(v) => NonIdle(v)',
             \A t \in Tags : place'[t] = "unacked" => place[t] = "unacked"
      PROVE  \A t \in Tags : place'[t] = "unacked" => Held(t)'
  BY <1>0, <1>1 DEF Held, NonIdle
<1>2. ASSUME NEW j \in Jobs, NEW n, Publish(j, n)
      PROVE  \A t \in Tags : place'[t] = "unacked" => place[t] = "unacked"
  <2>1. PICK t \in Tags :
            /\ place[t] = "free" /\ ~ Held(t)
            /\ place'[t] = "evaluation" /\ msg'[t] = [job |-> j, retries |-> n]
            /\ \A u \in Tags \ {t} : place'[u] = place[u] /\ msg'[u] = msg[u]
    BY <1>2, PublishTakesFree
  <2> QED BY <2>1
<1>3. ASSUME NEW j \in Jobs, Submit(j)
      PROVE  \A t \in Tags : place'[t] = "unacked" => Held(t)'
  <2>1. UNCHANGED <<phase, cur>> /\ (UNCHANGED place \/ Publish(j, 0))
    BY <1>3 DEF Submit, CreateJob, Dispatch, DispatchFails, brokerVars, workerVars
  <2> QED BY <1>1, <1>2, <2>1 DEF NonIdle
<1>4. ASSUME NEW w \in Workers, Receive(w)
      PROVE  \A t \in Tags : place'[t] = "unacked" => Held(t)'
  <2>1. PICK t \in Tags : /\ place' = [place EXCEPT ![t] = "unacked"]
                          /\ cur' = [cur EXCEPT ![w] = t]
    BY <1>4 DEF Receive
  <2>2. phase[w] = "idle" /\ phase' = [phase EXCEPT ![w] = "start"] BY <1>4 DEF Receive
  <2>3. Held(t)' BY <2>1, <2>2 DEF Held, TypeOK
  <2>4. \A u \in Tags : Held(u) => Held(u)' BY <2>1, <2>2 DEF Held, TypeOK
  <2>5. \A u \in Tags : u # t => place'[u] = place[u] BY <2>1 DEF TypeOK
  <2> QED BY <1>0, <2>3, <2>4, <2>5
<1>5. ASSUME NEW w \in Workers, UpdateRead(w)
      PROVE  \A t \in Tags : place'[t] = "unacked" => Held(t)'
  BY <1>1, <1>5 DEF UpdateRead, brokerVars, workerVars, NonIdle
<1>6. ASSUME NEW w \in Workers, NEW q \in Phases \ {"idle"}, phase' = [phase EXCEPT ![w] = q],
             UNCHANGED cur, \A t \in Tags : place'[t] = "unacked" => place[t] = "unacked"
      PROVE  \A t \in Tags : place'[t] = "unacked" => Held(t)'
  <2>1. \A v \in Workers : NonIdle(v) => NonIdle(v)' BY <1>6 DEF NonIdle, TypeOK
  <2> QED BY <1>1, <1>6, <2>1
<1>7. ASSUME NEW w \in Workers, phase[w] \in Updating, Updated(w)
      PROVE  \A t \in Tags : place'[t] = "unacked" => Held(t)'
  <2>1. AfterUpdate[phase[w]] \in Phases \ {"idle"}
    BY <1>7 DEF AfterUpdate, Updating, Phases
  <2> QED BY <1>6, <1>7, <2>1 DEF Updated, brokerVars
<1>8. ASSUME NEW w \in Workers, Evaluate(w) \/ GiveUp(w)
      PROVE  \A t \in Tags : place'[t] = "unacked" => Held(t)'
  BY <1>6, <1>8 DEF Evaluate, GiveUp, brokerVars, Phases
<1>9. ASSUME NEW w \in Workers, Retry(w)
      PROVE  \A t \in Tags : place'[t] = "unacked" => Held(t)'
  <2>1. Job(w) \in Jobs BY <1>9 DEF Retry, TypeOK, Job, Message
  <2> QED BY <1>2, <1>6, <1>9, <2>1 DEF Retry, Phases
<1>10. ASSUME NEW w \in Workers, Ack(w)
       PROVE  \A t \in Tags : place'[t] = "unacked" => Held(t)'
  <2>1. /\ NonIdle(w) /\ phase' = [phase EXCEPT ![w] = "idle"]
        /\ cur' = [cur EXCEPT ![w] = NoTag]
        /\ place' = [place EXCEPT ![cur[w]] = IF @ = "unacked" THEN "free" ELSE @]
    BY <1>10 DEF Ack, NonIdle
  <2>2. \A v \in Workers : v # w /\ NonIdle(v) => NonIdle(v)' /\ cur'[v] = cur[v]
    BY <2>1 DEF NonIdle, TypeOK
  <2>3. ASSUME NEW t \in Tags, place'[t] = "unacked" PROVE Held(t)'
    <3>1. t # cur[w] /\ place[t] = "unacked" BY <1>0, <2>1, <2>3 DEF TypeOK
    <3>2. PICK v \in Workers : NonIdle(v) /\ cur[v] = t BY <1>0, <3>1 DEF Held, NonIdle
    <3>3. NonIdle(v)' /\ cur'[v] = t BY <2>2, <3>1, <3>2
    <3> QED BY <3>3 DEF Held, NonIdle
  <2> QED BY <2>3
<1>11. ASSUME NEW t \in Tags, Redeliver(t) PROVE FALSE
  BY <1>0, <1>11 DEF Redeliver
<1>12. CASE Expire \/ UNCHANGED vars
  BY <1>1, <1>12 DEF Expire, vars, brokerVars, workerVars, NonIdle
<1> QED BY <1>0, <1>3, <1>4, <1>5, <1>7, <1>8, <1>9, <1>10, <1>11, <1>12,
           RaisesIsFault, CrashIsFault, TimeoutIsFault
        DEF Next, Work, UpdateSkipped, UpdateWrite, Terminated

(* Submitting a job puts it on the broker once. *)
LEMMA SubmitFinal ==
    ASSUME CoherenceInv, FinalFacts, NEW i \in Jobs, Submit(i), NEW j \in Jobs
    PROVE  /\ InOnePlace(j)'
           /\ Completed(j)' => Whereabouts(j)' = {}
           /\ api'[j] \in {"none", "created"} => Whereabouts(j)' = {} /\ ~ Completed(j)'
<1>0. /\ TypeOK /\ InOnePlace(j) /\ (Completed(j) => Whereabouts(j) = {})
      /\ api[j] \in {"none", "created"} => Whereabouts(j) = {} /\ ~ Completed(j)
  BY DEF CoherenceInv, FinalFacts
<1>1. ASSUME NEW type \in JobTypes, CreateJob(i, type)
      PROVE  /\ InOnePlace(j)'
             /\ Completed(j)' => Whereabouts(j)' = {}
             /\ api'[j] \in {"none", "created"} => Whereabouts(j)' = {} /\ ~ Completed(j)'
  <2>1. /\ api[i] = "none" /\ api' = [api EXCEPT ![i] = "created"]
        /\ store' = [store EXCEPT ![i] = NewRecord(type)]
        /\ UNCHANGED <<place, msg, phase, cur>>
    BY <1>1 DEF CreateJob, create_job, SetKey, brokerVars, workerVars
  <2>2. Whereabouts(j)' = Whereabouts(j)
    BY <2>1 DEF Whereabouts, WaitingFor, BusyWith, Job
  <2>3. Completed(j)' => j # i /\ Completed(j)
    BY <1>0, <2>1 DEF Completed, NewRecord, TypeOK, StoreTypeOK
  <2>4. j = i => Whereabouts(j) = {} BY <1>0, <2>1
  <2>5. j # i => api'[j] = api[j] BY <1>0, <2>1 DEF TypeOK
  <2> QED BY <1>0, <2>2, <2>3, <2>4, <2>5 DEF InOnePlace
<1>2. ASSUME Dispatch(i) \/ DispatchFails(i)
      PROVE  /\ InOnePlace(j)'
             /\ Completed(j)' => Whereabouts(j)' = {}
             /\ api'[j] \in {"none", "created"} => Whereabouts(j)' = {} /\ ~ Completed(j)'
  <2>1. /\ api[i] = "created" /\ UNCHANGED <<store, phase, cur>>
        /\ Publish(i, 0) \/ UNCHANGED <<place, msg>>
        /\ api'[i] \notin {"none", "created"} /\ (j # i => api'[j] = api[j])
    BY <1>0, <1>2 DEF Dispatch, DispatchFails, storeVars, workerVars, brokerVars, TypeOK
  <2>2. \E t : /\ j = i => Whereabouts(j)' \subseteq Whereabouts(j) \cup {<<"message", t>>}
               /\ j # i => Whereabouts(j)' \subseteq Whereabouts(j)
    <3>1. CASE Publish(i, 0) BY <1>0, <2>1, <3>1, PublishMoves
    <3>2. CASE UNCHANGED <<place, msg>>
      BY <2>1, <3>2 DEF Whereabouts, WaitingFor, BusyWith, Job
    <3> QED BY <2>1, <3>1, <3>2
  <2>3. Completed(j)' <=> Completed(j) BY <2>1 DEF Completed
  <2>4. CASE j = i
    <3>1. Whereabouts(j) = {} /\ ~ Completed(j) BY <1>0, <2>1, <2>4
    <3>2. \E t : Whereabouts(j)' \subseteq {<<"message", t>>} BY <2>2, <2>4, <3>1
    <3>3. InOnePlace(j)' BY <3>2 DEF InOnePlace
    <3> QED BY <2>1, <2>3, <2>4, <3>1, <3>3
  <2>5. CASE j # i
    <3>1. Whereabouts(j)' \subseteq Whereabouts(j) BY <2>2, <2>5
    <3>2. InOnePlace(j)' BY <1>0, <3>1 DEF InOnePlace
    <3> QED BY <1>0, <2>1, <2>3, <2>5, <3>1, <3>2
  <2> QED BY <2>4, <2>5
<1> QED BY <1>1, <1>2 DEF Submit

(* A worker that writes is busy with its job; when it writes "completed" it is
   busy no longer. *)
LEMMA WorkFinal ==
    ASSUME CoherenceInv, FinalFacts, NEW w \in Workers, Work(w), NEW j \in Jobs
    PROVE  /\ InOnePlace(j)'
           /\ Completed(j)' => Whereabouts(j)' = {}
           /\ api'[j] \in {"none", "created"} => Whereabouts(j)' = {} /\ ~ Completed(j)'
<1>0. /\ TypeOK /\ InOnePlace(j) /\ (Completed(j) => Whereabouts(j) = {})
      /\ api[j] \in {"none", "created"} => Whereabouts(j) = {} /\ ~ Completed(j)
  BY DEF CoherenceInv, FinalFacts
<1>1. InOnePlace(j)' /\ (Whereabouts(j) = {} => Whereabouts(j)' = {})
  BY <1>0, WorkCarries, CarriedStays
<1>2. api' = api
  BY DEF Work, Receive, UpdateRead, UpdateSkipped, UpdateWrite, Updated, Evaluate, Retry,
         GiveUp, Ack
<1>3. CASE ~ UpdateWrite(w)
  <2>1. store' = store
    BY <1>3 DEF Work, Receive, UpdateRead, UpdateGet, UpdateSkipped, UpdateMissing, Evaluate,
                Retry, GiveUp, Ack, storeVars
  <2>2. Completed(j)' <=> Completed(j) BY <2>1 DEF Completed
  <2> QED BY <1>0, <1>1, <1>2, <2>2
<1>4. CASE UpdateWrite(w)
  <2>1. /\ phase[w] \in Updating
        /\ store' = [store EXCEPT ![Job(w)] = Merge(snap[w], Patch[phase[w]])]
        /\ phase' = [phase EXCEPT ![w] = AfterUpdate[phase[w]]]
        /\ UNCHANGED <<place, msg, cur>>
    BY <1>4 DEF UpdateWrite, UpdateSet, SetKey, Updated, brokerVars
  <2>2. PICK i \in Jobs : i = Job(w) BY <1>0, <2>1 DEF TypeOK, Job, Message, Updating
  <2>3. CASE j # i
    <3>1. Completed(j)' <=> Completed(j)
      BY <1>0, <2>1, <2>2, <2>3 DEF Completed, TypeOK, StoreTypeOK
    <3> QED BY <1>0, <1>1, <1>2, <3>1
  <2>4. CASE j = i
    <3>1. <<"worker", w>> \in Whereabouts(j)
      BY <2>1, <2>2, <2>4, WhereaboutsMembers DEF BusyWith, Updating
    <3>2. api[j] \notin {"none", "created"} BY <1>0, <3>1
    <3>3. ASSUME Completed(j)' PROVE Whereabouts(j)' = {}
      <4>1. Patch[phase[w]].status = "completed"
        BY <1>0, <2>1, <2>2, <2>4, <3>3 DEF Completed, Merge, TypeOK, StoreTypeOK
      <4>2. phase[w] = "done" BY <2>1, <4>1 DEF Patch, Updating
      <4>3. AfterUpdate[phase[w]] = "ack" BY <4>2 DEF AfterUpdate
      <4>4. Whereabouts(j)' \subseteq Whereabouts(j) /\ <<"worker", w>> \notin Whereabouts(j)'
        BY <1>0, <2>1, <4>2, <4>3, BodyCarries
      <4> QED BY <1>0, <3>1, <4>4 DEF InOnePlace
    <3> QED BY <1>1, <1>2, <3>2, <3>3
  <2> QED BY <2>3, <2>4
<1> QED BY <1>3, <1>4

(* Every action preserves the strengthened invariant. *)
LEMMA FinalInductive == FinalInv /\ [Next]_vars => FinalInv'
<1> SUFFICES ASSUME FinalInv, [Next]_vars, NoFault' PROVE FinalFacts'
  BY CoherenceInductive, HoldersInductive DEF FinalInv, CoherenceInv
<1>0. CoherenceInv /\ TypeOK /\ Holders BY DEF FinalInv, CoherenceInv
<1>1. NoFault BY <1>0, FaultsGrow DEF NoFault
<1>2. FinalFacts BY <1>1 DEF FinalInv
<1>3. \A t \in Tags : place'[t] = "unacked" => Held(t)' BY <1>0, <1>1, <1>2, UnackedHeld
<1> DEFINE Kept == \A j \in Jobs :
              /\ InOnePlace(j)'
              /\ Completed(j)' => Whereabouts(j)' = {}
              /\ api'[j] \in {"none", "created"} => Whereabouts(j)' = {} /\ ~ Completed(j)'
<1>4. ASSUME NEW i \in Jobs, Submit(i) PROVE Kept BY <1>0, <1>2, <1>4, SubmitFinal
<1>5. ASSUME NEW w \in Workers, Work(w) PROVE Kept BY <1>0, <1>2, <1>5, WorkFinal
<1>6. ASSUME Expire \/ UNCHANGED vars PROVE Kept
  <2>1. /\ UNCHANGED <<api, place, msg, phase, cur>>
        /\ \A j \in Jobs : store'[j] \in {store[j], Absent}
    BY <1>6 DEF Expire, Tick, vars, brokerVars, workerVars
  <2>2. \A j : Whereabouts(j)' = Whereabouts(j)
    BY <2>1 DEF Whereabouts, WaitingFor, BusyWith, Job
  <2>3. \A j \in Jobs : Completed(j)' => Completed(j) BY <2>1 DEF Completed
  <2> QED BY <1>2, <2>1, <2>2, <2>3 DEF FinalFacts, InOnePlace
<1>7. ASSUME NEW t \in Tags, Redeliver(t) PROVE FALSE
  BY <1>2, <1>7 DEF Redeliver, FinalFacts
<1>8. faults'["crash"] = 0 /\ faults'["slow"] = 0 /\ faults'["redis"] = 0 BY DEF NoFault
<1>9. Kept
  BY <1>0, <1>4, <1>5, <1>6, <1>7, <1>8, RaisesIsFault, CrashIsFault, TimeoutIsFault
  DEF Next, Terminated
<1> QED BY <1>3, <1>9 DEF FinalFacts

(* No job is anywhere initially. *)
LEMMA FinalInitially == Init => FinalInv
<1> SUFFICES ASSUME Init PROVE FinalInv OBVIOUS
<1>1. CoherenceInv BY CoherenceInitially
<1>2. Holders BY DEF Init, Holders, NonIdle
<1>3. \A j : Whereabouts(j) = {} BY DEF Init, Whereabouts, WaitingFor, BusyWith
<1>4. FinalFacts BY <1>3 DEF Init, StoreInit, FinalFacts, InOnePlace, Completed
<1> QED BY <1>1, <1>2, <1>4 DEF FinalInv

(* Until a first fault, no step changes a completed document: no late write of
   its own task, no retry, and no task of another job. *)
THEOREM CompletedStaysCompleted == Spec => CompletedIsFinal
<1> DEFINE Kept == \A j \in Jobs :
              /\ \A kind \in DOMAIN faults : faults[kind] = 0
              /\ store[j] # Absent /\ store[j].status = "completed"
              => store'[j] \in {store[j], Absent}
<1>1. ASSUME FinalInv, [Next]_vars PROVE [Kept]_store
  <2> SUFFICES ASSUME NEW j \in Jobs, NoFault, Completed(j)
               PROVE  store'[j] \in {store[j], Absent}
    BY <1>1 DEF FinalInv, CoherenceInv, TypeOK, NoFault, Completed
  <2>0. TypeOK /\ CoherenceInv /\ Whereabouts(j) = {}
    BY <1>1 DEF FinalInv, CoherenceInv, FinalFacts
  <2>1. ASSUME NEW w \in Workers, phase[w] \in Updating, NEW r,
               SetKey(Job(w), r) \/ store' = store
        PROVE  store'[j] = store[j]
    <3>1. Job(w) # j BY <2>0, <2>1, WhereaboutsMembers DEF BusyWith, Updating
    <3> QED BY <2>0, <2>1, <3>1 DEF SetKey, TypeOK, StoreTypeOK
  <2>2. ASSUME NEW i \in Jobs, Submit(i) PROVE store'[j] = store[j]
    <3>1. ASSUME NEW type \in JobTypes, CreateJob(i, type) PROVE store'[j] = store[j]
      <4>1. i # j
        BY <2>0, <3>1 DEF CreateJob, create_job, CoherenceInv, DocumentsCoherent, Completed
      <4> QED BY <2>0, <3>1, <4>1 DEF CreateJob, create_job, SetKey, TypeOK, StoreTypeOK
    <3> QED BY <2>2, <3>1 DEF Submit, Dispatch, DispatchFails, storeVars
  <2>3. ASSUME NEW w \in Workers, Work(w) PROVE store'[j] = store[j]
    <3>1. CASE UpdateWrite(w) BY <2>1, <3>1 DEF UpdateWrite, UpdateSet
    <3>2. CASE ~ UpdateWrite(w)
      BY <2>3, <3>2 DEF Work, Receive, UpdateRead, UpdateGet, UpdateSkipped, UpdateMissing,
                        Evaluate, Retry, GiveUp, Ack, storeVars
    <3> QED BY <3>1, <3>2
  <2>4. ASSUME NEW w \in Workers, UpdateRaises(w) PROVE store'[j] = store[j]
    BY <2>1, <2>4 DEF UpdateRaises, UpdateError
  <2>5. ASSUME NEW w \in Workers, Crash(w) PROVE store'[j] = store[j]
    BY <2>5 DEF Crash, DropSnap
  <2>6. ASSUME NEW t \in Tags, Redeliver(t) \/ VisibilityTimeout(t) PROVE store'[j] = store[j]
    BY <2>6 DEF Redeliver, VisibilityTimeout, Requeue, storeVars
  <2>7. ASSUME Expire \/ UNCHANGED vars PROVE store'[j] \in {store[j], Absent}
    BY <2>7 DEF Expire, Tick, vars
  <2> QED BY <1>1, <2>2, <2>3, <2>4, <2>5, <2>6, <2>7 DEF Next, Terminated
<1>2. Spec => []FinalInv BY FinalInitially, FinalInductive, PTL DEF Spec
<1> QED BY <1>1, <1>2, PTL DEF Spec, CompletedIsFinal

-----------------------------------------------------------------------------
(* Why RetryBound holds.  Every message and every busy worker of a job carries
   the tries that its retry count leaves it; a try is spent by an evaluation,
   a retry hands the rest to the new message, and a redelivery brings in at
   most one whole allowance. *)

Allowance == MAX_RETRIES + 1

NextTry(w) == msg[cur[w]].retries + (IF phase[w] \in {"start", "eval"} THEN 0 ELSE 1)

FirstTry(y) == IF y[1] = "message" THEN msg[y[2]].retries ELSE NextTry(y[2])

Tries(j) == {x \in Whereabouts(j) \X (0 .. MAX_RETRIES) : FirstTry(x[1]) <= x[2]}

Unsent(j) == IF api[j] \in {"none", "created"} THEN Allowance ELSE 0

Budget(j) ==
    /\ IsFiniteSet(Tries(j))
    /\ evals[j] + Cardinality(Tries(j)) + Unsent(j) <= Allowance * (1 + redelivered[j])

BudgetInv == TypeOK /\ \A j \in Jobs : Budget(j)

(* Tries of one holder, from a on. *)
Block(y, a) == {y} \X (a .. MAX_RETRIES)

(* How many tries a holder has left. *)
LEMMA BlockSize ==
    ASSUME NEW y, NEW a \in 0 .. Allowance
    PROVE  IsFiniteSet(Block(y, a)) /\ Cardinality(Block(y, a)) = Allowance - a
<1>0. MAX_RETRIES \in Nat /\ a \in Nat BY CeleryAssumption DEF Allowance
<1>1. IsFiniteSet({y}) /\ Cardinality({y}) = 1 BY FS_Singleton
<1>2. /\ IsFiniteSet(a .. MAX_RETRIES)
      /\ Cardinality(a .. MAX_RETRIES) = IF a > MAX_RETRIES THEN 0 ELSE MAX_RETRIES - a + 1
  BY <1>0, FS_Interval
<1>3. Cardinality(a .. MAX_RETRIES) = Allowance - a BY <1>0, <1>2 DEF Allowance
<1>4. /\ IsFiniteSet({y} \X (a .. MAX_RETRIES))
      /\ Cardinality({y} \X (a .. MAX_RETRIES)) = Cardinality({y}) * Cardinality(a .. MAX_RETRIES)
  BY <1>1, <1>2, FS_Product
<1> QED BY <1>0, <1>1, <1>3, <1>4 DEF Block, Allowance

(* Taking B away from A and adding D. *)
LEMMA SwapSize ==
    ASSUME NEW A, IsFiniteSet(A), NEW B, B \subseteq A, NEW D, IsFiniteSet(D),
           NEW C, C \subseteq (A \ B) \cup D
    PROVE  /\ IsFiniteSet(C)
           /\ Cardinality(C) <= Cardinality(A) - Cardinality(B) + Cardinality(D)
           /\ Cardinality(A) \in Nat /\ Cardinality(B) \in Nat /\ Cardinality(C) \in Nat
<1>1. A \cap B = B OBVIOUS
<1>2. IsFiniteSet(A \ B) /\ Cardinality(A \ B) = Cardinality(A) - Cardinality(B)
  BY <1>1, FS_Difference
<1>3. IsFiniteSet(B) BY FS_Subset
<1> DEFINE E == A \ B
<1>4. IsFiniteSet(E) BY <1>2
<1>5. /\ IsFiniteSet(E \cup D)
      /\ Cardinality(E \cup D) = Cardinality(E) + Cardinality(D) - Cardinality(E \cap D)
  BY <1>4, FS_Union
<1>6. IsFiniteSet(E \cap D) BY <1>4, FS_Intersection
<1>7. C \in SUBSET (E \cup D) OBVIOUS
<1>8. IsFiniteSet(C) /\ Cardinality(C) <= Cardinality(E \cup D) BY <1>5, <1>7, FS_Subset
<1>9. /\ Cardinality(A) \in Nat /\ Cardinality(B) \in Nat /\ Cardinality(C) \in Nat
      /\ Cardinality(D) \in Nat /\ Cardinality(E \cap D) \in Nat /\ Cardinality(E) \in Nat
      /\ Cardinality(E \cup D) \in Nat
  BY <1>3, <1>4, <1>5, <1>6, <1>8, FS_CardinalityType
<1>10. Cardinality(E) = Cardinality(A) - Cardinality(B) BY <1>2
<1> HIDE DEF E
<1> QED BY <1>5, <1>8, <1>9, <1>10

(* The budget of a job whose tries changed from A to C, and whose evaluations
   and outstanding request changed with them. *)
LEMMA BudgetKept ==
    ASSUME NEW j \in Jobs, TypeOK, TypeOK', Budget(j), NEW B, B \subseteq Tries(j),
           NEW D, IsFiniteSet(D), Tries(j)' \subseteq (Tries(j) \ B) \cup D,
           redelivered'[j] = redelivered[j],
           evals'[j] + Cardinality(D) + Unsent(j)' <= evals[j] + Cardinality(B) + Unsent(j)
    PROVE  Budget(j)'
<1>1. /\ IsFiniteSet(Tries(j)')
      /\ Cardinality(Tries(j)') <= Cardinality(Tries(j)) - Cardinality(B) + Cardinality(D)
      /\ Cardinality(Tries(j)) \in Nat /\ Cardinality(B) \in Nat /\ Cardinality(Tries(j)') \in Nat
  BY SwapSize DEF Budget
<1>2. Cardinality(D) \in Nat BY FS_CardinalityType
<1>3. /\ evals[j] \in Nat /\ evals'[j] \in Nat /\ Allowance \in Nat
      /\ Unsent(j) \in Nat /\ Unsent(j)' \in Nat
  BY CeleryAssumption DEF TypeOK, Unsent, Allowance
<1>4. Allowance * (1 + redelivered[j]) \in Int BY <1>3 DEF TypeOK
<1>5. evals[j] + Cardinality(Tries(j)) + Unsent(j) <= Allowance * (1 + redelivered[j])
  BY DEF Budget
<1>6. evals'[j] + Cardinality(Tries(j)') + Unsent(j)' <= Allowance * (1 + redelivered[j])
  BY <1>1, <1>2, <1>3, <1>4, <1>5
<1> QED BY <1>1, <1>6 DEF Budget, Allowance

(* A step that takes tries away and evaluates nothing stays within the
   budget. *)
LEMMA BudgetShrinks ==
    ASSUME NEW j \in Jobs, TypeOK, TypeOK', Budget(j), Tries(j)' \subseteq Tries(j),
           UNCHANGED <<redelivered, evals>>, Unsent(j)' <= Unsent(j)
    PROVE  Budget(j)'
<1>1. IsFiniteSet({}) /\ Cardinality({}) = 0 BY FS_EmptySet
<1>2. evals[j] \in Nat /\ Unsent(j) \in Nat /\ Unsent(j)' \in Nat
  BY CeleryAssumption DEF TypeOK, Unsent, Allowance
<1>3. evals'[j] + Cardinality({}) + Unsent(j)' <= evals[j] + Cardinality({}) + Unsent(j)
  BY <1>1, <1>2
<1>4. {} \subseteq Tries(j) /\ Tries(j)' \subseteq (Tries(j) \ {}) \cup {} OBVIOUS
<1> QED BY <1>1, <1>3, <1>4, BudgetKept

(* Fewer holders with fewer tries. *)
LEMMA TriesShrink ==
    ASSUME NEW j, \A y \in Whereabouts(j)' :
              y \in Whereabouts(j) /\ \A n \in Nat : FirstTry(y)' <= n => FirstTry(y) <= n
    PROVE  Tries(j)' \subseteq Tries(j)
  BY CeleryAssumption DEF Tries

(* The members of Tries, spelled out for the provers. *)
LEMMA TriesMembers ==
    \A j, y, n : <<y, n>> \in Tries(j) <=>
        y \in Whereabouts(j) /\ n \in 0 .. MAX_RETRIES /\ FirstTry(y) <= n
  BY DEF Tries

(* The block of a holder is among the tries of its job. *)
LEMMA BlockOf ==
    ASSUME TypeOK, NEW j, NEW y \in Whereabouts(j), NEW a \in Nat, FirstTry(y) <= a
    PROVE  Block(y, a) \subseteq Tries(j)
<1>1. FirstTry(y) \in Nat
  BY CeleryAssumption, WhereaboutsMembers
  DEF FirstTry, NextTry, TypeOK, Message, BusyWith, WaitingFor
<1> QED BY <1>1, CeleryAssumption DEF Block, Tries

(* A step of one worker in the task body that does not go back gives nobody
   more tries. *)
LEMMA BodyTries ==
    ASSUME TypeOK, NEW w \in Workers, NEW q, phase' = [phase EXCEPT ![w] = q],
           phase[w] \notin {"idle", "ack"}, UNCHANGED <<place, msg, cur>>,
           q \in {"start", "eval"} => phase[w] \in {"start", "eval"}
    PROVE  \A j : Tries(j)' \subseteq Tries(j)
<1> SUFFICES ASSUME NEW j, NEW y \in Whereabouts(j)', NEW n \in Nat, FirstTry(y)' <= n
             PROVE  FirstTry(y) <= n
  BY BodyCarries, TriesShrink
<1>1. y \in Whereabouts(j) BY BodyCarries
<1>2. CASE \E t \in Tags : y = <<"message", t>> BY <1>2 DEF FirstTry
<1>3. ASSUME NEW v \in Workers, y = <<"worker", v>>, BusyWith(v, j) PROVE FirstTry(y) <= n
  <2>1. FirstTry(y) = NextTry(v) /\ FirstTry(y)' = NextTry(v)' BY <1>3 DEF FirstTry
  <2>2. msg[cur[v]].retries \in Nat
    BY <1>3, CeleryAssumption DEF BusyWith, TypeOK, Message
  <2>3. NextTry(v)' <= n BY <2>1
  <2>4. NextTry(v) <= n BY <2>2, <2>3 DEF NextTry, TypeOK
  <2> QED BY <2>1, <2>4
<1> QED BY <1>1, <1>2, <1>3, WhereaboutsMembers

(* A published message brings the tries from its retry count on. *)
LEMMA PublishTries ==
    ASSUME TypeOK, NEW i \in Jobs, NEW n \in 0 .. MAX_RETRIES, Publish(i, n), UNCHANGED cur,
           \A v \in Workers : phase'[v] # phase[v] => phase'[v] \in {"idle", "ack"}
    PROVE  /\ \A j : j # i => Tries(j)' \subseteq Tries(j)
           /\ \E t \in Tags : Tries(i)' \subseteq Tries(i) \cup Block(<<"message", t>>, n)
<1>1. PICK t \in Tags :
          /\ place[t] = "free" /\ ~ Held(t)
          /\ place'[t] = "evaluation" /\ msg'[t] = [job |-> i, retries |-> n]
          /\ \A u \in Tags \ {t} : place'[u] = place[u] /\ msg'[u] = msg[u]
  BY PublishTakesFree
<1>2. ASSUME NEW j, NEW u \in Tags, WaitingFor(u, j)', u # t
      PROVE  WaitingFor(u, j) /\ FirstTry(<<"message", u>>)' = FirstTry(<<"message", u>>)
  BY <1>1, <1>2 DEF WaitingFor, FirstTry
<1>3. ASSUME NEW j, WaitingFor(t, j)' PROVE j = i
  BY <1>1, <1>3 DEF WaitingFor
<1>4. ASSUME NEW j, NEW v \in Workers, BusyWith(v, j)'
      PROVE  BusyWith(v, j) /\ FirstTry(<<"worker", v>>)' = FirstTry(<<"worker", v>>)
  <2>1. phase'[v] = phase[v] /\ phase[v] \notin {"idle", "ack"} BY <1>4 DEF BusyWith
  <2>2. cur[v] \in Tags /\ cur[v] # t BY <1>1, <2>1 DEF TypeOK, Held
  <2>3. Job(v)' = Job(v) /\ msg'[cur[v]] = msg[cur[v]] BY <1>1, <2>2 DEF Job
  <2> QED BY <1>4, <2>1, <2>3 DEF BusyWith, FirstTry, NextTry
<1>5. ASSUME NEW j, NEW y \in Whereabouts(j)', y # <<"message", t>>
      PROVE  y \in Whereabouts(j) /\ FirstTry(y)' = FirstTry(y)
  <2>1. \/ \E u \in Tags : y = <<"message", u>> /\ WaitingFor(u, j)'
        \/ \E v \in Workers : y = <<"worker", v>> /\ BusyWith(v, j)'
    BY DEF Whereabouts
  <2>2. ASSUME NEW u \in Tags, y = <<"message", u>>, WaitingFor(u, j)'
        PROVE  y \in Whereabouts(j) /\ FirstTry(y)' = FirstTry(y)
    BY <1>2, <1>5, <2>2, WhereaboutsMembers
  <2>3. ASSUME NEW v \in Workers, y = <<"worker", v>>, BusyWith(v, j)'
        PROVE  y \in Whereabouts(j) /\ FirstTry(y)' = FirstTry(y)
    BY <1>4, <2>3, WhereaboutsMembers
  <2> QED BY <2>1, <2>2, <2>3
<1>6. ASSUME NEW j, j # i PROVE Tries(j)' \subseteq Tries(j)
  <2>1. <<"message", t>> \notin Whereabouts(j)' BY <1>3, <1>6 DEF Whereabouts
  <2> QED BY <1>5, <2>1, TriesShrink
<1>7. Tries(i)' \subseteq Tries(i) \cup Block(<<"message", t>>, n)
  <2>1. FirstTry(<<"message", t>>)' = n BY <1>1 DEF FirstTry
  <2> SUFFICES ASSUME NEW y \in Whereabouts(i)', NEW m \in 0 .. MAX_RETRIES, FirstTry(y)' <= m
               PROVE  <<y, m>> \in Tries(i) \cup Block(<<"message", t>>, n)
    BY DEF Tries
  <2>2. CASE y = <<"message", t>>
    <3>1. m \in n .. MAX_RETRIES BY <2>1, <2>2, CeleryAssumption
    <3> QED BY <2>2, <3>1 DEF Block
  <2>3. CASE y # <<"message", t>> BY <1>5, <2>3, TriesMembers
  <2> QED BY <2>2, <2>3
<1> QED BY <1>6, <1>7

(* The endpoint: the tries of a job pass from its request to its first
   message. *)
LEMMA BudgetSubmit ==
    ASSUME BudgetInv, TypeOK', NEW i \in Jobs, Submit(i), NEW j \in Jobs
    PROVE  Budget(j)'
<1>0. /\ TypeOK /\ Budget(j) /\ UNCHANGED <<evals, redelivered>>
      /\ MAX_RETRIES \in Nat /\ 0 \in 0 .. MAX_RETRIES /\ Allowance = MAX_RETRIES + 1
  BY CeleryAssumption
  DEF BudgetInv, Submit, CreateJob, Dispatch, DispatchFails, historyVars, Allowance
<1>1. ASSUME UNCHANGED <<place, msg, phase, cur>>, Unsent(j)' <= Unsent(j) PROVE Budget(j)'
  <2>1. Tries(j)' = Tries(j)
    BY <1>1 DEF Tries, Whereabouts, WaitingFor, BusyWith, Job, FirstTry, NextTry
  <2> QED BY <1>0, <1>1, <2>1, BudgetShrinks
<1>2. ASSUME NEW type \in JobTypes, CreateJob(i, type) PROVE Budget(j)'
  <2>1. Unsent(j)' = Unsent(j) /\ Unsent(j) \in Nat
    BY <1>0, <1>2 DEF CreateJob, Unsent, TypeOK, Allowance
  <2> QED BY <1>1, <1>2, <2>1 DEF CreateJob, brokerVars, workerVars
<1>3. ASSUME Dispatch(i) \/ DispatchFails(i) PROVE Budget(j)'
  <2>1. /\ UNCHANGED <<phase, cur>>
        /\ Publish(i, 0) \/ UNCHANGED <<place, msg>>
        /\ Unsent(i) = Allowance /\ Unsent(i)' = 0 /\ (j # i => Unsent(j)' = Unsent(j))
        /\ Unsent(j) \in Nat /\ Unsent(j)' \in Nat /\ Unsent(j)' <= Unsent(j)
    BY <1>0, <1>3
    DEF Dispatch, DispatchFails, brokerVars, workerVars, TypeOK, Unsent, Allowance
  <2>2. CASE UNCHANGED <<place, msg>> BY <1>1, <2>1, <2>2
  <2>3. CASE Publish(i, 0) /\ j # i
    <3>1. Tries(j)' \subseteq Tries(j) BY <1>0, <2>1, <2>3, PublishTries
    <3> QED BY <1>0, <2>1, <3>1, BudgetShrinks
  <2>4. CASE Publish(i, 0) /\ j = i
    <3>1. PICK t \in Tags : Tries(j)' \subseteq Tries(j) \cup Block(<<"message", t>>, 0)
      BY <1>0, <2>1, <2>4, PublishTries
    <3> DEFINE D == Block(<<"message", t>>, 0)
    <3>2. IsFiniteSet(D) /\ Cardinality(D) = Allowance BY <1>0, BlockSize
    <3>3. IsFiniteSet({}) /\ Cardinality({}) = 0 BY FS_EmptySet
    <3>4. {} \subseteq Tries(j) /\ Tries(j)' \subseteq (Tries(j) \ {}) \cup D BY <3>1
    <3> HIDE DEF D
    <3>5. evals'[j] + Cardinality(D) + Unsent(j)' <= evals[j] + Cardinality({}) + Unsent(j)
      BY <1>0, <2>1, <2>4, <3>2, <3>3 DEF TypeOK
    <3> QED BY <1>0, <3>2, <3>4, <3>5, BudgetKept
  <2> QED BY <2>1, <2>2, <2>3, <2>4
<1> QED BY <1>2, <1>3 DEF Submit

(* A worker receives a message and takes over its tries. *)
LEMMA BudgetReceive ==
    ASSUME BudgetInv, TypeOK', NEW w \in Workers, Receive(w), NEW j \in Jobs
    PROVE  Budget(j)'
<1>0. TypeOK /\ Budget(j) /\ UNCHANGED <<api, evals, redelivered>>
  BY DEF BudgetInv, Receive, historyVars
<1>1. PICK t \in Tags : /\ place[t] = "evaluation"
                        /\ place' = [place EXCEPT ![t] = "unacked"]
                        /\ cur' = [cur EXCEPT ![w] = t]
  BY DEF Receive
<1> DEFINE r == msg[t].retries
           y0 == <<"message", t>>
           y1 == <<"worker", w>>
<1>2. phase[w] = "idle" /\ phase' = [phase EXCEPT ![w] = "start"] /\ msg' = msg
  BY DEF Receive
<1>3. r \in 0 .. MAX_RETRIES /\ r \in Nat /\ r \in 0 .. Allowance /\ Allowance \in Nat
  BY CeleryAssumption DEF BudgetInv, TypeOK, Message, Allowance
<1>4. Job(w)' = msg[t].job /\ FirstTry(y1)' = r
  BY <1>0, <1>1, <1>2, <1>3 DEF Job, TypeOK, FirstTry, NextTry
<1>5. \A v \in Workers : v # w => phase'[v] = phase[v] /\ cur'[v] = cur[v] /\ Job(v)' = Job(v)
  BY <1>0, <1>1, <1>2 DEF Job, TypeOK
<1>6. ASSUME NEW y \in Whereabouts(j)', y # y1
      PROVE  y \in Whereabouts(j) /\ y # y0 /\ FirstTry(y)' = FirstTry(y)
  <2>1. \/ \E u \in Tags : y = <<"message", u>> /\ WaitingFor(u, j)'
        \/ \E v \in Workers : y = <<"worker", v>> /\ BusyWith(v, j)'
    BY DEF Whereabouts
  <2>2. ASSUME NEW u \in Tags, y = <<"message", u>>, WaitingFor(u, j)'
        PROVE  y \in Whereabouts(j) /\ y # y0 /\ FirstTry(y)' = FirstTry(y)
    <3>1. WaitingFor(u, j) /\ u # t BY <1>0, <1>1, <1>2, <2>2 DEF WaitingFor, TypeOK
    <3>2. FirstTry(y)' = FirstTry(y) BY <1>2, <2>2 DEF FirstTry
    <3> QED BY <2>2, <3>1, <3>2, WhereaboutsMembers
  <2>3. ASSUME NEW v \in Workers, y = <<"worker", v>>, BusyWith(v, j)'
        PROVE  y \in Whereabouts(j) /\ y # y0 /\ FirstTry(y)' = FirstTry(y)
    <3>1. v # w BY <1>6, <2>3
    <3>2. BusyWith(v, j) BY <1>5, <2>3, <3>1 DEF BusyWith
    <3>3. FirstTry(y)' = FirstTry(y) BY <1>2, <1>5, <2>3, <3>1 DEF FirstTry, NextTry
    <3> QED BY <2>3, <3>2, <3>3, WhereaboutsMembers
  <2> QED BY <2>1, <2>2, <2>3
<1>7. CASE j # msg[t].job
  <2>1. y1 \notin Whereabouts(j)' BY <1>4, <1>7 DEF Whereabouts, BusyWith
  <2>2. Tries(j)' \subseteq Tries(j) BY <1>6, <2>1, TriesShrink
  <2>3. Unsent(j)' = Unsent(j) /\ Unsent(j) \in Nat BY <1>0, <1>3 DEF Unsent
  <2> QED BY <1>0, <2>2, <2>3, BudgetShrinks
<1>8. CASE j = msg[t].job
  <2>1. y0 \in Whereabouts(j) /\ FirstTry(y0) = r
    BY <1>1, <1>8, WhereaboutsMembers DEF WaitingFor, FirstTry
  <2>2. Block(y0, r) \subseteq Tries(j) BY <1>0, <1>3, <2>1, BlockOf
  <2>3. Tries(j)' \subseteq (Tries(j) \ Block(y0, r)) \cup Block(y1, r)
    <3> SUFFICES ASSUME NEW y \in Whereabouts(j)', NEW m \in 0 .. MAX_RETRIES, FirstTry(y)' <= m
                 PROVE  <<y, m>> \in (Tries(j) \ Block(y0, r)) \cup Block(y1, r)
      BY DEF Tries
    <3>1. CASE y = y1
      <4>1. m \in r .. MAX_RETRIES BY <1>3, <1>4, <3>1, CeleryAssumption
      <4> QED BY <3>1, <4>1 DEF Block
    <3>2. CASE y # y1
      <4>1. <<y, m>> \in Tries(j) BY <1>6, <3>2, TriesMembers
      <4>2. <<y, m>> \notin Block(y0, r) BY <1>6, <3>2 DEF Block
      <4> QED BY <4>1, <4>2
    <3> QED BY <3>1, <3>2
  <2>4. /\ IsFiniteSet(Block(y1, r)) /\ Cardinality(Block(y1, r)) = Allowance - r
        /\ Cardinality(Block(y0, r)) = Allowance - r
    BY <1>3, BlockSize
  <2>5. Unsent(j)' = Unsent(j) /\ Unsent(j) \in Nat /\ evals[j] \in Nat
    BY <1>0, <1>3 DEF Unsent, TypeOK
  <2>6. evals'[j] + Cardinality(Block(y1, r)) + Unsent(j)'
           <= evals[j] + Cardinality(Block(y0, r)) + Unsent(j)
    BY <1>0, <1>3, <2>4, <2>5
  <2> HIDE DEF y0, y1, r
  <2> QED BY <1>0, <2>2, <2>3, <2>4, <2>6, BudgetKept
<1> QED BY <1>7, <1>8

(* A retry hands what is left to the message it publishes. *)
LEMMA BudgetRetry ==
    ASSUME BudgetInv, TypeOK', NEW w \in Workers, Retry(w), NEW j \in Jobs
    PROVE  Budget(j)'
<1>0. TypeOK /\ Budget(j) /\ UNCHANGED <<api, evals, redelivered, cur>>
  BY DEF BudgetInv, Retry, historyVars
<1> DEFINE a == msg[cur[w]].retries + 1
           y0 == <<"worker", w>>
<1>1. /\ phase[w] = "retry" /\ phase' = [phase EXCEPT ![w] = "ack"]
      /\ Publish(Job(w), a) /\ a \in 0 .. MAX_RETRIES /\ a \in Nat
      /\ a \in 0 .. Allowance /\ Allowance \in Nat
  BY <1>0, CeleryAssumption DEF Retry, TypeOK, Message, Allowance
<1>2. PICK i \in Jobs : i = Job(w) BY <1>0, <1>1 DEF TypeOK, Job, Message
<1>3. \A v \in Workers : phase'[v] # phase[v] => phase'[v] \in {"idle", "ack"}
  BY <1>0, <1>1 DEF TypeOK
<1>4. Unsent(j)' = Unsent(j) /\ Unsent(j) \in Nat /\ evals[j] \in Nat
  BY <1>0, <1>1 DEF Unsent, TypeOK
<1>5. y0 \in Whereabouts(i) /\ FirstTry(y0) = a
  BY <1>1, <1>2, WhereaboutsMembers DEF BusyWith, FirstTry, NextTry
<1>6. Publish(i, a) BY <1>1, <1>2
<1> HIDE DEF a
<1>7. CASE j # i
  <2>1. Tries(j)' \subseteq Tries(j) BY <1>0, <1>1, <1>3, <1>6, <1>7, PublishTries
  <2> QED BY <1>0, <1>4, <2>1, BudgetShrinks
<1>8. CASE j = i
  <2>1. PICK t \in Tags : Tries(j)' \subseteq Tries(j) \cup Block(<<"message", t>>, a)
    BY <1>0, <1>1, <1>3, <1>6, <1>8, PublishTries
  <2> DEFINE D == Block(<<"message", t>>, a)
             B == Block(y0, a)
  <2>2. B \subseteq Tries(j) BY <1>0, <1>1, <1>5, <1>8, BlockOf
  <2>3. y0 \notin Whereabouts(j)'
    <3>1. ~ BusyWith(w, j)' BY <1>0, <1>1 DEF BusyWith, TypeOK
    <3> QED BY <3>1 DEF Whereabouts
  <2>4. Tries(j)' \subseteq (Tries(j) \ B) \cup D
    <3>1. \A x \in B : x \notin Tries(j)' BY <2>3 DEF Block, Tries
    <3> QED BY <2>1, <3>1
  <2>5. IsFiniteSet(D) /\ Cardinality(D) = Allowance - a /\ Cardinality(B) = Allowance - a
    BY <1>1, BlockSize
  <2> HIDE DEF B, D
  <2>6. evals'[j] + Cardinality(D) + Unsent(j)' <= evals[j] + Cardinality(B) + Unsent(j)
    BY <1>0, <1>1, <1>4, <2>5
  <2> QED BY <1>0, <2>2, <2>4, <2>5, <2>6, BudgetKept
<1> QED BY <1>7, <1>8

(* An evaluation spends one try. *)
LEMMA BudgetEvaluate ==
    ASSUME BudgetInv, TypeOK', NEW w \in Workers, Evaluate(w), NEW j \in Jobs
    PROVE  Budget(j)'
<1>0. /\ TypeOK /\ Budget(j) /\ UNCHANGED <<api, redelivered, place, msg, cur>>
      /\ phase[w] = "eval" /\ evals' = [evals EXCEPT ![Job(w)] = @ + 1]
  BY DEF BudgetInv, Evaluate, brokerVars
<1>1. PICK next \in {"done", "fail"} : phase' = [phase EXCEPT ![w] = next]
  BY DEF Evaluate
<1> DEFINE r == msg[cur[w]].retries
           y0 == <<"worker", w>>
<1>2. cur[w] \in Tags /\ r \in 0 .. MAX_RETRIES /\ r \in Nat /\ Allowance \in Nat
  BY <1>0, CeleryAssumption DEF TypeOK, Message, Allowance
<1>3. PICK i \in Jobs : i = Job(w) BY <1>0, <1>2 DEF TypeOK, Job, Message
<1>4. Tries(j)' \subseteq Tries(j) BY <1>0, <1>1, BodyTries
<1>5. Unsent(j)' = Unsent(j) /\ Unsent(j) \in Nat /\ evals[j] \in Nat
  BY <1>0, <1>2 DEF Unsent, TypeOK
<1>6. IsFiniteSet({}) /\ Cardinality({}) = 0 BY FS_EmptySet
<1>7. CASE j # i
  <2>1. evals'[j] = evals[j] BY <1>0, <1>3, <1>7 DEF TypeOK
  <2>2. evals'[j] + Cardinality({}) + Unsent(j)' <= evals[j] + Cardinality({}) + Unsent(j)
    BY <1>5, <1>6, <2>1
  <2>3. {} \subseteq Tries(j) /\ Tries(j)' \subseteq (Tries(j) \ {}) \cup {} BY <1>4
  <2> QED BY <1>0, <1>6, <2>2, <2>3, BudgetKept
<1>8. CASE j = i
  <2>1. y0 \in Whereabouts(j) /\ FirstTry(y0) = r
    BY <1>0, <1>2, <1>3, <1>8, WhereaboutsMembers DEF BusyWith, FirstTry, NextTry
  <2>2. <<y0, r>> \in Tries(j) BY <1>2, <2>1, TriesMembers
  <2>3. <<y0, r>> \notin Tries(j)'
    <3>1. FirstTry(y0)' = r + 1 BY <1>0, <1>1, <1>2 DEF FirstTry, NextTry, TypeOK
    <3>2. ~ (FirstTry(y0)' <= r) BY <1>2, <3>1
    <3> QED BY <3>2 DEF Tries
  <2>4. evals'[j] = evals[j] + 1 BY <1>0, <1>3, <1>8 DEF TypeOK
  <2> DEFINE B == {<<y0, r>>}
  <2>5. Cardinality(B) = 1 BY FS_Singleton
  <2>6. B \subseteq Tries(j) /\ Tries(j)' \subseteq (Tries(j) \ B) \cup {} BY <1>4, <2>2, <2>3
  <2> HIDE DEF B
  <2>7. evals'[j] + Cardinality({}) + Unsent(j)' <= evals[j] + Cardinality(B) + Unsent(j)
    BY <1>5, <1>6, <2>4, <2>5
  <2> QED BY <1>0, <1>6, <2>6, <2>7, BudgetKept
<1> QED BY <1>7, <1>8

(* The other steps of a worker only lose tries. *)
LEMMA BudgetLoses ==
    ASSUME BudgetInv, TypeOK', NEW w \in Workers,
           \/ UpdateRead(w) \/ UpdateSkipped(w) \/ UpdateWrite(w) \/ UpdateRaises(w)
           \/ GiveUp(w) \/ Ack(w) \/ Crash(w),
           NEW j \in Jobs
    PROVE  Budget(j)'
<1>0. TypeOK /\ Budget(j) /\ UNCHANGED <<api, evals, redelivered>>
  BY DEF BudgetInv, UpdateRead, UpdateSkipped, UpdateWrite, Updated, UpdateRaises, GiveUp, Ack,
         Crash, historyVars
<1>1. Unsent(j)' = Unsent(j) /\ Unsent(j) \in Nat
  BY <1>0, CeleryAssumption DEF Unsent, Allowance
<1> SUFFICES Tries(j)' \subseteq Tries(j) BY <1>0, <1>1, BudgetShrinks
<1>2. CASE UpdateRead(w)
  <2>1. UNCHANGED <<place, msg, phase, cur>> BY <1>2 DEF UpdateRead, brokerVars, workerVars
  <2> QED BY <2>1 DEF Tries, Whereabouts, WaitingFor, BusyWith, Job, FirstTry, NextTry
<1>3. CASE UpdateSkipped(w) \/ UpdateWrite(w) \/ UpdateRaises(w) \/ GiveUp(w)
  <2>1. /\ phase[w] \notin {"idle", "ack"} /\ UNCHANGED <<place, msg, cur>>
        /\ \E q : phase' = [phase EXCEPT ![w] = q] /\ (q \in {"start", "eval"} => phase[w] = "start")
    BY <1>3 DEF UpdateSkipped, UpdateWrite, Updated, UpdateRaises, GiveUp, brokerVars,
                Updating, AfterUpdate, AfterError
  <2> QED BY <1>0, <2>1, BodyTries
<1>4. CASE Ack(w) \/ Crash(w)
  <2>1. /\ phase' = [phase EXCEPT ![w] = "idle"] /\ cur' = [cur EXCEPT ![w] = NoTag]
        /\ msg' = msg /\ \A t \in Tags : place'[t] = "evaluation" => place[t] = "evaluation"
    BY <1>0, <1>4 DEF Ack, Crash, brokerVars, TypeOK
  <2>2. ASSUME NEW y \in Whereabouts(j)'
        PROVE  y \in Whereabouts(j) /\ FirstTry(y)' = FirstTry(y)
    <3>1. \/ \E u \in Tags : y = <<"message", u>> /\ WaitingFor(u, j)'
          \/ \E v \in Workers : y = <<"worker", v>> /\ BusyWith(v, j)'
      BY DEF Whereabouts
    <3>2. ASSUME NEW u \in Tags, y = <<"message", u>>, WaitingFor(u, j)'
          PROVE  y \in Whereabouts(j) /\ FirstTry(y)' = FirstTry(y)
      <4>1. WaitingFor(u, j) BY <2>1, <3>2 DEF WaitingFor
      <4> QED BY <2>1, <3>2, <4>1, WhereaboutsMembers DEF FirstTry
    <3>3. ASSUME NEW v \in Workers, y = <<"worker", v>>, BusyWith(v, j)'
          PROVE  y \in Whereabouts(j) /\ FirstTry(y)' = FirstTry(y)
      <4>1. v # w BY <1>0, <2>1, <3>3 DEF BusyWith, TypeOK
      <4>2. phase'[v] = phase[v] /\ cur'[v] = cur[v] BY <1>0, <2>1, <4>1 DEF TypeOK
      <4>3. BusyWith(v, j) BY <2>1, <3>3, <4>2 DEF BusyWith, Job
      <4> QED BY <2>1, <3>3, <4>2, <4>3, WhereaboutsMembers DEF FirstTry, NextTry
    <3> QED BY <3>1, <3>2, <3>3
  <2> QED BY <2>2, TriesShrink
<1> QED BY <1>2, <1>3, <1>4

(* A redelivery brings in at most one allowance, and is counted. *)
LEMMA BudgetRequeue ==
    ASSUME BudgetInv, TypeOK', NEW t \in Tags, Requeue(t), NEW j \in Jobs
    PROVE  Budget(j)'
<1>0. /\ TypeOK /\ Budget(j) /\ UNCHANGED <<api, evals, msg, phase, cur>>
      /\ place' = [place EXCEPT ![t] = "evaluation"]
      /\ redelivered' = [redelivered EXCEPT ![msg[t].job] = @ + 1]
  BY DEF BudgetInv, Requeue
<1> DEFINE y1 == <<"message", t>>
           D == Block(y1, 0)
<1>1. /\ msg[t].job \in Jobs /\ msg[t].retries \in Nat /\ Allowance \in Nat
      /\ 0 \in 0 .. Allowance
  BY <1>0, CeleryAssumption DEF TypeOK, Message, Allowance
<1>2. Unsent(j)' = Unsent(j) /\ Unsent(j) \in Nat /\ evals[j] \in Nat /\ redelivered[j] \in Nat
  BY <1>0, <1>1 DEF Unsent, TypeOK
<1>3. ASSUME NEW y \in Whereabouts(j)', y # y1
      PROVE  y \in Whereabouts(j) /\ FirstTry(y)' = FirstTry(y)
  <2>1. FirstTry(y)' = FirstTry(y) BY <1>0 DEF FirstTry, NextTry
  <2>2. \A u \in Tags : u # t /\ WaitingFor(u, j)' => WaitingFor(u, j)
    BY <1>0 DEF WaitingFor, TypeOK
  <2>3. \A v \in Workers : BusyWith(v, j)' => BusyWith(v, j) BY <1>0 DEF BusyWith, Job
  <2> QED BY <1>3, <2>1, <2>2, <2>3 DEF Whereabouts
<1>4. CASE j # msg[t].job
  <2>1. y1 \notin Whereabouts(j)' BY <1>0, <1>4 DEF Whereabouts, WaitingFor
  <2>2. Tries(j)' \subseteq Tries(j) BY <1>3, <2>1, TriesShrink
  <2>3. redelivered'[j] = redelivered[j] BY <1>0, <1>4 DEF TypeOK
  <2>4. IsFiniteSet({}) /\ Cardinality({}) = 0 BY FS_EmptySet
  <2>5. {} \subseteq Tries(j) /\ Tries(j)' \subseteq (Tries(j) \ {}) \cup {} BY <2>2
  <2>6. evals'[j] + Cardinality({}) + Unsent(j)' <= evals[j] + Cardinality({}) + Unsent(j)
    BY <1>0, <1>2, <2>4
  <2> QED BY <1>0, <2>3, <2>4, <2>5, <2>6, BudgetKept
<1>5. CASE j = msg[t].job
  <2>1. redelivered'[j] = redelivered[j] + 1 BY <1>0, <1>5 DEF TypeOK
  <2>2. Tries(j)' \subseteq (Tries(j) \ {}) \cup D
    <3> SUFFICES ASSUME NEW y \in Whereabouts(j)', NEW m \in 0 .. MAX_RETRIES, FirstTry(y)' <= m
                 PROVE  <<y, m>> \in Tries(j) \cup D
      BY DEF Tries
    <3>1. CASE y = y1 BY <3>1 DEF Block
    <3>2. CASE y # y1 BY <1>3, <3>2, TriesMembers
    <3> QED BY <3>1, <3>2
  <2>3. IsFiniteSet(D) /\ Cardinality(D) = Allowance - 0 BY <1>1, BlockSize
  <2>4. Cardinality({}) = 0 /\ {} \subseteq Tries(j) /\ IsFiniteSet(Tries(j))
    BY <1>0, FS_EmptySet DEF Budget
  <2> HIDE DEF D
  <2>5. /\ IsFiniteSet(Tries(j)')
        /\ Cardinality(Tries(j)') <= Cardinality(Tries(j)) - Cardinality({}) + Cardinality(D)
        /\ Cardinality(Tries(j)) \in Nat /\ Cardinality(Tries(j)') \in Nat
    BY <2>2, <2>3, <2>4, SwapSize
  <2>6. evals[j] + Cardinality(Tries(j)) + Unsent(j) <= Allowance * (1 + redelivered[j])
    BY <1>0 DEF Budget
  <2>7. ASSUME NEW k \in Nat PROVE Allowance * (1 + (k + 1)) = Allowance * (1 + k) + Allowance
    BY <1>1
  <2>8. Allowance * (1 + redelivered[j]) \in Nat BY <1>1, <1>2
  <2>9. Allowance * (1 + redelivered'[j]) = Allowance * (1 + redelivered[j]) + Allowance
    BY <1>2, <2>1, <2>7
  <2>10. evals'[j] + Cardinality(Tries(j)') + Unsent(j)' <= Allowance * (1 + redelivered'[j])
    BY <1>0, <1>1, <1>2, <2>3, <2>4, <2>5, <2>6, <2>8, <2>9
  <2> QED BY <2>5, <2>10 DEF Budget, Allowance
<1> QED BY <1>4, <1>5

(* Every action preserves the budget. *)
LEMMA BudgetInductive == BudgetInv /\ [Next]_vars => BudgetInv'
<1> SUFFICES ASSUME BudgetInv, [Next]_vars, NEW j \in Jobs PROVE Budget(j)'
  BY TypeInductive DEF BudgetInv
<1>0. TypeOK /\ TypeOK' /\ Budget(j) BY TypeInductive DEF BudgetInv
<1>1. ASSUME NEW i \in Jobs, Submit(i) PROVE Budget(j)' BY <1>0, <1>1, BudgetSubmit
<1>2. ASSUME NEW w \in Workers, Work(w) \/ UpdateRaises(w) \/ Crash(w) PROVE Budget(j)'
  BY <1>0, <1>2, BudgetReceive, BudgetEvaluate, BudgetRetry, BudgetLoses DEF Work
<1>3. ASSUME NEW t \in Tags, Redeliver(t) \/ VisibilityTimeout(t) PROVE Budget(j)'
  BY <1>0, <1>3, BudgetRequeue DEF Redeliver, VisibilityTimeout
<1>4. ASSUME Expire \/ UNCHANGED vars PROVE Budget(j)'
  <2>1. UNCHANGED <<api, place, msg, phase, cur, evals, redelivered>>
    BY <1>4 DEF Expire, vars, brokerVars, workerVars, historyVars
  <2>2. Tries(j)' = Tries(j) /\ Unsent(j)' = Unsent(j) /\ Unsent(j) \in Nat
    BY <2>1, CeleryAssumption
    DEF Tries, Whereabouts, WaitingFor, BusyWith, Job, FirstTry, NextTry, Unsent, Allowance
  <2> QED BY <1>0, <2>1, <2>2, BudgetShrinks
<1> QED BY <1>1, <1>2, <1>3, <1>4 DEF Next, Terminated

(* Every job has its allowance unspent initially. *)
LEMMA BudgetInitially == Init => BudgetInv
<1> SUFFICES ASSUME Init PROVE BudgetInv OBVIOUS
<1>1. TypeOK BY InitTypeOK
<1>2. ASSUME NEW j \in Jobs PROVE Budget(j)
  <2>1. Whereabouts(j) = {} BY DEF Init, Whereabouts, WaitingFor, BusyWith
  <2>2. Tries(j) = {} BY <2>1 DEF Tries
  <2>3. IsFiniteSet(Tries(j)) /\ Cardinality(Tries(j)) = 0 BY <2>2, FS_EmptySet
  <2>4. evals[j] = 0 /\ Unsent(j) = Allowance /\ redelivered[j] = 0 /\ Allowance \in Nat
    BY CeleryAssumption DEF Init, Unsent, Allowance
  <2> QED BY <2>3, <2>4 DEF Budget
<1> QED BY <1>1, <1>2 DEF BudgetInv

(* A job is evaluated at most max_retries + 1 times, and that many times more
   for each redelivery of a message of its own. *)
THEOREM RetriesAreBounded == Spec => []RetryBound
<1>1. ASSUME BudgetInv PROVE RetryBound
  <2> SUFFICES ASSUME NEW j \in Jobs
               PROVE  evals[j] <= (MAX_RETRIES + 1) * (1 + redelivered[j])
    BY DEF RetryBound
  <2>1. Budget(j) /\ evals[j] \in Nat /\ redelivered[j] \in Nat BY <1>1 DEF BudgetInv, TypeOK
  <2>2. Cardinality(Tries(j)) \in Nat BY <2>1, FS_CardinalityType DEF Budget
  <2>3. Unsent(j) \in Nat /\ Allowance \in Nat BY CeleryAssumption DEF Unsent, Allowance
  <2>4. Allowance * (1 + redelivered[j]) \in Nat BY <2>1, <2>3
  <2>5. evals[j] <= Allowance * (1 + redelivered[j]) BY <2>1, <2>2, <2>3, <2>4 DEF Budget
  <2> QED BY <2>5 DEF Allowance
<1> QED BY <1>1, BudgetInitially, BudgetInductive, PTL DEF Spec

=============================================================================
