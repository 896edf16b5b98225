-------------------------- MODULE KafkaEvalProofs ---------------------------
(***************************************************************************)
(* Theorems about the v2 tier, for every number of jobs, pods, partitions  *)
(* and faults.                                                             *)
(***************************************************************************)
EXTENDS KafkaEval, JobStoreProofs

(* Every action keeps the types of the state, and the committed offset behind
   the position, the position within the log. *)
LEMMA TypeInductive == TypeOK /\ [Next]_vars => TypeOK'
<1> SUFFICES ASSUME TypeOK, [Next]_vars PROVE TypeOK'
  OBVIOUS
<1> USE KafkaAssumption
<1>1. ASSUME NEW j \in Jobs, Unavailable(j) PROVE TypeOK'
  BY <1>1 DEF Unavailable, TypeOK, StoreTypeOK, storeVars, topicVars
<1>2. ASSUME NEW j \in Jobs, NEW type \in JobTypes, CreateJob(j, type) PROVE TypeOK'
  <2>1. StoreTypeOK' BY <1>2, CreateType DEF CreateJob, TypeOK
  <2> QED BY <1>2, <2>1 DEF CreateJob, TypeOK, topicVars
<1>3. ASSUME NEW j \in Jobs, AppendRequest(j)
      PROVE  /\ log' \in [Partitions -> Seq(Jobs)]
             /\ \A p \in Partitions :
                   committed'[p] <= position'[p] /\ position'[p] <= Len(log'[p])
             /\ UNCHANGED <<committed, position, owner>>
  <2>1. PICK p \in Partitions : log' = [log EXCEPT ![p] = Append(@, j)]
    BY <1>3 DEF AppendRequest
  <2>2. log[p] \in Seq(Jobs) /\ Append(log[p], j) \in Seq(Jobs)
        /\ Len(Append(log[p], j)) = Len(log[p]) + 1 /\ Len(log[p]) \in Nat
    BY DEF TypeOK
  <2> QED BY <1>3, <2>1, <2>2 DEF AppendRequest, TypeOK
<1>4. ASSUME NEW j \in Jobs, Publish(j) PROVE TypeOK'
  BY <1>3, <1>4 DEF Publish, TypeOK, StoreTypeOK, storeVars
<1>5. ASSUME NEW j \in Jobs, PublishFails(j) PROVE TypeOK'
  <2>1. CASE AppendRequest(j)
    BY <1>3, <1>5, <2>1 DEF PublishFails, TypeOK, StoreTypeOK, storeVars
  <2>2. CASE UNCHANGED topicVars
    BY <1>5, <2>2 DEF PublishFails, TypeOK, StoreTypeOK, storeVars, topicVars
  <2> QED BY <1>5, <2>1, <2>2 DEF PublishFails
<1>6. ASSUME NEW p \in Partitions, Assign(p) PROVE TypeOK'
  <2>1. \A q \in Partitions : Len(log[q]) \in Nat BY DEF TypeOK
  <2> QED BY <1>6, <2>1 DEF Assign, TypeOK, StoreTypeOK, storeVars
<1>7. ASSUME NEW p \in Partitions, AutoCommit(p) PROVE TypeOK'
  BY <1>7 DEF AutoCommit, TypeOK, StoreTypeOK, storeVars
<1>8. ASSUME NEW p \in Partitions, Rebalance(p) PROVE TypeOK'
  BY <1>8 DEF Rebalance, TypeOK, StoreTypeOK, storeVars, Fault, FaultKinds
<1>9. ASSUME NEW w \in Workers, Evict(w) PROVE TypeOK'
  BY <1>9 DEF Evict, TypeOK, StoreTypeOK, storeVars, Fault, FaultKinds
<1>10. ASSUME NEW w \in Workers, Poll(w) PROVE TypeOK'
  <2>1. PICK p \in Partitions :
            /\ position[p] < Len(log[p])
            /\ cur' = [cur EXCEPT ![w] = log[p][position[p] + 1]]
            /\ position' = [position EXCEPT ![p] = @ + 1]
    BY <1>10 DEF Poll
  <2>2. log[p][position[p] + 1] \in Jobs /\ Len(log[p]) \in Nat
    BY <2>1 DEF TypeOK
  <2>3. /\ position' \in [Partitions -> Nat]
        /\ \A q \in Partitions :
              committed[q] <= position'[q] /\ position'[q] <= Len(log[q])
    BY <2>1, <2>2 DEF TypeOK
  <2>4. /\ phase' \in [Workers -> Phases]
        /\ cur' \in [Workers -> Jobs \cup {NoJob}]
        /\ \A v \in Workers : phase'[v] \notin {"idle", "exit"} => cur'[v] \in Jobs
    BY <1>10, <2>1, <2>2 DEF Poll, TypeOK, Phases
  <2> QED BY <1>10, <2>3, <2>4 DEF Poll, TypeOK, StoreTypeOK, storeVars
<1>11. ASSUME NEW w \in Workers, phase[w] \in Updating
       PROVE  /\ cur[w] \in Jobs /\ phase[w] \in UpdatePhases
              /\ AfterUpdate[phase[w]] \in Phases
              /\ AfterError[phase[w]] \in Phases
  <2>1. cur[w] \in Jobs BY <1>11 DEF TypeOK, Updating
  <2> QED BY <1>11, <2>1 DEF Updating, UpdatePhases, AfterUpdate, AfterError, Phases
<1>12. ASSUME NEW w \in Workers, phase[w] \in Updating, StoreTypeOK', Updated(w)
       PROVE  TypeOK'
  BY <1>11, <1>12 DEF Updated, TypeOK, topicVars
<1>13. ASSUME NEW w \in Workers, UpdateRead(w) PROVE TypeOK'
  <2>1. StoreTypeOK' BY <1>11, <1>13, UpdateType DEF UpdateRead, TypeOK
  <2> QED BY <1>13, <2>1 DEF UpdateRead, TypeOK, topicVars
<1>14. ASSUME NEW w \in Workers, UpdateSkipped(w) PROVE TypeOK'
  BY <1>11, <1>12, <1>14, UpdateType DEF UpdateSkipped, TypeOK
<1>15. ASSUME NEW w \in Workers, UpdateWrite(w) PROVE TypeOK'
  BY <1>11, <1>12, <1>15, UpdateType DEF UpdateWrite, TypeOK
<1>16. ASSUME NEW w \in Workers, UpdateRaises(w) PROVE TypeOK'
  <2>1. StoreTypeOK' BY <1>11, <1>16, UpdateType DEF UpdateRaises, TypeOK
  <2> QED BY <1>11, <1>16, <2>1 DEF UpdateRaises, TypeOK, topicVars, Fault, FaultKinds
<1>17. ASSUME NEW w \in Workers, Evaluate(w) PROVE TypeOK'
  BY <1>17 DEF Evaluate, TypeOK, StoreTypeOK, storeVars, topicVars, Phases
<1>18. ASSUME NEW w \in Workers, phase[w] \in Publishing
       PROVE  /\ cur[w] \in Jobs
              /\ AfterError[phase[w]] \in Phases
              /\ Emit(w) => events' \subseteq {"completed", "failed"} \X Jobs
  <2>1. cur[w] \in Jobs BY <1>18 DEF TypeOK, Publishing
  <2>2. AfterError[phase[w]] \in Phases BY <1>18 DEF Publishing, AfterError, Phases
  <2>3. EventOf[phase[w]] \in {"completed", "failed"}
    BY <1>18 DEF Publishing, EventOf
  <2>4. events \subseteq {"completed", "failed"} \X Jobs BY DEF TypeOK
  <2> QED BY <2>1, <2>2, <2>3, <2>4 DEF Emit
<1>19. ASSUME NEW w \in Workers, PublishEvent(w) PROVE TypeOK'
  BY <1>18, <1>19 DEF PublishEvent, TypeOK, StoreTypeOK, storeVars, topicVars, Phases
<1>20. ASSUME NEW w \in Workers, PublishRaises(w) PROVE TypeOK'
  <2>1. events' \subseteq {"completed", "failed"} \X Jobs
    BY <1>18, <1>20 DEF PublishRaises, TypeOK
  <2> QED BY <1>18, <1>20, <2>1
          DEF PublishRaises, TypeOK, StoreTypeOK, storeVars, topicVars, Fault, FaultKinds
<1>21. ASSUME NEW w \in Workers, Stop(w) PROVE TypeOK'
  BY <1>21 DEF Stop, TypeOK, StoreTypeOK, storeVars, Phases
<1>22. ASSUME NEW w \in Workers, Crash(w) PROVE TypeOK'
  <2>1. StoreTypeOK' BY <1>22 DEF Crash, DropSnap, TypeOK, StoreTypeOK
  <2> QED BY <1>22, <2>1 DEF Crash, TypeOK, Fault, FaultKinds, Phases
<1>23. CASE Expire
  BY <1>23, TickType DEF Expire, TypeOK, topicVars
<1>24. CASE UNCHANGED vars
  BY <1>24 DEF vars, TypeOK, StoreTypeOK
<1> QED BY <1>1, <1>2, <1>4, <1>5, <1>6, <1>7, <1>8, <1>9, <1>10, <1>13, <1>14,
           <1>15, <1>16, <1>17, <1>19, <1>20, <1>21, <1>22, <1>23, <1>24
        DEF Next, Submit, Work, Idle

(* The initial state is well typed. *)
LEMMA InitTypeOK == Init => TypeOK
<1> SUFFICES ASSUME Init PROVE TypeOK OBVIOUS
<1>1. StoreTypeOK
  BY StoreAssumption DEF Init, StoreInit, StoreTypeOK
<1> QED BY <1>1 DEF Init, TypeOK, Phases, FaultKinds

(* The type invariant holds in every reachable state of the v2 tier; with it,
   no commit ever runs ahead of what was handed out. *)
THEOREM TypeCorrect == Spec => []TypeOK
  BY InitTypeOK, TypeInductive, PTL DEF Spec

-----------------------------------------------------------------------------
(* Why RecordCoherent holds: the same argument as for the v1 tier, with the
   topic in the place of the broker. *)

(* Only jobs that were created are on the topic or in a pod. *)
IssuedFirst ==
    /\ \A j \in Jobs : api[j] = "created" => issued[j] # Absent
    /\ \A p \in Partitions : \A i \in 1 .. Len(log[p]) : issued[log[p][i]] # Absent
    /\ \A w \in Workers : cur[w] # NoJob => issued[cur[w]] # Absent

(* Documents, and the copies held between a GET and a SET, are coherent and
   of the type their job was created with. *)
DocumentsCoherent ==
    /\ \A j \in Jobs : store[j] # Absent =>
          /\ Coherent(store[j])
          /\ store[j].job_type = issued[j]
    /\ \A w \in Workers : snap[w] # NoSnap =>
          /\ phase[w] \in Updating
          /\ Coherent(snap[w])
          /\ snap[w].job_type = issued[cur[w]]

(* Past the "running" update, neither the document nor a copy of it is
   pending. *)
StartedFirst ==
    \A w \in Workers :
        /\ phase[w] \in {"eval", "done", "fail", "pub_done"} =>
              store[cur[w]] = Absent \/ store[cur[w]].status # "pending"
        /\ phase[w] \in {"done", "fail"} =>
              snap[w] = NoSnap \/ snap[w].status # "pending"

CoherenceInv == TypeOK /\ IssuedFirst /\ DocumentsCoherent /\ StartedFirst

(* The effect of a completed update_job on the invariant: pod w writes the
   merged copy and moves on to phase q. *)
LEMMA WriteCoherent ==
    ASSUME CoherenceInv, NEW w \in Workers, phase[w] \in Updating, snap[w] # NoSnap,
           SetKey(cur[w], Merge(snap[w], Patch[phase[w]])),
           snap' = [snap EXCEPT ![w] = NoSnap], UNCHANGED <<issued, cur>>,
           NEW q \in Phases, phase' = [phase EXCEPT ![w] = q]
    PROVE  DocumentsCoherent' /\ StartedFirst'
<1> DEFINE r == Merge(snap[w], Patch[phase[w]])
<1>1. cur[w] \in Jobs /\ phase[w] \in UpdatePhases /\ snap[w] \in JobRecord
  BY DEF CoherenceInv, TypeOK, StoreTypeOK, Updating, UpdatePhases
<1>2. phase[w] = "start" \/ snap[w].status # "pending"
  BY DEF CoherenceInv, StartedFirst, Updating
<1>3. /\ r \in JobRecord /\ Coherent(r) /\ r.status # "pending"
      /\ r.job_type = issued[cur[w]]
  BY <1>1, <1>2, MergeType, MergeCoherent DEF CoherenceInv, DocumentsCoherent
<1>4. store' = [store EXCEPT ![cur[w]] = r] BY DEF SetKey
<1> HIDE DEF r
<1>5. DocumentsCoherent'
  BY <1>1, <1>3, <1>4 DEF CoherenceInv, DocumentsCoherent, TypeOK, StoreTypeOK
<1>6. StartedFirst'
  <2> SUFFICES ASSUME NEW v \in Workers
               PROVE  /\ phase'[v] \in {"eval", "done", "fail", "pub_done"} =>
                            store'[cur[v]] = Absent \/ store'[cur[v]].status # "pending"
                      /\ phase'[v] \in {"done", "fail"} =>
                            snap'[v] = NoSnap \/ snap'[v].status # "pending"
    BY DEF StartedFirst
  <2>1. CASE v = w
    BY <2>1, <1>1, <1>3, <1>4 DEF CoherenceInv, TypeOK, StoreTypeOK
  <2>2. CASE v # w
    <3>1. phase'[v] = phase[v] /\ snap'[v] = snap[v]
      BY <2>2 DEF CoherenceInv, TypeOK, StoreTypeOK
    <3> QED BY <3>1, <1>1, <1>3, <1>4 DEF CoherenceInv, StartedFirst, TypeOK, StoreTypeOK
  <2> QED BY <2>1, <2>2
<1> QED BY <1>5, <1>6

(* Every action preserves the strengthened invariant. *)
LEMMA CoherenceInductive == CoherenceInv /\ [Next]_vars => CoherenceInv'
<1> SUFFICES ASSUME CoherenceInv, [Next]_vars PROVE CoherenceInv'
  OBVIOUS
<1>0. TypeOK /\ TypeOK' BY TypeInductive DEF CoherenceInv
<1> USE DEF CoherenceInv
<1>1. ASSUME UNCHANGED <<store, snap, issued, phase, cur>>
      PROVE  DocumentsCoherent' /\ StartedFirst'
  BY <1>1 DEF DocumentsCoherent, StartedFirst
<1>2. ASSUME UNCHANGED <<issued, log, cur>>,
             \A j \in Jobs : api'[j] = "created" => api[j] = "created"
      PROVE  IssuedFirst'
  BY <1>2 DEF IssuedFirst
<1>3. ASSUME NEW j \in Jobs, Unavailable(j) PROVE CoherenceInv'
  <2>1. \A i \in Jobs : api'[i] = "created" => api[i] = "created"
    BY <1>0, <1>3 DEF Unavailable, TypeOK
  <2> QED BY <1>0, <1>1, <1>2, <1>3, <2>1 DEF Unavailable, storeVars, topicVars
<1>4. ASSUME NEW j \in Jobs, NEW type \in JobTypes, CreateJob(j, type)
      PROVE  CoherenceInv'
  <2>1. /\ issued[j] = Absent /\ type # Absent
        /\ issued' = [issued EXCEPT ![j] = type]
        /\ store' = [store EXCEPT ![j] = NewRecord(type)]
        /\ api' = [api EXCEPT ![j] = "created"]
        /\ UNCHANGED <<snap, log, phase, cur>>
    BY <1>4, StoreAssumption DEF CreateJob, create_job, SetKey, topicVars
  <2>2. \A w \in Workers : cur[w] # j
    BY <1>4, <2>1, KafkaAssumption DEF IssuedFirst
  <2>3. \A w \in Workers : phase[w] \notin {"idle", "exit"} => cur[w] \in Jobs
    BY <1>0 DEF TypeOK
  <2>4. \A p \in Partitions : \A i \in 1 .. Len(log[p]) : log[p][i] \in Jobs
    BY <1>0 DEF TypeOK
  <2>5. \A x \in Jobs : issued[x] # Absent => issued'[x] # Absent
    BY <1>0, <2>1 DEF TypeOK, StoreTypeOK
  <2>6. issued'[j] # Absent BY <1>0, <2>1 DEF TypeOK, StoreTypeOK
  <2>7. IssuedFirst'
    BY <1>0, <2>1, <2>4, <2>5, <2>6 DEF IssuedFirst, TypeOK
  <2>8. Coherent(NewRecord(type)) /\ NewRecord(type).job_type = type
    BY DEF Coherent, NewRecord
  <2>9. DocumentsCoherent'
    BY <1>0, <2>1, <2>2, <2>3, <2>8 DEF DocumentsCoherent, TypeOK, StoreTypeOK, Updating
  <2>10. StartedFirst'
    BY <1>0, <2>1, <2>2, <2>3 DEF StartedFirst, TypeOK, StoreTypeOK
  <2> QED BY <1>0, <2>7, <2>9, <2>10
<1>5. ASSUME NEW j \in Jobs, Publish(j) \/ PublishFails(j) PROVE CoherenceInv'
  <2>1. /\ api[j] = "created" /\ UNCHANGED <<store, snap, issued, phase, cur>>
        /\ AppendRequest(j) \/ log' = log
        /\ \A i \in Jobs : api'[i] = "created" => api[i] = "created"
    BY <1>0, <1>5 DEF Publish, PublishFails, storeVars, topicVars, TypeOK
  <2>2. issued[j] # Absent BY <2>1 DEF IssuedFirst
  <2>3. CASE AppendRequest(j)
    <3>1. PICK p \in Partitions : log' = [log EXCEPT ![p] = Append(@, j)]
      BY <2>3 DEF AppendRequest
    <3>2. \A q \in Partitions : log[q] \in Seq(Jobs) BY <1>0 DEF TypeOK
    <3>3. \A q \in Partitions : \A i \in 1 .. Len(log'[q]) : issued[log'[q][i]] # Absent
      <4> TAKE q \in Partitions
      <4>1. CASE q # p
        BY <1>0, <3>1, <4>1 DEF IssuedFirst, TypeOK
      <4>2. CASE q = p
        <5>1. log'[q] = Append(log[q], j) BY <1>0, <3>1, <4>2 DEF TypeOK
        <5> QED BY <2>2, <3>2, <5>1 DEF IssuedFirst
      <4> QED BY <4>1, <4>2
    <3> QED BY <1>0, <1>1, <2>1, <3>3 DEF IssuedFirst
  <2>4. CASE log' = log
    BY <1>0, <1>1, <1>2, <2>1, <2>4
  <2> QED BY <2>1, <2>3, <2>4
<1>6. ASSUME UNCHANGED <<store, snap, issued, api, log, phase, cur>> PROVE CoherenceInv'
  BY <1>0, <1>1, <1>2, <1>6
<1>7. ASSUME NEW p \in Partitions, Assign(p) \/ AutoCommit(p) \/ Rebalance(p)
      PROVE  CoherenceInv'
  BY <1>6, <1>7 DEF Assign, AutoCommit, Rebalance, storeVars
<1>8. ASSUME NEW w \in Workers, Evict(w) PROVE CoherenceInv'
  BY <1>6, <1>8 DEF Evict, storeVars
<1>9. ASSUME NEW w \in Workers, Poll(w) PROVE CoherenceInv'
  <2>1. PICK p \in Partitions : /\ position[p] < Len(log[p])
                                /\ cur' = [cur EXCEPT ![w] = log[p][position[p] + 1]]
    BY <1>9 DEF Poll
  <2>2. /\ phase[w] = "idle" /\ phase' = [phase EXCEPT ![w] = "start"]
        /\ UNCHANGED <<store, snap, issued, api, log>>
    BY <1>9 DEF Poll, storeVars
  <2>3. snap[w] = NoSnap BY <2>2 DEF DocumentsCoherent, Updating
  <2>4. position[p] + 1 \in 1 .. Len(log[p]) BY <1>0, <2>1 DEF TypeOK
  <2>5. issued[log[p][position[p] + 1]] # Absent BY <2>4 DEF IssuedFirst
  <2>6. \A v \in Workers : v # w => cur'[v] = cur[v] /\ phase'[v] = phase[v]
    BY <1>0, <2>1, <2>2 DEF TypeOK
  <2>7. cur'[w] = log[p][position[p] + 1] /\ phase'[w] = "start"
    BY <1>0, <2>1, <2>2 DEF TypeOK
  <2>8. IssuedFirst' BY <2>2, <2>5, <2>6, <2>7 DEF IssuedFirst
  <2>9. DocumentsCoherent' BY <2>2, <2>3, <2>6 DEF DocumentsCoherent
  <2>10. StartedFirst' BY <2>2, <2>6, <2>7 DEF StartedFirst
  <2> QED BY <1>0, <2>8, <2>9, <2>10
<1>10. ASSUME NEW w \in Workers, phase[w] \in Updating
       PROVE  /\ AfterUpdate[phase[w]] \in Phases /\ AfterError[phase[w]] \in Phases
              /\ AfterError[phase[w]] \notin {"eval", "pub_done"}
              /\ AfterError[phase[w]] \in {"done", "fail"} => phase[w] = "done"
              /\ cur[w] \in Jobs
  <2>1. cur[w] \in Jobs BY <1>0, <1>10 DEF TypeOK, Updating
  <2> QED BY <1>10, <2>1 DEF Updating, AfterUpdate, AfterError, Phases
<1>11. ASSUME NEW w \in Workers, UpdateRead(w) PROVE CoherenceInv'
  <2>1. /\ phase[w] \in Updating /\ store[cur[w]] # Absent /\ cur[w] \in Jobs
        /\ snap' = [snap EXCEPT ![w] = store[cur[w]]]
        /\ UNCHANGED <<store, issued, api, log, phase, cur>>
    BY <1>10, <1>11 DEF UpdateRead, UpdateGet, get_job, topicVars
  <2>2. DocumentsCoherent'
    BY <1>0, <2>1 DEF DocumentsCoherent, TypeOK, StoreTypeOK
  <2>3. StartedFirst'
    BY <1>0, <2>1 DEF StartedFirst, TypeOK, StoreTypeOK
  <2> QED BY <1>0, <1>2, <2>1, <2>2, <2>3
<1>12. ASSUME NEW w \in Workers, UpdateSkipped(w) PROVE CoherenceInv'
  <2>1. /\ phase[w] \in Updating /\ snap[w] = NoSnap /\ store[cur[w]] = Absent
        /\ phase' = [phase EXCEPT ![w] = AfterUpdate[phase[w]]]
        /\ UNCHANGED <<store, snap, issued, api, log, cur>>
    BY <1>12 DEF UpdateSkipped, UpdateMissing, Updated, get_job, storeVars, topicVars
  <2>2. DocumentsCoherent' BY <1>0, <2>1 DEF DocumentsCoherent, TypeOK
  <2>3. StartedFirst' BY <1>0, <2>1 DEF StartedFirst, TypeOK
  <2> QED BY <1>0, <1>2, <2>1, <2>2, <2>3
<1>13. ASSUME NEW w \in Workers, UpdateWrite(w) PROVE CoherenceInv'
  <2>1. /\ phase[w] \in Updating /\ snap[w] # NoSnap
        /\ SetKey(cur[w], Merge(snap[w], Patch[phase[w]]))
        /\ snap' = [snap EXCEPT ![w] = NoSnap]
        /\ phase' = [phase EXCEPT ![w] = AfterUpdate[phase[w]]]
        /\ UNCHANGED <<issued, api, log, cur>>
    BY <1>13 DEF UpdateWrite, UpdateSet, Updated, topicVars
  <2>2. DocumentsCoherent' /\ StartedFirst' BY <1>10, <2>1, WriteCoherent
  <2> QED BY <1>0, <1>2, <2>1, <2>2
<1>14. ASSUME NEW w \in Workers, UpdateRaises(w) PROVE CoherenceInv'
  <2>1. /\ phase[w] \in Updating
        /\ snap' = [snap EXCEPT ![w] = NoSnap]
        /\ phase' = [phase EXCEPT ![w] = AfterError[phase[w]]]
        /\ UNCHANGED <<issued, api, log, cur>>
    BY <1>14 DEF UpdateRaises, UpdateError, topicVars
  <2>2. CASE snap[w] # NoSnap /\ SetKey(cur[w], Merge(snap[w], Patch[phase[w]]))
    <3>1. DocumentsCoherent' /\ StartedFirst' BY <1>10, <2>1, <2>2, WriteCoherent
    <3> QED BY <1>0, <1>2, <2>1, <3>1
  <2>3. CASE UNCHANGED <<store, ttl>>
    <3>1. DocumentsCoherent'
      BY <1>0, <2>1, <2>3 DEF DocumentsCoherent, TypeOK, StoreTypeOK
    <3>2. StartedFirst'
      BY <1>0, <1>10, <2>1, <2>3 DEF StartedFirst, TypeOK, StoreTypeOK
    <3> QED BY <1>0, <1>2, <2>1, <3>1, <3>2
  <2> QED BY <1>14, <2>2, <2>3 DEF UpdateRaises, UpdateError
<1>15. ASSUME NEW w \in Workers, Evaluate(w) PROVE CoherenceInv'
  <2>1. PICK next \in {"done", "fail"} : phase' = [phase EXCEPT ![w] = next]
    BY <1>15 DEF Evaluate
  <2>2. phase[w] = "eval" /\ UNCHANGED <<store, snap, issued, api, log, cur>>
    BY <1>15 DEF Evaluate, storeVars, topicVars
  <2>3. snap[w] = NoSnap BY <2>2 DEF DocumentsCoherent, Updating
  <2>4. DocumentsCoherent'
    BY <1>0, <2>1, <2>2, <2>3 DEF DocumentsCoherent, TypeOK
  <2>5. StartedFirst' BY <1>0, <2>1, <2>2, <2>3 DEF StartedFirst, TypeOK
  <2> QED BY <1>0, <1>2, <2>2, <2>4, <2>5
<1>16. ASSUME NEW w \in Workers, phase' = [phase EXCEPT ![w] = "idle"],
              cur' = [cur EXCEPT ![w] = NoJob], snap' = [snap EXCEPT ![w] = NoSnap],
              UNCHANGED <<store, issued, api, log>>
       PROVE  CoherenceInv'
  <2>1. \A v \in Workers : v # w =>
            phase'[v] = phase[v] /\ snap'[v] = snap[v] /\ cur'[v] = cur[v]
    BY <1>0, <1>16 DEF TypeOK, StoreTypeOK
  <2>2. phase'[w] = "idle" /\ snap'[w] = NoSnap /\ cur'[w] = NoJob
    BY <1>0, <1>16 DEF TypeOK, StoreTypeOK
  <2>3. IssuedFirst' BY <1>16, <2>1, <2>2 DEF IssuedFirst
  <2>4. DocumentsCoherent' BY <1>16, <2>1, <2>2 DEF DocumentsCoherent
  <2>5. StartedFirst' BY <1>16, <2>1, <2>2 DEF StartedFirst
  <2> QED BY <1>0, <2>3, <2>4, <2>5
<1>17. ASSUME NEW w \in Workers, PublishEvent(w) \/ Stop(w) PROVE CoherenceInv'
  <2>1. phase[w] \notin Updating
    BY <1>17 DEF PublishEvent, Stop, Publishing, Updating
  <2>2. snap[w] = NoSnap BY <2>1 DEF DocumentsCoherent
  <2>3. snap' = [snap EXCEPT ![w] = NoSnap]
    BY <1>0, <1>17, <2>2 DEF PublishEvent, Stop, storeVars, TypeOK, StoreTypeOK
  <2> QED BY <1>16, <1>17, <2>3 DEF PublishEvent, Stop, storeVars, topicVars
<1>18. ASSUME NEW w \in Workers, Crash(w) PROVE CoherenceInv'
  BY <1>16, <1>18 DEF Crash, DropSnap
<1>19. ASSUME NEW w \in Workers, PublishRaises(w) PROVE CoherenceInv'
  <2>1. /\ phase[w] \in Publishing
        /\ phase' = [phase EXCEPT ![w] = AfterError[phase[w]]]
        /\ UNCHANGED <<store, snap, issued, api, log, cur>>
    BY <1>19 DEF PublishRaises, storeVars, topicVars
  <2>2. snap[w] = NoSnap BY <2>1 DEF DocumentsCoherent, Publishing, Updating
  <2>3. \/ phase[w] = "pub_done" /\ AfterError[phase[w]] = "fail"
        \/ AfterError[phase[w]] = "exit"
    BY <2>1 DEF Publishing, AfterError
  <2>4. DocumentsCoherent' BY <1>0, <2>1, <2>2 DEF DocumentsCoherent, TypeOK
  <2>5. StartedFirst' BY <1>0, <2>1, <2>2, <2>3 DEF StartedFirst, TypeOK
  <2> QED BY <1>0, <1>2, <2>1, <2>4, <2>5
<1>20. CASE Expire
  <2>1. /\ \A j \in Jobs : store'[j] \in {store[j], Absent}
        /\ UNCHANGED <<snap, issued, api, log, phase, cur>>
    BY <1>20 DEF Expire, Tick, topicVars
  <2>2. \A w \in Workers : phase[w] \notin {"idle", "exit"} => cur[w] \in Jobs
    BY <1>0 DEF TypeOK
  <2>3. DocumentsCoherent' BY <2>1 DEF DocumentsCoherent
  <2>4. StartedFirst' BY <2>1, <2>2 DEF StartedFirst
  <2> QED BY <1>0, <1>2, <2>1, <2>3, <2>4
<1>21. CASE UNCHANGED vars
  BY <1>6, <1>21 DEF vars
<1> QED BY <1>3, <1>4, <1>5, <1>7, <1>8, <1>9, <1>11, <1>12, <1>13, <1>14, <1>15,
           <1>17, <1>18, <1>19, <1>20, <1>21
        DEF Next, Submit, Work, Idle

(* The strengthened invariant holds initially. *)
LEMMA CoherenceInitially == Init => CoherenceInv
<1> SUFFICES ASSUME Init PROVE CoherenceInv OBVIOUS
<1>1. TypeOK BY InitTypeOK
<1> QED BY <1>1 DEF Init, StoreInit, CoherenceInv, IssuedFirst, DocumentsCoherent, StartedFirst

(* In every reachable state of the v2 tier, a document's fields agree with
   its status. *)
THEOREM RecordsStayCoherent == Spec => []RecordCoherent
<1>1. CoherenceInv => RecordCoherent
  BY DEF CoherenceInv, DocumentsCoherent, RecordCoherent
<1> QED BY <1>1, CoherenceInitially, CoherenceInductive, PTL DEF Spec

-----------------------------------------------------------------------------
(* The v2 tier implements the polling contract. *)

(* To a poller, the SET of an update is the job being started or ended. *)
LEMMA WriteIsContractStep ==
    ASSUME CoherenceInv, NEW w \in Workers, phase[w] \in Updating, snap[w] # NoSnap,
           SetKey(cur[w], Merge(snap[w], Patch[phase[w]])), UNCHANGED issued
    PROVE  Contract!Next
<1> DEFINE j == cur[w]
           r == Merge(snap[w], Patch[phase[w]])
<1>1. j \in Jobs /\ phase[w] \in UpdatePhases /\ snap[w] \in JobRecord
  BY DEF CoherenceInv, TypeOK, StoreTypeOK, Updating, UpdatePhases
<1>2. phase[w] = "start" \/ snap[w].status # "pending"
  BY DEF CoherenceInv, StartedFirst, Updating
<1>3. store[j] # Absent => phase[w] = "start" \/ store[j].status # "pending"
  BY DEF CoherenceInv, StartedFirst, Updating
<1>4. snap[w].job_type = issued[j] /\ Coherent(snap[w])
  BY DEF CoherenceInv, DocumentsCoherent
<1>5. issued[j] # Absent
  BY <1>1, KafkaAssumption DEF CoherenceInv, IssuedFirst
<1>6. UNCHANGED issued /\ SetKey(j, Merge(snap[w], Patch[phase[w]])) OBVIOUS
<1> HIDE DEF j
<1> QED BY <1>1, <1>2, <1>3, <1>4, <1>5, <1>6, UpdateIsContractStep

(* Every step of the tier is a step of the contract, or leaves what a poller
   reads unchanged. *)
LEMMA StepIsContractStep ==
    CoherenceInv /\ [Next]_vars => [Contract!Next]_(Contract!contractVars)
<1> SUFFICES ASSUME CoherenceInv, [Next]_vars
             PROVE  Contract!Next \/ UNCHANGED <<store, issued>>
  BY DEF Contract!contractVars
<1>1. ASSUME NEW j \in Jobs, NEW type \in JobTypes, CreateJob(j, type)
      PROVE  Contract!Next
  BY <1>1, CreateIsContractStep DEF CreateJob
<1>2. ASSUME NEW w \in Workers, UpdateWrite(w) PROVE Contract!Next
  BY <1>2, WriteIsContractStep DEF UpdateWrite, UpdateSet
<1>3. ASSUME NEW w \in Workers, UpdateRaises(w)
      PROVE  Contract!Next \/ UNCHANGED <<store, issued>>
  BY <1>3, WriteIsContractStep DEF UpdateRaises, UpdateError
<1>4. ASSUME Expire PROVE Contract!Next
  BY <1>4, TickIsContractStep DEF Expire
<1>5. ASSUME NEW j \in Jobs, Unavailable(j) \/ Publish(j) \/ PublishFails(j)
      PROVE  UNCHANGED <<store, issued>>
  BY <1>5 DEF Unavailable, Publish, PublishFails, storeVars
<1>6. ASSUME NEW w \in Workers, UpdateRead(w) \/ UpdateSkipped(w) \/ Crash(w)
      PROVE  UNCHANGED <<store, issued>>
  BY <1>6 DEF UpdateRead, UpdateSkipped, Crash, UpdateGet, UpdateMissing, DropSnap, storeVars
<1>7. ASSUME NEW w \in Workers, \/ Poll(w) \/ Evaluate(w) \/ PublishEvent(w)
                                \/ PublishRaises(w) \/ Stop(w) \/ Evict(w)
      PROVE  UNCHANGED <<store, issued>>
  BY <1>7 DEF Poll, Evaluate, PublishEvent, PublishRaises, Stop, Evict, storeVars
<1>8. ASSUME NEW p \in Partitions, Assign(p) \/ AutoCommit(p) \/ Rebalance(p)
      PROVE  UNCHANGED <<store, issued>>
  BY <1>8 DEF Assign, AutoCommit, Rebalance, storeVars
<1>9. ASSUME UNCHANGED vars PROVE UNCHANGED <<store, issued>>
  BY <1>9 DEF vars
<1> QED BY <1>1, <1>2, <1>3, <1>4, <1>5, <1>6, <1>7, <1>8, <1>9
        DEF Next, Submit, Work, Idle

(* Whatever the interleaving, the redeliveries, the pods that exit or are
   killed, evicted or rebalanced, and the Redis and Kafka errors, a poller of
   the v2 tier sees a behaviour of JobContract. *)
THEOREM KafkaImplementsContract == Spec => ImplementsContract
<1>1. Init => Contract!Init
  BY DEF Init, StoreInit, Contract!Init
<1>2. Spec => []CoherenceInv
  BY CoherenceInitially, CoherenceInductive, PTL DEF Spec
<1> QED BY <1>1, <1>2, StepIsContractStep, PTL DEF Spec, ImplementsContract, Contract!Spec

-----------------------------------------------------------------------------
(* Why CompletedEventHasResult and EventsAgree hold: a job is on the topic at
   most once and, while no pod is evicted, no two pods handle it at once. *)

(* Every published request is on the topic once. *)
OnceLogged ==
    /\ \A p \in Partitions : \A i \in 1 .. Len(log[p]) :
          api[log[p][i]] \in {"accepted", "error"}
    /\ \A p, q \in Partitions : \A i \in 1 .. Len(log[p]), k \in 1 .. Len(log[q]) :
          log[p][i] = log[q][k] => p = q /\ i = k

(* The request for job j is message i of partition p, and was handed out. *)
HandedOut(j, p, i) == i \in 1 .. Len(log[p]) /\ i <= position[p] /\ log[p][i] = j

(* Pod w handles that message: it will not be handed out again while the pod
   lives, because the pod still owns the partition or the offset is
   committed. *)
Handles(w, p, i) == HandedOut(cur[w], p, i) /\ (owner[p] = w \/ i <= committed[p])

Placed ==
    \A w \in Workers : cur[w] # NoJob =>
        \E p \in Partitions : \E i \in 1 .. Len(log[p]) : Handles(w, p, i)
Alone == \A v, w \in Workers : v # w /\ cur[v] # NoJob => cur[v] # cur[w]
HandledOnce == faults["evict"] = 0 => Placed /\ Alone

(* A step that leaves the topic, and the requests that are on it, alone. *)
LEMMA OnceFrame ==
    ASSUME TypeOK, OnceLogged, UNCHANGED log,
           \A j \in Jobs : api[j] \in {"accepted", "error"} => api'[j] = api[j]
    PROVE  OnceLogged'
<1>1. \A p \in Partitions : \A i \in 1 .. Len(log[p]) : log[p][i] \in Jobs
  BY DEF TypeOK
<1> QED BY <1>1 DEF OnceLogged

(* The request of a job that is not on the topic yet is added to it. *)
LEMMA OnceAppended ==
    ASSUME TypeOK, OnceLogged, NEW j \in Jobs, api[j] = "created", AppendRequest(j),
           NEW s \in {"accepted", "error"}, api' = [api EXCEPT ![j] = s]
    PROVE  OnceLogged'
<1>1. PICK r \in Partitions : log' = [log EXCEPT ![r] = Append(@, j)]
  BY DEF AppendRequest
<1>2. \A p \in Partitions : log[p] \in Seq(Jobs) /\ Len(log[p]) \in Nat BY DEF TypeOK
<1>3. \A p \in Partitions : \A i \in 1 .. Len(log[p]) : log[p][i] \in Jobs /\ log[p][i] # j
  BY <1>2 DEF OnceLogged
<1>4. ASSUME NEW p \in Partitions, NEW i \in 1 .. Len(log'[p])
      PROVE  \/ i \in 1 .. Len(log[p]) /\ log'[p][i] = log[p][i]
             \/ p = r /\ i = Len(log[r]) + 1 /\ log'[p][i] = j
  <2>1. CASE p # r BY <1>1, <1>4, <2>1 DEF TypeOK
  <2>2. CASE p = r
    <3>1. log'[p] = Append(log[p], j) BY <1>1, <2>2 DEF TypeOK
    <3> QED BY <1>2, <1>4, <2>2, <3>1
  <2> QED BY <2>1, <2>2
<1>5. api'[j] \in {"accepted", "error"} /\ \A x \in Jobs : x # j => api'[x] = api[x]
  BY DEF TypeOK
<1>6. \A p \in Partitions : \A i \in 1 .. Len(log'[p]) :
          api'[log'[p][i]] \in {"accepted", "error"}
  BY <1>3, <1>4, <1>5 DEF OnceLogged
<1>7. ASSUME NEW p \in Partitions, NEW q \in Partitions,
             NEW i \in 1 .. Len(log'[p]), NEW k \in 1 .. Len(log'[q]),
             log'[p][i] = log'[q][k]
      PROVE  p = q /\ i = k
  <2>1. \/ i \in 1 .. Len(log[p]) /\ log'[p][i] = log[p][i]
        \/ p = r /\ i = Len(log[r]) + 1 /\ log'[p][i] = j
    BY <1>4
  <2>2. \/ k \in 1 .. Len(log[q]) /\ log'[q][k] = log[q][k]
        \/ q = r /\ k = Len(log[r]) + 1 /\ log'[q][k] = j
    BY <1>4
  <2>3. CASE log'[p][i] = j
    BY <1>3, <1>7, <2>1, <2>2, <2>3
  <2>4. CASE log'[p][i] # j
    BY <1>7, <2>1, <2>2, <2>4 DEF OnceLogged
  <2> QED BY <2>3, <2>4
<1> QED BY <1>6, <1>7 DEF OnceLogged

(* No request is ever on the topic twice: the producer's failed publish is
   not retried, and the API draws a new job id for every request. *)
LEMMA OnceInductive == TypeOK /\ OnceLogged /\ [Next]_vars => OnceLogged'
<1> SUFFICES ASSUME TypeOK, OnceLogged, [Next]_vars PROVE OnceLogged'
  OBVIOUS
<1>1. ASSUME UNCHANGED <<api, log>> PROVE OnceLogged'
  BY <1>1, OnceFrame
<1>2. ASSUME NEW j \in Jobs, NEW type \in JobTypes, Unavailable(j) \/ CreateJob(j, type)
      PROVE  OnceLogged'
  <2>1. /\ api[j] = "none" /\ UNCHANGED log
        /\ \A i \in Jobs : i # j => api'[i] = api[i]
    BY <1>2 DEF Unavailable, CreateJob, topicVars, TypeOK
  <2> QED BY <2>1, OnceFrame
<1>3. ASSUME NEW j \in Jobs, Publish(j) \/ PublishFails(j) PROVE OnceLogged'
  <2>1. PICK s \in {"accepted", "error"} : api' = [api EXCEPT ![j] = s]
    BY <1>3 DEF Publish, PublishFails
  <2>2. api[j] = "created" /\ (AppendRequest(j) \/ UNCHANGED log)
    BY <1>3 DEF Publish, PublishFails, topicVars
  <2>3. CASE AppendRequest(j) BY <2>1, <2>2, <2>3, OnceAppended
  <2>4. CASE UNCHANGED log
    <3>1. \A i \in Jobs : i # j => api'[i] = api[i] BY <2>1 DEF TypeOK
    <3> QED BY <2>2, <2>4, <3>1, OnceFrame
  <2> QED BY <2>2, <2>3, <2>4
<1>4. ASSUME NEW w \in Workers,
             \/ Work(w) \/ UpdateRaises(w) \/ PublishRaises(w) \/ Evict(w) \/ Crash(w)
      PROVE  UNCHANGED <<api, log>>
  <2>1. CASE Work(w)
    BY <2>1 DEF Work, Poll, UpdateRead, UpdateSkipped, UpdateWrite, Updated, Evaluate,
                PublishEvent, Stop, topicVars
  <2> QED BY <1>4, <2>1 DEF UpdateRaises, PublishRaises, Evict, Crash, topicVars
<1>5. ASSUME NEW p \in Partitions, Assign(p) \/ AutoCommit(p) \/ Rebalance(p)
      PROVE  UNCHANGED <<api, log>>
  BY <1>5 DEF Assign, AutoCommit, Rebalance
<1>6. ASSUME Expire \/ UNCHANGED vars PROVE UNCHANGED <<api, log>>
  BY <1>6 DEF Expire, vars, topicVars
<1>7. "ragas_single_turn" \in JobTypes BY DEF JobTypes
<1> QED BY <1>1, <1>2, <1>3, <1>4, <1>5, <1>6, <1>7 DEF Next, Submit, Idle

(* No fault is forgotten: what holds until a first fault of some kind is only
   ever claimed of a state whose predecessors had none. *)
LEMMA FaultsGrow ==
    ASSUME TypeOK, [Next]_vars
    PROVE  \A kind \in FaultKinds : faults'[kind] >= faults[kind]
<1>1. \A kind \in FaultKinds : faults[kind] \in Nat BY DEF TypeOK
<1>2. ASSUME UNCHANGED faults PROVE \A kind \in FaultKinds : faults'[kind] >= faults[kind]
  BY <1>1, <1>2
<1>3. ASSUME NEW kind \in FaultKinds, Fault(kind)
      PROVE  \A k \in FaultKinds : faults'[k] >= faults[k]
  BY <1>1, <1>3 DEF Fault, TypeOK
<1>4. {"crash", "evict", "rebalance", "redis", "publish"} \subseteq FaultKinds
  BY DEF FaultKinds
<1>5. ASSUME NEW j \in Jobs, Submit(j) PROVE UNCHANGED faults
  BY <1>5 DEF Submit, Unavailable, CreateJob, Publish, PublishFails
<1>6. ASSUME NEW w \in Workers, Work(w) PROVE UNCHANGED faults
  BY <1>6 DEF Work, Poll, UpdateRead, UpdateSkipped, UpdateWrite, Updated, Evaluate,
              PublishEvent, Stop
<1>7. ASSUME NEW w \in Workers, UpdateRaises(w) \/ PublishRaises(w) \/ Evict(w) \/ Crash(w)
      PROVE  \E kind \in FaultKinds : Fault(kind)
  BY <1>4, <1>7 DEF UpdateRaises, PublishRaises, Evict, Crash
<1>8. ASSUME NEW p \in Partitions, Assign(p) \/ AutoCommit(p) \/ Rebalance(p)
      PROVE  UNCHANGED faults \/ \E kind \in FaultKinds : Fault(kind)
  BY <1>4, <1>8 DEF Assign, AutoCommit, Rebalance
<1>9. ASSUME Expire \/ UNCHANGED vars PROVE UNCHANGED faults
  BY <1>9 DEF Expire, vars
<1> QED BY <1>2, <1>3, <1>5, <1>6, <1>7, <1>8, <1>9 DEF Next, Idle

(* A fault of a kind shows in its counter. *)
LEMMA FaultCounted ==
    ASSUME TypeOK, NEW kind \in FaultKinds, Fault(kind)
    PROVE  faults'[kind] > 0
  BY DEF TypeOK, Fault

(* A pod that goes on with its message keeps it to itself: whoever else
   commits, joins, leaves, polls or dies, the message is not handed out
   again. *)
LEMMA HandlesKept ==
    ASSUME TypeOK, [Next]_vars, faults'["evict"] = 0,
           NEW w \in Workers, cur[w] # NoJob, cur'[w] = cur[w],
           NEW p \in Partitions, NEW i, Handles(w, p, i)
    PROVE  Handles(w, p, i)'
<1> USE KafkaAssumption
<1>1. /\ i \in 1 .. Len(log[p]) /\ i <= position[p] /\ log[p][i] = cur[w]
      /\ owner[p] = w \/ i <= committed[p]
  BY DEF Handles, HandedOut
<1>2. /\ committed[p] \in Nat /\ position[p] \in Nat /\ committed[p] <= position[p]
      /\ log[p] \in Seq(Jobs) /\ Len(log[p]) \in Nat
  BY DEF TypeOK
<1>3. ASSUME /\ i \in 1 .. Len(log'[p]) /\ i <= position'[p] /\ log'[p][i] = log[p][i]
             /\ owner'[p] = w \/ i <= committed'[p]
      PROVE  Handles(w, p, i)'
  BY <1>1, <1>3 DEF Handles, HandedOut
<1>4. ASSUME UNCHANGED <<log, position, owner, committed>> PROVE Handles(w, p, i)'
  BY <1>1, <1>3, <1>4
<1>5. ASSUME NEW j \in Jobs, Submit(j) PROVE Handles(w, p, i)'
  <2>1. CASE AppendRequest(j)
    <3>1. PICK q \in Partitions : log' = [log EXCEPT ![q] = Append(@, j)]
      BY <2>1 DEF AppendRequest
    <3>2. i \in 1 .. Len(log'[p]) /\ log'[p][i] = log[p][i]
      <4>1. CASE p = q
        <5>1. log'[p] = Append(log[p], j) BY <3>1, <4>1 DEF TypeOK
        <5> QED BY <1>1, <1>2, <5>1
      <4>2. CASE p # q BY <1>1, <3>1, <4>2 DEF TypeOK
      <4> QED BY <4>1, <4>2
    <3>3. UNCHANGED <<position, owner, committed>> BY <2>1 DEF AppendRequest
    <3> QED BY <1>1, <1>3, <3>2, <3>3
  <2>2. CASE UNCHANGED topicVars
    BY <1>4, <2>2 DEF topicVars
  <2> QED BY <1>5, <2>1, <2>2 DEF Submit, Unavailable, CreateJob, Publish, PublishFails
<1>6. ASSUME NEW r \in Partitions, Assign(r) PROVE Handles(w, p, i)'
  <2>1. \/ p = r /\ owner[p] = NoPod /\ position'[p] = committed[p]
        \/ p # r /\ owner'[p] = owner[p] /\ position'[p] = position[p]
    BY <1>6 DEF Assign, TypeOK
  <2>2. UNCHANGED <<log, committed>> BY <1>6 DEF Assign
  <2> QED BY <1>1, <1>2, <1>3, <2>1, <2>2
<1>7. ASSUME NEW r \in Partitions, AutoCommit(r) \/ Rebalance(r) PROVE Handles(w, p, i)'
  <2>1. \/ p = r /\ committed'[p] = position[p]
        \/ p # r /\ owner'[p] = owner[p] /\ committed'[p] = committed[p]
    BY <1>7 DEF AutoCommit, Rebalance, TypeOK
  <2>2. UNCHANGED <<log, position>> BY <1>7 DEF AutoCommit, Rebalance
  <2> QED BY <1>1, <1>2, <1>3, <2>1, <2>2
<1>8. ASSUME NEW v \in Workers, Poll(v) PROVE Handles(w, p, i)'
  <2>1. position'[p] >= position[p]
    <3>1. PICK q \in Partitions : position' = [position EXCEPT ![q] = @ + 1]
      BY <1>8 DEF Poll
    <3> QED BY <1>2, <3>1 DEF TypeOK
  <2>2. position'[p] \in Nat BY TypeInductive DEF TypeOK
  <2>3. UNCHANGED <<log, owner, committed>> BY <1>8 DEF Poll
  <2> QED BY <1>1, <1>2, <1>3, <2>1, <2>2, <2>3
<1>9. ASSUME NEW v \in Workers, Stop(v) \/ Crash(v) PROVE Handles(w, p, i)'
  <2>1. v # w
    <3>1. cur'[v] = NoJob BY <1>9 DEF Stop, Crash, TypeOK
    <3> QED BY <3>1
  <2>2. owner[p] = w => owner'[p] = w
    BY <1>9, <2>1 DEF Stop, Crash
  <2>3. committed'[p] \in {committed[p], position[p]} /\ UNCHANGED <<log, position>>
    BY <1>9 DEF Stop, Crash
  <2> QED BY <1>1, <1>2, <1>3, <2>2, <2>3
<1>10. ASSUME NEW v \in Workers PROVE ~ Evict(v)
  <2>1. "evict" \in FaultKinds BY DEF FaultKinds
  <2> QED BY <2>1, FaultCounted DEF Evict
<1>11. ASSUME NEW v \in Workers,
              \/ UpdateRead(v) \/ UpdateSkipped(v) \/ UpdateWrite(v) \/ UpdateRaises(v)
              \/ Evaluate(v) \/ PublishEvent(v) \/ PublishRaises(v)
       PROVE  UNCHANGED <<log, position, owner, committed>>
  BY <1>11 DEF UpdateRead, UpdateSkipped, UpdateWrite, UpdateRaises, Updated, Evaluate,
               PublishEvent, PublishRaises, topicVars
<1>12. ASSUME Expire \/ UNCHANGED vars PROVE UNCHANGED <<log, position, owner, committed>>
  BY <1>12 DEF Expire, vars, topicVars
<1> QED BY <1>4, <1>5, <1>6, <1>7, <1>8, <1>9, <1>10, <1>11, <1>12 DEF Next, Work, Idle

(* A pod either polls, or keeps its job, or has none any more. *)
LEMMA CurStep ==
    ASSUME TypeOK, [Next]_vars, NEW w \in Workers
    PROVE  Poll(w) \/ cur'[w] = cur[w] \/ cur'[w] = NoJob
<1>1. ASSUME NEW j \in Jobs, Submit(j) PROVE UNCHANGED cur
  BY <1>1 DEF Submit, Unavailable, CreateJob, Publish, PublishFails
<1>2. ASSUME NEW v \in Workers, Poll(v), ~ Poll(w) PROVE cur'[w] = cur[w]
  <2>1. v # w BY <1>2
  <2>2. PICK x : cur' = [cur EXCEPT ![v] = x] BY <1>2 DEF Poll
  <2> QED BY <2>1, <2>2 DEF TypeOK
<1>3. ASSUME NEW v \in Workers, PublishEvent(v) \/ Stop(v) \/ Crash(v)
      PROVE  cur'[w] = cur[w] \/ cur'[w] = NoJob
  BY <1>3 DEF PublishEvent, Stop, Crash, TypeOK
<1>4. ASSUME NEW v \in Workers,
             \/ UpdateRead(v) \/ UpdateSkipped(v) \/ UpdateWrite(v) \/ UpdateRaises(v)
             \/ Evaluate(v) \/ PublishRaises(v) \/ Evict(v)
      PROVE  UNCHANGED cur
  BY <1>4 DEF UpdateRead, UpdateSkipped, UpdateWrite, UpdateRaises, Updated, Evaluate,
              PublishRaises, Evict
<1>5. ASSUME NEW p \in Partitions, Assign(p) \/ AutoCommit(p) \/ Rebalance(p)
      PROVE  UNCHANGED cur
  BY <1>5 DEF Assign, AutoCommit, Rebalance
<1>6. ASSUME Expire \/ UNCHANGED vars PROVE UNCHANGED cur
  BY <1>6 DEF Expire, vars
<1> QED BY <1>1, <1>2, <1>3, <1>4, <1>5, <1>6 DEF Next, Work, Idle

(* While no pod is evicted, no two pods handle the same job. *)
LEMMA HandledOnceInductive ==
    TypeOK /\ OnceLogged /\ HandledOnce /\ [Next]_vars => HandledOnce'
<1> SUFFICES ASSUME TypeOK, OnceLogged, HandledOnce, [Next]_vars, faults'["evict"] = 0
             PROVE  Placed' /\ Alone'
  BY DEF HandledOnce
<1>1. Placed /\ Alone
  <2>1. "evict" \in FaultKinds BY DEF FaultKinds
  <2>2. faults["evict"] \in Nat BY <2>1 DEF TypeOK
  <2> QED BY <2>1, <2>2, FaultsGrow DEF HandledOnce
<1>2. ASSUME NEW w \in Workers, Poll(w)
      PROVE  /\ \E p \in Partitions : \E i \in 1 .. Len(log'[p]) : Handles(w, p, i)'
             /\ \A v \in Workers : v # w => cur'[v] = cur[v] /\ cur'[w] # cur[v]
  <2>1. PICK p \in Partitions :
            /\ owner[p] = w
            /\ position[p] < Len(log[p])
            /\ cur' = [cur EXCEPT ![w] = log[p][position[p] + 1]]
            /\ position' = [position EXCEPT ![p] = @ + 1]
    BY <1>2 DEF Poll
  <2>2. UNCHANGED <<log, owner>> BY <1>2 DEF Poll
  <2>3. /\ position[p] \in Nat /\ Len(log[p]) \in Nat
        /\ position[p] + 1 \in 1 .. Len(log[p])
        /\ log[p][position[p] + 1] \in Jobs
    BY <2>1 DEF TypeOK
  <2>4. /\ cur'[w] = log[p][position[p] + 1] /\ position'[p] = position[p] + 1
        /\ \A v \in Workers : v # w => cur'[v] = cur[v]
    BY <2>1 DEF TypeOK
  <2>5. PICK n \in 1 .. Len(log[p]) : n = position[p] + 1 BY <2>3
  <2>6. ASSUME NEW v \in Workers, v # w PROVE cur'[w] # cur[v]
    <3> SUFFICES ASSUME cur[v] = log[p][position[p] + 1] PROVE FALSE
      BY <2>4
    <3>1. cur[v] # NoJob BY <2>3, KafkaAssumption
    <3>2. PICK q \in Partitions : \E i \in 1 .. Len(log[q]) : Handles(v, q, i)
      BY <1>1, <3>1 DEF Placed
    <3>3. PICK i \in 1 .. Len(log[q]) : Handles(v, q, i) BY <3>2
    <3>4. log[q][i] = log[p][position[p] + 1] /\ i <= position[q]
      BY <3>3 DEF Handles, HandedOut
    <3>5. q = p /\ i = position[p] + 1 BY <2>3, <3>4 DEF OnceLogged
    <3> QED BY <2>3, <3>4, <3>5
  <2>7. n \in 1 .. Len(log'[p]) /\ Handles(w, p, n)'
    BY <2>1, <2>2, <2>3, <2>4, <2>5 DEF Handles, HandedOut
  <2> QED BY <2>4, <2>6, <2>7
<1>3. ASSUME NEW w \in Workers, cur'[w] # NoJob
      PROVE  \E p \in Partitions : \E i \in 1 .. Len(log'[p]) : Handles(w, p, i)'
  <2>1. CASE Poll(w) BY <1>2, <2>1
  <2>2. CASE cur'[w] = cur[w]
    <3>1. PICK p \in Partitions : \E i \in 1 .. Len(log[p]) : Handles(w, p, i)
      BY <1>1, <1>3, <2>2 DEF Placed
    <3>2. PICK i \in 1 .. Len(log[p]) : Handles(w, p, i) BY <3>1
    <3>3. Handles(w, p, i)' BY <1>3, <2>2, <3>2, HandlesKept
    <3>4. i \in 1 .. Len(log'[p]) BY <3>3 DEF Handles, HandedOut
    <3> QED BY <3>3, <3>4
  <2> QED BY <1>3, <2>1, <2>2, CurStep
<1>4. ASSUME NEW v \in Workers, NEW w \in Workers, v # w, cur'[v] # NoJob
      PROVE  cur'[v] # cur'[w]
  <2>1. CASE Poll(v) BY <1>2, <1>4, <2>1
  <2>2. CASE Poll(w) BY <1>2, <1>4, <2>2
  <2>3. CASE cur'[v] = cur[v] /\ (cur'[w] = cur[w] \/ cur'[w] = NoJob)
    BY <1>1, <1>4, <2>3 DEF Alone
  <2> QED BY <1>4, <2>1, <2>2, <2>3, CurStep
<1> QED BY <1>3, <1>4 DEF Placed, Alone

-----------------------------------------------------------------------------
(* CompletedEventHasResult. *)

(* A poller of job j, or the pod between its GET and its SET, has the result
   or nothing. *)
ReadsResult(j) == store[j] = Absent \/ "result" \in store[j].filled
HoldsResult(w) == snap[w] = NoSnap \/ "result" \in snap[w].filled

(* Once "completed" is out, neither the document nor a copy that may still
   overwrite it lacks the result; and it goes out only then. *)
Kept ==
    /\ \A j \in Jobs : <<"completed", j>> \in events =>
          ReadsResult(j) /\ \A w \in Workers : cur[w] = j => HoldsResult(w)
    /\ \A w \in Workers : phase[w] = "pub_done" => ReadsResult(cur[w])

ResultKept == faults["evict"] = 0 => Kept

(* Only jobs that were created are reported. *)
EventsIssued == \A e \in events : issued[e[2]] # Absent

ResultInv == CoherenceInv /\ OnceLogged /\ HandledOnce /\ EventsIssued /\ ResultKept

(* A step that writes no document other than by dropping it, takes no copy
   and reports nothing. *)
LEMMA KeptFrame ==
    ASSUME TypeOK, Kept, events' \subseteq events,
           \A j \in Jobs : store'[j] \in {store[j], Absent},
           \A v \in Workers : /\ snap'[v] \in {snap[v], NoSnap}
                              /\ cur'[v] \in {cur[v], NoJob}
                              /\ phase'[v] = "pub_done" =>
                                   \/ phase[v] = "pub_done" /\ cur'[v] = cur[v]
                                   \/ store'[cur'[v]] = Absent
    PROVE  Kept'
<1>1. \A v \in Workers : phase[v] = "pub_done" => cur[v] \in Jobs
  BY DEF TypeOK
<1>2. \A j \in Jobs : ReadsResult(j) => store'[j] = Absent \/ "result" \in store'[j].filled
  BY DEF ReadsResult
<1>3. \A v \in Workers : HoldsResult(v) => snap'[v] = NoSnap \/ "result" \in snap'[v].filled
  BY DEF HoldsResult
<1>4. ASSUME NEW j \in Jobs, <<"completed", j>> \in events'
      PROVE  ReadsResult(j)' /\ \A v \in Workers : cur'[v] = j => HoldsResult(v)'
  <2>1. ReadsResult(j)' BY <1>2, <1>4 DEF Kept, ReadsResult
  <2>2. \A v \in Workers : cur'[v] = j => cur[v] = j
    BY KafkaAssumption
  <2>3. \A v \in Workers : cur'[v] = j => HoldsResult(v)'
    BY <1>3, <1>4, <2>2 DEF Kept, HoldsResult
  <2> QED BY <2>1, <2>3
<1>5. ASSUME NEW v \in Workers, phase'[v] = "pub_done"
      PROVE  store'[cur'[v]] = Absent \/ "result" \in store'[cur'[v]].filled
  <2>1. CASE phase[v] = "pub_done" /\ cur'[v] = cur[v]
    BY <1>1, <1>2, <2>1 DEF Kept
  <2> QED BY <1>5, <2>1
<1> QED BY <1>4, <1>5 DEF Kept, ReadsResult, HoldsResult

(* Pod w writes its merged copy back: a copy that had the result still has
   it, and the "completed" update adds it. *)
LEMMA KeptWrite ==
    ASSUME CoherenceInv, Alone, Kept, NEW w \in Workers, phase[w] \in Updating,
           snap[w] # NoSnap, SetKey(cur[w], Merge(snap[w], Patch[phase[w]])),
           snap' = [snap EXCEPT ![w] = NoSnap], UNCHANGED <<cur, events>>,
           NEW q \in Phases, phase' = [phase EXCEPT ![w] = q],
           q = "pub_done" => phase[w] = "done"
    PROVE  Kept'
<1>1. PICK c \in Jobs : c = cur[w]
  BY DEF CoherenceInv, TypeOK, Updating
<1>2. PICK r : r = Merge(snap[w], Patch[phase[w]]) OBVIOUS
<1>3. /\ "result" \in snap[w].filled => "result" \in r.filled
      /\ phase[w] = "done" => "result" \in r.filled
  BY <1>2 DEF Merge, Patch
<1>4. /\ store'[c] = r /\ \A j \in Jobs : j # c => store'[j] = store[j]
      /\ snap'[w] = NoSnap /\ \A v \in Workers : v # w => snap'[v] = snap[v]
      /\ phase'[w] = q /\ \A v \in Workers : v # w => phase'[v] = phase[v]
  BY <1>1, <1>2 DEF SetKey, CoherenceInv, TypeOK, StoreTypeOK
<1>5. \A v \in Workers : v # w => cur[v] # c
  BY <1>1, KafkaAssumption DEF Alone
<1>6. ASSUME NEW j \in Jobs, <<"completed", j>> \in events'
      PROVE  ReadsResult(j)' /\ \A v \in Workers : cur'[v] = j => HoldsResult(v)'
  <2>1. CASE j = c
    <3>1. HoldsResult(w) BY <1>1, <1>6, <2>1 DEF Kept
    <3>2. "result" \in r.filled BY <1>3, <3>1 DEF HoldsResult
    <3> QED BY <1>4, <1>5, <2>1, <3>2 DEF ReadsResult, HoldsResult
  <2>2. CASE j # c
    BY <1>4, <1>6, <2>2 DEF Kept, ReadsResult, HoldsResult
  <2> QED BY <2>1, <2>2
<1>7. ASSUME NEW v \in Workers, phase'[v] = "pub_done"
      PROVE  store'[cur[v]] = Absent \/ "result" \in store'[cur[v]].filled
  <2>1. CASE v = w BY <1>1, <1>3, <1>4, <1>7, <2>1
  <2>2. CASE v # w
    <3>1. cur[v] \in Jobs /\ cur[v] # c
      BY <1>4, <1>5, <1>7, <2>2 DEF CoherenceInv, TypeOK
    <3> QED BY <1>4, <1>7, <2>2, <3>1 DEF Kept, ReadsResult
  <2> QED BY <2>1, <2>2
<1> QED BY <1>6, <1>7 DEF Kept, ReadsResult

(* Pod w reports on its job: the document it wrote has the result, and no
   other pod holds a copy of it. *)
LEMMA KeptEmit ==
    ASSUME CoherenceInv, Alone, Kept, NEW w \in Workers, phase[w] \in Publishing,
           Emit(w), UNCHANGED <<store, snap>>,
           \A v \in Workers : /\ cur'[v] \in {cur[v], NoJob}
                              /\ phase'[v] = "pub_done" =>
                                    phase[v] = "pub_done" /\ cur'[v] = cur[v]
    PROVE  Kept'
<1>1. PICK c \in Jobs : c = cur[w]
  BY DEF CoherenceInv, TypeOK, Publishing
<1>2. snap[w] = NoSnap
  BY DEF CoherenceInv, DocumentsCoherent, Publishing, Updating
<1>3. \A v \in Workers : v # w => cur[v] # c
  BY <1>1, KafkaAssumption DEF Alone
<1>4. \A j \in Jobs : <<"completed", j>> \in events' =>
          <<"completed", j>> \in events \/ (j = c /\ phase[w] = "pub_done")
  BY <1>1 DEF Emit, EventOf, Publishing
<1>5. ASSUME NEW j \in Jobs, <<"completed", j>> \in events'
      PROVE  ReadsResult(j)' /\ \A v \in Workers : cur'[v] = j => HoldsResult(v)'
  <2>1. \A v \in Workers : cur'[v] = j => cur[v] = j BY KafkaAssumption
  <2>2. CASE <<"completed", j>> \in events
    BY <2>1, <2>2 DEF Kept, ReadsResult, HoldsResult
  <2>3. CASE j = c /\ phase[w] = "pub_done"
    BY <1>1, <1>2, <1>3, <2>1, <2>3 DEF Kept, ReadsResult, HoldsResult
  <2> QED BY <1>4, <1>5, <2>2, <2>3
<1> QED BY <1>5 DEF Kept, ReadsResult

(* Every action keeps the result of a job that was reported as completed. *)
LEMMA KeptInductive ==
    ASSUME CoherenceInv, Alone, EventsIssued, Kept, [Next]_vars
    PROVE  Kept'
<1>0. TypeOK /\ TypeOK' BY TypeInductive DEF CoherenceInv
<1>1. ASSUME UNCHANGED <<store, snap, cur, phase, events>> PROVE Kept'
  BY <1>1 DEF Kept, ReadsResult, HoldsResult
<1>2. ASSUME NEW j \in Jobs, Unavailable(j) \/ Publish(j) \/ PublishFails(j) PROVE Kept'
  BY <1>1, <1>2 DEF Unavailable, Publish, PublishFails, storeVars
<1>3. ASSUME NEW j \in Jobs, NEW type \in JobTypes, CreateJob(j, type) PROVE Kept'
  <2>1. /\ issued[j] = Absent
        /\ store' = [store EXCEPT ![j] = NewRecord(type)]
        /\ UNCHANGED <<snap, cur, phase, events>>
    BY <1>3 DEF CreateJob, create_job, SetKey
  <2>2. \A w \in Workers : cur[w] # j
    BY <1>3, <2>1, KafkaAssumption DEF CoherenceInv, IssuedFirst
  <2>3. \A s : <<s, j>> \notin events BY <2>1 DEF EventsIssued
  <2>4. \A i \in Jobs : i # j => store'[i] = store[i]
    BY <1>0, <2>1 DEF TypeOK, StoreTypeOK
  <2>5. \A w \in Workers : phase[w] = "pub_done" => cur[w] \in Jobs BY <1>0 DEF TypeOK
  <2> QED BY <2>1, <2>2, <2>3, <2>4, <2>5 DEF Kept, ReadsResult, HoldsResult
<1>4. ASSUME NEW p \in Partitions, Assign(p) \/ AutoCommit(p) \/ Rebalance(p) PROVE Kept'
  BY <1>1, <1>4 DEF Assign, AutoCommit, Rebalance, storeVars
<1>5. ASSUME NEW w \in Workers, Evict(w) PROVE Kept'
  BY <1>1, <1>5 DEF Evict, storeVars
<1>6. ASSUME NEW w \in Workers, Poll(w) PROVE Kept'
  <2>1. PICK x : cur' = [cur EXCEPT ![w] = x] BY <1>6 DEF Poll
  <2>2. /\ phase[w] = "idle" /\ phase' = [phase EXCEPT ![w] = "start"]
        /\ UNCHANGED <<store, snap, events>>
    BY <1>6 DEF Poll, storeVars
  <2>3. snap[w] = NoSnap BY <2>2 DEF CoherenceInv, DocumentsCoherent, Updating
  <2>4. /\ phase'[w] = "start"
        /\ \A v \in Workers : v # w => cur'[v] = cur[v] /\ phase'[v] = phase[v]
    BY <1>0, <2>1, <2>2 DEF TypeOK
  <2> QED BY <2>2, <2>3, <2>4 DEF Kept, ReadsResult, HoldsResult
<1>7. ASSUME NEW w \in Workers, UpdateRead(w) PROVE Kept'
  <2>1. /\ phase[w] \in Updating /\ snap' = [snap EXCEPT ![w] = store[cur[w]]]
        /\ UNCHANGED <<store, cur, phase, events>>
    BY <1>7 DEF UpdateRead, UpdateGet, get_job
  <2>2. cur[w] \in Jobs BY <1>0, <2>1 DEF TypeOK, Updating
  <2>3. /\ snap'[w] = store[cur[w]] /\ store[cur[w]] # Absent
        /\ \A v \in Workers : v # w => snap'[v] = snap[v]
    BY <1>0, <1>7, <2>1 DEF TypeOK, StoreTypeOK, UpdateRead, UpdateGet, get_job
  <2> QED BY <2>1, <2>2, <2>3 DEF Kept, ReadsResult, HoldsResult
<1>8. ASSUME NEW w \in Workers, UpdateSkipped(w) PROVE Kept'
  <2>1. /\ phase' = [phase EXCEPT ![w] = AfterUpdate[@]] /\ store[cur[w]] = Absent
        /\ UNCHANGED <<store, snap, cur, events>>
    BY <1>8 DEF UpdateSkipped, UpdateMissing, Updated, get_job, storeVars
  <2>2. \A v \in Workers : v # w => phase'[v] = phase[v] BY <1>0, <2>1 DEF TypeOK
  <2> QED BY <1>0, <2>1, <2>2, KeptFrame
<1>9. ASSUME NEW w \in Workers, UpdateWrite(w) PROVE Kept'
  <2>1. /\ phase[w] \in Updating /\ snap[w] # NoSnap
        /\ SetKey(cur[w], Merge(snap[w], Patch[phase[w]]))
        /\ snap' = [snap EXCEPT ![w] = NoSnap]
        /\ phase' = [phase EXCEPT ![w] = AfterUpdate[phase[w]]]
        /\ UNCHANGED <<cur, events>>
    BY <1>9 DEF UpdateWrite, UpdateSet, Updated
  <2>2. /\ AfterUpdate[phase[w]] \in Phases
        /\ AfterUpdate[phase[w]] = "pub_done" => phase[w] = "done"
    BY <2>1 DEF Updating, AfterUpdate, Phases
  <2> QED BY <2>1, <2>2, KeptWrite
<1>10. ASSUME NEW w \in Workers, UpdateRaises(w) PROVE Kept'
  <2>1. /\ phase[w] \in Updating
        /\ snap' = [snap EXCEPT ![w] = NoSnap]
        /\ phase' = [phase EXCEPT ![w] = AfterError[phase[w]]]
        /\ UNCHANGED <<cur, events>>
    BY <1>10 DEF UpdateRaises, UpdateError
  <2>2. AfterError[phase[w]] \in Phases /\ AfterError[phase[w]] # "pub_done"
    BY <2>1 DEF Updating, AfterError, Phases
  <2>3. CASE snap[w] # NoSnap /\ SetKey(cur[w], Merge(snap[w], Patch[phase[w]]))
    BY <2>1, <2>2, <2>3, KeptWrite
  <2>4. CASE UNCHANGED store
    <3>1. /\ snap'[w] = NoSnap /\ phase'[w] # "pub_done"
          /\ \A v \in Workers : v # w => snap'[v] = snap[v] /\ phase'[v] = phase[v]
      BY <1>0, <2>1, <2>2 DEF TypeOK, StoreTypeOK
    <3> QED BY <1>0, <2>1, <2>4, <3>1, KeptFrame
  <2> QED BY <1>10, <2>3, <2>4 DEF UpdateRaises, UpdateError
<1>11. ASSUME NEW w \in Workers, Evaluate(w) PROVE Kept'
  <2>1. PICK next \in {"done", "fail"} : phase' = [phase EXCEPT ![w] = next]
    BY <1>11 DEF Evaluate
  <2>2. phase'[w] # "pub_done" /\ \A v \in Workers : v # w => phase'[v] = phase[v]
    BY <1>0, <2>1 DEF TypeOK
  <2>3. UNCHANGED <<store, snap, cur, events>> BY <1>11 DEF Evaluate, storeVars
  <2> QED BY <1>0, <2>2, <2>3, KeptFrame
<1>12. ASSUME NEW w \in Workers, PublishEvent(w) PROVE Kept'
  <2>1. /\ phase[w] \in Publishing /\ Emit(w) /\ UNCHANGED <<store, snap>>
        /\ phase' = [phase EXCEPT ![w] = "idle"] /\ cur' = [cur EXCEPT ![w] = NoJob]
    BY <1>12 DEF PublishEvent, storeVars
  <2>2. /\ phase'[w] = "idle" /\ cur'[w] = NoJob
        /\ \A v \in Workers : v # w => phase'[v] = phase[v] /\ cur'[v] = cur[v]
    BY <1>0, <2>1 DEF TypeOK
  <2> QED BY <2>1, <2>2, KeptEmit
<1>13. ASSUME NEW w \in Workers, PublishRaises(w) PROVE Kept'
  <2>1. /\ phase[w] \in Publishing /\ UNCHANGED <<store, snap, cur>>
        /\ phase' = [phase EXCEPT ![w] = AfterError[phase[w]]]
    BY <1>13 DEF PublishRaises, storeVars
  <2>2. AfterError[phase[w]] # "pub_done" BY <2>1 DEF Publishing, AfterError
  <2>3. phase'[w] # "pub_done" /\ \A v \in Workers : v # w => phase'[v] = phase[v]
    BY <1>0, <2>1, <2>2 DEF TypeOK
  <2>4. CASE Emit(w) BY <2>1, <2>3, <2>4, KeptEmit
  <2>5. CASE UNCHANGED events BY <1>0, <2>1, <2>3, <2>5, KeptFrame
  <2> QED BY <1>13, <2>4, <2>5 DEF PublishRaises
<1>14. ASSUME NEW w \in Workers, Stop(w) \/ Crash(w) PROVE Kept'
  <2>1. /\ phase' = [phase EXCEPT ![w] = "idle"] /\ cur' = [cur EXCEPT ![w] = NoJob]
        /\ snap' = snap \/ snap' = [snap EXCEPT ![w] = NoSnap]
        /\ UNCHANGED <<store, events>>
    BY <1>14 DEF Stop, Crash, DropSnap, storeVars
  <2>2. /\ phase'[w] = "idle" /\ cur'[w] = NoJob
        /\ \A v \in Workers : v # w => phase'[v] = phase[v] /\ cur'[v] = cur[v]
        /\ \A v \in Workers : snap'[v] \in {snap[v], NoSnap}
    BY <1>0, <2>1 DEF TypeOK, StoreTypeOK
  <2> QED BY <1>0, <2>1, <2>2, KeptFrame
<1>15. CASE Expire
  <2>1. /\ \A j \in Jobs : store'[j] \in {store[j], Absent}
        /\ UNCHANGED <<snap, cur, phase, events>>
    BY <1>15 DEF Expire, Tick
  <2> QED BY <1>0, <2>1, KeptFrame
<1>16. CASE UNCHANGED vars BY <1>1, <1>16 DEF vars
<1> QED BY <1>2, <1>3, <1>4, <1>5, <1>6, <1>7, <1>8, <1>9, <1>10, <1>11, <1>12,
           <1>13, <1>14, <1>15, <1>16
        DEF Next, Submit, Work, Idle

(* What a step may do to the published events: report the current job of a
   pod that is about to. *)
LEMMA EventStep ==
    ASSUME TypeOK, [Next]_vars
    PROVE  \/ UNCHANGED events
           \/ \E w \in Workers : /\ phase[w] \in Publishing /\ Emit(w)
                                 /\ PublishEvent(w) \/ PublishRaises(w)
<1>1. ASSUME NEW j \in Jobs, Submit(j) PROVE UNCHANGED events
  BY <1>1 DEF Submit, Unavailable, CreateJob, Publish, PublishFails
<1>2. ASSUME NEW w \in Workers, PublishEvent(w) \/ PublishRaises(w)
      PROVE  UNCHANGED events \/ (phase[w] \in Publishing /\ Emit(w))
  BY <1>2 DEF PublishEvent, PublishRaises
<1>3. ASSUME NEW w \in Workers,
             \/ Poll(w) \/ UpdateRead(w) \/ UpdateSkipped(w) \/ UpdateWrite(w)
             \/ UpdateRaises(w) \/ Evaluate(w) \/ Stop(w) \/ Evict(w) \/ Crash(w)
      PROVE  UNCHANGED events
  BY <1>3 DEF Poll, UpdateRead, UpdateSkipped, UpdateWrite, UpdateRaises, Updated,
              Evaluate, Stop, Evict, Crash
<1>4. ASSUME NEW p \in Partitions, Assign(p) \/ AutoCommit(p) \/ Rebalance(p)
      PROVE  UNCHANGED events
  BY <1>4 DEF Assign, AutoCommit, Rebalance
<1>5. ASSUME Expire \/ UNCHANGED vars PROVE UNCHANGED events
  BY <1>5 DEF Expire, vars
<1> QED BY <1>1, <1>2, <1>3, <1>4, <1>5 DEF Next, Work, Idle

(* A job keeps the type it was issued with. *)
LEMMA IssuedKept ==
    ASSUME TypeOK, [Next]_vars, NEW j \in Jobs, issued[j] # Absent
    PROVE  issued'[j] = issued[j]
<1>1. ASSUME NEW i \in Jobs, Submit(i) PROVE issued'[j] = issued[j]
  <2>1. ASSUME NEW type \in JobTypes, CreateJob(i, type) PROVE issued'[j] = issued[j]
    BY <2>1 DEF CreateJob, create_job, TypeOK, StoreTypeOK
  <2> QED BY <1>1, <2>1 DEF Submit, Unavailable, Publish, PublishFails, storeVars
<1>2. ASSUME NEW w \in Workers,
             \/ Work(w) \/ UpdateRaises(w) \/ PublishRaises(w) \/ Evict(w) \/ Crash(w)
      PROVE  UNCHANGED issued
  <2>1. CASE Work(w)
    BY <2>1 DEF Work, Poll, UpdateRead, UpdateSkipped, UpdateWrite, UpdateGet,
                UpdateMissing, UpdateSet, Evaluate, PublishEvent, Stop, storeVars
  <2> QED BY <1>2, <2>1 DEF UpdateRaises, UpdateError, PublishRaises, Evict, Crash,
                            DropSnap, storeVars
<1>3. ASSUME NEW p \in Partitions, Assign(p) \/ AutoCommit(p) \/ Rebalance(p)
      PROVE  UNCHANGED issued
  BY <1>3 DEF Assign, AutoCommit, Rebalance, storeVars
<1>4. ASSUME Expire \/ UNCHANGED vars PROVE UNCHANGED issued
  BY <1>4 DEF Expire, Tick, vars
<1> QED BY <1>1, <1>2, <1>3, <1>4 DEF Next, Idle

(* A pod reports only on a job that was created. *)
LEMMA EventsIssuedInductive == CoherenceInv /\ EventsIssued /\ [Next]_vars => EventsIssued'
<1> SUFFICES ASSUME CoherenceInv, EventsIssued, [Next]_vars, NEW e \in events'
             PROVE  issued'[e[2]] # Absent
  BY DEF EventsIssued
<1>0. TypeOK BY DEF CoherenceInv
<1>1. CASE e \in events
  <2>1. e[2] \in Jobs BY <1>0, <1>1 DEF TypeOK
  <2> QED BY <1>0, <1>1, <2>1, IssuedKept DEF EventsIssued
<1>2. CASE e \notin events
  <2>1. PICK w \in Workers : phase[w] \in Publishing /\ Emit(w)
    BY <1>0, <1>2, EventStep
  <2>2. e[2] = cur[w] BY <1>2, <2>1 DEF Emit
  <2>3. cur[w] \in Jobs BY <1>0, <2>1 DEF TypeOK, Publishing
  <2>4. issued[cur[w]] # Absent
    BY <2>3, KafkaAssumption DEF CoherenceInv, IssuedFirst
  <2> QED BY <1>0, <2>2, <2>3, <2>4, IssuedKept
<1> QED BY <1>1, <1>2

(* The strengthened invariant is inductive. *)
LEMMA ResultInductive == ResultInv /\ [Next]_vars => ResultInv'
<1> SUFFICES ASSUME ResultInv, [Next]_vars PROVE ResultInv'
  OBVIOUS
<1>1. TypeOK BY DEF ResultInv, CoherenceInv
<1>2. CoherenceInv' /\ OnceLogged' /\ HandledOnce' /\ EventsIssued'
  BY <1>1, CoherenceInductive, OnceInductive, HandledOnceInductive, EventsIssuedInductive
     DEF ResultInv
<1>3. ASSUME faults'["evict"] = 0 PROVE Kept'
  <2>1. "evict" \in FaultKinds BY DEF FaultKinds
  <2>2. faults["evict"] \in Nat BY <1>1, <2>1 DEF TypeOK
  <2>3. faults["evict"] = 0 BY <1>1, <1>3, <2>1, <2>2, FaultsGrow
  <2> QED BY <2>3, KeptInductive DEF ResultInv, ResultKept, HandledOnce
<1> QED BY <1>2, <1>3 DEF ResultInv, ResultKept

(* Nothing is reported, logged or handled initially. *)
LEMMA ResultInitially == Init => ResultInv
<1> SUFFICES ASSUME Init PROVE ResultInv OBVIOUS
<1>1. CoherenceInv BY CoherenceInitially
<1> QED BY <1>1 DEF Init, ResultInv, OnceLogged, HandledOnce, Placed, Alone, EventsIssued,
                    ResultKept, Kept

(* Until a first eviction, no two pods handle the same job at once, although
   offsets are committed before their messages are handled, partitions move
   and killed pods' messages are handed out again. *)
THEOREM JobsHandledOnce == Spec => []HandledOnce
<1>1. ResultInv => HandledOnce BY DEF ResultInv
<1> QED BY <1>1, ResultInitially, ResultInductive, PTL DEF Spec

(* Until a first eviction, a consumer of eval.completed that fetches the job
   finds the result or a 404, whatever crashes, redeliveries, rebalances,
   Redis and publish errors the pods go through. *)
THEOREM CompletedEventsHaveResults == Spec => []CompletedEventHasResult
<1>1. ResultInv => CompletedEventHasResult
  BY DEF ResultInv, ResultKept, Kept, ReadsResult, CompletedEventHasResult
<1> QED BY <1>1, ResultInitially, ResultInductive, PTL DEF Spec

-----------------------------------------------------------------------------
(* EventsAgree. *)

(* A partition without an owner was given up in order: its last owner
   committed all it had handed out. *)
Drained == \A p \in Partitions : owner[p] = NoPod => position[p] = committed[p]

(* A reported job was handed out, no pod handles it any more, and the store
   says what the event says. *)
Settled ==
    \A e \in events :
        /\ Agree(e[2], e[1])
        /\ \A w \in Workers : cur[w] # e[2]
        /\ \E p \in Partitions : \E i \in 1 .. Len(log[p]) : HandedOut(e[2], p, i)

(* A pod reports the status it wrote, unless the document is gone. *)
WroteFirst ==
    \A w \in Workers : phase[w] \in Publishing => Agree(cur[w], EventOf[phase[w]])

Undisturbed == faults["crash"] = 0 /\ faults["evict"] = 0 /\ faults["publish"] = 0
ReportInv == ResultInv /\ (Undisturbed => Drained /\ Settled /\ WroteFirst)

(* Without a kill or an eviction, a partition is only ever given up with a
   commit. *)
LEMMA DrainedInductive ==
    ASSUME TypeOK, Drained, [Next]_vars, faults'["crash"] = 0, faults'["evict"] = 0
    PROVE  Drained'
<1>1. ASSUME UNCHANGED <<committed, position, owner>> PROVE Drained'
  BY <1>1 DEF Drained
<1>2. ASSUME NEW j \in Jobs, Submit(j) PROVE UNCHANGED <<committed, position, owner>>
  BY <1>2 DEF Submit, Unavailable, CreateJob, Publish, PublishFails, AppendRequest, topicVars
<1>3. ASSUME NEW p \in Partitions, Assign(p) PROVE Drained'
  BY <1>3 DEF Assign, Drained, TypeOK
<1>4. ASSUME NEW p \in Partitions, AutoCommit(p) PROVE Drained'
  BY <1>4 DEF AutoCommit, Drained, TypeOK
<1>5. ASSUME NEW p \in Partitions, Rebalance(p) PROVE Drained'
  BY <1>5 DEF Rebalance, Drained, TypeOK
<1>6. ASSUME NEW w \in Workers, Poll(w) PROVE Drained'
  <2>1. PICK p \in Partitions : /\ owner[p] = w
                                /\ position' = [position EXCEPT ![p] = @ + 1]
    BY <1>6 DEF Poll
  <2>2. UNCHANGED <<committed, owner>> BY <1>6 DEF Poll
  <2> QED BY <2>1, <2>2, KafkaAssumption DEF Drained, TypeOK
<1>7. ASSUME NEW w \in Workers, Stop(w) PROVE Drained'
  BY <1>7 DEF Stop, Drained, TypeOK
<1>8. ASSUME NEW w \in Workers PROVE ~ Evict(w) /\ ~ Crash(w)
  <2>1. "evict" \in FaultKinds /\ "crash" \in FaultKinds BY DEF FaultKinds
  <2> QED BY <2>1, FaultCounted DEF Evict, Crash
<1>9. ASSUME NEW w \in Workers,
             \/ UpdateRead(w) \/ UpdateSkipped(w) \/ UpdateWrite(w) \/ UpdateRaises(w)
             \/ Evaluate(w) \/ PublishEvent(w) \/ PublishRaises(w)
      PROVE  UNCHANGED <<committed, position, owner>>
  BY <1>9 DEF UpdateRead, UpdateSkipped, UpdateWrite, UpdateRaises, Updated, Evaluate,
              PublishEvent, PublishRaises, topicVars
<1>10. ASSUME Expire \/ UNCHANGED vars PROVE UNCHANGED <<committed, position, owner>>
  BY <1>10 DEF Expire, vars, topicVars
<1> QED BY <1>1, <1>2, <1>3, <1>4, <1>5, <1>6, <1>7, <1>8, <1>9, <1>10 DEF Next, Work, Idle

(* The topic only grows, and with every partition given up in order no
   message is handed out twice: what was handed out stays so. *)
LEMMA HandedOutKept ==
    ASSUME TypeOK, Drained, [Next]_vars,
           NEW j, NEW p \in Partitions, NEW i \in 1 .. Len(log[p]), HandedOut(j, p, i)
    PROVE  i \in 1 .. Len(log'[p]) /\ HandedOut(j, p, i)'
<1>1. i <= position[p] /\ log[p][i] = j BY DEF HandedOut
<1>2. position[p] \in Nat /\ log[p] \in Seq(Jobs) /\ Len(log[p]) \in Nat
  BY DEF TypeOK
<1>3. position'[p] \in Nat BY TypeInductive DEF TypeOK
<1>4. ASSUME i \in 1 .. Len(log'[p]), log'[p][i] = log[p][i], position'[p] >= position[p]
      PROVE  i \in 1 .. Len(log'[p]) /\ HandedOut(j, p, i)'
  BY <1>1, <1>2, <1>3, <1>4 DEF HandedOut
<1> DEFINE Goal == i \in 1 .. Len(log'[p]) /\ HandedOut(j, p, i)'
<1>5. ASSUME UNCHANGED <<log, position>> PROVE Goal
  BY <1>2, <1>4, <1>5
<1>6. ASSUME NEW x \in Jobs, Submit(x) PROVE Goal
  <2>1. CASE AppendRequest(x)
    <3>1. PICK q \in Partitions : log' = [log EXCEPT ![q] = Append(@, x)]
      BY <2>1 DEF AppendRequest
    <3>2. i \in 1 .. Len(log'[p]) /\ log'[p][i] = log[p][i]
      <4>1. CASE p = q
        <5>1. log'[p] = Append(log[p], x) BY <3>1, <4>1 DEF TypeOK
        <5> QED BY <1>2, <5>1
      <4>2. CASE p # q BY <3>1, <4>2 DEF TypeOK
      <4> QED BY <4>1, <4>2
    <3>3. position'[p] >= position[p] BY <1>2, <2>1 DEF AppendRequest
    <3> QED BY <1>4, <3>2, <3>3
  <2>2. CASE UNCHANGED topicVars
    BY <1>5, <2>2 DEF topicVars
  <2> QED BY <1>6, <2>1, <2>2 DEF Submit, Unavailable, CreateJob, Publish, PublishFails
<1>7. ASSUME NEW r \in Partitions, Assign(r) PROVE Goal
  <2>1. position'[p] = position[p]
    BY <1>7 DEF Assign, Drained, TypeOK
  <2>2. UNCHANGED log BY <1>7 DEF Assign
  <2> QED BY <1>2, <1>4, <2>1, <2>2
<1>8. ASSUME NEW w \in Workers, Poll(w) PROVE Goal
  <2>1. PICK q \in Partitions : position' = [position EXCEPT ![q] = @ + 1]
    BY <1>8 DEF Poll
  <2>2. position'[p] >= position[p] BY <1>2, <2>1 DEF TypeOK
  <2>3. UNCHANGED log BY <1>8 DEF Poll
  <2> QED BY <1>4, <2>2, <2>3
<1>9. ASSUME NEW w \in Workers,
             \/ UpdateRead(w) \/ UpdateSkipped(w) \/ UpdateWrite(w) \/ UpdateRaises(w)
             \/ Evaluate(w) \/ PublishEvent(w) \/ PublishRaises(w)
             \/ Stop(w) \/ Evict(w) \/ Crash(w)
      PROVE  UNCHANGED <<log, position>>
  BY <1>9 DEF UpdateRead, UpdateSkipped, UpdateWrite, UpdateRaises, Updated, Evaluate,
              PublishEvent, PublishRaises, Stop, Evict, Crash, topicVars
<1>10. ASSUME NEW r \in Partitions, AutoCommit(r) \/ Rebalance(r)
       PROVE  UNCHANGED <<log, position>>
  BY <1>10 DEF AutoCommit, Rebalance
<1>11. ASSUME Expire \/ UNCHANGED vars PROVE UNCHANGED <<log, position>>
  BY <1>11 DEF Expire, vars, topicVars
<1> QED BY <1>5, <1>6, <1>7, <1>8, <1>9, <1>10, <1>11 DEF Next, Work, Idle

(* What a pod polls was not handed out before. *)
LEMMA PolledIsNew ==
    ASSUME TypeOK, OnceLogged, NEW w \in Workers, Poll(w),
           NEW p \in Partitions, NEW i \in 1 .. Len(log[p]), HandedOut(cur'[w], p, i)
    PROVE  FALSE
<1>1. PICK q \in Partitions : /\ position[q] < Len(log[q])
                              /\ cur' = [cur EXCEPT ![w] = log[q][position[q] + 1]]
  BY DEF Poll
<1>2. position[q] \in Nat /\ Len(log[q]) \in Nat /\ position[q] + 1 \in 1 .. Len(log[q])
  BY <1>1 DEF TypeOK
<1>3. log[p][i] = log[q][position[q] + 1] /\ i <= position[p]
  BY <1>1 DEF TypeOK, HandedOut
<1>4. p = q /\ i = position[q] + 1 BY <1>2, <1>3 DEF OnceLogged
<1> QED BY <1>2, <1>3, <1>4

(* What a step may do to a document: nothing, drop it, create it, or write it
   for a pod whose job it is. *)
LEMMA StoreStep ==
    ASSUME TypeOK, [Next]_vars, NEW j \in Jobs
    PROVE  \/ store'[j] \in {store[j], Absent}
           \/ issued[j] = Absent
           \/ \E w \in Workers : phase[w] \in Updating /\ cur[w] = j
<1>1. ASSUME NEW i \in Jobs, Submit(i)
      PROVE  store'[j] = store[j] \/ issued[j] = Absent
  <2>1. ASSUME NEW type \in JobTypes, CreateJob(i, type)
        PROVE  store'[j] = store[j] \/ issued[j] = Absent
    BY <2>1 DEF CreateJob, create_job, SetKey, TypeOK, StoreTypeOK
  <2> QED BY <1>1, <2>1 DEF Submit, Unavailable, Publish, PublishFails, storeVars
<1>2. ASSUME NEW w \in Workers, UpdateWrite(w) \/ UpdateRaises(w)
      PROVE  store'[j] = store[j] \/ (phase[w] \in Updating /\ cur[w] = j)
  <2>1. \/ UNCHANGED store
        \/ store' = [store EXCEPT ![cur[w]] = Merge(snap[w], Patch[phase[w]])]
    BY <1>2 DEF UpdateWrite, UpdateRaises, UpdateSet, UpdateError, SetKey
  <2>2. phase[w] \in Updating BY <1>2 DEF UpdateWrite, UpdateRaises
  <2> QED BY <2>1, <2>2 DEF TypeOK, StoreTypeOK
<1>3. ASSUME NEW w \in Workers,
             \/ Poll(w) \/ UpdateRead(w) \/ UpdateSkipped(w) \/ Evaluate(w)
             \/ PublishEvent(w) \/ PublishRaises(w) \/ Stop(w) \/ Evict(w) \/ Crash(w)
      PROVE  UNCHANGED store
  BY <1>3 DEF Poll, UpdateRead, UpdateSkipped, UpdateGet, UpdateMissing, Evaluate,
              PublishEvent, PublishRaises, Stop, Evict, Crash, DropSnap, storeVars
<1>4. ASSUME NEW p \in Partitions, Assign(p) \/ AutoCommit(p) \/ Rebalance(p)
      PROVE  UNCHANGED store
  BY <1>4 DEF Assign, AutoCommit, Rebalance, storeVars
<1>5. ASSUME Expire PROVE store'[j] \in {store[j], Absent}
  BY <1>5 DEF Expire, Tick
<1>6. ASSUME UNCHANGED vars PROVE UNCHANGED store
  BY <1>6 DEF vars
<1> QED BY <1>1, <1>2, <1>3, <1>4, <1>5, <1>6 DEF Next, Work, Idle

(* A pod comes to report only through the update of its job. *)
LEMMA PhaseStep ==
    ASSUME TypeOK, [Next]_vars, NEW v \in Workers, phase'[v] \in Publishing
    PROVE  \/ phase'[v] = phase[v] /\ cur'[v] = cur[v]
           \/ UpdateSkipped(v) \/ UpdateWrite(v)
<1>1. ASSUME NEW j \in Jobs, Submit(j) PROVE UNCHANGED <<phase, cur>>
  BY <1>1 DEF Submit, Unavailable, CreateJob, Publish, PublishFails
<1>2. ASSUME NEW w \in Workers, Poll(w) PROVE phase'[v] = phase[v] /\ cur'[v] = cur[v]
  <2>1. PICK x : cur' = [cur EXCEPT ![w] = x] BY <1>2 DEF Poll
  <2>2. phase' = [phase EXCEPT ![w] = "start"] BY <1>2 DEF Poll
  <2> QED BY <2>1, <2>2 DEF TypeOK, Publishing
<1>3. ASSUME NEW w \in Workers, UpdateSkipped(w) \/ UpdateWrite(w), v # w
      PROVE  phase'[v] = phase[v] /\ cur'[v] = cur[v]
  BY <1>3 DEF UpdateSkipped, UpdateWrite, Updated, TypeOK
<1>4. ASSUME NEW w \in Workers, UpdateRaises(w) \/ PublishRaises(w)
      PROVE  phase'[v] = phase[v] /\ cur'[v] = cur[v]
  <2>1. /\ phase' = [phase EXCEPT ![w] = AfterError[phase[w]]] /\ UNCHANGED cur
        /\ phase[w] \in Updating \cup Publishing
    BY <1>4 DEF UpdateRaises, PublishRaises
  <2>2. AfterError[phase[w]] \notin Publishing
    BY <2>1 DEF Updating, Publishing, AfterError
  <2> QED BY <2>1, <2>2 DEF TypeOK
<1>5. ASSUME NEW w \in Workers, Evaluate(w) PROVE phase'[v] = phase[v] /\ cur'[v] = cur[v]
  <2>1. PICK next \in {"done", "fail"} : phase' = [phase EXCEPT ![w] = next]
    BY <1>5 DEF Evaluate
  <2> QED BY <1>5, <2>1 DEF Evaluate, TypeOK, Publishing
<1>6. ASSUME NEW w \in Workers, PublishEvent(w) \/ Stop(w) \/ Crash(w)
      PROVE  phase'[v] = phase[v] /\ cur'[v] = cur[v]
  <2>1. phase' = [phase EXCEPT ![w] = "idle"] /\ cur' = [cur EXCEPT ![w] = NoJob]
    BY <1>6 DEF PublishEvent, Stop, Crash
  <2> QED BY <2>1 DEF TypeOK, Publishing
<1>7. ASSUME NEW w \in Workers, UpdateRead(w) \/ Evict(w) PROVE UNCHANGED <<phase, cur>>
  BY <1>7 DEF UpdateRead, Evict
<1>8. ASSUME NEW p \in Partitions, Assign(p) \/ AutoCommit(p) \/ Rebalance(p)
      PROVE  UNCHANGED <<phase, cur>>
  BY <1>8 DEF Assign, AutoCommit, Rebalance
<1>9. ASSUME Expire \/ UNCHANGED vars PROVE UNCHANGED <<phase, cur>>
  BY <1>9 DEF Expire, vars
<1> QED BY <1>1, <1>2, <1>3, <1>4, <1>5, <1>6, <1>7, <1>8, <1>9 DEF Next, Work, Idle

(* A reported job stays settled: nobody will write its document again. *)
LEMMA SettledKept ==
    ASSUME ResultInv, Undisturbed, Drained, Settled, [Next]_vars, NEW e \in events
    PROVE  /\ Agree(e[2], e[1])'
           /\ \A w \in Workers : cur'[w] # e[2]
           /\ \E p \in Partitions : \E i \in 1 .. Len(log'[p]) : HandedOut(e[2], p, i)'
<1>0. TypeOK /\ OnceLogged BY DEF ResultInv, CoherenceInv
<1>1. PICK j \in Jobs : j = e[2] BY <1>0 DEF TypeOK
<1>2. PICK s : s = e[1] OBVIOUS
<1>3. Agree(j, s) /\ \A w \in Workers : cur[w] # j BY <1>1, <1>2 DEF Settled
<1>4. PICK p \in Partitions : \E i \in 1 .. Len(log[p]) : HandedOut(j, p, i)
  BY <1>1 DEF Settled
<1>5. PICK i \in 1 .. Len(log[p]) : HandedOut(j, p, i) BY <1>4
<1>6. i \in 1 .. Len(log'[p]) /\ HandedOut(j, p, i)' BY <1>0, <1>5, HandedOutKept
<1>7. Agree(j, s)'
  <2>1. issued[j] # Absent BY <1>1 DEF ResultInv, EventsIssued
  <2>2. store'[j] \in {store[j], Absent} BY <1>0, <1>3, <2>1, StoreStep
  <2> QED BY <1>3, <2>2 DEF Agree
<1>8. ASSUME NEW w \in Workers PROVE cur'[w] # j
  <2>1. CASE Poll(w) BY <1>0, <1>5, <2>1, PolledIsNew
  <2>2. CASE cur'[w] = cur[w] BY <1>3, <2>2
  <2>3. CASE cur'[w] = NoJob BY <2>3, KafkaAssumption
  <2> QED BY <1>0, <2>1, <2>2, <2>3, CurStep
<1> QED BY <1>1, <1>2, <1>6, <1>7, <1>8

(* Every event that goes out settles its job. *)
LEMMA SettledInductive ==
    ASSUME ResultInv, Undisturbed, Drained, Settled, WroteFirst, [Next]_vars, Undisturbed'
    PROVE  Settled'
<1>0. TypeOK BY DEF ResultInv, CoherenceInv
<1> SUFFICES ASSUME NEW e \in events'
             PROVE  /\ Agree(e[2], e[1])'
                    /\ \A w \in Workers : cur'[w] # e[2]
                    /\ \E p \in Partitions :
                          \E i \in 1 .. Len(log'[p]) : HandedOut(e[2], p, i)'
  BY DEF Settled
<1>1. CASE e \in events BY <1>1, SettledKept
<1>2. CASE e \notin events
  <2>1. PICK w \in Workers : /\ phase[w] \in Publishing /\ Emit(w)
                             /\ PublishEvent(w) \/ PublishRaises(w)
    BY <1>0, <1>2, EventStep
  <2>2. PublishEvent(w)
    <3>1. "publish" \in FaultKinds BY DEF FaultKinds
    <3> QED BY <1>0, <2>1, <3>1, FaultCounted DEF PublishRaises, Undisturbed
  <2>3. PICK j \in Jobs : j = cur[w] BY <1>0, <2>1 DEF TypeOK, Publishing
  <2>4. PICK s : s = EventOf[phase[w]] OBVIOUS
  <2>5. e[2] = j /\ e[1] = s BY <1>2, <2>1, <2>3, <2>4 DEF Emit
  <2>6. /\ UNCHANGED <<store, log, position>> /\ cur'[w] = NoJob
        /\ \A v \in Workers : v # w => cur'[v] = cur[v]
    BY <1>0, <2>2 DEF PublishEvent, storeVars, topicVars, TypeOK
  <2>7. Placed /\ Alone BY DEF ResultInv, HandledOnce, Undisturbed
  <2>8. Agree(j, s)'
    <3>1. Agree(j, s) BY <2>1, <2>3, <2>4 DEF WroteFirst
    <3> QED BY <2>6, <3>1 DEF Agree
  <2>9. \A v \in Workers : cur'[v] # j
    BY <2>3, <2>6, <2>7, KafkaAssumption DEF Alone
  <2>10. PICK p \in Partitions : \E i \in 1 .. Len(log[p]) : Handles(w, p, i)
    BY <2>3, <2>7, KafkaAssumption DEF Placed
  <2>11. PICK i \in 1 .. Len(log[p]) : Handles(w, p, i) BY <2>10
  <2>12. i \in 1 .. Len(log'[p]) /\ HandedOut(j, p, i)'
    BY <2>3, <2>6, <2>11 DEF Handles, HandedOut
  <2> QED BY <2>5, <2>8, <2>9, <2>12
<1> QED BY <1>1, <1>2

(* A pod that is about to report still finds the status it wrote: no other
   pod writes the document of its job. *)
LEMMA WroteFirstInductive ==
    ASSUME ResultInv, Undisturbed, WroteFirst, [Next]_vars
    PROVE  WroteFirst'
<1>0. TypeOK /\ TypeOK' /\ CoherenceInv BY TypeInductive DEF ResultInv, CoherenceInv
<1>1. Alone BY DEF ResultInv, HandledOnce, Undisturbed
<1> SUFFICES ASSUME NEW v \in Workers, phase'[v] \in Publishing
             PROVE  store'[cur'[v]] = Absent
                      \/ store'[cur'[v]].status = EventOf[phase'[v]]
  BY DEF WroteFirst, Agree
<1>2. CASE phase'[v] = phase[v] /\ cur'[v] = cur[v]
  <2>1. cur[v] \in Jobs BY <1>0, <1>2 DEF TypeOK, Publishing
  <2>2. issued[cur[v]] # Absent
    BY <1>0, <2>1, KafkaAssumption DEF CoherenceInv, IssuedFirst
  <2>3. \A w \in Workers : phase[w] \in Updating => cur[w] # cur[v]
    BY <1>1, <1>2, <2>1, KafkaAssumption DEF Alone, Updating, Publishing
  <2>4. store'[cur[v]] \in {store[cur[v]], Absent} BY <1>0, <2>1, <2>2, <2>3, StoreStep
  <2> QED BY <1>2, <2>4 DEF WroteFirst, Agree
<1>3. CASE UpdateSkipped(v)
  BY <1>3 DEF UpdateSkipped, UpdateMissing, Updated, get_job, storeVars
<1>4. CASE UpdateWrite(v)
  <2>1. /\ phase[v] \in Updating /\ UNCHANGED cur
        /\ store' = [store EXCEPT ![cur[v]] = Merge(snap[v], Patch[phase[v]])]
        /\ phase'[v] = AfterUpdate[phase[v]]
    BY <1>0, <1>4 DEF UpdateWrite, UpdateSet, SetKey, Updated, TypeOK
  <2>2. cur[v] \in Jobs BY <1>0, <2>1 DEF TypeOK, Updating
  <2>3. store'[cur[v]].status = Patch[phase[v]].status
    BY <1>0, <2>1, <2>2 DEF Merge, TypeOK, StoreTypeOK
  <2>4. Patch[phase[v]].status = EventOf[phase'[v]]
    BY <2>1 DEF Updating, Publishing, AfterUpdate, Patch, EventOf
  <2> QED BY <2>1, <2>3, <2>4
<1> QED BY <1>0, <1>2, <1>3, <1>4, PhaseStep

(* The strengthened invariant is inductive. *)
LEMMA ReportInductive == ReportInv /\ [Next]_vars => ReportInv'
<1> SUFFICES ASSUME ReportInv, [Next]_vars PROVE ReportInv'
  OBVIOUS
<1>1. ResultInv /\ ResultInv' BY ResultInductive DEF ReportInv
<1>2. TypeOK BY <1>1 DEF ResultInv, CoherenceInv
<1>3. ASSUME Undisturbed' PROVE Undisturbed
  <2>1. {"crash", "evict", "publish"} \subseteq FaultKinds BY DEF FaultKinds
  <2>2. \A kind \in FaultKinds : faults[kind] \in Nat BY <1>2 DEF TypeOK
  <2> QED BY <1>2, <1>3, <2>1, <2>2, FaultsGrow DEF Undisturbed
<1>4. ASSUME Undisturbed' PROVE Drained' /\ Settled' /\ WroteFirst'
  <2>1. Undisturbed /\ Drained /\ Settled /\ WroteFirst BY <1>3, <1>4 DEF ReportInv
  <2>2. Drained' BY <1>2, <1>4, <2>1, DrainedInductive DEF Undisturbed
  <2>3. Settled' BY <1>1, <1>4, <2>1, SettledInductive
  <2>4. WroteFirst' BY <1>1, <2>1, WroteFirstInductive
  <2> QED BY <2>2, <2>3, <2>4
<1> QED BY <1>1, <1>4 DEF ReportInv

(* Until a pod is killed or evicted, or a publish of its own raises, every
   event that is out says what the store says: also across Redis errors that
   make a pod exit and restart, and partitions that move while a message is
   handled. *)
THEOREM EventsAgreeWithStore == Spec => []EventsAgree
<1>1. Init => ReportInv
  <2> SUFFICES ASSUME Init PROVE ReportInv OBVIOUS
  <2>1. ResultInv BY ResultInitially
  <2> QED BY <2>1 DEF Init, ReportInv, Drained, Settled, WroteFirst, Publishing
<1>2. ReportInv => EventsAgree
  <2> SUFFICES ASSUME ReportInv, faults["crash"] + faults["evict"] + faults["publish"] = 0,
                      NEW e \in events
               PROVE  Agree(e[2], e[1])
    BY DEF EventsAgree
  <2>1. TypeOK BY DEF ReportInv, ResultInv, CoherenceInv
  <2>2. faults["crash"] \in Nat /\ faults["evict"] \in Nat /\ faults["publish"] \in Nat
    BY <2>1 DEF TypeOK, FaultKinds
  <2>3. Undisturbed BY <2>2 DEF Undisturbed
  <2> QED BY <2>3 DEF ReportInv, Settled
<1> QED BY <1>1, <1>2, ReportInductive, PTL DEF Spec

=============================================================================
