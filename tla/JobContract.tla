---------------------------- MODULE JobContract -----------------------------
(***************************************************************************)
(* What polling GET /jobs/{job_id} promises to a client, whichever tier    *)
(* runs the job (app/schemas/job.py, app/api/v1/jobs_router.py,            *)
(* app/api/v2/jobs_router.py).  The state is what a poller would read for  *)
(* each job and which job ids were ever handed out; nothing is said of     *)
(* queues, retries or workers.                                             *)
(*                                                                         *)
(* Both tiers keep the contract under every fault they model:              *)
(*   - a job id is pending once, when it is created, and never again;      *)
(*   - a job that was never started is never reported as ended;            *)
(*   - each status comes with the fields that belong to it;                *)
(*   - the type of a job never changes.                                    *)
(* What they do not promise is also visible here: Start may follow an      *)
(* ended job (a retry or a duplicate delivery), and Start and End may      *)
(* bring back a document that had expired (update_job writes back what it  *)
(* read).                                                                  *)
(***************************************************************************)
CONSTANTS Jobs, Types, Fields, NoJob

VARIABLES
    view,       \* the document a poller reads, or NoJob for a 404
    type        \* the type each issued job was created with (NoJob: not issued)

contractVars == <<view, type>>

Document(t, status, filled) == [job_type |-> t, status |-> status, filled |-> filled]

Init ==
    /\ view = [j \in Jobs |-> NoJob]
    /\ type = [j \in Jobs |-> NoJob]

Create(j) ==
    /\ type[j] = NoJob
    /\ \E t \in Types :
          /\ type' = [type EXCEPT ![j] = t]
          /\ view' = [view EXCEPT ![j] = Document(t, "pending", {})]

Report(j, status, needed) ==
    /\ \E filled \in SUBSET Fields :
          /\ needed \subseteq filled
          /\ view' = [view EXCEPT ![j] = Document(type[j], status, filled)]
    /\ UNCHANGED type

Start(j) ==
    /\ type[j] # NoJob
    /\ Report(j, "running", {"started_at"})

End(j) ==
    /\ type[j] # NoJob
    /\ view[j] # NoJob => view[j].status # "pending"
    /\ \/ Report(j, "completed", {"started_at", "completed_at", "result"})
       \/ Report(j, "failed", {"started_at", "completed_at", "error"})

Expire ==
    /\ \E E \in SUBSET Jobs :
          view' = [j \in Jobs |-> IF j \in E THEN NoJob ELSE view[j]]
    /\ UNCHANGED type

Next == (\E j \in Jobs : Create(j) \/ Start(j) \/ End(j)) \/ Expire

Spec == Init /\ [][Next]_contractVars

=============================================================================
