--------------------------- MODULE RequestsProofs ---------------------------
(***************************************************************************)
(* Proofs about one API process, for any methods and tenants: what its     *)
(* lifespan leaves open, and what every response carries.                  *)
(***************************************************************************)
EXTENDS Requests, TLAPS

-----------------------------------------------------------------------------
(* Lifespan. *)

(* What is open, and what has raised, in each phase. *)
LifeInv ==
    /\ publisher \in BOOLEAN
    /\ phase = "boot" => pool = "none" /\ producer = "none" /\ ~publisher /\ raised = {}
    /\ phase \in {"redis_ready", "kafka_new"} =>
          pool = "open" /\ producer = "none" /\ ~publisher /\ raised = {}
    /\ phase = "serving" => /\ pool = "open" /\ raised = {}
                            /\ IF publisher THEN producer = "started" ELSE producer = "none"
    /\ phase = "redis_closed" => pool = "none" /\ producer = "started" /\ publisher /\ raised = {}
    /\ ReleasedUnlessRaised

(* A request leaves the resources alone. *)
LEMMA RequestKeepsLife ==
    ASSUME \/ \E r \in Request : Receive(r)
           \/ Middleware \/ Endpoint \/ Send
    PROVE  UNCHANGED lifeVars
<1>1. ASSUME NEW s, CallNext(s) PROVE UNCHANGED lifeVars
  BY <1>1 DEF CallNext
<1>2. ASSUME NEW r, Return(r) PROVE UNCHANGED lifeVars
  BY <1>2 DEF Return
<1>3. CASE Middleware
  BY <1>1, <1>2, <1>3
     DEF Middleware, CorrelationIdMiddleware, RequestIdMiddleware, AuthMiddleware,
         TenantMiddleware, LatencyTrackingMiddleware, AuditMiddleware, ErrorMiddleware,
         CorrelationTracingMiddleware, LoggingContextMiddleware, CORSMiddleware,
         ExceptionHandlers, PassOut, PassException
<1>4. CASE \/ \E r \in Request : Receive(r)
           \/ Endpoint \/ Send
  BY <1>4 DEF Receive, Endpoint, Send
<1> QED BY <1>3, <1>4

(* lifespan: what stays open when the process has stopped or failed to start
   is exactly what a raising step kept it from closing. *)
THEOREM LifespanReleases == Spec => []ReleasedUnlessRaised
<1>1. Init => LifeInv
  BY DEF Init, LifeInv, ReleasedUnlessRaised
<1>2. ASSUME LifeInv, [Next]_vars
      PROVE  LifeInv'
  <2>1. CASE init_redis_pool
    BY <1>2, <2>1 DEF init_redis_pool, FailStartup, LifeInv, ReleasedUnlessRaised
  <2>2. CASE KafkaDisabled
    BY <1>2, <2>2 DEF KafkaDisabled, LifeInv, ReleasedUnlessRaised
  <2>3. CASE KafkaPublisher
    BY <1>2, <2>3 DEF KafkaPublisher, FailStartup, LifeInv, ReleasedUnlessRaised
  <2>4. CASE StartKafka
    BY <1>2, <2>4 DEF StartKafka, FailStartup, LifeInv, ReleasedUnlessRaised
  <2>5. CASE close_redis_pool
    BY <1>2, <2>5 DEF close_redis_pool, LifeInv, ReleasedUnlessRaised
  <2>6. CASE StopKafka
    BY <1>2, <2>6 DEF StopKafka, LifeInv, ReleasedUnlessRaised
  <2>7. CASE UNCHANGED lifeVars
    BY <1>2, <2>7 DEF lifeVars, LifeInv, ReleasedUnlessRaised
  <2>8. CASE (\E r \in Request : Receive(r)) \/ Middleware \/ Endpoint \/ Send
    BY <2>7, <2>8, RequestKeepsLife
  <2>9. CASE Terminated \/ UNCHANGED vars
    BY <2>7, <2>9 DEF Terminated, vars
  <2> QED BY <1>2, <2>1, <2>2, <2>3, <2>4, <2>5, <2>6, <2>8, <2>9 DEF Next
<1>3. LifeInv => ReleasedUnlessRaised
  BY DEF LifeInv
<1> QED BY <1>1, <1>2, <1>3, PTL DEF Spec

-----------------------------------------------------------------------------
(* The way of a request. *)

(* What a request ends up with. *)
Cid == OrElse(req.cid, "new_cid")
Rid == OrElse(req.rid, "new_rid")
Tid == OrElse(req.tenant, DefaultTenant)
Audited == ~req.exempt /\ req.method \in AUDIT_METHODS
Record == [rid |-> Rid, cid |-> Cid, user |-> state.user]

(* request.state holds what the layers entered so far have put there. *)
StateInv ==
    /\ req \in Request
    /\ DOMAIN state = {"rid", "cid", "user", "tenant"} /\ state.user \in {"sub", None}
    /\ way # "in" \/ depth >= 1 => state.cid = Cid
    /\ way # "in" \/ depth >= 2 => state.rid = Rid
    /\ (way # "in" \/ depth >= 4) /\ ~req.exempt => state.tenant = Tid
    /\ ~req.exempt => served \in {None, Tid}

(* The response carries what the layers left so far have written. *)
ResponseInv ==
    way \in {"out", "sent"} =>
        /\ DOMAIN resp = {"status", "rid", "cid", "tenant", "timed"}
        /\ depth < 5 => resp.timed
        /\ depth < 4 /\ ~req.exempt => resp.tenant = Tid
        /\ depth < 2 => resp.rid = Rid
        /\ depth < 1 => resp.cid = Cid

(* The audit record is taken at the sixth layer and logged when it is left. *)
AuditInv ==
    /\ way # "in" \/ depth >= 6 => pending = IF Audited THEN Record ELSE None
    /\ way \in {"in", "raise"} \/ depth >= 6 => audit = << >>
    /\ way \in {"out", "sent"} /\ depth < 6 =>
          audit = IF Audited THEN <<[record |-> Record, status |-> resp.status]>> ELSE << >>

WayInv ==
    /\ depth \in 0 .. 11
    /\ way \in {"in", "out", "raise", "sent"}
    /\ way = "raise" => depth >= 7
    /\ way = "sent" => depth = 0

ReqInv == WayInv /\ (req = None => way = "sent")
                 /\ (req # None => StateInv /\ ResponseInv /\ AuditInv)

(* Where a layer is in the stack. *)
LEMMA StackFacts ==
    /\ Len(Stack) = 11
    /\ \A i \in 1 .. 11 :
          /\ Stack[i] = "correlation_id" <=> i = 1
          /\ Stack[i] = "request_id" <=> i = 2
          /\ Stack[i] = "auth" <=> i = 3
          /\ Stack[i] = "tenant" <=> i = 4
          /\ Stack[i] = "latency" <=> i = 5
          /\ Stack[i] = "audit" <=> i = 6
          /\ Stack[i] = "error" <=> i = 7
          /\ Stack[i] = "tracing" <=> i = 8
          /\ Stack[i] = "logging" <=> i = 9
          /\ Stack[i] = "cors" <=> i = 10
          /\ Stack[i] = "exceptions" <=> i = 11
BY DEF Stack

(* A layer on the way in that changes only request.state. *)
LEMMA EnterInv ==
    ASSUME ReqInv, way = "in", depth < 11, NEW s, CallNext(s),
           DOMAIN s = {"rid", "cid", "user", "tenant"}, s.user \in {"sub", None},
           s.cid = IF depth = 0 THEN Cid ELSE state.cid,
           s.rid = IF depth = 1 THEN Rid ELSE state.rid,
           ~req.exempt => s.tenant = IF depth = 3 THEN Tid ELSE state.tenant,
           depth # 5, depth >= 6 => s.user = state.user
    PROVE  ReqInv'
<1>1. /\ state' = s /\ depth' = depth + 1 /\ way' = "in"
      /\ UNCHANGED <<req, resp, served, pending, audit>>
  BY DEF CallNext
<1>2. req # None /\ depth \in 0 .. 10 /\ depth' \in 1 .. 11
  BY <1>1 DEF ReqInv, WayInv
<1>3. Cid' = Cid /\ Rid' = Rid /\ Tid' = Tid /\ (Audited' <=> Audited)
  BY <1>1 DEF Cid, Rid, Tid, Audited
<1>4. depth >= 6 => Record' = Record
  BY <1>1, <1>3 DEF Record
<1>5. StateInv'
  BY <1>1, <1>2, <1>3 DEF ReqInv, StateInv
<1>6. AuditInv'
  BY <1>1, <1>2, <1>3, <1>4 DEF ReqInv, AuditInv
<1>7. WayInv' /\ ResponseInv'
  BY <1>1, <1>2 DEF WayInv, ResponseInv
<1> QED BY <1>1, <1>2, <1>5, <1>6, <1>7 DEF ReqInv

(* A layer on the way out. *)
LEMMA LeaveInv ==
    ASSUME ReqInv, way = "out", depth > 0, NEW r, Return(r), depth # 6,
           DOMAIN r = {"status", "rid", "cid", "tenant", "timed"},
           r.status = resp.status,
           depth = 5 => r.timed, depth < 5 => r.timed = resp.timed,
           ~req.exempt => /\ depth = 4 => r.tenant = Tid
                          /\ depth < 4 => r.tenant = resp.tenant,
           depth = 2 => r.rid = Rid, depth < 2 => r.rid = resp.rid,
           depth = 1 => r.cid = Cid
    PROVE  ReqInv'
<1>1. /\ resp' = r /\ depth' = depth - 1 /\ way' = "out"
      /\ UNCHANGED <<req, state, served, pending, audit>>
  BY DEF Return
<1>2. req # None /\ depth \in 1 .. 11 /\ depth' \in 0 .. 10
  BY <1>1 DEF ReqInv, WayInv
<1>3. Cid' = Cid /\ Rid' = Rid /\ Tid' = Tid /\ (Audited' <=> Audited) /\ Record' = Record
  BY <1>1 DEF Cid, Rid, Tid, Audited, Record
<1>4. StateInv'
  BY <1>1, <1>2, <1>3 DEF ReqInv, StateInv
<1>5. ResponseInv'
  BY <1>1, <1>2, <1>3 DEF ReqInv, ResponseInv
<1>6. AuditInv'
  BY <1>1, <1>2, <1>3 DEF ReqInv, AuditInv
<1>7. WayInv'
  BY <1>1, <1>2 DEF WayInv
<1> QED BY <1>1, <1>2, <1>4, <1>5, <1>6, <1>7 DEF ReqInv

(* A response is made inside the audit layer. *)
LEMMA AnswerInv ==
    ASSUME ReqInv, way \in {"in", "raise"}, depth \in 7 .. 11, depth' \in 6 .. 11,
           way' = "out", UNCHANGED <<req, state, pending, audit>>,
           ~req.exempt => served' \in {None, Tid},
           DOMAIN resp' = {"status", "rid", "cid", "tenant", "timed"}
    PROVE  ReqInv'
<1>1. req # None
  BY DEF ReqInv
<1>2. Cid' = Cid /\ Rid' = Rid /\ Tid' = Tid /\ (Audited' <=> Audited) /\ Record' = Record
  BY DEF Cid, Rid, Tid, Audited, Record
<1>3. StateInv'
  BY <1>1, <1>2 DEF ReqInv, StateInv
<1>4. ResponseInv' /\ WayInv'
  BY <1>1, <1>2 DEF ReqInv, ResponseInv, WayInv
<1>5. AuditInv'
  BY <1>1, <1>2 DEF ReqInv, AuditInv
<1> QED BY <1>1, <1>3, <1>4, <1>5 DEF ReqInv

(* An exception is raised or passes a layer inside the error layer. *)
LEMMA RaiseInv ==
    ASSUME ReqInv, way \in {"in", "raise"}, depth \in 8 .. 11, depth' \in 7 .. 11,
           way' = "raise", UNCHANGED <<req, state, resp, served, pending, audit>>
    PROVE  ReqInv'
<1>1. req # None
  BY DEF ReqInv
<1>2. Cid' = Cid /\ Rid' = Rid /\ Tid' = Tid /\ (Audited' <=> Audited) /\ Record' = Record
  BY DEF Cid, Rid, Tid, Audited, Record
<1>3. StateInv'
  BY <1>1, <1>2 DEF ReqInv, StateInv
<1>4. ResponseInv' /\ WayInv'
  BY <1>1, <1>2 DEF ReqInv, ResponseInv, WayInv
<1>5. AuditInv'
  BY <1>1, <1>2 DEF ReqInv, AuditInv
<1> QED BY <1>1, <1>3, <1>4, <1>5 DEF ReqInv

(* Which layer a request is at. *)
LEMMA Place ==
    ASSUME WayInv
    PROVE  /\ \A layer : Entering(layer) => way = "in" /\ depth \in 0 .. 10 /\ Stack[depth + 1] = layer
           /\ \A layer : Leaving(layer) => way = "out" /\ depth \in 1 .. 11 /\ Stack[depth] = layer
BY StackFacts DEF WayInv, Entering, Leaving

(* The layers on the way in. *)
LEMMA LayersIn ==
    ASSUME ReqInv, Middleware, way = "in",
           ~AuditMiddleware, ~(CORSMiddleware /\ req.preflight)
    PROVE  ReqInv'
<1>1. WayInv /\ req # None
  BY DEF ReqInv
<1>2. StateInv
  BY <1>1 DEF ReqInv
<1>3. DOMAIN state = {"rid", "cid", "user", "tenant"} /\ state.user \in {"sub", None}
  BY <1>2 DEF StateInv
<1>4. CASE CorrelationIdMiddleware
  <2>1. depth = 0 /\ CallNext([state EXCEPT !.cid = Cid])
    BY <1>1, <1>4, Place, StackFacts DEF CorrelationIdMiddleware, Cid
  <2> QED BY <1>3, <2>1, EnterInv
<1>5. CASE RequestIdMiddleware
  <2>1. depth = 1 /\ CallNext([state EXCEPT !.rid = Rid])
    BY <1>1, <1>5, Place, StackFacts DEF RequestIdMiddleware, Rid
  <2> QED BY <1>3, <2>1, EnterInv
<1>6. CASE AuthMiddleware
  <2>1. depth = 2 /\ (CallNext([state EXCEPT !.user = "sub"]) \/ CallNext(state))
    BY <1>1, <1>6, Place, StackFacts DEF AuthMiddleware
  <2>2. CASE CallNext([state EXCEPT !.user = "sub"])
    BY <1>3, <2>1, <2>2, EnterInv
  <2>3. CASE CallNext(state)
    BY <1>3, <2>1, <2>3, EnterInv
  <2> QED BY <2>1, <2>2, <2>3
<1>7. CASE TenantMiddleware
  <2>1. depth = 3
    BY <1>1, <1>7, Place, StackFacts DEF TenantMiddleware
  <2>2. CASE req.exempt
    <3>1. CallNext(state)
      BY <1>1, <1>7, <2>2, Place DEF TenantMiddleware
    <3> QED BY <1>3, <2>1, <2>2, <3>1, EnterInv
  <2>3. CASE ~req.exempt
    <3>1. CallNext([state EXCEPT !.tenant = Tid])
      BY <1>1, <1>7, <2>3, Place DEF TenantMiddleware, Tid
    <3> QED BY <1>3, <2>1, <3>1, EnterInv
  <2> QED BY <2>2, <2>3
<1>8. CASE \/ LatencyTrackingMiddleware \/ ErrorMiddleware \/ CorrelationTracingMiddleware
           \/ LoggingContextMiddleware \/ CORSMiddleware \/ ExceptionHandlers
  <2>1. depth \in {4, 6, 7, 8, 9, 10} /\ CallNext(state)
    BY <1>1, <1>8, Place, StackFacts
       DEF LatencyTrackingMiddleware, ErrorMiddleware, CorrelationTracingMiddleware,
           LoggingContextMiddleware, CORSMiddleware, ExceptionHandlers
  <2> QED BY <1>3, <2>1, EnterInv
<1>9. ~PassOut /\ ~PassException
  BY <1>1, Place DEF PassOut, PassException
<1> QED BY <1>4, <1>5, <1>6, <1>7, <1>8, <1>9 DEF Middleware

(* The layers on the way out. *)
LEMMA LayersOut ==
    ASSUME ReqInv, Middleware, way = "out", ~AuditMiddleware
    PROVE  ReqInv'
<1>1. WayInv /\ req # None
  BY DEF ReqInv
<1>2. StateInv /\ ResponseInv
  BY <1>1 DEF ReqInv
<1>3. /\ DOMAIN resp = {"status", "rid", "cid", "tenant", "timed"}
      /\ state.cid = Cid /\ state.rid = Rid /\ (~req.exempt => state.tenant = Tid)
  BY <1>2 DEF StateInv, ResponseInv
<1>4. CASE CorrelationIdMiddleware
  <2>1. depth = 1 /\ Return([resp EXCEPT !.cid = Cid])
    BY <1>1, <1>3, <1>4, Place, StackFacts DEF CorrelationIdMiddleware
  <2> QED BY <1>3, <2>1, LeaveInv
<1>5. CASE RequestIdMiddleware
  <2>1. depth = 2 /\ Return([resp EXCEPT !.rid = Rid])
    BY <1>1, <1>3, <1>5, Place, StackFacts DEF RequestIdMiddleware
  <2> QED BY <1>3, <2>1, LeaveInv
<1>6. CASE TenantMiddleware
  <2>1. depth = 4
    BY <1>1, <1>6, Place, StackFacts DEF TenantMiddleware
  <2>2. CASE req.exempt
    <3>1. Return(resp)
      BY <1>1, <1>6, <2>2, Place DEF TenantMiddleware
    <3> QED BY <1>3, <2>1, <2>2, <3>1, LeaveInv
  <2>3. CASE ~req.exempt
    <3>1. Return([resp EXCEPT !.tenant = Tid])
      BY <1>1, <1>3, <1>6, <2>3, Place DEF TenantMiddleware
    <3> QED BY <1>3, <2>1, <3>1, LeaveInv
  <2> QED BY <2>2, <2>3
<1>7. CASE LatencyTrackingMiddleware
  <2>1. depth = 5 /\ Return([resp EXCEPT !.timed = TRUE])
    BY <1>1, <1>7, Place, StackFacts DEF LatencyTrackingMiddleware
  <2> QED BY <1>3, <2>1, LeaveInv
<1>8. CASE LoggingContextMiddleware
  <2>1. depth = 9
    BY <1>1, <1>8, Place, StackFacts DEF LoggingContextMiddleware
  <2>2. PICK r : /\ Return(r)
                 /\ r \in {[resp EXCEPT !.timed = TRUE],
                           [resp EXCEPT !.rid = state.cid, !.cid = state.cid, !.timed = TRUE]}
    BY <1>1, <1>8, Place DEF LoggingContextMiddleware
  <2>3. DOMAIN r = {"status", "rid", "cid", "tenant", "timed"} /\ r.status = resp.status
    BY <1>3, <2>2
  <2> QED BY <2>1, <2>2, <2>3, LeaveInv
<1>9. CASE ExceptionHandlers \/ PassOut
  <2>1. depth \in {3, 7, 8, 10, 11} /\ Return(resp)
    BY <1>1, <1>9, Place, StackFacts DEF ExceptionHandlers, PassOut
  <2>2. depth = 3 => resp.timed
    BY <1>2, <2>1 DEF ResponseInv
  <2> QED BY <1>3, <2>1, LeaveInv
<1>10. ~AuthMiddleware /\ ~ErrorMiddleware /\ ~CorrelationTracingMiddleware
       /\ ~CORSMiddleware /\ ~PassException
  BY <1>1, Place DEF AuthMiddleware, ErrorMiddleware, CorrelationTracingMiddleware,
                     CORSMiddleware, PassException
<1> QED BY <1>4, <1>5, <1>6, <1>7, <1>8, <1>9, <1>10 DEF Middleware

(* The audit layer. *)
LEMMA AuditStep ==
    ASSUME ReqInv, AuditMiddleware
    PROVE  ReqInv'
<1>1. WayInv /\ req # None /\ way \in {"in", "out"}
  BY Place DEF ReqInv, AuditMiddleware, Entering, Leaving
<1>2. StateInv /\ ResponseInv /\ AuditInv
  BY <1>1 DEF ReqInv
<1>3. UNCHANGED <<req, way, state, resp, served>>
  BY DEF AuditMiddleware
<1>4. Cid' = Cid /\ Rid' = Rid /\ Tid' = Tid /\ (Audited' <=> Audited) /\ Record' = Record
  BY <1>3 DEF Cid, Rid, Tid, Audited, Record
<1>5. CASE way = "in"
  <2>1. depth = 5 /\ depth' = 6 /\ audit' = audit
        /\ pending' = IF Audited THEN [rid |-> state.rid, cid |-> state.cid, user |-> state.user]
                                 ELSE None
    BY <1>1, <1>5, Place, StackFacts DEF AuditMiddleware, Audited
  <2>2. state.rid = Rid /\ state.cid = Cid
    BY <1>2, <2>1 DEF StateInv
  <2>3. AuditInv'
    BY <1>2, <1>3, <1>4, <1>5, <2>1, <2>2 DEF AuditInv, Record
  <2>4. StateInv' /\ ResponseInv' /\ WayInv'
    BY <1>2, <1>3, <1>4, <1>5, <2>1 DEF StateInv, ResponseInv, WayInv
  <2> QED BY <1>1, <1>3, <2>3, <2>4 DEF ReqInv
<1>6. CASE way = "out"
  <2>1. depth = 6 /\ depth' = 5 /\ pending' = pending
        /\ audit' = IF pending = None THEN audit
                    ELSE Append(audit, [record |-> pending, status |-> resp.status])
    BY <1>1, <1>6, Place, StackFacts DEF AuditMiddleware
  <2>2. audit = << >> /\ pending = IF Audited THEN Record ELSE None
    BY <1>2, <1>6, <2>1 DEF AuditInv
  <2>3. Record # None
    <3>1. Rid \in {"client_rid", "new_rid"} /\ Cid \in {"client_cid", "new_cid"}
          /\ state.user \in {"sub", None}
      BY <1>2 DEF StateInv, Request, Rid, Cid, OrElse
    <3>2. Record \in AuditRecord
      BY <3>1 DEF Record, AuditRecord
    <3> QED BY <3>2, RequestAssumption
  <2>4. audit' = IF Audited THEN <<[record |-> Record, status |-> resp.status]>> ELSE << >>
    BY <2>1, <2>2, <2>3
  <2>5. AuditInv'
    BY <1>2, <1>3, <1>4, <1>6, <2>1, <2>2, <2>4 DEF AuditInv
  <2>6. StateInv' /\ ResponseInv' /\ WayInv'
    BY <1>2, <1>3, <1>4, <1>6, <2>1 DEF StateInv, ResponseInv, WayInv
  <2> QED BY <1>1, <1>3, <2>5, <2>6 DEF ReqInv
<1> QED BY <1>1, <1>5, <1>6

(* Exceptions, preflights and the endpoint. *)
LEMMA InnerStep ==
    ASSUME ReqInv,
           \/ Endpoint
           \/ CORSMiddleware /\ req.preflight
           \/ (ErrorMiddleware \/ ExceptionHandlers \/ PassException) /\ way = "raise"
    PROVE  ReqInv'
<1>1. WayInv
  BY DEF ReqInv
<1>2. \A st : DOMAIN Response(st) = {"status", "rid", "cid", "tenant", "timed"}
             /\ \A x : DOMAIN [Response(st) EXCEPT !.rid = x]
                          = {"status", "rid", "cid", "tenant", "timed"}
  BY DEF Response
<1>3. way \in {"in", "raise"}
  BY <1>1, Place DEF Endpoint, CORSMiddleware
<1>4. req # None /\ StateInv
  BY <1>3 DEF ReqInv
<1>5. CASE Endpoint
  <2>1. depth = 11 /\ depth' = 11 /\ UNCHANGED <<req, state, pending, audit>> /\ way = "in"
    BY <1>5, StackFacts DEF Endpoint
  <2>2. ~req.exempt => get_tenant_context = Tid
    BY <1>4, <2>1 DEF StateInv, get_tenant_context, Tid, OrElse
  <2>3. ~req.exempt => served \in {None, Tid}
    BY <1>4 DEF StateInv
  <2>4. \/ way' = "raise" /\ UNCHANGED <<resp, served>>
        \/ way' = "out" /\ resp' = Response(200) /\ served' = get_tenant_context
    BY <1>5 DEF Endpoint
  <2>5. CASE way' = "raise" /\ UNCHANGED <<resp, served>>
    BY <2>1, <2>5, RaiseInv
  <2>6. CASE way' = "out" /\ resp' = Response(200) /\ served' = get_tenant_context
    BY <1>2, <2>1, <2>2, <2>6, AnswerInv
  <2> QED BY <2>4, <2>5, <2>6
<1>6. CASE CORSMiddleware /\ req.preflight
  <2>1. depth = 9 /\ depth' = 9 /\ way = "in" /\ way' = "out" /\ resp' = Response(200)
        /\ UNCHANGED <<req, state, served, pending, audit>>
    BY <1>1, <1>6, Place, StackFacts DEF CORSMiddleware
  <2>2. ~req.exempt => served \in {None, Tid}
    BY <1>4 DEF StateInv
  <2> QED BY <1>2, <2>1, <2>2, AnswerInv
<1>7. CASE (ErrorMiddleware \/ ExceptionHandlers) /\ way = "raise"
  <2>1. /\ depth \in {7, 11} /\ depth' = depth - 1 /\ way' = "out"
        /\ UNCHANGED <<req, state, served, pending, audit>>
        /\ DOMAIN resp' = {"status", "rid", "cid", "tenant", "timed"}
    BY <1>1, <1>2, <1>7, Place, StackFacts DEF ErrorMiddleware, ExceptionHandlers, WayInv
  <2>2. ~req.exempt => served \in {None, Tid}
    BY <1>4 DEF StateInv
  <2> QED BY <1>7, <2>1, <2>2, AnswerInv
<1>8. CASE PassException
  <2>1. depth \in 8 .. 11 /\ depth' \in 7 .. 11 /\ way = "raise" /\ way' = "raise"
        /\ UNCHANGED <<req, state, resp, served, pending, audit>>
    BY <1>1, <1>8, StackFacts DEF PassException, WayInv
  <2> QED BY <2>1, RaiseInv
<1> QED BY <1>5, <1>6, <1>7, <1>8

(* A request enters the stack with nothing in its state. *)
LEMMA ReceiveInv ==
    ASSUME ReqInv, NEW r \in Request, Receive(r)
    PROVE  ReqInv'
<1>1. /\ req' = r /\ depth' = 0 /\ way' = "in" /\ audit' = << >> /\ served' = None
      /\ state' = [rid |-> None, cid |-> None, user |-> None, tenant |-> None]
  BY DEF Receive
<1>2. r # None
  BY RequestAssumption
<1>3. StateInv'
  BY <1>1 DEF StateInv
<1>4. ResponseInv' /\ AuditInv' /\ WayInv'
  BY <1>1 DEF ResponseInv, AuditInv, WayInv
<1> QED BY <1>1, <1>2, <1>3, <1>4 DEF ReqInv

(* The answered request leaves the stack as it was when it came out. *)
LEMMA SendInv ==
    ASSUME ReqInv, Send
    PROVE  ReqInv'
<1>1. /\ way = "out" /\ depth = 0 /\ way' = "sent"
      /\ UNCHANGED <<req, depth, state, resp, served, pending, audit>>
  BY DEF Send
<1>2. Cid' = Cid /\ Rid' = Rid /\ Tid' = Tid /\ (Audited' <=> Audited) /\ Record' = Record
  BY <1>1 DEF Cid, Rid, Tid, Audited, Record
<1>3. req # None /\ StateInv /\ ResponseInv /\ AuditInv
  BY <1>1 DEF ReqInv
<1>4. StateInv' /\ ResponseInv' /\ WayInv'
  BY <1>1, <1>2, <1>3 DEF StateInv, ResponseInv, WayInv
<1>5. AuditInv'
  BY <1>1, <1>2, <1>3 DEF AuditInv
<1> QED BY <1>1, <1>3, <1>4, <1>5 DEF ReqInv

(* Steps that leave the request alone. *)
LEMMA QuietInv ==
    ASSUME ReqInv, UNCHANGED reqVars
    PROVE  ReqInv'
BY DEF reqVars, ReqInv, WayInv, StateInv, ResponseInv, AuditInv, Cid, Rid, Tid, Audited, Record

(* The stack keeps its invariant. *)
THEOREM RequestInvariant == Spec => []ReqInv
<1>1. Init => ReqInv
  BY DEF Init, ReqInv, WayInv
<1>2. ASSUME ReqInv, [Next]_vars
      PROVE  ReqInv'
  <2>1. CASE Middleware
    <3>1. way \in {"in", "out", "raise", "sent"} /\ WayInv
      BY <1>2 DEF ReqInv, WayInv
    <3>2. CASE AuditMiddleware
      BY <1>2, <3>2, AuditStep
    <3>3. CASE CORSMiddleware /\ req.preflight
      BY <1>2, <3>3, InnerStep
    <3>4. CASE way = "in" /\ ~AuditMiddleware /\ ~(CORSMiddleware /\ req.preflight)
      BY <1>2, <2>1, <3>4, LayersIn
    <3>5. CASE way = "out" /\ ~AuditMiddleware
      BY <1>2, <2>1, <3>5, LayersOut
    <3>6. CASE way \in {"raise", "sent"}
      <4>1. (ErrorMiddleware \/ ExceptionHandlers \/ PassException) /\ way = "raise"
        BY <2>1, <3>6 DEF Middleware, Entering, Leaving, CorrelationIdMiddleware,
             RequestIdMiddleware, AuthMiddleware, TenantMiddleware, LatencyTrackingMiddleware,
             AuditMiddleware, ErrorMiddleware, CorrelationTracingMiddleware,
             LoggingContextMiddleware, CORSMiddleware, ExceptionHandlers, PassOut, PassException
      <4> QED BY <1>2, <4>1, InnerStep
    <3> QED BY <3>1, <3>2, <3>3, <3>4, <3>5, <3>6
  <2>2. CASE Endpoint
    BY <1>2, <2>2, InnerStep
  <2>3. ASSUME NEW r \in Request, Receive(r)
        PROVE  ReqInv'
    BY <1>2, <2>3, ReceiveInv
  <2>4. CASE Send
    BY <1>2, <2>4, SendInv
  <2>5. CASE \/ init_redis_pool \/ KafkaDisabled \/ KafkaPublisher \/ StartKafka
             \/ close_redis_pool \/ StopKafka \/ Terminated \/ UNCHANGED vars
    <3>1. UNCHANGED reqVars
      BY <2>5 DEF init_redis_pool, KafkaDisabled, KafkaPublisher, StartKafka,
                  close_redis_pool, StopKafka, Terminated, vars
    <3> QED BY <1>2, <3>1, QuietInv
  <2> QED BY <1>2, <2>1, <2>2, <2>3, <2>4, <2>5 DEF Next
<1> QED BY <1>1, <1>2, PTL DEF Spec

(* Every response carries the ids of its request and the processing time. *)
THEOREM ResponsesCarryIds == Spec => []IdsOnEveryResponse
<1>1. ReqInv => IdsOnEveryResponse
  BY DEF ReqInv, WayInv, StateInv, ResponseInv, IdsOnEveryResponse, Answered, Cid, Rid
<1> QED BY <1>1, RequestInvariant, PTL

(* Every state-changing request is audited once, with what the client sees. *)
THEOREM RequestsAuditedOnce == Spec => []AuditedOnce
<1>1. ASSUME ReqInv, Answered
      PROVE  IF Audited
             THEN /\ Len(audit) = 1 /\ audit[1].status = resp.status
                  /\ audit[1].record.rid = resp.rid /\ audit[1].record.cid = resp.cid
             ELSE audit = <<>>
  <2>1. ResponseInv /\ AuditInv /\ way = "sent" /\ depth = 0
    BY <1>1 DEF ReqInv, WayInv, Answered
  <2>2. audit = IF Audited THEN <<[record |-> Record, status |-> resp.status]>> ELSE << >>
    BY <2>1 DEF AuditInv
  <2>3. resp.rid = Rid /\ resp.cid = Cid
    BY <2>1 DEF ResponseInv
  <2> QED BY <2>2, <2>3 DEF Record
<1>2. ReqInv => AuditedOnce
  BY <1>1 DEF AuditedOnce, Audited
<1> QED BY <1>2, RequestInvariant, PTL

(* The endpoint works for the tenant the response names. *)
THEOREM TenantsAgree == Spec => []TenantAgrees
<1>1. ReqInv => TenantAgrees
  BY DEF ReqInv, WayInv, StateInv, ResponseInv, TenantAgrees, Answered
<1> QED BY <1>1, RequestInvariant, PTL
=============================================================================
