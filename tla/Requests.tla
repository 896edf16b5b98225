------------------------------ MODULE Requests ------------------------------
(***************************************************************************)
(* One API process: its lifespan (main.py, the Redis pool and the Kafka    *)
(* publisher it opens and closes), and the way of a request through the    *)
(* middleware stack, the dependencies and the exception handlers to its    *)
(* response.  Requests share nothing but the resources, and the server     *)
(* drains them before it shuts down, so one request at a time is enough.   *)
(***************************************************************************)
EXTENDS Naturals, Sequences

CONSTANTS None,
          Methods,        \* the HTTP methods of requests
          Tenants,        \* values of X-Tenant-ID that clients send
          DefaultTenant   \* "default": the middleware's and the settings' default

VARIABLES
    phase,      \* where lifespan is
    pool,       \* redis_client._pool: "none" or "open"
    producer,   \* KafkaPublisher._producer: "none", "created" or "started"
    publisher,  \* whether app.state.kafka_publisher holds a publisher
    raised,     \* the lifespan steps that raised
    req,        \* the request in the stack, or None
    depth,      \* how many layers it has entered
    way,        \* "in", "out" with a response, "raise" with an exception, "sent"
    state,      \* request.state
    exc,        \* the exception on its way out
    resp,       \* the response
    served,     \* the tenant the endpoint worked for
    pending,    \* the record AuditMiddleware holds while the endpoint runs
    audit       \* the audit records of the request that were logged

lifeVars == <<phase, pool, producer, publisher, raised>>
reqVars == <<req, depth, way, state, exc, resp, served, pending, audit>>
vars == <<lifeVars, reqVars>>

-----------------------------------------------------------------------------
(* Lifespan. *)
Init ==
    /\ phase = "boot" /\ pool = "none" /\ producer = "none"
    /\ publisher = FALSE /\ raised = {}
    /\ req = None /\ depth = 0 /\ way = "sent" /\ state = None /\ exc = None
    /\ resp = None /\ served = None /\ pending = None /\ audit = <<>>

(* An exception of a step that opens a resource leaves lifespan before its
   try, so nothing is closed. *)
FailStartup(step) == phase' = "failed" /\ raised' = raised \cup {step}

(* init_redis_pool: from_url raises on a malformed URL. *)
init_redis_pool ==
    /\ phase = "boot"
    /\ \/ pool' = "open" /\ phase' = "redis_ready" /\ UNCHANGED raised
       \/ FailStartup("redis_url") /\ UNCHANGED pool
    /\ UNCHANGED <<producer, publisher, reqVars>>

KafkaDisabled ==
    /\ phase = "redis_ready"
    /\ phase' = "serving"
    /\ UNCHANGED <<pool, producer, publisher, raised, reqVars>>

(* KafkaPublisher(...): raises when aiokafka is not installed. *)
KafkaPublisher ==
    /\ phase = "redis_ready"
    /\ \/ phase' = "kafka_new" /\ UNCHANGED raised
       \/ FailStartup("kafka_init")
    /\ UNCHANGED <<pool, producer, publisher, reqVars>>

(* publisher.start(): AIOKafkaProducer(...) raises and no producer is kept,
   or the producer is kept and its own start raises, or it starts and the
   publisher reaches app.state. *)
StartKafka ==
    /\ phase = "kafka_new"
    /\ \/ FailStartup("kafka_create") /\ UNCHANGED <<producer, publisher>>
       \/ FailStartup("kafka_start") /\ producer' = "created" /\ UNCHANGED publisher
       \/ /\ producer' = "started" /\ publisher' = TRUE /\ phase' = "serving"
          /\ UNCHANGED raised
    /\ UNCHANGED <<pool, reqVars>>

(* Mutant: the publisher is not stopped. *)
CloseForgetsKafka ==
    /\ phase = "serving" /\ way = "sent"
    /\ \/ pool' = "none" /\ phase' = "stopped" /\ UNCHANGED raised
       \/ phase' = "stopped" /\ raised' = raised \cup {"redis_close"} /\ UNCHANGED pool
    /\ UNCHANGED <<producer, publisher, reqVars>>

(* The finally of lifespan: close_redis_pool; if it raises, the rest of the
   finally is skipped. *)
close_redis_pool ==
    /\ phase = "serving" /\ way = "sent"
    /\ \/ /\ pool' = "none" /\ phase' = IF publisher THEN "redis_closed" ELSE "stopped"
          /\ UNCHANGED raised
       \/ phase' = "stopped" /\ raised' = raised \cup {"redis_close"} /\ UNCHANGED pool
    /\ UNCHANGED <<producer, publisher, reqVars>>

StopKafka ==
    /\ phase = "redis_closed"
    /\ phase' = "stopped"
    /\ \/ producer' = "none" /\ UNCHANGED raised
       \/ raised' = raised \cup {"kafka_stop"} /\ UNCHANGED producer
    /\ UNCHANGED <<pool, publisher, reqVars>>

-----------------------------------------------------------------------------
(* Requests.  add_middleware puts the newest layer outside, so the stack is
   the reverse of the order in add_middlewares; ExceptionMiddleware, with
   the handlers of register_exception_handlers, is FastAPI's innermost. *)

(* Mutant: errors are caught outside the audit layer. *)
StackErrorOutside ==
    <<"correlation_id", "request_id", "auth", "tenant", "latency", "error", "audit",
      "tracing", "logging", "cors", "exceptions">>

(* Mutant: request ids are handled inside the logging layer. *)
StackLoggingOutside ==
    <<"correlation_id", "logging", "request_id", "auth", "tenant", "latency", "audit",
      "error", "tracing", "cors", "exceptions">>

Stack == <<"correlation_id", "request_id", "auth", "tenant", "latency", "audit",
           "error", "tracing", "logging", "cors", "exceptions">>

AUDIT_METHODS == {"POST", "PUT", "PATCH", "DELETE"}

(* What the layers look at.  "/health", "/docs", ... are exempt, the routes
   of the API (all under /api) are not.  A protected route requires a
   permission, which a "weak" token does not have.  Id values are model values: those
   of the client, or None when a header is missing or empty. *)
Request == [method : Methods, exempt : BOOLEAN, protected : BOOLEAN, preflight : BOOLEAN,
            rid : {"client_rid", None}, cid : {"client_cid", None},
            tenant : Tenants \cup {None},
            token : {"none", "malformed", "invalid", "weak", "good"}]

(* What AuditMiddleware notes of a request. *)
AuditRecord == [rid : {"client_rid", "new_rid"}, cid : {"client_cid", "new_cid"},
                user : {"sub", None}]

ASSUME RequestAssumption == None \notin Request \cup AuditRecord

Valid(r) == (r.preflight => r.method = "OPTIONS") /\ ~(r.exempt /\ r.protected)

Receive(r) ==
    /\ phase = "serving" /\ way = "sent" /\ Valid(r)
    /\ req' = r /\ depth' = 0 /\ way' = "in"
    /\ state' = [rid |-> None, cid |-> None, user |-> None, tenant |-> None]
    /\ exc' = None /\ resp' = None /\ served' = None /\ pending' = None
    /\ audit' = <<>>
    /\ UNCHANGED lifeVars

Entering(layer) == way = "in" /\ depth < Len(Stack) /\ Stack[depth + 1] = layer
Leaving(layer) == way = "out" /\ depth > 0 /\ Stack[depth] = layer

(* Go one layer in with a new request.state, or one out with a new response. *)
CallNext(newState) ==
    /\ state' = newState /\ depth' = depth + 1
    /\ UNCHANGED <<lifeVars, req, way, exc, resp, served, pending, audit>>
Return(newResp) ==
    /\ resp' = newResp /\ depth' = depth - 1
    /\ UNCHANGED <<lifeVars, req, way, state, exc, served, pending, audit>>

Response(status) == [status |-> status, rid |-> None, cid |-> None,
                     tenant |-> None, timed |-> FALSE]

OrElse(x, default) == IF x # None THEN x ELSE default

CorrelationIdMiddleware ==
    \/ Entering("correlation_id") /\ CallNext([state EXCEPT !.cid = OrElse(req.cid, "new_cid")])
    \/ Leaving("correlation_id") /\ Return([resp EXCEPT !.cid = state.cid])

RequestIdMiddleware ==
    \/ Entering("request_id") /\ CallNext([state EXCEPT !.rid = OrElse(req.rid, "new_rid")])
    \/ Leaving("request_id") /\ Return([resp EXCEPT !.rid = state.rid])

(* The claims of a token are taken without verification; a header that does
   not decode leaves no user. *)
AuthMiddleware ==
    /\ Entering("auth")
    /\ CallNext(IF ~req.exempt /\ req.token \notin {"none", "malformed"}
                THEN [state EXCEPT !.user = "sub"] ELSE state)

(* Mutant: the response shows the header, not the tenant resolved from it. *)
TenantEchoesHeader ==
    \/ /\ Entering("tenant")
       /\ CallNext(IF req.exempt THEN state
                   ELSE [state EXCEPT !.tenant = OrElse(req.tenant, DefaultTenant)])
    \/ /\ Leaving("tenant")
       /\ Return(IF req.exempt THEN resp ELSE [resp EXCEPT !.tenant = req.tenant])

(* No layer sets tenant_id_from_jwt, so the default follows the header. *)
TenantMiddleware ==
    \/ /\ Entering("tenant")
       /\ CallNext(IF req.exempt THEN state
                   ELSE [state EXCEPT !.tenant = OrElse(req.tenant, DefaultTenant)])
    \/ /\ Leaving("tenant")
       /\ Return(IF req.exempt THEN resp ELSE [resp EXCEPT !.tenant = state.tenant])

(* The finally also runs with an exception, when there is no response. *)
LatencyTrackingMiddleware ==
    \/ Entering("latency") /\ CallNext(state)
    \/ Leaving("latency") /\ Return([resp EXCEPT !.timed = TRUE])

(* The record is taken on the way in; it is logged with the status of the
   response, so not at all when an exception comes out. *)
AuditMiddleware ==
    \/ /\ Entering("audit")
       /\ pending' = IF ~req.exempt /\ req.method \in AUDIT_METHODS
                     THEN [rid |-> state.rid, cid |-> state.cid, user |-> state.user]
                     ELSE None
       /\ depth' = depth + 1
       /\ UNCHANGED <<lifeVars, req, way, state, exc, resp, served, audit>>
    \/ /\ Leaving("audit")
       /\ audit' = IF pending = None THEN audit
                   ELSE Append(audit, [record |-> pending, status |-> resp.status])
       /\ depth' = depth - 1
       /\ UNCHANGED <<lifeVars, req, way, state, exc, resp, served, pending>>

(* Mutant: the request is tried again. *)
ErrorRetries ==
    \/ Entering("error") /\ CallNext(state)
    \/ /\ way = "raise" /\ Stack[depth] = "error"
       /\ way' = "in" /\ exc' = None
       /\ UNCHANGED <<lifeVars, req, depth, state, resp, served, pending, audit>>

(* Any exception becomes a 500 that names the request. *)
ErrorMiddleware ==
    \/ Entering("error") /\ CallNext(state)
    \/ /\ way = "raise" /\ Stack[depth] = "error"
       /\ resp' = [Response(500) EXCEPT !.rid = state.rid]
       /\ way' = "out" /\ exc' = None /\ depth' = depth - 1
       /\ UNCHANGED <<lifeVars, req, state, served, pending, audit>>

CorrelationTracingMiddleware == Entering("tracing") /\ CallNext(state)

(* Its request_id is the correlation id, which it puts into both headers. *)
LoggingContextMiddleware ==
    \/ Entering("logging") /\ CallNext(state)
    \/ /\ Leaving("logging")
       /\ Return(IF state.cid = None THEN [resp EXCEPT !.timed = TRUE]
                 ELSE [resp EXCEPT !.rid = state.cid, !.cid = state.cid, !.timed = TRUE])

(* Starlette's CORSMiddleware answers a preflight request itself. *)
CORSMiddleware ==
    /\ Entering("cors")
    /\ IF req.preflight
       THEN /\ resp' = Response(200) /\ way' = "out"
            /\ UNCHANGED <<lifeVars, req, depth, state, exc, served, pending, audit>>
       ELSE CallNext(state)

-----------------------------------------------------------------------------
(* The exceptions endpoints raise, and their status. *)
AppException ==
    [AppException |-> 500, AuthenticationError |-> 401, InvalidCredentialsError |-> 401,
     TokenExpiredError |-> 401, InvalidTokenError |-> 401,
     InsufficientPermissionsError |-> 403, NotFoundError |-> 404, ConflictError |-> 409,
     AlreadyExistsError |-> 409, DomainValidationError |-> 422,
     RateLimitExceededError |-> 429, AgentExecutionError |-> 500,
     LLMProviderError |-> 502, ExternalServiceError |-> 502, EmbeddingServiceError |-> 502]

(* An exception with a handler of its own, by the status the handler answers;
   any other exception is Unhandled.  The exceptions of core/exceptions.py
   derive from another AppException, which has no handler. *)
Unhandled == 0
Handled == {AppException[name] : name \in DOMAIN AppException}   \* app_exception_handler
            \cup {400, 401, 403, 404, 405, 409, 503}               \* http_exception_handler
            \cup {422}                                           \* validation_exception_handler

(* get_tenant_context: the header, request.state, the settings' default. *)
get_tenant_context == OrElse(req.tenant, OrElse(state.tenant, DefaultTenant))

(* RateLimitDep: get_redis_client does not exist in redis_client, so the
   import raises and the limiter fails open. *)
RateLimitAllows == TRUE

(* get_current_user and PermissionChecker of a protected endpoint. *)
Refusal == [none |-> 401, malformed |-> 401, invalid |-> 401, weak |-> 403, good |-> None]

(* The endpoint: refused by its dependencies, a result for the tenant that
   get_tenant_id resolved, or an exception of its own. *)
Endpoint ==
    /\ way = "in" /\ depth = Len(Stack)
    /\ RateLimitAllows
    /\ IF req.protected /\ Refusal[req.token] # None
       THEN exc' = Refusal[req.token] /\ way' = "raise" /\ UNCHANGED <<resp, served>>
       ELSE \/ /\ resp' = Response(200) /\ way' = "out"
               /\ served' = get_tenant_context /\ UNCHANGED exc
            \/ \E e \in Handled \cup {Unhandled} :
                  exc' = e /\ way' = "raise" /\ UNCHANGED <<resp, served>>
    /\ UNCHANGED <<lifeVars, req, depth, state, pending, audit>>

(* The exception handlers of register_exception_handlers. *)
ExceptionHandlers ==
    \/ Entering("exceptions") /\ CallNext(state)
    \/ Leaving("exceptions") /\ Return(resp)
    \/ /\ way = "raise" /\ Stack[depth] = "exceptions" /\ exc # Unhandled
       /\ resp' = Response(exc) /\ way' = "out" /\ exc' = None /\ depth' = depth - 1
       /\ UNCHANGED <<lifeVars, req, state, served, pending, audit>>

(* A layer that does nothing on the way out passes the response on. *)
PassOut ==
    /\ \/ Leaving("auth") \/ Leaving("error") \/ Leaving("tracing") \/ Leaving("cors")
    /\ Return(resp)

(* A layer without a handler passes an exception on. *)
PassException ==
    /\ way = "raise" /\ depth > 0 /\ Stack[depth] # "error"
    /\ Stack[depth] = "exceptions" => exc = Unhandled
    /\ depth' = depth - 1
    /\ UNCHANGED <<lifeVars, req, way, state, exc, resp, served, pending, audit>>

(* Out of the stack: the response goes to the client. *)
Send ==
    /\ way = "out" /\ depth = 0
    /\ way' = "sent"
    /\ UNCHANGED <<lifeVars, req, depth, state, exc, resp, served, pending, audit>>

Terminated == phase \in {"failed", "stopped"} /\ UNCHANGED vars

-----------------------------------------------------------------------------
Middleware ==
    \/ CorrelationIdMiddleware \/ RequestIdMiddleware \/ AuthMiddleware \/ TenantMiddleware
    \/ LatencyTrackingMiddleware \/ AuditMiddleware \/ ErrorMiddleware
    \/ CorrelationTracingMiddleware \/ LoggingContextMiddleware \/ CORSMiddleware
    \/ ExceptionHandlers \/ PassOut \/ PassException

Next ==
    \/ init_redis_pool \/ KafkaDisabled \/ KafkaPublisher \/ StartKafka
    \/ close_redis_pool \/ StopKafka
    \/ \E r \in Request : Receive(r)
    \/ Middleware \/ Endpoint \/ Send
    \/ Terminated

Spec == Init /\ [][Next]_vars

(* The event loop goes on with a request it has received. *)
FairSpec == Spec /\ WF_vars(Middleware \/ Endpoint \/ Send)

-----------------------------------------------------------------------------
(* Properties. *)
Answered == way = "sent" /\ req # None

(* Whatever happens to a request (served, refused, an exception with or
   without a handler, a preflight), its response carries the request id and
   the correlation id the request came with, or those made for it, and the
   processing time; the logging layer's overwrite does not survive. *)
IdsOnEveryResponse ==
    Answered => /\ resp.rid = state.rid /\ resp.rid = OrElse(req.rid, "new_rid")
                /\ resp.cid = state.cid /\ resp.cid = OrElse(req.cid, "new_cid")
                /\ resp.timed

(* AuditMiddleware: a state-changing request outside the exempt paths is
   audited exactly once, also when it is refused or its endpoint raises, with
   the ids and the status that the client sees. *)
AuditedOnce ==
    Answered =>
        IF ~req.exempt /\ req.method \in AUDIT_METHODS
        THEN /\ Len(audit) = 1 /\ audit[1].status = resp.status
             /\ audit[1].record.rid = resp.rid /\ audit[1].record.cid = resp.cid
        ELSE audit = <<>>

(* The tenant is resolved twice, by TenantMiddleware and by get_tenant_context:
   the endpoint works for the tenant the response names. *)
TenantAgrees ==
    Answered /\ ~req.exempt /\ served # None => served = resp.tenant

(* ErrorMiddleware and the handlers: every request that is received is
   answered. *)
RequestAnswered == (way = "in") ~> Answered

(* lifespan: requests meet an open pool and, if enabled, a started publisher;
   once the process has stopped or failed to start, exactly these are left
   open: the pool if its own close, or a step of Kafka's startup, raised; the
   producer if its own start or stop, or the close of the pool before it,
   raised.  A constructor that raises leaves the pool and no producer. *)
ReleasedUnlessRaised ==
    /\ phase = "serving" => pool = "open" /\ (publisher => producer = "started")
    /\ phase \in {"failed", "stopped"} =>
          /\ pool = "open" <=>
                raised \cap {"kafka_init", "kafka_create", "kafka_start", "redis_close"} # {}
          /\ producer # "none" <=> \/ raised \cap {"kafka_start", "kafka_stop"} # {}
                                   \/ publisher /\ "redis_close" \in raised

=============================================================================
