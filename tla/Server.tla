------------------------------- MODULE Server -------------------------------
(***************************************************************************)
(* The life of one backend process (main.rs, lib.rs): its start, step by   *)
(* step, which fails or goes on; the requests that it serves through the   *)
(* layers of the router (routes/mod.rs, monitoring/layer.rs), with what    *)
(* each one leaves in the metrics and in the logs; and its graceful stop.  *)
(*                                                                         *)
(* What a handler does is in the other modules: here it is an answer.  A   *)
(* handler may be dropped where it awaits; from its answer to the log of   *)
(* the access there is no await, only the locks of two registries, and     *)
(* other threads run in between.                                           *)
(***************************************************************************)
EXTENDS Configuration, Observability

CONSTANTS
    Envs,         \* the environments the process may be started in
    ServedEnvs,   \* bound: those of them in which requests are made
    Calls,        \* the requests that may be made
    Failures,     \* bound: the errors handlers answer with, names of ApiError
    MaxRequests,  \* bound on the requests of one life
    MaxEvents     \* bound on the events of the handlers

ASSUME ServedEnvsAssumption == ServedEnvs \subseteq Envs
ASSUME FailuresAssumption == Failures \subseteq DOMAIN ApiError
ASSUME BoundsAssumption == MaxRequests \in Nat /\ MaxEvents \in Nat

VARIABLES
    env,       \* the environment
    phase,     \* how far run has come
    exit,      \* how the process ended, "none" before
    reached,   \* the dependencies that the start has reached
    handle,    \* GLOBAL_HANDLE and AppState.monitoring are set
    requests,  \* the requests received, in order
    counters,  \* the registry: requests by method, route, status and outcome
    hists,     \* the registry: latencies by method and route
    scraped,   \* what the last scrape has rendered
    docs       \* the bag of the log documents handed to the shipper

registry == <<counters, hists>>
start == <<env, phase, exit, reached, handle>>
vars == <<start, requests, registry, scraped, docs>>

Phases ==
    {"config", "pool", "store", "monitoring", "bind", "serving", "draining",
     "exited"}
Up == {"serving", "draining"}

Answer(status, code) == [status |-> status, code |-> code]
NoAnswer == Answer(0, {})
Answers ==
    {Answer(ApiError[k].status, {ApiError[k].code}) : k \in DOMAIN ApiError}
    \cup {Answer(s, {}) : s \in {0, 200, 400, 405, 408, 429, 500, 503}}
PC == {"handling", "answered", "counted", "done", "dropped"}
Request == [call : Calls, pc : PC, answer : Answers]

TypeOK ==
    /\ env \in Envs
    /\ phase \in Phases
    /\ exit \in {"none", "ok", "failed", "killed"}
    /\ reached \subseteq {"database", "redis"}
    /\ handle \in BOOLEAN
    /\ requests \in Seq(Request) /\ Len(requests) <= MaxRequests
    /\ \A k \in DOMAIN counters : counters[k] \in Nat \ {0}
    /\ \A k \in DOMAIN hists : hists[k].count \in Nat \ {0}
    /\ \A d \in DOMAIN docs : docs[d] \in Nat \ {0}

-----------------------------------------------------------------------------
(* The start.                                                              *)

Init ==
    /\ env \in Envs
    /\ phase = "config"
    /\ exit = "none"
    /\ reached = {}
    /\ handle = FALSE
    /\ requests = <<>>
    /\ counters = EmptyBag
    /\ hists = EmptyBag
    /\ scraped = [counters |-> EmptyBag, hists |-> EmptyBag]
    /\ docs = EmptyBag

End(how) ==
    /\ phase' = "exited"
    /\ exit' = how

\* The modules that events come from.
Lib == <<"websitebase_backend">>
Errors == <<"websitebase_backend", "errors">>
Health == <<"websitebase_backend", "handlers", "health">>
Shipper == <<"websitebase_backend", "monitoring", "shipper">>

\* The documents with those of an event, which is emitted in the given spans.
WithEvent(target, level, spans, code) ==
    IF handle /\ Shipped(target) /\ Enabled(Config(env).log_filter, level)
    THEN Bag!BagAdd(docs, EventDoc(target, level, RequestId({}, spans), code))
    ELSE docs

\* Config::from_env, then telemetry::init.
LoadConfig ==
    /\ phase = "config"
    /\ \/ Admits(env) /\ phase' = "pool" /\ UNCHANGED exit
       \/ ~Admits(env) /\ End("failed")
    /\ UNCHANGED <<env, reached, handle, requests, registry, scraped, docs>>

\* create_pool: connects once, which a pool of no connection cannot.
OpenPool ==
    /\ phase = "pool"
    /\ \/ /\ Config(env).database_max_connections > 0
          /\ reached' = reached \cup {"database"}
          /\ phase' = "store"
          /\ UNCHANGED exit
       \/ End("failed") /\ UNCHANGED reached
    /\ UNCHANGED <<env, handle, requests, registry, scraped, docs>>

\* SessionStore::connect.
ConnectStore ==
    /\ phase = "store"
    /\ \/ /\ reached' = reached \cup {"redis"}
          /\ phase' = "monitoring"
          /\ UNCHANGED exit
       \/ End("failed") /\ UNCHANGED reached
    /\ UNCHANGED <<env, handle, requests, registry, scraped, docs>>

\* OpenSearchClient::from_config may fail, on a certificate or as it builds the
\* client; the index template may be refused, which is only logged, before there
\* is a handle; then spawn and set_global_handle.
StartMonitoring ==
    /\ phase = "monitoring"
    /\ \/ /\ phase' = "bind"
          /\ handle' = (Config(env).monitoring # {})
          /\ docs' = IF handle' /\ Enabled(Config(env).log_filter, "info")
                     THEN Bag!BagAdd(docs, EventDoc(Lib, "info", {}, {}))
                     ELSE docs
          /\ UNCHANGED exit
       \/ /\ Config(env).monitoring # {}
          /\ End("failed")
          /\ UNCHANGED <<handle, docs>>
    /\ UNCHANGED <<env, reached, requests, registry, scraped>>

\* build_router, TcpListener::bind.
Listen ==
    /\ phase = "bind"
    /\ \/ /\ phase' = "serving"
          /\ docs' = WithEvent(Lib, "info", <<>>, {})
          /\ UNCHANGED exit
       \/ End("failed") /\ UNCHANGED docs
    /\ UNCHANGED <<env, reached, handle, requests, registry, scraped>>

-----------------------------------------------------------------------------
(* The requests.                                                           *)

\* The routes of build_router; the methods that a path answers.
Routes ==
    {<<"GET", "/health">>, <<"GET", "/health/ready">>, <<"GET", "/metrics">>,
     <<"POST", "/api/v1/auth/register">>, <<"POST", "/api/v1/auth/login">>,
     <<"POST", "/api/v1/auth/refresh">>, <<"POST", "/api/v1/auth/logout">>,
     <<"GET", "/api/v1/users/me">>, <<"PATCH", "/api/v1/users/me">>,
     <<"GET", "/api/v1/users/me/sessions">>,
     <<"POST", "/api/v1/users/me/sessions/logout-others">>,
     <<"DELETE", "/api/v1/users/me/sessions/{sid}">>,
     <<"GET", "/api/v1/admin/users">>}
KnownPaths == {r[2] : r \in Routes}
Limited ==
    {"/api/v1/auth/register", "/api/v1/auth/login", "/api/v1/auth/refresh",
     "/api/v1/auth/logout"}

\* CorsLayer answers every OPTIONS request itself; a GET route answers HEAD too.
Preflight(call) == call.method = "OPTIONS"
Found(call) ==
    /\ ~Preflight(call)
    /\ <<IF call.method = "HEAD" THEN "GET" ELSE call.method, call.path>> \in Routes
Asks(call, path) == Found(call) /\ call.path = path
Api(call) ==
    Found(call) /\ call.path \notin {"/health", "/health/ready", "/metrics"}

\* The calls whose handlers await: the others are answered at once, before the
\* timer is looked at.  CorsLayer is outside TimeoutLayer.
Awaits(call) == Api(call) \/ Asks(call, "/health/ready")

\* revoke_session takes its sid by a Path of axum, whose rejection is an answer of
\* axum's own; ValidatedJson and ValidatedQuery make an ApiError of theirs.
RawPath(call) == Asks(call, "/api/v1/users/me/sessions/{sid}")

\* The answers that are no ApiError, but for the readiness, the scrape and the
\* timeout, which have actions of their own: of the CORS layer, of a handler that
\* succeeds (200 stands for every success), of axum for a sid that is no UUID, of the
\* router when the path has other methods, of the governor, and of CatchPanicLayer.
SilentStatuses(call) ==
    {s \in {200, 400, 405, 429, 500} :
        \/ s = 200 /\ (Preflight(call) \/ Api(call) \/ Asks(call, "/health"))
        \/ s = 400 /\ RawPath(call)
        \/ s = 405 /\ ~Preflight(call) /\ ~Found(call) /\ call.path \in KnownPaths
        \/ s = 429 /\ ~Preflight(call) /\ call.path \in Limited
        \/ s = 500 /\ Api(call)}

\* SetRequestIdLayer keeps the id a request came with; the layers that log it
\* read "unknown" for one that is not text.
LoggedId(i) ==
    CASE requests[i].call.id = "absent" -> <<"uuid", i>>
      [] requests[i].call.id = "opaque" -> <<"unknown">>
      [] OTHER                          -> <<"given", requests[i].call.id>>

\* The spans around the handler: the http_request span of the TraceLayer is at
\* the level info, and carries the id.
Spans(i) ==
    IF Enabled(Config(env).log_filter, "info") THEN <<{LoggedId(i)}>> ELSE <<>>

Become(i, pc, answer) ==
    requests' = [requests EXCEPT ![i] =
                    [call |-> requests[i].call, pc |-> pc, answer |-> answer]]

Receive(call) ==
    /\ phase = "serving"
    /\ env \in ServedEnvs
    /\ Len(requests) < MaxRequests
    /\ requests' = Append(requests, [call |-> call, pc |-> "handling", answer |-> NoAnswer])
    /\ UNCHANGED <<start, registry, scraped, docs>>

Handling(i) == phase \in Up /\ requests[i].pc = "handling"

\* What a handler or an extractor of the API reports while it runs (login_failed,
\* account_locked, session_revoked, admin_users_listed...).
Handlers == <<"websitebase_backend", "handlers">>
Emit(i, level) ==
    /\ Handling(i) /\ Api(requests[i].call)
    /\ Cardinality({d \in BagToSet(docs) : d.kind = "event" /\ d.target = Handlers}) < MaxEvents
    /\ docs' = WithEvent(Handlers, level, Spans(i), {})
    /\ UNCHANGED <<start, requests, registry, scraped>>

AnswerSilently(i) ==
    /\ Handling(i)
    /\ \E status \in SilentStatuses(requests[i].call) :
            Become(i, "answered", Answer(status, {}))
    /\ UNCHANGED <<start, registry, scraped, docs>>

\* An ApiError, of a handler, an extractor or the fallback: into_response emits
\* an event and attaches the code.
Fail(i, kind) ==
    /\ Handling(i)
    /\ \/ Api(requests[i].call)
       \/ /\ ~Preflight(requests[i].call)
          /\ requests[i].call.path \notin KnownPaths
          /\ kind = "NotFound"
    /\ Become(i, "answered", Answer(ApiError[kind].status, {ApiError[kind].code}))
    /\ docs' = WithEvent(Errors, ErrorLevel(kind), Spans(i), {ApiError[kind].code})
    /\ UNCHANGED <<start, registry, scraped>>

\* readiness: the database answers, or does not.
Readiness(i) ==
    /\ Handling(i)
    /\ Asks(requests[i].call, "/health/ready")
    /\ \/ Become(i, "answered", Answer(200, {})) /\ UNCHANGED docs
       \/ /\ Become(i, "answered", Answer(503, {}))
          /\ docs' = WithEvent(Health, "error", Spans(i), {})
    /\ UNCHANGED <<start, registry, scraped>>

\* metrics: the registry rendered under its lock.
ScrapeResetSlip(i) ==
    /\ Handling(i)
    /\ Asks(requests[i].call, "/metrics")
    /\ scraped' = [counters |-> counters, hists |-> hists]
    /\ counters' = EmptyBag /\ hists' = EmptyBag
    /\ Become(i, "answered", Answer(200, {}))
    /\ UNCHANGED <<start, docs>>
Scrape(i) ==
    /\ Handling(i)
    /\ Asks(requests[i].call, "/metrics")
    /\ scraped' = [counters |-> counters, hists |-> hists]
    /\ Become(i, "answered", Answer(200, {}))
    /\ UNCHANGED <<start, registry, docs>>

\* TimeoutLayer.
TimeoutGatewaySlip(i) ==
    /\ Handling(i) /\ Awaits(requests[i].call)
    /\ Become(i, "answered", Answer(504, {}))
    /\ UNCHANGED <<start, registry, scraped, docs>>
TimeoutApiOnlySlip(i) ==
    /\ Handling(i) /\ Api(requests[i].call)
    /\ Become(i, "answered", Answer(408, {}))
    /\ UNCHANGED <<start, registry, scraped, docs>>
Timeout(i) ==
    /\ Handling(i) /\ Awaits(requests[i].call)
    /\ Become(i, "answered", Answer(408, {}))
    /\ UNCHANGED <<start, registry, scraped, docs>>

\* The client has gone: the future of the request is dropped where it awaits.
Drop(i) ==
    /\ Handling(i) /\ Awaits(requests[i].call)
    /\ Become(i, "dropped", NoAnswer)
    /\ UNCHANGED <<start, registry, scraped, docs>>

\* record_requests, after the answer: the scrape itself is left out, and the
\* others enter the metrics, then the log.
Instrumented(call) == call.path # "/metrics"

ObserveScrapeSlip(i) ==
    /\ phase \in Up /\ requests[i].pc = "answered"
    /\ LET call == requests[i].call
           answer == requests[i].answer
       IN  /\ counters' = Counted(counters, call.method, call.path, answer.status)
           /\ hists' = Timed(hists, call.method, call.path, 1)
           /\ Become(i, "counted", answer)
    /\ UNCHANGED <<start, scraped, docs>>
Observe(i) ==
    /\ phase \in Up /\ requests[i].pc = "answered"
    /\ LET call == requests[i].call
           answer == requests[i].answer
       IN  \/ /\ Instrumented(call)
              /\ counters' = Counted(counters, call.method, call.path, answer.status)
              /\ \E latency \in 1..(Buckets + 1) :
                    hists' = Timed(hists, call.method, call.path, latency)
              /\ Become(i, "counted", answer)
           \/ /\ ~Instrumented(call)
              /\ Become(i, "done", answer)
              /\ UNCHANGED registry
    /\ UNCHANGED <<start, scraped, docs>>

LogAccessUncodedSlip(i) ==
    /\ phase \in Up /\ requests[i].pc = "counted"
    /\ LET call == requests[i].call
           answer == requests[i].answer
       IN  /\ docs' = IF handle
                      THEN Bag!BagAdd(docs, AccessDoc(LoggedId(i), call.method, call.path,
                                                  answer.status, {}))
                      ELSE docs
           /\ Become(i, "done", answer)
    /\ UNCHANGED <<start, registry, scraped>>
LogAccess(i) ==
    /\ phase \in Up /\ requests[i].pc = "counted"
    /\ LET call == requests[i].call
           answer == requests[i].answer
       IN  /\ docs' = IF handle
                      THEN Bag!BagAdd(docs, AccessDoc(LoggedId(i), call.method, call.path,
                                                  answer.status, answer.code))
                      ELSE docs
           /\ Become(i, "done", answer)
    /\ UNCHANGED <<start, registry, scraped>>

\* The shipper reports a failure or a loss: an event of the monitoring itself.
ShipperWarns ==
    /\ phase \in Up /\ handle
    /\ docs' = WithEvent(Shipper, "warn", <<>>, {})
    /\ UNCHANGED <<start, requests, registry, scraped>>

-----------------------------------------------------------------------------
(* The stop.                                                               *)

\* shutdown_signal: the listener closes and the requests in flight go on.
Signal ==
    /\ phase = "serving"
    /\ phase' = "draining"
    /\ docs' = WithEvent(Lib, "info", <<>>, {})
    /\ UNCHANGED <<env, exit, reached, handle, requests, registry, scraped>>

\* The memory of the process goes with it: what becomes of the documents is in
\* LogShipper.  A scrape that was rendered is Prometheus's.
Forget ==
    /\ requests' = <<>>
    /\ counters' = EmptyBag /\ hists' = EmptyBag
    /\ docs' = EmptyBag
    /\ UNCHANGED <<env, reached, handle, scraped>>

\* serve returns when no connection has a request left.
OverDoneSlip(i) == requests[i].pc = "done"
Over(i) == requests[i].pc \in {"done", "dropped"}
Drained == phase = "draining" /\ \A i \in DOMAIN requests : Over(i)
Exit == Drained /\ End("ok") /\ Forget

\* A signal that no handler is installed for, or SIGKILL.
Kill == phase # "exited" /\ End("killed") /\ Forget

Starting == LoadConfig \/ OpenPool \/ ConnectStore \/ StartMonitoring \/ Listen
Serving(i) ==
    \/ \E level \in {"info", "warn"} : Emit(i, level)
    \/ AnswerSilently(i)
    \/ \E kind \in Failures : Fail(i, kind)
    \/ Readiness(i) \/ Scrape(i) \/ Timeout(i) \/ Drop(i)
    \/ Observe(i) \/ LogAccess(i)

Next ==
    \/ Starting
    \/ \E call \in Calls : Receive(call)
    \/ \E i \in DOMAIN requests : Serving(i)
    \/ ShipperWarns
    \/ Signal \/ Exit \/ Kill

AtOnce(i) ==
    /\ ~Awaits(requests[i].call)
    /\ AnswerSilently(i) \/ Fail(i, "NotFound") \/ Scrape(i)
Progress(i) == AtOnce(i) \/ Timeout(i) \/ Observe(i) \/ LogAccess(i)

\* The timer of a request that waits fires, a thread goes on where nothing waits,
\* and serve returns once it can.
Fairness ==
    /\ \A i \in 1..MaxRequests : WF_vars(i \in DOMAIN requests /\ Progress(i))
    /\ WF_vars(Exit)

Spec == Init /\ [][Next]_vars /\ Fairness

-----------------------------------------------------------------------------
(* Properties.                                                             *)

\* Whatever the environment, a process that serves has a configuration the rest
\* of the code can live with, and has reached its database and its store
\* (config.rs: "on préfère un crash explicite à un service qui tourne dans un
\* état non sécurisé"): the quotas and the sizes other modules divide by or wait
\* for are not zero, and documents leave in clear only where that was allowed.
Sound(e) ==
    LET c == Config(e)
    IN  /\ c.jwt_secret >= 32
        /\ c.cors_allowed_origins # {}
        /\ c.redis.auth_rate_limit_max > 0 /\ c.redis.auth_rate_limit_window > 0
        /\ \A m \in c.monitoring :
            /\ m.batch_size > 0 /\ m.channel_capacity > 0 /\ m.flush_interval > 0
            /\ m.base_url # "https" =>
                   /\ m.base_url = "http"
                   /\ Given(e.OPENSEARCH_ALLOW_INSECURE) /\ e.OPENSEARCH_ALLOW_INSECURE.val
ServesSoundly ==
    phase \in Up => Sound(env) /\ reached = {"database", "redis"}

\* The registry has each answered request once, under its own labels, and none
\* that was dropped, that is not answered yet, or that is a scrape.
Copies(k, bag) == IF k \in DOMAIN bag THEN bag[k] ELSE 0
InRegistry(i) ==
    requests[i].pc \in {"counted", "done"} /\ Instrumented(requests[i].call)
KeyOf(i) ==
    CounterKey(requests[i].call.method, requests[i].call.path, requests[i].answer.status)
CountedOnce ==
    \A k \in DOMAIN counters \cup {KeyOf(i) : i \in {j \in DOMAIN requests : InRegistry(j)}} :
        Copies(k, counters) = Cardinality({i \in DOMAIN requests :
                                                InRegistry(i) /\ KeyOf(i) = k})

\* The requests that the counters have under the method and route of a histogram:
\* the n-th of a key is <<k, n>>.
CountedAt(c, h) ==
    UNION {{<<k, n>> : n \in 1..c[k]} :
              k \in {j \in DOMAIN c : j.method = h.method /\ j.route = h.route}}

\* A scrape is of one instant: for each method and route, the histogram has as
\* many observations as the counters have requests, and its buckets grow to that.
ScrapeCoherent ==
    \A h \in DOMAIN scraped.hists :
        LET hist == scraped.hists[h]
        IN  /\ hist.count = Cardinality(CountedAt(scraped.counters, h))
            /\ \A b \in 1..Buckets :
                  hist.buckets[b] <= IF b = Buckets THEN hist.count ELSE hist.buckets[b + 1]

\* While the process lives no series ever goes back, so that what two scrapes of it
\* read gives no negative rate.
SeriesGrow ==
    [][phase' = "exited" \/
       /\ \A k \in DOMAIN counters : Copies(k, counters) <= Copies(k, counters')
       /\ \A h \in DOMAIN hists : h \in DOMAIN hists' /\ hists[h].count <= hists'[h].count
      ]_registry

\* The log has one document for each access that is over, with what the client
\* saw: its request id, the status, and the code of the error; and no other.
AccessOf(i) ==
    AccessDoc(LoggedId(i), requests[i].call.method, requests[i].call.path,
              requests[i].answer.status, requests[i].answer.code)
Logged(i) == handle /\ requests[i].pc = "done" /\ Instrumented(requests[i].call)
AccessLogged ==
    /\ \A i \in DOMAIN requests : Logged(i) => AccessOf(i) \in DOMAIN docs
    /\ \A d \in DOMAIN docs :
         d.kind = "access" =>
             Copies(d, docs) =
                 Cardinality({i \in DOMAIN requests : Logged(i) /\ AccessOf(i) = d})

\* The errors that pass by ApiError, and have neither an event nor a code: a sid that
\* is no UUID, a method that the path does not have, the timeout, the limiter in
\* memory, a panic.
Unexplained(call, status) ==
    \/ status = 400 /\ RawPath(call)
    \/ status = 405 /\ ~Preflight(call) /\ ~Found(call)
    \/ status = 408 /\ Awaits(call)
    \/ status = 429 /\ call.path \in Limited
    \/ status = 500 /\ Api(call)

\* Every ApiError answered, and every readiness that failed, is explained by an event
\* of its own, with its code and under the request id of its access when the filter
\* keeps the spans (MONITORING.md: "partagent le même request_id").  No other error is
\* answered but the five above, which no event explains: an event is of an error, or
\* of a handler and has the id of a request to the API, or one of the three of the
\* process; the shipper never feeds itself.
ErrorOf(i) == CHOOSE k \in DOMAIN ApiError : {ApiError[k].code} = requests[i].answer.code
Coded(i) == requests[i].answer.code # {}
NotReady(i) == Asks(requests[i].call, "/health/ready") /\ requests[i].answer.status = 503
EventLevel(i) == IF Coded(i) THEN ErrorLevel(ErrorOf(i)) ELSE "error"
EventOf(i) ==
    EventDoc(IF Coded(i) THEN Errors ELSE Health, EventLevel(i),
             RequestId({}, Spans(i)), requests[i].answer.code)
Reported(i) ==
    handle /\ (Coded(i) \/ NotReady(i)) /\ Enabled(Config(env).log_filter, EventLevel(i))
EventsExplained ==
    /\ \A i \in DOMAIN requests : Reported(i) => EventOf(i) \in DOMAIN docs
    /\ \A i \in DOMAIN requests :
         requests[i].answer.status >= 400 =>
             Coded(i) \/ NotReady(i) \/ Unexplained(requests[i].call, requests[i].answer.status)
    /\ \A d \in DOMAIN docs :
         d.kind = "event" =>
             \/ d.target = Lib /\ Copies(d, docs) <= 3
             \/ /\ d.target = Handlers
                /\ \E i \in DOMAIN requests :
                      Api(requests[i].call) /\ d.request_id = RequestId({}, Spans(i))
             \/ Copies(d, docs) =
                    Cardinality({i \in DOMAIN requests : Reported(i) /\ EventOf(i) = d})

\* Every request ends, unless the process is killed: nothing a handler waits for
\* outlives the timeout.
RequestsEnd ==
    \A i \in 1..MaxRequests :
        i \in DOMAIN requests ~>
            exit = "killed" \/ (i \in DOMAIN requests /\ Over(i))

\* A process that was told to stop stops, without being killed if need be.
Stops == phase = "draining" ~> phase = "exited"
=============================================================================
