--------------------------- MODULE Observability ---------------------------
(***************************************************************************)
(* What the backend says about the requests it serves: the status and code *)
(* of an error (errors.rs), the Prometheus registry (monitoring/metrics.rs)*)
(* and the log documents (monitoring/event.rs, log_layer.rs, telemetry.rs) *)
(*                                                                         *)
(* A target is the path of a module, a sequence of names; an Option is a   *)
(* set with one member or none.                                            *)
(***************************************************************************)
EXTENDS Naturals, Sequences, SequencesExt

CONSTANTS Buckets   \* the number of bounds of the latency histogram

ASSUME BucketsAssumption == Buckets \in Nat \ {0}

Bag == INSTANCE BagsExt

-----------------------------------------------------------------------------
(* Errors.                                                                 *)

\* ApiError::status and ApiError::code.
ApiError ==
    [Validation         |-> [status |-> 422, code |-> "validation_error"],
     Unauthorized       |-> [status |-> 401, code |-> "unauthorized"],
     Forbidden          |-> [status |-> 403, code |-> "forbidden"],
     NotFound           |-> [status |-> 404, code |-> "not_found"],
     Conflict           |-> [status |-> 409, code |-> "conflict"],
     TooManyRequests    |-> [status |-> 429, code |-> "too_many_requests"],
     PayloadTooLarge    |-> [status |-> 413, code |-> "payload_too_large"],
     BadRequest         |-> [status |-> 400, code |-> "bad_request"],
     ServiceUnavailable |-> [status |-> 503, code |-> "service_unavailable"],
     Internal           |-> [status |-> 500, code |-> "internal_error"]]

\* The level at which into_response reports the error.
ErrorLevel(kind) ==
    CASE kind \in {"Internal", "ServiceUnavailable"}                   -> "error"
      [] kind \in {"Unauthorized", "Forbidden", "TooManyRequests"}     -> "warn"
      [] OTHER                                                         -> "info"

\* outcome_for.
Outcome(status) ==
    CASE status \in 500..599 -> "server_error"
      [] status \in 400..499 -> "client_error"
      [] OTHER               -> "success"

-----------------------------------------------------------------------------
(* Metrics.  The registry has a counter for each key and a histogram for   *)
(* each method and route; a latency is the first bucket that holds it, or  *)
(* Buckets + 1.                                                            *)

NormalMethod(method) ==
    IF method \in {"GET", "POST", "PATCH", "PUT", "DELETE", "HEAD", "OPTIONS"}
    THEN method ELSE "other"

KnownRoutes ==
    {"/health", "/health/ready", "/metrics", "/api/v1/auth/register",
     "/api/v1/auth/login", "/api/v1/auth/refresh", "/api/v1/auth/logout",
     "/api/v1/users/me", "/api/v1/admin/users"}
NormalRoute(path) == IF path \in KnownRoutes THEN path ELSE "other"

HistKey(method, path) ==
    [method |-> NormalMethod(method), route |-> NormalRoute(path)]
CounterKey(method, path, status) ==
    [method |-> NormalMethod(method), route |-> NormalRoute(path),
     status |-> status, outcome |-> Outcome(status)]

\* Histogram::new and observe: the buckets are cumulative.
NewHistogram == [buckets |-> [b \in 1..Buckets |-> 0], count |-> 0]
ObservedOneBucketSlip(h, latency) ==
    [buckets |-> [b \in 1..Buckets |-> h.buckets[b] + IF latency = b THEN 1 ELSE 0],
     count |-> h.count + 1]
Observed(h, latency) ==
    [buckets |-> [b \in 1..Buckets |-> h.buckets[b] + IF latency <= b THEN 1 ELSE 0],
     count |-> h.count + 1]

\* observe_request, under one lock: the counters and the histograms it leaves.
Counted(counters, method, path, status) ==
    Bag!BagAdd(counters, CounterKey(method, path, status))
Timed(hists, method, path, latency) ==
    LET key == HistKey(method, path)
        h == IF key \in DOMAIN hists THEN hists[key] ELSE NewHistogram
    IN  [k \in DOMAIN hists \cup {key} |->
            IF k = key THEN Observed(h, latency) ELSE hists[k]]

-----------------------------------------------------------------------------
(* Log documents.                                                          *)

\* telemetry::init: the level from which events and spans are enabled.  A filter
\* that does not parse is replaced; an empty one lets errors through only.
FilterLevel(filter) ==
    CASE filter.shape = "blank" -> "error"
      [] filter.shape = "junk"  -> "info"
      [] OTHER                  -> filter.val
Severity == [error |-> 3, warn |-> 2, info |-> 1]
Enabled(filter, level) == Severity[level] >= Severity[FilterLevel(filter)]

AppTarget == <<"websitebase_backend">>
SelfTarget == <<"websitebase_backend", "monitoring">>

\* on_event: the events of the crate, but not those of the shipping itself.
ShippedAllSlip(target) == IsPrefix(AppTarget, target)
Shipped(target) == IsPrefix(AppTarget, target) /\ ~IsPrefix(SelfTarget, target)

\* The request id of an event: its own field, or else the correlation id of the
\* nearest span that has one.
RequestId(field, spans) ==
    IF field # {} THEN field
    ELSE IF \E i \in DOMAIN spans : spans[i] # {}
         THEN spans[CHOOSE i \in DOMAIN spans :
                        spans[i] # {} /\ \A j \in 1..(i - 1) : spans[j] = {}]
         ELSE {}

EventDoc(target, level, id, code) ==
    [kind |-> "event", level |-> level, target |-> target, request_id |-> id,
     error_code |-> code]

AccessDoc(id, method, path, status, code) ==
    [kind |-> "access", level |-> "info", request_id |-> {id}, method |-> method,
     path |-> path, status |-> status, outcome |-> Outcome(status),
     error_code |-> code]
=============================================================================
