---------------------------- MODULE ServerProofs ----------------------------
(***************************************************************************)
(* Proofs about Server, for any environments, calls and bounds: what a     *)
(* process that serves can rely on; the registry and the access log, which *)
(* have each request once whatever the interleaving, because each of their *)
(* entries counts the requests that are past it; and the series, which     *)
(* never go back.                                                          *)
(***************************************************************************)
EXTENDS Server, SequenceTheorems, FiniteSetTheorems, TLAPS

-----------------------------------------------------------------------------
(* The configuration.                                                      *)

LEMMA WidthTypes ==
    /\ MaxU32 \in Nat /\ MaxU32 >= 30
    /\ MaxU64 \in Nat /\ MaxU64 >= 2592000
BY WidthAssumption

LEMMA AtLeastOnePositive == ASSUME NEW n \in Nat PROVE AtLeastOne(n) > 0
BY DEF AtLeastOne

\* A setting that was admitted is of its type, given or not.
LEMMA ParsedTyped ==
    ASSUME NEW v, NEW type, NEW default \in type, OptParses(v, type)
    PROVE  OptParse(v, default) \in type
BY DEF OptParses, OptParse

LEMMA RedisSound ==
    ASSUME NEW e, RedisAdmits(e)
    PROVE  /\ RedisConfig(e).auth_rate_limit_max > 0
           /\ RedisConfig(e).auth_rate_limit_window > 0
<1> DEFINE m == OptParse(e.AUTH_RATE_LIMIT_MAX, 30)
           w == OptParse(e.AUTH_RATE_LIMIT_WINDOW_SECONDS, 60)
<1>1. 30 \in U32 /\ 60 \in U64
  BY WidthTypes DEF U32, U64
<1>2. OptParses(e.AUTH_RATE_LIMIT_MAX, U32) /\ OptParses(e.AUTH_RATE_LIMIT_WINDOW_SECONDS, U64)
  BY DEF RedisAdmits
<1>3. m \in U32 /\ w \in U64
  BY <1>1, <1>2, ParsedTyped
<1>4. m \in Nat /\ w \in Nat
  BY <1>3, WidthTypes DEF U32, U64
<1> HIDE DEF m, w
<1>5. AtLeastOne(m) > 0 /\ AtLeastOne(w) > 0
  BY <1>4, AtLeastOnePositive
<1> QED BY <1>5 DEF RedisConfig, m, w

LEMMA MonitoringSound ==
    ASSUME NEW e, MonitoringAdmits(e), MonitoringWanted(e)
    PROVE  /\ MonitoringConfig(e).batch_size > 0
           /\ MonitoringConfig(e).channel_capacity > 0
           /\ MonitoringConfig(e).flush_interval > 0
           /\ MonitoringConfig(e).base_url # "https" =>
                 /\ MonitoringConfig(e).base_url = "http"
                 /\ Given(e.OPENSEARCH_ALLOW_INSECURE) /\ e.OPENSEARCH_ALLOW_INSECURE.val
<1> DEFINE b == OptParse(e.OPENSEARCH_BATCH_SIZE, 500)
           f == OptParse(e.OPENSEARCH_FLUSH_INTERVAL_SECONDS, 2)
           c == OptParse(e.OPENSEARCH_CHANNEL_CAPACITY, 10000)
<1>1. 500 \in U64 /\ 2 \in U64 /\ 10000 \in U64
  BY WidthTypes DEF U64
<1>2. /\ OptParses(e.OPENSEARCH_BATCH_SIZE, U64)
      /\ OptParses(e.OPENSEARCH_FLUSH_INTERVAL_SECONDS, U64)
      /\ OptParses(e.OPENSEARCH_CHANNEL_CAPACITY, U64)
      /\ SchemeAdmitted(e)
  BY DEF MonitoringAdmits
<1>3. b \in U64 /\ f \in U64 /\ c \in U64
  BY <1>1, <1>2, ParsedTyped
<1>4. b \in Nat /\ f \in Nat /\ c \in Nat
  BY <1>3, WidthTypes DEF U64
<1> HIDE DEF b, f, c
<1>5. AtLeastOne(b) > 0 /\ AtLeastOne(f) > 0 /\ AtLeastOne(c) > 0
  BY <1>4, AtLeastOnePositive
<1>6. /\ MonitoringConfig(e).batch_size = AtLeastOne(b)
      /\ MonitoringConfig(e).flush_interval = AtLeastOne(f)
      /\ MonitoringConfig(e).channel_capacity = AtLeastOne(c)
      /\ MonitoringConfig(e).base_url = e.OPENSEARCH_URL.val
  BY DEF MonitoringConfig, b, f, c
<1>7. e.OPENSEARCH_URL.val # "https" =>
          /\ e.OPENSEARCH_URL.val = "http"
          /\ Given(e.OPENSEARCH_ALLOW_INSECURE) /\ e.OPENSEARCH_ALLOW_INSECURE.val
  BY <1>2, Zenon DEF SchemeAdmitted, OptParse
<1> QED BY <1>5, <1>6, <1>7

\* What the loading admits is sound, whatever the environment.
THEOREM AdmittedIsSound ==
    ASSUME NEW e, Admits(e)
    PROVE  Sound(e)
<1> DEFINE c == Config(e)
<1>1. RedisAdmits(e) /\ MonitoringAdmits(e) /\ SecretLongEnough(e) /\ OriginsGiven(e)
  BY DEF Admits
<1>2. /\ c.jwt_secret = e.JWT_SECRET.val
      /\ c.cors_allowed_origins = e.CORS_ALLOWED_ORIGINS.val
      /\ c.redis = RedisConfig(e)
      /\ c.monitoring = IF MonitoringWanted(e) THEN {MonitoringConfig(e)} ELSE {}
  BY DEF Config
<1> HIDE DEF c
<1>3. c.jwt_secret >= 32
  BY <1>1, <1>2 DEF SecretLongEnough
<1>4. c.cors_allowed_origins # {}
  BY <1>1, <1>2 DEF OriginsGiven
<1>5. c.redis.auth_rate_limit_max > 0 /\ c.redis.auth_rate_limit_window > 0
  BY <1>1, <1>2, RedisSound
<1>6. \A m \in c.monitoring : m = MonitoringConfig(e) /\ MonitoringWanted(e)
  BY <1>2
<1>7. \A m \in c.monitoring :
          /\ m.batch_size > 0 /\ m.channel_capacity > 0 /\ m.flush_interval > 0
          /\ m.base_url # "https" =>
                 /\ m.base_url = "http"
                 /\ Given(e.OPENSEARCH_ALLOW_INSECURE) /\ e.OPENSEARCH_ALLOW_INSECURE.val
  BY <1>1, <1>6, MonitoringSound
<1> QED BY <1>3, <1>4, <1>5, <1>7 DEF Sound, c

\* Raised to one, a setting is a positive number.
LEMMA RaisedTyped ==
    ASSUME NEW v, NEW width \in Nat, NEW default \in 0..width, OptParses(v, 0..width)
    PROVE  /\ OptParse(v, default) \in Nat
           /\ AtLeastOne(OptParse(v, default)) \in Nat \ {0}
<1>1. OptParse(v, default) \in 0..width
  BY ParsedTyped
<1>2. PICK n \in Nat : n = OptParse(v, default)
  BY <1>1
<1>3. AtLeastOne(n) \in Nat \ {0}
  BY DEF AtLeastOne
<1> QED BY <1>2, <1>3

\* The settings that the loading admits are what the other modules assume of their
\* constants: the sizes of LogShipper, and the limits of AuthFlow except the number of
\* attempts, which may be negative.
THEOREM AdmittedMeetsAssumptions ==
    ASSUME NEW e, Admits(e)
    PROVE  /\ \A m \in Config(e).monitoring :
                  m.channel_capacity \in Nat \ {0} /\ m.batch_size \in Nat \ {0}
           /\ Config(e).redis.auth_rate_limit_max \in Nat \ {0}
           /\ Config(e).redis.auth_rate_limit_window \in Nat \ {0}
           /\ Config(e).login_lockout \in Nat
           /\ Config(e).request_timeout \in Nat
           /\ Config(e).login_max_failed_attempts \in Int
<1>1. RedisAdmits(e) /\ MonitoringAdmits(e)
      /\ OptParses(e.LOGIN_LOCKOUT_SECONDS, U64) /\ OptParses(e.REQUEST_TIMEOUT_SECONDS, U64)
      /\ OptParses(e.LOGIN_MAX_FAILED_ATTEMPTS, I32)
  BY DEF Admits
<1>2. /\ MaxU32 \in Nat /\ MaxU64 \in Nat /\ MaxI32 \in Nat
      /\ 30 \in 0..MaxU32
      /\ 60 \in 0..MaxU64 /\ 900 \in 0..MaxU64 /\ 15 \in 0..MaxU64
      /\ 500 \in 0..MaxU64 /\ 10000 \in 0..MaxU64
  BY WidthAssumption
<1>3. Config(e).login_lockout \in Nat /\ Config(e).request_timeout \in Nat
  BY <1>1, <1>2, RaisedTyped DEF Config, U64
<1>4. Config(e).login_max_failed_attempts \in Int
  <2>1. I32 \subseteq Int /\ 5 \in I32
    BY WidthAssumption, SMT DEF I32
  <2>2. OptParse(e.LOGIN_MAX_FAILED_ATTEMPTS, 5) \in I32
    BY <1>1, <2>1, ParsedTyped
  <2>3. Config(e).login_max_failed_attempts = OptParse(e.LOGIN_MAX_FAILED_ATTEMPTS, 5)
    BY DEF Config
  <2> QED BY <2>1, <2>2, <2>3
<1>5. /\ RedisConfig(e).auth_rate_limit_max \in Nat \ {0}
      /\ RedisConfig(e).auth_rate_limit_window \in Nat \ {0}
  <2>1. OptParses(e.AUTH_RATE_LIMIT_MAX, 0..MaxU32)
        /\ OptParses(e.AUTH_RATE_LIMIT_WINDOW_SECONDS, 0..MaxU64)
    BY <1>1 DEF RedisAdmits, U32, U64
  <2> QED BY <1>2, <2>1, RaisedTyped DEF RedisConfig
<1>6. ASSUME NEW m \in Config(e).monitoring
      PROVE  m.channel_capacity \in Nat \ {0} /\ m.batch_size \in Nat \ {0}
  <2>1. MonitoringWanted(e) /\ m = MonitoringConfig(e)
    BY DEF Config
  <2>2. OptParses(e.OPENSEARCH_CHANNEL_CAPACITY, 0..MaxU64)
        /\ OptParses(e.OPENSEARCH_BATCH_SIZE, 0..MaxU64)
    BY <1>1, <2>1 DEF MonitoringAdmits, U64
  <2> QED BY <1>2, <2>1, <2>2, RaisedTyped DEF MonitoringConfig
<1>7. Config(e).redis = RedisConfig(e)
  BY DEF Config
<1> QED BY <1>3, <1>4, <1>5, <1>6, <1>7

-----------------------------------------------------------------------------
(* The start.                                                              *)

Configured == {"pool", "store", "monitoring", "bind", "serving", "draining"}
Connected == {"store", "monitoring", "bind", "serving", "draining"}
Stored == {"monitoring", "bind", "serving", "draining"}

\* Each phase has behind it what the steps before it have checked.
StartInv ==
    /\ phase \in Configured => Admits(env)
    /\ phase \in Connected => "database" \in reached
    /\ phase \in Stored => "redis" \in reached
    /\ reached \subseteq {"database", "redis"}

LEMMA ServingKeepsStart ==
    ASSUME NEW i, Serving(i)
    PROVE  UNCHANGED start
BY DEF Serving, Emit, AnswerSilently, Fail, Readiness, Scrape, Timeout, Drop,
       Observe, LogAccess

LEMMA StartInvNext == StartInv /\ [Next]_vars => StartInv'
<1> SUFFICES ASSUME StartInv, [Next]_vars PROVE StartInv'
  OBVIOUS
<1> USE DEF StartInv, Configured, Connected, Stored
<1>1. CASE LoadConfig
  BY <1>1 DEF LoadConfig, End
<1>2. CASE OpenPool
  BY <1>2 DEF OpenPool, End
<1>3. CASE ConnectStore
  BY <1>3 DEF ConnectStore, End
<1>4. CASE StartMonitoring
  BY <1>4 DEF StartMonitoring, End
<1>5. CASE Listen
  BY <1>5 DEF Listen, End
<1>6. ASSUME NEW call \in Calls, Receive(call) PROVE StartInv'
  BY <1>6 DEF Receive, start
<1>7. ASSUME NEW i \in DOMAIN requests, Serving(i) PROVE StartInv'
  BY <1>7, ServingKeepsStart DEF start
<1>8. CASE ShipperWarns
  BY <1>8 DEF ShipperWarns, start
<1>9. CASE Signal
  BY <1>9 DEF Signal
<1>10. CASE Exit \/ Kill
  BY <1>10 DEF Exit, Kill, End, Forget
<1>11. CASE UNCHANGED vars
  BY <1>11 DEF vars, start
<1> QED BY <1>1, <1>2, <1>3, <1>4, <1>5, <1>6, <1>7, <1>8, <1>9, <1>10, <1>11
        DEF Next, Starting

\* A process that serves has a sound configuration, and has reached the database
\* and the store, for every environment it may be started in.
THEOREM ServiceIsSound == Spec => []ServesSoundly
<1>1. Init => StartInv
  BY DEF Init, StartInv, Configured, Connected, Stored
<1>2. StartInv => ServesSoundly
  BY AdmittedIsSound DEF StartInv, ServesSoundly, Up, Configured, Connected, Stored
<1> QED BY <1>1, <1>2, StartInvNext, PTL DEF Spec

-----------------------------------------------------------------------------
(* The types.                                                              *)

\* A bag, or the histograms, after one more member.
PositiveBag(b) == \A k \in DOMAIN b : b[k] \in Nat \ {0}
PositiveHists(h) == \A k \in DOMAIN h : h[k].count \in Nat \ {0}

LEMMA BagAddFacts ==
    ASSUME NEW b, NEW x, PositiveBag(b)
    PROVE  /\ PositiveBag(Bag!BagAdd(b, x))
           /\ DOMAIN Bag!BagAdd(b, x) = DOMAIN b \cup {x}
           /\ \A k \in DOMAIN b : k # x => Bag!BagAdd(b, x)[k] = b[k]
           /\ Bag!BagAdd(b, x)[x] = IF x \in DOMAIN b THEN b[x] + 1 ELSE 1
<1> DEFINE a == Bag!BagAdd(b, x)
<1>1. CASE x \in DOMAIN b
  <2>1. a = [e \in DOMAIN b |-> IF e = x THEN b[e] + 1 ELSE b[e]]
    BY <1>1 DEF Bag!BagAdd
  <2>2. DOMAIN a = DOMAIN b \cup {x}
    BY <1>1, <2>1
  <2>3. a[x] = b[x] + 1 /\ \A k \in DOMAIN b : k # x => a[k] = b[k]
    BY <1>1, <2>1
  <2> HIDE DEF a
  <2>4. PositiveBag(a)
    BY <1>1, <2>2, <2>3 DEF PositiveBag
  <2> QED BY <1>1, <2>2, <2>3, <2>4 DEF a
<1>2. CASE x \notin DOMAIN b
  <2>1. a = [e \in DOMAIN b \cup {x} |-> IF e = x THEN 1 ELSE b[e]]
    BY <1>2 DEF Bag!BagAdd
  <2>2. DOMAIN a = DOMAIN b \cup {x}
    BY <2>1
  <2>3. a[x] = 1 /\ \A k \in DOMAIN b : k # x => a[k] = b[k]
    BY <1>2, <2>1
  <2> HIDE DEF a
  <2>4. PositiveBag(a)
    BY <1>2, <2>2, <2>3 DEF PositiveBag
  <2> QED BY <1>2, <2>2, <2>3, <2>4 DEF a
<1> QED BY <1>1, <1>2

LEMMA TimedFacts ==
    ASSUME NEW h, NEW method, NEW path, NEW latency, PositiveHists(h)
    PROVE  /\ PositiveHists(Timed(h, method, path, latency))
           /\ \A k \in DOMAIN h :
                 /\ k \in DOMAIN Timed(h, method, path, latency)
                 /\ h[k].count <= Timed(h, method, path, latency)[k].count
<1> DEFINE key == HistKey(method, path)
           old == IF key \in DOMAIN h THEN h[key] ELSE NewHistogram
           t == Timed(h, method, path, latency)
<1>1. old.count \in Nat
  BY DEF PositiveHists, NewHistogram
<1>2. Observed(old, latency).count = old.count + 1
  BY DEF Observed
<1>3. /\ DOMAIN t = DOMAIN h \cup {key}
      /\ \A k \in DOMAIN t : t[k] = IF k = key THEN Observed(old, latency) ELSE h[k]
  BY DEF Timed
<1>4. key \in DOMAIN h => old = h[key]
  OBVIOUS
<1> HIDE DEF key, old, t
<1>5. ASSUME NEW k \in DOMAIN t PROVE t[k].count \in Nat \ {0}
  BY <1>1, <1>2, <1>3 DEF PositiveHists
<1>6. ASSUME NEW k \in DOMAIN h PROVE k \in DOMAIN t /\ h[k].count <= t[k].count
  BY <1>1, <1>2, <1>3, <1>4 DEF PositiveHists
<1> QED BY <1>5, <1>6 DEF PositiveHists, t

LEMMA AnswerTypes ==
    /\ NoAnswer \in Answers
    /\ \A s \in {0, 200, 400, 405, 408, 429, 500, 503} : Answer(s, {}) \in Answers
    /\ \A k \in Failures : Answer(ApiError[k].status, {ApiError[k].code}) \in Answers
<1>1. \A s \in {0, 200, 400, 405, 408, 429, 500, 503} : Answer(s, {}) \in Answers
  BY DEF Answers
<1>2. \A k \in Failures : Answer(ApiError[k].status, {ApiError[k].code}) \in Answers
  BY FailuresAssumption DEF Answers
<1>3. NoAnswer \in Answers
  BY <1>1 DEF NoAnswer
<1> QED BY <1>1, <1>2, <1>3

\* A request that goes on: the others are as they were.
LEMMA BecomeFacts ==
    ASSUME requests \in Seq(Request), NEW i \in DOMAIN requests,
           NEW pc \in PC, NEW answer \in Answers, Become(i, pc, answer)
    PROVE  /\ requests' \in Seq(Request)
           /\ Len(requests') = Len(requests)
           /\ DOMAIN requests' = DOMAIN requests
           /\ requests'[i] = [call |-> requests[i].call, pc |-> pc, answer |-> answer]
           /\ \A j \in DOMAIN requests : j # i => requests'[j] = requests[j]
<1> DEFINE r == [call |-> requests[i].call, pc |-> pc, answer |-> answer]
<1>1. Len(requests) \in Nat /\ DOMAIN requests = 1..Len(requests)
  BY LenProperties
<1>2. requests[i] \in Request
  BY <1>1, ElementOfSeq
<1>3. r \in Request
  BY <1>2 DEF Request
<1>4. requests' = [requests EXCEPT ![i] = r]
  BY DEF Become
<1> HIDE DEF r
<1>5. /\ requests' \in Seq(Request) /\ Len(requests') = Len(requests)
      /\ \A j \in 1..Len(requests) : requests'[j] = IF j = i THEN r ELSE requests[j]
  BY <1>1, <1>3, <1>4, ExceptSeq
<1>6. DOMAIN requests' = 1..Len(requests)
  BY <1>5, LenProperties
<1> QED BY <1>1, <1>5, <1>6 DEF r

\* The type invariant in parts.
StartTypes ==
    /\ env \in Envs
    /\ phase \in Phases
    /\ exit \in {"none", "ok", "failed", "killed"}
    /\ reached \subseteq {"database", "redis"}
HandleType == handle \in BOOLEAN
RequestTypes == requests \in Seq(Request) /\ Len(requests) <= MaxRequests
RegistryTypes == PositiveBag(counters) /\ PositiveHists(hists)
DocTypes == PositiveBag(docs)
Types == StartTypes /\ HandleType /\ RequestTypes /\ RegistryTypes /\ DocTypes

LEMMA TypesAreTypeOK == Types => TypeOK
BY DEF Types, StartTypes, HandleType, RequestTypes, RegistryTypes, DocTypes,
       PositiveBag, PositiveHists, TypeOK

-----------------------------------------------------------------------------
(* The shapes of a step.                                                   *)

\* Nothing enters the metrics, and at most an event enters the log.
Quiet ==
    /\ counters' = counters /\ hists' = hists
    /\ \/ docs' = docs
       \/ \E d : d.kind = "event" /\ docs' = Bag!BagAdd(docs, d)

\* A request gets its answer, or is dropped.
Responds(i) ==
    /\ requests[i].pc = "handling"
    /\ \E pc \in {"answered", "dropped"}, answer \in Answers : Become(i, pc, answer)
    /\ Quiet

\* An answered request enters the metrics, or is a scrape and does not.
Counts(i) ==
    /\ requests[i].pc = "answered" /\ Instrumented(requests[i].call)
    /\ counters' = Bag!BagAdd(counters, KeyOf(i))
    /\ \E latency : hists' = Timed(hists, requests[i].call.method, requests[i].call.path, latency)
    /\ Become(i, "counted", requests[i].answer)
    /\ docs' = docs
Skips(i) ==
    /\ requests[i].pc = "answered" /\ ~Instrumented(requests[i].call)
    /\ Become(i, "done", requests[i].answer)
    /\ counters' = counters /\ hists' = hists /\ docs' = docs

\* A counted request enters the log.
Logs(i) ==
    /\ requests[i].pc = "counted"
    /\ docs' = IF handle THEN Bag!BagAdd(docs, AccessOf(i)) ELSE docs
    /\ Become(i, "done", requests[i].answer)
    /\ counters' = counters /\ hists' = hists

LEMMA WithEventQuiet ==
    ASSUME NEW target, NEW level, NEW spans, NEW code,
           docs' = WithEvent(target, level, spans, code) \/ docs' = docs,
           counters' = counters, hists' = hists
    PROVE  Quiet
<1>1. \A id : EventDoc(target, level, id, code).kind = "event"
  BY DEF EventDoc
<1> QED BY <1>1 DEF Quiet, WithEvent

LEMMA ServingShape ==
    ASSUME NEW i \in DOMAIN requests, Serving(i)
    PROVE  \/ Responds(i)
           \/ requests' = requests /\ Quiet
           \/ Counts(i) \/ Skips(i) \/ Logs(i)
<1> USE DEF registry
<1>1. ASSUME NEW level \in {"info", "warn"}, Emit(i, level)
      PROVE  requests' = requests /\ Quiet
  BY <1>1, WithEventQuiet DEF Emit
<1>2. CASE AnswerSilently(i)
  <2>1. \A status \in SilentStatuses(requests[i].call) : Answer(status, {}) \in Answers
    BY AnswerTypes DEF SilentStatuses
  <2>2. Quiet
    BY <1>2 DEF AnswerSilently, Quiet
  <2> QED BY <1>2, <2>1, <2>2 DEF AnswerSilently, Handling, Responds
<1>3. ASSUME NEW kind \in Failures, Fail(i, kind) PROVE Responds(i)
  <2>1. Quiet
    BY <1>3, WithEventQuiet DEF Fail
  <2> QED BY <1>3, <2>1, AnswerTypes DEF Fail, Handling, Responds
<1>4. CASE Readiness(i)
  <2>1. Quiet
    BY <1>4, WithEventQuiet DEF Readiness
  <2>2. \E status \in {200, 503} : Become(i, "answered", Answer(status, {}))
    BY <1>4 DEF Readiness
  <2>3. \A status \in {200, 503} : Answer(status, {}) \in Answers
    BY AnswerTypes
  <2> QED BY <1>4, <2>1, <2>2, <2>3 DEF Readiness, Handling, Responds
<1>5. CASE Scrape(i)
  <2>1. Answer(200, {}) \in Answers
    BY AnswerTypes
  <2> QED BY <1>5, <2>1 DEF Scrape, Handling, Responds, Quiet
<1>6. CASE Timeout(i)
  <2>1. Answer(408, {}) \in Answers
    BY AnswerTypes
  <2> QED BY <1>6, <2>1 DEF Timeout, Handling, Responds, Quiet
<1>7. CASE Drop(i)
  BY <1>7, AnswerTypes DEF Drop, Handling, Responds, Quiet
<1>8. CASE Observe(i)
  BY <1>8 DEF Observe, Counts, Skips, Counted, KeyOf
<1>9. CASE LogAccess(i)
  BY <1>9 DEF LogAccess, Logs, AccessOf
<1> QED BY <1>1, <1>2, <1>3, <1>4, <1>5, <1>6, <1>7, <1>8, <1>9 DEF Serving

-----------------------------------------------------------------------------
(* The invariant.                                                          *)

\* Before the listener is there no request is, and none is remembered after.
Early == phase \notin Up => requests = <<>>

CountedOnly == \A i \in DOMAIN requests :
                  requests[i].pc = "counted" => Instrumented(requests[i].call)

\* The requests that a key of the registry, or a document of the log, stands for.
RequestsOf(k) == {i \in DOMAIN requests : InRegistry(i) /\ KeyOf(i) = k}
AccessesOf(d) == {i \in DOMAIN requests : Logged(i) /\ AccessOf(i) = d}
RegistryExact == \A k : Copies(k, counters) = Cardinality(RequestsOf(k))
LogExact == \A d : d.kind = "access" => Copies(d, docs) = Cardinality(AccessesOf(d))

Inv == Types /\ Early /\ CountedOnly /\ RegistryExact /\ LogExact

LEMMA CopiesAdded ==
    ASSUME NEW b, NEW x, PositiveBag(b)
    PROVE  \A k : Copies(k, Bag!BagAdd(b, x)) = Copies(k, b) + IF k = x THEN 1 ELSE 0
<1> DEFINE a == Bag!BagAdd(b, x)
<1>1. /\ DOMAIN a = DOMAIN b \cup {x}
      /\ \A k \in DOMAIN b : k # x => a[k] = b[k]
      /\ a[x] = IF x \in DOMAIN b THEN b[x] + 1 ELSE 1
  BY BagAddFacts
<1> HIDE DEF a
<1>2. ASSUME NEW k, k # x PROVE Copies(k, a) = Copies(k, b) + 0
  <2>1. k \in DOMAIN a <=> k \in DOMAIN b
    BY <1>1, <1>2
  <2>2. CASE k \in DOMAIN b
    BY <1>1, <1>2, <2>1, <2>2 DEF Copies, PositiveBag
  <2>3. CASE k \notin DOMAIN b
    BY <1>2, <2>1, <2>3 DEF Copies
  <2> QED BY <2>2, <2>3
<1>3. Copies(x, a) = Copies(x, b) + 1
  <2>1. x \in DOMAIN a
    BY <1>1
  <2>2. CASE x \in DOMAIN b
    BY <1>1, <2>1, <2>2 DEF Copies
  <2>3. CASE x \notin DOMAIN b
    BY <1>1, <2>1, <2>3 DEF Copies
  <2> QED BY <2>2, <2>3
<1> QED BY <1>2, <1>3 DEF a

\* A set of requests, and what one more makes of its size.
LEMMA OneMore ==
    ASSUME NEW S, IsFiniteSet(S), NEW x, x \notin S
    PROVE  Cardinality(S \cup {x}) = Cardinality(S) + 1
BY FS_AddElement

LEMMA FiniteDomain ==
    ASSUME RequestTypes
    PROVE  IsFiniteSet(DOMAIN requests)
<1>1. Len(requests) \in Nat /\ DOMAIN requests = 1..Len(requests)
  BY LenProperties DEF RequestTypes
<1> QED BY <1>1, FS_Interval

LEMMA SizesTyped ==
    ASSUME RequestTypes
    PROVE  /\ \A k : IsFiniteSet(RequestsOf(k)) /\ Cardinality(RequestsOf(k)) \in Nat
           /\ \A d : IsFiniteSet(AccessesOf(d)) /\ Cardinality(AccessesOf(d)) \in Nat
<1>1. IsFiniteSet(DOMAIN requests)
  BY FiniteDomain
<1>2. \A k : RequestsOf(k) \in SUBSET DOMAIN requests
  BY DEF RequestsOf
<1>3. \A d : AccessesOf(d) \in SUBSET DOMAIN requests
  BY DEF AccessesOf
<1>4. \A k : IsFiniteSet(RequestsOf(k))
  BY <1>1, <1>2, FS_Subset
<1>5. \A d : IsFiniteSet(AccessesOf(d))
  BY <1>1, <1>3, FS_Subset
<1> QED BY <1>4, <1>5, FS_CardinalityType

\* While no request enters or leaves the registry or the log, and the bags keep
\* their counts, both stay exact.
LEMMA ExactKept ==
    ASSUME RegistryExact, LogExact, handle' = handle,
           \A i : i \in DOMAIN requests' /\ InRegistry(i)' <=>
                  i \in DOMAIN requests /\ InRegistry(i),
           \A i \in DOMAIN requests : InRegistry(i) => KeyOf(i)' = KeyOf(i),
           \A i : i \in DOMAIN requests' /\ Logged(i)' <=> i \in DOMAIN requests /\ Logged(i),
           \A i \in DOMAIN requests : Logged(i) => AccessOf(i)' = AccessOf(i),
           counters' = counters,
           \A d : d.kind = "access" => Copies(d, docs') = Copies(d, docs)
    PROVE  RegistryExact' /\ LogExact'
<1>1. \A k : RequestsOf(k)' = RequestsOf(k)
  BY DEF RequestsOf
<1>2. \A d : AccessesOf(d)' = AccessesOf(d)
  BY DEF AccessesOf
<1>3. RegistryExact'
  BY <1>1 DEF RegistryExact
<1>4. LogExact'
  BY <1>2 DEF LogExact
<1> QED BY <1>3, <1>4

LEMMA QuietDocs ==
    ASSUME DocTypes, Quiet
    PROVE  DocTypes' /\ \A d : d.kind = "access" => Copies(d, docs') = Copies(d, docs)
<1>1. CASE docs' = docs
  BY <1>1 DEF DocTypes
<1>2. ASSUME NEW x, x.kind = "event", docs' = Bag!BagAdd(docs, x)
      PROVE  DocTypes' /\ \A d : d.kind = "access" => Copies(d, docs') = Copies(d, docs)
  <2>1. PositiveBag(docs')
    BY <1>2, BagAddFacts DEF DocTypes
  <2>2. \A d : d # x => Copies(d, docs') = Copies(d, docs) + 0
    BY <1>2, CopiesAdded DEF DocTypes
  <2>3. \A d : Copies(d, docs) \in Nat
    BY DEF Copies, DocTypes, PositiveBag
  <2>4. \A d : d.kind = "access" => d # x
    BY <1>2
  <2>5. \A d : d # x => Copies(d, docs') = Copies(d, docs)
    BY <2>2, <2>3
  <2> QED BY <2>1, <2>4, <2>5 DEF DocTypes
<1> QED BY <1>1, <1>2 DEF Quiet

\* A start step, or the end: there are no requests before, or none after.
LEMMA NoRequests ==
    ASSUME requests = <<>>
    PROVE  /\ RequestTypes /\ CountedOnly
           /\ \A k : Cardinality(RequestsOf(k)) = 0
           /\ \A d : Cardinality(AccessesOf(d)) = 0
<1>1. DOMAIN requests = {}
  OBVIOUS
<1>2. RequestTypes
  BY EmptySeq, BoundsAssumption DEF RequestTypes
<1>3. \A k : RequestsOf(k) = {}
  BY <1>1 DEF RequestsOf
<1>4. \A d : AccessesOf(d) = {}
  BY <1>1 DEF AccessesOf
<1>5. Cardinality({}) = 0
  BY FS_EmptySet
<1> QED BY <1>1, <1>2, <1>3, <1>4, <1>5 DEF CountedOnly

LEMMA NoRequestsNext ==
    ASSUME requests' = <<>>
    PROVE  /\ RequestTypes' /\ CountedOnly'
           /\ \A k : Cardinality(RequestsOf(k)') = 0
           /\ \A d : Cardinality(AccessesOf(d)') = 0
<1>1. DOMAIN requests' = {}
  OBVIOUS
<1>2. RequestTypes'
  BY EmptySeq, BoundsAssumption DEF RequestTypes
<1>3. \A k : RequestsOf(k)' = {}
  BY <1>1 DEF RequestsOf
<1>4. \A d : AccessesOf(d)' = {}
  BY <1>1 DEF AccessesOf
<1>5. Cardinality({}) = 0
  BY FS_EmptySet
<1> QED BY <1>1, <1>2, <1>3, <1>4, <1>5 DEF CountedOnly

LEMMA InitInv == Init => Inv
<1> SUFFICES ASSUME Init PROVE Inv
  OBVIOUS
<1>1. requests = <<>>
  BY DEF Init
<1>2. DOMAIN EmptyBag = {}
  BY DEF EmptyBag, SetToBag
<1>3. counters = EmptyBag /\ hists = EmptyBag /\ docs = EmptyBag
  BY DEF Init
<1>4. RegistryTypes /\ DocTypes
  BY <1>2, <1>3 DEF RegistryTypes, DocTypes, PositiveBag, PositiveHists
<1>5. \A k : Copies(k, counters) = 0 /\ Copies(k, docs) = 0
  BY <1>2, <1>3 DEF Copies
<1>6. StartTypes
  BY DEF Init, StartTypes, Phases
<1>7. HandleType
  BY DEF Init, HandleType
<1> QED BY <1>1, <1>4, <1>5, <1>6, <1>7, NoRequests
        DEF Inv, Types, Early, RegistryExact, LogExact

LEMMA StartInvariance ==
    ASSUME Inv, phase \notin Up, requests' = requests, Quiet, StartTypes', HandleType'
    PROVE  Inv'
<1>1. Types /\ requests = <<>> /\ RegistryExact /\ LogExact
  BY DEF Inv, Early
<1>2. requests' = <<>> /\ counters' = counters /\ hists' = hists
  BY <1>1 DEF Quiet
<1>3. DocTypes' /\ \A d : d.kind = "access" => Copies(d, docs') = Copies(d, docs)
  BY <1>1, QuietDocs DEF Types
<1>4. RegistryTypes'
  BY <1>1, <1>2 DEF Types, RegistryTypes
<1>5. RegistryExact'
  BY <1>1, <1>2, NoRequests, NoRequestsNext DEF RegistryExact
<1>6. LogExact'
  BY <1>1, <1>2, <1>3, NoRequests, NoRequestsNext DEF LogExact
<1> QED BY <1>2, <1>3, <1>4, <1>5, <1>6, NoRequestsNext DEF Inv, Types, Early

\* Each step of the start.
LEMMA StartingInv == ASSUME Inv, Starting PROVE Inv'
<1>1. phase \notin Up
  BY DEF Starting, LoadConfig, OpenPool, ConnectStore, StartMonitoring, Listen, Up
<1>2. StartTypes /\ HandleType
  BY DEF Inv, Types
<1>3. requests' = requests /\ counters' = counters /\ hists' = hists
  BY DEF Starting, LoadConfig, OpenPool, ConnectStore, StartMonitoring, Listen, registry
<1>4. Quiet
  <2>1. CASE LoadConfig \/ OpenPool \/ ConnectStore
    BY <1>3, <2>1 DEF LoadConfig, OpenPool, ConnectStore, Quiet
  <2>2. CASE StartMonitoring
    <3>1. EventDoc(Lib, "info", {}, {}).kind = "event"
      BY DEF EventDoc
    <3> QED BY <1>3, <2>2, <3>1 DEF StartMonitoring, Quiet
  <2>3. CASE Listen
    BY <1>3, <2>3, WithEventQuiet DEF Listen
  <2> QED BY <2>1, <2>2, <2>3 DEF Starting
<1>5. StartTypes'
  <2> USE <1>2 DEF StartTypes, Phases, End
  <2>1. CASE LoadConfig
    BY <2>1 DEF LoadConfig
  <2>2. CASE OpenPool
    BY <2>2 DEF OpenPool
  <2>3. CASE ConnectStore
    BY <2>3 DEF ConnectStore
  <2>4. CASE StartMonitoring
    BY <2>4 DEF StartMonitoring
  <2>5. CASE Listen
    BY <2>5 DEF Listen
  <2> QED BY <2>1, <2>2, <2>3, <2>4, <2>5 DEF Starting
<1>6. HandleType'
  <2>1. CASE handle' = handle
    BY <1>2, <2>1, Zenon DEF HandleType
  <2>2. CASE handle' = (Config(env).monitoring # {})
    BY <2>2, Zenon DEF HandleType
  <2> QED BY <2>1, <2>2 DEF Starting, LoadConfig, OpenPool, ConnectStore, StartMonitoring, Listen
<1> QED BY <1>1, <1>3, <1>4, <1>5, <1>6, StartInvariance

\* Kept by all that follows the start, but the end.
LEMMA UpKeeps ==
    ASSUME StartTypes, HandleType, env' = env, exit' = exit, reached' = reached,
           handle' = handle, phase' \in Phases
    PROVE  StartTypes' /\ HandleType'
<1>1. StartTypes'
  BY DEF StartTypes
<1>2. HandleType'
  BY Zenon DEF HandleType
<1> QED BY <1>1, <1>2

\* A request is only there while the process is up, and a step of one leaves the
\* state of the start alone.
LEMMA ServingUp ==
    ASSUME Inv, NEW i \in DOMAIN requests, UNCHANGED start
    PROVE  phase \in Up /\ StartTypes' /\ HandleType' /\ Early' /\ handle' = handle
           /\ env' = env
<1>1. phase \in Up
  BY DEF Inv, Early
<1>2. /\ env' = env /\ phase' = phase /\ exit' = exit /\ reached' = reached
      /\ handle' = handle
  BY DEF start
<1>3. StartTypes' /\ HandleType'
  BY <1>2, UpKeeps DEF Inv, Types, StartTypes
<1>4. Early'
  BY <1>1, <1>2 DEF Early
<1> QED BY <1>1, <1>2, <1>3, <1>4

LEMMA RespondsInv ==
    ASSUME Inv, NEW i \in DOMAIN requests, UNCHANGED start, Responds(i)
    PROVE  Inv'
<1>1. /\ RequestTypes /\ RegistryTypes /\ DocTypes
      /\ RegistryExact /\ LogExact /\ CountedOnly
  BY DEF Inv, Types
<1>2. PICK pc \in {"answered", "dropped"}, answer \in Answers : Become(i, pc, answer)
  BY DEF Responds
<1>3. Quiet /\ requests[i].pc = "handling"
  BY DEF Responds
<1>4. pc \in PC
  BY DEF PC
<1>5. /\ requests' \in Seq(Request) /\ Len(requests') = Len(requests)
      /\ DOMAIN requests' = DOMAIN requests
      /\ requests'[i] = [call |-> requests[i].call, pc |-> pc, answer |-> answer]
      /\ \A j \in DOMAIN requests : j # i => requests'[j] = requests[j]
  BY <1>1, <1>2, <1>4, BecomeFacts DEF RequestTypes
<1>6. RequestTypes'
  BY <1>1, <1>5 DEF RequestTypes
<1>7. handle' = handle /\ StartTypes' /\ HandleType' /\ Early'
  BY ServingUp
<1>8. requests'[i].pc = pc
  BY <1>5
<1>9. CountedOnly'
  BY <1>1, <1>5, <1>8 DEF CountedOnly
<1>10. \A j : j \in DOMAIN requests' /\ InRegistry(j)' <=> j \in DOMAIN requests /\ InRegistry(j)
  BY <1>3, <1>5, <1>8 DEF InRegistry
<1>11. \A j : j \in DOMAIN requests' /\ Logged(j)' <=> j \in DOMAIN requests /\ Logged(j)
  BY <1>3, <1>5, <1>7, <1>8 DEF Logged
<1>12. \A j \in DOMAIN requests : InRegistry(j) => KeyOf(j)' = KeyOf(j)
  BY <1>3, <1>5 DEF InRegistry, KeyOf
<1>13. \A j \in DOMAIN requests : Logged(j) => AccessOf(j)' = AccessOf(j)
  BY <1>3, <1>5 DEF Logged, AccessOf, LoggedId
<1>14. DocTypes' /\ \A d : d.kind = "access" => Copies(d, docs') = Copies(d, docs)
  BY <1>1, <1>3, QuietDocs
<1>15. counters' = counters /\ RegistryTypes'
  BY <1>1, <1>3 DEF Quiet, RegistryTypes
<1>16. RegistryExact' /\ LogExact'
  BY <1>1, <1>7, <1>10, <1>11, <1>12, <1>13, <1>14, <1>15, ExactKept
<1> QED BY <1>6, <1>7, <1>9, <1>14, <1>15, <1>16 DEF Inv, Types

LEMMA QuietInv ==
    ASSUME Inv, requests' = requests, Quiet, env' = env, handle' = handle,
           StartTypes', HandleType', Early'
    PROVE  Inv'
<1>1. /\ RequestTypes /\ RegistryTypes /\ DocTypes
      /\ RegistryExact /\ LogExact /\ CountedOnly
  BY DEF Inv, Types
<1>2. RequestTypes' /\ CountedOnly'
  BY <1>1 DEF RequestTypes, CountedOnly
<1>3. DocTypes' /\ \A d : d.kind = "access" => Copies(d, docs') = Copies(d, docs)
  BY <1>1, QuietDocs
<1>4. counters' = counters /\ RegistryTypes'
  BY <1>1 DEF Quiet, RegistryTypes
<1>5. \A j : InRegistry(j)' = InRegistry(j) /\ KeyOf(j)' = KeyOf(j)
  BY DEF InRegistry, KeyOf
<1>6. \A j : Logged(j)' = Logged(j) /\ AccessOf(j)' = AccessOf(j)
  BY DEF Logged, AccessOf, LoggedId
<1>7. RegistryExact' /\ LogExact'
  BY <1>1, <1>3, <1>4, <1>5, <1>6, ExactKept
<1> QED BY <1>2, <1>3, <1>4, <1>7 DEF Inv, Types

LEMMA SkipsInv ==
    ASSUME Inv, NEW i \in DOMAIN requests, UNCHANGED start, Skips(i)
    PROVE  Inv'
<1>1. /\ RequestTypes /\ RegistryTypes /\ DocTypes
      /\ RegistryExact /\ LogExact /\ CountedOnly
  BY DEF Inv, Types
<1>2. requests[i] \in Request /\ requests[i].answer \in Answers
  <2>1. requests \in Seq(Request) /\ Len(requests) \in Nat /\ DOMAIN requests = 1..Len(requests)
    BY <1>1, LenProperties DEF RequestTypes
  <2>2. requests[i] \in Request
    BY <2>1, ElementOfSeq
  <2> QED BY <2>2 DEF Request
<1>3. /\ requests' \in Seq(Request) /\ Len(requests') = Len(requests)
      /\ DOMAIN requests' = DOMAIN requests
      /\ requests'[i] = [call |-> requests[i].call, pc |-> "done", answer |-> requests[i].answer]
      /\ \A j \in DOMAIN requests : j # i => requests'[j] = requests[j]
  BY <1>1, <1>2, BecomeFacts DEF RequestTypes, Skips, PC
<1>4. RequestTypes'
  BY <1>1, <1>3 DEF RequestTypes
<1>5. handle' = handle /\ StartTypes' /\ HandleType' /\ Early'
  BY ServingUp
<1>6. requests'[i].pc = "done" /\ requests[i].pc = "answered"
  BY <1>3 DEF Skips
<1>7. CountedOnly'
  BY <1>1, <1>3, <1>6 DEF CountedOnly
<1>8. ~Instrumented(requests[i].call) /\ ~Instrumented(requests'[i].call)
  BY <1>3 DEF Skips
<1>9. \A j : j \in DOMAIN requests' /\ InRegistry(j)' <=> j \in DOMAIN requests /\ InRegistry(j)
  BY <1>3, <1>8 DEF InRegistry
<1>10. \A j : j \in DOMAIN requests' /\ Logged(j)' <=> j \in DOMAIN requests /\ Logged(j)
  BY <1>3, <1>5, <1>8 DEF Logged
<1>11. \A j \in DOMAIN requests : InRegistry(j) => KeyOf(j)' = KeyOf(j)
  BY <1>3, <1>8 DEF InRegistry, KeyOf
<1>12. \A j \in DOMAIN requests : Logged(j) => AccessOf(j)' = AccessOf(j)
  BY <1>3, <1>8 DEF Logged, AccessOf, LoggedId
<1>13. counters' = counters /\ hists' = hists /\ docs' = docs
  BY DEF Skips
<1>14. RegistryTypes' /\ DocTypes'
  BY <1>1, <1>13 DEF RegistryTypes, DocTypes
<1>15. RegistryExact' /\ LogExact'
  BY <1>1, <1>5, <1>9, <1>10, <1>11, <1>12, <1>13, ExactKept
<1> QED BY <1>4, <1>5, <1>7, <1>14, <1>15 DEF Inv, Types

LEMMA CountsInv ==
    ASSUME Inv, NEW i \in DOMAIN requests, UNCHANGED start, Counts(i)
    PROVE  Inv'
<1>1. /\ RequestTypes /\ RegistryTypes /\ DocTypes
      /\ RegistryExact /\ LogExact /\ CountedOnly
  BY DEF Inv, Types
<1>2. requests[i] \in Request /\ requests[i].answer \in Answers
  <2>1. requests \in Seq(Request) /\ Len(requests) \in Nat /\ DOMAIN requests = 1..Len(requests)
    BY <1>1, LenProperties DEF RequestTypes
  <2>2. requests[i] \in Request
    BY <2>1, ElementOfSeq
  <2> QED BY <2>2 DEF Request
<1>3. /\ requests' \in Seq(Request) /\ Len(requests') = Len(requests)
      /\ DOMAIN requests' = DOMAIN requests
      /\ requests'[i] = [call |-> requests[i].call, pc |-> "counted", answer |-> requests[i].answer]
      /\ \A j \in DOMAIN requests : j # i => requests'[j] = requests[j]
  BY <1>1, <1>2, BecomeFacts DEF RequestTypes, Counts, PC
<1>4. RequestTypes'
  BY <1>1, <1>3 DEF RequestTypes
<1>5. handle' = handle /\ StartTypes' /\ HandleType' /\ Early'
  BY ServingUp
<1>6. requests'[i].pc = "counted" /\ requests[i].pc = "answered"
  BY <1>3 DEF Counts
<1>7. Instrumented(requests[i].call) /\ Instrumented(requests'[i].call)
  BY <1>3 DEF Counts
<1>8. CountedOnly'
  BY <1>1, <1>3, <1>6, <1>7 DEF CountedOnly
<1>9. /\ ~InRegistry(i) /\ InRegistry(i)' /\ KeyOf(i)' = KeyOf(i)
      /\ \A j \in DOMAIN requests : j # i =>
             (InRegistry(j)' <=> InRegistry(j)) /\ KeyOf(j)' = KeyOf(j)
  BY <1>3, <1>6, <1>7 DEF InRegistry, KeyOf
<1>10. ASSUME NEW k, k = KeyOf(i)
       PROVE  RequestsOf(k)' = RequestsOf(k) \cup {i} /\ i \notin RequestsOf(k)
  BY <1>3, <1>9, <1>10 DEF RequestsOf
<1>11. \A k : k # KeyOf(i) => RequestsOf(k)' = RequestsOf(k)
  BY <1>3, <1>9 DEF RequestsOf
<1>12. counters' = Bag!BagAdd(counters, KeyOf(i)) /\ PositiveBag(counters)
  BY <1>1 DEF Counts, RegistryTypes
<1>13. PositiveBag(counters')
  BY <1>12, BagAddFacts
<1>14. \A k : Copies(k, counters') = Copies(k, counters) + IF k = KeyOf(i) THEN 1 ELSE 0
  BY <1>12, CopiesAdded
<1>15. \A k : /\ Copies(k, counters) = Cardinality(RequestsOf(k))
              /\ Cardinality(RequestsOf(k)) \in Nat /\ IsFiniteSet(RequestsOf(k))
  BY <1>1, SizesTyped DEF RegistryExact
<1>16. ASSUME NEW k, k = KeyOf(i)
       PROVE  Copies(k, counters') = Cardinality(RequestsOf(k)')
  <2>1. Cardinality(RequestsOf(k)') = Cardinality(RequestsOf(k)) + 1
    BY <1>10, <1>15, <1>16, OneMore
  <2> QED BY <1>14, <1>15, <1>16, <2>1
<1>17. ASSUME NEW k, k # KeyOf(i)
       PROVE  Copies(k, counters') = Cardinality(RequestsOf(k)')
  BY <1>11, <1>14, <1>15, <1>17
<1>18. RegistryExact'
  BY <1>16, <1>17 DEF RegistryExact
<1>19. PositiveHists(hists')
  BY <1>1, TimedFacts DEF Counts, RegistryTypes
<1>20. docs' = docs
  BY DEF Counts
<1>21. \A j \in DOMAIN requests : (Logged(j)' <=> Logged(j)) /\ (Logged(j) => AccessOf(j)' = AccessOf(j))
  BY <1>3, <1>5, <1>6 DEF Logged, AccessOf, LoggedId
<1>22. \A d : AccessesOf(d)' = AccessesOf(d)
  BY <1>3, <1>21 DEF AccessesOf
<1>23. LogExact' /\ DocTypes'
  BY <1>1, <1>20, <1>22 DEF LogExact, DocTypes
<1> QED BY <1>4, <1>5, <1>8, <1>13, <1>18, <1>19, <1>23 DEF Inv, Types, RegistryTypes

LEMMA LogsInv ==
    ASSUME Inv, NEW i \in DOMAIN requests, UNCHANGED start, Logs(i)
    PROVE  Inv'
<1>1. /\ RequestTypes /\ RegistryTypes /\ DocTypes
      /\ RegistryExact /\ LogExact /\ CountedOnly
  BY DEF Inv, Types
<1>2. requests[i] \in Request /\ requests[i].answer \in Answers
  <2>1. requests \in Seq(Request) /\ Len(requests) \in Nat /\ DOMAIN requests = 1..Len(requests)
    BY <1>1, LenProperties DEF RequestTypes
  <2>2. requests[i] \in Request
    BY <2>1, ElementOfSeq
  <2> QED BY <2>2 DEF Request
<1>3. /\ requests' \in Seq(Request) /\ Len(requests') = Len(requests)
      /\ DOMAIN requests' = DOMAIN requests
      /\ requests'[i] = [call |-> requests[i].call, pc |-> "done", answer |-> requests[i].answer]
      /\ \A j \in DOMAIN requests : j # i => requests'[j] = requests[j]
  BY <1>1, <1>2, BecomeFacts DEF RequestTypes, Logs, PC
<1>4. RequestTypes'
  BY <1>1, <1>3 DEF RequestTypes
<1>5. handle' = handle /\ StartTypes' /\ HandleType' /\ Early'
  BY ServingUp
<1>6. requests'[i].pc = "done" /\ requests[i].pc = "counted"
  BY <1>3 DEF Logs
<1>7. Instrumented(requests[i].call) /\ Instrumented(requests'[i].call)
  BY <1>1, <1>3, <1>6 DEF CountedOnly
<1>8. CountedOnly'
  BY <1>1, <1>3, <1>6 DEF CountedOnly
<1>9. counters' = counters /\ hists' = hists
  BY DEF Logs
<1>10. \A j \in DOMAIN requests : (InRegistry(j)' <=> InRegistry(j)) /\ KeyOf(j)' = KeyOf(j)
  BY <1>3, <1>6, <1>7 DEF InRegistry, KeyOf
<1>11. \A k : RequestsOf(k)' = RequestsOf(k)
  BY <1>3, <1>10 DEF RequestsOf
<1>12. RegistryExact' /\ RegistryTypes'
  BY <1>1, <1>9, <1>11 DEF RegistryExact, RegistryTypes
<1>13. /\ AccessOf(i)' = AccessOf(i) /\ ~Logged(i) /\ (Logged(i)' <=> handle)
       /\ \A j \in DOMAIN requests : j # i =>
             (Logged(j)' <=> Logged(j)) /\ AccessOf(j)' = AccessOf(j)
  BY <1>3, <1>5, <1>6, <1>7 DEF Logged, AccessOf, LoggedId
<1>14. \A d : /\ Cardinality(AccessesOf(d)) \in Nat /\ IsFiniteSet(AccessesOf(d))
              /\ d.kind = "access" => Copies(d, docs) = Cardinality(AccessesOf(d))
  BY <1>1, SizesTyped DEF LogExact
<1>15. CASE ~handle
  <2>1. docs' = docs
    BY <1>15 DEF Logs
  <2>2. \A d : AccessesOf(d)' = AccessesOf(d)
    BY <1>3, <1>13, <1>15 DEF AccessesOf
  <2>3. LogExact' /\ DocTypes'
    BY <1>1, <2>1, <2>2 DEF LogExact, DocTypes
  <2> QED BY <1>4, <1>5, <1>8, <1>12, <2>3 DEF Inv, Types
<1>16. CASE handle
  <2>1. docs' = Bag!BagAdd(docs, AccessOf(i)) /\ PositiveBag(docs)
    BY <1>1, <1>16 DEF Logs, DocTypes
  <2>2. DocTypes'
    BY <2>1, BagAddFacts DEF DocTypes
  <2>3. \A d : Copies(d, docs') = Copies(d, docs) + IF d = AccessOf(i) THEN 1 ELSE 0
    BY <2>1, CopiesAdded
  <2>4. ASSUME NEW d, d = AccessOf(i)
        PROVE  AccessesOf(d)' = AccessesOf(d) \cup {i} /\ i \notin AccessesOf(d)
    BY <1>3, <1>13, <1>16, <2>4 DEF AccessesOf
  <2>5. \A d : d # AccessOf(i) => AccessesOf(d)' = AccessesOf(d)
    BY <1>3, <1>13, <1>16 DEF AccessesOf
  <2>6. ASSUME NEW d, d.kind = "access", d = AccessOf(i)
        PROVE  Copies(d, docs') = Cardinality(AccessesOf(d)')
    <3>1. Cardinality(AccessesOf(d)') = Cardinality(AccessesOf(d)) + 1
      BY <1>14, <2>4, <2>6, OneMore
    <3> QED BY <1>14, <2>3, <2>6, <3>1
  <2>7. ASSUME NEW d, d.kind = "access", d # AccessOf(i)
        PROVE  Copies(d, docs') = Cardinality(AccessesOf(d)')
    BY <1>14, <2>3, <2>5, <2>7
  <2>8. LogExact'
    BY <2>6, <2>7 DEF LogExact
  <2> QED BY <1>4, <1>5, <1>8, <1>12, <2>2, <2>8 DEF Inv, Types
<1> QED BY <1>15, <1>16

LEMMA ReceiveInv == ASSUME Inv, NEW call \in Calls, Receive(call) PROVE Inv'
<1> DEFINE n == Len(requests)
           r == [call |-> call, pc |-> "handling", answer |-> NoAnswer]
<1>1. /\ RequestTypes /\ RegistryTypes /\ DocTypes
      /\ RegistryExact /\ LogExact /\ CountedOnly
  BY DEF Inv, Types
<1>2. r \in Request
  BY AnswerTypes DEF Request, PC
<1>3. n \in Nat /\ DOMAIN requests = 1..n /\ n < MaxRequests /\ requests' = Append(requests, r)
  BY <1>1, LenProperties DEF Receive, RequestTypes
<1>4. /\ requests' \in Seq(Request) /\ Len(requests') = n + 1
      /\ \A j \in 1..n : requests'[j] = requests[j]
      /\ requests'[n + 1] = r
  BY <1>1, <1>2, <1>3, AppendProperties DEF RequestTypes
<1>5. DOMAIN requests' = 1..(n + 1)
  BY <1>4, LenProperties
<1>6. requests'[n + 1].pc = "handling"
  BY <1>4
<1> HIDE DEF n, r
<1>7. DOMAIN requests' = DOMAIN requests \cup {n + 1} /\ n + 1 \notin DOMAIN requests
  BY <1>3, <1>5
<1>8. RequestTypes'
  BY <1>3, <1>4, BoundsAssumption DEF RequestTypes
<1>9. /\ env' = env /\ phase' = phase /\ exit' = exit /\ reached' = reached
      /\ handle' = handle /\ phase = "serving"
      /\ counters' = counters /\ hists' = hists /\ docs' = docs
  BY DEF Receive, start, registry
<1>10. StartTypes' /\ HandleType'
  BY <1>9, UpKeeps DEF Inv, Types, StartTypes
<1>11. Early'
  BY <1>9 DEF Early, Up
<1>12. CountedOnly'
  BY <1>1, <1>3, <1>4, <1>6, <1>7 DEF CountedOnly
<1>13. \A j : j \in DOMAIN requests' /\ InRegistry(j)' <=> j \in DOMAIN requests /\ InRegistry(j)
  BY <1>3, <1>4, <1>6, <1>7 DEF InRegistry
<1>14. \A j : j \in DOMAIN requests' /\ Logged(j)' <=> j \in DOMAIN requests /\ Logged(j)
  BY <1>3, <1>4, <1>6, <1>7, <1>9 DEF Logged
<1>15. \A j \in DOMAIN requests : KeyOf(j)' = KeyOf(j) /\ AccessOf(j)' = AccessOf(j)
  BY <1>3, <1>4 DEF KeyOf, AccessOf, LoggedId
<1>16. RegistryExact' /\ LogExact'
  BY <1>1, <1>9, <1>13, <1>14, <1>15, ExactKept
<1>17. RegistryTypes' /\ DocTypes'
  BY <1>1, <1>9 DEF RegistryTypes, DocTypes
<1> QED BY <1>8, <1>10, <1>11, <1>12, <1>16, <1>17 DEF Inv, Types

\* Nothing is left of the requests, the registry and the log.
LEMMA EndInv == ASSUME Inv, Exit \/ Kill PROVE Inv'
<1>1. StartTypes /\ HandleType
  BY DEF Inv, Types
<1>2. /\ requests' = <<>> /\ counters' = EmptyBag /\ hists' = EmptyBag /\ docs' = EmptyBag
      /\ env' = env /\ reached' = reached /\ handle' = handle
      /\ phase' = "exited" /\ exit' \in {"ok", "killed"}
  BY DEF Exit, Kill, End, Forget
<1>3. StartTypes'
  BY <1>1, <1>2 DEF StartTypes, Phases
<1>4. HandleType'
  BY <1>1, <1>2, Zenon DEF HandleType
<1>5. Early'
  BY <1>2 DEF Early
<1>6. DOMAIN EmptyBag = {}
  BY DEF EmptyBag, SetToBag
<1>7. RegistryTypes' /\ DocTypes'
  BY <1>2, <1>6 DEF RegistryTypes, DocTypes, PositiveBag, PositiveHists
<1>8. \A k : Copies(k, counters') = 0 /\ Copies(k, docs') = 0
  BY <1>2, <1>6 DEF Copies
<1>9. RegistryExact' /\ LogExact'
  BY <1>2, <1>8, NoRequestsNext DEF RegistryExact, LogExact
<1> QED BY <1>2, <1>3, <1>4, <1>5, <1>7, <1>9, NoRequestsNext DEF Inv, Types

LEMMA NextInv == Inv /\ [Next]_vars => Inv'
<1> SUFFICES ASSUME Inv, [Next]_vars PROVE Inv'
  OBVIOUS
<1>1. CASE Starting
  BY <1>1, StartingInv
<1>2. ASSUME NEW call \in Calls, Receive(call) PROVE Inv'
  BY <1>2, ReceiveInv
<1>3. ASSUME NEW i \in DOMAIN requests, Serving(i) PROVE Inv'
  <2>1. UNCHANGED start
    BY <1>3, ServingKeepsStart
  <2>2. CASE requests' = requests /\ Quiet
    BY <1>3, <2>1, <2>2, ServingUp, QuietInv
  <2> QED BY <1>3, <2>1, <2>2, ServingShape, RespondsInv, CountsInv, SkipsInv, LogsInv
<1>4. CASE ShipperWarns
  <2>1. Quiet
    BY <1>4, WithEventQuiet DEF ShipperWarns, registry
  <2>2. /\ env' = env /\ exit' = exit /\ reached' = reached /\ handle' = handle
        /\ phase' = phase /\ phase \in Up /\ requests' = requests
    BY <1>4 DEF ShipperWarns, start
  <2>3. StartTypes' /\ HandleType'
    BY <2>2, UpKeeps DEF Inv, Types, StartTypes
  <2>4. Early'
    BY <2>2 DEF Early
  <2> QED BY <2>1, <2>2, <2>3, <2>4, QuietInv
<1>5. CASE Signal
  <2>1. Quiet
    BY <1>5, WithEventQuiet DEF Signal, registry
  <2>2. /\ env' = env /\ exit' = exit /\ reached' = reached /\ handle' = handle
        /\ phase' = "draining" /\ requests' = requests
    BY <1>5 DEF Signal
  <2>3. StartTypes' /\ HandleType'
    BY <2>2, UpKeeps DEF Inv, Types, Phases
  <2>4. Early'
    BY <2>2 DEF Early, Up
  <2> QED BY <2>1, <2>2, <2>3, <2>4, QuietInv
<1>6. CASE Exit \/ Kill
  BY <1>6, EndInv
<1>7. CASE UNCHANGED vars
  <2>1. /\ requests' = requests /\ env' = env /\ exit' = exit /\ reached' = reached
        /\ handle' = handle /\ phase' = phase
        /\ counters' = counters /\ hists' = hists /\ docs' = docs
    BY <1>7 DEF vars, start, registry
  <2>2. StartTypes' /\ HandleType'
    BY <2>1, UpKeeps DEF Inv, Types, StartTypes
  <2>3. Early'
    BY <2>1 DEF Early, Inv
  <2>4. Quiet
    BY <2>1 DEF Quiet
  <2> QED BY <2>1, <2>2, <2>3, <2>4, QuietInv
<1> QED BY <1>1, <1>2, <1>3, <1>4, <1>5, <1>6, <1>7 DEF Next

LEMMA InvHolds == Spec => []Inv
BY InitInv, NextInv, PTL DEF Spec

-----------------------------------------------------------------------------
(* The theorems.                                                           *)

\* Every variable keeps its type.
THEOREM TypeCorrect == Spec => []TypeOK
<1>1. Inv => TypeOK
  BY TypesAreTypeOK DEF Inv
<1> QED BY <1>1, InvHolds, PTL

\* The registry has each answered request once, under its own labels, whatever
\* other requests do between its answer and its log (record_requests).
THEOREM EachRequestCountedOnce == Spec => []CountedOnce
<1>1. Inv => CountedOnce
  BY DEF Inv, RegistryExact, RequestsOf, CountedOnce
<1> QED BY <1>1, InvHolds, PTL

\* The log has one document for each access that is over, and no other.
THEOREM EachAccessLogged == Spec => []AccessLogged
<1>1. ASSUME Inv, NEW i \in DOMAIN requests, Logged(i) PROVE AccessOf(i) \in DOMAIN docs
  <2>1. IsFiniteSet(AccessesOf(AccessOf(i))) /\ i \in AccessesOf(AccessOf(i))
    BY <1>1, SizesTyped DEF Inv, Types, AccessesOf
  <2>2. Cardinality(AccessesOf(AccessOf(i))) # 0
    BY <2>1, FS_EmptySet
  <2>3. Copies(AccessOf(i), docs) = Cardinality(AccessesOf(AccessOf(i)))
    BY <1>1 DEF Inv, LogExact, AccessOf, AccessDoc
  <2> QED BY <2>2, <2>3 DEF Copies
<1>2. Inv => AccessLogged
  BY <1>1 DEF Inv, LogExact, AccessesOf, AccessLogged
<1> QED BY <1>2, InvHolds, PTL

LEMMA SeriesStep ==
    Inv /\ [Next]_vars =>
        [phase' = "exited" \/
         /\ \A k \in DOMAIN counters : Copies(k, counters) <= Copies(k, counters')
         /\ \A h \in DOMAIN hists : h \in DOMAIN hists' /\ hists[h].count <= hists'[h].count
        ]_registry
<1> SUFFICES ASSUME Inv, [Next]_vars, phase' # "exited"
             PROVE  \/ registry' = registry
                    \/ /\ \A k \in DOMAIN counters : Copies(k, counters) <= Copies(k, counters')
                       /\ \A h \in DOMAIN hists :
                             h \in DOMAIN hists' /\ hists[h].count <= hists'[h].count
  OBVIOUS
<1>1. PositiveBag(counters) /\ PositiveHists(hists)
  BY DEF Inv, Types, RegistryTypes
<1>2. ASSUME NEW i \in DOMAIN requests, Counts(i)
      PROVE  /\ \A k \in DOMAIN counters : Copies(k, counters) <= Copies(k, counters')
             /\ \A h \in DOMAIN hists :
                   h \in DOMAIN hists' /\ hists[h].count <= hists'[h].count
  <2>1. \A k : Copies(k, counters') = Copies(k, counters) + IF k = KeyOf(i) THEN 1 ELSE 0
    BY <1>1, <1>2, CopiesAdded DEF Counts
  <2>2. \A k : Copies(k, counters) \in Nat
    BY <1>1 DEF Copies, PositiveBag
  <2>3. \A k : Copies(k, counters) <= Copies(k, counters')
    BY <2>1, <2>2
  <2> QED BY <1>1, <1>2, <2>3, TimedFacts DEF Counts
<1>3. ASSUME NEW i \in DOMAIN requests, Serving(i), ~Counts(i)
      PROVE  registry' = registry
  BY <1>3, ServingShape DEF Responds, Quiet, Skips, Logs, registry
<1>4. ASSUME ~(\E i \in DOMAIN requests : Serving(i)) PROVE registry' = registry
  BY <1>4 DEF Next, Starting, LoadConfig, OpenPool, ConnectStore, StartMonitoring, Listen,
       Receive, ShipperWarns, Signal, Exit, Kill, End, vars
<1> QED BY <1>2, <1>3, <1>4

\* While the process lives, no series that Prometheus reads goes back.
THEOREM NoSeriesGoesBack == Spec => SeriesGrow
BY InvHolds, SeriesStep, PTL DEF Spec, SeriesGrow
=============================================================================
