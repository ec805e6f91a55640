------------------------- MODULE ServerReportProofs -------------------------
(***************************************************************************)
(* Proofs about what the process of Server says of itself: a scrape, which *)
(* renders counters and histograms that agree; and the events of the log,  *)
(* which explain each ApiError and failed readiness that a client was      *)
(* given, and no other error.  Both rest on the invariant of ServerProofs. *)
(***************************************************************************)
EXTENDS ServerProofs

-----------------------------------------------------------------------------
(* One observation.                                                        *)

\* A histogram whose buckets are cumulative.
Cumulative(h) ==
    /\ h.count \in Nat
    /\ h.buckets \in [1..Buckets -> Nat]
    /\ \A b \in 1..Buckets :
          h.buckets[b] <= IF b = Buckets THEN h.count ELSE h.buckets[b + 1]

LEMMA NewCumulative == Cumulative(NewHistogram) /\ NewHistogram.count = 0
BY BucketsAssumption DEF Cumulative, NewHistogram

\* A latency enters every bucket from its own on, so the buckets stay cumulative.
LEMMA ObservedCumulative ==
    ASSUME NEW h, Cumulative(h), NEW latency \in 1..(Buckets + 1)
    PROVE  /\ Cumulative(Observed(h, latency))
           /\ Observed(h, latency).count = h.count + 1
<1> DEFINE new(b) == h.buckets[b] + IF latency <= b THEN 1 ELSE 0
           o == Observed(h, latency)
<1>1. Buckets \in Nat \ {0} /\ latency \in Nat
  BY BucketsAssumption
<1>2. o.buckets = [b \in 1..Buckets |-> new(b)] /\ o.count = h.count + 1
  BY DEF Observed
<1>3. ASSUME NEW b \in 1..Buckets
      PROVE  /\ h.buckets[b] \in Nat /\ new(b) \in Nat
             /\ latency <= b => new(b) = h.buckets[b] + 1
             /\ ~(latency <= b) => new(b) = h.buckets[b]
  <2>1. h.buckets[b] \in Nat
    BY DEF Cumulative
  <2>2. CASE latency <= b
    BY <2>1, <2>2
  <2>3. CASE ~(latency <= b)
    BY <2>1, <2>3
  <2> QED BY <2>1, <2>2, <2>3
<1>4. o.buckets \in [1..Buckets -> Nat] /\ \A b \in 1..Buckets : o.buckets[b] = new(b)
  BY <1>2, <1>3
<1> HIDE DEF new, o
<1>5. ASSUME NEW b \in 1..Buckets
      PROVE  o.buckets[b] <= IF b = Buckets THEN o.count ELSE o.buckets[b + 1]
  <2>1. CASE b = Buckets
    <3>1. h.buckets[b] <= h.count /\ h.count \in Nat
      BY <2>1 DEF Cumulative
    <3> QED BY <1>2, <1>3, <1>4, <2>1, <3>1
  <2>2. CASE b # Buckets
    <3>1. b + 1 \in 1..Buckets
      BY <1>1, <2>2
    <3>2. h.buckets[b] <= h.buckets[b + 1]
      BY <2>2 DEF Cumulative
    <3>3. new(b) <= new(b + 1)
      BY <1>1, <1>3, <3>1, <3>2
    <3> QED BY <1>4, <2>2, <3>1, <3>3
  <2> QED BY <2>1, <2>2
<1>6. o.count \in Nat
  BY <1>2 DEF Cumulative
<1> QED BY <1>2, <1>4, <1>5, <1>6 DEF Cumulative, o

-----------------------------------------------------------------------------
(* A registry whose two halves agree.                                      *)

Labels(k, h) == k.method = h.method /\ k.route = h.route

LEMMA CountedAtMember ==
    ASSUME NEW c, NEW h, NEW x
    PROVE  x \in CountedAt(c, h) <=>
               \E k \in DOMAIN c : Labels(k, h) /\ \E n \in 1..c[k] : x = <<k, n>>
BY DEF CountedAt, Labels

\* One more request of a key: where the labels are its own, one more element.
LEMMA CountedAtAdded ==
    ASSUME NEW c, PositiveBag(c), NEW x, NEW h, IsFiniteSet(CountedAt(c, h))
    PROVE  /\ IsFiniteSet(CountedAt(Bag!BagAdd(c, x), h))
           /\ Cardinality(CountedAt(Bag!BagAdd(c, x), h)) =
                 Cardinality(CountedAt(c, h)) + IF Labels(x, h) THEN 1 ELSE 0
<1> DEFINE a == Bag!BagAdd(c, x)
           new == <<x, Copies(x, c) + 1>>
<1>1. /\ DOMAIN a = DOMAIN c \cup {x}
      /\ \A k \in DOMAIN c : k # x => a[k] = c[k]
      /\ a[x] = Copies(x, c) + 1
  <2>1. a[x] = IF x \in DOMAIN c THEN c[x] + 1 ELSE 1
    BY BagAddFacts
  <2>2. a[x] = Copies(x, c) + 1
    BY <2>1 DEF Copies
  <2> QED BY <2>2, BagAddFacts
<1>2. Copies(x, c) \in Nat /\ \A k \in DOMAIN c : c[k] \in Nat
  BY DEF Copies, PositiveBag
<1> HIDE DEF a
<1>3. Cardinality(CountedAt(c, h)) \in Nat
  BY FS_CardinalityType
<1>4. CASE ~Labels(x, h)
  <2>1. ASSUME NEW y PROVE y \in CountedAt(a, h) <=> y \in CountedAt(c, h)
    BY <1>1, <1>4, CountedAtMember
  <2>2. CountedAt(a, h) = CountedAt(c, h)
    BY <2>1
  <2> QED BY <1>3, <1>4, <2>2 DEF a
<1>5. CASE Labels(x, h)
  <2>1. ASSUME NEW y PROVE y \in CountedAt(a, h) <=> y \in CountedAt(c, h) \cup {new}
    <3>1. ASSUME NEW k \in DOMAIN c, k # x, Labels(k, h), NEW n \in 1..c[k], y = <<k, n>>
          PROVE  y \in CountedAt(a, h)
      BY <1>1, <3>1, CountedAtMember
    <3>2. ASSUME x \in DOMAIN c, NEW n \in 1..c[x], y = <<x, n>>
          PROVE  y \in CountedAt(a, h)
      <4>1. n \in 1..a[x]
        BY <1>1, <1>2, <3>2 DEF Copies
      <4> QED BY <1>1, <1>5, <3>2, <4>1, CountedAtMember
    <3>3. new \in CountedAt(a, h)
      <4>1. Copies(x, c) + 1 \in 1..a[x]
        BY <1>1, <1>2
      <4> QED BY <1>1, <1>5, <4>1, CountedAtMember
    <3>4. ASSUME NEW n \in 1..a[x], n # Copies(x, c) + 1, y = <<x, n>>
          PROVE  y \in CountedAt(c, h)
      <4>1. x \in DOMAIN c /\ n \in 1..c[x]
        BY <1>1, <1>2, <3>4 DEF Copies
      <4> QED BY <1>5, <3>4, <4>1, CountedAtMember
    <3>5. ASSUME NEW k \in DOMAIN a, k # x, Labels(k, h), NEW n \in 1..a[k], y = <<k, n>>
          PROVE  y \in CountedAt(c, h)
      BY <1>1, <3>5, CountedAtMember
    <3>6. y \in CountedAt(a, h) => y \in CountedAt(c, h) \cup {new}
      BY <3>4, <3>5, CountedAtMember
    <3>7. y \in CountedAt(c, h) => y \in CountedAt(a, h)
      BY <3>1, <3>2, CountedAtMember
    <3> QED BY <3>3, <3>6, <3>7
  <2>2. CountedAt(a, h) = CountedAt(c, h) \cup {new}
    BY <2>1
  <2>3. new \notin CountedAt(c, h)
    <3>1. SUFFICES ASSUME new \in CountedAt(c, h) PROVE FALSE
      OBVIOUS
    <3>2. PICK k \in DOMAIN c : \E n \in 1..c[k] : new = <<k, n>>
      BY <3>1, CountedAtMember
    <3>3. k = x /\ Copies(x, c) + 1 \in 1..c[x] /\ x \in DOMAIN c
      BY <3>2
    <3> QED BY <1>2, <3>3 DEF Copies
  <2> QED BY <1>5, <2>2, <2>3, OneMore, FS_AddElement DEF a
<1> QED BY <1>4, <1>5

Series(method, route) == [method |-> method, route |-> route]

\* Each histogram has the observations that the counters have requests, and the
\* counters have none where there is no histogram.
Agree(c, hs) ==
    /\ \A method, route :
          /\ IsFiniteSet(CountedAt(c, Series(method, route)))
          /\ Series(method, route) \notin DOMAIN hs => CountedAt(c, Series(method, route)) = {}
    /\ \A h \in DOMAIN hs :
          /\ h = Series(h.method, h.route)
          /\ Cumulative(hs[h]) /\ hs[h].count = Cardinality(CountedAt(c, h))

\* observe_request takes the counter and the histogram of one answer under one lock.
LEMMA ObservationAgrees ==
    ASSUME NEW c, NEW hs, PositiveBag(c), Agree(c, hs), NEW method, NEW path, NEW status,
           NEW latency \in 1..(Buckets + 1)
    PROVE  Agree(Counted(c, method, path, status), Timed(hs, method, path, latency))
<1> DEFINE key == HistKey(method, path)
           x == CounterKey(method, path, status)
           old == IF key \in DOMAIN hs THEN hs[key] ELSE NewHistogram
           a == Counted(c, method, path, status)
           t == Timed(hs, method, path, latency)
<1>1. a = Bag!BagAdd(c, x)
  BY DEF Counted
<1>2. key = Series(key.method, key.route) /\ x.method = key.method /\ x.route = key.route
  BY DEF HistKey, CounterKey, Series
<1>3. /\ DOMAIN t = DOMAIN hs \cup {key}
      /\ \A k \in DOMAIN t : t[k] = IF k = key THEN Observed(old, latency) ELSE hs[k]
  BY DEF Timed
<1>4. ASSUME NEW m, NEW r, Series(m, r) # key
      PROVE  ~Labels(x, Series(m, r))
  BY <1>2, <1>4 DEF Labels, Series
<1>5. Labels(x, key)
  BY <1>2 DEF Labels
<1>6. Cumulative(old) /\ old.count = Cardinality(CountedAt(c, key))
  <2>1. CASE key \in DOMAIN hs
    BY <2>1 DEF Agree
  <2>2. CASE key \notin DOMAIN hs
    <3>1. CountedAt(c, key) = {}
      BY <1>2, <2>2 DEF Agree
    <3> QED BY <2>2, <3>1, NewCumulative, FS_EmptySet
  <2> QED BY <2>1, <2>2
<1> HIDE DEF key, x, old, a, t
<1>7. \A m, r : /\ IsFiniteSet(CountedAt(a, Series(m, r)))
                /\ Cardinality(CountedAt(a, Series(m, r))) =
                      Cardinality(CountedAt(c, Series(m, r)))
                          + IF Labels(x, Series(m, r)) THEN 1 ELSE 0
                /\ IsFiniteSet(CountedAt(c, Series(m, r)))
                /\ Cardinality(CountedAt(c, Series(m, r))) \in Nat
  BY <1>1, CountedAtAdded, FS_CardinalityType DEF Agree
<1>8. ASSUME NEW m, NEW r, Series(m, r) \notin DOMAIN t
      PROVE  CountedAt(a, Series(m, r)) = {}
  <2>1. Series(m, r) # key /\ Series(m, r) \notin DOMAIN hs
    BY <1>3, <1>8
  <2>2. CountedAt(c, Series(m, r)) = {}
    BY <2>1 DEF Agree
  <2>3. Cardinality(CountedAt(a, Series(m, r))) = 0
    BY <1>4, <1>7, <2>1, <2>2, FS_EmptySet
  <2> QED BY <1>7, <2>3, FS_EmptySet
<1>9. ASSUME NEW h \in DOMAIN t
      PROVE  /\ h = Series(h.method, h.route)
             /\ Cumulative(t[h]) /\ t[h].count = Cardinality(CountedAt(a, h))
  <2>1. CASE h = key
    BY <1>2, <1>3, <1>5, <1>6, <1>7, <2>1, ObservedCumulative
  <2>2. CASE h # key
    <3>1. h \in DOMAIN hs /\ t[h] = hs[h] /\ h = Series(h.method, h.route)
      BY <1>3, <2>2 DEF Agree
    <3>2. Cardinality(CountedAt(a, h)) = Cardinality(CountedAt(c, h))
      BY <1>4, <1>7, <2>2, <3>1
    <3> QED BY <3>1, <3>2 DEF Agree
  <2> QED BY <2>1, <2>2
<1> QED BY <1>7, <1>8, <1>9 DEF Agree, a, t

LEMMA EmptyAgree == Agree(EmptyBag, EmptyBag)
<1>1. DOMAIN EmptyBag = {}
  BY DEF EmptyBag, SetToBag
<1>2. \A h : CountedAt(EmptyBag, h) = {}
  BY <1>1, CountedAtMember
<1> QED BY <1>1, <1>2, FS_EmptySet DEF Agree

-----------------------------------------------------------------------------
(* The scrapes.                                                            *)

ScrapeInv == Agree(counters, hists) /\ Agree(scraped.counters, scraped.hists)

\* All that a step may do to the registry and to what was scraped of it.
LEMMA RegistryShape ==
    ASSUME [Next]_vars
    PROVE  \/ UNCHANGED <<registry, scraped>>
           \/ registry' = registry /\ scraped' = [counters |-> counters, hists |-> hists]
           \/ counters' = EmptyBag /\ hists' = EmptyBag /\ scraped' = scraped
           \/ /\ \E method, path, status : \E latency \in 1..(Buckets + 1) :
                    /\ counters' = Counted(counters, method, path, status)
                    /\ hists' = Timed(hists, method, path, latency)
              /\ scraped' = scraped
<1>1. CASE Starting
  BY <1>1 DEF Starting, LoadConfig, OpenPool, ConnectStore, StartMonitoring, Listen
<1>2. CASE \E call \in Calls : Receive(call)
  BY <1>2 DEF Receive
<1>3. ASSUME NEW i \in DOMAIN requests, Observe(i)
      PROVE  \/ UNCHANGED <<registry, scraped>>
             \/ /\ \E method, path, status : \E latency \in 1..(Buckets + 1) :
                      /\ counters' = Counted(counters, method, path, status)
                      /\ hists' = Timed(hists, method, path, latency)
                /\ scraped' = scraped
  BY <1>3 DEF Observe
<1>4. ASSUME NEW i \in DOMAIN requests, Scrape(i)
      PROVE  registry' = registry /\ scraped' = [counters |-> counters, hists |-> hists]
  BY <1>4 DEF Scrape
<1>5. ASSUME NEW i \in DOMAIN requests, Serving(i), ~Observe(i), ~Scrape(i)
      PROVE  UNCHANGED <<registry, scraped>>
  BY <1>5 DEF Serving, Emit, AnswerSilently, Fail, Readiness, Timeout, Drop, LogAccess
<1>6. CASE ShipperWarns \/ Signal
  BY <1>6 DEF ShipperWarns, Signal
<1>7. CASE Exit \/ Kill
  BY <1>7 DEF Exit, Kill, Forget
<1>8. CASE UNCHANGED vars
  BY <1>8 DEF vars
<1> QED BY <1>1, <1>2, <1>3, <1>4, <1>5, <1>6, <1>7, <1>8 DEF Next

LEMMA ScrapeStep == Inv /\ ScrapeInv /\ [Next]_vars => ScrapeInv'
<1> SUFFICES ASSUME Inv, ScrapeInv, [Next]_vars PROVE ScrapeInv'
  OBVIOUS
<1>1. PositiveBag(counters)
  BY DEF Inv, Types, RegistryTypes
<1>2. CASE UNCHANGED <<registry, scraped>>
  BY <1>2 DEF ScrapeInv, registry
<1>3. CASE registry' = registry /\ scraped' = [counters |-> counters, hists |-> hists]
  BY <1>3 DEF ScrapeInv, registry
<1>4. CASE counters' = EmptyBag /\ hists' = EmptyBag /\ scraped' = scraped
  BY <1>4, EmptyAgree DEF ScrapeInv
<1>5. ASSUME NEW method, NEW path, NEW status, NEW latency \in 1..(Buckets + 1),
             counters' = Counted(counters, method, path, status),
             hists' = Timed(hists, method, path, latency), scraped' = scraped
      PROVE  ScrapeInv'
  BY <1>1, <1>5, ObservationAgrees DEF ScrapeInv
<1> QED BY <1>2, <1>3, <1>4, <1>5, RegistryShape

\* What a scrape renders is of one instant: for each method and route the histogram
\* has as many observations as the counters have requests (metrics.rs keeps both
\* under one lock), and its buckets are cumulative.
THEOREM ScrapesAgree == Spec => []ScrapeCoherent
<1>1. Init => ScrapeInv
  BY EmptyAgree DEF Init, ScrapeInv
<1>2. ScrapeInv => ScrapeCoherent
  BY DEF ScrapeInv, Agree, Cumulative, ScrapeCoherent
<1> QED BY <1>1, <1>2, ScrapeStep, InvHolds, PTL DEF Spec

-----------------------------------------------------------------------------
(* The targets and the codes of the events.                                *)

LEMMA Targets == {Errors, Health} \cap {Lib, Handlers} = {} /\ Lib # Handlers
BY DEF Errors, Health, Handlers, Lib

\* Those of the crate are shipped, and those of the shipper are not.
LEMMA ShippedTargets == Shipped(Errors) /\ Shipped(Health) /\ ~Shipped(Shipper)
BY DEF Errors, Health, Shipper, Shipped, AppTarget, SelfTarget, IsPrefix

\* The code of an answer names the error.
LEMMA CodesDiffer ==
    ASSUME NEW k \in DOMAIN ApiError, NEW l \in DOMAIN ApiError,
           ApiError[k].code = ApiError[l].code
    PROVE  k = l
<1>1. DOMAIN ApiError =
          {"Validation", "Unauthorized", "Forbidden", "NotFound", "Conflict",
           "TooManyRequests", "PayloadTooLarge", "BadRequest", "ServiceUnavailable",
           "Internal"}
  BY DEF ApiError
<1>2. /\ ApiError["Validation"].code = "validation_error"
      /\ ApiError["Unauthorized"].code = "unauthorized"
      /\ ApiError["Forbidden"].code = "forbidden"
      /\ ApiError["NotFound"].code = "not_found"
      /\ ApiError["Conflict"].code = "conflict"
      /\ ApiError["TooManyRequests"].code = "too_many_requests"
      /\ ApiError["PayloadTooLarge"].code = "payload_too_large"
      /\ ApiError["BadRequest"].code = "bad_request"
      /\ ApiError["ServiceUnavailable"].code = "service_unavailable"
      /\ ApiError["Internal"].code = "internal_error"
  BY DEF ApiError
<1> QED BY <1>1, <1>2

LEMMA ErrorOfCode ==
    ASSUME NEW kind \in DOMAIN ApiError, NEW code, code = {ApiError[kind].code}
    PROVE  (CHOOSE k \in DOMAIN ApiError : {ApiError[k].code} = code) = kind
<1>1. \A k \in DOMAIN ApiError : {ApiError[k].code} = code <=> k = kind
  BY CodesDiffer
<1> QED BY <1>1

-----------------------------------------------------------------------------
(* The events.                                                             *)

\* The events of the process itself that each phase has behind it; a start that
\* failed to bind keeps its first.
Told(p) ==
    CASE p \in {"bind", "exited"} -> 1
      [] p = "serving"            -> 2
      [] p = "draining"           -> 3
      [] OTHER                    -> 0

\* The requests that an event stands for.
ReportsOf(d) == {i \in DOMAIN requests : Reported(i) /\ EventOf(i) = d}

Unanswered ==
    \A i \in DOMAIN requests : requests[i].pc = "handling" => requests[i].answer = NoAnswer
LibCounted ==
    \A d : d.kind = "event" /\ d.target = Lib => Copies(d, docs) <= Told(phase)
HandlersKnown ==
    \A d \in DOMAIN docs :
        d.kind = "event" /\ d.target = Handlers =>
            \E i \in DOMAIN requests :
                Api(requests[i].call) /\ d.request_id = RequestId({}, Spans(i))
ReportExact ==
    \A d : d.kind = "event" /\ d.target \notin {Lib, Handlers} =>
              Copies(d, docs) = Cardinality(ReportsOf(d))

EventInv == Unanswered /\ LibCounted /\ HandlersKnown /\ ReportExact

\* An answer comes with the event that explains it, and with no event where it
\* needs none.
Explains(i) ==
    /\ requests[i].pc = "handling"
    /\ \E pc \in {"answered", "dropped"}, answer \in Answers : Become(i, pc, answer)
    /\ docs' = IF Reported(i)' THEN Bag!BagAdd(docs, EventOf(i)') ELSE docs

\* An answered request goes on, and its access may enter the log.
Passes(i) ==
    /\ requests[i].pc # "handling"
    /\ \E pc \in {"counted", "done"} : Become(i, pc, requests[i].answer)
    /\ docs' = docs \/ \E d : d.kind = "access" /\ docs' = Bag!BagAdd(docs, d)

\* A handler of the API emits an event.
Emits(i) ==
    /\ requests' = requests
    /\ Api(requests[i].call)
    /\ \/ docs' = docs
       \/ \E d : /\ d.kind = "event" /\ d.target = Handlers
                 /\ d.request_id = RequestId({}, Spans(i))
                 /\ docs' = Bag!BagAdd(docs, d)

LEMMA GoneOn ==
    ASSUME RequestTypes, NEW i \in DOMAIN requests, NEW pc \in PC, NEW answer \in Answers,
           Become(i, pc, answer)
    PROVE  /\ DOMAIN requests' = DOMAIN requests
           /\ requests'[i].call = requests[i].call
           /\ requests'[i].pc = pc /\ requests'[i].answer = answer
           /\ \A j \in DOMAIN requests : j # i => requests'[j] = requests[j]
<1>1. requests \in Seq(Request)
  BY DEF RequestTypes
<1>2. /\ DOMAIN requests' = DOMAIN requests
      /\ requests'[i] = [call |-> requests[i].call, pc |-> pc, answer |-> answer]
      /\ \A j \in DOMAIN requests : j # i => requests'[j] = requests[j]
  BY <1>1, BecomeFacts
<1> QED BY <1>2

\* An answer without a code is only reported when readiness has failed.
LEMMA SilentUnreported ==
    ASSUME NEW i, NEW status, requests'[i].answer = Answer(status, {}),
           status # 503 \/ ~Asks(requests'[i].call, "/health/ready")
    PROVE  ~Reported(i)'
BY DEF Reported, Coded, NotReady, Answer

\* The id of a request, and its spans, are the same from its start to its end.
LEMMA SpansKept ==
    ASSUME NEW i, requests'[i].call = requests[i].call, env' = env
    PROVE  Spans(i)' = Spans(i)
BY DEF Spans, LoggedId

LEMMA FailExplains ==
    ASSUME Inv, NEW i \in DOMAIN requests, NEW kind \in Failures, Fail(i, kind)
    PROVE  Explains(i)
<1> DEFINE answer == Answer(ApiError[kind].status, {ApiError[kind].code})
           level == ErrorLevel(kind)
           doc == EventDoc(Errors, level, RequestId({}, Spans(i)), {ApiError[kind].code})
<1>1. answer \in Answers /\ kind \in DOMAIN ApiError
  BY AnswerTypes, FailuresAssumption
<1>2. Become(i, "answered", answer) /\ requests[i].pc = "handling"
  BY DEF Fail, Handling
<1>3. requests'[i].call = requests[i].call /\ requests'[i].answer = answer
  BY <1>1, <1>2, GoneOn DEF Inv, Types, PC
<1>4. env' = env /\ handle' = handle
  BY DEF Fail, start
<1>5. Coded(i)' /\ ErrorOf(i)' = kind
  <2>1. requests'[i].answer.code = {ApiError[kind].code}
    BY <1>3 DEF Answer
  <2> QED BY <1>1, <2>1, ErrorOfCode DEF Coded, ErrorOf
<1>6. EventLevel(i)' = level
  BY <1>5 DEF EventLevel
<1>7. EventOf(i)' = doc
  BY <1>3, <1>4, <1>5, <1>6, SpansKept DEF EventOf, Answer
<1>8. Reported(i)' <=> handle /\ Enabled(Config(env).log_filter, level)
  BY <1>4, <1>5, <1>6 DEF Reported
<1>9. docs' = IF handle /\ Enabled(Config(env).log_filter, level)
              THEN Bag!BagAdd(docs, doc) ELSE docs
  BY ShippedTargets DEF Fail, WithEvent
<1> HIDE DEF answer, level, doc
<1>10. docs' = IF Reported(i)' THEN Bag!BagAdd(docs, EventOf(i)') ELSE docs
  BY <1>7, <1>8, <1>9
<1> QED BY <1>1, <1>2, <1>10 DEF Explains

LEMMA ReadinessExplains ==
    ASSUME Inv, NEW i \in DOMAIN requests, Readiness(i)
    PROVE  Explains(i)
<1>1. requests[i].pc = "handling" /\ Asks(requests[i].call, "/health/ready")
      /\ env' = env /\ handle' = handle
  BY DEF Readiness, Handling, start
<1>2. Answer(200, {}) \in Answers /\ Answer(503, {}) \in Answers
  BY AnswerTypes
<1>3. CASE Become(i, "answered", Answer(200, {})) /\ docs' = docs
  <2>1. requests'[i].answer = Answer(200, {})
    BY <1>2, <1>3, GoneOn DEF Inv, Types, PC
  <2>2. ~Reported(i)'
    BY <2>1, SilentUnreported
  <2> QED BY <1>1, <1>2, <1>3, <2>2 DEF Explains
<1>4. CASE /\ Become(i, "answered", Answer(503, {}))
           /\ docs' = WithEvent(Health, "error", Spans(i), {})
  <2> DEFINE doc == EventDoc(Health, "error", RequestId({}, Spans(i)), {})
  <2>1. requests'[i].answer = Answer(503, {}) /\ requests'[i].call = requests[i].call
    BY <1>2, <1>4, GoneOn DEF Inv, Types, PC
  <2>2. ~Coded(i)' /\ NotReady(i)' /\ EventLevel(i)' = "error"
    BY <1>1, <2>1 DEF Coded, NotReady, EventLevel, Answer
  <2>3. EventOf(i)' = doc
    BY <1>1, <2>1, <2>2, SpansKept DEF EventOf, Answer
  <2>4. Reported(i)' <=> handle /\ Enabled(Config(env).log_filter, "error")
    BY <1>1, <2>2 DEF Reported
  <2>5. docs' = IF handle /\ Enabled(Config(env).log_filter, "error")
                THEN Bag!BagAdd(docs, doc) ELSE docs
    BY <1>4, ShippedTargets DEF WithEvent
  <2> HIDE DEF doc
  <2>6. docs' = IF Reported(i)' THEN Bag!BagAdd(docs, EventOf(i)') ELSE docs
    BY <2>3, <2>4, <2>5
  <2> QED BY <1>1, <1>2, <1>4, <2>6 DEF Explains
<1> QED BY <1>3, <1>4 DEF Readiness

LEMMA SilentExplains ==
    ASSUME Inv, NEW i \in DOMAIN requests, requests[i].pc = "handling", docs' = docs,
           NEW pc \in {"answered", "dropped"}, NEW status \in {0, 200, 400, 405, 408, 429, 500},
           Become(i, pc, Answer(status, {}))
    PROVE  Explains(i)
<1>1. Answer(status, {}) \in Answers /\ pc \in PC
  BY AnswerTypes DEF PC
<1>2. requests'[i].answer = Answer(status, {})
  BY <1>1, GoneOn DEF Inv, Types
<1>3. ~Reported(i)'
  BY <1>2, SilentUnreported
<1> QED BY <1>1, <1>3 DEF Explains

\* Every step of a request is one of the three.
LEMMA ServingReports ==
    ASSUME Inv, NEW i \in DOMAIN requests, Serving(i)
    PROVE  Explains(i) \/ Passes(i) \/ Emits(i)
<1>1. ASSUME NEW level \in {"info", "warn"}, Emit(i, level) PROVE Emits(i)
  <2> DEFINE doc == EventDoc(Handlers, level, RequestId({}, Spans(i)), {})
  <2>1. docs' = docs \/ docs' = Bag!BagAdd(docs, doc)
    BY <1>1 DEF Emit, WithEvent
  <2>2. doc.kind = "event" /\ doc.target = Handlers /\ doc.request_id = RequestId({}, Spans(i))
    BY DEF EventDoc
  <2> HIDE DEF doc
  <2>3. Api(requests[i].call) /\ requests' = requests
    BY <1>1 DEF Emit
  <2> QED BY <2>1, <2>2, <2>3 DEF Emits
<1>2. CASE AnswerSilently(i)
  BY <1>2, SilentExplains DEF AnswerSilently, SilentStatuses, Handling
<1>3. ASSUME NEW kind \in Failures, Fail(i, kind) PROVE Explains(i)
  BY <1>3, FailExplains
<1>4. CASE Readiness(i)
  BY <1>4, ReadinessExplains
<1>5. CASE Scrape(i)
  BY <1>5, SilentExplains DEF Scrape, Handling
<1>6. CASE Timeout(i)
  BY <1>6, SilentExplains DEF Timeout, Handling
<1>7. CASE Drop(i)
  BY <1>7, SilentExplains DEF Drop, Handling, NoAnswer
<1>8. CASE Observe(i)
  BY <1>8 DEF Observe, Passes
<1>9. CASE LogAccess(i)
  <2>1. AccessOf(i).kind = "access"
    BY DEF AccessOf, AccessDoc
  <2>2. docs' = docs \/ docs' = Bag!BagAdd(docs, AccessOf(i))
    BY <1>9 DEF LogAccess, AccessOf
  <2> QED BY <1>9, <2>1, <2>2 DEF LogAccess, Passes
<1> QED BY <1>1, <1>2, <1>3, <1>4, <1>5, <1>6, <1>7, <1>8, <1>9 DEF Serving

-----------------------------------------------------------------------------
(* What each shape of step does to the events.                             *)

LEMMA ReportsFinite ==
    ASSUME RequestTypes, NEW d
    PROVE  IsFiniteSet(ReportsOf(d)) /\ Cardinality(ReportsOf(d)) \in Nat
<1>1. ReportsOf(d) \in SUBSET DOMAIN requests
  BY DEF ReportsOf
<1> QED BY <1>1, FiniteDomain, FS_Subset, FS_CardinalityType

LEMMA ReportedTargets ==
    ASSUME NEW i
    PROVE  EventOf(i).kind = "event" /\ EventOf(i).target \notin {Lib, Handlers}
BY Targets DEF EventOf, EventDoc

\* One more document: what it says of the others.
LEMMA DocAdded ==
    ASSUME DocTypes, NEW x, docs' = Bag!BagAdd(docs, x)
    PROVE  /\ DOMAIN docs' = DOMAIN docs \cup {x}
           /\ Copies(x, docs') = Copies(x, docs) + 1
           /\ \A d : d # x => Copies(d, docs') = Copies(d, docs)
<1>1. \A d : Copies(d, docs) \in Nat
  BY DEF Copies, DocTypes, PositiveBag
<1>2. \A d : Copies(d, docs') = Copies(d, docs) + IF d = x THEN 1 ELSE 0
  BY CopiesAdded DEF DocTypes
<1>3. DOMAIN docs' = DOMAIN docs \cup {x}
  BY BagAddFacts DEF DocTypes
<1> QED BY <1>1, <1>2, <1>3

\* No request comes to be reported, and no event is added that stands for one.
LEMMA ReportsKept ==
    ASSUME ReportExact,
           \A i : i \in DOMAIN requests' /\ Reported(i)' <=> i \in DOMAIN requests /\ Reported(i),
           \A i \in DOMAIN requests : Reported(i) => EventOf(i)' = EventOf(i),
           \A d : d.kind = "event" /\ d.target \notin {Lib, Handlers} =>
                     Copies(d, docs') = Copies(d, docs)
    PROVE  ReportExact'
<1>1. \A d : ReportsOf(d)' = ReportsOf(d)
  BY DEF ReportsOf
<1> QED BY <1>1 DEF ReportExact

LEMMA CallKept ==
    ASSUME NEW i, requests'[i].call = requests[i].call,
           requests'[i].answer = requests[i].answer, env' = env, handle' = handle
    PROVE  (Reported(i)' <=> Reported(i)) /\ EventOf(i)' = EventOf(i)
BY SpansKept DEF Reported, EventOf, Coded, NotReady, EventLevel, ErrorOf

\* The calls of all requests are kept, so what was known of them still is.
LEMMA HandlersKept ==
    ASSUME HandlersKnown, env' = env,
           \A i \in DOMAIN requests :
               i \in DOMAIN requests' /\ requests'[i].call = requests[i].call,
           \A d \in DOMAIN docs' :
               d.kind = "event" /\ d.target = Handlers =>
                   \/ d \in DOMAIN docs
                   \/ \E i \in DOMAIN requests :
                         Api(requests[i].call) /\ d.request_id = RequestId({}, Spans(i))
    PROVE  HandlersKnown'
<1>1. \A i \in DOMAIN requests : Spans(i)' = Spans(i)
  BY SpansKept
<1>2. ASSUME NEW d \in DOMAIN docs', d.kind = "event", d.target = Handlers
      PROVE  \E i \in DOMAIN requests :
                 Api(requests[i].call) /\ d.request_id = RequestId({}, Spans(i))
  BY <1>2 DEF HandlersKnown
<1>3. ASSUME NEW d \in DOMAIN docs', d.kind = "event", d.target = Handlers
      PROVE  \E i \in DOMAIN requests' :
                 Api(requests'[i].call) /\ d.request_id = RequestId({}, Spans(i)')
  BY <1>1, <1>2, <1>3
<1> QED BY <1>3 DEF HandlersKnown

LEMMA ExplainsInv ==
    ASSUME Inv, EventInv, NEW i \in DOMAIN requests, UNCHANGED start, Explains(i)
    PROVE  EventInv'
<1>1. /\ RequestTypes /\ DocTypes
      /\ Unanswered /\ LibCounted /\ HandlersKnown /\ ReportExact
  BY DEF Inv, Types, EventInv
<1>2. env' = env /\ handle' = handle /\ phase' = phase
  BY DEF start
<1>3. PICK pc \in {"answered", "dropped"}, answer \in Answers : Become(i, pc, answer)
  BY DEF Explains
<1>4. /\ DOMAIN requests' = DOMAIN requests
      /\ requests'[i].call = requests[i].call /\ requests'[i].pc # "handling"
      /\ \A j \in DOMAIN requests : j # i => requests'[j] = requests[j]
  <2>1. pc \in PC
    BY DEF PC
  <2> QED BY <1>1, <1>3, <2>1, GoneOn
<1>5. Unanswered'
  BY <1>1, <1>4 DEF Unanswered
<1>6. ~Reported(i)
  BY <1>1 DEF Explains, Unanswered, Reported, Coded, NotReady, NoAnswer, Answer
<1>7. \A j \in DOMAIN requests : j # i =>
          (Reported(j)' <=> Reported(j)) /\ EventOf(j)' = EventOf(j)
  BY <1>2, <1>4, CallKept
<1>8. CASE ~Reported(i)'
  <2>1. docs' = docs
    BY <1>8 DEF Explains
  <2>2. LibCounted'
    BY <1>1, <1>2, <2>1 DEF LibCounted
  <2>3. HandlersKnown'
    BY <1>1, <1>2, <1>4, <2>1, HandlersKept
  <2>4. ReportExact'
    BY <1>1, <1>4, <1>6, <1>7, <1>8, <2>1, ReportsKept
  <2> QED BY <1>5, <2>2, <2>3, <2>4 DEF EventInv
<1>9. CASE Reported(i)'
  <2>0. PICK x : x = EventOf(i)'
    OBVIOUS
  <2>1. docs' = Bag!BagAdd(docs, x)
    BY <1>9, <2>0 DEF Explains
  <2>2. x.kind = "event" /\ x.target \notin {Lib, Handlers}
    BY <2>0, Targets DEF EventOf, EventDoc
  <2>3. \A j \in DOMAIN requests : j # i =>
            (Reported(j)' /\ EventOf(j)' = x <=> Reported(j) /\ EventOf(j) = x)
    BY <1>7
  <2>4. ReportsOf(x)' = ReportsOf(x) \cup {i} /\ i \notin ReportsOf(x)
    <3>1. \A j : j \in {l \in DOMAIN requests' : Reported(l)' /\ EventOf(l)' = x} <=>
                j \in ReportsOf(x) \cup {i}
      BY <1>4, <1>9, <2>0, <2>3 DEF ReportsOf
    <3> QED BY <1>6, <3>1 DEF ReportsOf
  <2>5. \A d : d # x => ReportsOf(d)' = ReportsOf(d)
    BY <1>4, <1>6, <1>7, <2>0 DEF ReportsOf
  <2>6. /\ DOMAIN docs' = DOMAIN docs \cup {x}
        /\ Copies(x, docs') = Copies(x, docs) + 1
        /\ \A d : d # x => Copies(d, docs') = Copies(d, docs)
    BY <1>1, <2>1, DocAdded
  <2>7. LibCounted'
    BY <1>1, <1>2, <2>2, <2>6 DEF LibCounted
  <2>8. HandlersKnown'
    BY <1>1, <1>2, <1>4, <2>2, <2>6, HandlersKept
  <2>9. Copies(x, docs') = Cardinality(ReportsOf(x)')
    <3>1. Cardinality(ReportsOf(x)') = Cardinality(ReportsOf(x)) + 1
      BY <1>1, <2>4, ReportsFinite, OneMore
    <3> QED BY <1>1, <2>2, <2>6, <3>1 DEF ReportExact
  <2>10. \A d : d # x /\ d.kind = "event" /\ d.target \notin {Lib, Handlers} =>
                   Copies(d, docs') = Cardinality(ReportsOf(d)')
    BY <1>1, <2>5, <2>6 DEF ReportExact
  <2>11. ReportExact'
    BY <2>9, <2>10 DEF ReportExact
  <2> QED BY <1>5, <2>7, <2>8, <2>11 DEF EventInv
<1> QED BY <1>8, <1>9

LEMMA PassesInv ==
    ASSUME Inv, EventInv, NEW i \in DOMAIN requests, UNCHANGED start, Passes(i)
    PROVE  EventInv'
<1>1. /\ RequestTypes /\ DocTypes
      /\ Unanswered /\ LibCounted /\ HandlersKnown /\ ReportExact
  BY DEF Inv, Types, EventInv
<1>2. env' = env /\ handle' = handle /\ phase' = phase
  BY DEF start
<1>3. PICK pc \in {"counted", "done"} : Become(i, pc, requests[i].answer)
  BY DEF Passes
<1>4. /\ DOMAIN requests' = DOMAIN requests
      /\ requests'[i].call = requests[i].call /\ requests'[i].pc # "handling"
      /\ requests'[i].answer = requests[i].answer
      /\ \A j \in DOMAIN requests : j # i => requests'[j] = requests[j]
  <2>1. pc \in PC /\ requests[i].answer \in Answers
    <3>1. requests \in Seq(Request) /\ Len(requests) \in Nat /\ DOMAIN requests = 1..Len(requests)
      BY <1>1, LenProperties DEF RequestTypes
    <3>2. requests[i] \in Request
      BY <3>1, ElementOfSeq
    <3> QED BY <3>2 DEF Request, PC
  <2> QED BY <1>1, <1>3, <2>1, GoneOn
<1>5. Unanswered'
  BY <1>1, <1>4 DEF Unanswered
<1>6. \A j \in DOMAIN requests : (Reported(j)' <=> Reported(j)) /\ EventOf(j)' = EventOf(j)
  BY <1>2, <1>4, CallKept
<1>7. \A d : d.kind = "event" =>
                /\ Copies(d, docs') = Copies(d, docs)
                /\ d \in DOMAIN docs' => d \in DOMAIN docs
  <2>1. CASE docs' = docs
    BY <2>1
  <2>2. ASSUME NEW x, x.kind = "access", docs' = Bag!BagAdd(docs, x)
        PROVE  \A d : d.kind = "event" =>
                         /\ Copies(d, docs') = Copies(d, docs)
                         /\ d \in DOMAIN docs' => d \in DOMAIN docs
    BY <1>1, <2>2, DocAdded
  <2> QED BY <2>1, <2>2 DEF Passes
<1>8. LibCounted'
  BY <1>1, <1>2, <1>7 DEF LibCounted
<1>9. HandlersKnown'
  BY <1>1, <1>2, <1>4, <1>7, HandlersKept
<1>10. ReportExact'
  BY <1>1, <1>4, <1>6, <1>7, ReportsKept
<1> QED BY <1>5, <1>8, <1>9, <1>10 DEF EventInv

\* Steps that leave the requests alone, and add at most an event of a handler or
\* one of the process.
LEMMA EmitsInv ==
    ASSUME Inv, EventInv, NEW i \in DOMAIN requests, UNCHANGED start, Emits(i)
    PROVE  EventInv'
<1>1. DocTypes /\ Unanswered /\ LibCounted /\ HandlersKnown /\ ReportExact
  BY DEF Inv, Types, EventInv
<1>2. env' = env /\ handle' = handle /\ phase' = phase /\ requests' = requests
  BY DEF start, Emits
<1>3. Unanswered'
  BY <1>1, <1>2 DEF Unanswered
<1>4. \A j : (Reported(j)' <=> Reported(j)) /\ EventOf(j)' = EventOf(j)
  BY <1>2, CallKept
<1>5. CASE docs' = docs
  <2>1. LibCounted'
    BY <1>1, <1>2, <1>5 DEF LibCounted
  <2>2. HandlersKnown'
    BY <1>1, <1>2, <1>5, HandlersKept
  <2>3. ReportExact'
    BY <1>1, <1>2, <1>4, <1>5, ReportsKept
  <2> QED BY <1>3, <2>1, <2>2, <2>3 DEF EventInv
<1>6. ASSUME NEW x, x.kind = "event", x.target = Handlers,
             x.request_id = RequestId({}, Spans(i)), docs' = Bag!BagAdd(docs, x)
      PROVE  EventInv'
  <2>1. /\ DOMAIN docs' = DOMAIN docs \cup {x}
        /\ \A d : d # x => Copies(d, docs') = Copies(d, docs)
    BY <1>1, <1>6, DocAdded
  <2>2. \A d : d.target = Lib \/ d.target \notin {Lib, Handlers} => d # x
    BY <1>6, Targets
  <2>3. LibCounted'
    BY <1>1, <1>2, <2>1, <2>2 DEF LibCounted
  <2>4. Api(requests[i].call)
    BY DEF Emits
  <2>5. HandlersKnown'
    BY <1>1, <1>2, <1>6, <2>1, <2>4, HandlersKept
  <2>6. ReportExact'
    BY <1>1, <1>2, <1>4, <2>1, <2>2, ReportsKept
  <2> QED BY <1>3, <2>3, <2>5, <2>6 DEF EventInv
<1> QED BY <1>5, <1>6 DEF Emits

LEMMA ReceiveEvents ==
    ASSUME Inv, EventInv, NEW call \in Calls, Receive(call)
    PROVE  EventInv'
<1>0. PICK n : n = Len(requests)
  OBVIOUS
<1> DEFINE r == [call |-> call, pc |-> "handling", answer |-> NoAnswer]
<1>1. RequestTypes /\ Unanswered /\ LibCounted /\ HandlersKnown /\ ReportExact
  BY DEF Inv, Types, EventInv
<1>2. r \in Request
  BY AnswerTypes DEF Request, PC
<1>3. n \in Nat /\ DOMAIN requests = 1..n /\ requests' = Append(requests, r)
  BY <1>0, <1>1, LenProperties DEF Receive, RequestTypes
<1>4. /\ requests' \in Seq(Request) /\ Len(requests') = n + 1
      /\ \A j \in 1..n : requests'[j] = requests[j]
      /\ requests'[n + 1] = r
  BY <1>0, <1>1, <1>2, <1>3, AppendProperties DEF RequestTypes
<1>5. DOMAIN requests' = 1..(n + 1)
  BY <1>4, LenProperties
<1>6. requests'[n + 1].answer = NoAnswer
  BY <1>4
<1> HIDE DEF r
<1>7. DOMAIN requests' = DOMAIN requests \cup {n + 1} /\ n + 1 \notin DOMAIN requests
  BY <1>3, <1>5
<1>8. env' = env /\ handle' = handle /\ phase' = phase /\ docs' = docs
  BY DEF Receive, start
<1>9. Unanswered'
  BY <1>1, <1>3, <1>4, <1>6, <1>7 DEF Unanswered
<1>10. ~Reported(n + 1)'
  BY <1>6, SilentUnreported DEF NoAnswer
<1>11. \A j \in DOMAIN requests : (Reported(j)' <=> Reported(j)) /\ EventOf(j)' = EventOf(j)
  BY <1>3, <1>4, <1>8, CallKept
<1>12. LibCounted'
  BY <1>1, <1>8 DEF LibCounted
<1>13. HandlersKnown'
  BY <1>1, <1>3, <1>4, <1>7, <1>8, HandlersKept
<1>14. ReportExact'
  BY <1>1, <1>7, <1>8, <1>10, <1>11, ReportsKept
<1> QED BY <1>9, <1>12, <1>13, <1>14 DEF EventInv

\* No request goes on, and at most an event of the process is added.
LEMMA ProcessEvents ==
    ASSUME EventInv, DocTypes, requests' = requests, env' = env,
           requests = <<>> \/ handle' = handle,
           \/ docs' = docs /\ Told(phase') >= Told(phase)
           \/ /\ \E x : x.kind = "event" /\ x.target = Lib /\ docs' = Bag!BagAdd(docs, x)
              /\ Told(phase') = Told(phase) + 1
    PROVE  EventInv'
<1>1. Unanswered /\ LibCounted /\ HandlersKnown /\ ReportExact
  BY DEF EventInv
<1>2. Unanswered'
  BY <1>1 DEF Unanswered
<1>3. \A j \in DOMAIN requests : (Reported(j)' <=> Reported(j)) /\ EventOf(j)' = EventOf(j)
  <2>1. CASE requests = <<>>
    <3>1. DOMAIN requests = {}
      BY <2>1
    <3> QED BY <3>1
  <2>2. CASE handle' = handle
    BY <2>2, CallKept
  <2> QED BY <2>1, <2>2
<1>4. Told(phase) \in Nat /\ Told(phase') \in Nat /\ \A d : Copies(d, docs) \in Nat
  BY DEF Told, Copies, DocTypes, PositiveBag
<1>5. CASE docs' = docs /\ Told(phase') >= Told(phase)
  <2>1. LibCounted'
    BY <1>1, <1>4, <1>5 DEF LibCounted
  <2>2. HandlersKnown'
    BY <1>1, <1>5, HandlersKept
  <2>3. ReportExact'
    BY <1>1, <1>3, <1>5, ReportsKept
  <2> QED BY <1>2, <2>1, <2>2, <2>3 DEF EventInv
<1>6. ASSUME NEW x, x.kind = "event", x.target = Lib, docs' = Bag!BagAdd(docs, x),
             Told(phase') = Told(phase) + 1
      PROVE  EventInv'
  <2>1. /\ DOMAIN docs' = DOMAIN docs \cup {x}
        /\ Copies(x, docs') = Copies(x, docs) + 1
        /\ \A d : d # x => Copies(d, docs') = Copies(d, docs)
    BY <1>6, DocAdded
  <2>2. \A d : d.target # Lib => d # x
    BY <1>6
  <2>3. LibCounted'
    BY <1>1, <1>4, <1>6, <2>1 DEF LibCounted
  <2>4. \A d \in DOMAIN docs' : d.kind = "event" /\ d.target = Handlers => d \in DOMAIN docs
    BY <2>1, <2>2, Targets
  <2>5. HandlersKnown'
    BY <1>1, <2>4, HandlersKept
  <2>6. ReportExact'
    BY <1>1, <1>3, <2>1, <2>2, ReportsKept
  <2> QED BY <1>2, <2>3, <2>5, <2>6 DEF EventInv
<1> QED BY <1>5, <1>6

LEMMA LibEvent ==
    ASSUME NEW level, NEW spans,
           docs' = WithEvent(Lib, level, spans, {})
    PROVE  docs' = docs \/ \E x : x.kind = "event" /\ x.target = Lib /\ docs' = Bag!BagAdd(docs, x)
<1>1. \A id : EventDoc(Lib, level, id, {}).kind = "event" /\ EventDoc(Lib, level, id, {}).target = Lib
  BY DEF EventDoc
<1> QED BY <1>1 DEF WithEvent

LEMMA StartingEvents == ASSUME Inv, EventInv, Starting PROVE EventInv'
<1>1. requests = <<>>
  BY DEF Inv, Early, Up, Starting, LoadConfig, OpenPool, ConnectStore, StartMonitoring, Listen
<1>2. requests' = requests /\ env' = env /\ DocTypes
  BY DEF Inv, Types, Starting, LoadConfig, OpenPool, ConnectStore, StartMonitoring, Listen
<1>3. CASE LoadConfig \/ OpenPool \/ ConnectStore
  <2>1. docs' = docs /\ Told(phase') >= Told(phase)
    BY <1>3 DEF LoadConfig, OpenPool, ConnectStore, End, Told
  <2> QED BY <1>1, <1>2, <2>1, ProcessEvents
<1>4. CASE StartMonitoring
  <2>1. Told(phase) = 0 /\ Told(phase') = 1
    BY <1>4 DEF StartMonitoring, End, Told
  <2>2. EventDoc(Lib, "info", {}, {}).kind = "event" /\ EventDoc(Lib, "info", {}, {}).target = Lib
    BY DEF EventDoc
  <2>3. docs' = docs \/ docs' = Bag!BagAdd(docs, EventDoc(Lib, "info", {}, {}))
    BY <1>4 DEF StartMonitoring
  <2> QED BY <1>1, <1>2, <2>1, <2>2, <2>3, ProcessEvents
<1>5. CASE Listen
  <2>1. CASE phase' = "serving"
    <3>1. Told(phase) = 1 /\ Told(phase') = 2
      BY <1>5, <2>1 DEF Listen, Told
    <3>2. docs' = WithEvent(Lib, "info", <<>>, {})
      BY <1>5, <2>1 DEF Listen, End
    <3> QED BY <1>1, <1>2, <3>1, <3>2, LibEvent, ProcessEvents
  <2>2. CASE phase' # "serving"
    <3>1. docs' = docs /\ Told(phase) = 1 /\ Told(phase') = 1
      BY <1>5, <2>2 DEF Listen, End, Told
    <3> QED BY <1>1, <1>2, <3>1, ProcessEvents
  <2> QED BY <2>1, <2>2
<1> QED BY <1>3, <1>4, <1>5 DEF Starting

LEMMA NothingTold ==
    /\ requests = <<>> /\ docs = EmptyBag => EventInv
    /\ requests' = <<>> /\ docs' = EmptyBag => EventInv'
<1>1. DOMAIN EmptyBag = {}
  BY DEF EmptyBag, SetToBag
<1>2. \A d : Copies(d, EmptyBag) = 0
  BY <1>1 DEF Copies
<1>3. ASSUME requests = <<>>, docs = EmptyBag PROVE EventInv
  <2>1. DOMAIN requests = {}
    BY <1>3
  <2>2. \A d : Cardinality(ReportsOf(d)) = 0
    BY <2>1, FS_EmptySet DEF ReportsOf
  <2>3. Told(phase) >= 0
    BY DEF Told
  <2> QED BY <1>1, <1>2, <1>3, <2>1, <2>2, <2>3
          DEF EventInv, Unanswered, LibCounted, HandlersKnown, ReportExact
<1>4. ASSUME requests' = <<>>, docs' = EmptyBag PROVE EventInv'
  <2>1. DOMAIN requests' = {}
    BY <1>4
  <2>2. \A d : Cardinality(ReportsOf(d)') = 0
    BY <2>1, FS_EmptySet DEF ReportsOf
  <2>3. Told(phase') >= 0
    BY DEF Told
  <2> QED BY <1>1, <1>2, <1>4, <2>1, <2>2, <2>3
          DEF EventInv, Unanswered, LibCounted, HandlersKnown, ReportExact
<1> QED BY <1>3, <1>4

LEMMA EventStep == Inv /\ EventInv /\ [Next]_vars => EventInv'
<1> SUFFICES ASSUME Inv, EventInv, [Next]_vars PROVE EventInv'
  OBVIOUS
<1>1. CASE Starting
  BY <1>1, StartingEvents
<1>2. ASSUME NEW call \in Calls, Receive(call) PROVE EventInv'
  BY <1>2, ReceiveEvents
<1>3. ASSUME NEW i \in DOMAIN requests, Serving(i) PROVE EventInv'
  BY <1>3, ServingKeepsStart, ServingReports, ExplainsInv, PassesInv, EmitsInv
<1>4. CASE ShipperWarns
  <2>1. requests' = requests /\ env' = env /\ handle' = handle /\ phase' = phase /\ docs' = docs
    BY <1>4, ShippedTargets DEF ShipperWarns, WithEvent, start
  <2>2. Told(phase') >= Told(phase)
    BY <2>1 DEF Told
  <2> QED BY <2>1, <2>2, ProcessEvents DEF Inv, Types
<1>5. CASE Signal
  <2>1. requests' = requests /\ env' = env /\ handle' = handle
        /\ docs' = WithEvent(Lib, "info", <<>>, {})
    BY <1>5 DEF Signal
  <2>2. Told(phase) = 2 /\ Told(phase') = 3
    BY <1>5 DEF Signal, Told
  <2> QED BY <2>1, <2>2, LibEvent, ProcessEvents DEF Inv, Types
<1>6. CASE Exit \/ Kill
  BY <1>6, NothingTold DEF Exit, Kill, Forget
<1>7. CASE UNCHANGED vars
  <2>1. requests' = requests /\ env' = env /\ handle' = handle /\ phase' = phase /\ docs' = docs
    BY <1>7 DEF vars, start
  <2>2. Told(phase') >= Told(phase)
    BY <2>1 DEF Told
  <2> QED BY <2>1, <2>2, ProcessEvents DEF Inv, Types
<1> QED BY <1>1, <1>2, <1>3, <1>4, <1>5, <1>6, <1>7 DEF Next

-----------------------------------------------------------------------------
(* The errors that no event explains.                                      *)

\* An error that a request is answered with has a code, or is the readiness that
\* failed, or is one of those that pass by ApiError.
Accounted(r) ==
    r.answer.status >= 400 =>
        \/ r.answer.code # {}
        \/ Asks(r.call, "/health/ready") /\ r.answer.status = 503
        \/ Unexplained(r.call, r.answer.status)
AllAccounted == \A i \in DOMAIN requests : Accounted(requests[i])

\* Whichever way a request is answered, the answer is accounted for.
LEMMA SilentAccounted ==
    ASSUME NEW r, NEW status \in Nat, r.answer = Answer(status, {}),
           \/ status < 400
           \/ status = 408 /\ Awaits(r.call)
           \/ status \in SilentStatuses(r.call)
    PROVE  Accounted(r)
<1>1. r.answer.status = status /\ r.answer.code = {}
  BY DEF Answer
<1>2. CASE status < 400
  BY <1>1, <1>2 DEF Accounted
<1>3. CASE status = 408 /\ Awaits(r.call)
  BY <1>1, <1>3 DEF Accounted, Unexplained
<1>4. CASE status \in SilentStatuses(r.call)
  <2>1. status = 200 \/ Unexplained(r.call, status)
    BY <1>4 DEF SilentStatuses, Unexplained
  <2> QED BY <1>1, <2>1 DEF Accounted
<1> QED BY <1>2, <1>3, <1>4

\* A step of a request leaves it with an answer that is accounted for.
LEMMA ServingAccounted ==
    ASSUME Inv, NEW i \in DOMAIN requests, Accounted(requests[i]), Serving(i)
    PROVE  \/ requests' = requests
           \/ /\ \E pc \in PC, answer \in Answers : Become(i, pc, answer)
              /\ Accounted(requests'[i])
<1> DEFINE Step == /\ \E pc \in PC, answer \in Answers : Become(i, pc, answer)
                   /\ Accounted(requests'[i])
<1>1. ASSUME NEW pc \in PC, NEW answer \in Answers, Become(i, pc, answer)
      PROVE  requests'[i].call = requests[i].call /\ requests'[i].answer = answer
  BY <1>1, GoneOn DEF Inv, Types
<1>2. ASSUME NEW pc \in {"answered", "dropped"}, NEW status \in {0, 200, 400, 405, 408, 429, 500},
             Become(i, pc, Answer(status, {})),
             \/ status < 400
             \/ status = 408 /\ Awaits(requests[i].call)
             \/ status \in SilentStatuses(requests[i].call)
      PROVE  Step
  <2>1. pc \in PC /\ Answer(status, {}) \in Answers
    BY AnswerTypes DEF PC
  <2>2. requests'[i].call = requests[i].call /\ requests'[i].answer = Answer(status, {})
    BY <1>1, <1>2, <2>1
  <2>3. Accounted(requests'[i])
    BY <1>2, <2>2, SilentAccounted
  <2> QED BY <1>2, <2>1, <2>3
<1>3. ASSUME NEW pc \in PC, Become(i, pc, requests[i].answer) PROVE Step
  <2>1. requests[i].answer \in Answers
    <3>1. requests \in Seq(Request)
      BY DEF Inv, Types, RequestTypes
    <3>2. requests[i] \in Request
      BY <3>1, LenProperties, ElementOfSeq
    <3> QED BY <3>2 DEF Request
  <2>2. requests'[i].call = requests[i].call /\ requests'[i].answer = requests[i].answer
    BY <1>1, <1>3, <2>1
  <2>3. Accounted(requests'[i])
    BY <2>2 DEF Accounted
  <2> QED BY <1>3, <2>1, <2>3
<1>4. CASE \E level \in {"info", "warn"} : Emit(i, level)
  BY <1>4 DEF Emit
<1>5. CASE AnswerSilently(i)
  <2>1. PICK status \in SilentStatuses(requests[i].call) : Become(i, "answered", Answer(status, {}))
    BY <1>5 DEF AnswerSilently
  <2>2. status \in {0, 200, 400, 405, 408, 429, 500}
    BY DEF SilentStatuses
  <2> QED BY <1>2, <2>1, <2>2
<1>6. ASSUME NEW kind \in Failures, Fail(i, kind) PROVE Step
  <2> DEFINE answer == Answer(ApiError[kind].status, {ApiError[kind].code})
  <2>1. answer \in Answers /\ "answered" \in PC /\ Become(i, "answered", answer)
    BY <1>6, AnswerTypes DEF Fail, PC
  <2>2. answer.code # {}
    BY DEF Answer
  <2> HIDE DEF answer
  <2>3. requests'[i].answer = answer
    BY <1>1, <2>1
  <2>4. Accounted(requests'[i])
    BY <2>2, <2>3 DEF Accounted
  <2> QED BY <2>1, <2>4
<1>7. CASE Readiness(i)
  <2>1. CASE Become(i, "answered", Answer(200, {}))
    BY <1>2, <2>1
  <2>2. CASE Become(i, "answered", Answer(503, {}))
    <3>1. Answer(503, {}) \in Answers /\ "answered" \in PC
      BY AnswerTypes DEF PC
    <3>2. requests'[i].call = requests[i].call /\ requests'[i].answer = Answer(503, {})
      BY <1>1, <2>2, <3>1
    <3>3. Asks(requests[i].call, "/health/ready") /\ Answer(503, {}).status = 503
      BY <1>7 DEF Readiness, Answer
    <3>4. Accounted(requests'[i])
      BY <3>2, <3>3 DEF Accounted
    <3> QED BY <2>2, <3>1, <3>4
  <2> QED BY <1>7, <2>1, <2>2 DEF Readiness
<1>8. CASE Scrape(i)
  BY <1>2, <1>8 DEF Scrape
<1>9. CASE Timeout(i)
  BY <1>2, <1>9 DEF Timeout
<1>10. CASE Drop(i)
  BY <1>2, <1>10 DEF Drop, NoAnswer
<1>11. CASE Observe(i)
  <2>1. "counted" \in PC /\ "done" \in PC
    BY DEF PC
  <2> QED BY <1>3, <1>11, <2>1 DEF Observe
<1>12. CASE LogAccess(i)
  <2>1. "done" \in PC
    BY DEF PC
  <2> QED BY <1>3, <1>12, <2>1 DEF LogAccess
<1> QED BY <1>4, <1>5, <1>6, <1>7, <1>8, <1>9, <1>10, <1>11, <1>12 DEF Serving

LEMMA AccountedStep == Inv /\ AllAccounted /\ [Next]_vars => AllAccounted'
<1> SUFFICES ASSUME Inv, AllAccounted, [Next]_vars PROVE AllAccounted'
  OBVIOUS
<1>1. CASE requests' = requests
  BY <1>1 DEF AllAccounted
<1>2. CASE requests' = <<>>
  <2>1. DOMAIN requests' = {}
    BY <1>2
  <2> QED BY <2>1 DEF AllAccounted
<1>3. ASSUME NEW call \in Calls, Receive(call) PROVE AllAccounted'
  <2> DEFINE r == [call |-> call, pc |-> "handling", answer |-> NoAnswer]
  <2>1. r \in Request /\ requests \in Seq(Request) /\ requests' = Append(requests, r)
    BY <1>3, AnswerTypes DEF Receive, Request, PC, Inv, Types, RequestTypes
  <2>2. Accounted(r)
    BY SilentAccounted DEF NoAnswer
  <2> HIDE DEF r
  <2>3. /\ DOMAIN requests = 1..Len(requests) /\ Len(requests) \in Nat
        /\ requests' \in Seq(Request) /\ Len(requests') = Len(requests) + 1
        /\ \A j \in 1..Len(requests) : requests'[j] = requests[j]
        /\ requests'[Len(requests) + 1] = r
    BY <2>1, LenProperties, AppendProperties
  <2>4. DOMAIN requests' = 1..(Len(requests) + 1)
    BY <2>3, LenProperties
  <2>5. ASSUME NEW j \in DOMAIN requests' PROVE Accounted(requests'[j])
    <3>1. j \in 1..Len(requests) \/ j = Len(requests) + 1
      BY <2>3, <2>4
    <3> QED BY <2>2, <2>3, <3>1 DEF AllAccounted
  <2> QED BY <2>5 DEF AllAccounted
<1>4. ASSUME NEW i \in DOMAIN requests, Serving(i) PROVE AllAccounted'
  <2>1. Accounted(requests[i])
    BY DEF AllAccounted
  <2>2. CASE /\ \E pc \in PC, answer \in Answers : Become(i, pc, answer)
             /\ Accounted(requests'[i])
    <3>1. DOMAIN requests' = DOMAIN requests
          /\ \A j \in DOMAIN requests : j # i => requests'[j] = requests[j]
      BY <2>2, GoneOn DEF Inv, Types
    <3> QED BY <2>2, <3>1 DEF AllAccounted
  <2> QED BY <1>1, <1>4, <2>1, <2>2, ServingAccounted
<1>5. CASE Starting \/ ShipperWarns \/ Signal
  BY <1>1, <1>5 DEF Starting, LoadConfig, OpenPool, ConnectStore, StartMonitoring, Listen,
                    ShipperWarns, Signal
<1>6. CASE Exit \/ Kill
  BY <1>2, <1>6 DEF Exit, Kill, Forget
<1>7. CASE UNCHANGED vars
  BY <1>1, <1>7 DEF vars
<1> QED BY <1>3, <1>4, <1>5, <1>6, <1>7 DEF Next

\* Whatever the requests do to one another, each ApiError that was answered, and each
\* readiness that failed, has its event, with its code and the id of its access; the
\* other errors are the five kinds of Unexplained, and have none; and every other event
\* is one of the process or of a handler of the API (errors.rs, handlers/health.rs).
THEOREM EachErrorExplained == Spec => []EventsExplained
<1>1. Init => EventInv /\ AllAccounted
  <2>1. requests = <<>> => AllAccounted
    <3>1. requests = <<>> => DOMAIN requests = {}
      OBVIOUS
    <3> QED BY <3>1 DEF AllAccounted
  <2> QED BY <2>1, NothingTold DEF Init
<1>2. Inv /\ EventInv /\ AllAccounted => EventsExplained
  <2> SUFFICES ASSUME Inv, EventInv, AllAccounted PROVE EventsExplained
    OBVIOUS
  <2>1. ASSUME NEW i \in DOMAIN requests, Reported(i) PROVE EventOf(i) \in DOMAIN docs
    <3>1. PICK d : d = EventOf(i)
      OBVIOUS
    <3>2. Copies(d, docs) = Cardinality(ReportsOf(d))
      BY <3>1, ReportedTargets DEF EventInv, ReportExact
    <3>3. IsFiniteSet(ReportsOf(d)) /\ i \in ReportsOf(d)
      BY <2>1, <3>1, ReportsFinite DEF Inv, Types, ReportsOf
    <3>4. Cardinality(ReportsOf(d)) # 0
      BY <3>3, FS_EmptySet
    <3> QED BY <3>1, <3>2, <3>4 DEF Copies
  <2>2. ASSUME NEW d \in DOMAIN docs, d.kind = "event", d.target = Lib
        PROVE  Copies(d, docs) <= 3
    <3>1. Copies(d, docs) <= Told(phase) /\ Copies(d, docs) \in Nat
      BY <2>2 DEF EventInv, LibCounted, Inv, Types, DocTypes, PositiveBag, Copies
    <3>2. Told(phase) \in 0..3
      BY DEF Told
    <3> QED BY <3>1, <3>2
  <2>3. ASSUME NEW i \in DOMAIN requests, requests[i].answer.status >= 400
        PROVE  Coded(i) \/ NotReady(i) \/ Unexplained(requests[i].call, requests[i].answer.status)
    BY <2>3 DEF AllAccounted, Accounted, Coded, NotReady
  <2> QED BY <2>1, <2>2, <2>3 DEF EventInv, HandlersKnown, ReportExact, ReportsOf, EventsExplained
<1> QED BY <1>1, <1>2, EventStep, AccountedStep, InvHolds, PTL DEF Spec
=============================================================================
