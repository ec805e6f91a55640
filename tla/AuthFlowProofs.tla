--------------------------- MODULE AuthFlowProofs ---------------------------
(***************************************************************************)
(* Proofs about AuthFlow, for every number of accounts, addresses and      *)
(* requests, every limit and every window.                                 *)
(***************************************************************************)
EXTENDS AuthFlow, FiniteSetTheorems, TLAPS

-----------------------------------------------------------------------------
(* Type correctness.                                                       *)

\* The counters that the commands leave are counters.
LEMMA CounterTypes ==
    ASSUME TypeOK
    PROVE  /\ \A u \in Users : CountedFailure(u) \in Counter(LockWindow)
           /\ \A ip \in Ips : CountedRequest(ip) \in Counter(RlWindow)
           /\ \A u \in Users : Elapsed(lock[u]) \in Counter(LockWindow)
           /\ \A ip \in Ips : Elapsed(rl[ip]) \in Counter(RlWindow)
           /\ Absent \in Counter(LockWindow)
<1> USE LimitsAssumption DEF TypeOK, Counter, Absent
<1>1. \A u \in Users : CountedFailure(u) \in Counter(LockWindow)
  BY DEF CountedFailure, Armed
<1>2. \A ip \in Ips : CountedRequest(ip) \in Counter(RlWindow)
  BY DEF CountedRequest, Armed
<1>3. \A u \in Users : Elapsed(lock[u]) \in Counter(LockWindow)
  BY DEF Elapsed
<1>4. \A ip \in Ips : Elapsed(rl[ip]) \in Counter(RlWindow)
  BY DEF Elapsed
<1> QED
  BY <1>1, <1>2, <1>3, <1>4

\* Going on and leaving keep the requests typed.
LEMMA RequestTypes ==
    ASSUME TypeOK, NEW p \in Procs
    PROVE  /\ \A pc \in PC : Goto(p, pc) => req' \in [Procs -> Request]
           /\ Leave(p) => req' \in [Procs -> Request]
<1>1. /\ \A pc \in PC : Call(pc, req[p].user, req[p].age) \in Request
      /\ Call("idle", req[p].user, 0) \in Request
  BY LimitsAssumption DEF TypeOK, Call, Request, PC
<1> QED
  BY <1>1 DEF TypeOK, Goto, Leave

\* The history of the admissions keeps its type.
LEMMA HistoryTypes ==
    ASSUME NEW counts \in [1..RlWindow -> Nat]
    PROVE  /\ OneMore(counts) \in [1..RlWindow -> Nat]
           /\ Shifted(counts) \in [1..RlWindow -> Nat]
<1>1. OneMore(counts) \in [1..RlWindow -> Nat]
  BY LimitsAssumption DEF OneMore
<1>2. ASSUME NEW k \in 1..RlWindow
      PROVE  (IF k = 1 THEN 0 ELSE counts[k - 1]) \in Nat
  BY LimitsAssumption
<1> QED
  BY <1>1, <1>2 DEF Shifted

LEMMA HoldFacts ==
    ASSUME TypeOK, NEW ticks \in {0, 1}, Hold(ticks)
    PROVE  /\ held' \in [Users -> 0..LongLock]
           /\ \A u \in Users : /\ ~Locked(u)' => held'[u] = 0
                              /\ held'[u] <= held[u] + ticks
<1> DEFINE Held(u) ==
             CASE ~Locked(u)'                          -> 0
               [] Locked(u)' /\ held[u] < LongLock     -> held[u] + ticks
               [] Locked(u)' /\ ~(held[u] < LongLock)  -> held[u]
<1>1. ASSUME NEW u \in Users
      PROVE  /\ Held(u) \in 0..LongLock
             /\ ~Locked(u)' => Held(u) = 0
             /\ Held(u) <= held[u] + ticks
  <2>1. held[u] \in 0..LongLock /\ LongLock \in Nat
    BY LimitsAssumption DEF TypeOK, LongLock
  <2>2. CASE ~Locked(u)'
    BY <2>1, <2>2
  <2>3. CASE Locked(u)' /\ held[u] < LongLock
    BY <2>1, <2>3
  <2>4. CASE Locked(u)' /\ ~(held[u] < LongLock)
    BY <2>1, <2>4
  <2> QED
    BY <2>2, <2>3, <2>4
<1>2. held' = [u \in Users |-> Held(u)]
  BY Zenon DEF Hold
<1> HIDE DEF Held
<1> QED
  BY <1>1, <1>2

\* Every step preserves the types.
LEMMA TypeStep == TypeOK /\ [Next]_vars => TypeOK'
<1> SUFFICES ASSUME TypeOK, [Next]_vars PROVE TypeOK'
  OBVIOUS
<1> USE LimitsAssumption
<1>1. ASSUME NEW p \in Procs, NEW u \in Users, NEW ip \in Ips,
             Login(p, u, ip) \/ Register(p, u, ip)
      PROVE  TypeOK'
  <2>1. PICK pc \in PC : Arrive(p, u, ip, pc)
    BY <1>1 DEF Login, Register, PC
  <2>2. rl' \in [Ips -> Counter(RlWindow)]
    BY <2>1, CounterTypes DEF Arrive, TypeOK
  <2>3. req' \in [Procs -> Request]
    <3>1. Call(pc, u, 0) \in Request
      BY DEF Call, Request
    <3> QED
      BY <2>1, <3>1 DEF Arrive, TypeOK
  <2>4. admitted' \in [Ips -> [1..RlWindow -> Nat]]
    <3>1. \/ admitted' = admitted
          \/ admitted' = [admitted EXCEPT ![ip] = OneMore(admitted[ip])]
      BY <2>1 DEF Arrive
    <3>2. admitted \in [Ips -> [1..RlWindow -> Nat]]
      BY DEF TypeOK
    <3>3. OneMore(admitted[ip]) \in [1..RlWindow -> Nat]
      BY <3>2, HistoryTypes
    <3> QED
      BY <3>1, <3>2, <3>3
  <2> QED
    BY <2>1, <2>2, <2>3, <2>4 DEF Arrive, TypeOK
<1>2. ASSUME NEW p \in Procs, FindUser(p)
      PROVE  TypeOK'
  BY <1>2, RequestTypes DEF FindUser, TypeOK, PC
<1>3. ASSUME NEW p \in Procs, IsLocked(p)
      PROVE  TypeOK'
  <2>1. req' \in [Procs -> Request]
    BY <1>3, RequestTypes DEF IsLocked, PC
  <2> QED
    BY <1>3, <2>1 DEF IsLocked, TypeOK
<1>4. ASSUME NEW p \in Procs, RecordFailure(p)
      PROVE  TypeOK'
  BY <1>4, RequestTypes, CounterTypes, HoldFacts DEF RecordFailure, TypeOK, PC
<1>5. ASSUME NEW p \in Procs, ClearFailures(p)
      PROVE  TypeOK'
  BY <1>5, RequestTypes, CounterTypes, HoldFacts DEF ClearFailures, TypeOK, PC
<1>6. ASSUME NEW p \in Procs, InsertUser(p)
      PROVE  TypeOK'
  <2>1. req[p].user \in Users
    BY DEF TypeOK, Request
  <2> QED
    BY <1>6, <2>1, RequestTypes DEF InsertUser, TypeOK, PC
<1>7. ASSUME NEW p \in Procs, StartSession(p) \/ Abort(p)
      PROVE  TypeOK'
  BY <1>7, RequestTypes DEF StartSession, Abort, TypeOK
<1>8. CASE Tick
  <2>1. req' \in [Procs -> Request]
    <3>1. ASSUME NEW p \in Procs, ~At(p, "idle")
          PROVE  Call(req[p].pc, req[p].user, req[p].age + 1) \in Request
      BY <1>8, <3>1 DEF Tick, TypeOK, Request, Call
    <3> QED
      BY <1>8, <3>1 DEF Tick, TypeOK
  <2>2. admitted' \in [Ips -> [1..RlWindow -> Nat]]
    BY <1>8, HistoryTypes DEF Tick, TypeOK
  <2> QED
    BY <1>8, <2>1, <2>2, CounterTypes, HoldFacts DEF Tick, TypeOK
<1>9. CASE UNCHANGED vars
  BY <1>9 DEF vars, TypeOK
<1> QED
  BY <1>1, <1>2, <1>3, <1>4, <1>5, <1>6, <1>7, <1>8, <1>9 DEF Next, Step

\* The counters, the requests in flight and the accounts keep their types: no
\* count is negative and no deadline exceeds its window.
THEOREM TypeCorrect == Spec => []TypeOK
<1>1. Init => TypeOK
  BY LimitsAssumption DEF Init, TypeOK, Counter, Absent, Request, PC, LongLock
<1> QED
  BY <1>1, TypeStep, PTL DEF Spec

-----------------------------------------------------------------------------
(* The overshoot of the lock.                                              *)

\* Who passed the test of the lock found fewer failures than the limit.
PassedWithRoom == \A p \in Procs : At(p, "verify") => MaxAttempts > 0

\* The inductive invariant: each login in flight may add one failure.
Bounded == TypeOK /\ PassedWithRoom /\ LockOvershoot

\* The logins of u in flight are a finite set, no larger than the requests.
LEMMA VerifyingFinite ==
    ASSUME NEW u
    PROVE  /\ IsFiniteSet(Verifying(u))
           /\ Cardinality(Verifying(u)) \in Nat
           /\ Cardinality(Procs) \in Nat \ {0}
           /\ Cardinality(Verifying(u)) <= Cardinality(Procs)
  BY ProcsAssumption, FS_Subset, FS_CardinalityType, FS_EmptySet DEF Verifying

\* A request that leaves the password test takes one away.
LEMMA OneLess ==
    ASSUME NEW u, NEW p \in Verifying(u), NEW S, S = Verifying(u) \ {p}
    PROVE  Cardinality(S) = Cardinality(Verifying(u)) - 1
  BY VerifyingFinite, FS_RemoveElement

\* Fewer logins in flight and no more failures keep the bound.
LEMMA Fewer ==
    ASSUME TypeOK, TypeOK', LockOvershoot, NEW u \in Users,
           lock'[u].n <= lock[u].n, Verifying(u)' \subseteq Verifying(u)
    PROVE  lock'[u].n + Cardinality(Verifying(u)')
               <= MaxAttempts + Cardinality(Procs) - 1
<1>1. /\ Cardinality(Verifying(u)') <= Cardinality(Verifying(u))
      /\ Cardinality(Verifying(u)') \in Nat
  BY VerifyingFinite, FS_Subset, FS_CardinalityType
<1>2. lock[u].n \in Nat /\ lock'[u].n \in Nat
  BY DEF TypeOK, Counter
<1> QED
  BY <1>1, <1>2, VerifyingFinite, LimitsAssumption DEF LockOvershoot

\* A request that goes anywhere but to the password test adds no login there.
LEMMA ElsewhereStep ==
    ASSUME TypeOK, NEW p \in Procs, NEW pc, NEW user, NEW age, pc # "verify",
           req' = [req EXCEPT ![p] = Call(pc, user, age)]
    PROVE  /\ \A u \in Users : Verifying(u)' \subseteq Verifying(u)
           /\ \A q \in Procs : At(q, "verify")' => At(q, "verify")
<1>1. \A q \in Procs : At(q, "verify")' => q # p /\ req'[q] = req[q]
  BY DEF TypeOK, Call, At
<1> QED
  BY <1>1 DEF Verifying, At

\* Every step preserves the bound: a login enters the password test only below
\* the limit, and leaves it with at most one more failure.
LEMMA BoundedStep == Bounded /\ [Next]_vars => Bounded'
<1> SUFFICES ASSUME TypeOK, PassedWithRoom, LockOvershoot, [Next]_vars, TypeOK'
             PROVE  PassedWithRoom' /\ LockOvershoot'
  BY TypeStep DEF Bounded
<1> DEFINE Bound(u) == lock[u].n + Cardinality(Verifying(u))
                           <= MaxAttempts + Cardinality(Procs) - 1
<1>1. \A u \in Users : lock[u].n \in Nat /\ lock'[u].n \in Nat
  BY DEF TypeOK, Counter
<1>2. ASSUME NEW p \in Procs, IsLocked(p)
      PROVE  PassedWithRoom' /\ LockOvershoot'
  <2>1. PICK w \in Users : w = req[p].user
    BY DEF TypeOK, Request
  <2>2. lock' = lock
    BY <1>2 DEF IsLocked
  <2>3. CASE ~Locked(w)
    <3>1. lock[w].n + 1 <= MaxAttempts
      BY <1>1, <2>3, LimitsAssumption DEF Locked
    <3>2. PassedWithRoom'
      BY <3>1, <1>1, LimitsAssumption DEF PassedWithRoom
    <3>3. ASSUME NEW u \in Users, u # w
          PROVE  Verifying(u)' \subseteq Verifying(u)
      <4>1. req' = [req EXCEPT ![p] = Call("verify", w, req[p].age)]
        BY <1>2, <2>1, <2>3 DEF IsLocked, Goto
      <4>2. \A q \in Procs : req'[q].user = u => q # p /\ req'[q] = req[q]
        BY <4>1, <3>3 DEF Call, TypeOK
      <4> QED
        BY <4>2 DEF Verifying, At
    <3>4. ASSUME NEW u \in Users, u # w
          PROVE  Bound(u)'
      BY <3>3, <3>4, <2>2, <1>1, Fewer
    <3>5. Bound(w)'
      <4>1. /\ IsFiniteSet(Verifying(w)')
            /\ Cardinality(Verifying(w)') <= Cardinality(Procs)
            /\ Cardinality(Verifying(w)') \in Nat
        BY ProcsAssumption, FS_Subset, FS_CardinalityType DEF Verifying
      <4> QED
        BY <4>1, <3>1, <2>2, <1>1, VerifyingFinite, LimitsAssumption
    <3> QED
      BY <3>2, <3>4, <3>5 DEF LockOvershoot
  <2>4. CASE Locked(w)
    <3>1. /\ \A u \in Users : Verifying(u)' \subseteq Verifying(u)
          /\ \A q \in Procs : At(q, "verify")' => At(q, "verify")
      <4>1. req' = [req EXCEPT ![p] = Call("idle", req[p].user, 0)]
        BY <1>2, <2>1, <2>4 DEF IsLocked, Leave
      <4> QED
        BY <4>1, ElsewhereStep
    <3> QED
      BY <3>1, <2>2, <1>1, Fewer DEF PassedWithRoom, LockOvershoot
  <2> QED
    BY <2>3, <2>4
<1>3. ASSUME NEW p \in Procs, RecordFailure(p)
      PROVE  PassedWithRoom' /\ LockOvershoot'
  <2>1. PICK w \in Users : w = req[p].user
    BY DEF TypeOK, Request
  <2>2. /\ p \in Verifying(w)
        /\ Verifying(w)' = Verifying(w) \ {p}
        /\ \A u \in Users : Verifying(u)' \subseteq Verifying(u)
        /\ \A q \in Procs : At(q, "verify")' => At(q, "verify")
    BY <1>3, <2>1
       DEF RecordFailure, Leave, Call, Verifying, At, TypeOK, Request
  <2>3. lock'[w].n <= lock[w].n + 1 /\ \A u \in Users \ {w} : lock'[u] = lock[u]
    BY <1>3, <2>1, <1>1
       DEF RecordFailure, CountedFailure, Armed, Absent, TypeOK
  <2>4. ASSUME NEW u \in Users, u # w
        PROVE  Bound(u)'
    BY <2>2, <2>3, <2>4, <1>1, Fewer
  <2>5. Bound(w)'
    <3>1. Cardinality(Verifying(w)') = Cardinality(Verifying(w)) - 1
      BY <2>2, OneLess
    <3>2. lock[w].n + Cardinality(Verifying(w))
              <= MaxAttempts + Cardinality(Procs) - 1
      BY DEF LockOvershoot
    <3> QED
      BY <3>1, <3>2, <2>3, <1>1, VerifyingFinite, LimitsAssumption
  <2> QED
    BY <2>2, <2>4, <2>5 DEF PassedWithRoom, LockOvershoot
<1>4. ASSUME NEW p \in Procs, ClearFailures(p)
      PROVE  PassedWithRoom' /\ LockOvershoot'
  <2>1. /\ \A u \in Users : Verifying(u)' \subseteq Verifying(u)
        /\ \A q \in Procs : At(q, "verify")' => At(q, "verify")
    BY <1>4 DEF ClearFailures, Goto, Call, Verifying, At, TypeOK, Request
  <2>2. \A u \in Users : lock'[u].n <= lock[u].n
    BY <1>4, <1>1 DEF ClearFailures, Absent, TypeOK
  <2> QED
    BY <2>1, <2>2, Fewer DEF PassedWithRoom, LockOvershoot
<1>5. ASSUME lock' = lock,
             \A u \in Users : Verifying(u)' \subseteq Verifying(u),
             \A q \in Procs : At(q, "verify")' => At(q, "verify")
      PROVE  PassedWithRoom' /\ LockOvershoot'
  BY <1>1, <1>5, Fewer DEF PassedWithRoom, LockOvershoot
<1>6. ASSUME NEW p \in Procs, NEW u \in Users, NEW ip \in Ips,
             Login(p, u, ip) \/ Register(p, u, ip)
      PROVE  PassedWithRoom' /\ LockOvershoot'
  <2>1. PICK pc \in {"find_user", "insert_user"} : Arrive(p, u, ip, pc)
    BY <1>6 DEF Login, Register
  <2>2. req' = req \/ req' = [req EXCEPT ![p] = Call(pc, u, 0)]
    BY <2>1 DEF Arrive
  <2>3. lock' = lock
    BY <2>1 DEF Arrive
  <2> QED
    <3>1. CASE req' = req
      BY <3>1, <2>3, <1>5 DEF Verifying, At
    <3>2. CASE req' = [req EXCEPT ![p] = Call(pc, u, 0)]
      BY <3>2, <2>3, <1>5, ElsewhereStep
    <3> QED
      BY <2>2, <3>1, <3>2
<1>7. ASSUME NEW p \in Procs,
             FindUser(p) \/ InsertUser(p) \/ StartSession(p) \/ Abort(p)
      PROVE  PassedWithRoom' /\ LockOvershoot'
  <2>1. /\ \A u \in Users : Verifying(u)' \subseteq Verifying(u)
        /\ \A q \in Procs : At(q, "verify")' => At(q, "verify")
    <3>1. PICK pc, age :
              /\ pc # "verify"
              /\ req' = [req EXCEPT ![p] = Call(pc, req[p].user, age)]
      BY <1>7 DEF FindUser, InsertUser, StartSession, Abort, Goto, Leave
    <3> QED
      BY <3>1, ElsewhereStep
  <2> QED
    BY <1>5, <1>7, <2>1 DEF FindUser, InsertUser, StartSession, Abort
<1>8. CASE Tick
  <2>1. /\ \A u \in Users : Verifying(u)' \subseteq Verifying(u)
        /\ \A q \in Procs : At(q, "verify")' => At(q, "verify")
    BY <1>8 DEF Tick, Call, Verifying, At, TypeOK
  <2>2. \A u \in Users : lock'[u].n <= lock[u].n
    BY <1>1, <1>8 DEF Tick, Elapsed, Absent, TypeOK, Counter
  <2> QED
    BY <2>1, <2>2, Fewer DEF PassedWithRoom, LockOvershoot
<1>9. CASE UNCHANGED vars
  BY <1>5, <1>9 DEF vars, Verifying, At
<1> QED
  BY <1>2, <1>3, <1>4, <1>6, <1>7, <1>8, <1>9 DEF Next, Step

\* However many logins of an account race, the failures counted against it
\* exceed the limit by less than the number of requests in flight.
THEOREM OvershootBounded == Spec => []LockOvershoot
<1>1. Init => Bounded
  <2> SUFFICES ASSUME Init PROVE PassedWithRoom /\ LockOvershoot
    BY LimitsAssumption DEF Init, Bounded, TypeOK, Counter, Absent, Request, PC, LongLock
  <2>1. \A p \in Procs : req[p].pc = "idle"
    BY DEF Init
  <2>2. \A u \in Users : Verifying(u) = {} /\ lock[u].n = 0
    BY <2>1 DEF Init, Verifying, At, Absent
  <2> QED
    BY <2>1, <2>2, VerifyingFinite, FS_EmptySet, LimitsAssumption
       DEF PassedWithRoom, LockOvershoot, At
<1>2. Bounded => LockOvershoot
  BY DEF Bounded
<1> QED
  BY <1>1, <1>2, BoundedStep, PTL DEF Spec

-----------------------------------------------------------------------------
(* The end of a lock.                                                      *)

\* A login past the test of the lock is at least as old as the lock, so that a
\* lock is armed for the last time before it is as old as a request may get.
Timed ==
    /\ \A p \in Procs : At(p, "verify") => held[req[p].user] <= req[p].age
    /\ \A u \in Users : Locked(u) =>
           /\ lock[u].ttl > 0
           /\ held[u] + lock[u].ttl <= LockWindow + RequestTimeout
    /\ \A u \in Users : ~Locked(u) => held[u] = 0

\* Neither a lock nor the age of a login past the test is touched.
LEMMA UntouchedTimed ==
    ASSUME Timed, UNCHANGED <<lock, held>>,
           \A p \in Procs : At(p, "verify")' => At(p, "verify") /\ req'[p] = req[p]
    PROVE  Timed'
  BY DEF Timed, Locked, At

LEMMA TimedStep == TypeOK /\ Timed /\ [Next]_vars /\ MaxAttempts > 0 => Timed'
<1> SUFFICES ASSUME TypeOK, Timed, [Next]_vars, MaxAttempts > 0 PROVE Timed'
  OBVIOUS
<1> USE LimitsAssumption
<1>1. /\ \A p \in Procs : req[p].user \in Users /\ req[p].age \in 0..RequestTimeout
      /\ \A u \in Users : /\ lock[u].n \in Nat /\ lock[u].ttl \in 0..LockWindow
                         /\ held[u] \in Nat
  BY DEF TypeOK, Request, Counter
<1>2. ASSUME NEW p \in Procs, IsLocked(p) PROVE Timed'
  <2>1. lock' = lock /\ held' = held
    BY <1>2 DEF IsLocked
  <2>2. CASE Locked(req[p].user)
    <3>1. req' = [req EXCEPT ![p] = Call("idle", req[p].user, 0)]
      BY <1>2, <2>2 DEF IsLocked, Leave
    <3> QED
      BY <2>1, <3>1, UntouchedTimed DEF At, Call, TypeOK
  <2>3. CASE ~Locked(req[p].user)
    <3>1. req' = [req EXCEPT ![p] = Call("verify", req[p].user, req[p].age)]
      BY <1>2, <2>3 DEF IsLocked, Goto
    <3>2. held[req[p].user] = 0
      BY <1>1, <2>3 DEF Timed
    <3>3. ASSUME NEW q \in Procs, At(q, "verify")'
          PROVE  held'[req'[q].user] <= req'[q].age
      <4>1. CASE q = p
        BY <1>1, <2>1, <3>1, <3>2, <4>1 DEF Call, TypeOK
      <4>2. CASE q # p
        BY <2>1, <3>1, <3>3, <4>2 DEF Timed, At, TypeOK
      <4> QED
        BY <4>1, <4>2
    <3> QED
      BY <2>1, <3>3 DEF Timed, Locked
  <2> QED
    BY <2>2, <2>3
<1>3. ASSUME NEW p \in Procs, RecordFailure(p) PROVE Timed'
  <2>1. PICK w \in Users : w = req[p].user
    BY <1>1
  <2>2. held[w] <= RequestTimeout
    BY <1>1, <1>3, <2>1 DEF RecordFailure, Timed
  <2>3. lock'[w] = Armed(lock[w].n + 1, LockWindow) /\ \A u \in Users : u # w => lock'[u] = lock[u]
    BY <1>3, <2>1 DEF RecordFailure, CountedFailure, TypeOK
  <2>4. \A u \in Users : /\ ~Locked(u)' => held'[u] = 0
                         /\ held'[u] \in Nat /\ held'[u] <= held[u]
    BY <1>1, <1>3, HoldFacts DEF RecordFailure, LongLock
  <2>5. ASSUME NEW q \in Procs, At(q, "verify")'
        PROVE  held'[req'[q].user] <= req'[q].age
    <3>1. q # p /\ req'[q] = req[q]
      BY <1>3, <2>5 DEF RecordFailure, Leave, Call, At, TypeOK
    <3>2. held[req[q].user] <= req[q].age
      BY <2>5, <3>1 DEF Timed, At
    <3> QED
      BY <1>1, <2>4, <3>1, <3>2
  <2>6. ASSUME NEW u \in Users, Locked(u)'
        PROVE  lock'[u].ttl > 0 /\ held'[u] + lock'[u].ttl <= LockWindow + RequestTimeout
    <3>1. held'[u] <= held[u] /\ held'[u] \in Nat
      BY <2>4
    <3>2. CASE u = w
      BY <1>1, <2>2, <2>3, <2>6, <3>1, <3>2 DEF Locked, Armed, Absent
    <3>3. CASE u # w
      BY <1>1, <2>3, <2>6, <3>1, <3>3 DEF Timed, Locked
    <3> QED
      BY <3>2, <3>3
  <2>7. \A u \in Users : ~Locked(u)' => held'[u] = 0
    BY <2>4
  <2> QED
    BY <2>5, <2>6, <2>7 DEF Timed
<1>4. ASSUME NEW p \in Procs, ClearFailures(p) PROVE Timed'
  <2>1. PICK w \in Users : w = req[p].user
    BY <1>1
  <2>2. lock'[w] = Absent /\ \A u \in Users : u # w => lock'[u] = lock[u]
    BY <1>4, <2>1 DEF ClearFailures, TypeOK
  <2>3. \A u \in Users : /\ ~Locked(u)' => held'[u] = 0
                         /\ held'[u] \in Nat /\ held'[u] <= held[u]
    BY <1>1, <1>4, HoldFacts DEF ClearFailures, LongLock
  <2>4. ASSUME NEW q \in Procs, At(q, "verify")'
        PROVE  held'[req'[q].user] <= req'[q].age
    <3>1. q # p /\ req'[q] = req[q]
      BY <1>4, <2>4 DEF ClearFailures, Goto, Call, At, TypeOK
    <3>2. held[req[q].user] <= req[q].age
      BY <2>4, <3>1 DEF Timed, At
    <3> QED
      BY <1>1, <2>3, <3>1, <3>2
  <2>5. ASSUME NEW u \in Users, Locked(u)'
        PROVE  lock'[u].ttl > 0 /\ held'[u] + lock'[u].ttl <= LockWindow + RequestTimeout
    <3>1. u # w
      BY <2>2, <2>5 DEF Locked, Absent
    <3>2. held'[u] <= held[u] /\ held'[u] \in Nat /\ lock'[u] = lock[u]
      BY <2>2, <2>3, <3>1
    <3> QED
      BY <1>1, <2>5, <3>2 DEF Timed, Locked
  <2>6. \A u \in Users : ~Locked(u)' => held'[u] = 0
    BY <2>3
  <2> QED
    BY <2>4, <2>5, <2>6 DEF Timed
<1>5. CASE Tick
  <2>1. \A u \in Users : /\ lock'[u] = Elapsed(lock[u])
                         /\ ~Locked(u)' => held'[u] = 0
                         /\ held'[u] \in Nat /\ held'[u] <= held[u] + 1
    BY <1>1, <1>5, HoldFacts DEF Tick, LongLock
  <2>2. ASSUME NEW q \in Procs, At(q, "verify")'
        PROVE  held'[req'[q].user] <= req'[q].age
    <3>1. /\ At(q, "verify") /\ req'[q].user = req[q].user
          /\ req'[q].age = req[q].age + 1
      BY <1>5, <2>2 DEF Tick, Call, At, TypeOK
    <3>2. held[req[q].user] <= req[q].age
      BY <3>1 DEF Timed
    <3> QED
      BY <1>1, <2>1, <3>1, <3>2
  <2>3. ASSUME NEW u \in Users, Locked(u)'
        PROVE  lock'[u].ttl > 0 /\ held'[u] + lock'[u].ttl <= LockWindow + RequestTimeout
    <3> DEFINE c == lock[u]
    <3>1. c.n \in Nat /\ c.ttl \in Nat /\ lock'[u] = Elapsed(c) /\ Elapsed(c).n >= MaxAttempts
      BY <1>1, <2>1, <2>3 DEF Locked
    <3>2. c.ttl # 1 /\ c.n >= MaxAttempts
      <4>1. CASE c.ttl = 0
        BY <3>1, <4>1 DEF Elapsed
      <4>2. CASE c.ttl = 1
        BY <3>1, <4>2 DEF Elapsed, Absent
      <4>3. CASE c.ttl # 0 /\ c.ttl # 1
        BY <3>1, <4>3 DEF Elapsed
      <4> QED
        BY <4>1, <4>2, <4>3
    <3>3. Locked(u) /\ c.ttl > 1
      BY <1>1, <3>2 DEF Timed, Locked
    <3>4. lock'[u].ttl = c.ttl - 1
      BY <3>1, <3>3 DEF Elapsed
    <3>5. held'[u] <= held[u] + 1 /\ held'[u] \in Nat
      BY <2>1, <2>3
    <3> QED
      BY <1>1, <3>3, <3>4, <3>5 DEF Timed
  <2>4. \A u \in Users : ~Locked(u)' => held'[u] = 0
    BY <2>1
  <2> QED
    BY <2>2, <2>3, <2>4 DEF Timed
<1>6. ASSUME NEW p \in Procs, NEW u \in Users, NEW ip \in Ips,
             Login(p, u, ip) \/ Register(p, u, ip)
      PROVE  Timed'
  <2>1. PICK pc \in {"find_user", "insert_user"} : Arrive(p, u, ip, pc)
    BY <1>6 DEF Login, Register
  <2> QED
    BY <2>1, UntouchedTimed DEF Arrive, Call, At, TypeOK
<1>7. ASSUME NEW p \in Procs,
             FindUser(p) \/ InsertUser(p) \/ StartSession(p) \/ Abort(p)
      PROVE  Timed'
  <2>1. PICK pc, age :
            /\ pc # "verify"
            /\ req' = [req EXCEPT ![p] = Call(pc, req[p].user, age)]
    BY <1>7 DEF FindUser, InsertUser, StartSession, Abort, Goto, Leave
  <2>2. \A q \in Procs : At(q, "verify")' => At(q, "verify") /\ req'[q] = req[q]
    BY <2>1 DEF Call, At, TypeOK
  <2> QED
    BY <1>7, <2>2, UntouchedTimed DEF FindUser, InsertUser, StartSession, Abort
<1>8. CASE UNCHANGED vars
  BY <1>8, UntouchedTimed DEF vars, At
<1> QED
  BY <1>2, <1>3, <1>4, <1>5, <1>6, <1>7, <1>8 DEF Next, Step

\* Where a lock takes a failure at least, no account stays locked for longer than
\* the lockout and one request take, however many attempts are made on it.
THEOREM LockIsTemporary == Spec => []LockEnds
<1>1. CASE MaxAttempts > 0
  <2>1. Init => Timed
    BY <1>1, LimitsAssumption DEF Init, Timed, Locked, At, Absent
  <2>2. TypeOK /\ Timed => LockEnds
    BY LimitsAssumption DEF TypeOK, Counter, Timed, LockEnds, LongLock
  <2> QED
    BY <1>1, <2>1, <2>2, TimedStep, TypeCorrect, PTL DEF Spec
<1>2. CASE ~(MaxAttempts > 0)
  <2>1. LockEnds
    BY <1>2 DEF LockEnds
  <2> QED
    BY <2>1, PTL
<1> QED
  BY <1>1, <1>2

-----------------------------------------------------------------------------
(* The quota of an address.                                                *)

\* The counter of an address counts at least the requests admitted in any of the
\* last windows, and when k ticks have passed since the last request none was
\* admitted in them: its deadline is armed again by every request, so that it is
\* gone only when the window is empty.
Metered ==
    \A ip \in Ips, k \in 1..RlWindow :
        /\ admitted[ip][k] <= rl[ip].n
        /\ admitted[ip][k] <= RlMax
        /\ k + rl[ip].ttl <= RlWindow => admitted[ip][k] = 0

LEMMA ArriveMetered ==
    ASSUME TypeOK, Metered, NEW p \in Procs, NEW u \in Users, NEW ip \in Ips, NEW pc,
           Arrive(p, u, ip, pc)
    PROVE  Metered'
<1> USE LimitsAssumption
<1>1. /\ rl[ip].n \in Nat /\ rl[ip].ttl \in Nat
      /\ \A k \in 1..RlWindow : admitted[ip][k] \in Nat
  BY DEF TypeOK, Counter
<1>2. /\ rl'[ip] = CountedRequest(ip)
      /\ \A j \in Ips : j # ip => rl'[j] = rl[j] /\ admitted'[j] = admitted[j]
  BY DEF Arrive, TypeOK
<1>3. /\ CountedRequest(ip).ttl = RlWindow
      /\ CountedRequest(ip).n = IF rl[ip].n > RlMax THEN rl[ip].n ELSE rl[ip].n + 1
  BY DEF CountedRequest, Armed
<1>4. ASSUME NEW k \in 1..RlWindow
      PROVE  admitted'[ip][k] <= rl'[ip].n /\ admitted'[ip][k] <= RlMax
  <2>1. admitted[ip][k] <= rl[ip].n /\ admitted[ip][k] <= RlMax
    BY DEF Metered
  <2>2. CASE WithinQuota(ip) /\ admitted' = [admitted EXCEPT ![ip] = OneMore(admitted[ip])]
    <3>1. admitted'[ip][k] = admitted[ip][k] + 1
      BY <2>2 DEF OneMore, TypeOK
    <3> QED
      BY <1>1, <1>2, <1>3, <2>1, <2>2, <3>1 DEF WithinQuota
  <2>3. CASE admitted' = admitted
    BY <1>1, <1>2, <1>3, <2>1, <2>3
  <2> QED
    BY <2>2, <2>3 DEF Arrive
<1>5. ASSUME NEW j \in Ips, NEW k \in 1..RlWindow
      PROVE  /\ admitted'[j][k] <= rl'[j].n
             /\ admitted'[j][k] <= RlMax
             /\ k + rl'[j].ttl <= RlWindow => admitted'[j][k] = 0
  <2>1. CASE j = ip
    BY <1>2, <1>3, <1>4, <2>1
  <2>2. CASE j # ip
    BY <1>2, <2>2 DEF Metered
  <2> QED
    BY <2>1, <2>2
<1> QED
  BY <1>5 DEF Metered

LEMMA TickMetered ==
    ASSUME TypeOK, Metered, Tick
    PROVE  Metered'
<1> USE LimitsAssumption
<1> SUFFICES ASSUME NEW ip \in Ips, NEW k \in 1..RlWindow
             PROVE  /\ admitted'[ip][k] <= rl'[ip].n
                    /\ admitted'[ip][k] <= RlMax
                    /\ k + rl'[ip].ttl <= RlWindow => admitted'[ip][k] = 0
  BY DEF Metered
<1>1. /\ rl[ip].n \in Nat /\ rl[ip].ttl \in Nat /\ rl'[ip] = Elapsed(rl[ip])
      /\ admitted'[ip][k] = IF k = 1 THEN 0 ELSE admitted[ip][k - 1]
  BY DEF Tick, TypeOK, Counter, Shifted
<1>2. CASE k = 1
  <2>1. rl'[ip].n \in Nat
    BY <1>1 DEF Elapsed, Absent
  <2> QED
    BY <1>1, <1>2, <2>1
<1>3. CASE k # 1
  <2>1. k - 1 \in 1..RlWindow /\ admitted[ip][k - 1] \in Nat
    BY <1>3 DEF TypeOK
  <2>2. /\ admitted[ip][k - 1] <= rl[ip].n /\ admitted[ip][k - 1] <= RlMax
        /\ (k - 1) + rl[ip].ttl <= RlWindow => admitted[ip][k - 1] = 0
    BY <2>1 DEF Metered
  <2>3. CASE rl[ip].ttl \in {0, 1}
    <3>1. admitted[ip][k - 1] = 0
      BY <2>2, <2>3
    <3>2. rl'[ip].n \in Nat
      BY <1>1 DEF Elapsed, Absent
    <3> QED
      BY <1>1, <1>3, <3>1, <3>2
  <2>4. CASE rl[ip].ttl \notin {0, 1}
    <3>1. rl'[ip].n = rl[ip].n /\ rl'[ip].ttl = rl[ip].ttl - 1
      BY <1>1, <2>4 DEF Elapsed
    <3> QED
      BY <1>1, <1>3, <2>1, <2>2, <3>1
  <2> QED
    BY <2>3, <2>4
<1> QED
  BY <1>2, <1>3

LEMMA MeteredStep == TypeOK /\ Metered /\ [Next]_vars => Metered'
<1> SUFFICES ASSUME TypeOK, Metered, [Next]_vars PROVE Metered'
  OBVIOUS
<1>1. ASSUME NEW p \in Procs, NEW u \in Users, NEW ip \in Ips,
             Login(p, u, ip) \/ Register(p, u, ip)
      PROVE  Metered'
  BY <1>1, ArriveMetered DEF Login, Register
<1>2. CASE Tick
  BY <1>2, TickMetered
<1>3. CASE UNCHANGED <<rl, admitted>>
  BY <1>3 DEF Metered
<1>4. ASSUME NEW p \in Procs, Step(p)
      PROVE  UNCHANGED <<rl, admitted>>
  BY <1>4 DEF Step, FindUser, IsLocked, RecordFailure, ClearFailures, InsertUser,
              StartSession, Abort
<1> QED
  BY <1>1, <1>2, <1>3, <1>4 DEF Next, vars

\* Whatever the requests of an address and however they are spread, no window of
\* time admits more of them than the quota.
THEOREM QuotaNeverExceeded == Spec => []QuotaHolds
<1>1. Init => Metered
  BY LimitsAssumption DEF Init, Metered, Absent
<1>2. Metered => QuotaHolds
  BY LimitsAssumption DEF Metered, QuotaHolds
<1> QED
  BY <1>1, <1>2, MeteredStep, TypeCorrect, PTL DEF Spec
=============================================================================
