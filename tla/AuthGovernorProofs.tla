------------------------ MODULE AuthGovernorProofs ------------------------
(* What holds of AuthGovernor for every value of its constants.             *)
EXTENDS AuthGovernor, FiniteSetTheorems, TLAPS

-----------------------------------------------------------------------------
(* The address.                                                            *)

\* With as many trusted hops as proxies, only the entry after the forged ones is
\* trusted: no other has as many entries to its right.
LEMMA OneTrustedEntry ==
    ASSUME NEW xff \in Seq(Addrs \cup {Blank}), NEW n \in Nat \ {0},
           NEW m \in DOMAIN xff, Len(xff) = m + n - 1,
           \A j \in m..Len(xff) : xff[j] # Blank
    PROVE  \A i \in DOMAIN xff : IsTrusted(xff, n, i) <=> i = m
<1> DEFINE L == Len(xff)
           Right(i) == {j \in i..L : xff[j] # Blank}
<1>1. L \in Nat /\ m \in 1..L /\ DOMAIN xff = 1..L
  OBVIOUS
<1>2. \A i \in m..L : Right(i) = i..L
  BY <1>1
<1>3. \A i \in m..L : Cardinality(Right(i)) = L - i + 1
  <2> SUFFICES ASSUME NEW i \in m..L
               PROVE  Cardinality(Right(i)) = L - i + 1
    OBVIOUS
  <2>1. i \in Int /\ i <= L
    BY <1>1
  <2>2. Cardinality(i..L) = L - i + 1
    BY <1>1, <2>1, FS_Interval
  <2> QED  BY <1>2, <2>2
<1>4. ASSUME NEW i \in 1..L, i < m, xff[i] # Blank
      PROVE  Cardinality(Right(i)) > n
  <2>1. i \in Int /\ m \in Int
    BY <1>1
  <2>2. IsFiniteSet(i..L) /\ IsFiniteSet(m..L) /\ Cardinality(m..L) = n
    BY <1>1, <2>1, FS_Interval
  <2>3. i \notin m..L
    BY <1>1, <1>4
  <2>4. IsFiniteSet((m..L) \cup {i}) /\ Cardinality((m..L) \cup {i}) = n + 1
    BY <2>2, <2>3, FS_AddElement
  <2>5. (m..L) \cup {i} \in SUBSET Right(i)
    BY <1>1, <1>4
  <2>6. IsFiniteSet(Right(i))
    <3>1. Right(i) \in SUBSET (i..L)
      OBVIOUS
    <3> QED  BY <2>2, <3>1, FS_Subset
  <2>7. Cardinality((m..L) \cup {i}) <= Cardinality(Right(i))
    BY <2>5, <2>6, FS_Subset
  <2>8. Cardinality(Right(i)) \in Nat
    BY <2>6, FS_CardinalityType
  <2> QED  BY <2>4, <2>7, <2>8
<1>5. \A i \in 1..L : IsTrusted(xff, n, i) <=> xff[i] # Blank /\ Cardinality(Right(i)) = n
  BY DEF IsTrusted, FromRight
<1>6. Cardinality(Right(m)) = n /\ xff[m] # Blank
  BY <1>1, <1>3
<1>7. ASSUME NEW i \in 1..L, i > m
      PROVE  Cardinality(Right(i)) # n
  BY <1>1, <1>3, <1>7
<1> QED
  <2> SUFFICES ASSUME NEW i \in 1..L
               PROVE  IsTrusted(xff, n, i) <=> i = m
    BY <1>1
  <2> HIDE DEF Right
  <2>1. CASE i = m
    BY <2>1, <1>5, <1>6
  <2>2. CASE i > m
    BY <1>1, <2>2, <1>5, <1>7
  <2>3. CASE i < m
    <3>1. xff[i] # Blank => Cardinality(Right(i)) # n
      BY <1>4, <2>3
    <3> QED  BY <1>1, <1>5, <2>3, <3>1
  <2> QED  BY <1>1, <2>1, <2>2, <2>3

\* The proxies leave the header as the previous lemma wants it.
LEMMA HeaderShape ==
    ASSUME NEW c \in Addrs, NEW f \in Seq(Addrs \cup {Blank}),
           Proxies # <<>>, Proxies \in Seq(Addrs), Blank \notin Addrs
    PROVE  LET xff == Header(c, f, Proxies)
               m == Len(f) + 1
           IN  /\ xff \in Seq(Addrs \cup {Blank})
               /\ Len(Proxies) \in Nat \ {0}
               /\ m \in DOMAIN xff /\ Len(xff) = m + Len(Proxies) - 1
               /\ \A j \in m..Len(xff) : xff[j] # Blank
               /\ xff[m] = c
<1> DEFINE n == Len(Proxies)
           tail == [i \in 1..n |-> IF i = 1 THEN c ELSE Proxies[i - 1]]
           m == Len(f) + 1
<1>1. n \in Nat \ {0}
  OBVIOUS
<1>2. \A i \in 1..n : tail[i] \in Addrs
  <2> SUFFICES ASSUME NEW i \in 1..n, i # 1
               PROVE  Proxies[i - 1] \in Addrs
    OBVIOUS
  <2>1. i - 1 \in 1..n
    BY <1>1
  <2> QED  BY <2>1
<1>3. tail \in Seq(Addrs) /\ Len(tail) = n
  BY <1>1, <1>2
<1>4. tail[1] = c
  BY <1>1
<1> HIDE DEF tail
<1>5. Header(c, f, Proxies) = f \o tail
  BY DEF Header, tail
<1>6. /\ f \o tail \in Seq(Addrs \cup {Blank})
      /\ Len(f \o tail) = Len(f) + n
  BY <1>3
<1>7. \A j \in m..(Len(f) + n) : (f \o tail)[j] = tail[j - Len(f)] /\ j - Len(f) \in 1..n
  BY <1>1, <1>3
<1>8. \A j \in m..(Len(f) + n) : (f \o tail)[j] \in Addrs
  BY <1>2, <1>7 DEF tail
<1>9. m \in m..(Len(f) + n) /\ m \in 1..(Len(f) + n)
  BY <1>1
<1>10. (f \o tail)[m] = c
  <2>1. m - Len(f) = 1
    OBVIOUS
  <2> QED  BY <1>4, <1>7, <1>9, <2>1
<1>11. m \in DOMAIN (f \o tail) /\ Len(f \o tail) = m + n - 1
  BY <1>1, <1>6, <1>9
<1>12. \A j \in m..Len(f \o tail) : (f \o tail)[j] # Blank
  BY <1>6, <1>8
<1> QED  BY <1>1, <1>5, <1>6, <1>10, <1>11, <1>12

\* No header that a client sends changes the address it is counted under
\* (client.rs: client_ip, RateLimitKeyExtractor).
THEOREM KeyIsClient == \A c \in Clients, f \in Forgeries : Key(c, f) = c
<1> SUFFICES ASSUME NEW c \in Clients, NEW f \in Forgeries
             PROVE  Key(c, f) = c
  OBVIOUS
<1>1. /\ c \in Addrs /\ f \in Seq(Addrs \cup {Blank})
      /\ Proxies \in Seq(Addrs) /\ Blank \notin Addrs
      /\ TrustedHops = Len(Proxies)
  BY ClientsAssumption, HopsAssumption
<1>2. CASE Proxies = <<>>
  BY <1>1, <1>2 DEF Key, ClientIp, PeerIp
<1>3. CASE Proxies # <<>>
  <2> DEFINE xff == Header(c, f, Proxies)
             m == Len(f) + 1
             n == Len(Proxies)
  <2>1. /\ xff \in Seq(Addrs \cup {Blank})
        /\ n \in Nat \ {0}
        /\ m \in DOMAIN xff /\ Len(xff) = m + n - 1
        /\ \A j \in m..Len(xff) : xff[j] # Blank
        /\ xff[m] = c
    BY <1>1, <1>3, HeaderShape
  <2> HIDE DEF xff, m, n
  <2>2. \A i \in DOMAIN xff : IsTrusted(xff, n, i) <=> i = m
    BY <2>1, OneTrustedEntry
  <2>3. n > 0 /\ \E i \in DOMAIN xff : IsTrusted(xff, n, i) /\ xff[i] \in Addrs
    BY <1>1, <2>1, <2>2
  <2>4. (CHOOSE i \in DOMAIN xff : IsTrusted(xff, n, i)) = m
    BY <2>1, <2>2
  <2>5. ClientIp(xff, PeerIp(c, Proxies), n) = c
    BY <2>1, <2>3, <2>4 DEF ClientIp
  <2> QED  BY <1>1, <2>5 DEF Key, xff, n
<1> QED  BY <1>2, <1>3

-----------------------------------------------------------------------------
(* Types and budget.                                                       *)

\* A bucket holds Capacity ticks, of which a request takes Period.
Capacity == Burst * Period
LEMMA Numbers ==
    /\ Period \in Nat /\ Period > 0 /\ Capacity \in Nat /\ Window \in Nat
    /\ 0 * Period = 0
    /\ \A n \in Nat : n * Period \in Nat /\ (n + 1) * Period = n * Period + Period
<1>1. \A b, p \in Nat : b * p \in Nat /\ 0 * p = 0 /\ (b + 1) * p = b * p + p
  OBVIOUS
<1> QED  BY <1>1, QuotaAssumption DEF Capacity

LEMMA WindowIsNat == Window \in Nat /\ Capacity \in Nat
  BY Numbers

\* What a client got in the last k ticks is at most what its bucket still owes
\* and what k ticks gave back: the inductive form of ClientBudget.
OwedBound ==
    \A c \in Clients, k \in 1..Window : within[c][k] * Period <= backlog[c] + k - 1

TypeInv ==
    /\ backlog \in [Addrs -> 0..Capacity]
    /\ answer \in [to : Clients, ok : BOOLEAN]
    /\ within \in [Clients -> [1..Window -> Nat]]

LEMMA InitOK == Init => TypeInv /\ OwedBound
<1> SUFFICES ASSUME Init PROVE TypeInv /\ OwedBound
  OBVIOUS
<1>1. TypeInv
  BY Numbers DEF Init, TypeInv
<1>2. OwedBound
  <2> SUFFICES ASSUME NEW c \in Clients, NEW k \in 1..Window
               PROVE  within[c][k] * Period <= backlog[c] + k - 1
    BY DEF OwedBound
  <2>1. c \in Addrs
    BY ClientsAssumption
  <2>2. within[c][k] = 0 /\ backlog[c] = 0
    BY <2>1 DEF Init
  <2> QED  BY <2>2, Numbers
<1> QED  BY <1>1, <1>2

\* A request is counted under the address of the client that sends it.
LEMMA RequestIsOwn ==
    ASSUME NEW c \in Clients, NEW f \in Forgeries, Request(c, f)
    PROVE  /\ answer' = [to |-> c, ok |-> Pays(c)]
           /\ backlog' = [a \in Addrs |->
                            IF a = c /\ Pays(c) THEN backlog[a] + Period ELSE backlog[a]]
           /\ within' = [d \in Clients |-> [k \in 1..Window |->
                            IF d = c /\ Pays(c) THEN within[d][k] + 1 ELSE within[d][k]]]
  BY KeyIsClient, Zenon DEF Request

LEMMA RequestOK ==
    ASSUME TypeInv, OwedBound, NEW c \in Clients, NEW f \in Forgeries, Request(c, f)
    PROVE  TypeInv' /\ OwedBound'
<1>1. /\ answer' = [to |-> c, ok |-> Pays(c)]
      /\ backlog' = [a \in Addrs |->
                       IF a = c /\ Pays(c) THEN backlog[a] + Period ELSE backlog[a]]
      /\ within' = [d \in Clients |-> [k \in 1..Window |->
                       IF d = c /\ Pays(c) THEN within[d][k] + 1 ELSE within[d][k]]]
  BY RequestIsOwn
<1>2. Pays(c) \in BOOLEAN /\ (Pays(c) <=> backlog[c] + Period <= Capacity)
  BY DEF Pays, Capacity
<1>3. answer' \in [to : Clients, ok : BOOLEAN]
  BY <1>1, <1>2, Zenon
<1>4. backlog' \in [Addrs -> 0..Capacity]
  BY <1>1, <1>2, Numbers DEF TypeInv
<1>5. within' \in [Clients -> [1..Window -> Nat]]
  <2>1. \A d \in Clients, k \in 1..Window : within[d][k] \in Nat
    BY DEF TypeInv
  <2>2. \A d \in Clients, k \in 1..Window :
           (IF d = c /\ Pays(c) THEN within[d][k] + 1 ELSE within[d][k]) \in Nat
    BY <2>1
  <2> QED  BY <1>1, <2>2, Zenon
<1>6. OwedBound'
  <2> SUFFICES ASSUME NEW d \in Clients, NEW k \in 1..Window
               PROVE  within'[d][k] * Period <= backlog'[d] + k - 1
    BY DEF OwedBound
  <2>1. d \in Addrs /\ backlog[d] \in Nat /\ within[d][k] \in Nat /\ k \in Nat
    BY ClientsAssumption, WindowIsNat DEF TypeInv
  <2>2. within[d][k] * Period <= backlog[d] + k - 1
    BY DEF OwedBound
  <2>3. CASE d = c /\ Pays(c)
    <3>1. within'[d][k] = within[d][k] + 1 /\ backlog'[d] = backlog[d] + Period
      BY <1>1, <2>1, <2>3
    <3>2. (within[d][k] + 1) * Period = within[d][k] * Period + Period
          /\ within[d][k] * Period \in Nat
      BY <2>1, Numbers
    <3> QED  BY <2>1, <2>2, <3>1, <3>2, Numbers
  <2>4. CASE ~(d = c /\ Pays(c))
    <3>1. within'[d][k] = within[d][k] /\ backlog'[d] = backlog[d]
      BY <1>1, <2>1, <2>4
    <3> QED  BY <2>2, <3>1
  <2> QED  BY <2>3, <2>4
<1> QED  BY <1>3, <1>4, <1>5, <1>6 DEF TypeInv

LEMMA TickOK ==
    ASSUME TypeInv, OwedBound, Tick
    PROVE  TypeInv' /\ OwedBound'
<1>1. backlog' \in [Addrs -> 0..Capacity]
  BY Numbers DEF Tick, TypeInv
<1>2. within' \in [Clients -> [1..Window -> Nat]]
  <2>1. \A d \in Clients, k \in 1..Window : (IF k = 1 THEN 0 ELSE within[d][k - 1]) \in Nat
    <3> SUFFICES ASSUME NEW d \in Clients, NEW k \in 1..Window, k # 1
                 PROVE  within[d][k - 1] \in Nat
      OBVIOUS
    <3>1. k - 1 \in 1..Window
      BY WindowIsNat
    <3> QED  BY <3>1 DEF TypeInv
  <2> QED  BY <2>1, Zenon DEF Tick
<1>3. OwedBound'
  <2> SUFFICES ASSUME NEW d \in Clients, NEW k \in 1..Window
               PROVE  within'[d][k] * Period <= backlog'[d] + k - 1
    BY DEF OwedBound
  <2>1. /\ d \in Addrs /\ backlog[d] \in Nat /\ k \in Nat
        /\ backlog'[d] = IF backlog[d] = 0 THEN 0 ELSE backlog[d] - 1
    BY ClientsAssumption, WindowIsNat DEF TypeInv, Tick
  <2>2. CASE k = 1
    <3>1. within'[d][k] = 0
      BY <2>2 DEF Tick
    <3>2. within'[d][k] * Period = 0
      BY <3>1, Numbers, Zenon
    <3> QED  BY <2>1, <2>2, <3>2
  <2>3. CASE k # 1
    <3>1. k - 1 \in 1..Window
      BY <2>3, WindowIsNat
    <3>2. within'[d][k] = within[d][k - 1]
      BY <2>3 DEF Tick
    <3>3. within[d][k - 1] * Period <= backlog[d] + (k - 1) - 1
      BY <3>1 DEF OwedBound
    <3>4. within[d][k - 1] * Period \in Nat
      BY <3>1, Numbers DEF TypeInv
    <3> QED  BY <2>1, <2>3, <3>2, <3>3, <3>4
  <2> QED  BY <2>2, <2>3
<1> QED  BY <1>1, <1>2, <1>3 DEF TypeInv, Tick

LEMMA StepOK == TypeInv /\ OwedBound /\ [Next]_vars => TypeInv' /\ OwedBound'
<1> SUFFICES ASSUME TypeInv, OwedBound, [Next]_vars PROVE TypeInv' /\ OwedBound'
  OBVIOUS
<1>1. CASE Tick
  BY <1>1, TickOK
<1>2. ASSUME NEW c \in Clients, NEW f \in Forgeries, Request(c, f)
      PROVE  TypeInv' /\ OwedBound'
  BY <1>2, RequestOK
<1>3. CASE UNCHANGED vars
  BY <1>3 DEF vars, TypeInv, OwedBound
<1> QED  BY <1>1, <1>2, <1>3 DEF Next

LEMMA Invariant == Spec => [](TypeInv /\ OwedBound)
  BY InitOK, StepOK, PTL DEF Spec

\* Every reachable state is well typed: no bucket owes more than it holds.
THEOREM TypeCorrect == Spec => []TypeOK
<1>1. TypeInv => TypeOK
  BY DEF TypeInv, TypeOK, Capacity
<1> QED  BY <1>1, Invariant, PTL

\* For any clients, chain of proxies, forged headers, burst and period: a client
\* gets at most its burst and what the ticks gave back.
THEOREM BudgetHolds == Spec => []ClientBudget
<1>1. TypeInv /\ OwedBound => ClientBudget
  <2> SUFFICES ASSUME TypeInv, OwedBound, NEW c \in Clients, NEW k \in 1..Window
               PROVE  within[c][k] * Period <= Capacity + k - 1
    BY DEF ClientBudget, Capacity
  <2>1. c \in Addrs /\ backlog[c] \in 0..Capacity /\ k \in Nat
    BY ClientsAssumption DEF TypeInv
  <2>2. within[c][k] * Period <= backlog[c] + k - 1 /\ within[c][k] * Period \in Nat
    BY Numbers DEF OwedBound, TypeInv
  <2> QED  BY <2>1, <2>2, Numbers
<1> QED  BY <1>1, Invariant, PTL

-----------------------------------------------------------------------------
(* The refinement.                                                         *)

LEMMA IdealInit == Init => Ideal!Init
  BY ClientsAssumption DEF Init, Ideal!Init, ClientBuckets

LEMMA IdealStep ==
    TypeInv /\ [Next]_vars => [Ideal!Next]_<<ClientBuckets, answer>>
<1> SUFFICES ASSUME TypeInv, [Next]_vars
             PROVE  Ideal!Next \/ UNCHANGED <<ClientBuckets, answer>>
  OBVIOUS
<1>1. Clients \subseteq Addrs
  BY ClientsAssumption
<1>2. CASE Tick
  <2>1. ClientBuckets' = [c \in Clients |->
                            IF ClientBuckets[c] = 0 THEN 0 ELSE ClientBuckets[c] - 1]
    BY <1>1, <1>2 DEF Tick, ClientBuckets
  <2> QED  BY <1>2, <2>1 DEF Tick, Ideal!Tick, Ideal!Next
<1>3. ASSUME NEW c \in Clients, NEW f \in Forgeries, Request(c, f)
      PROVE  Ideal!Next
  <2>1. Ideal!Pays(c) <=> Pays(c)
    BY <1>1 DEF Ideal!Pays, Pays, ClientBuckets
  <2>2. answer' = [to |-> c, ok |-> Pays(c)]
    BY <1>3, RequestIsOwn
  <2>3. ClientBuckets' = [d \in Clients |-> IF d = c /\ Pays(c) THEN ClientBuckets[d] + Period
                                            ELSE ClientBuckets[d]]
    BY <1>1, <1>3, RequestIsOwn DEF ClientBuckets
  <2>4. Ideal!Request(c)
    BY <2>1, <2>2, <2>3 DEF Ideal!Request, Ideal!Pays, Pays
  <2> QED  BY <2>4 DEF Ideal!Next
<1>4. CASE UNCHANGED vars
  BY <1>4 DEF vars, ClientBuckets
<1> QED  BY <1>2, <1>3, <1>4 DEF Next

\* The limiter that reads its key from a header anyone may send implements the one
\* that knows each client.
THEOREM GovernorImplementsLimiter == Spec => ImplementsClientLimiter
<1>1. Spec => []TypeInv
  BY Invariant, PTL
<1> QED  BY <1>1, IdealInit, IdealStep, PTL DEF Spec, ImplementsClientLimiter, Ideal!Spec
=============================================================================
