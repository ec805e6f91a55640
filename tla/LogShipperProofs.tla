-------------------------- MODULE LogShipperProofs --------------------------
(***************************************************************************)
(* Proofs about LogShipper, for every capacity, batch size and number of   *)
(* documents.  The argument follows one sequence, All: what was answered,  *)
(* the batch under way, the buffer and the channel, end to end.  A step    *)
(* moves documents along it and leaves it the same; only Record adds a     *)
(* document, the newest, at its end.                                       *)
(***************************************************************************)
EXTENDS LogShipper, SequenceTheorems, FiniteSetTheorems, TLAPS

\* What the place of the task says of its buffer and of its batch.
Machine ==
    /\ pc = "select" => batch = <<>> /\ Len(buf) < BatchSize
    /\ pc \in {"recv", "tick", "closed"} => buf = <<>> /\ Len(batch) <= BatchSize
    /\ pc = "done" => batch = <<>> /\ buf = <<>>

\* No document is newer than the last recorded.
Known == \A i \in DOMAIN All : All[i] <= recorded

\* Every answered document has one of the two fates.
Fates ==
    /\ ToSet(sent) = indexed \cup abandoned
    /\ indexed \cap abandoned = {}

\* The type invariant in two parts: the provers treat the flags apart.
Flags == serving \in BOOLEAN /\ keptOpen \in BOOLEAN /\ exited \in BOOLEAN
Data ==
    /\ recorded \in 0..MaxDocs
    /\ channel \in Seq(Docs) /\ Len(channel) <= Capacity
    /\ buf \in Seq(Docs)
    /\ batch \in Seq(Docs)
    /\ pc \in {"select", "recv", "tick", "closed", "done"}
    /\ dropped \in Nat
    /\ sent \in Seq(Docs)
    /\ indexed \subseteq Docs
    /\ abandoned \subseteq Docs
    /\ reported \in Nat

Inv == Data /\ Flags /\ Machine /\ InOrderOnce /\ Known /\ Fates /\ AllAccounted

-----------------------------------------------------------------------------
(* Sequences.                                                              *)

\* Receiving moves the head of one sequence to the end of the other.
LEMMA Shift ==
    ASSUME NEW S, NEW s \in Seq(S), NEW t \in Seq(S), t # <<>>
    PROVE  /\ Append(s, Head(t)) \in Seq(S)
           /\ Tail(t) \in Seq(S)
           /\ Append(s, Head(t)) \o Tail(t) = s \o t
           /\ Len(Append(s, Head(t))) = Len(s) + 1
           /\ Len(Tail(t)) = Len(t) - 1
<1> DEFINE h == Head(t)
           a == Append(s, h)
           r == Tail(t)
<1>1. h \in S /\ r \in Seq(S) /\ Len(r) = Len(t) - 1
      /\ \A i \in 1..Len(r) : r[i] = t[i + 1]
  BY HeadTailProperties
<1>2. a \in Seq(S) /\ Len(a) = Len(s) + 1
      /\ (\A i \in 1..Len(s) : a[i] = s[i]) /\ a[Len(s) + 1] = h
  BY <1>1, AppendProperties
<1>3. Len(s) \in Nat /\ Len(t) \in Nat \ {0} /\ h = t[1]
  BY LenProperties, EmptySeq
<1>4. a \o r \in Seq(S) /\ Len(a \o r) = Len(a) + Len(r)
      /\ \A i \in 1..Len(a) + Len(r) :
            (a \o r)[i] = IF i <= Len(a) THEN a[i] ELSE r[i - Len(a)]
  BY <1>1, <1>2, ConcatProperties
<1>5. s \o t \in Seq(S) /\ Len(s \o t) = Len(s) + Len(t)
      /\ \A i \in 1..Len(s) + Len(t) :
            (s \o t)[i] = IF i <= Len(s) THEN s[i] ELSE t[i - Len(s)]
  BY ConcatProperties
<1> HIDE DEF a, r, h
<1>6. Len(a \o r) = Len(s \o t)
  BY <1>1, <1>2, <1>3, <1>4, <1>5
<1>7. ASSUME NEW i \in 1..Len(a \o r)
      PROVE  (a \o r)[i] = (s \o t)[i]
  <2>1. CASE i <= Len(s)
    BY <2>1, <1>1, <1>2, <1>3, <1>4, <1>5
  <2>2. CASE i = Len(s) + 1
    <3>1. i - Len(s) = 1 /\ i <= Len(a) /\ ~(i <= Len(s))
      BY <2>2, <1>2, <1>3
    <3> QED BY <2>2, <3>1, <1>1, <1>2, <1>3, <1>4, <1>5
  <2>3. CASE i > Len(s) + 1
    <3> DEFINE j == i - Len(a)
    <3>1. j \in 1..Len(r) /\ ~(i <= Len(a)) /\ ~(i <= Len(s)) /\ j + 1 = i - Len(s)
      BY <2>3, <1>1, <1>2, <1>3, <1>4
    <3>2. r[j] = t[j + 1]
      BY <3>1, <1>1
    <3>3. i \in 1..Len(a) + Len(r) /\ i \in 1..Len(s) + Len(t)
      BY <1>4, <1>5, <1>6
    <3> QED BY <3>1, <3>2, <3>3, <1>4, <1>5
  <2> QED BY <2>1, <2>2, <2>3, <1>2, <1>3, <1>1, <1>4
<1>8. a \o r = s \o t
  BY <1>4, <1>5, <1>6, <1>7, SeqEqual
<1> QED BY <1>1, <1>2, <1>8 DEF a, h, r

\* Appending to the second of two sequences appends to the whole.
LEMMA AppendToWhole ==
    ASSUME NEW S, NEW s \in Seq(S), NEW t \in Seq(S), NEW e \in S
    PROVE  s \o Append(t, e) = Append(s \o t, e)
<1>1. Append(t, e) = t \o <<e>> /\ <<e>> \in Seq(S)
  BY AppendIsConcat
<1>2. s \o t \in Seq(S)
  BY ConcatProperties
<1>3. Append(s \o t, e) = (s \o t) \o <<e>>
  BY <1>2, AppendIsConcat
<1> QED BY <1>1, <1>3, ConcatAssociative

\* The members of a concatenation.
LEMMA MembersOfConcat ==
    ASSUME NEW S, NEW s \in Seq(S), NEW t \in Seq(S)
    PROVE  ToSet(s \o t) = ToSet(s) \cup ToSet(t)
<1>1. \A u : ToSet(u) = Range(u)
  BY DEF ToSet, Range
<1> QED BY <1>1, RangeConcatenation

\* An ordered sequence: every document is later than those before it.
Ordered(s) == \A i, j \in DOMAIN s : i < j => s[i] < s[j]

\* A part of an ordered sequence is ordered, and shares no member with the part
\* before it.
LEMMA PartsOrdered ==
    ASSUME NEW s \in Seq(Nat), NEW t \in Seq(Nat), Ordered(s \o t)
    PROVE  /\ Ordered(s)
           /\ Ordered(t)
           /\ ToSet(s) \cap ToSet(t) = {}
<1> DEFINE w == s \o t
           m == Len(s)
           n == Len(t)
<1>1. m \in Nat /\ n \in Nat /\ DOMAIN s = 1..m /\ DOMAIN t = 1..n
  BY LenProperties
<1>2. w \in Seq(Nat) /\ Len(w) = m + n
      /\ \A i \in 1..m + n : w[i] = IF i <= m THEN s[i] ELSE t[i - m]
  BY ConcatProperties
<1>3. DOMAIN w = 1..m + n
  BY <1>2, LenProperties
<1>4. \A i, j \in 1..m + n : i < j => w[i] < w[j]
  BY <1>3 DEF Ordered
<1>5. \A i \in 1..m : i \in 1..m + n /\ w[i] = s[i]
  BY <1>1, <1>2
<1>6. \A i \in 1..n : i + m \in 1..m + n /\ w[i + m] = t[i]
  <2> TAKE i \in 1..n
  <2>1. i + m \in 1..m + n /\ ~(i + m <= m) /\ (i + m) - m = i
    BY <1>1
  <2> QED BY <2>1, <1>2
<1> HIDE DEF w, m, n
<1>7. Ordered(s)
  BY <1>1, <1>4, <1>5 DEF Ordered
<1>8. Ordered(t)
  <2> SUFFICES ASSUME NEW i \in 1..n, NEW j \in 1..n, i < j
               PROVE  t[i] < t[j]
    BY <1>1 DEF Ordered
  <2>1. i + m < j + m
    BY <1>1
  <2> QED BY <2>1, <1>4, <1>6
<1>9. ASSUME NEW i \in 1..m, NEW j \in 1..n
      PROVE  s[i] # t[j]
  <2>1. i < j + m
    BY <1>1
  <2>2. w[i] < w[j + m] /\ w[i] \in Nat /\ w[j + m] \in Nat
    BY <2>1, <1>2, <1>4, <1>5, <1>6, <1>3, ElementOfSeq, <1>1
  <2> QED BY <2>2, <1>5, <1>6
<1>10. ToSet(s) \cap ToSet(t) = {}
  BY <1>1, <1>9 DEF ToSet
<1> QED BY <1>7, <1>8, <1>10

\* An ordered sequence has as many members as places.
LEMMA OrderedCount ==
    ASSUME NEW s \in Seq(Nat), Ordered(s)
    PROVE  IsFiniteSet(ToSet(s)) /\ Cardinality(ToSet(s)) = Len(s)
<1>1. Len(s) \in Nat /\ s \in [1..Len(s) -> Nat] /\ DOMAIN s = 1..Len(s)
  BY LenProperties
<1>2. IsFiniteSet(1..Len(s)) /\ Cardinality(1..Len(s)) = Len(s)
  <2>1. 1 \in Int /\ Len(s) \in Int
    BY <1>1
  <2>2. IsFiniteSet(1..Len(s))
        /\ Cardinality(1..Len(s)) = IF 1 > Len(s) THEN 0 ELSE Len(s) - 1 + 1
    BY <2>1, FS_Interval
  <2> QED BY <2>2, <1>1
<1>3. s \in [1..Len(s) -> ToSet(s)] /\ \A y \in ToSet(s) : \E i \in 1..Len(s) : s[i] = y
  BY <1>1 DEF ToSet
<1>4. \A i, j \in 1..Len(s) : s[i] = s[j] => i = j
  <2> SUFFICES ASSUME NEW i \in 1..Len(s), NEW j \in 1..Len(s), s[i] = s[j], i # j
               PROVE  FALSE
    OBVIOUS
  <2>1. s[i] \in Nat /\ s[j] \in Nat /\ (i < j \/ j < i)
    BY <1>1
  <2>2. (i < j => s[i] < s[j]) /\ (j < i => s[j] < s[i])
    BY <1>1 DEF Ordered
  <2> QED BY <2>1, <2>2
<1>5. s \in Bijection(1..Len(s), ToSet(s))
  BY <1>3, <1>4 DEF Bijection, Injection, Surjection, IsInjective
<1>6. ExistsBijection(1..Len(s), ToSet(s))
  BY <1>5 DEF ExistsBijection
<1> QED BY <1>2, <1>6, FS_Bijection

\* Sets without a common member add up.
LEMMA DisjointCount ==
    ASSUME NEW S, NEW T, IsFiniteSet(S), IsFiniteSet(T), S \cap T = {}
    PROVE  Cardinality(S \cup T) = Cardinality(S) + Cardinality(T)
<1>1. Cardinality(S) \in Nat /\ Cardinality(T) \in Nat
  BY FS_CardinalityType
<1>2. Cardinality(S \cap T) = 0
  BY FS_EmptySet
<1>3. Cardinality(S \cup T) = Cardinality(S) + Cardinality(T) - Cardinality(S \cap T)
  BY FS_Union
<1> QED BY <1>1, <1>2, <1>3

-----------------------------------------------------------------------------
(* Types and the machine.                                                  *)

LEMMA ConstantTypes ==
    /\ Capacity \in Nat /\ Capacity >= 1
    /\ BatchSize \in Nat /\ BatchSize >= 1
    /\ MaxDocs \in Nat
BY SizesAssumption

LEMMA TypeParts == Data /\ Flags => TypeOK
BY Zenon DEF Data, Flags, TypeOK

\* The pipeline is as long as its three parts.
LEMMA PipelineParts ==
    ASSUME NEW b \in Seq(Docs), NEW u \in Seq(Docs), NEW c \in Seq(Docs)
    PROVE  /\ (b \o u) \o c \in Seq(Docs)
           /\ Len((b \o u) \o c) = Len(b) + Len(u) + Len(c)
           /\ (<<>> \o u) \o c = u \o c
           /\ (b \o <<>>) \o c = b \o c
<1>1. b \o u \in Seq(Docs) /\ Len(b \o u) = Len(b) + Len(u)
  BY ConcatProperties
<1>2. (b \o u) \o c \in Seq(Docs) /\ Len((b \o u) \o c) = Len(b \o u) + Len(c)
  BY <1>1, ConcatProperties
<1>3. <<>> \o u = u /\ b \o <<>> = b
  BY ConcatEmptySeq
<1> QED BY <1>1, <1>2, <1>3

LEMMA PipelineFacts ==
    ASSUME Data
    PROVE  /\ Pipeline \in Seq(Docs)
           /\ Len(Pipeline) = Len(batch) + Len(buf) + Len(channel)
           /\ All \in Seq(Docs)
           /\ Len(batch) \in Nat /\ Len(buf) \in Nat /\ Len(channel) \in Nat
<1>1. batch \in Seq(Docs) /\ buf \in Seq(Docs) /\ channel \in Seq(Docs) /\ sent \in Seq(Docs)
  BY DEF Data
<1>2. Pipeline \in Seq(Docs) /\ Len(Pipeline) = Len(batch) + Len(buf) + Len(channel)
  BY <1>1, PipelineParts DEF Pipeline
<1>3. All \in Seq(Docs)
  BY <1>1, <1>2, ConcatProperties DEF All
<1> QED BY <1>1, <1>2, <1>3, LenProperties

LEMMA CountTypes ==
    ASSUME Data
    PROVE  /\ IsFiniteSet(indexed) /\ Cardinality(indexed) \in Nat
           /\ IsFiniteSet(abandoned) /\ Cardinality(abandoned) \in Nat
           /\ recorded \in Nat /\ dropped \in Nat /\ reported \in Nat
<1>1. IsFiniteSet(Docs)
  BY ConstantTypes, FS_Interval DEF Docs
<1>2. indexed \in SUBSET Docs /\ abandoned \in SUBSET Docs
  BY DEF Data
<1>3. IsFiniteSet(indexed) /\ IsFiniteSet(abandoned)
  BY <1>1, <1>2, FS_Subset
<1>4. recorded \in Nat /\ dropped \in Nat /\ reported \in Nat
  BY ConstantTypes DEF Data
<1> QED BY <1>3, <1>4, FS_CardinalityType

LEMMA CountTypesNext ==
    ASSUME Data'
    PROVE  /\ Cardinality(indexed') \in Nat /\ Cardinality(abandoned') \in Nat
           /\ recorded' \in Nat /\ dropped' \in Nat /\ reported' \in Nat
<1>1. IsFiniteSet(Docs)
  BY ConstantTypes, FS_Interval DEF Docs
<1>2. indexed' \in SUBSET Docs /\ abandoned' \in SUBSET Docs
  BY DEF Data
<1>3. IsFiniteSet(indexed') /\ IsFiniteSet(abandoned')
  BY <1>1, <1>2, FS_Subset
<1>4. recorded' \in Nat /\ dropped' \in Nat /\ reported' \in Nat
  BY ConstantTypes DEF Data
<1> QED BY <1>3, <1>4, FS_CardinalityType

\* A step that leaves the whole the same leaves its order.
LEMMA SameWhole ==
    ASSUME InOrderOnce, Known, All' = All, recorded' = recorded
    PROVE  InOrderOnce' /\ Known'
BY DEF InOrderOnce, Known

LEMMA InitInv == Init => Inv
<1> SUFFICES ASSUME Init PROVE Inv
  OBVIOUS
<1>1. <<>> \in Seq(Docs) /\ Len(<<>>) = 0
  BY EmptySeq
<1>2. Data
  BY <1>1, ConstantTypes DEF Data, Init
<1>3. Flags
  BY Zenon DEF Init, Flags
<1>4. Machine
  BY <1>1, ConstantTypes DEF Machine, Init
<1>5. Pipeline = <<>> /\ All = <<>>
  BY <1>1, ConcatEmptySeq DEF Pipeline, All, Init
<1>6. DOMAIN <<>> = {} /\ ToSet(<<>>) = {}
  BY DEF ToSet
<1>7. InOrderOnce /\ Known
  BY <1>5, <1>6 DEF InOrderOnce, Known
<1>8. Fates
  BY <1>6 DEF Fates, Init
<1>9. AllAccounted
  BY <1>1, <1>5, FS_EmptySet DEF AllAccounted, Init
<1> QED BY <1>2, <1>3, <1>4, <1>7, <1>8, <1>9 DEF Inv

-----------------------------------------------------------------------------
(* The steps.                                                              *)

\* Recording adds the newest document at the end of the whole, or drops it.
LEMMA RecordInv == ASSUME Inv, Record PROVE Inv'
<1>1. Data /\ Flags /\ Machine /\ InOrderOnce /\ Known /\ Fates /\ AllAccounted
  BY DEF Inv
<1>2. recorded \in Nat /\ recorded + 1 \in Docs /\ recorded' = recorded + 1
      /\ recorded' \in 0..MaxDocs
  BY <1>1, ConstantTypes DEF Record, Data, Docs
<1>3. UNCHANGED <<buf, batch, pc, sent, indexed, abandoned, reported>>
  BY DEF Record, fate
<1>4. Flags'
  <2>1. serving' = serving /\ keptOpen' = keptOpen /\ exited' = exited
    BY DEF Record, process
  <2> QED BY <1>1, <2>1, Zenon DEF Flags
<1>5. Machine' /\ Fates'
  BY <1>1, <1>3 DEF Machine, Fates
<1>6. channel \in Seq(Docs) /\ Len(channel) <= Capacity /\ Len(channel) \in Nat
  BY <1>1, LenProperties DEF Data
<1>7. CASE Len(channel) < Capacity /\ channel' = Append(channel, recorded') /\ dropped' = dropped
  <2>1. channel' \in Seq(Docs) /\ Len(channel') = Len(channel) + 1
    BY <1>2, <1>6, <1>7, AppendProperties
  <2>2. Data'
    BY <1>1, <1>2, <1>3, <1>6, <1>7, <2>1, ConstantTypes DEF Data
  <2>3. Pipeline' = Append(Pipeline, recorded + 1)
    <3>1. batch \o buf \in Seq(Docs)
      BY <1>1, ConcatProperties DEF Data
    <3> QED BY <1>2, <1>3, <1>6, <1>7, <3>1, AppendToWhole DEF Pipeline
  <2>4. Pipeline \in Seq(Docs) /\ All \in Seq(Docs) /\ sent \in Seq(Docs)
    BY <1>1, PipelineFacts DEF Data
  <2>5. All' = Append(All, recorded + 1)
    BY <1>2, <1>3, <2>3, <2>4, AppendToWhole DEF All
  <2> DEFINE n == Len(All)
             A == All
             B == All'
  <2>6. n \in Nat /\ DOMAIN A = 1..n /\ (\A i \in 1..n : A[i] \in Docs)
    BY <2>4, LenProperties, ElementOfSeq
  <2>7. B \in Seq(Docs) /\ Len(B) = n + 1 /\ (\A i \in 1..n : B[i] = A[i])
        /\ B[n + 1] = recorded + 1
    BY <1>2, <2>4, <2>5, AppendProperties
  <2>8. DOMAIN B = 1..n + 1
    BY <2>6, <2>7, LenProperties
  <2>9. (\A i, j \in 1..n : i < j => A[i] < A[j]) /\ \A i \in 1..n : A[i] <= recorded
    BY <1>1, <2>6 DEF InOrderOnce, Known
  <2>10. \A i \in 1..n : A[i] \in Nat
    BY <2>6 DEF Docs
  <2> HIDE DEF A, B, n
  <2>11. \A i \in 1..n + 1 : B[i] <= recorded + 1
    BY <1>2, <2>6, <2>7, <2>9, <2>10
  <2>12. \A i, j \in 1..n + 1 : i < j => B[i] < B[j]
    <3> SUFFICES ASSUME NEW i \in 1..n + 1, NEW j \in 1..n + 1, i < j
                 PROVE  B[i] < B[j]
      OBVIOUS
    <3>1. i \in 1..n /\ B[i] = A[i] /\ A[i] <= recorded /\ A[i] \in Nat
      BY <2>6, <2>7, <2>9, <2>10
    <3>2. CASE j \in 1..n
      BY <3>1, <3>2, <2>7, <2>9
    <3>3. CASE j = n + 1
      BY <3>1, <3>3, <2>7, <1>2
    <3> QED BY <3>2, <3>3, <2>6
  <2>13. InOrderOnce' /\ Known'
    BY <1>2, <2>8, <2>11, <2>12 DEF InOrderOnce, Known, B
  <2>14. Len(Pipeline') = Len(Pipeline) + 1 /\ Len(Pipeline) \in Nat
    BY <1>2, <2>3, <2>4, AppendProperties, LenProperties
  <2>15. AllAccounted'
    BY <1>1, <1>2, <1>3, <1>7, <2>14, CountTypes DEF AllAccounted
  <2> QED BY <1>4, <1>5, <2>2, <2>13, <2>15 DEF Inv
<1>8. CASE channel' = channel /\ dropped' = dropped + 1
  <2>1. Data'
    BY <1>1, <1>2, <1>3, <1>8 DEF Data
  <2>2. Pipeline' = Pipeline /\ All' = All
    BY <1>3, <1>8 DEF Pipeline, All
  <2>3. InOrderOnce' /\ Known'
    <3>1. InOrderOnce'
      BY <1>1, <2>2 DEF InOrderOnce
    <3>2. All \in Seq(Docs)
      BY <1>1, PipelineFacts
    <3> DEFINE A == All
    <3>3. \A i \in DOMAIN A : A[i] \in Nat
      <4>1. A \in Seq(Docs) /\ Docs \subseteq Nat
        BY <3>2 DEF Docs
      <4> HIDE DEF A
      <4>2. DOMAIN A = 1..Len(A) /\ \A i \in 1..Len(A) : A[i] \in Docs
        BY <4>1, LenProperties, ElementOfSeq
      <4> QED BY <4>1, <4>2
    <3>4. Known'
      BY <1>1, <1>2, <2>2, <3>3 DEF Known
    <3> QED BY <3>1, <3>4
  <2>4. Len(Pipeline) \in Nat
    BY <1>1, PipelineFacts
  <2>5. AllAccounted'
    BY <1>1, <1>2, <1>3, <1>8, <2>2, <2>4, CountTypes DEF AllAccounted
  <2> QED BY <1>4, <1>5, <2>1, <2>3, <2>5 DEF Inv
<1> QED BY <1>7, <1>8 DEF Record

\* The steps by which documents advance, without an answer: nothing leaves the
\* whole, and only the pieces' lengths matter.
LEMMA AdvanceInv ==
    ASSUME Inv, Data', Machine', All' = All, Len(Pipeline') = Len(Pipeline),
           UNCHANGED <<recorded, serving, keptOpen, exited, sent, indexed, abandoned>>,
           dropped' + reported' = dropped + reported
    PROVE  Inv'
<1>1. Data /\ Flags /\ InOrderOnce /\ Known /\ Fates /\ AllAccounted
  BY DEF Inv
<1>2. InOrderOnce' /\ Known'
  BY <1>1, SameWhole
<1>3. Flags'
  BY <1>1, Zenon DEF Flags
<1>4. Fates'
  BY <1>1 DEF Fates
<1>5. Len(Pipeline) \in Nat
  BY <1>1, PipelineFacts
<1>6. dropped' \in Nat /\ reported' \in Nat
  BY DEF Data
<1>7. AllAccounted'
  BY <1>1, <1>5, <1>6, CountTypes DEF AllAccounted
<1> QED BY <1>2, <1>3, <1>4, <1>7 DEF Inv

\* Receiving moves the oldest document of the channel into the buffer, or, when
\* that fills it, the whole buffer into the batch.
LEMMA ReceiveInv == ASSUME Inv, Receive PROVE Inv' /\ Pipeline' = Pipeline
<1> DEFINE b == Append(buf, Head(channel))
<1>1. Data /\ Machine
  BY DEF Inv
<1>2. channel \in Seq(Docs) /\ channel # <<>> /\ buf \in Seq(Docs) /\ Len(channel) <= Capacity
      /\ Len(buf) \in Nat /\ Len(channel) \in Nat
  BY <1>1, LenProperties DEF Data, Receive
<1>3. pc = "select" /\ batch = <<>> /\ Len(buf) < BatchSize
  BY <1>1 DEF Receive, Machine
<1>4. b \in Seq(Docs) /\ Len(b) = Len(buf) + 1 /\ channel' \in Seq(Docs)
      /\ Len(channel') = Len(channel) - 1 /\ b \o channel' = buf \o channel
  BY <1>2, Shift DEF Receive
<1>5. UNCHANGED <<recorded, dropped, serving, keptOpen, exited, sent, indexed, abandoned, reported>>
  BY DEF Receive, process, fate
<1>6. <<>> \in Seq(Docs) /\ Len(<<>>) = 0
  BY EmptySeq
<1>7. Pipeline = buf \o channel
  BY <1>2, <1>3, <1>6, PipelineParts DEF Pipeline
<1>8. Len(b) \in Nat /\ Len(b) <= BatchSize /\ Len(channel') <= Capacity
  BY <1>2, <1>3, <1>4, ConstantTypes
<1> HIDE DEF b
<1>9. CASE Full(b) /\ batch' = b /\ buf' = <<>> /\ pc' = "recv"
  <2>1. Data'
    BY <1>1, <1>4, <1>5, <1>6, <1>8, <1>9 DEF Data
  <2>2. Machine'
    BY <1>8, <1>9 DEF Machine
  <2>3. Pipeline' = Pipeline
    BY <1>4, <1>6, <1>7, <1>9, PipelineParts DEF Pipeline
  <2>4. All' = All
    BY <1>5, <2>3 DEF All
  <2> QED BY <1>1, <1>5, <2>1, <2>2, <2>3, <2>4, CountTypes, AdvanceInv
<1>10. CASE ~Full(b) /\ buf' = b /\ batch' = batch /\ pc' = pc
  <2>1. Data'
    BY <1>1, <1>4, <1>5, <1>8, <1>10 DEF Data
  <2>2. Machine'
    BY <1>3, <1>8, <1>10, ConstantTypes DEF Machine, Full
  <2>3. Pipeline' = Pipeline
    BY <1>3, <1>4, <1>6, <1>7, <1>10, PipelineParts DEF Pipeline
  <2>4. All' = All
    BY <1>5, <2>3 DEF All
  <2> QED BY <1>1, <1>5, <2>1, <2>2, <2>3, <2>4, CountTypes, AdvanceInv
<1> QED BY <1>9, <1>10 DEF Receive, Flush, b

\* Sending a buffer from another arm of the select: it becomes the batch.
LEMMA FlushBufInv ==
    ASSUME Inv, pc = "select", NEW arm \in {"tick", "closed"}, Flush(buf, arm),
           UNCHANGED <<recorded, channel, dropped, serving, keptOpen, exited,
                       sent, indexed, abandoned, reported>>
    PROVE  Inv' /\ Pipeline' = Pipeline
<1>1. Data /\ Machine
  BY DEF Inv
<1>2. channel \in Seq(Docs) /\ buf \in Seq(Docs) /\ Len(buf) \in Nat
  BY <1>1, LenProperties DEF Data
<1>3. batch = <<>> /\ Len(buf) < BatchSize
  BY <1>1 DEF Machine
<1>4. batch' = buf /\ buf' = <<>> /\ pc' = arm
  BY DEF Flush
<1>5. <<>> \in Seq(Docs)
  BY EmptySeq
<1>6. Data'
  BY <1>1, <1>2, <1>4, <1>5 DEF Data
<1>7. Machine'
  BY <1>2, <1>3, <1>4, ConstantTypes DEF Machine
<1>8. Pipeline' = Pipeline
  BY <1>2, <1>3, <1>4, <1>5, PipelineParts DEF Pipeline
<1>9. All' = All
  BY <1>8 DEF All
<1> QED BY <1>1, <1>6, <1>7, <1>8, <1>9, CountTypes, AdvanceInv

LEMMA ReceiveClosedInv == ASSUME Inv, ReceiveClosed PROVE Inv' /\ Pipeline' = Pipeline
<1>1. Data /\ Machine /\ pc = "select"
  BY DEF Inv, ReceiveClosed
<1>2. UNCHANGED <<recorded, channel, dropped, serving, keptOpen, exited,
                  sent, indexed, abandoned, reported>>
  BY DEF ReceiveClosed, process, fate
<1>3. CASE Flush(buf, "closed")
  BY <1>1, <1>2, <1>3, FlushBufInv
<1>4. CASE buf = <<>> /\ pc' = "done" /\ buf' = buf /\ batch' = batch
  <2>1. Data'
    BY <1>1, <1>2, <1>4 DEF Data
  <2>2. Machine'
    BY <1>1, <1>4 DEF Machine
  <2>3. Pipeline' = Pipeline /\ All' = All
    BY <1>2, <1>4 DEF Pipeline, All
  <2> QED BY <1>1, <1>2, <2>1, <2>2, <2>3, CountTypes, AdvanceInv
<1> QED BY <1>3, <1>4 DEF ReceiveClosed

\* What a report adds to the total it takes from the counter.
LEMMA ReportKeepsSum ==
    ASSUME Data, Report
    PROVE  dropped' \in Nat /\ reported' \in Nat /\ dropped' + reported' = dropped + reported
<1>1. dropped \in Nat /\ reported \in Nat
  BY CountTypes
<1> QED BY <1>1 DEF Report, AfterReport

LEMMA TickInv == ASSUME Inv, Tick PROVE Inv' /\ Pipeline' = Pipeline
<1>1. Data /\ Machine /\ pc = "select"
  BY DEF Inv, Tick
<1>2. UNCHANGED <<recorded, channel, serving, keptOpen, exited, sent, indexed, abandoned>>
  BY DEF Tick, process, fate
<1>3. CASE Flush(buf, "tick") /\ dropped' = dropped /\ reported' = reported
  BY <1>1, <1>2, <1>3, FlushBufInv
<1>4. CASE Report /\ buf' = buf /\ batch' = batch /\ pc' = pc
  <2>1. dropped' \in Nat /\ reported' \in Nat /\ dropped' + reported' = dropped + reported
    BY <1>1, <1>4, ReportKeepsSum
  <2>2. Data'
    BY <1>1, <1>2, <1>4, <2>1 DEF Data
  <2>3. Machine'
    BY <1>1, <1>4 DEF Machine
  <2>4. Pipeline' = Pipeline /\ All' = All
    BY <1>2, <1>4 DEF Pipeline, All
  <2> QED BY <1>2, <2>1, <2>2, <2>3, <2>4, AdvanceInv
<1> QED BY <1>3, <1>4 DEF Tick

\* An answer ends the batch, which is the newest part of what was sent: its
\* documents are new to both fates, and as many as the batch is long.
LEMMA AnswerInv ==
    ASSUME Inv, NEW kept \in SUBSET ToSet(batch), Answer(kept)
    PROVE  Inv'
<1> DEFINE B == ToSet(batch)
           rest == B \ kept
<1>1. Data /\ Flags /\ Machine /\ InOrderOnce /\ Known /\ Fates /\ AllAccounted
  BY DEF Inv
<1>2. sent \in Seq(Docs) /\ batch \in Seq(Docs) /\ channel \in Seq(Docs) /\ buf = <<>>
      /\ <<>> \in Seq(Docs) /\ Len(<<>>) = 0 /\ Len(batch) \in Nat /\ Len(channel) \in Nat
  BY <1>1, EmptySeq, LenProperties DEF Data, Machine, Answer
<1>3. /\ UNCHANGED <<recorded, channel, buf, serving, keptOpen, exited>>
      /\ sent' = sent \o batch /\ batch' = <<>>
      /\ indexed' = indexed \cup kept /\ abandoned' = abandoned \cup rest
      /\ pc' = IF pc = "closed" THEN "done" ELSE "select"
  BY DEF Answer, process
<1>4. dropped' \in Nat /\ reported' \in Nat /\ dropped' + reported' = dropped + reported
  <2>1. CASE pc = "tick"
    BY <1>1, <2>1, ReportKeepsSum DEF Answer
  <2>2. CASE pc # "tick"
    BY <1>1, <2>2, CountTypes DEF Answer
  <2> QED BY <2>1, <2>2
<1>5. B \subseteq Docs
  BY <1>2, LenProperties, ElementOfSeq DEF ToSet
<1>6. Data'
  <2>1. sent' \in Seq(Docs) /\ batch' \in Seq(Docs)
    BY <1>2, <1>3, ConcatProperties
  <2>2. indexed' \subseteq Docs /\ abandoned' \subseteq Docs
    BY <1>1, <1>3, <1>5 DEF Data
  <2>3. pc' \in {"select", "recv", "tick", "closed", "done"}
    BY <1>3
  <2> QED BY <1>1, <1>3, <1>4, <2>1, <2>2, <2>3 DEF Data
<1>7. Machine'
  BY <1>2, <1>3, ConstantTypes DEF Machine
<1>8. Flags'
  <2>1. serving' = serving /\ keptOpen' = keptOpen /\ exited' = exited
    BY <1>3
  <2> QED BY <1>1, <2>1, Zenon DEF Flags
<1>9. Pipeline = batch \o channel /\ Pipeline' = channel
  <2>1. Pipeline = batch \o channel
    BY <1>2, PipelineParts DEF Pipeline
  <2>2. Pipeline' = <<>> \o channel
    BY <1>2, <1>3, PipelineParts DEF Pipeline
  <2> QED BY <1>2, <2>1, <2>2, ConcatEmptySeq
<1>10. All' = All
  BY <1>2, <1>3, <1>9, ConcatAssociative DEF All
<1>11. InOrderOnce' /\ Known'
  BY <1>1, <1>3, <1>10, SameWhole
<1>12. B \cap (indexed \cup abandoned) = {} /\ IsFiniteSet(B) /\ Cardinality(B) = Len(batch)
  <2>1. Docs \subseteq Nat
    BY DEF Docs
  <2>2. sent \in Seq(Nat) /\ batch \in Seq(Nat) /\ channel \in Seq(Nat)
    BY <1>2, <2>1, SeqMonotonic
  <2>3. (sent \o batch) \o channel = All /\ sent \o batch \in Seq(Nat)
    <3>1. All = sent \o (batch \o channel)
      BY <1>9 DEF All
    <3>2. (sent \o batch) \o channel = sent \o (batch \o channel)
      BY <1>2, ConcatAssociative
    <3>3. sent \o batch \in Seq(Nat)
      BY <2>2, ConcatProperties
    <3> QED BY <3>1, <3>2, <3>3
  <2>4. Ordered((sent \o batch) \o channel)
    BY <1>1, <2>3 DEF InOrderOnce, Ordered
  <2>5. Ordered(sent \o batch)
    BY <2>2, <2>3, <2>4, PartsOrdered
  <2>6. Ordered(batch) /\ ToSet(sent) \cap B = {}
    BY <2>2, <2>5, PartsOrdered
  <2>7. IsFiniteSet(B) /\ Cardinality(B) = Len(batch)
    BY <2>2, <2>6, OrderedCount
  <2> QED BY <1>1, <2>6, <2>7 DEF Fates
<1>13. Fates'
  <2>1. ToSet(sent') = ToSet(sent) \cup B
    BY <1>2, <1>3, MembersOfConcat
  <2> QED BY <1>1, <1>3, <1>12, <2>1 DEF Fates
<1>14. Cardinality(indexed') + Cardinality(abandoned')
         = Cardinality(indexed) + Cardinality(abandoned) + Len(batch)
  <2>1. IsFiniteSet(indexed) /\ Cardinality(indexed) \in Nat
        /\ IsFiniteSet(abandoned) /\ Cardinality(abandoned) \in Nat
    BY <1>1, CountTypes
  <2>2. IsFiniteSet(kept) /\ IsFiniteSet(rest)
    BY <1>12, FS_Subset
  <2>3. Cardinality(kept) \in Nat /\ Cardinality(rest) \in Nat
    BY <2>2, FS_CardinalityType
  <2>4. Cardinality(indexed \cup kept) = Cardinality(indexed) + Cardinality(kept)
    <3>1. indexed \cap kept = {}
      BY <1>12
    <3> QED BY <2>1, <2>2, <3>1, DisjointCount
  <2>5. Cardinality(abandoned \cup rest) = Cardinality(abandoned) + Cardinality(rest)
    <3>1. abandoned \cap rest = {}
      BY <1>12
    <3> QED BY <2>1, <2>2, <3>1, DisjointCount
  <2>6. Cardinality(B) = Cardinality(kept) + Cardinality(rest)
    <3>1. kept \cap rest = {} /\ kept \cup rest = B
      OBVIOUS
    <3> QED BY <2>2, <3>1, DisjointCount
  <2>7. indexed' = indexed \cup kept /\ abandoned' = abandoned \cup rest
        /\ Cardinality(B) = Len(batch)
    BY <1>3, <1>12
  <2> HIDE DEF B, rest
  <2> QED BY <2>1, <2>3, <2>4, <2>5, <2>6, <2>7
<1>15. AllAccounted'
  <2>1. Len(Pipeline) = Len(batch) + Len(Pipeline') /\ Len(Pipeline') \in Nat
    BY <1>2, <1>3, <1>9, ConcatProperties
  <2>2. recorded = Cardinality(indexed) + Cardinality(abandoned) + Len(Pipeline)
                       + dropped + reported
    BY <1>1 DEF AllAccounted
  <2>3. /\ Cardinality(indexed) \in Nat /\ Cardinality(abandoned) \in Nat
        /\ dropped \in Nat /\ reported \in Nat /\ Len(batch) \in Nat
        /\ Len(Pipeline) \in Nat
    BY <1>1, <1>2, CountTypes, PipelineFacts
  <2>4. Cardinality(indexed') \in Nat /\ Cardinality(abandoned') \in Nat
    BY <1>6, CountTypesNext
  <2>5. recorded' = recorded
    BY <1>3
  <2>6. recorded' = Cardinality(indexed') + Cardinality(abandoned') + Len(Pipeline')
                        + dropped' + reported'
    <3> DEFINE i == Cardinality(indexed)
               a == Cardinality(abandoned)
               p == Len(Pipeline)
               i2 == Cardinality(indexed')
               a2 == Cardinality(abandoned')
               p2 == Len(Pipeline')
    <3>1. i \in Nat /\ a \in Nat /\ dropped \in Nat /\ reported \in Nat
          /\ Len(batch) \in Nat /\ p \in Nat
      BY <2>3
    <3>2. i2 \in Nat /\ a2 \in Nat /\ p2 \in Nat
      BY <2>1, <2>4
    <3>3. i2 + a2 = i + a + Len(batch) /\ p = Len(batch) + p2
      BY <1>14, <2>1
    <3>4. recorded' = i + a + p + dropped + reported
      BY <2>2, <2>5
    <3>5. dropped' \in Nat /\ reported' \in Nat /\ dropped' + reported' = dropped + reported
      BY <1>4
    <3> HIDE DEF i, a, p, i2, a2, p2, B, rest
    <3>6. recorded' = (i + a + Len(batch)) + p2 + (dropped + reported)
      BY <3>1, <3>2, <3>3, <3>4
    <3>7. recorded' = (i2 + a2) + p2 + (dropped' + reported')
      BY <3>3, <3>5, <3>6
    <3>8. recorded' = i2 + a2 + p2 + dropped' + reported'
      BY <3>2, <3>5, <3>7
    <3> QED BY <3>8 DEF i2, a2, p2
  <2> QED BY <2>6 DEF AllAccounted
<1> QED BY <1>6, <1>7, <1>8, <1>11, <1>13, <1>15 DEF Inv

\* The end of the server or of the process changes nothing of the pipeline.
LEMMA EndsInv == ASSUME Inv, ServeEnds \/ Exit PROVE Inv' /\ Pipeline' = Pipeline
<1>1. Data /\ Flags /\ Machine /\ InOrderOnce /\ Known /\ Fates /\ AllAccounted
  BY DEF Inv
<1>2. UNCHANGED <<recorded, channel, buf, batch, pc, dropped, sent, indexed, abandoned, reported>>
  BY DEF ServeEnds, Exit, task, fate
<1>3. Flags'
  BY <1>1, Zenon DEF ServeEnds, Exit, Flags
<1>4. Data' /\ Machine' /\ Fates'
  BY <1>1, <1>2 DEF Data, Machine, Fates
<1>5. Pipeline' = Pipeline /\ All' = All
  BY <1>2 DEF Pipeline, All
<1>6. InOrderOnce' /\ Known' /\ AllAccounted'
  BY <1>1, <1>2, <1>5 DEF InOrderOnce, Known, AllAccounted
<1> QED BY <1>3, <1>4, <1>5, <1>6 DEF Inv

LEMMA StutterInv == ASSUME Inv, UNCHANGED vars PROVE Inv' /\ Pipeline' = Pipeline
<1>1. Data /\ Flags /\ Machine /\ InOrderOnce /\ Known /\ Fates /\ AllAccounted
  BY DEF Inv
<1>2. UNCHANGED <<recorded, channel, buf, batch, pc, dropped, sent, indexed, abandoned, reported>>
      /\ UNCHANGED <<serving, keptOpen, exited>>
  BY DEF vars, task, fate, process
<1>3. Flags'
  BY <1>1, <1>2, Zenon DEF Flags
<1>4. Data' /\ Machine' /\ Fates'
  BY <1>1, <1>2 DEF Data, Machine, Fates
<1>5. Pipeline' = Pipeline /\ All' = All
  BY <1>2 DEF Pipeline, All
<1>6. InOrderOnce' /\ Known' /\ AllAccounted'
  BY <1>1, <1>2, <1>5 DEF InOrderOnce, Known, AllAccounted
<1> QED BY <1>3, <1>4, <1>5, <1>6 DEF Inv

LEMMA NextInv == Inv /\ [Next]_vars => Inv'
<1> SUFFICES ASSUME Inv, [Next]_vars PROVE Inv'
  OBVIOUS
<1>1. CASE Record
  BY <1>1, RecordInv
<1>2. CASE Receive
  BY <1>2, ReceiveInv
<1>3. CASE ReceiveClosed
  BY <1>3, ReceiveClosedInv
<1>4. CASE Tick
  BY <1>4, TickInv
<1>5. CASE AnswerAny
  BY <1>5, AnswerInv DEF AnswerAny
<1>6. CASE ServeEnds \/ Exit
  BY <1>6, EndsInv
<1>7. CASE UNCHANGED vars
  BY <1>7, StutterInv
<1> QED BY <1>1, <1>2, <1>3, <1>4, <1>5, <1>6, <1>7 DEF Next

\* The buffer is empty while a batch is under way, and never as long as a batch
\* otherwise.
LEMMA OneBatch == ASSUME Data, Machine PROVE Len(batch) + Len(buf) <= BatchSize
<1>1. Len(batch) \in Nat /\ Len(buf) \in Nat
  BY PipelineFacts
<1>2. pc \in {"select", "recv", "tick", "closed", "done"}
  BY DEF Data
<1>3. Len(<<>>) = 0
  BY EmptySeq
<1> QED BY <1>1, <1>2, <1>3, ConstantTypes DEF Machine

-----------------------------------------------------------------------------
(* The theorems.                                                           *)

LEMMA InvHolds == Spec => []Inv
BY InitInv, NextInv, PTL DEF Spec

\* Every variable keeps its type, and the channel its capacity.
THEOREM TypeCorrect == Spec => []TypeOK
<1>1. Inv => TypeOK
  BY TypeParts DEF Inv
<1> QED BY <1>1, InvHolds, PTL

\* Documents reach OpenSearch in the order of recording and once at most, whatever
\* interleaving of producers, ticks and answers, for every capacity and batch size.
THEOREM SentInOrderOnce == Spec => []InOrderOnce
<1>1. Inv => InOrderOnce
  BY DEF Inv
<1> QED BY <1>1, InvHolds, PTL

\* No document is lost without being counted or logged.
THEOREM EveryDocumentAccounted == Spec => []AllAccounted
<1>1. Inv => AllAccounted
  BY DEF Inv
<1> QED BY <1>1, InvHolds, PTL

\* The documents in memory never exceed the channel and one batch: the buffer is
\* empty while a batch is under way, and never reaches the batch size otherwise.
THEOREM MemoryBounded == Spec => []MemoryBound
<1>1. Inv => MemoryBound
  <2> SUFFICES ASSUME Inv PROVE MemoryBound
    OBVIOUS
  <2>1. Data /\ Machine
    BY DEF Inv
  <2>2. Len(Pipeline) = Len(batch) + Len(buf) + Len(channel)
        /\ Len(batch) \in Nat /\ Len(buf) \in Nat /\ Len(channel) \in Nat
    BY <2>1, PipelineFacts
  <2>3. Len(channel) <= Capacity
    BY <2>1 DEF Data
  <2>4. Len(batch) + Len(buf) <= BatchSize
    BY <2>1, OneBatch
  <2> QED BY <2>2, <2>3, <2>4, ConstantTypes DEF MemoryBound
<1> QED BY <1>1, InvHolds, PTL

\* Once the task has seen the channel closed, nobody is left to record.
Sealed ==
    /\ keptOpen \in BOOLEAN /\ serving \in BOOLEAN
    /\ pc \in {"closed", "done"} => Closed /\ channel = <<>>

LEMMA SealedStep == Sealed /\ [Next]_vars => Sealed'
<1> SUFFICES ASSUME Sealed, [Next]_vars PROVE Sealed'
  OBVIOUS
<1> USE DEF Sealed, Closed
<1>1. CASE Record
  BY <1>1 DEF Record, process
<1>2. CASE Receive
  BY <1>2 DEF Receive, Flush, process
<1>3. CASE ReceiveClosed
  BY <1>3 DEF ReceiveClosed, Flush, process
<1>4. CASE Tick
  BY <1>4 DEF Tick, Flush, process
<1>5. CASE AnswerAny
  BY <1>5 DEF AnswerAny, Answer, process
<1>6. CASE ServeEnds
  <2>1. keptOpen' = keptOpen /\ serving' = FALSE /\ pc' = pc /\ channel' = channel
    BY <1>6 DEF ServeEnds, task
  <2>2. Closed => Closed'
    BY <2>1, Zenon
  <2> QED BY <2>1, <2>2, Zenon
<1>7. CASE Exit \/ UNCHANGED vars
  <2>1. keptOpen' = keptOpen /\ serving' = serving /\ pc' = pc /\ channel' = channel
    BY <1>7 DEF Exit, vars, task, process
  <2> QED BY <2>1, Zenon
<1> QED BY <1>1, <1>2, <1>3, <1>4, <1>5, <1>6, <1>7 DEF Next

\* The loop keeps its word, a last flush and only then the end: a task that has ended
\* has left nothing behind.  What ExitDrained misses is a process that waits for it.
THEOREM EndedTaskDrained == Spec => [](pc = "done" => Pipeline = <<>>)
<1>1. Init => Sealed
  BY DEF Init, Sealed
<1>2. Inv /\ Sealed => (pc = "done" => Pipeline = <<>>)
  <2> SUFFICES ASSUME Inv, Sealed, pc = "done" PROVE Pipeline = <<>>
    OBVIOUS
  <2>1. batch = <<>> /\ buf = <<>> /\ channel = <<>>
    BY DEF Inv, Machine, Sealed
  <2>2. <<>> \in Seq(Docs)
    BY EmptySeq
  <2> QED BY <2>1, <2>2, ConcatEmptySeq DEF Pipeline
<1> QED BY <1>1, <1>2, SealedStep, InvHolds, PTL DEF Spec

-----------------------------------------------------------------------------
(* The shipper is a lossy log.                                             *)

LogVars == <<recorded, Pipeline, indexed, abandoned, dropped + reported, exited>>

\* The front of a concatenation, and what is left when it is gone.
LEMMA FrontLeaves ==
    ASSUME NEW S, NEW s \in Seq(S), NEW t \in Seq(S), s # <<>>
    PROVE  /\ SubSeq(s \o t, 1, Len(s)) = s
           /\ SubSeq(s \o t, Len(s) + 1, Len(s \o t)) = t
           /\ Len(s) <= Len(s \o t)
<1>1. Len(s) \in Nat /\ Len(s) >= 1 /\ Len(t) \in Nat
  BY EmptySeq, LenProperties
<1>2. Len(s \o t) = Len(s) + Len(t)
  BY ConcatProperties
<1>3. SubSeq(s \o t, 1, Len(s)) = s
  <2>1. 1 \in 1..Len(s) /\ Len(s) \in 1..Len(s)
    BY <1>1
  <2> QED BY <2>1, SubSeqOfConcat1, SubSeqFull
<1>4. CASE t = <<>>
  <2>1. Len(s \o t) = Len(s)
    BY <1>1, <1>2, <1>4
  <2>2. Len(s) < Len(s) + 1 /\ Len(s) + 1 \in Int /\ Len(s) \in Int
    BY <1>1
  <2>3. SubSeq(s \o t, Len(s) + 1, Len(s)) = <<>>
    BY <2>2, SubSeqEmpty
  <2> QED BY <1>1, <1>3, <1>4, <2>1, <2>3
<1>5. CASE t # <<>>
  <2>1. Len(t) >= 1
    BY <1>1, <1>5, EmptySeq
  <2> DEFINE m == Len(s) + 1
             n == Len(s) + Len(t)
  <2>2. m \in Len(s)+1 .. Len(s)+Len(t) /\ n \in Len(s)+1 .. Len(s)+Len(t)
        /\ m - Len(s) = 1 /\ n - Len(s) = Len(t)
    BY <1>1, <2>1
  <2>3. SubSeq(s \o t, m, n) = SubSeq(t, m - Len(s), n - Len(s))
    <3> HIDE DEF m, n
    <3> QED BY <2>2, SubSeqOfConcat2
  <2>4. SubSeq(t, 1, Len(t)) = t
    BY SubSeqFull
  <2> QED BY <1>1, <1>2, <1>3, <2>2, <2>3, <2>4
<1> QED BY <1>4, <1>5

LEMMA LogInit == Init => Log!Init
<1> SUFFICES ASSUME Init PROVE Log!Init
  OBVIOUS
<1>1. <<>> \in Seq(Docs)
  BY EmptySeq
<1>2. Pipeline = <<>>
  BY <1>1, ConcatEmptySeq DEF Pipeline, Init
<1>3. dropped + reported = 0
  BY DEF Init
<1> QED BY <1>2, <1>3 DEF Init, Log!Init

\* A document that is recorded is taken, and then the log has room, or refused, and
\* then the channel alone holds as many as the log must.
LEMMA RecordOffers == ASSUME Inv, Record PROVE Log!Offer
<1>1. Data /\ Machine
  BY DEF Inv
<1>2. recorded + 1 \in Docs /\ recorded' = recorded + 1 /\ ~exited
  BY <1>1, ConstantTypes DEF Record, Data, Docs
<1>3. UNCHANGED <<buf, batch, indexed, abandoned, exited, reported>>
  BY DEF Record, fate, process
<1>4. channel \in Seq(Docs) /\ batch \o buf \in Seq(Docs)
  BY <1>1, ConcatProperties DEF Data
<1>5. Len(Pipeline) = Len(batch) + Len(buf) + Len(channel)
      /\ Len(batch) \in Nat /\ Len(buf) \in Nat /\ Len(channel) \in Nat
  BY <1>1, PipelineFacts
<1>6. dropped \in Nat /\ reported \in Nat
  BY <1>1, CountTypes
<1>7. Len(batch) + Len(buf) <= BatchSize
  BY <1>1, <1>5, OneBatch
<1>8. CASE Len(channel) < Capacity /\ channel' = Append(channel, recorded')
           /\ dropped' = dropped
  <2>1. Pipeline' = Append(Pipeline, recorded')
    BY <1>2, <1>3, <1>4, <1>8, AppendToWhole DEF Pipeline
  <2>2. Len(Pipeline) < Capacity + BatchSize
    BY <1>5, <1>7, <1>8, ConstantTypes
  <2>3. Log!Take
    BY <1>3, <1>8, <2>1, <2>2 DEF Log!Take
  <2> QED BY <1>2, <1>3, <2>3 DEF Log!Offer
<1>9. CASE Len(channel) = Capacity /\ channel' = channel /\ dropped' = dropped + 1
  <2>1. Pipeline' = Pipeline
    BY <1>3, <1>9 DEF Pipeline
  <2>2. Len(Pipeline) >= Capacity
    BY <1>5, <1>9, ConstantTypes
  <2>3. dropped' + reported' = (dropped + reported) + 1
    BY <1>3, <1>6, <1>9
  <2>4. Log!Refuse
    BY <2>1, <2>2, <2>3 DEF Log!Refuse
  <2> QED BY <1>2, <1>3, <2>4 DEF Log!Offer
<1> QED BY <1>8, <1>9 DEF Record

\* An answer settles the oldest documents, as many as the batch is long; an empty
\* batch cannot be told from none.
LEMMA AnswerSettles ==
    ASSUME Inv, NEW kept \in SUBSET ToSet(batch), Answer(kept)
    PROVE  Log!Next \/ UNCHANGED LogVars
<1> DEFINE n == Len(batch)
<1>1. Data /\ Machine
  BY DEF Inv
<1>2. batch \in Seq(Docs) /\ channel \in Seq(Docs) /\ buf = <<>> /\ n \in Nat
      /\ n <= BatchSize /\ <<>> \in Seq(Docs)
  BY <1>1, EmptySeq, LenProperties DEF Data, Machine, Answer
<1>3. /\ UNCHANGED <<recorded, channel, buf, exited>>
      /\ ~exited /\ batch' = <<>>
      /\ indexed' = indexed \cup kept /\ abandoned' = abandoned \cup (ToSet(batch) \ kept)
  BY DEF Answer, process
<1>4. Pipeline = batch \o channel /\ Pipeline' = channel
  <2>1. Pipeline = batch \o channel
    BY <1>2, PipelineParts DEF Pipeline
  <2>2. Pipeline' = <<>> \o channel
    BY <1>2, <1>3, PipelineParts DEF Pipeline
  <2> QED BY <1>2, <2>1, <2>2, ConcatEmptySeq
<1>5. dropped' + reported' = dropped + reported
  BY <1>1, ReportKeepsSum DEF Answer
<1>6. CASE batch = <<>>
  <2>1. ToSet(batch) = {}
    BY <1>6 DEF ToSet
  <2>2. Pipeline' = Pipeline
    BY <1>2, <1>4, <1>6, ConcatEmptySeq
  <2> QED BY <1>3, <1>5, <2>1, <2>2 DEF LogVars
<1>7. CASE batch # <<>>
  <2>1. SubSeq(Pipeline, 1, n) = batch /\ SubSeq(Pipeline, n + 1, Len(Pipeline)) = channel
        /\ n <= Len(Pipeline)
    BY <1>2, <1>4, <1>7, FrontLeaves
  <2>2. n \in 1..BatchSize
    BY <1>2, <1>7, EmptySeq, ConstantTypes
  <2>3. ToSet(batch) \subseteq ToSet(Pipeline)
    BY <1>2, <1>4, MembersOfConcat
  <2>4. Log!Settle(n, kept)
    BY <1>3, <1>4, <1>5, <2>1 DEF Log!Settle, Log!ToSet, ToSet
  <2> QED BY <2>2, <2>3, <2>4 DEF Log!Next, Log!ToSet, ToSet
<1> QED BY <1>6, <1>7

\* The loop moves documents inside the log, and a report moves refusals from one
\* counter to the other: those that record see none of it.
LEMMA LoopIsSilent ==
    ASSUME Inv, Receive \/ ReceiveClosed \/ Tick \/ ServeEnds \/ UNCHANGED vars
    PROVE  UNCHANGED LogVars
<1>1. Data
  BY DEF Inv
<1>2. Pipeline' = Pipeline
  BY ReceiveInv, ReceiveClosedInv, TickInv, EndsInv, StutterInv
<1>3. UNCHANGED <<recorded, indexed, abandoned, exited>>
  BY DEF Receive, ReceiveClosed, Tick, ServeEnds, vars, process, fate
<1>4. dropped' + reported' = dropped + reported
  BY <1>1, ReportKeepsSum DEF Receive, ReceiveClosed, Tick, ServeEnds, vars
<1> QED BY <1>2, <1>3, <1>4 DEF LogVars

LEMMA LogStep == Inv /\ [Next]_vars => [Log!Next]_LogVars
<1> SUFFICES ASSUME Inv, [Next]_vars PROVE Log!Next \/ UNCHANGED LogVars
  OBVIOUS
<1>1. CASE Record
  BY <1>1, RecordOffers DEF Log!Next
<1>2. CASE Receive \/ ReceiveClosed \/ Tick \/ ServeEnds \/ UNCHANGED vars
  BY <1>2, LoopIsSilent
<1>3. CASE AnswerAny
  BY <1>3, AnswerSettles DEF AnswerAny
<1>4. CASE Exit
  <2>1. Pipeline' = Pipeline
    BY <1>4, EndsInv
  <2>2. Log!End
    BY <1>4, <2>1 DEF Exit, fate, Log!End
  <2> QED BY <2>2 DEF Log!Next
<1> QED BY <1>1, <1>2, <1>3, <1>4 DEF Next

\* Seen from those that record, the task with its two buffers, its batches and its
\* timer is one lossy log, for every capacity, batch size and number of documents.
THEOREM ShipperImplementsLossyLog == Spec => ImplementsLossyLog
BY InvHolds, LogInit, LogStep, PTL DEF Spec, ImplementsLossyLog, Log!Spec, LogVars
=============================================================================
