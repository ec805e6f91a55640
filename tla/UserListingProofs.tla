-------------------------- MODULE UserListingProofs --------------------------
(***************************************************************************)
(* Proofs about UserListing, for every number of accounts, every page size *)
(* and every bound of the integers that the accounts fit in.               *)
(***************************************************************************)
EXTENDS UserListing, FiniteSetTheorems, TLAPS

\* The rows that every order of the query puts before the row of u.
Newer(u) == {v \in rows : created[v] > created[u]}

\* The number of rows that precede the page.
Skipped == (page - 1) * size

-----------------------------------------------------------------------------
(* Sets of accounts, and what the table does to them.                      *)

\* Sets of accounts are finite, and larger ones have more members.
LEMMA AccountSets ==
    ASSUME NEW B \in SUBSET Users, NEW A \in SUBSET B
    PROVE  /\ IsFiniteSet(A) /\ IsFiniteSet(B)
           /\ Cardinality(A) \in Nat /\ Cardinality(B) \in Nat
           /\ Cardinality(A) <= Cardinality(B)
           /\ Cardinality(B) <= Cardinality(Users)
           /\ Cardinality(Users) \in Nat
           /\ Cardinality(A) = 0 <=> A = {}
           /\ A # B => Cardinality(A) < Cardinality(B)
           /\ Cardinality(B \ A) = Cardinality(B) - Cardinality(A)
<1>1. IsFiniteSet(Users) /\ B \in SUBSET Users
  BY ListingAssumption
<1>2. IsFiniteSet(B) /\ Cardinality(B) <= Cardinality(Users)
  BY <1>1, FS_Subset
<1>3. /\ IsFiniteSet(A) /\ Cardinality(A) <= Cardinality(B)
      /\ Cardinality(B) = Cardinality(A) => B = A
  BY <1>2, FS_Subset
<1>4. Cardinality(A) \in Nat /\ Cardinality(B) \in Nat /\ Cardinality(Users) \in Nat
  BY <1>1, <1>2, <1>3, FS_CardinalityType
<1>5. Cardinality(A) = 0 <=> A = {}
  BY <1>3, FS_EmptySet
<1>6. Cardinality(B \ A) = Cardinality(B) - Cardinality(A)
  <2>1. Cardinality(B \ A) = Cardinality(B) - Cardinality(B \cap A)
    BY <1>2, FS_Difference
  <2>2. B \cap A = A
    OBVIOUS
  <2> QED
    BY <2>1, <2>2
<1> QED
  BY <1>2, <1>3, <1>4, <1>5, <1>6

\* Disjoint sets of accounts add up.
LEMMA DisjointAccounts ==
    ASSUME NEW A \in SUBSET Users, NEW B \in SUBSET Users, A \cap B = {}
    PROVE  Cardinality(A \cup B) = Cardinality(A) + Cardinality(B)
<1>1. IsFiniteSet(A) /\ IsFiniteSet(B)
  BY ListingAssumption, FS_Subset
<1>2. Cardinality(A \cup B) = Cardinality(A) + Cardinality(B) - Cardinality(A \cap B)
  BY <1>1, FS_Union
<1>3. Cardinality(A \cap B) = 0
  BY FS_EmptySet
<1>4. Cardinality(A) \in Nat /\ Cardinality(B) \in Nat
  BY <1>1, FS_CardinalityType
<1> QED
  BY <1>2, <1>3, <1>4

\* The table only grows, and a row keeps its creation instant.
LEMMA TableGrows ==
    ASSUME TypeOK, TypeOK', [Next]_vars
    PROVE  /\ rows \subseteq rows'
           /\ \A v \in rows : created'[v] = created[v]
<1>1. CASE \E u \in Users : InsertBegins(u)
  BY <1>1 DEF TypeOK, InsertBegins
<1>2. CASE \E u \in Users : InsertEnds(u)
  BY <1>2 DEF InsertEnds
<1>3. CASE UNCHANGED table
  BY <1>3 DEF table
<1> QED
  BY <1>1, <1>2, <1>3
  DEF Next, vars, Tick, SetRole, RoleRefreshed, Visit, Follow, Call, Send, PageGuard,
      Extract, List, Count, Fail, Proceed, Leave, table

\* So a row never comes nearer to the top, nor is told apart again from another.
LEMMA RanksGrow ==
    ASSUME TypeOK, TypeOK', [Next]_vars
    PROVE  /\ Cardinality(rows) <= Cardinality(rows')
           /\ \A u \in rows : /\ Cardinality(Newer(u)) <= Cardinality(Newer(u)')
                              /\ Distinguished(u)' => Distinguished(u)
<1>1. rows \subseteq rows' /\ rows' \subseteq Users
  BY TableGrows DEF TypeOK
<1>2. Cardinality(rows) <= Cardinality(rows')
  BY <1>1, AccountSets
<1>3. ASSUME NEW u \in rows
      PROVE  /\ Cardinality(Newer(u)) <= Cardinality(Newer(u)')
             /\ Distinguished(u)' => Distinguished(u)
  <2>1. Newer(u) \subseteq Newer(u)' /\ Newer(u)' \subseteq Users
    BY <1>1, TableGrows DEF Newer
  <2>2. Cardinality(Newer(u)) <= Cardinality(Newer(u)')
    BY <2>1, AccountSets
  <2>3. Distinguished(u)' => Distinguished(u)
    BY <1>1, TableGrows DEF Distinguished
  <2> QED
    BY <2>2, <2>3
<1> QED
  BY <1>2, <1>3

-----------------------------------------------------------------------------
(* Arithmetic of pages.                                                    *)

\* One page further, the rows skipped are a page more.
LEMMA SkippedNext ==
    ASSUME NEW p \in Nat \ {0}, NEW s \in Nat
    PROVE  /\ (p - 1) * s \in Nat /\ p * s \in Nat
           /\ p * s = (p - 1) * s + s
  OBVIOUS

\* The page offers a link to the next exactly when the total passes its end.
LEMMA LinkCriterion ==
    ASSUME page \in Nat \ {0}, size \in Nat \ {0}, total \in Nat
    PROVE  /\ TotalPages \in Nat
           /\ page < TotalPages <=> page * size < total
<1> DEFINE n == (total + size - 1) \div size
<1>1. /\ n \in Int
      /\ n * size <= total + size - 1
      /\ total + size - 1 < (n + 1) * size
  OBVIOUS
<1>2. page < n <=> page * size < total
  <2> HIDE DEF n
  <2>1. ASSUME page < n PROVE page * size < total
    <3>1. n - page >= 1 /\ n - page \in Nat
      BY <1>1, <2>1
    <3>2. (n - page) * size >= size
      BY <3>1
    <3>3. n * size = page * size + (n - page) * size
      BY <1>1
    <3> QED
      BY <1>1, <3>2, <3>3
  <2>2. ASSUME ~(page < n) PROVE ~(page * size < total)
    <3>1. page - n \in Nat
      BY <1>1, <2>2
    <3>2. (page - n) * size >= 0
      BY <3>1
    <3>3. page * size = n * size + (page - n) * size /\ (n + 1) * size = n * size + size
      BY <1>1
    <3> QED
      BY <1>1, <3>2, <3>3
  <2> QED
    BY <2>1, <2>2
<1>3. TotalPages = IF n < 1 THEN 1 ELSE n
  BY DEF TotalPages
<1> QED
  BY <1>1, <1>2, <1>3

-----------------------------------------------------------------------------
(* What a query returns.                                                   *)

\* A page ends within the rows, and has rows when it starts within them.
LEMMA PageBounds ==
    ASSUME TypeOK, pc = "list", NEW S \in SUBSET rows, IsPage(S)
    PROVE  /\ S # {} => Skipped + Cardinality(S) <= Cardinality(rows)
           /\ Skipped < Cardinality(rows) => S # {}
<1>1. PICK before \in SUBSET rows :
        /\ S \subseteq rows \ before
        /\ Cardinality(before) = Least(Offset, Cardinality(rows))
        /\ Cardinality(S) = Least(size, Cardinality(rows \ before))
  BY DEF IsPage
<1>2. /\ page \in Nat \ {0} /\ size \in Nat \ {0} /\ MaxInt \in Nat
      /\ Skipped \in Nat
  BY ListingAssumption, SkippedNext DEF TypeOK, Skipped
<1>3. /\ rows \in SUBSET Users /\ rows \ before \in SUBSET Users
      /\ S \in SUBSET Users /\ S \in SUBSET (rows \ before)
  BY <1>1 DEF TypeOK
<1>4. /\ Cardinality(rows \ before) = Cardinality(rows) - Cardinality(before)
      /\ Cardinality(rows) \in Nat /\ Cardinality(rows) <= Cardinality(Users)
      /\ Cardinality(Users) \in Nat /\ Cardinality(before) \in Nat
  BY <1>3, AccountSets
<1>5. /\ Cardinality(S) \in Nat
      /\ Cardinality(S) <= Cardinality(rows \ before)
      /\ Cardinality(S) = 0 <=> S = {}
  BY <1>3, AccountSets
<1>6. Cardinality(rows) <= MaxInt
  BY <1>4, ListingAssumption
<1>7. Cardinality(before) = Least(Least(Skipped, MaxInt), Cardinality(rows))
  BY <1>1 DEF Offset, Skipped
<1>8. Cardinality(before) = IF Skipped <= Cardinality(rows)
                              THEN Skipped ELSE Cardinality(rows)
  <2> HIDE DEF Skipped
  <2> QED
    BY <1>2, <1>4, <1>6, <1>7 DEF Least
<1> HIDE DEF Skipped
<1>9. S # {} => Skipped + Cardinality(S) <= Cardinality(rows)
  BY <1>2, <1>4, <1>5, <1>8
<1>10. Skipped < Cardinality(rows) => S # {}
  BY <1>1, <1>2, <1>4, <1>5, <1>8 DEF Least
<1> QED
  BY <1>9, <1>10

\* A row that no earlier page could show, and that this one does not show, is
\* preceded by all the rows of this page too.
LEMMA PageRank ==
    ASSUME TypeOK, pc = "list", NEW S \in SUBSET rows, IsPage(S),
           NEW u \in rows \ S, Distinguished(u),
           Skipped <= Cardinality(Newer(u))
    PROVE  page * size <= Cardinality(Newer(u))
<1>1. PICK before \in SUBSET rows :
        /\ S \subseteq rows \ before
        /\ Cardinality(before) = Least(Offset, Cardinality(rows))
        /\ Cardinality(S) = Least(size, Cardinality(rows \ before))
        /\ Precedes(before, rows \ before)
        /\ Precedes(S, rows \ (before \cup S))
  BY DEF IsPage
<1>2. /\ page \in Nat \ {0} /\ size \in Nat \ {0} /\ MaxInt \in Nat
      /\ Skipped \in Nat /\ page * size = Skipped + size
  BY ListingAssumption, SkippedNext DEF TypeOK, Skipped
<1>3. /\ rows \in SUBSET Users /\ before \in SUBSET Users /\ S \in SUBSET Users
      /\ Newer(u) \in SUBSET rows /\ u \notin Newer(u)
      /\ \A v \in rows : created[v] \in Int
  BY <1>1 DEF TypeOK, Newer
<1>4. /\ Cardinality(rows) \in Nat /\ Cardinality(Newer(u)) \in Nat
      /\ Cardinality(rows) <= MaxInt
  <2>1. /\ Cardinality(rows) \in Nat /\ Cardinality(Newer(u)) \in Nat
        /\ Cardinality(Users) \in Nat /\ Cardinality(rows) <= Cardinality(Users)
    BY <1>3, AccountSets
  <2> QED
    BY <1>2, <2>1, ListingAssumption
<1>5. Cardinality(Newer(u)) < Cardinality(rows)
  <2>1. Newer(u) # rows
    BY <1>3
  <2> QED
    BY <1>3, <2>1, AccountSets
<1>6. Cardinality(before) = Skipped
  <2>1. Cardinality(before) = Least(Least(Skipped, MaxInt), Cardinality(rows))
    BY <1>1 DEF Offset, Skipped
  <2> HIDE DEF Skipped
  <2> QED
    BY <1>2, <1>4, <1>5, <2>1 DEF Least
<1>7. u \notin before
  <2> SUFFICES ASSUME u \in before PROVE FALSE
    OBVIOUS
  <2>1. Newer(u) \in SUBSET before /\ Newer(u) # before
    BY <1>1, <1>3 DEF Newer, Precedes
  <2>2. Cardinality(Newer(u)) < Cardinality(before)
    BY <1>3, <2>1, AccountSets
  <2> QED
    BY <1>2, <1>4, <1>6, <2>2
<1>8. u \in rows \ (before \cup S)
  BY <1>7
<1>9. Cardinality(S) = size
  <2>1. S \in SUBSET (rows \ before) /\ rows \ before \in SUBSET Users
    BY <1>1, <1>3
  <2>2. Cardinality(S) < Cardinality(rows \ before)
    BY <1>7, <2>1, AccountSets
  <2>3. Cardinality(S) \in Nat /\ Cardinality(rows \ before) \in Nat
    BY <2>1, AccountSets
  <2> QED
    BY <1>1, <1>2, <2>2, <2>3 DEF Least
<1>10. before \cup S \in SUBSET Newer(u) /\ Newer(u) \in SUBSET Users
  <2>1. \A v \in before \cup S : v \in rows /\ v # u /\ created[v] >= created[u]
    BY <1>1, <1>7, <1>8 DEF Precedes
  <2> QED
    BY <1>3, <2>1 DEF Newer, Distinguished
<1>11. Cardinality(before \cup S) = Skipped + size
  <2>1. before \cap S = {}
    BY <1>1
  <2> QED
    BY <1>3, <1>6, <1>9, <2>1, DisjointAccounts
<1>12. Cardinality(before \cup S) <= Cardinality(Newer(u))
  BY <1>10, AccountSets
<1> QED
  BY <1>2, <1>11, <1>12

-----------------------------------------------------------------------------
(* Type correctness.                                                       *)

\* What the assumption says of the numbers.
LEMMA ConstantBounds ==
    /\ MaxInt \in Nat \ {0} /\ MaxTime \in Nat /\ MaxPageSize \in Nat \ {0}
    /\ MaxPageSize + 1 \in Nat
    /\ PageSize \in 1..MaxPageSize /\ PageSize \in 0..(MaxPageSize + 1)
    /\ \A p : PageParam(p) \in 1..MaxInt /\ PageParam(p) \in 0..MaxInt
    /\ Admin \in Users
<1>1. /\ MaxInt \in Nat \ {0} /\ MaxTime \in Nat /\ MaxPageSize \in Nat \ {0}
      /\ PageSize \in 1..MaxPageSize /\ MaxPage \in 1..MaxInt /\ Admin \in Users
  BY ListingAssumption
<1>2. \A p : PageParam(p) \in 1..MaxInt
  BY <1>1 DEF PageParam
<1> QED
  BY <1>1, <1>2

LEMMA TypeInit == Init => TypeOK
<1>1. Cardinality(Users) \in Nat
  BY ListingAssumption, FS_CardinalityType
<1>2. Init => /\ browser \in BOOLEAN /\ linked \in BOOLEAN
              /\ fromTop \in BOOLEAN /\ entitled \in BOOLEAN
  BY DEF Init
<1>3. Init => /\ clock \in 0..MaxTime /\ created \in [Users -> 0..MaxTime]
              /\ rows \subseteq Users /\ pending \subseteq Users
              /\ items \subseteq Users /\ start \subseteq Users /\ seen \subseteq Users
  BY ConstantBounds DEF Init
<1>4. Init => /\ role \in {"user", "admin"} /\ jarRole \in {"user", "admin"}
              /\ pc = "away" /\ total \in 0..Cardinality(Users)
              /\ page \in 0..MaxInt /\ size \in 0..(MaxPageSize + 1)
  BY <1>1, ConstantBounds DEF Init
<1> QED
  BY <1>2, <1>3, <1>4 DEF TypeOK, PC

\* Page numbers come from the URL or stay below the number of accounts.
LEMMA TypeStep == TypeOK /\ [Next]_vars => TypeOK'
<1> SUFFICES ASSUME TypeOK, [Next]_vars PROVE TypeOK'
  OBVIOUS
<1>1. /\ Cardinality(Users) \in Nat
      /\ \A A \in SUBSET Users : Cardinality(A) \in 0..Cardinality(Users)
  BY ListingAssumption, FS_CardinalityType, FS_Subset
<1> USE ConstantBounds DEF TypeOK, PC, table, roles, query, walk
<1>3. CASE Tick
  BY <1>3 DEF Tick
<1>4. ASSUME NEW u \in Users, InsertBegins(u) PROVE TypeOK'
  BY <1>4 DEF InsertBegins
<1>5. ASSUME NEW u \in Users, InsertEnds(u) PROVE TypeOK'
  BY <1>5 DEF InsertEnds
<1>6. ASSUME NEW r \in {"user", "admin"}, SetRole(r) PROVE TypeOK'
  BY <1>6 DEF SetRole
<1>7. CASE RoleRefreshed
  BY <1>7 DEF RoleRefreshed
<1>8. ASSUME NEW p \in 0..MaxInt, Visit(p) PROVE TypeOK'
  <2>1. /\ browser' \in BOOLEAN /\ linked' \in BOOLEAN
        /\ fromTop' \in BOOLEAN /\ entitled' \in BOOLEAN
    BY <1>8 DEF Visit, Send
  <2>2. page' \in 0..MaxInt /\ size' \in 0..(MaxPageSize + 1)
    BY <1>8 DEF Visit, Send
  <2>3. total' \in 0..Cardinality(Users)
    BY <1>1, <1>8 DEF Visit, Send
  <2>4. items' \subseteq Users /\ start' \subseteq Users /\ seen' \subseteq Users
    BY <1>8 DEF Visit, Send
  <2>5. UNCHANGED <<clock, table, roles>> /\ pc' \in {"away", "check", "extract"}
    BY <1>8 DEF Visit, Send
  <2> QED
    BY <2>1, <2>2, <2>3, <2>4, <2>5
<1>9. CASE Follow
  BY <1>1, <1>9 DEF Follow, Send
<1>10. ASSUME NEW p \in 0..MaxInt, NEW s \in 0..(MaxPageSize + 1), Call(p, s)
       PROVE  TypeOK'
  <2>1. /\ browser' \in BOOLEAN /\ linked' \in BOOLEAN
        /\ fromTop' \in BOOLEAN /\ entitled' \in BOOLEAN
    BY <1>10 DEF Call, Send
  <2>2. page' \in 0..MaxInt /\ size' \in 0..(MaxPageSize + 1)
    BY <1>10 DEF Call, Send
  <2>3. total' \in 0..Cardinality(Users)
    BY <1>1, <1>10 DEF Call, Send
  <2>4. items' \subseteq Users /\ start' \subseteq Users /\ seen' \subseteq Users
    BY <1>10 DEF Call, Send
  <2>5. UNCHANGED <<clock, table, roles>> /\ pc' \in {"away", "check", "extract"}
    BY <1>10 DEF Call, Send
  <2> QED
    BY <2>1, <2>2, <2>3, <2>4, <2>5
<1>11. ASSUME Leave PROVE TypeOK'
  <2>1. /\ browser' \in BOOLEAN /\ linked' \in BOOLEAN
        /\ fromTop' \in BOOLEAN /\ entitled' \in BOOLEAN
    BY <1>11 DEF Leave
  <2>2. page' \in 0..MaxInt /\ size' \in 0..(MaxPageSize + 1)
    BY <1>11 DEF Leave
  <2>3. total' \in 0..Cardinality(Users)
    BY <1>1, <1>11 DEF Leave
  <2>4. items' \subseteq Users /\ start' \subseteq Users /\ seen' \subseteq Users
    BY <1>11 DEF Leave
  <2>5. UNCHANGED <<clock, table, roles>> /\ pc' \in {"away", "check", "extract"}
    BY <1>11 DEF Leave
  <2> QED
    BY <2>1, <2>2, <2>3, <2>4, <2>5
<1>12. CASE PageGuard
  BY <1>11, <1>12 DEF PageGuard, Proceed
<1>13. CASE Extract
  BY <1>11, <1>13 DEF Extract, Proceed, Valid
<1>14. CASE List
  BY <1>14 DEF List
<1>15. CASE Count
  BY <1>1, <1>15 DEF Count, Counted
<1>16. CASE Fail
  BY <1>11, <1>16 DEF Fail
<1>17. CASE UNCHANGED vars
  BY <1>17 DEF vars
<1> QED
  BY <1>3, <1>4, <1>5, <1>6, <1>7, <1>8, <1>9, <1>10, <1>12, <1>13, <1>14,
     <1>15, <1>16, <1>17 DEF Next

\* Every reachable state is typed: in particular, no page number reached by
\* links passes i64::MAX, and no query runs with a page size out of range.
THEOREM TypeCorrect == Spec => []TypeOK
  BY TypeInit, TypeStep, PTL DEF Spec

-----------------------------------------------------------------------------
(* The inductive invariant.                                                *)

\* What ties the request, the walk and the table together.
Frame ==
    /\ Admin \in rows
    /\ start \subseteq rows
    /\ browser => page >= 1 /\ size = PageSize
    /\ linked \/ fromTop => browser
    /\ pc # "away" /\ role = "admin" => entitled

\* A page that was read lies within the rows, and a total once counted stays
\* within them.
AnswerWithinRows ==
    /\ pc = "count" /\ items # {} => Skipped + Cardinality(items) <= Cardinality(rows)
    /\ pc = "shown" => total <= Cardinality(rows)
    /\ PageWithinTotal

\* A page reached by a link starts within the rows, from the link to the answer.
LinkWithinRows ==
    /\ linked /\ pc \in {"check", "extract", "list"} => Skipped < Cardinality(rows)
    /\ NextPageHasRows

\* An account that the walk has not shown yet is preceded by all the rows of
\* the pages that it has read, and there is a link to go on to it.
UnseenAhead ==
    fromTop => \A u \in start \ seen : Distinguished(u) =>
        /\ pc \in {"check", "extract", "list"} => Skipped <= Cardinality(Newer(u))
        /\ pc = "count" /\ u \notin items => page * size <= Cardinality(Newer(u))
        /\ pc = "shown" => page * size <= Cardinality(Newer(u)) /\ page * size < total

Inv == TypeOK /\ Frame /\ AnswerWithinRows /\ LinkWithinRows /\ UnseenAhead /\ ListedToAdmins

-----------------------------------------------------------------------------
(* The steps of a request, and those of others.                            *)

\* A step of others leaves the request alone; it may change the role, and the
\* request is then entitled if the account is an admin now.
Aside ==
    /\ UNCHANGED <<pc, browser, page, size, items, total, linked, fromTop, start, seen>>
    /\ \/ role' = role /\ entitled' = entitled
       \/ entitled' = (entitled \/ role' = "admin")

\* A step of the request leaves the table and the roles alone.
Alone == UNCHANGED <<rows, pending, created, role, jarRole>>

LEMMA StepKinds ==
    ASSUME [Next]_vars
    PROVE  \/ Aside
           \/ Alone /\ \E p \in 0..MaxInt : Visit(p)
           \/ Alone /\ Follow
           \/ Alone /\ \E p \in 0..MaxInt, s \in 0..(MaxPageSize + 1) : Call(p, s)
           \/ Alone /\ Leave
           \/ Alone /\ pc = "check" /\ Proceed("extract")
           \/ Alone /\ pc = "extract" /\ Admitted /\ Valid /\ Proceed("list")
           \/ Alone /\ List
           \/ Alone /\ Count
<1> USE DEF table, roles, query, walk
<1>1. CASE Tick \/ RoleRefreshed \/ UNCHANGED vars
  BY <1>1 DEF Tick, RoleRefreshed, vars, Aside
<1>2. ASSUME NEW u \in Users, InsertBegins(u) \/ InsertEnds(u) PROVE Aside
  BY <1>2 DEF InsertBegins, InsertEnds, Aside
<1>3. ASSUME NEW r \in {"user", "admin"}, SetRole(r) PROVE Aside
  BY <1>3 DEF SetRole, Aside
<1>4. ASSUME NEW p \in 0..MaxInt, Visit(p) PROVE Alone
  BY <1>4 DEF Visit, Send, Alone
<1>5. CASE Follow
  BY <1>5 DEF Follow, Send, Alone
<1>6. ASSUME NEW p \in 0..MaxInt, NEW s \in 0..(MaxPageSize + 1), Call(p, s)
      PROVE  Alone
  BY <1>6 DEF Call, Send, Alone
<1>7. CASE PageGuard
  BY <1>7 DEF PageGuard, Proceed, Leave, Alone
<1>8. CASE Extract
  BY <1>8 DEF Extract, Proceed, Leave, Alone
<1>9. CASE List \/ Count \/ Fail
  BY <1>9 DEF List, Count, Fail, Leave, Alone
<1> QED
  BY <1>1, <1>2, <1>3, <1>4, <1>5, <1>6, <1>7, <1>8, <1>9 DEF Next

-----------------------------------------------------------------------------
(* Each part of the invariant is preserved.                                *)

LEMMA InvInit == Init => Inv
<1> SUFFICES ASSUME Init PROVE Inv
  OBVIOUS
<1>1. TypeOK
  BY TypeInit
<1>2. Frame /\ LinkWithinRows /\ AnswerWithinRows /\ ListedToAdmins
  BY DEF Init, Frame, LinkWithinRows, AnswerWithinRows, NextPageHasRows,
         PageWithinTotal, ListedToAdmins
<1>3. UnseenAhead
  BY DEF Init, UnseenAhead
<1> QED
  BY <1>1, <1>2, <1>3 DEF Inv

LEMMA FrameStep ==
    ASSUME TypeOK, TypeOK', Frame, [Next]_vars
    PROVE  Frame'
<1>1. Admin \in rows' /\ rows \subseteq rows'
  BY TableGrows DEF Frame
<1> USE DEF Frame
<1>2. CASE Aside
  BY <1>1, <1>2 DEF Aside
<1>3. ASSUME NEW p \in 0..MaxInt, Visit(p) PROVE Frame'
  <2>1. browser' /\ page' >= 1 /\ size' = PageSize
    BY <1>3, ConstantBounds DEF Visit, Send
  <2>2. role' = role /\ start' \subseteq rows'
    BY <1>1, <1>3 DEF Visit, Send, roles, table
  <2>3. pc' # "away" /\ role' = "admin" => entitled'
    BY <1>3, <2>2 DEF Visit, Send
  <2> QED
    BY <1>1, <2>1, <2>2, <2>3
<1>4. CASE Follow
  <2>1. browser' /\ page' >= 1 /\ size' = PageSize
    BY <1>4, ConstantBounds DEF Follow, Send
  <2>2. role' = role /\ start' \subseteq rows'
    BY <1>1, <1>4 DEF Follow, Send, roles, table
  <2>3. pc' # "away" /\ role' = "admin" => entitled'
    BY <1>4, <2>2 DEF Follow, Send
  <2> QED
    BY <1>1, <2>1, <2>2, <2>3
<1>5. ASSUME NEW p \in 0..MaxInt, NEW s \in 0..(MaxPageSize + 1), Call(p, s)
      PROVE  Frame'
  BY <1>1, <1>5 DEF Call, Send, roles, table
<1>6. CASE Leave
  BY <1>1, <1>6 DEF Leave
<1>7. CASE pc = "check" /\ Proceed("extract")
  BY <1>1, <1>7 DEF Proceed, roles, query, walk
<1>8. CASE pc = "extract" /\ Proceed("list")
  BY <1>1, <1>8 DEF Proceed, roles, query, walk
<1>9. CASE List
  BY <1>1, <1>9 DEF List, roles, query, walk
<1>10. CASE Count
  BY <1>1, <1>10 DEF Count, roles, query
<1> QED
  BY <1>2, <1>3, <1>4, <1>5, <1>6, <1>7, <1>8, <1>9, <1>10, StepKinds

LEMMA ListedStep ==
    ASSUME TypeOK, TypeOK', Frame, ListedToAdmins, [Next]_vars
    PROVE  ListedToAdmins'
<1> USE DEF ListedToAdmins
<1>1. CASE Aside
  BY <1>1 DEF Aside
<1>2. CASE \/ \E p \in 0..MaxInt : Visit(p)
           \/ Follow
           \/ \E p \in 0..MaxInt, s \in 0..(MaxPageSize + 1) : Call(p, s)
           \/ Leave
  BY <1>2 DEF Visit, Follow, Call, Send, Leave
<1>3. CASE pc = "check" /\ Proceed("extract")
  BY <1>3 DEF Proceed
<1>4. CASE pc = "extract" /\ Admitted /\ Proceed("list")
  BY <1>4 DEF Proceed, Admitted, Frame
<1>5. CASE List \/ Count
  BY <1>5 DEF List, Count
<1> QED
  BY <1>1, <1>2, <1>3, <1>4, <1>5, StepKinds

LEMMA AnswerStep ==
    ASSUME TypeOK, TypeOK', AnswerWithinRows, [Next]_vars
    PROVE  AnswerWithinRows'
<1>1. /\ Cardinality(rows) \in Nat /\ Cardinality(rows') \in Nat
      /\ Cardinality(rows) <= Cardinality(rows')
      /\ Cardinality(items) \in Nat /\ total \in Nat
  <2>1. /\ rows \in SUBSET Users /\ rows' \in SUBSET Users /\ items \in SUBSET Users
        /\ Users \in SUBSET Users
    BY DEF TypeOK
  <2>2. /\ Cardinality(rows) \in Nat /\ Cardinality(rows') \in Nat
        /\ Cardinality(items) \in Nat /\ Cardinality(Users) \in Nat
    BY <2>1, AccountSets
  <2> QED
    BY <2>2, RanksGrow DEF TypeOK
<1>2. CASE Aside
  <2>1. UNCHANGED <<pc, items, total, Skipped>>
    BY <1>2 DEF Aside, Skipped
  <2>2. (page' - 1) * size' = (page - 1) * size
    BY <1>2 DEF Aside
  <2>3. Skipped \in Int
    BY DEF TypeOK, Skipped
  <2> HIDE DEF Skipped
  <2>4. PageWithinTotal'
    BY <1>2, <2>2 DEF AnswerWithinRows, PageWithinTotal, Aside
  <2> QED
    BY <1>1, <2>1, <2>3, <2>4 DEF AnswerWithinRows
<1>3. CASE \/ \E p \in 0..MaxInt : Visit(p)
           \/ Follow
           \/ \E p \in 0..MaxInt, s \in 0..(MaxPageSize + 1) : Call(p, s)
           \/ Leave
           \/ pc = "check" /\ Proceed("extract")
           \/ pc = "extract" /\ Proceed("list")
  <2>1. pc' \notin {"count", "shown"}
    BY <1>3 DEF Visit, Follow, Call, Send, Leave, Proceed
  <2> QED
    BY <2>1 DEF AnswerWithinRows, PageWithinTotal
<1>4. CASE Alone /\ List
  <2>1. PICK S \in SUBSET rows : IsPage(S) /\ items' = S
    BY <1>4 DEF List
  <2>2. S # {} => Skipped + Cardinality(S) <= Cardinality(rows)
    BY <1>4, <2>1, PageBounds DEF List
  <2>3. UNCHANGED <<rows, Skipped>> /\ pc' = "count"
    BY <1>4 DEF List, Alone, query, Skipped
  <2> QED
    BY <2>1, <2>2, <2>3 DEF AnswerWithinRows, PageWithinTotal
<1>5. CASE Alone /\ Count
  <2>1. pc = "count" /\ pc' = "shown" /\ UNCHANGED <<rows, items, page, size>>
    BY <1>5 DEF Count, Alone, query
  <2>2. total' = Cardinality(rows) /\ total' = Cardinality(rows')
    BY <1>5, <2>1 DEF Count, Counted
  <2>3. PageWithinTotal'
    BY <2>1, <2>2 DEF AnswerWithinRows, PageWithinTotal, Skipped
  <2> QED
    BY <1>1, <2>1, <2>2, <2>3 DEF AnswerWithinRows
<1> QED
  BY <1>2, <1>3, <1>4, <1>5, StepKinds

\* What the link to the next page knows, and where it leads.
LEMMA FollowTarget ==
    ASSUME TypeOK, Frame, AnswerWithinRows, Follow, Alone
    PROVE  /\ page * size < total /\ total <= Cardinality(rows)
           /\ Skipped' = page * size \/ Skipped' = 0
<1>1. /\ pc = "shown" /\ page \in Nat \ {0} /\ size \in Nat \ {0} /\ total \in Nat
      /\ size = PageSize
  BY ConstantBounds DEF TypeOK, Frame, Follow
<1>2. page * size < total
  BY <1>1, LinkCriterion DEF Follow
<1>3. total <= Cardinality(rows)
  BY <1>1 DEF AnswerWithinRows
<1>4. size' = size /\ (page' = page + 1 \/ page' = 1)
  BY <1>1 DEF Follow, Send, PageParam
<1>5. CASE page' = page + 1
  BY <1>1, <1>4, <1>5, <1>2, <1>3 DEF Skipped
<1>6. CASE page' = 1
  BY <1>1, <1>4, <1>6, <1>2, <1>3 DEF Skipped
<1> QED
  BY <1>2, <1>3, <1>4, <1>5, <1>6

LEMMA LinkStep ==
    ASSUME TypeOK, TypeOK', Frame, AnswerWithinRows, LinkWithinRows, [Next]_vars
    PROVE  LinkWithinRows'
<1>1. /\ Cardinality(rows) \in Nat /\ Cardinality(rows') \in Nat
      /\ Cardinality(rows) <= Cardinality(rows') /\ Cardinality(rows) # 0
  <2>1. /\ rows \in SUBSET Users /\ rows' \in SUBSET Users
        /\ rows \in SUBSET rows /\ rows' \in SUBSET rows' /\ rows # {}
    BY DEF TypeOK, Frame
  <2>2. /\ Cardinality(rows) \in Nat /\ Cardinality(rows') \in Nat
        /\ Cardinality(rows) # 0
    BY <2>1, AccountSets
  <2> QED
    BY <2>2, RanksGrow
<1>2. Skipped \in Int
  BY DEF TypeOK, Skipped
<1>3. CASE Aside
  <2>1. UNCHANGED <<pc, items, linked, Skipped>>
    BY <1>3 DEF Aside, Skipped
  <2> HIDE DEF Skipped
  <2> QED
    BY <1>1, <1>2, <2>1 DEF LinkWithinRows, NextPageHasRows
<1>4. CASE \/ \E p \in 0..MaxInt : Visit(p)
           \/ \E p \in 0..MaxInt, s \in 0..(MaxPageSize + 1) : Call(p, s)
           \/ Leave
  <2>1. linked' = FALSE
    BY <1>4 DEF Visit, Call, Leave
  <2> QED
    BY <2>1 DEF LinkWithinRows, NextPageHasRows
<1>5. CASE Alone /\ Follow
  <2>1. Skipped' < Cardinality(rows)
    <3>1. page * size \in Int /\ total \in Int
      BY DEF TypeOK
    <3> HIDE DEF Skipped
    <3> QED
      BY <1>1, <1>5, <3>1, FollowTarget
  <2>2. rows' = rows /\ pc' = "check"
    BY <1>5 DEF Alone, Follow, Send
  <2> QED
    BY <2>1, <2>2 DEF LinkWithinRows, NextPageHasRows
<1>6. CASE Alone /\ pc \in {"check", "extract"} /\ (Proceed("extract") \/ Proceed("list"))
  <2>1. UNCHANGED <<rows, items, linked, Skipped>> /\ pc' \in {"extract", "list"}
    BY <1>6 DEF Proceed, Alone, query, walk, Skipped
  <2> QED
    BY <1>6, <2>1 DEF LinkWithinRows, NextPageHasRows
<1>7. CASE Alone /\ List
  <2>1. PICK S \in SUBSET rows : IsPage(S) /\ items' = S
    BY <1>7 DEF List
  <2>2. pc = "list" /\ pc' = "count" /\ linked' = linked
    BY <1>7 DEF List, walk
  <2>3. Skipped < Cardinality(rows) => S # {}
    BY <2>1, <2>2, PageBounds
  <2> QED
    BY <2>1, <2>2, <2>3 DEF LinkWithinRows, NextPageHasRows
<1>8. CASE Alone /\ Count
  BY <1>8 DEF Count, LinkWithinRows, NextPageHasRows
<1> QED
  BY <1>3, <1>4, <1>5, <1>6, <1>7, <1>8, StepKinds

\* Accounts not shown stay ahead of the walk: the table pushes them further, a
\* page that does not show them lies before them, and a link leads to the next.
LEMMA UnseenStep ==
    ASSUME TypeOK, TypeOK', Frame, AnswerWithinRows, UnseenAhead, [Next]_vars
    PROVE  UnseenAhead'
<1>1. \A u \in rows : /\ Cardinality(Newer(u)) \in Nat /\ Cardinality(Newer(u)') \in Nat
                      /\ Cardinality(Newer(u)) <= Cardinality(Newer(u)')
                      /\ Distinguished(u)' => Distinguished(u)
  <2>1. \A u : Newer(u) \in SUBSET Users /\ Newer(u)' \in SUBSET Users
    BY DEF TypeOK, Newer
  <2>2. \A u : Cardinality(Newer(u)) \in Nat /\ Cardinality(Newer(u)') \in Nat
    BY <2>1, AccountSets
  <2> QED
    BY <2>2, RanksGrow
<1>2. /\ start \subseteq rows
      /\ Skipped \in Int /\ page * size \in Int /\ total \in Nat
  BY DEF Frame, TypeOK, Skipped
<1>3. CASE Aside
  <2>1. /\ UNCHANGED <<pc, items, total, fromTop, start, seen, Skipped>>
        /\ page' * size' = page * size
    BY <1>3 DEF Aside, Skipped
  <2> SUFFICES ASSUME fromTop', NEW u \in start' \ seen', Distinguished(u)'
               PROVE  /\ pc' \in {"check", "extract", "list"}
                            => Skipped' <= Cardinality(Newer(u)')
                      /\ pc' = "count" /\ u \notin items'
                            => page' * size' <= Cardinality(Newer(u)')
                      /\ pc' = "shown" => /\ page' * size' <= Cardinality(Newer(u)')
                                          /\ page' * size' < total'
    BY DEF UnseenAhead
  <2>2. /\ fromTop /\ u \in start \ seen /\ u \in rows /\ Distinguished(u)
        /\ Cardinality(Newer(u)) \in Nat /\ Cardinality(Newer(u)') \in Nat
        /\ Cardinality(Newer(u)) <= Cardinality(Newer(u)')
    BY <1>1, <1>2, <2>1
  <2>3. /\ pc \in {"check", "extract", "list"} => Skipped <= Cardinality(Newer(u))
        /\ pc = "count" /\ u \notin items => page * size <= Cardinality(Newer(u))
        /\ pc = "shown" => page * size <= Cardinality(Newer(u)) /\ page * size < total
    BY <2>2 DEF UnseenAhead
  <2> DEFINE end == page * size
  <2> HIDE DEF Skipped, end
  <2>4. page * size = end /\ end \in Int
    BY <1>2 DEF end
  <2> QED
    BY <1>2, <2>1, <2>2, <2>3, <2>4
<1>4. ASSUME NEW p \in 0..MaxInt, Visit(p), Alone PROVE UnseenAhead'
  <2>1. fromTop' => page' = 1
    BY <1>4 DEF Visit, Send
  <2>2. pc' = "check" /\ start' = rows /\ UNCHANGED rows /\ size' \in Nat
    BY <1>4, ConstantBounds DEF Visit, Send, Alone
  <2>3. page' = 1 => Skipped' = 0
    <3>1. \A n \in Nat : 0 * n = 0
      OBVIOUS
    <3>2. page' = 1 => page' - 1 = 0
      OBVIOUS
    <3> QED
      BY <2>2, <3>1, <3>2 DEF Skipped
  <2> QED
    BY <1>1, <2>1, <2>2, <2>3 DEF UnseenAhead
<1>5. CASE \/ \E p \in 0..MaxInt, s \in 0..(MaxPageSize + 1) : Call(p, s)
           \/ Leave
  BY <1>5 DEF Call, Leave, UnseenAhead
<1>6. CASE Alone /\ Follow
  <2>1. /\ pc = "shown" /\ pc' = "check" /\ UNCHANGED <<rows, created, fromTop, start, seen>>
    BY <1>6 DEF Follow, Send, Alone
  <2>2. \A u : Newer(u)' = Newer(u) /\ Distinguished(u)' = Distinguished(u)
    BY <2>1 DEF Newer, Distinguished
  <2>3. Skipped' = page * size \/ Skipped' = 0
    BY <1>6, FollowTarget
  <2> HIDE DEF Skipped
  <2> QED
    BY <1>1, <1>2, <2>1, <2>2, <2>3 DEF UnseenAhead
<1>7. CASE Alone /\ pc \in {"check", "extract"} /\ (Proceed("extract") \/ Proceed("list"))
  <2>1. /\ UNCHANGED <<rows, created, fromTop, start, seen, Skipped>>
        /\ pc' \in {"extract", "list"}
    BY <1>7 DEF Proceed, Alone, query, walk, Skipped
  <2>2. \A u : Newer(u)' = Newer(u) /\ Distinguished(u)' = Distinguished(u)
    BY <2>1 DEF Newer, Distinguished
  <2> HIDE DEF Skipped
  <2> QED
    BY <1>7, <2>1, <2>2 DEF UnseenAhead
<1>8. CASE Alone /\ List
  <2>1. PICK S \in SUBSET rows : IsPage(S) /\ items' = S
    BY <1>8 DEF List
  <2>2. /\ pc = "list" /\ pc' = "count"
        /\ UNCHANGED <<rows, created, page, size, fromTop, start, seen>>
    BY <1>8 DEF List, Alone, query, walk
  <2>3. \A u : Newer(u)' = Newer(u) /\ Distinguished(u)' = Distinguished(u)
    BY <2>2 DEF Newer, Distinguished
  <2>4. ASSUME fromTop, NEW u \in start \ seen, Distinguished(u), u \notin S
        PROVE  page * size <= Cardinality(Newer(u))
    <3>1. u \in rows \ S /\ Skipped <= Cardinality(Newer(u))
      BY <1>2, <2>2, <2>4 DEF UnseenAhead
    <3> QED
      BY <2>1, <2>2, <2>4, <3>1, PageRank
  <2> QED
    BY <2>1, <2>2, <2>3, <2>4 DEF UnseenAhead
<1>9. CASE Alone /\ Count
  <2>1. /\ pc = "count" /\ pc' = "shown" /\ total' = Cardinality(rows)
        /\ seen' = seen \cup items
        /\ UNCHANGED <<rows, created, page, size, fromTop, start>>
    BY <1>9 DEF Count, Counted, Alone, query
  <2>2. \A u : Newer(u)' = Newer(u) /\ Distinguished(u)' = Distinguished(u)
    BY <2>1 DEF Newer, Distinguished
  <2>3. ASSUME fromTop, NEW u \in start \ (seen \cup items), Distinguished(u)
        PROVE  page * size <= Cardinality(Newer(u)) /\ page * size < Cardinality(rows)
    <3>1. page * size <= Cardinality(Newer(u))
      BY <2>1, <2>3 DEF UnseenAhead
    <3>2. /\ rows \in SUBSET Users /\ Newer(u) \in SUBSET rows
          /\ u \in rows /\ u \notin Newer(u) /\ Newer(u) # rows
      BY <1>2 DEF TypeOK, Newer
    <3>3. /\ Cardinality(Newer(u)) < Cardinality(rows)
          /\ Cardinality(Newer(u)) \in Nat /\ Cardinality(rows) \in Nat
      BY <3>2, AccountSets
    <3> QED
      BY <1>2, <3>1, <3>3
  <2> QED
    BY <2>1, <2>2, <2>3 DEF UnseenAhead
<1> QED
  BY <1>3, <1>4, <1>5, <1>6, <1>7, <1>8, <1>9, StepKinds

-----------------------------------------------------------------------------
(* The theorems.                                                           *)

LEMMA InvStep == Inv /\ [Next]_vars => Inv'
<1> SUFFICES ASSUME Inv, [Next]_vars PROVE Inv'
  OBVIOUS
<1>1. TypeOK /\ TypeOK'
  BY TypeStep DEF Inv
<1> QED
  BY <1>1, FrameStep, AnswerStep, LinkStep, UnseenStep, ListedStep DEF Inv

LEMMA InvHolds == Spec => []Inv
  BY InvInit, InvStep, PTL DEF Spec

\* The rows of an answer lie within its total, whatever is inserted between the
\* query of the rows and that of the count.
THEOREM PagesWithinTotal == Spec => []PageWithinTotal
<1>1. Inv => PageWithinTotal
  BY DEF Inv, AnswerWithinRows
<1> QED
  BY <1>1, InvHolds, PTL

\* The link to the next page never leads to a page without rows.
THEOREM LinksLeadToRows == Spec => []NextPageHasRows
<1>1. Inv => NextPageHasRows
  BY DEF Inv, LinkWithinRows
<1> QED
  BY <1>1, InvHolds, PTL

\* A walk along the links has shown every account it found in the table, but
\* those that share their creation instant with another.
THEOREM WalkIsComplete == Spec => []WalkShowsEveryone
<1>1. Inv => WalkShowsEveryone
  <2> SUFFICES ASSUME Inv, pc = "shown", fromTop, ~(page < TotalPages),
                      NEW u \in start, Distinguished(u), u \notin seen
               PROVE  FALSE
    BY DEF WalkShowsEveryone
  <2>1. page * size < total
    BY DEF Inv, UnseenAhead
  <2>2. page \in Nat \ {0} /\ size \in Nat \ {0} /\ total \in Nat
    BY ConstantBounds DEF Inv, TypeOK
  <2> QED
    BY <2>1, <2>2, LinkCriterion
<1> QED
  BY <1>1, InvHolds, PTL

\* Rows are read only for a request during which the account was an admin.
THEOREM OnlyAdminsList == Spec => []ListedToAdmins
<1>1. Inv => ListedToAdmins
  BY DEF Inv
<1> QED
  BY <1>1, InvHolds, PTL
=============================================================================
