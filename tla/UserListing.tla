---------------------------- MODULE UserListing -----------------------------
(***************************************************************************)
(* The listing of the accounts: handlers/admin.rs list_users over db and   *)
(* models/pagination.rs, and the admin page of the frontend that walks     *)
(* through it with its link to the next page.                              *)
(*                                                                         *)
(* An answer comes from three statements (the role of the caller, the rows *)
(* of the page, the number of rows) outside of any transaction, and a walk *)
(* from many answers; accounts are inserted between any two of them.  A    *)
(* row carries the instant its INSERT began, not the one it became visible *)
(* at, and rows of the same instant come in any order, in each query anew. *)
(***************************************************************************)
EXTENDS Integers, FiniteSets

CONSTANTS
    Users,        \* accounts, those to come included
    Admin,        \* the account that lists
    MaxInt,       \* i64::MAX
    MaxPageSize,  \* the largest page_size the endpoint admits
    PageSize,     \* PAGE_SIZE of the admin page
    MaxPage,      \* the largest page number the admin page takes from its URL
    MaxTime       \* bound of the model: last instant of the clock

ASSUME ListingAssumption ==
    /\ IsFiniteSet(Users) /\ Admin \in Users
    /\ MaxInt \in Nat /\ Cardinality(Users) <= MaxInt
    /\ MaxPageSize \in 1..MaxInt /\ PageSize \in 1..MaxPageSize
    /\ MaxPage \in 1..MaxInt
    /\ MaxTime \in Nat

VARIABLES
    clock,
    rows,      \* the rows of the table users
    pending,   \* accounts whose INSERT has begun and is not committed
    created,   \* created_at: now() when the INSERT began
    role,      \* the role of Admin in its row
    jarRole,   \* user.role in the cookie of Admin
    pc,        \* where the request in flight is, or what the client looks at
    browser,   \* whether the request comes from the admin page
    page, size,
    items,     \* the rows of the page, once read
    total,     \* the number of rows, once counted
    linked,    \* history: the page was reached by the link to the next page
    fromTop,   \* history: the walk started at page 1
    start,     \* history: the accounts that existed when the walk started
    seen,      \* history: the accounts the walk has shown
    entitled   \* history: Admin was an admin since the request was sent

table == <<rows, pending, created>>
roles == <<role, jarRole>>
query == <<browser, page, size>>
walk == <<linked, fromTop, start, seen>>
vars == <<clock, rows, pending, created, role, jarRole, pc, browser, page, size,
          items, total, linked, fromTop, start, seen, entitled>>

PC == {"away", "check", "extract", "list", "count", "shown"}

TypeOK ==
    /\ clock \in 0..MaxTime
    /\ rows \subseteq Users /\ pending \subseteq Users
    /\ created \in [Users -> 0..MaxTime]
    /\ role \in {"user", "admin"} /\ jarRole \in {"user", "admin"}
    /\ pc \in PC /\ browser \in BOOLEAN
    /\ page \in 0..MaxInt /\ size \in 0..(MaxPageSize + 1)
    /\ pc \in {"list", "count", "shown"} => page >= 1 /\ size \in 1..MaxPageSize
    /\ items \subseteq Users
    /\ total \in 0..Cardinality(Users)
    /\ linked \in BOOLEAN /\ fromTop \in BOOLEAN /\ entitled \in BOOLEAN
    /\ start \subseteq Users /\ seen \subseteq Users

-----------------------------------------------------------------------------
\* What models/pagination.rs computes from a request.
Least(a, b) == IF a <= b THEN a ELSE b

ValidSlip == page >= 1 /\ size >= 1
Valid == page >= 1 /\ size \in 1..MaxPageSize

\* saturating_sub(1).saturating_mul(page_size), on a page of 1 at least.
OffsetWrapSlip == LET n == ((page - 1) * size) % (2 * (MaxInt + 1))
                  IN IF n > MaxInt THEN n - 2 * (MaxInt + 1) ELSE n
Offset == Least((page - 1) * size, MaxInt)

\* SELECT ... ORDER BY created_at DESC LIMIT size OFFSET Offset: the rows that
\* come after Offset of them in some order that created_at allows.
Precedes(A, B) == \A u \in A, v \in B : created[u] >= created[v]
IsPage(S) ==
    \E before \in SUBSET rows :
        /\ S \subseteq rows \ before
        /\ Cardinality(before) = Least(Offset, Cardinality(rows))
        /\ Cardinality(S) = Least(size, Cardinality(rows \ before))
        /\ Precedes(before, rows \ before)
        /\ Precedes(S, rows \ (before \cup S))

\* SELECT count(*).
CountedStaleSlip == Cardinality(start)
Counted == Cardinality(rows)

\* AdminUser, whose role is the one find_user_by_id has just read.
AdmittedByCookieSlip == jarRole = "admin"
Admitted == role = "admin"

\* The admin page: its number in the URL, and the number of pages it announces.
PageParam(n) == IF n \in 1..MaxPage THEN n ELSE 1
TotalPagesOneMoreSlip == (total \div size) + 1
TotalPages == LET n == (total + size - 1) \div size IN IF n < 1 THEN 1 ELSE n

-----------------------------------------------------------------------------
Init ==
    /\ clock = 0
    /\ rows = {Admin} /\ pending = {}
    /\ created = [u \in Users |-> 0]
    /\ role \in {"user", "admin"} /\ jarRole = role
    /\ pc = "away" /\ browser = FALSE
    /\ page = 0 /\ size = 0
    /\ items = {} /\ total = 0
    /\ linked = FALSE /\ fromTop = FALSE
    /\ start = {} /\ seen = {}
    /\ entitled = FALSE

Tick ==
    /\ clock < MaxTime
    /\ clock' = clock + 1
    /\ UNCHANGED <<table, roles, pc, query, items, total, walk, entitled>>

(* insert_user: one statement, which takes now() when it begins and shows its *)
(* row when it commits; it may fail in between.                               *)
InsertBegins(u) ==
    /\ u \notin rows \cup pending
    /\ pending' = pending \cup {u}
    /\ created' = [created EXCEPT ![u] = clock]
    /\ UNCHANGED <<clock, rows, roles, pc, query, items, total, walk, entitled>>

InsertEnds(u) ==
    /\ u \in pending
    /\ pending' = pending \ {u}
    /\ \/ rows' = rows \cup {u}
       \/ UNCHANGED rows
    /\ UNCHANGED <<clock, created, roles, pc, query, items, total, walk, entitled>>

\* The operator's UPDATE users SET role.
SetRole(r) ==
    /\ role' = r
    /\ entitled' = (entitled \/ r = "admin")
    /\ UNCHANGED <<clock, table, jarRole, pc, query, items, total, walk>>

\* A refresh of the tokens, or an update of the profile: the cookie takes the
\* account as it is now.
RoleRefreshed ==
    /\ jarRole' = role
    /\ UNCHANGED <<clock, table, role, pc, query, items, total, walk, entitled>>

-----------------------------------------------------------------------------
Send(place, fromPage, p, s) ==
    /\ pc' = place /\ browser' = fromPage
    /\ page' = p /\ size' = s
    /\ items' = {} /\ total' = 0
    /\ entitled' = (role = "admin")
    /\ UNCHANGED <<clock, table, roles>>

\* The admin page, at an address that was typed or kept, or that the link to the
\* previous page holds: a new walk.
Visit(p) ==
    /\ pc \in {"away", "shown"}
    /\ Send("check", TRUE, PageParam(p), PageSize)
    /\ linked' = FALSE
    /\ fromTop' = (PageParam(p) = 1)
    /\ start' = rows /\ seen' = {}

\* The link to the next page.
Follow ==
    /\ pc = "shown" /\ browser /\ page < TotalPages
    /\ Send("check", TRUE, PageParam(page + 1), PageSize)
    /\ linked' = TRUE
    /\ UNCHANGED <<fromTop, start, seen>>

\* A client of the API, with any page and page size.
Call(p, s) ==
    /\ pc \in {"away", "shown"}
    /\ Send("extract", FALSE, p, s)
    /\ linked' = FALSE /\ fromTop' = FALSE
    /\ start' = {} /\ seen' = {}

\* The client is left without a page, and the walk is over.
Leave ==
    /\ pc' = "away" /\ browser' = FALSE
    /\ page' = 0 /\ size' = 0
    /\ items' = {} /\ total' = 0
    /\ linked' = FALSE /\ fromTop' = FALSE
    /\ start' = {} /\ seen' = {}
    /\ entitled' = FALSE
    /\ UNCHANGED <<clock, table, roles>>

Proceed(place) ==
    /\ pc' = place
    /\ UNCHANGED <<clock, table, roles, query, items, total, walk, entitled>>

\* The test of the cookie's role in the proxy, the layout and the page.
PageGuard ==
    /\ pc = "check"
    /\ \/ jarRole = "admin" /\ Proceed("extract")
       \/ jarRole # "admin" /\ Leave

\* The extractors AdminUser (403) and ValidatedQuery (422).
Extract ==
    /\ pc = "extract"
    /\ \/ Admitted /\ Valid /\ Proceed("list")
       \/ ~(Admitted /\ Valid) /\ Leave

List ==
    /\ pc = "list"
    /\ \E S \in SUBSET rows : IsPage(S) /\ items' = S
    /\ pc' = "count"
    /\ UNCHANGED <<clock, table, roles, query, total, walk, entitled>>

Count ==
    /\ pc = "count"
    /\ total' = Counted
    /\ seen' = seen \cup items
    /\ pc' = "shown"
    /\ UNCHANGED <<clock, table, roles, query, items, linked, fromTop, start, entitled>>

\* A 401, a statement that fails, a timeout.
Fail ==
    /\ pc \in {"check", "extract", "list", "count"}
    /\ Leave

Next ==
    \/ Tick
    \/ \E u \in Users : InsertBegins(u) \/ InsertEnds(u)
    \/ \E r \in {"user", "admin"} : SetRole(r)
    \/ RoleRefreshed
    \/ \E p \in 0..MaxInt : Visit(p)
    \/ Follow
    \/ \E p \in 0..MaxInt, s \in 0..(MaxPageSize + 1) : Call(p, s)
    \/ PageGuard \/ Extract \/ List \/ Count \/ Fail

Spec == Init /\ [][Next]_vars

-----------------------------------------------------------------------------
(* Properties *)

\* The rows of an answer lie within the total of the same answer: whatever is
\* inserted between the two queries of list_users, and however large the page
\* asked for, page (page - 1) * size + items never passes total.
PageWithinTotal ==
    pc = "shown" /\ items # {} => (page - 1) * size + Cardinality(items) <= total

\* The link to the next page never leads to a page without rows: it is offered
\* on the strength of a count that is past by the time it is followed.
NextPageHasRows == pc \in {"count", "shown"} /\ linked => items # {}

\* No other visible row was created at the same instant.
Distinguished(u) == \A v \in rows \ {u} : created[v] # created[u]

\* A walk from page 1 along the links, to the page that offers no next one, has
\* shown every account that existed when it started and whose creation instant
\* is its own: insertions during the walk push rows to pages not read yet, never
\* to those already read.
WalkShowsEveryone ==
    pc = "shown" /\ browser /\ fromTop /\ ~(page < TotalPages)
        => \A u \in start : Distinguished(u) => u \in seen

\* No row is read for a request during which the account was never an admin,
\* whatever role the cookie still claims.
ListedToAdmins == pc \in {"list", "count", "shown"} => entitled
=============================================================================
