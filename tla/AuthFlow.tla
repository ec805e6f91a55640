------------------------------ MODULE AuthFlow ------------------------------
(***************************************************************************)
(* login and register (handlers/auth.rs) and the two counters they keep in *)
(* Redis: the failed logins of an account, which lock it, and the requests *)
(* of an address, which limit it.                                          *)
(*                                                                         *)
(* A handler sends one command at a time and other requests run between    *)
(* two of them: the test of the lock, the verification of the password and *)
(* the recording of a failure are not one atomic step.  Lifetimes are kept *)
(* as remaining ticks, so that time needs no bound.                        *)
(***************************************************************************)
EXTENDS Naturals, FiniteSets

CONSTANTS
    Users,           \* e-mail addresses
    Ips,             \* client addresses ("unknown" is one of them)
    Procs,           \* requests that may be in flight at the same time
    MaxAttempts,     \* LOGIN_MAX_FAILED_ATTEMPTS
    LockWindow,      \* LOGIN_LOCKOUT_SECONDS
    RlMax,           \* AUTH_RATE_LIMIT_MAX
    RlWindow,        \* AUTH_RATE_LIMIT_WINDOW_SECONDS
    RequestTimeout   \* REQUEST_TIMEOUT_SECONDS

\* The configuration raises the quota and its window to 1 at least; it leaves
\* the settings of the lock as they are.
ASSUME LimitsAssumption ==
    /\ MaxAttempts \in Nat
    /\ LockWindow \in Nat
    /\ RlMax \in Nat \ {0}
    /\ RlWindow \in Nat \ {0}
    /\ RequestTimeout \in Nat

ASSUME ProcsAssumption == IsFiniteSet(Procs) /\ Procs # {}

VARIABLES
    accounts,  \* the rows of the table users
    lock,      \* lock:{user_id}, failures and remaining lifetime
    rl,        \* rl:auth:{ip}, requests and remaining lifetime
    req,       \* the local variables of the requests in flight
    admitted,  \* history: for each address and k, those admitted in the last k ticks
    held       \* history: for each account, the ticks that its lock has lasted

vars == <<accounts, lock, rl, req, admitted, held>>

\* Bound: the longest lock that the history tells from a longer one.
LongLock == LockWindow + RequestTimeout

-----------------------------------------------------------------------------
Counter(window) == [n : Nat, ttl : 0..window]
Absent == [n |-> 0, ttl |-> 0]

PC == {"idle", "find_user", "is_locked", "verify", "insert_user", "create"}
Request == [pc : PC, user : Users, age : 0..RequestTimeout]

TypeOK ==
    /\ accounts \subseteq Users
    /\ lock \in [Users -> Counter(LockWindow)]
    /\ rl \in [Ips -> Counter(RlWindow)]
    /\ req \in [Procs -> Request]
    /\ admitted \in [Ips -> [1..RlWindow -> Nat]]
    /\ held \in [Users -> 0..LongLock]

At(p, pc) == req[p].pc = pc
Call(pc, user, age) == [pc |-> pc, user |-> user, age |-> age]
Goto(p, pc) == req' = [req EXCEPT ![p] = Call(pc, req[p].user, req[p].age)]
\* The request is over: its handler has answered, or was dropped.
Leave(p) == req' = [req EXCEPT ![p] = Call("idle", req[p].user, 0)]

\* INCR and EXPIRE in one MULTI; EXPIRE 0 deletes the key.
Armed(n, window) == IF window = 0 THEN Absent ELSE [n |-> n, ttl |-> window]

\* One tick for a key: it goes when its lifetime is over, and a key that was
\* given no deadline stays.
Elapsed(c) ==
    CASE c.ttl = 0 -> c
      [] c.ttl = 1 -> Absent
      [] OTHER     -> [n |-> c.n, ttl |-> c.ttl - 1]

\* record_login_failure.
CountedFailureUnarmedSlip(u) == [n |-> lock[u].n + 1, ttl |-> 0]
CountedFailureMillisSlip(u) == Armed(lock[u].n + 1, 1000 * LockWindow)
CountedFailure(u) == Armed(lock[u].n + 1, LockWindow)

\* is_locked.
LockedSlip(u) == lock[u].n > MaxAttempts
Locked(u) == lock[u].n >= MaxAttempts

\* auth_rate_limit_ok: the counter it leaves and its answer.  Past the quota all
\* values answer alike: the count stops at RlMax + 1.
CountedFixedSlip(ip) ==
    IF rl[ip].n = 0 THEN Armed(1, RlWindow)
    ELSE [rl[ip] EXCEPT !.n = IF @ > RlMax THEN @ ELSE @ + 1]
CountedRequest(ip) ==
    Armed(IF rl[ip].n > RlMax THEN rl[ip].n ELSE rl[ip].n + 1, RlWindow)
WithinQuota(ip) == CountedRequest(ip).n <= RlMax

\* History: one more request admitted in this tick; a tick later.
OneMore(counts) == [k \in 1..RlWindow |-> counts[k] + 1]
Shifted(counts) == [k \in 1..RlWindow |-> IF k = 1 THEN 0 ELSE counts[k - 1]]

\* History: the locks that are still there have lasted so many ticks more.
Hold(ticks) ==
    held' = [u \in Users |->
                CASE ~Locked(u)'                          -> 0
                  [] Locked(u)' /\ held[u] < LongLock     -> held[u] + ticks
                  [] Locked(u)' /\ ~(held[u] < LongLock)  -> held[u]]

-----------------------------------------------------------------------------
(* Operations.                                                             *)

Init ==
    /\ accounts = {}
    /\ lock = [u \in Users |-> Absent]
    /\ rl = [ip \in Ips |-> Absent]
    /\ req \in [Procs -> {r \in Request : r.pc = "idle" /\ r.age = 0}]
    /\ admitted = [ip \in Ips |-> [k \in 1..RlWindow |-> 0]]
    /\ held = [u \in Users |-> 0]

\* enforce_auth_rate_limit, the first command of login and of register: past
\* the quota the answer is 429.
Arrive(p, u, ip, pc) ==
    /\ At(p, "idle")
    /\ rl' = [rl EXCEPT ![ip] = CountedRequest(ip)]
    /\ \/ /\ WithinQuota(ip)
          /\ req' = [req EXCEPT ![p] = Call(pc, u, 0)]
          /\ admitted' = [admitted EXCEPT ![ip] = OneMore(@)]
       \/ /\ ~WithinQuota(ip)
          /\ UNCHANGED <<req, admitted>>
    /\ UNCHANGED <<accounts, lock, held>>
Login(p, u, ip) == Arrive(p, u, ip, "find_user")
Register(p, u, ip) == Arrive(p, u, ip, "insert_user")

\* login, find_user_by_email: an unknown address gets 401.
FindUser(p) ==
    /\ At(p, "find_user")
    /\ IF req[p].user \in accounts THEN Goto(p, "is_locked") ELSE Leave(p)
    /\ UNCHANGED <<accounts, lock, rl, admitted, held>>

\* login, is_locked: a locked account gets 429, and the counter is not touched.
IsLockedCountingSlip(p) ==
    /\ At(p, "is_locked")
    /\ \/ /\ Locked(req[p].user)
          /\ lock' = [lock EXCEPT ![req[p].user] = CountedFailure(req[p].user)]
          /\ Hold(0)
          /\ Leave(p)
       \/ /\ ~Locked(req[p].user)
          /\ Goto(p, "verify")
          /\ UNCHANGED <<lock, held>>
    /\ UNCHANGED <<accounts, rl, admitted>>
IsLocked(p) ==
    /\ At(p, "is_locked")
    /\ IF Locked(req[p].user) THEN Leave(p) ELSE Goto(p, "verify")
    /\ UNCHANGED <<accounts, lock, rl, admitted, held>>

\* login, the password was wrong: record_login_failure and 401.
RecordFailure(p) ==
    /\ At(p, "verify")
    /\ lock' = [lock EXCEPT ![req[p].user] = CountedFailure(req[p].user)]
    /\ Hold(0)
    /\ Leave(p)
    /\ UNCHANGED <<accounts, rl, admitted>>

\* login, the password was right: clear_login_failures.
ClearFailures(p) ==
    /\ At(p, "verify")
    /\ lock' = [lock EXCEPT ![req[p].user] = Absent]
    /\ Hold(0)
    /\ Goto(p, "create")
    /\ UNCHANGED <<accounts, rl, admitted>>

\* register, insert_user: an address that has an account gets 409.
InsertUser(p) ==
    /\ At(p, "insert_user")
    /\ IF req[p].user \in accounts THEN Leave(p) ELSE Goto(p, "create")
    /\ accounts' = accounts \cup {req[p].user}
    /\ UNCHANGED <<lock, rl, admitted, held>>

\* start_session: the session store creates a session (SessionStore!Create).
StartSession(p) ==
    /\ At(p, "create")
    /\ Leave(p)
    /\ UNCHANGED <<accounts, lock, rl, admitted, held>>

\* The handler fails (500, 503) or its future is dropped: nothing is undone, and
\* an account may be left without the session that register was to open.
Abort(p) ==
    /\ ~At(p, "idle")
    /\ Leave(p)
    /\ UNCHANGED <<accounts, lock, rl, admitted, held>>

TimeOut(p) == req[p].age = RequestTimeout /\ Abort(p)

\* One tick, before which the requests that reached the timeout were dropped.
Tick ==
    /\ \A p \in Procs : At(p, "idle") \/ req[p].age < RequestTimeout
    /\ lock' = [u \in Users |-> Elapsed(lock[u])]
    /\ Hold(1)
    /\ rl' = [ip \in Ips |-> Elapsed(rl[ip])]
    /\ req' = [p \in Procs |-> IF At(p, "idle") THEN req[p]
                               ELSE Call(req[p].pc, req[p].user, req[p].age + 1)]
    /\ admitted' = [ip \in Ips |-> Shifted(admitted[ip])]
    /\ UNCHANGED accounts

Step(p) ==
    \/ FindUser(p) \/ IsLocked(p) \/ RecordFailure(p) \/ ClearFailures(p)
    \/ InsertUser(p) \/ StartSession(p) \/ Abort(p)

Next ==
    \/ \E p \in Procs, u \in Users, ip \in Ips :
           Login(p, u, ip) \/ Register(p, u, ip)
    \/ \E p \in Procs : Step(p)
    \/ Tick

\* Time passes, and the timeout layer drops the requests that reach it.
Fairness == WF_vars(Tick) /\ \A p \in Procs : WF_vars(TimeOut(p))

Spec == Init /\ [][Next]_vars /\ Fairness

-----------------------------------------------------------------------------
(* Properties.                                                             *)

\* The logins of u that have passed the test of the lock and not yet answered.
Verifying(u) == {p \in Procs : At(p, "verify") /\ req[p].user = u}

\* The lock is tested before the password and counted after it, so concurrent
\* logins overshoot the limit; by no more than the other requests in flight.
LockOvershoot ==
    \A u \in Users :
        lock[u].n + Cardinality(Verifying(u)) <= MaxAttempts + Cardinality(Procs) - 1

\* No account stays locked for ever, whatever the attempts made on it: this is
\* what arming the deadline in the MULTI of the count is for.
LockLifts == \A u \in Users : []<>~Locked(u)

\* Nor for longer than the lockout and one request take: attempts on a locked
\* account are refused uncounted, so that only the logins that were past the test
\* when the lock began can arm it again.
LockEnds ==
    MaxAttempts > 0 =>
        \A u \in Users : Locked(u) => held[u] < LongLock

\* Any RlWindow consecutive ticks admit at most RlMax requests of an address:
\* the quota has no boundary at which two windows add up.
QuotaHolds == \A ip \in Ips : admitted[ip][RlWindow] <= RlMax
=============================================================================
