----------------------------- MODULE BffSession -----------------------------
(***************************************************************************)
(* The session of a browser at the Next server (lib/auth.ts, lib/api.ts,   *)
(* app/actions): a sealed cookie that holds the two tokens of a backend    *)
(* session.  Every request works on the copy it came with, calls the       *)
(* backend, and may send a cookie back; other requests of the browser do   *)
(* the same meanwhile, and answers arrive in any order.                    *)
(*                                                                         *)
(* The backend is SessionLifecycle, which SessionStore implements; the     *)
(* generation of a refresh token tells the redeemable one from those that  *)
(* were rotated.  Lifetimes are kept as remaining ticks.                   *)
(*                                                                         *)
(* A definition whose name ends in Slip is a mistake one could make in the *)
(* code: no action uses it.                                                *)
(***************************************************************************)
EXTENDS Naturals

CONSTANTS
    Users, Sids, NONE,  \* as in SessionLifecycle
    Procs,              \* requests of the browser in flight at the same time
    RendersWrite,       \* may a page render set cookies?  Next: only actions may
    AccessTTL,          \* JWT_ACCESS_TTL_SECONDS
    Leeway,             \* the tolerance of verify_access_token
    Skew,               \* REFRESH_SKEW_MS
    ApiTimeout,         \* API_TIMEOUT_MS
    MaxGen              \* bound on the rotations of one session

ASSUME NoneAssumption == NONE \notin Users \cup Sids

\* The skew of the code is three times its API timeout (30 s and 10 s).
ASSUME SkewAssumption ==
    /\ RendersWrite \in BOOLEAN
    /\ AccessTTL \in Nat /\ Leeway \in Nat /\ Skew \in Nat /\ ApiTimeout \in Nat
    /\ Skew >= 2 * ApiTimeout
    /\ AccessTTL > Skew
    /\ MaxGen \in Nat

VARIABLES
    live, retired, chain,  \* the backend (SessionLifecycle)
    gen,                   \* the generation of the last refresh token issued
    jar,                   \* the sealed cookie in the browser
    req                    \* the requests in flight, and their answers

backend == <<live, retired, chain>>
vars == <<backend, gen, jar, req>>

Backend == INSTANCE SessionLifecycle

-----------------------------------------------------------------------------
\* A sealed session: believed counts down to accessTokenExpiresAt, left to the
\* moment from which the backend refuses the access token.
Sealed(s, g, believed, left) ==
    [sid |-> s, gen |-> g, believed |-> believed, left |-> left]
NoSeal == Sealed(NONE, 0, 0, 0)
Seal == [sid      : Sids,
         gen      : 0..MaxGen,
         believed : 0..AccessTTL,
         left     : 0..(AccessTTL + Leeway)] \cup {NoSeal}

Kinds == {"page", "profile", "login", "logout"}

\* A request awaits the backend, or its answer is on the way to the browser.
Waiting == {"login", "refresh", "renew", "issued", "call", "logout", "end"}
Answered == {"data", "signed_in", "signed_out", "to_login", "error"}

\* seal is the session object of the request, out what its answer does to the
\* cookie, entitled whether the session was active when the request was sent.
Request == [kind     : Kinds,
            pc       : {"idle"} \cup Waiting \cup Answered,
            seal     : Seal,
            out      : {"keep", "set", "clear"},
            age      : 0..ApiTimeout,
            entitled : BOOLEAN]

TypeOK ==
    /\ live \in [Sids -> Users \cup {NONE}]
    /\ retired \subseteq Sids
    /\ chain \in [Sids -> {"token", "held", "none"}]
    /\ gen \in [Sids -> 0..MaxGen]
    /\ jar \in Seal
    /\ req \in [Procs -> Request]
    /\ \A p \in Procs : req[p].pc \in Waiting \ {"login"} => req[p].seal.sid \in Sids

At(p, pc) == req[p].pc = pc
Sid(p) == req[p].seal.sid

State(kind, pc, seal, out, age, entitled) ==
    [kind |-> kind, pc |-> pc, seal |-> seal, out |-> out, age |-> age,
     entitled |-> entitled]
Idle == State("page", "idle", NoSeal, "keep", 0, FALSE)

Go(p, pc, seal, out, age) ==
    req' = [req EXCEPT ![p] =
                State(req[p].kind, pc, seal, out, age, req[p].entitled)]
\* The next call of the same request; the same call, further on; an answer.
Calls(p, pc) == Go(p, pc, req[p].seal, req[p].out, 0)
Advance(p, pc) == Go(p, pc, req[p].seal, req[p].out, req[p].age)
\* Of the seal, an answer that does not save it keeps the name of the session.
Answer(p, pc, out) ==
    Go(p, pc, IF out = "set" THEN req[p].seal ELSE Sealed(Sid(p), 0, 0, 0), out, 0)

MayWrite(p) == req[p].kind # "page" \/ RendersWrite

\* session.destroy() and a redirection to the login page.  In a render that may
\* not set cookies destroy throws, and the error page is shown instead.
Destroy(p) ==
    IF MayWrite(p) THEN Answer(p, "to_login", "clear") ELSE Answer(p, "error", "keep")

\* The refresh token of the request is the one the backend would redeem.
Redeemable(p) == chain[Sid(p)] = "token" /\ gen[Sid(p)] = req[p].seal.gen

\* AuthUser accepts the access token: it has not expired, its session is active.
AcceptedByTokenSlip(p) == req[p].seal.left > 0
Accepted(p) == req[p].seal.left > 0 /\ live[Sid(p)] # NONE

\* getAuthContext uses the access token as it is.
FreshSlip(seal) == seal.believed > 0
Fresh(seal) == seal.believed > Skew

\* The backend issues generation g, with a new access token.
IssueMillisSlip(p, s, g) ==
    Go(p, "issued", Sealed(s, g, 0, 1000 * AccessTTL), req[p].out, req[p].age)
Issue(p, s, g) ==
    Go(p, "issued", Sealed(s, g, 0, AccessTTL + Leeway), req[p].out, req[p].age)

-----------------------------------------------------------------------------
(* The browser and the Next server.                                        *)

Init ==
    /\ Backend!Init
    /\ gen = [s \in Sids |-> 0]
    /\ jar = NoSeal
    /\ req = [p \in Procs |-> Idle]

\* A form is submitted to loginAction or registerAction, whatever the cookie is.
SendLogin(p) ==
    /\ At(p, "idle")
    /\ req' = [req EXCEPT ![p] = State("login", "login", NoSeal, "keep", 0, FALSE)]
    /\ UNCHANGED <<backend, gen, jar>>

\* A page of the protected area is rendered (proxy, then requireAuth), or
\* updateProfileAction runs; without a session both only redirect to the login.
SendProtected(p, kind) ==
    /\ At(p, "idle")
    /\ jar # NoSeal
    /\ req' = [req EXCEPT ![p] = State(kind,
                                       IF Fresh(jar) THEN "call" ELSE "refresh",
                                       jar, "keep", 0, live[jar.sid] # NONE)]
    /\ UNCHANGED <<backend, gen, jar>>

\* logoutAction; without a session there is nothing to revoke.
SendLogout(p) ==
    /\ At(p, "idle")
    /\ jar # NoSeal
    /\ req' = [req EXCEPT ![p] = State("logout", "logout", jar, "keep", 0,
                                       live[jar.sid] # NONE)]
    /\ UNCHANGED <<backend, gen, jar>>

\* establishSession, once the answer of a login or a refresh is there: the
\* expiry is counted from now, and the session saved.  In a render that may not
\* set cookies save throws, and so does destroy in the handler of that error.
Establish(p) ==
    LET seal == Sealed(Sid(p), req[p].seal.gen, AccessTTL, req[p].seal.left) IN
    /\ At(p, "issued")
    /\ \/ /\ MayWrite(p)
          /\ Go(p, IF req[p].kind = "login" THEN "signed_in" ELSE "call",
                seal, "set", 0)
       \/ /\ ~MayWrite(p)
          /\ Answer(p, "error", "keep")
    /\ UNCHANGED <<backend, gen, jar>>

\* The answer reaches the browser, which applies its Set-Cookie.
Deliver(p) ==
    /\ req[p].pc \in Answered
    /\ jar' = CASE req[p].out = "set"   -> req[p].seal
                [] req[p].out = "clear" -> NoSeal
                [] req[p].out = "keep"  -> jar
    /\ req' = [req EXCEPT ![p] = Idle]
    /\ UNCHANGED <<backend, gen>>

\* The answer is lost, or nobody waits for it any more.
Lose(p) ==
    /\ req[p].pc \in Answered
    /\ req' = [req EXCEPT ![p] = Idle]
    /\ UNCHANGED <<backend, gen, jar>>

-----------------------------------------------------------------------------
(* What the backend does for a request.                                    *)

\* login or register succeeds: a new session.  The one the browser had, if any,
\* is left as it is.
LoginOpens(p, u, s) ==
    /\ At(p, "login")
    /\ Backend!Open(u, s)
    /\ gen' = [gen EXCEPT ![s] = 0]
    /\ Issue(p, s, 0)
    /\ UNCHANGED jar

\* refresh, GETDEL.  A token that is not redeemable gives 401, and
\* getAuthContext destroys the session.
RefreshTakes(p) ==
    /\ At(p, "refresh")
    /\ \/ /\ Redeemable(p)
          /\ Backend!Redeem(Sid(p))
          /\ Advance(p, "renew")
       \/ /\ ~Redeemable(p)
          /\ Destroy(p)
          /\ UNCHANGED backend
    /\ UNCHANGED <<gen, jar>>

\* refresh, the new token.
RefreshRenews(p) ==
    /\ At(p, "renew")
    /\ gen[Sid(p)] < MaxGen
    /\ Backend!Renew(Sid(p))
    /\ gen' = [gen EXCEPT ![Sid(p)] = @ + 1]
    /\ Issue(p, Sid(p), gen[Sid(p)] + 1)
    /\ UNCHANGED jar

\* refresh, the session has ended: 401.
RefreshFindsDead(p) ==
    /\ At(p, "renew")
    /\ live[Sid(p)] = NONE
    /\ Backend!Lapse({}, {Sid(p)})
    /\ Destroy(p)
    /\ UNCHANGED <<gen, jar>>

\* GET or PATCH /users/me with the access token.  The action saves the session
\* it came with, whose profile has changed; 401 destroys it.
CallAnswered(p) ==
    /\ At(p, "call")
    /\ \/ /\ Accepted(p)
          /\ Answer(p, "data", IF req[p].kind = "profile" THEN "set" ELSE req[p].out)
       \/ /\ ~Accepted(p)
          /\ Destroy(p)
    /\ UNCHANGED <<backend, gen, jar>>

\* logout, GETDEL: 204 whether or not the token was there.
LogoutTakes(p) ==
    /\ At(p, "logout")
    /\ \/ /\ Redeemable(p)
          /\ Backend!Redeem(Sid(p))
          /\ Advance(p, "end")
       \/ /\ ~Redeemable(p)
          /\ Answer(p, "signed_out", "clear")
          /\ UNCHANGED backend
    /\ UNCHANGED <<gen, jar>>

\* logout, the deletion of the session.
Ending(s) == IF live[s] = NONE THEN {} ELSE {s}
LogoutEnds(p) ==
    /\ At(p, "end")
    /\ Backend!Lapse(Ending(Sid(p)), {Sid(p)})
    /\ Answer(p, "signed_out", "clear")
    /\ UNCHANGED <<gen, jar>>

\* The backend answers 5xx, cannot be reached, or not in time.  What it was about
\* to do for this request happens all the same, or never does.
Aftermath(p) ==
    \/ UNCHANGED <<backend, gen>>
    \/ /\ At(p, "renew")
       /\ gen[Sid(p)] < MaxGen
       /\ Backend!Renew(Sid(p))
       /\ gen' = [gen EXCEPT ![Sid(p)] = @ + 1]
    \/ /\ At(p, "end")
       /\ Backend!Lapse(Ending(Sid(p)), {Sid(p)})
       /\ UNCHANGED gen
ApiFails(p) ==
    /\ req[p].pc \in Waiting
    /\ Aftermath(p)
    /\ IF req[p].kind = "login" \/ At(p, "call")
       THEN Answer(p, "error", req[p].out)
       ELSE Destroy(p)
    /\ UNCHANGED jar

\* The session ends otherwise: revoked from another device, or expired.
EndElsewhere(s) ==
    /\ live[s] # NONE
    /\ Backend!Lapse({s}, IF chain[s] = "token" THEN {s} ELSE {})
    /\ UNCHANGED <<gen, jar, req>>

-----------------------------------------------------------------------------
\* One tick for a sealed session.
Less(n) == IF n = 0 THEN 0 ELSE n - 1
Older(seal) == Sealed(seal.sid, seal.gen, Less(seal.believed), Less(seal.left))

\* Calls that have reached the timeout were given up before.
Tick ==
    /\ \A p \in Procs : req[p].pc \in Waiting => req[p].age < ApiTimeout
    /\ jar' = Older(jar)
    /\ req' = [p \in Procs |->
                  State(req[p].kind, req[p].pc, Older(req[p].seal), req[p].out,
                        IF req[p].pc \in Waiting THEN req[p].age + 1 ELSE 0,
                        req[p].entitled)]
    /\ UNCHANGED <<backend, gen>>

Serve(p) ==
    \/ SendLogin(p) \/ SendLogout(p)
    \/ \E kind \in {"page", "profile"} : SendProtected(p, kind)
    \/ \E u \in Users, s \in Sids : LoginOpens(p, u, s)
    \/ RefreshTakes(p) \/ RefreshRenews(p) \/ RefreshFindsDead(p)
    \/ Establish(p) \/ CallAnswered(p)
    \/ LogoutTakes(p) \/ LogoutEnds(p)
    \/ ApiFails(p) \/ Deliver(p) \/ Lose(p)

Next ==
    \/ \E p \in Procs : Serve(p)
    \/ \E s \in Sids : EndElsewhere(s)
    \/ Tick

Spec == Init /\ [][Next]_vars

-----------------------------------------------------------------------------
(* Properties.                                                             *)

\* The skew covers the delays on both sides: an access token that getAuthContext
\* has just found good enough, or obtained, has not expired when the backend
\* verifies it, although its expiry was counted from the arrival of the answer.
SkewCovers == \A p \in Procs : At(p, "call") => req[p].seal.left > 0

\* A request sent after its session had ended is never answered with data,
\* whatever the cookie, the access token and the rotations in flight are.
RevokedSeesNothing == \A p \in Procs : At(p, "data") => req[p].entitled

\* What the documentation says of logout: the backend has answered, and the
\* session is over (unless another request of it was under way).  The presented
\* token may be one that was rotated.
LogoutRevokes ==
    \A p \in Procs :
        At(p, "signed_out") => live[Sid(p)] = NONE \/ chain[Sid(p)] = "held"

\* What the documentation says of a refresh that fails: the cookie is cleared and
\* the user sent to the login page.
FailedRefreshToLogin ==
    [][\A p \in Procs :
           req[p].pc \in {"refresh", "renew", "issued"} /\ req[p].kind # "login"
           /\ req'[p].pc \in Answered
           => req'[p].pc = "to_login" /\ req'[p].out = "clear"]_vars
=============================================================================
