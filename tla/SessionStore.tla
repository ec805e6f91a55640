---------------------------- MODULE SessionStore ----------------------------
(***************************************************************************)
(* The Redis session store of the backend (session/store.rs) under         *)
(* concurrent requests.                                                    *)
(*                                                                         *)
(* Redis executes one command, or one MULTI block, at a time: each of them *)
(* is one atomic action here.  A store operation is a sequence of such     *)
(* commands with an await point between any two of them, where other       *)
(* requests run, the clock advances, and where the handler's future may be *)
(* dropped (the request timeout, a client that goes away, a Redis error,   *)
(* a crash of the process).                                                *)
(*                                                                         *)
(* Expiry is a deadline kept beside each key; Tick removes every key whose *)
(* deadline has come, which is what a later command would observe.         *)
(***************************************************************************)
EXTENDS Naturals

CONSTANTS
    Users,           \* account identifiers (user_id)
    Sids,            \* session identifiers a run may draw (Uuid::new_v4)
    Tokens,          \* refresh-token hashes a run may draw
    Procs,           \* requests that may be in flight at the same time
    NONE,            \* nil: an absent key, field or variable
    IdleTTL,         \* REFRESH_TTL_SECONDS, the sliding lifetime
    AbsTTL,          \* SESSION_ABSOLUTE_TTL_SECONDS, the cap
    RequestTimeout,  \* REQUEST_TIMEOUT_SECONDS, after which a request is dropped
    MaxTime          \* bound on the clock

ASSUME NoneAssumption ==
    /\ NONE \notin Users
    /\ NONE \notin Sids
    /\ NONE \notin Tokens

ASSUME TimeAssumption ==
    /\ IdleTTL \in Nat \ {0}
    /\ AbsTTL \in Nat \ {0}
    /\ RequestTimeout \in Nat
    /\ MaxTime \in Nat

VARIABLES
    now,     \* the clock, in ticks
    sess,    \* sess:{sid}, a hash with a deadline
    rt,      \* rt:{hash}, the session a refresh token redeems, with a deadline
    usess,   \* usess:{uid}, the set of a user's session ids, with a deadline
    req,     \* the local variables of the requests in flight
    born,    \* session ids drawn so far (a UUID is never drawn twice)
    minted,  \* refresh tokens drawn so far (256 random bits, never drawn twice)
    owed,    \* history: the sessions a revocation in progress has to end
    revoked  \* history: the sessions that completed revocations had to end

keys == <<sess, rt, usess>>
vars == <<now, sess, rt, usess, req, born, minted, owed, revoked>>

-----------------------------------------------------------------------------
(* Keys, absent keys and local variables.                                  *)

\* The fields of the hash the store decides on (last_seen, ua and ip are shown
\* to the user only).  A rotation that lost a race leaves a hash with rth alone.
Hash == [user_id    : Users \cup {NONE},
         created_at : 0..MaxTime,
         rth        : Tokens \cup {NONE},
         exp        : 0..(MaxTime + IdleTTL)]
NoHash == [user_id |-> NONE, created_at |-> 0, rth |-> NONE, exp |-> 0]

Ref == [sid : Sids \cup {NONE}, exp : 0..(MaxTime + IdleTTL)]
NoRef == [sid |-> NONE, exp |-> 0]

Index == [members : SUBSET Sids, exp : 0..(MaxTime + AbsTTL)]
NoIndex == [members |-> {}, exp |-> 0]

\* pc names the command the request sends next.
PC == {"idle", "rotate_hgetall", "rotate_multi", "logout_hget", "revoke_hget",
       "others_smembers", "list_smembers", "list_hgetall", "list_srem",
       "delete_hget", "delete_multi"}
Request == [pc    : PC,
            user  : Users \cup {NONE},
            sid   : Sids \cup {NONE},
            rth   : Tokens \cup {NONE},
            todo  : SUBSET Sids,
            since : 0..MaxTime]
\* A request about to send the command pc, and one about to send delete's MULTI.
Call(pc, user, sid, todo, since) ==
    [pc |-> pc, user |-> user, sid |-> sid, rth |-> NONE, todo |-> todo,
     since |-> since]
Deletion(user, sid, rth, todo, since) ==
    [pc |-> "delete_multi", user |-> user, sid |-> sid, rth |-> rth,
     todo |-> todo, since |-> since]
Idle == Call("idle", NONE, NONE, {}, 0)

\* The variables the next command reads are set.
Ready(r) ==
    /\ r.pc \notin {"idle", "delete_hget", "list_hgetall"} => r.sid \in Sids
    /\ r.pc \notin {"idle", "rotate_hgetall", "logout_hget"} => r.user \in Users

TypeOK ==
    /\ now \in 0..MaxTime
    /\ sess \in [Sids -> Hash]
    /\ rt \in [Tokens -> Ref]
    /\ usess \in [Users -> Index]
    /\ req \in [Procs -> Request]
    /\ \A p \in Procs : Ready(req[p])
    /\ born \subseteq Sids
    /\ minted \subseteq Tokens
    /\ owed \in [Procs -> SUBSET Sids]
    /\ revoked \subseteq Sids

\* owner_if_active answers for s: the hash exists and carries a user_id.
Active(s) == sess[s].user_id # NONE

At(p, pc) == req[p].pc = pc

\* The handler returns: what its operation had to end is promised from now on.
Return(p, sids) ==
    /\ req' = [req EXCEPT ![p] = Idle]
    /\ owed' = [owed EXCEPT ![p] = {}]
    /\ revoked' = revoked \cup sids
Finish(p) == Return(p, owed[p])
Goto(p, r) ==
    /\ req' = [req EXCEPT ![p] = r]
    /\ UNCHANGED <<owed, revoked>>
\* The same, for an operation that now knows which sessions it has to end.
GotoOwing(p, r, sids) ==
    /\ req' = [req EXCEPT ![p] = r]
    /\ owed' = [owed EXCEPT ![p] = sids]
    /\ UNCHANGED revoked

-----------------------------------------------------------------------------
(* What the commands do to a key.  A definition whose name ends in Slip is a *)
(* mistake one could make in the code: no action uses it, it is there to     *)
(* confirm that a property below would notice.                               *)

\* GETDEL rt:{hash}.
GetDelSlip(t) == rt
GetDel(t) == [rt EXCEPT ![t] = NoRef]

\* HSET last_seen, rth and EXPIRE, in the MULTI of a rotation.  The hash is
\* recreated when it has gone in the meantime, and then has no user_id.
RotatedFullHashSlip(p, t) == [user_id |-> req[p].user, created_at |-> now,
                              rth |-> t, exp |-> now + IdleTTL]
RotatedStaleRthSlip(p, t) == [sess[req[p].sid] EXCEPT !.exp = now + IdleTTL]
RotatedAbsoluteSlip(p, t) ==
    [sess[req[p].sid] EXCEPT !.rth = t, !.exp = now + AbsTTL]
RotatedHash(p, t) ==
    [sess[req[p].sid] EXCEPT !.rth = t, !.exp = now + IdleTTL]

\* EXPIRE usess:{uid} in the MULTI of a rotation; an absent index stays absent.
ExtendedIndexSlip(u) == usess[u]
ExtendedIndex(u) ==
    IF usess[u].members = {} THEN NoIndex
    ELSE [usess[u] EXCEPT !.exp = now + AbsTTL]

\* SADD and EXPIRE usess:{uid} in the MULTI of create.
IndexWithMillisSlip(u, s) == [members |-> usess[u].members \cup {s},
                              exp |-> now + 1000 * AbsTTL]
IndexWithForgottenSlip(u, s) == [members |-> {s}, exp |-> now + AbsTTL]
IndexWith(u, s) == [members |-> usess[u].members \cup {s},
                    exp |-> now + AbsTTL]

\* The test of the cap in rotate.
PastCap(s) == now - sess[s].created_at > AbsTTL

\* The test of revoke: the sid names an active session of this user.
OwnedBySlip(s, u) == Active(s)
OwnedBy(s, u) == sess[s].user_id = u

\* SREM, after which Redis drops a set that has become empty.
Remove(index, s) ==
    IF index.members \subseteq {s}
    THEN NoIndex
    ELSE [index EXCEPT !.members = @ \ {s}]

-----------------------------------------------------------------------------
(* Operations.                                                             *)

Init ==
    /\ now = 0
    /\ sess = [s \in Sids |-> NoHash]
    /\ rt = [t \in Tokens |-> NoRef]
    /\ usess = [u \in Users |-> NoIndex]
    /\ req = [p \in Procs |-> Idle]
    /\ born = {}
    /\ minted = {}
    /\ owed = [p \in Procs |-> {}]
    /\ revoked = {}

\* create: one MULTI writes the hash, the refresh token and the index entry,
\* and arms the three deadlines.
Create(u, s, t) ==
    /\ s \notin born
    /\ t \notin minted
    /\ sess' = [sess EXCEPT ![s] = [user_id |-> u, created_at |-> now,
                                    rth |-> t, exp |-> now + IdleTTL]]
    /\ rt' = [rt EXCEPT ![t] = [sid |-> s, exp |-> now + IdleTTL]]
    /\ usess' = [usess EXCEPT ![u] = IndexWith(u, s)]
    /\ born' = born \cup {s}
    /\ minted' = minted \cup {t}
    /\ UNCHANGED <<now, req, owed, revoked>>

\* rotate, GETDEL of the presented token.  A token that is not there (unknown,
\* already rotated, expired) gives Ok(None) and changes nothing.
RotateGetDel(p, t) ==
    /\ At(p, "idle")
    /\ rt[t].sid # NONE
    /\ rt' = GetDel(t)
    /\ Goto(p, Call("rotate_hgetall", NONE, rt[t].sid, {}, now))
    /\ UNCHANGED <<now, sess, usess, born, minted>>

\* rotate, HGETALL and the tests on its answer: no user_id gives Ok(None), a
\* session past the cap is deleted, any other goes on to the new token.
RotateHGetAll(p) ==
    LET s == req[p].sid IN
    /\ At(p, "rotate_hgetall")
    /\ \/ /\ ~Active(s)
          /\ Finish(p)
       \/ /\ Active(s)
          /\ PastCap(s)
          /\ Goto(p, Call("delete_hget", sess[s].user_id, NONE, {s},
                       req[p].since))
       \/ /\ Active(s)
          /\ ~PastCap(s)
          /\ Goto(p, Call("rotate_multi", sess[s].user_id, s, {}, req[p].since))
    /\ UNCHANGED <<now, keys, born, minted>>

\* rotate, the MULTI that installs the new token and extends the session.
RotateMulti(p, t) ==
    LET s == req[p].sid
        u == req[p].user
    IN
    /\ At(p, "rotate_multi")
    /\ t \notin minted
    /\ rt' = [rt EXCEPT ![t] = [sid |-> s, exp |-> now + IdleTTL]]
    /\ sess' = [sess EXCEPT ![s] = RotatedHash(p, t)]
    /\ usess' = [usess EXCEPT ![u] = ExtendedIndex(u)]
    /\ minted' = minted \cup {t}
    /\ Finish(p)
    /\ UNCHANGED <<now, born>>

\* logout, GETDEL of the presented token; nothing to do when it is not there.
LogoutGetDel(p, t) ==
    /\ At(p, "idle")
    /\ rt[t].sid # NONE
    /\ rt' = GetDel(t)
    /\ GotoOwing(p, Call("logout_hget", NONE, rt[t].sid, {}, now), {rt[t].sid})
    /\ UNCHANGED <<now, sess, usess, born, minted>>

\* logout, HGET user_id (owner_if_active).
LogoutHGet(p) ==
    LET s == req[p].sid IN
    /\ At(p, "logout_hget")
    /\ \/ /\ ~Active(s)
          /\ Finish(p)
       \/ /\ Active(s)
          /\ Goto(p, Call("delete_hget", sess[s].user_id, NONE, {s},
                       req[p].since))
    /\ UNCHANGED <<now, keys, born, minted>>

\* AuthUser: the session named by the JWT is active and belongs to its subject;
\* the handler then runs with that user and, as current session, that sid.
Handlers == {"revoke_hget", "others_smembers", "list_smembers"}
Authenticate(p, s, pc) ==
    /\ At(p, "idle")
    /\ Active(s)
    /\ Goto(p, Call(pc, sess[s].user_id, s, {}, now))
    /\ UNCHANGED <<now, keys, born, minted>>

\* revoke, the ownership test on the sid of the path (any sid).
RevokeHGet(p, target) ==
    /\ At(p, "revoke_hget")
    /\ \/ /\ OwnedBy(target, req[p].user)
          /\ GotoOwing(p, Call("delete_hget", req[p].user, NONE, {target},
                            req[p].since), {target})
       \/ /\ ~OwnedBy(target, req[p].user)
          /\ Finish(p)
    /\ UNCHANGED <<now, keys, born, minted>>

\* revoke_others, SMEMBERS of the index.  The caller is told that its other
\* sessions are gone: every active session of the user at this point, but keep.
RevokeOthersMembers(p) ==
    LET u == req[p].user
        keep == req[p].sid
        others == usess[u].members \ {keep}
        due == {s \in Sids \ {keep} : sess[s].user_id = u}
    IN
    /\ At(p, "others_smembers")
    /\ \/ /\ others = {}
          /\ Return(p, due)
       \/ /\ others # {}
          /\ GotoOwing(p, Call("delete_hget", u, NONE, others, req[p].since), due)
    /\ UNCHANGED <<now, keys, born, minted>>

\* list, SMEMBERS of the index.
ListMembers(p) ==
    LET u == req[p].user IN
    /\ At(p, "list_smembers")
    /\ \/ /\ usess[u].members = {}
          /\ Finish(p)
       \/ /\ usess[u].members # {}
          /\ Goto(p, Call("list_hgetall", u, NONE, usess[u].members,
                       req[p].since))
    /\ UNCHANGED <<now, keys, born, minted>>

\* Where list goes once it is done with one sid.
ListNext(p, rest) ==
    IF rest = {}
    THEN Finish(p)
    ELSE Goto(p, Call("list_hgetall", req[p].user, NONE, rest, req[p].since))

\* list, HGETALL of one sid: an empty answer is an orphan of the index.
ListHGetAll(p, s) ==
    /\ At(p, "list_hgetall")
    /\ s \in req[p].todo
    /\ IF sess[s] = NoHash
       THEN Goto(p, Call("list_srem", req[p].user, s, req[p].todo \ {s},
                      req[p].since))
       ELSE ListNext(p, req[p].todo \ {s})
    /\ UNCHANGED <<now, keys, born, minted>>

\* list, SREM of an orphan.
ListSRem(p) ==
    /\ At(p, "list_srem")
    /\ usess' = [usess EXCEPT ![req[p].user] = Remove(@, req[p].sid)]
    /\ ListNext(p, req[p].todo)
    /\ UNCHANGED <<now, sess, rt, born, minted>>

\* delete, HGET of the current refresh token of one of the sessions to delete.
DeleteHGet(p, s) ==
    /\ At(p, "delete_hget")
    /\ s \in req[p].todo
    /\ Goto(p, Deletion(req[p].user, s, sess[s].rth, req[p].todo \ {s},
                        req[p].since))
    /\ UNCHANGED <<now, keys, born, minted>>

\* delete, the MULTI: the token read before, the hash, the index entry; then the
\* caller returns, or revoke_others takes its next sid.
DeleteMulti(p) ==
    LET s == req[p].sid
        u == req[p].user
    IN
    /\ At(p, "delete_multi")
    /\ rt' = [t \in Tokens |-> IF t = req[p].rth THEN NoRef ELSE rt[t]]
    /\ sess' = [sess EXCEPT ![s] = NoHash]
    /\ usess' = [usess EXCEPT ![u] = Remove(@, s)]
    /\ IF req[p].todo = {}
       THEN Finish(p)
       ELSE Goto(p, Call("delete_hget", u, NONE, req[p].todo, req[p].since))
    /\ UNCHANGED <<now, born, minted>>

\* The handler's future is dropped at an await point: nothing is undone.
Abort(p) ==
    /\ ~At(p, "idle")
    /\ req' = [req EXCEPT ![p] = Idle]
    /\ owed' = [owed EXCEPT ![p] = {}]
    /\ UNCHANGED revoked
    /\ UNCHANGED <<now, keys, born, minted>>

\* One tick: every key whose deadline comes is gone.  A request older than the
\* timeout has been dropped before the clock moves.
Tick ==
    /\ now < MaxTime
    /\ \A p \in Procs : At(p, "idle") \/ now < req[p].since + RequestTimeout
    /\ now' = now + 1
    /\ sess' = [s \in Sids |-> IF sess[s].exp <= now + 1 THEN NoHash ELSE sess[s]]
    /\ rt' = [t \in Tokens |-> IF rt[t].exp <= now + 1 THEN NoRef ELSE rt[t]]
    /\ usess' = [u \in Users |-> IF usess[u].exp <= now + 1
                                 THEN NoIndex ELSE usess[u]]
    /\ UNCHANGED <<req, born, minted, owed, revoked>>

Start(p) ==
    \/ \E t \in Tokens : RotateGetDel(p, t) \/ LogoutGetDel(p, t)
    \/ \E s \in Sids, pc \in Handlers : Authenticate(p, s, pc)

Continue(p) ==
    \/ RotateHGetAll(p)
    \/ \E t \in Tokens : RotateMulti(p, t)
    \/ LogoutHGet(p)
    \/ \E s \in Sids : RevokeHGet(p, s)
    \/ RevokeOthersMembers(p)
    \/ ListMembers(p)
    \/ \E s \in Sids : ListHGetAll(p, s)
    \/ ListSRem(p)
    \/ \E s \in Sids : DeleteHGet(p, s)
    \/ DeleteMulti(p)

Next ==
    \/ \E u \in Users, s \in Sids, t \in Tokens : Create(u, s, t)
    \/ \E p \in Procs : Start(p) \/ Continue(p) \/ Abort(p)
    \/ Tick

Spec == Init /\ [][Next]_vars

-----------------------------------------------------------------------------
(* Properties.                                                             *)

\* A session that was revoked, logged out, or has expired is never active
\* again: no rotation in flight, whenever it was overtaken, brings it back.
NoRevival == \A s \in born : ~Active(s) => ~Active(s)'
DeadStaysDead == [][NoRevival]_vars

\* The requests that have taken the refresh token of s and not yet given it up.
Holds(p, s) ==
    /\ req[p].pc \in {"rotate_hgetall", "rotate_multi", "logout_hget"}
    /\ req[p].sid = s
Redeems(t, s) == rt[t].sid = s

\* The refresh tokens of a session form one chain: one token is redeemable, or
\* one request holds it, and never two of these (GETDEL has a single winner).
RefreshChainLinear ==
    \A s \in Sids :
        /\ \A t1, t2 \in Tokens : Redeems(t1, s) /\ Redeems(t2, s) => t1 = t2
        /\ \A p1, p2 \in Procs : Holds(p1, s) /\ Holds(p2, s) => p1 = p2
        /\ \A t \in Tokens, p \in Procs : ~(Redeems(t, s) /\ Holds(p, s))

\* The hash of an active session names the token that redeems it, so that
\* delete, which goes by the hash, takes the right token away.
HashNamesToken ==
    \A s \in Sids, t \in Tokens :
        Active(s) /\ Redeems(t, s) => sess[s].rth = t /\ sess[s].exp = rt[t].exp

\* Every active session is in the index of its owner, however long rotations
\* have kept it alive: "list" and "revoke others" reach every session that still
\* authenticates.
IndexComplete ==
    \A s \in Sids : Active(s) => s \in usess[sess[s].user_id].members

\* What a user's requests delete is that user's: delete never ends a session
\* of somebody else, whichever sid the path or the index named.
OwnDeletion ==
    \A p \in Procs, s \in Sids :
        /\ At(p, "delete_multi") /\ ~At(p, "delete_multi")'
        /\ Active(s) /\ ~Active(s)'
        => sess[s].user_id = req[p].user
DeletesOwnSessions == [][OwnDeletion]_vars

\* Once a revocation has answered, every session it covered is dead for good:
\* the target of revoke, the session of logout's token, and for revoke_others
\* all that were active when the index was read.
RevocationHolds == \A s \in revoked : ~Active(s)

\* The cap holds whatever the rotations do: the last rotation it admits starts
\* at created_at + AbsTTL, writes within the request timeout, and leaves the
\* session one idle lifetime.
CapBound ==
    \A s \in Sids :
        Active(s) => sess[s].exp <= sess[s].created_at + AbsTTL
                                        + RequestTimeout + IdleTTL

\* What the configuration promises of the cap: past it the session is no longer
\* active.  The code tests the cap in a rotation only.
CapEndsSession ==
    \A s \in Sids : Active(s) => now - sess[s].created_at <= AbsTTL

\* What list promises: the sessions it is about to return are active ones.
ListShowsActive ==
    \A p \in Procs, s \in Sids :
        At(p, "list_hgetall") /\ s \in req[p].todo /\ sess[s] # NoHash => Active(s)
=============================================================================
