------------------------- MODULE SessionStoreProofs -------------------------
(***************************************************************************)
(* Proofs about SessionStore, for every number of users, sessions, tokens  *)
(* and requests and every lifetime.                                        *)
(*                                                                         *)
(* The properties of the specification are not inductive.  Six invariants  *)
(* carry them: Drawn (identifiers are drawn before use, so a new one is    *)
(* fresh), OwnerKnown and IndexSound (a request acts for the owner of the  *)
(* sessions it names), Timely (the clock bounds what requests have read),  *)
(* IndexOutlives (an index entry lasts as long as its session) and         *)
(* OwedPending (what a revocation has still to end is on its list).  Each  *)
(* lemma ...Step says that one of them, or one property, is preserved.     *)
(***************************************************************************)
EXTENDS SessionStoreRefinement, TLAPS

\* Every identifier in use has been drawn.
Drawn ==
    /\ \A s \in Sids : sess[s].rth # NONE \/ Active(s) => s \in born
    /\ \A t \in Tokens : rt[t].sid # NONE => rt[t].sid \in born /\ t \in minted
    /\ \A p \in Procs :
        /\ req[p].sid # NONE => req[p].sid \in born
        /\ req[p].todo \subseteq born
        /\ owed[p] \subseteq born
    /\ \A u \in Users : usess[u].members \subseteq born
    /\ revoked \subseteq born

\* A request that deletes, or has passed the test of the cap, names the owner.
OwnerKnown ==
    \A p \in Procs :
        /\ At(p, "rotate_multi") /\ Active(req[p].sid)
               => sess[req[p].sid].user_id = req[p].user
        /\ At(p, "delete_multi") /\ Active(req[p].sid)
               => sess[req[p].sid].user_id = req[p].user
        /\ At(p, "delete_hget") \/ At(p, "delete_multi")
               => \A s \in req[p].todo :
                      Active(s) => sess[s].user_id = req[p].user
        /\ At(p, "list_srem") => ~Active(req[p].sid)

\* An index names active sessions of its own user only.
IndexSound ==
    \A u \in Users : \A s \in usess[u].members :
        Active(s) => sess[s].user_id = u

\* Nothing is dated in the future; a request is younger than the timeout, and one
\* about to renew a session started before the cap of that session.
Timely ==
    /\ \A s \in Sids : Active(s) => /\ sess[s].created_at <= now
                                   /\ sess[s].exp <= now + IdleTTL
    /\ \A p \in Procs : ~At(p, "idle") =>
        /\ req[p].since <= now
        /\ now <= req[p].since + RequestTimeout
    /\ \A p \in Procs : At(p, "rotate_multi") /\ Active(req[p].sid) =>
           req[p].since <= sess[req[p].sid].created_at + AbsTTL

\* The index of a user lasts at least as long as the user's active sessions.
IndexOutlives ==
    \A s \in Sids : Active(s) => sess[s].exp <= usess[sess[s].user_id].exp

\* Whatever a revocation in progress has still to end is on its list.
OnTheList(p, s) ==
    \/ At(p, "logout_hget") /\ req[p].sid = s
    \/ At(p, "delete_hget") /\ s \in req[p].todo
    \/ At(p, "delete_multi") /\ (s \in req[p].todo \/ req[p].sid = s)
OwedPending ==
    \A p \in Procs : \A s \in owed[p] : Active(s) => OnTheList(p, s)

-----------------------------------------------------------------------------
(* Type correctness.                                                       *)

\* The request records that the actions build are requests.
LEMMA CallType ==
    ASSUME NEW at \in 0..MaxTime,
           NEW u \in Users \cup {NONE}, NEW s \in Sids \cup {NONE},
           NEW t \in Tokens \cup {NONE}, NEW todo \in SUBSET Sids
    PROVE  /\ \A pc \in PC : Call(pc, u, s, todo, at) \in Request
           /\ Deletion(u, s, t, todo, at) \in Request
           /\ Idle \in Request /\ Ready(Idle)
  BY TimeAssumption DEF Request, Call, Deletion, Idle, PC, Ready

\* The part of TypeOK that speaks of requests.
RequestsTyped ==
    /\ req \in [Procs -> Request]
    /\ \A p \in Procs : Ready(req[p])
    /\ owed \in [Procs -> SUBSET Sids]
    /\ revoked \subseteq Sids

\* A step that replaces one request by a well-formed one keeps requests typed.
LEMMA RequestSteps ==
    ASSUME TypeOK, NEW p \in Procs
    PROVE  /\ \A r \in Request : Ready(r) /\ Goto(p, r) => RequestsTyped'
           /\ \A r \in Request, sids \in SUBSET Sids :
                  Ready(r) /\ GotoOwing(p, r, sids) => RequestsTyped'
           /\ \A sids \in SUBSET Sids : Return(p, sids) => RequestsTyped'
           /\ Finish(p) => RequestsTyped'
<1>1. Idle \in Request /\ Ready(Idle)
  BY TimeAssumption DEF Request, Idle, PC, Call, Ready
<1>2. owed[p] \in SUBSET Sids
  BY DEF TypeOK
<1>3. \A r \in Request : Ready(r) /\ req' = [req EXCEPT ![p] = r] =>
         req' \in [Procs -> Request] /\ \A q \in Procs : Ready(req'[q])
  BY DEF TypeOK
<1> QED
  BY <1>1, <1>2, <1>3
     DEF TypeOK, RequestsTyped, Goto, GotoOwing, Finish, Return

\* Keys keep their types under each of the store's writes.
LEMMA KeyShapes ==
    ASSUME TypeOK, NEW u \in Users, NEW s \in Sids, NEW t \in Tokens
    PROVE  /\ NoHash \in Hash /\ NoRef \in Ref /\ NoIndex \in Index
           /\ [user_id |-> u, created_at |-> now, rth |-> t,
               exp |-> now + IdleTTL] \in Hash
           /\ [sid |-> s, exp |-> now + IdleTTL] \in Ref
           /\ IndexWith(u, s) \in Index
           /\ ExtendedIndex(u) \in Index
           /\ Remove(usess[u], s) \in Index
  BY TimeAssumption
     DEF TypeOK, Hash, Ref, Index, NoHash, NoRef, NoIndex, IndexWith,
         ExtendedIndex, Remove

\* The hash a rotation leaves has the type of a hash.
LEMMA RotatedHashType ==
    ASSUME TypeOK, NEW p \in Procs, NEW t \in Tokens, req[p].sid \in Sids
    PROVE  RotatedHash(p, t) \in Hash
<1>1. sess[req[p].sid] \in Hash /\ now \in 0..MaxTime
  BY DEF TypeOK
<1>2. now + IdleTTL \in 0..(MaxTime + IdleTTL)
  BY <1>1, TimeAssumption
<1> QED
  BY <1>1, <1>2 DEF Hash, RotatedHash

\* Every step preserves the types.
LEMMA TypeStep == TypeOK /\ [Next]_vars => TypeOK'
<1> SUFFICES ASSUME TypeOK, [Next]_vars PROVE TypeOK'
  OBVIOUS
<1>a. /\ sess \in [Sids -> Hash] /\ rt \in [Tokens -> Ref]
      /\ usess \in [Users -> Index] /\ req \in [Procs -> Request]
      /\ now \in 0..MaxTime
  BY DEF TypeOK
<1>b. \A s \in Sids : sess[s].user_id \in Users \cup {NONE}
                      /\ sess[s].rth \in Tokens \cup {NONE}
  BY <1>a DEF Hash
<1>c. \A t \in Tokens : rt[t].sid \in Sids \cup {NONE}
  BY <1>a DEF Ref
<1>d. \A u \in Users : usess[u].members \in SUBSET Sids
  BY <1>a DEF Index
<1>e. \A p \in Procs : /\ req[p].sid \in Sids \cup {NONE}
                       /\ req[p].user \in Users \cup {NONE}
                       /\ req[p].todo \in SUBSET Sids
                       /\ req[p].since \in 0..MaxTime
  BY <1>a DEF Request
<1>1. ASSUME NEW u \in Users, NEW s \in Sids, NEW t \in Tokens, Create(u, s, t)
      PROVE  TypeOK'
  <2>1. /\ [user_id |-> u, created_at |-> now, rth |-> t,
            exp |-> now + IdleTTL] \in Hash
        /\ [sid |-> s, exp |-> now + IdleTTL] \in Ref
        /\ IndexWith(u, s) \in Index
    BY KeyShapes
  <2>2. sess' \in [Sids -> Hash] /\ rt' \in [Tokens -> Ref]
        /\ usess' \in [Users -> Index]
    BY <2>1, <1>1, <1>a DEF Create
  <2> QED
    BY <1>1, <2>2 DEF Create, TypeOK
<1>2. ASSUME NEW p \in Procs, NEW t \in Tokens,
             RotateGetDel(p, t) \/ LogoutGetDel(p, t)
      PROVE  TypeOK'
  <2> DEFINE r(pc) == Call(pc, NONE, rt[t].sid, {}, now)
  <2>0. rt[t].sid \in Sids
    BY <1>2, <1>c DEF RotateGetDel, LogoutGetDel
  <2>1. /\ r("rotate_hgetall") \in Request /\ Ready(r("rotate_hgetall"))
        /\ r("logout_hget") \in Request /\ Ready(r("logout_hget"))
    BY <1>a, <2>0 DEF PC, Request, Ready, Call
  <2>2. Goto(p, r("rotate_hgetall")) \/ GotoOwing(p, r("logout_hget"), {rt[t].sid})
    BY <1>2 DEF RotateGetDel, LogoutGetDel
  <2>3. {rt[t].sid} \in SUBSET Sids
    BY <2>0
  <2>4. GetDel(t) \in [Tokens -> Ref]
    BY <1>a, TimeAssumption DEF GetDel, Ref, NoRef
  <2> HIDE DEF r
  <2> QED
    BY <1>2, <2>1, <2>2, <2>3, <2>4, RequestSteps
       DEF RotateGetDel, LogoutGetDel, TypeOK, RequestsTyped
<1>3. ASSUME NEW p \in Procs, NEW s \in Sids, NEW pc \in Handlers,
             Authenticate(p, s, pc)
      PROVE  TypeOK'
  <2> DEFINE r == Call(pc, sess[s].user_id, s, {}, now)
  <2>1. r \in Request /\ Ready(r)
    BY <1>3, <1>a, <1>b
       DEF PC, Handlers, Request, Ready, Call, Authenticate, Active
  <2>2. Goto(p, r)
    BY <1>3 DEF Authenticate
  <2> HIDE DEF r
  <2> QED
    BY <1>3, <2>1, <2>2, RequestSteps
       DEF Authenticate, TypeOK, RequestsTyped, keys
<1>4. ASSUME NEW p \in Procs, RotateHGetAll(p) \/ LogoutHGet(p)
      PROVE  TypeOK'
  <2> DEFINE s == req[p].sid
             delete == Call("delete_hget", sess[s].user_id, NONE, {s},
                            req[p].since)
             install == Call("rotate_multi", sess[s].user_id, s, {},
                             req[p].since)
  <2>1. s \in Sids
    BY <1>4 DEF RotateHGetAll, LogoutHGet, At, TypeOK, Ready
  <2>2. Active(s) => /\ delete \in Request /\ Ready(delete)
                     /\ install \in Request /\ Ready(install)
    BY <2>1, <1>a, <1>b, <1>e DEF PC, Request, Ready, Call, Active
  <2>3. \/ Finish(p)
        \/ Active(s) /\ Goto(p, delete)
        \/ Active(s) /\ Goto(p, install)
    BY <1>4 DEF RotateHGetAll, LogoutHGet
  <2> HIDE DEF delete, install
  <2> QED
    BY <1>4, <2>2, <2>3, RequestSteps
       DEF RotateHGetAll, LogoutHGet, TypeOK, RequestsTyped, keys
<1>5. ASSUME NEW p \in Procs, NEW t \in Tokens, RotateMulti(p, t)
      PROVE  TypeOK'
  <2>1. req[p].sid \in Sids /\ req[p].user \in Users
    BY <1>5 DEF RotateMulti, At, TypeOK, Ready
  <2>2. /\ RotatedHash(p, t) \in Hash
        /\ [sid |-> req[p].sid, exp |-> now + IdleTTL] \in Ref
        /\ ExtendedIndex(req[p].user) \in Index
    BY <2>1, RotatedHashType, KeyShapes
  <2>3. sess' \in [Sids -> Hash] /\ rt' \in [Tokens -> Ref]
        /\ usess' \in [Users -> Index]
    BY <2>2, <1>5, <1>a DEF RotateMulti
  <2> QED
    BY <1>5, <2>3, RequestSteps DEF RotateMulti, TypeOK, RequestsTyped
<1>6. ASSUME NEW p \in Procs, NEW s \in Sids, RevokeHGet(p, s)
      PROVE  TypeOK'
  <2> DEFINE r == Call("delete_hget", req[p].user, NONE, {s}, req[p].since)
  <2>1. req[p].user \in Users
    BY <1>6 DEF RevokeHGet, At, TypeOK, Ready
  <2>2. r \in Request /\ Ready(r)
    BY <2>1, <1>a, <1>e DEF PC, Request, Ready, Call
  <2>3. Finish(p) \/ GotoOwing(p, r, {s})
    BY <1>6 DEF RevokeHGet
  <2> HIDE DEF r
  <2> QED
    BY <1>6, <2>2, <2>3, RequestSteps
       DEF RevokeHGet, TypeOK, RequestsTyped, keys
<1>7. ASSUME NEW p \in Procs, RevokeOthersMembers(p) \/ ListMembers(p)
      PROVE  TypeOK'
  <2> DEFINE u == req[p].user
             others == usess[u].members \ {req[p].sid}
             due == {s \in Sids \ {req[p].sid} : sess[s].user_id = u}
             delete == Call("delete_hget", u, NONE, others, req[p].since)
             list == Call("list_hgetall", u, NONE, usess[u].members,
                          req[p].since)
  <2>1. u \in Users
    BY <1>7 DEF RevokeOthersMembers, ListMembers, At, TypeOK, Ready
  <2>2. others \in SUBSET Sids /\ due \in SUBSET Sids
    BY <2>1, <1>d
  <2>3. /\ delete \in Request /\ Ready(delete)
        /\ list \in Request /\ Ready(list)
    BY <2>1, <2>2, <1>d, <1>e DEF PC, Request, Ready, Call
  <2>4. \/ Finish(p) \/ Return(p, due)
        \/ GotoOwing(p, delete, due) \/ Goto(p, list)
    BY <1>7 DEF RevokeOthersMembers, ListMembers
  <2> HIDE DEF delete, list, due, others
  <2> QED
    BY <1>7, <2>2, <2>3, <2>4, RequestSteps
       DEF RevokeOthersMembers, ListMembers, TypeOK, RequestsTyped, keys
<1>8. ASSUME NEW p \in Procs, NEW s \in Sids, ListHGetAll(p, s)
      PROVE  TypeOK'
  <2> DEFINE rest == req[p].todo \ {s}
             srem == Call("list_srem", req[p].user, s, rest, req[p].since)
             list == Call("list_hgetall", req[p].user, NONE, rest,
                          req[p].since)
  <2>1. req[p].user \in Users
    BY <1>8 DEF ListHGetAll, At, TypeOK, Ready
  <2>2. rest \in SUBSET Sids
    BY <1>e
  <2>3. /\ srem \in Request /\ Ready(srem)
        /\ list \in Request /\ Ready(list)
    BY <2>1, <2>2, <1>e DEF PC, Request, Ready, Call
  <2>4. Finish(p) \/ Goto(p, srem) \/ Goto(p, list)
    BY <1>8 DEF ListHGetAll, ListNext
  <2> HIDE DEF srem, list
  <2> QED
    BY <1>8, <2>3, <2>4, RequestSteps
       DEF ListHGetAll, TypeOK, RequestsTyped, keys
<1>9. ASSUME NEW p \in Procs, ListSRem(p)
      PROVE  TypeOK'
  <2> DEFINE list == Call("list_hgetall", req[p].user, NONE, req[p].todo,
                          req[p].since)
  <2>1. req[p].user \in Users /\ req[p].sid \in Sids
    BY <1>9 DEF ListSRem, At, TypeOK, Ready
  <2>2. list \in Request /\ Ready(list)
    BY <2>1, <1>e DEF PC, Request, Ready, Call
  <2>3. Finish(p) \/ Goto(p, list)
    BY <1>9 DEF ListSRem, ListNext
  <2>4. Remove(usess[req[p].user], req[p].sid) \in Index
    BY <2>1, <1>a, TimeAssumption DEF Remove, Index, NoIndex
  <2>5. usess' \in [Users -> Index]
    BY <1>9, <2>1, <2>4, <1>a DEF ListSRem
  <2> HIDE DEF list
  <2> QED
    BY <1>9, <2>2, <2>3, <2>5, RequestSteps DEF ListSRem, TypeOK, RequestsTyped
<1>10. ASSUME NEW p \in Procs, NEW s \in Sids, DeleteHGet(p, s)
       PROVE  TypeOK'
  <2> DEFINE r == Deletion(req[p].user, s, sess[s].rth, req[p].todo \ {s},
                           req[p].since)
  <2>1. req[p].user \in Users
    BY <1>10 DEF DeleteHGet, At, TypeOK, Ready
  <2>2. r \in Request /\ Ready(r)
    BY <2>1, <1>b, <1>e DEF PC, Request, Ready, Deletion
  <2>3. Goto(p, r)
    BY <1>10 DEF DeleteHGet
  <2> HIDE DEF r
  <2> QED
    BY <1>10, <2>2, <2>3, RequestSteps
       DEF DeleteHGet, TypeOK, RequestsTyped, keys
<1>11. ASSUME NEW p \in Procs, DeleteMulti(p)
       PROVE  TypeOK'
  <2> DEFINE r == Call("delete_hget", req[p].user, NONE, req[p].todo,
                       req[p].since)
  <2>1. req[p].user \in Users /\ req[p].sid \in Sids
    BY <1>11 DEF DeleteMulti, At, TypeOK, Ready
  <2>2. r \in Request /\ Ready(r)
    BY <2>1, <1>e DEF PC, Request, Ready, Call
  <2>3. Finish(p) \/ Goto(p, r)
    BY <1>11 DEF DeleteMulti
  <2>4. Remove(usess[req[p].user], req[p].sid) \in Index /\ NoRef \in Ref
        /\ NoHash \in Hash
    BY <2>1, <1>a, TimeAssumption
       DEF Remove, Index, NoIndex, Ref, NoRef, Hash, NoHash
  <2>5. sess' \in [Sids -> Hash] /\ rt' \in [Tokens -> Ref]
        /\ usess' \in [Users -> Index]
    BY <1>11, <2>1, <2>4, <1>a DEF DeleteMulti
  <2> HIDE DEF r
  <2> QED
    BY <1>11, <2>2, <2>3, <2>5, RequestSteps
       DEF DeleteMulti, TypeOK, RequestsTyped
<1>12. ASSUME NEW p \in Procs, Abort(p)
       PROVE  TypeOK'
  <2>1. Idle \in Request /\ Ready(Idle)
    BY TimeAssumption DEF Idle, Call, Request, PC, Ready
  <2> QED
    BY <1>12, <2>1 DEF Abort, TypeOK, keys
<1>13. CASE Tick
  <2>1. NoRef \in Ref /\ NoHash \in Hash /\ NoIndex \in Index
    BY TimeAssumption DEF Ref, NoRef, Hash, NoHash, Index, NoIndex
  <2>2. now' \in 0..MaxTime
    BY <1>13, <1>a, TimeAssumption DEF Tick
  <2> QED
    BY <1>13, <2>1, <2>2, <1>a DEF Tick, TypeOK
<1>14. CASE UNCHANGED vars
  BY <1>14 DEF vars, TypeOK
<1> QED
  BY <1>1, <1>2, <1>3, <1>4, <1>5, <1>6, <1>7, <1>8, <1>9, <1>10, <1>11, <1>12,
     <1>13, <1>14 DEF Next, Start, Continue

\* Every variable keeps its type, and a request never sends a command with a
\* variable that its handler has not set.
THEOREM TypeCorrect == Spec => []TypeOK
<1>1. Init => TypeOK
  BY NoneAssumption, TimeAssumption
     DEF Init, TypeOK, Hash, Ref, Index, Request, PC, Idle, Call, Ready,
         NoHash, NoRef, NoIndex
<1> QED
  BY <1>1, TypeStep, PTL DEF Spec

-----------------------------------------------------------------------------
(* Ended sessions.                                                         *)

\* The steps that write a session hash.
LEMMA HashSteps ==
    ASSUME [Next]_vars
    PROVE  \/ \E u \in Users, s \in Sids, t \in Tokens : Create(u, s, t)
           \/ \E p \in Procs, t \in Tokens : RotateMulti(p, t)
           \/ \E p \in Procs : DeleteMulti(p)
           \/ Tick
           \/ sess' = sess
  BY DEF Next, Start, Continue, vars, keys, RotateGetDel, RotateHGetAll,
         LogoutGetDel, LogoutHGet, Authenticate, RevokeHGet,
         RevokeOthersMembers, ListMembers, ListHGetAll, ListSRem, DeleteHGet,
         Abort

\* A session that has ended is never active again: only create writes user_id,
\* and it draws a new sid.
THEOREM EndedForGood == Spec => DeadStaysDead
<1>1. TypeOK /\ [Next]_vars => [NoRevival]_vars
  <2> SUFFICES ASSUME TypeOK, [Next]_vars PROVE NoRevival
    OBVIOUS
  <2> USE DEF NoRevival
  <2>a. sess \in [Sids -> Hash] /\ born \subseteq Sids
    BY DEF TypeOK
  <2>1. ASSUME NEW u \in Users, NEW s \in Sids, NEW t \in Tokens, Create(u, s,
               t)
        PROVE  NoRevival
    BY <2>1, <2>a DEF Create, Active
  <2>2. ASSUME NEW p \in Procs, NEW t \in Tokens, RotateMulti(p, t)
        PROVE  NoRevival
    BY <2>2, <2>a DEF RotateMulti, RotatedHash, Active, Hash
  <2>3. ASSUME NEW p \in Procs, DeleteMulti(p)
        PROVE  NoRevival
    BY <2>3, <2>a DEF DeleteMulti, Active, NoHash
  <2>4. CASE Tick
    BY <2>4, <2>a DEF Tick, Active, NoHash
  <2>5. CASE sess' = sess
    BY <2>5 DEF Active
  <2> QED
    BY <2>1, <2>2, <2>3, <2>4, <2>5, HashSteps
<1> QED
  BY <1>1, TypeCorrect, PTL DEF Spec, DeadStaysDead

-----------------------------------------------------------------------------
(* Identifiers in use have been drawn.                                     *)

\* Fresh identifiers: nothing refers to a sid or a token that was not drawn.
LEMMA DrawnStep == TypeOK /\ Drawn /\ [Next]_vars => Drawn'
<1> SUFFICES ASSUME TypeOK, Drawn, [Next]_vars PROVE Drawn'
  OBVIOUS
<1> USE NoneAssumption DEF TypeOK, Drawn, Active
<1>1. ASSUME NEW u \in Users, NEW s \in Sids, NEW t \in Tokens, Create(u, s, t)
      PROVE  Drawn'
  BY <1>1 DEF Create, IndexWith
<1>2. ASSUME NEW p \in Procs, NEW t \in Tokens,
             RotateGetDel(p, t) \/ LogoutGetDel(p, t)
      PROVE  Drawn'
  BY <1>2 DEF RotateGetDel, LogoutGetDel, GetDel, NoRef, Goto, GotoOwing, Call
<1>3. ASSUME NEW p \in Procs, NEW s \in Sids, NEW pc \in Handlers,
             Authenticate(p, s, pc)
      PROVE  Drawn'
  BY <1>3 DEF Authenticate, Goto, Call, keys
<1>4. ASSUME NEW p \in Procs, RotateHGetAll(p) \/ LogoutHGet(p)
      PROVE  Drawn'
  BY <1>4
     DEF RotateHGetAll, LogoutHGet, Goto, Finish, Return, Call, Idle, keys,
         At, Ready
<1>5. ASSUME NEW p \in Procs, NEW t \in Tokens, RotateMulti(p, t)
      PROVE  Drawn'
  BY <1>5
     DEF RotateMulti, Finish, Return, Call, Idle, RotatedHash, ExtendedIndex,
         NoIndex, At, Ready, Hash, Index
<1>6. ASSUME NEW p \in Procs, NEW s \in Sids, RevokeHGet(p, s)
      PROVE  Drawn'
  BY <1>6
     DEF RevokeHGet, OwnedBy, GotoOwing, Finish, Return, Call, Idle, keys, At,
         Ready
<1>7. ASSUME NEW p \in Procs, RevokeOthersMembers(p) \/ ListMembers(p)
      PROVE  Drawn'
  BY <1>7
     DEF RevokeOthersMembers, ListMembers, Goto, GotoOwing, Finish, Return,
         Call, Idle, keys, At, Ready
<1>8. ASSUME NEW p \in Procs, NEW s \in Sids, ListHGetAll(p, s)
      PROVE  Drawn'
  BY <1>8 DEF ListHGetAll, ListNext, Goto, Finish, Return, Call, Idle, keys
<1>9. ASSUME NEW p \in Procs, ListSRem(p)
      PROVE  Drawn'
  BY <1>9
     DEF ListSRem, ListNext, Goto, Finish, Return, Call, Idle, Remove,
         NoIndex, Index
<1>10. ASSUME NEW p \in Procs, NEW s \in Sids, DeleteHGet(p, s)
       PROVE  Drawn'
  BY <1>10 DEF DeleteHGet, Goto, Deletion, keys
<1>11. ASSUME NEW p \in Procs, DeleteMulti(p)
       PROVE  Drawn'
  BY <1>11
     DEF DeleteMulti, Goto, Finish, Return, Call, Idle, Remove, NoIndex,
         NoHash, NoRef, Index
<1>12. ASSUME NEW p \in Procs, Abort(p)
       PROVE  Drawn'
  BY <1>12 DEF Abort, Idle, Call, keys
<1>13. CASE Tick
  BY <1>13 DEF Tick, NoHash, NoRef, NoIndex
<1>14. CASE UNCHANGED vars
  BY <1>14 DEF vars
<1> QED
  BY <1>1, <1>2, <1>3, <1>4, <1>5, <1>6, <1>7, <1>8, <1>9, <1>10, <1>11, <1>12,
     <1>13, <1>14 DEF Next, Start, Continue

-----------------------------------------------------------------------------
(* The chain of refresh tokens.                                            *)

\* A step that gives no right to refresh away, opens no session, and lets the
\* active ones keep their owner.
Shrinking ==
    /\ \A t \in Tokens, s \in Sids : Redeems(t, s)' => Redeems(t, s)
    /\ \A p \in Procs, s \in Sids : Holds(p, s)' => Holds(p, s)
    /\ \A s \in Sids : Active(s)' => sess'[s].user_id = sess[s].user_id
    /\ born' = born

\* Every other step creates a session, takes a token, or installs the next one.
LEMMA ChainSteps ==
    ASSUME TypeOK, [Next]_vars
    PROVE  \/ \E u \in Users, s \in Sids, t \in Tokens : Create(u, s, t)
           \/ \E p \in Procs, t \in Tokens :
                  \/ RotateGetDel(p, t) \/ LogoutGetDel(p, t)
                  \/ RotateMulti(p, t)
           \/ Shrinking
<1> USE NoneAssumption
    DEF TypeOK, Active, At, Ready, Goto, GotoOwing, Return, Call, Idle, Holds,
        Redeems, Shrinking
<1>1. ASSUME NEW p \in Procs, NEW s \in Sids, NEW pc \in Handlers,
             Authenticate(p, s, pc)
      PROVE  Shrinking
  BY <1>1 DEF Authenticate, Handlers, keys
<1>2. ASSUME NEW p \in Procs, RotateHGetAll(p) \/ LogoutHGet(p)
      PROVE  Shrinking
  BY <1>2 DEF RotateHGetAll, LogoutHGet, Finish, PastCap, keys
<1>3. ASSUME NEW p \in Procs, NEW s \in Sids, RevokeHGet(p, s)
      PROVE  Shrinking
  BY <1>3 DEF RevokeHGet, OwnedBy, Finish, keys
<1>4. ASSUME NEW p \in Procs, RevokeOthersMembers(p) \/ ListMembers(p)
      PROVE  Shrinking
  BY <1>4 DEF RevokeOthersMembers, ListMembers, Finish, keys
<1>5. ASSUME NEW p \in Procs, NEW s \in Sids, ListHGetAll(p, s)
      PROVE  Shrinking
  BY <1>5 DEF ListHGetAll, ListNext, Finish, keys
<1>6. ASSUME NEW p \in Procs, ListSRem(p)
      PROVE  Shrinking
  BY <1>6 DEF ListSRem, ListNext, Finish, Remove, NoIndex
<1>7. ASSUME NEW p \in Procs, NEW s \in Sids, DeleteHGet(p, s)
      PROVE  Shrinking
  BY <1>7 DEF DeleteHGet, Deletion, keys
<1>8. ASSUME NEW p \in Procs, DeleteMulti(p)
      PROVE  Shrinking
  <2>1. \/ req' = [req EXCEPT ![p] = Idle]
        \/ req' = [req EXCEPT ![p] = Call("delete_hget", req[p].user, NONE,
                                          req[p].todo, req[p].since)]
    BY <1>8 DEF DeleteMulti, Finish
  <2>2. \A q \in Procs, z \in Sids : Holds(q, z)' => Holds(q, z)
    BY <2>1
  <2> QED
    BY <1>8, <2>2 DEF DeleteMulti, NoHash, NoRef
<1>9. ASSUME NEW p \in Procs, Abort(p)
      PROVE  Shrinking
  BY <1>9 DEF Abort, keys
<1>10. CASE Tick
  BY <1>10 DEF Tick, NoHash, NoRef
<1>11. CASE UNCHANGED vars
  BY <1>11 DEF vars
<1> QED
  BY <1>1, <1>2, <1>3, <1>4, <1>5, <1>6, <1>7, <1>8, <1>9, <1>10, <1>11
     DEF Next, Start, Continue

\* Taking the token of s: it is gone, and this request alone holds s.
LEMMA TakeStep ==
    ASSUME TypeOK, RefreshChainLinear, NEW p \in Procs, NEW t \in Tokens,
           RotateGetDel(p, t) \/ LogoutGetDel(p, t)
    PROVE  /\ rt[t].sid \in Sids /\ Redeems(t, rt[t].sid)
           /\ \A x \in Tokens, z \in Sids :
                  Redeems(x, z)' <=> Redeems(x, z) /\ x # t
           /\ \A q \in Procs, z \in Sids :
                  Holds(q, z)' <=> \/ q = p /\ z = rt[t].sid
                                   \/ q # p /\ Holds(q, z)
           /\ \A q \in Procs : ~Holds(q, rt[t].sid)
           /\ \A x \in Tokens : Redeems(x, rt[t].sid) => x = t
           /\ \A z \in Sids : ~Holds(p, z)
           /\ sess' = sess /\ born' = born
<1> USE NoneAssumption DEF Redeems, Holds, At, TypeOK
<1>1. rt[t].sid \in Sids
  BY DEF Ref, RotateGetDel, LogoutGetDel
<1>2. \A x \in Tokens, z \in Sids : Redeems(x, z)' <=> Redeems(x, z) /\ x # t
  BY DEF RotateGetDel, LogoutGetDel, GetDel, NoRef
<1>3. \A q \in Procs, z \in Sids :
          Holds(q, z)' <=> (q = p /\ z = rt[t].sid) \/ (q # p /\ Holds(q, z))
  BY DEF RotateGetDel, LogoutGetDel, Goto, GotoOwing, Call
<1>4. At(p, "idle") /\ sess' = sess /\ born' = born
  BY DEF RotateGetDel, LogoutGetDel
<1> QED
  BY <1>1, <1>2, <1>3, <1>4 DEF RefreshChainLinear

\* Installing the next token of s: it is the only one, and nobody holds s now.
LEMMA InstallStep ==
    ASSUME TypeOK, RefreshChainLinear, NEW p \in Procs, NEW t \in Tokens,
           Drawn, RotateMulti(p, t)
    PROVE  /\ req[p].sid \in Sids /\ Holds(p, req[p].sid)
           /\ \A x \in Tokens, z \in Sids :
                  Redeems(x, z)' <=> \/ x = t /\ z = req[p].sid
                                     \/ Redeems(x, z)
           /\ \A q \in Procs, z \in Sids :
                  Holds(q, z)' <=> Holds(q, z) /\ q # p
           /\ \A x \in Tokens : ~Redeems(x, req[p].sid)
           /\ \A q \in Procs : Holds(q, req[p].sid) => q = p
           /\ \A z \in Sids : Holds(p, z) => z = req[p].sid
           /\ \A z \in Sids : sess'[z].user_id = sess[z].user_id
           /\ born' = born
<1> USE NoneAssumption DEF Redeems, Holds, At, TypeOK
<1>1. req[p].sid \in Sids /\ req[p].pc = "rotate_multi"
  BY DEF RotateMulti, Ready
<1>2. \A z \in Sids : ~Redeems(t, z)
  BY DEF RotateMulti, Drawn
<1>3. \A x \in Tokens, z \in Sids :
          Redeems(x, z)' <=> (x = t /\ z = req[p].sid) \/ Redeems(x, z)
  BY <1>1, <1>2 DEF RotateMulti
<1>4. \A q \in Procs, z \in Sids : Holds(q, z)' <=> Holds(q, z) /\ q # p
  BY DEF RotateMulti, Finish, Return, Idle, Call
<1>5. \A z \in Sids : sess'[z].user_id = sess[z].user_id
  BY <1>1 DEF RotateMulti, RotatedHash, Hash
<1>6. born' = born
  BY DEF RotateMulti
<1> QED
  BY <1>1, <1>3, <1>4, <1>5, <1>6 DEF RefreshChainLinear

\* The chain stays linear: GETDEL moves its end, the MULTI moves it back.
LEMMA ChainStep ==
    TypeOK /\ Drawn /\ RefreshChainLinear /\ [Next]_vars => RefreshChainLinear'
<1> SUFFICES ASSUME TypeOK, Drawn, RefreshChainLinear, [Next]_vars
             PROVE  RefreshChainLinear'
  OBVIOUS
<1>1. ASSUME NEW u \in Users, NEW s \in Sids, NEW t \in Tokens, Create(u, s, t)
      PROVE  RefreshChainLinear'
  BY <1>1, NoneAssumption
     DEF Create, RefreshChainLinear, Redeems, Holds, Drawn, TypeOK
<1>2. ASSUME NEW p \in Procs, NEW t \in Tokens,
             RotateGetDel(p, t) \/ LogoutGetDel(p, t)
      PROVE  RefreshChainLinear'
  <2>1. PICK s \in Sids : s = rt[t].sid
    BY <1>2, TakeStep
  <2>2. /\ \A x \in Tokens, z \in Sids :
               Redeems(x, z)' <=> Redeems(x, z) /\ x # t
        /\ \A q \in Procs, z \in Sids :
               Holds(q, z)' <=> (q = p /\ z = s) \/ (q # p /\ Holds(q, z))
        /\ \A q \in Procs : ~Holds(q, s)
        /\ \A x \in Tokens : Redeems(x, s) => x = t
    BY <1>2, <2>1, TakeStep
  <2> QED
    BY <2>2 DEF RefreshChainLinear
<1>3. ASSUME NEW p \in Procs, NEW t \in Tokens, RotateMulti(p, t)
      PROVE  RefreshChainLinear'
  <2>1. PICK s \in Sids : s = req[p].sid
    BY <1>3, InstallStep
  <2>2. /\ \A x \in Tokens, z \in Sids :
               Redeems(x, z)' <=> (x = t /\ z = s) \/ Redeems(x, z)
        /\ \A q \in Procs, z \in Sids : Holds(q, z)' <=> Holds(q, z) /\ q # p
        /\ \A x \in Tokens : ~Redeems(x, s)
        /\ \A q \in Procs : Holds(q, s) => q = p
    BY <1>3, <2>1, InstallStep
  <2> QED
    BY <2>2 DEF RefreshChainLinear
<1>4. CASE Shrinking
  BY <1>4 DEF Shrinking, RefreshChainLinear
<1> QED
  BY <1>1, <1>2, <1>3, <1>4, ChainSteps

\* Only create and rotate write a token, in the same MULTI as the hash.
LEMMA HashStep ==
    TypeOK /\ Drawn /\ RefreshChainLinear /\ HashNamesToken /\ [Next]_vars
        => HashNamesToken'
<1> SUFFICES ASSUME TypeOK, Drawn, RefreshChainLinear, HashNamesToken,
                    [Next]_vars
             PROVE  HashNamesToken'
  OBVIOUS
<1> USE NoneAssumption, TimeAssumption
    DEF TypeOK, Active, At, Ready, Goto, GotoOwing, Return, Call, Idle, Drawn,
        RefreshChainLinear, HashNamesToken, Holds, Redeems, Ref, Hash
<1>1. ASSUME NEW u \in Users, NEW s \in Sids, NEW t \in Tokens, Create(u, s, t)
      PROVE  HashNamesToken'
  BY <1>1 DEF Create, IndexWith
<1>2. ASSUME NEW p \in Procs, NEW t \in Tokens,
             RotateGetDel(p, t) \/ LogoutGetDel(p, t)
      PROVE  HashNamesToken'
  <2>1. sess' = sess
    BY <1>2 DEF RotateGetDel, LogoutGetDel
  <2>2. \A x \in Tokens, z \in Sids : Redeems(x, z)' => Redeems(x, z) /\ rt'[x] = rt[x]
    BY <1>2 DEF RotateGetDel, LogoutGetDel, GetDel, NoRef
  <2> QED
    BY <2>1, <2>2
<1>3. ASSUME NEW p \in Procs, NEW s \in Sids, NEW pc \in Handlers,
             Authenticate(p, s, pc)
      PROVE  HashNamesToken'
  BY <1>3 DEF Authenticate, Handlers, keys
<1>4. ASSUME NEW p \in Procs, RotateHGetAll(p) \/ LogoutHGet(p)
      PROVE  HashNamesToken'
  BY <1>4 DEF RotateHGetAll, LogoutHGet, Finish, PastCap, keys
<1>5. ASSUME NEW p \in Procs, NEW t \in Tokens, RotateMulti(p, t)
      PROVE  HashNamesToken'
  BY <1>5 DEF RotateMulti, Finish, RotatedHash, ExtendedIndex, NoIndex
<1>6. ASSUME NEW p \in Procs, NEW s \in Sids, RevokeHGet(p, s)
      PROVE  HashNamesToken'
  BY <1>6 DEF RevokeHGet, OwnedBy, Finish, keys
<1>7. ASSUME NEW p \in Procs, RevokeOthersMembers(p) \/ ListMembers(p)
      PROVE  HashNamesToken'
  BY <1>7 DEF RevokeOthersMembers, ListMembers, Finish, keys
<1>8. ASSUME NEW p \in Procs, NEW s \in Sids, ListHGetAll(p, s)
      PROVE  HashNamesToken'
  BY <1>8 DEF ListHGetAll, ListNext, Finish, keys
<1>9. ASSUME NEW p \in Procs, ListSRem(p)
      PROVE  HashNamesToken'
  BY <1>9 DEF ListSRem, ListNext, Finish, Remove, NoIndex
<1>10. ASSUME NEW p \in Procs, NEW s \in Sids, DeleteHGet(p, s)
       PROVE  HashNamesToken'
  BY <1>10 DEF DeleteHGet, Deletion, keys
<1>11. ASSUME NEW p \in Procs, DeleteMulti(p)
       PROVE  HashNamesToken'
  BY <1>11 DEF DeleteMulti, Finish, Remove, NoIndex, NoHash, NoRef
<1>12. ASSUME NEW p \in Procs, Abort(p)
       PROVE  HashNamesToken'
  BY <1>12 DEF Abort, keys
<1>13. CASE Tick
  BY <1>13 DEF Tick, NoHash, NoRef, NoIndex
<1>14. CASE UNCHANGED vars
  BY <1>14 DEF vars
<1> QED
  BY <1>1, <1>2, <1>3, <1>4, <1>5, <1>6, <1>7, <1>8, <1>9, <1>10, <1>11, <1>12,
     <1>13, <1>14 DEF Next, Start, Continue

-----------------------------------------------------------------------------
(* Who owns what a request is about to delete.                             *)

\* Owners never change, so what a request has read of them stays true.
LEMMA OwnerStep ==
    TypeOK /\ Drawn /\ OwnerKnown /\ IndexSound /\ [Next]_vars
        => (OwnerKnown /\ IndexSound)'
<1> SUFFICES ASSUME TypeOK, Drawn, OwnerKnown, IndexSound, [Next]_vars
             PROVE  (OwnerKnown /\ IndexSound)'
  OBVIOUS
<1> USE NoneAssumption, TimeAssumption
    DEF TypeOK, Active, At, Ready, Goto, GotoOwing, Return, Call, Idle, Drawn,
        OwnerKnown, IndexSound, Hash, Index, Request
<1>1. ASSUME NEW u \in Users, NEW s \in Sids, NEW t \in Tokens, Create(u, s, t)
      PROVE  (OwnerKnown /\ IndexSound)'
  BY <1>1 DEF Create, IndexWith
<1>2. ASSUME NEW p \in Procs, NEW t \in Tokens,
             RotateGetDel(p, t) \/ LogoutGetDel(p, t)
      PROVE  (OwnerKnown /\ IndexSound)'
  BY <1>2 DEF RotateGetDel, LogoutGetDel, GetDel, NoRef
<1>3. ASSUME NEW p \in Procs, NEW s \in Sids, NEW pc \in Handlers,
             Authenticate(p, s, pc)
      PROVE  (OwnerKnown /\ IndexSound)'
  BY <1>3 DEF Authenticate, Handlers, keys
<1>4. ASSUME NEW p \in Procs, RotateHGetAll(p) \/ LogoutHGet(p)
      PROVE  (OwnerKnown /\ IndexSound)'
  BY <1>4 DEF RotateHGetAll, LogoutHGet, Finish, PastCap, keys
<1>5. ASSUME NEW p \in Procs, NEW t \in Tokens, RotateMulti(p, t)
      PROVE  (OwnerKnown /\ IndexSound)'
  BY <1>5 DEF RotateMulti, Finish, RotatedHash, ExtendedIndex, NoIndex
<1>6. ASSUME NEW p \in Procs, NEW s \in Sids, RevokeHGet(p, s)
      PROVE  (OwnerKnown /\ IndexSound)'
  BY <1>6 DEF RevokeHGet, OwnedBy, Finish, keys
<1>7. ASSUME NEW p \in Procs, RevokeOthersMembers(p) \/ ListMembers(p)
      PROVE  (OwnerKnown /\ IndexSound)'
  BY <1>7 DEF RevokeOthersMembers, ListMembers, Finish, keys
<1>8. ASSUME NEW p \in Procs, NEW s \in Sids, ListHGetAll(p, s)
      PROVE  (OwnerKnown /\ IndexSound)'
  <2>1. CASE sess[s] = NoHash
    BY <1>8, <2>1 DEF ListHGetAll, keys, NoHash
  <2>2. CASE sess[s] # NoHash
    BY <1>8, <2>2 DEF ListHGetAll, ListNext, Finish, keys
  <2> QED
    BY <2>1, <2>2
<1>9. ASSUME NEW p \in Procs, ListSRem(p)
      PROVE  (OwnerKnown /\ IndexSound)'
  <2>1. req[p].user \in Users /\ req[p].sid \in Sids
    BY <1>9 DEF ListSRem
  <2>2. \A u \in Users : usess'[u].members \subseteq usess[u].members
    BY <1>9, <2>1 DEF ListSRem, Remove, NoIndex
  <2>3. IndexSound'
    BY <1>9, <2>2 DEF ListSRem
  <2>4. OwnerKnown'
    BY <1>9 DEF ListSRem, ListNext, Finish
  <2> QED
    BY <2>3, <2>4
<1>10. ASSUME NEW p \in Procs, NEW s \in Sids, DeleteHGet(p, s)
       PROVE  (OwnerKnown /\ IndexSound)'
  BY <1>10 DEF DeleteHGet, Deletion, keys
<1>11. ASSUME NEW p \in Procs, DeleteMulti(p)
       PROVE  (OwnerKnown /\ IndexSound)'
  BY <1>11 DEF DeleteMulti, Finish, Remove, NoIndex, NoHash, NoRef
<1>12. ASSUME NEW p \in Procs, Abort(p)
       PROVE  (OwnerKnown /\ IndexSound)'
  BY <1>12 DEF Abort, keys
<1>13. CASE Tick
  BY <1>13 DEF Tick, NoHash, NoRef, NoIndex
<1>14. CASE UNCHANGED vars
  BY <1>14 DEF vars
<1> QED
  BY <1>1, <1>2, <1>3, <1>4, <1>5, <1>6, <1>7, <1>8, <1>9, <1>10, <1>11, <1>12,
     <1>13, <1>14 DEF Next, Start, Continue

\* The request timeout keeps what a request has read recent.
LEMMA TimelyStep ==
    TypeOK /\ Drawn /\ Timely /\ [Next]_vars => Timely'
<1> SUFFICES ASSUME TypeOK, Drawn, Timely, [Next]_vars
             PROVE  Timely'
  OBVIOUS
<1> USE NoneAssumption, TimeAssumption
    DEF Active, At, Ready, Goto, GotoOwing, Return, Call, Idle, Timely
<1>a. /\ req \in [Procs -> Request] /\ sess \in [Sids -> Hash]
      /\ rt \in [Tokens -> Ref] /\ usess \in [Users -> Index]
      /\ now \in Nat
  BY DEF TypeOK
<1>b. \A p \in Procs : req[p].since \in Nat /\ Ready(req[p])
  BY DEF TypeOK, Request
<1>c. \A s \in Sids : /\ sess[s] \in Hash
                     /\ sess[s].created_at \in Nat /\ sess[s].exp \in Nat
  BY DEF TypeOK, Hash
<1>1. ASSUME NEW u \in Users, NEW s \in Sids, NEW t \in Tokens, Create(u, s, t)
      PROVE  Timely'
  BY <1>1, <1>a, <1>b, <1>c DEF Create, IndexWith
<1>2. ASSUME NEW p \in Procs, NEW t \in Tokens,
             RotateGetDel(p, t) \/ LogoutGetDel(p, t)
      PROVE  Timely'
  BY <1>2, <1>a, <1>b, <1>c DEF RotateGetDel, LogoutGetDel, GetDel, NoRef
<1>3. ASSUME NEW p \in Procs, NEW s \in Sids, NEW pc \in Handlers,
             Authenticate(p, s, pc)
      PROVE  Timely'
  BY <1>3, <1>a, <1>b, <1>c DEF Authenticate, Handlers, keys
<1>4. ASSUME NEW p \in Procs, RotateHGetAll(p) \/ LogoutHGet(p)
      PROVE  Timely'
  BY <1>4, <1>a, <1>b, <1>c
     DEF RotateHGetAll, LogoutHGet, Finish, PastCap, keys
<1>5. ASSUME NEW p \in Procs, NEW t \in Tokens, RotateMulti(p, t)
      PROVE  Timely'
  BY <1>5, <1>a, <1>b, <1>c
     DEF RotateMulti, Finish, RotatedHash, ExtendedIndex, NoIndex
<1>6. ASSUME NEW p \in Procs, NEW s \in Sids, RevokeHGet(p, s)
      PROVE  Timely'
  BY <1>6, <1>a, <1>b, <1>c DEF RevokeHGet, OwnedBy, Finish, keys
<1>7. ASSUME NEW p \in Procs, RevokeOthersMembers(p) \/ ListMembers(p)
      PROVE  Timely'
  BY <1>7, <1>a, <1>b, <1>c DEF RevokeOthersMembers, ListMembers, Finish, keys
<1>8. ASSUME NEW p \in Procs, NEW s \in Sids, ListHGetAll(p, s)
      PROVE  Timely'
  BY <1>8, <1>a, <1>b, <1>c DEF ListHGetAll, ListNext, Finish, keys, NoHash
<1>9. ASSUME NEW p \in Procs, ListSRem(p)
      PROVE  Timely'
  BY <1>9, <1>a, <1>b, <1>c DEF ListSRem, ListNext, Finish, Remove, NoIndex
<1>10. ASSUME NEW p \in Procs, NEW s \in Sids, DeleteHGet(p, s)
       PROVE  Timely'
  BY <1>10, <1>a, <1>b, <1>c DEF DeleteHGet, Deletion, keys
<1>11. ASSUME NEW p \in Procs, DeleteMulti(p)
       PROVE  Timely'
  BY <1>11, <1>a, <1>b, <1>c
     DEF DeleteMulti, Finish, Remove, NoIndex, NoHash, NoRef
<1>12. ASSUME NEW p \in Procs, Abort(p)
       PROVE  Timely'
  BY <1>12, <1>a, <1>b, <1>c DEF Abort, keys
<1>13. CASE Tick
  BY <1>13, <1>a, <1>b, <1>c DEF Tick, NoHash, NoRef, NoIndex
<1>14. CASE UNCHANGED vars
  BY <1>14 DEF vars
<1> QED
  BY <1>1, <1>2, <1>3, <1>4, <1>5, <1>6, <1>7, <1>8, <1>9, <1>10, <1>11, <1>12,
     <1>13, <1>14 DEF Next, Start, Continue


\* A rotation admitted by the test of the cap writes a bounded deadline.
LEMMA CapStep ==
    TypeOK /\ Timely /\ CapBound /\ [Next]_vars => CapBound'
<1> SUFFICES ASSUME TypeOK, Timely, CapBound, [Next]_vars
             PROVE  CapBound'
  OBVIOUS
<1> USE NoneAssumption, TimeAssumption
    DEF TypeOK, Active, At, Ready, Goto, GotoOwing, Return, Call, Idle,
        Timely, CapBound, Hash, Request
<1>1. ASSUME NEW u \in Users, NEW s \in Sids, NEW t \in Tokens, Create(u, s, t)
      PROVE  CapBound'
  BY <1>1 DEF Create, IndexWith
<1>2. ASSUME NEW p \in Procs, NEW t \in Tokens,
             RotateGetDel(p, t) \/ LogoutGetDel(p, t)
      PROVE  CapBound'
  BY <1>2 DEF RotateGetDel, LogoutGetDel, GetDel, NoRef
<1>3. ASSUME NEW p \in Procs, NEW s \in Sids, NEW pc \in Handlers,
             Authenticate(p, s, pc)
      PROVE  CapBound'
  BY <1>3 DEF Authenticate, Handlers, keys
<1>4. ASSUME NEW p \in Procs, RotateHGetAll(p) \/ LogoutHGet(p)
      PROVE  CapBound'
  BY <1>4 DEF RotateHGetAll, LogoutHGet, Finish, PastCap, keys
<1>5. ASSUME NEW p \in Procs, NEW t \in Tokens, RotateMulti(p, t)
      PROVE  CapBound'
  BY <1>5 DEF RotateMulti, Finish, RotatedHash, ExtendedIndex, NoIndex
<1>6. ASSUME NEW p \in Procs, NEW s \in Sids, RevokeHGet(p, s)
      PROVE  CapBound'
  BY <1>6 DEF RevokeHGet, OwnedBy, Finish, keys
<1>7. ASSUME NEW p \in Procs, RevokeOthersMembers(p) \/ ListMembers(p)
      PROVE  CapBound'
  BY <1>7 DEF RevokeOthersMembers, ListMembers, Finish, keys
<1>8. ASSUME NEW p \in Procs, NEW s \in Sids, ListHGetAll(p, s)
      PROVE  CapBound'
  BY <1>8 DEF ListHGetAll, ListNext, Finish, keys
<1>9. ASSUME NEW p \in Procs, ListSRem(p)
      PROVE  CapBound'
  BY <1>9 DEF ListSRem, ListNext, Finish, Remove, NoIndex
<1>10. ASSUME NEW p \in Procs, NEW s \in Sids, DeleteHGet(p, s)
       PROVE  CapBound'
  BY <1>10 DEF DeleteHGet, Deletion, keys
<1>11. ASSUME NEW p \in Procs, DeleteMulti(p)
       PROVE  CapBound'
  BY <1>11 DEF DeleteMulti, Finish, Remove, NoIndex, NoHash, NoRef
<1>12. ASSUME NEW p \in Procs, Abort(p)
       PROVE  CapBound'
  BY <1>12 DEF Abort, keys
<1>13. CASE Tick
  BY <1>13 DEF Tick, NoHash, NoRef, NoIndex
<1>14. CASE UNCHANGED vars
  BY <1>14 DEF vars
<1> QED
  BY <1>1, <1>2, <1>3, <1>4, <1>5, <1>6, <1>7, <1>8, <1>9, <1>10, <1>11, <1>12,
     <1>13, <1>14 DEF Next, Start, Continue

\* Every write that extends a session extends the index of its owner further.
LEMMA IndexStep ==
    /\ IdleTTL <= AbsTTL
    /\ TypeOK /\ Drawn /\ OwnerKnown /\ Timely /\ IndexOutlives /\ IndexComplete
    /\ [Next]_vars
    => (IndexOutlives /\ IndexComplete)'
<1> SUFFICES ASSUME IdleTTL <= AbsTTL, TypeOK, Drawn, OwnerKnown, Timely,
                    IndexOutlives, IndexComplete, [Next]_vars
             PROVE  (IndexOutlives /\ IndexComplete)'
  OBVIOUS
<1> USE NoneAssumption, TimeAssumption
    DEF TypeOK, Active, At, Ready, Goto, GotoOwing, Return, Call, Idle, Drawn,
        OwnerKnown, IndexOutlives, IndexComplete, Hash, Index, Request
<1>1. ASSUME NEW u \in Users, NEW s \in Sids, NEW t \in Tokens, Create(u, s, t)
      PROVE  (IndexOutlives /\ IndexComplete)'
  BY <1>1 DEF Create, IndexWith, Timely
<1>2. ASSUME NEW p \in Procs, NEW t \in Tokens,
             RotateGetDel(p, t) \/ LogoutGetDel(p, t)
      PROVE  (IndexOutlives /\ IndexComplete)'
  BY <1>2 DEF RotateGetDel, LogoutGetDel, GetDel, NoRef
<1>3. ASSUME NEW p \in Procs, NEW s \in Sids, NEW pc \in Handlers,
             Authenticate(p, s, pc)
      PROVE  (IndexOutlives /\ IndexComplete)'
  BY <1>3 DEF Authenticate, Handlers, keys
<1>4. ASSUME NEW p \in Procs, RotateHGetAll(p) \/ LogoutHGet(p)
      PROVE  (IndexOutlives /\ IndexComplete)'
  BY <1>4 DEF RotateHGetAll, LogoutHGet, Finish, PastCap, keys
<1>5. ASSUME NEW p \in Procs, NEW t \in Tokens, RotateMulti(p, t)
      PROVE  (IndexOutlives /\ IndexComplete)'
  BY <1>5 DEF RotateMulti, Finish, RotatedHash, ExtendedIndex, NoIndex, Timely
<1>6. ASSUME NEW p \in Procs, NEW s \in Sids, RevokeHGet(p, s)
      PROVE  (IndexOutlives /\ IndexComplete)'
  BY <1>6 DEF RevokeHGet, OwnedBy, Finish, keys
<1>7. ASSUME NEW p \in Procs, RevokeOthersMembers(p) \/ ListMembers(p)
      PROVE  (IndexOutlives /\ IndexComplete)'
  BY <1>7 DEF RevokeOthersMembers, ListMembers, Finish, keys
<1>8. ASSUME NEW p \in Procs, NEW s \in Sids, ListHGetAll(p, s)
      PROVE  (IndexOutlives /\ IndexComplete)'
  BY <1>8 DEF ListHGetAll, ListNext, Finish, keys
<1>9. ASSUME NEW p \in Procs, ListSRem(p)
      PROVE  (IndexOutlives /\ IndexComplete)'
  BY <1>9 DEF ListSRem, ListNext, Finish, Remove, NoIndex
<1>10. ASSUME NEW p \in Procs, NEW s \in Sids, DeleteHGet(p, s)
       PROVE  (IndexOutlives /\ IndexComplete)'
  BY <1>10 DEF DeleteHGet, Deletion, keys
<1>11. ASSUME NEW p \in Procs, DeleteMulti(p)
       PROVE  (IndexOutlives /\ IndexComplete)'
  BY <1>11 DEF DeleteMulti, Finish, Remove, NoIndex, NoHash, NoRef
<1>12. ASSUME NEW p \in Procs, Abort(p)
       PROVE  (IndexOutlives /\ IndexComplete)'
  BY <1>12 DEF Abort, keys
<1>13. CASE Tick
  BY <1>13 DEF Tick, NoHash, NoRef, NoIndex
<1>14. CASE UNCHANGED vars
  BY <1>14 DEF vars
<1> QED
  BY <1>1, <1>2, <1>3, <1>4, <1>5, <1>6, <1>7, <1>8, <1>9, <1>10, <1>11, <1>12,
     <1>13, <1>14 DEF Next, Start, Continue

\* A revocation loses track of no session it has to end.
LEMMA OwedStep ==
    TypeOK /\ Drawn /\ IndexComplete /\ OwedPending /\ RevocationHolds /\ [Next]_vars
        => (OwedPending /\ RevocationHolds)'
<1> SUFFICES ASSUME TypeOK, Drawn, IndexComplete, OwedPending,
                    RevocationHolds, [Next]_vars
             PROVE  (OwedPending /\ RevocationHolds)'
  OBVIOUS
<1> USE NoneAssumption, TimeAssumption
    DEF TypeOK, Active, At, Ready, Goto, GotoOwing, Return, Call, Idle, Drawn,
        OwnerKnown, IndexComplete, OwedPending, RevocationHolds, OnTheList,
        Hash, Index, Request
<1>1. ASSUME NEW u \in Users, NEW s \in Sids, NEW t \in Tokens, Create(u, s, t)
      PROVE  (OwedPending /\ RevocationHolds)'
  BY <1>1 DEF Create, IndexWith
<1>2. ASSUME NEW p \in Procs, NEW t \in Tokens,
             RotateGetDel(p, t) \/ LogoutGetDel(p, t)
      PROVE  (OwedPending /\ RevocationHolds)'
  BY <1>2 DEF RotateGetDel, LogoutGetDel, GetDel, NoRef
<1>3. ASSUME NEW p \in Procs, NEW s \in Sids, NEW pc \in Handlers,
             Authenticate(p, s, pc)
      PROVE  (OwedPending /\ RevocationHolds)'
  BY <1>3 DEF Authenticate, Handlers, keys
<1>4. ASSUME NEW p \in Procs, RotateHGetAll(p) \/ LogoutHGet(p)
      PROVE  (OwedPending /\ RevocationHolds)'
  <2> DEFINE s == req[p].sid
  <2>1. s \in Sids /\ sess' = sess
    BY <1>4 DEF RotateHGetAll, LogoutHGet, keys
  <2>2. \A x \in owed[p] : Active(x) => At(p, "logout_hget") /\ x = s
    BY <1>4 DEF RotateHGetAll, LogoutHGet
  <2>3. CASE Finish(p)
    BY <2>1, <2>2, <2>3, <1>4 DEF Finish, RotateHGetAll, LogoutHGet
  <2>4. CASE Goto(p, Call("delete_hget", sess[s].user_id, NONE, {s},
                          req[p].since))
    BY <2>1, <2>2, <2>4
  <2>5. CASE /\ At(p, "rotate_hgetall")
             /\ Goto(p, Call("rotate_multi", sess[s].user_id, s, {},
                             req[p].since))
    BY <2>1, <2>2, <2>5
  <2> QED
    BY <1>4, <2>3, <2>4, <2>5 DEF RotateHGetAll, LogoutHGet
<1>5. ASSUME NEW p \in Procs, NEW t \in Tokens, RotateMulti(p, t)
      PROVE  (OwedPending /\ RevocationHolds)'
  BY <1>5 DEF RotateMulti, Finish, RotatedHash, ExtendedIndex, NoIndex
<1>6. ASSUME NEW p \in Procs, NEW s \in Sids, RevokeHGet(p, s)
      PROVE  (OwedPending /\ RevocationHolds)'
  <2>1. sess' = sess /\ owed[p] \in SUBSET Sids
    BY <1>6 DEF RevokeHGet, keys
  <2>2. \A x \in owed[p] : ~Active(x)
    BY <1>6 DEF RevokeHGet
  <2>3. CASE Finish(p)
    BY <2>1, <2>2, <2>3, <1>6 DEF Finish, RevokeHGet
  <2>4. CASE GotoOwing(p, Call("delete_hget", req[p].user, NONE, {s},
                               req[p].since), {s})
    BY <2>1, <2>4
  <2> QED
    BY <1>6, <2>3, <2>4 DEF RevokeHGet
<1>7. ASSUME NEW p \in Procs, RevokeOthersMembers(p) \/ ListMembers(p)
      PROVE  (OwedPending /\ RevocationHolds)'
  <2> DEFINE u == req[p].user
             others == usess[u].members \ {req[p].sid}
             due == {s \in Sids \ {req[p].sid} : sess[s].user_id = u}
  <2>1. sess' = sess /\ u \in Users /\ owed[p] \in SUBSET Sids
    BY <1>7 DEF RevokeOthersMembers, ListMembers, keys
  <2>2. \A x \in owed[p] : ~Active(x)
    BY <1>7 DEF RevokeOthersMembers, ListMembers
  <2>3. due \subseteq others
    BY <2>1
  <2>4. CASE Finish(p)
    BY <2>1, <2>2, <2>4, <1>7 DEF Finish, RevokeOthersMembers, ListMembers
  <2>5. CASE Return(p, due) /\ others = {}
    BY <2>1, <2>3, <2>5
  <2>6. CASE GotoOwing(p, Call("delete_hget", u, NONE, others,
                               req[p].since), due)
    <3> HIDE DEF due, others
    <3> QED
      BY <2>1, <2>3, <2>6
  <2>7. CASE Goto(p, Call("list_hgetall", u, NONE, usess[u].members,
                          req[p].since))
    BY <2>1, <2>2, <2>7
  <2> QED
    BY <1>7, <2>4, <2>5, <2>6, <2>7 DEF RevokeOthersMembers, ListMembers
<1>8. ASSUME NEW p \in Procs, NEW s \in Sids, ListHGetAll(p, s)
      PROVE  (OwedPending /\ RevocationHolds)'
  BY <1>8 DEF ListHGetAll, ListNext, Finish, keys
<1>9. ASSUME NEW p \in Procs, ListSRem(p)
      PROVE  (OwedPending /\ RevocationHolds)'
  BY <1>9 DEF ListSRem, ListNext, Finish, Remove, NoIndex
<1>10. ASSUME NEW p \in Procs, NEW s \in Sids, DeleteHGet(p, s)
       PROVE  (OwedPending /\ RevocationHolds)'
  BY <1>10 DEF DeleteHGet, Deletion, keys
<1>11. ASSUME NEW p \in Procs, DeleteMulti(p)
       PROVE  (OwedPending /\ RevocationHolds)'
  <2> DEFINE s == req[p].sid
  <2>1. s \in Sids /\ sess' = [sess EXCEPT ![s] = NoHash]
    BY <1>11 DEF DeleteMulti
  <2>2. \A x \in Sids : Active(x)' => Active(x) /\ x # s
    BY <2>1 DEF NoHash
  <2>3. \A x \in owed[p] : Active(x) => x = s \/ x \in req[p].todo
    BY <1>11 DEF DeleteMulti
  <2>4. CASE Finish(p) /\ req[p].todo = {}
    BY <2>2, <2>3, <2>4 DEF Finish
  <2>5. CASE Goto(p, Call("delete_hget", req[p].user, NONE, req[p].todo,
                          req[p].since))
    BY <2>2, <2>3, <2>5
  <2> QED
    BY <1>11, <2>4, <2>5 DEF DeleteMulti
<1>12. ASSUME NEW p \in Procs, Abort(p)
       PROVE  (OwedPending /\ RevocationHolds)'
  BY <1>12 DEF Abort, keys
<1>13. CASE Tick
  BY <1>13 DEF Tick, NoHash, NoRef, NoIndex
<1>14. CASE UNCHANGED vars
  BY <1>14 DEF vars
<1> QED
  BY <1>1, <1>2, <1>3, <1>4, <1>5, <1>6, <1>7, <1>8, <1>9, <1>10, <1>11, <1>12,
     <1>13, <1>14 DEF Next, Start, Continue

-----------------------------------------------------------------------------
(* The theorems.                                                           *)

\* The initial state satisfies every invariant.
LEMMA InitConsistent ==
    Init => /\ Drawn /\ OwnerKnown /\ IndexSound /\ Timely /\ IndexOutlives
            /\ OwedPending /\ RefreshChainLinear /\ HashNamesToken
            /\ IndexComplete /\ RevocationHolds /\ CapBound
  BY NoneAssumption, TimeAssumption
     DEF Init, NoHash, NoRef, NoIndex, Idle, Call, At, Active, Drawn,
         OwnerKnown,
         IndexSound, Timely, IndexOutlives, OwedPending, RefreshChainLinear,
         Redeems, Holds, HashNamesToken, IndexComplete, RevocationHolds, CapBound

\* Drawn is an invariant.
LEMMA AllDrawn == Spec => []Drawn
  BY InitConsistent, DrawnStep, TypeCorrect, PTL DEF Spec

\* OwnerKnown and IndexSound are invariants together.
LEMMA OwnersKnown == Spec => [](OwnerKnown /\ IndexSound)
  BY InitConsistent, OwnerStep, AllDrawn, TypeCorrect, PTL DEF Spec

\* Timely is an invariant.
LEMMA AlwaysTimely == Spec => []Timely
  BY InitConsistent, TimelyStep, AllDrawn, TypeCorrect, PTL DEF Spec

\* The refresh tokens of every session form one chain: GETDEL has one winner,
\* and from a rotation's GETDEL to its MULTI no other token redeems the session.
THEOREM RefreshLinear == Spec => []RefreshChainLinear
  BY InitConsistent, ChainStep, AllDrawn, TypeCorrect, PTL DEF Spec

\* The hash of an active session names its redeemable token.
THEOREM HashesNameTokens == Spec => []HashNamesToken
  BY InitConsistent, HashStep, RefreshLinear, AllDrawn, TypeCorrect, PTL
     DEF Spec

\* A request never ends a session of a user other than its own.
THEOREM OnlyOwnDeletions == Spec => DeletesOwnSessions
<1>1. TypeOK /\ OwnerKnown /\ [Next]_vars => [OwnDeletion]_vars
  <2> SUFFICES ASSUME TypeOK, OwnerKnown, [Next]_vars,
                      NEW p \in Procs, NEW s \in Sids,
                      At(p, "delete_multi"), ~At(p, "delete_multi")',
                      Active(s), ~Active(s)'
               PROVE  sess[s].user_id = req[p].user
    BY DEF OwnDeletion
  <2>1. ASSUME NEW q \in Procs, DeleteMulti(q)
        PROVE  q = p /\ req[q].sid = s
    BY <2>1, NoneAssumption
       DEF DeleteMulti, Active, At, Finish, Return, Goto, Call, Idle, TypeOK
  <2>2. ASSUME NEW u \in Users, NEW x \in Sids, NEW t \in Tokens, Create(u, x,
               t)
        PROVE  FALSE
    BY <2>2 DEF Create, At
  <2>3. ASSUME NEW q \in Procs, NEW t \in Tokens, RotateMulti(q, t)
        PROVE  FALSE
    BY <2>3 DEF RotateMulti, RotatedHash, Active, TypeOK, Hash
  <2>4. CASE Tick
    BY <2>4 DEF Tick, At
  <2>5. CASE sess' = sess
    BY <2>5 DEF Active
  <2> QED
    BY <2>1, <2>2, <2>3, <2>4, <2>5, HashSteps DEF OwnerKnown
<1> QED
  BY <1>1, OwnersKnown, TypeCorrect, PTL DEF Spec, DeletesOwnSessions

\* The cap bounds the life of every session.
THEOREM CapHolds == Spec => []CapBound
  BY InitConsistent, CapStep, AlwaysTimely, TypeCorrect, PTL DEF Spec

\* With an idle lifetime no longer than the cap, the index is complete.
THEOREM IndexIsComplete == IdleTTL <= AbsTTL => (Spec => []IndexComplete)
<1> SUFFICES ASSUME IdleTTL <= AbsTTL PROVE Spec => []IndexComplete
  OBVIOUS
<1>1. TypeOK /\ Drawn /\ OwnerKnown /\ Timely /\ IndexOutlives /\ IndexComplete
        /\ [Next]_vars => (IndexOutlives /\ IndexComplete)'
  BY IndexStep
<1> QED
  BY <1>1, InitConsistent, OwnersKnown, AlwaysTimely, AllDrawn, TypeCorrect,
     PTL
     DEF Spec

\* Under the same condition a revocation that has answered holds for good.
THEOREM RevocationIsFinal == IdleTTL <= AbsTTL => (Spec => []RevocationHolds)
<1> SUFFICES ASSUME IdleTTL <= AbsTTL PROVE Spec => []RevocationHolds
  OBVIOUS
<1>1. Spec => []IndexComplete
  BY IndexIsComplete
<1> QED
  BY <1>1, InitConsistent, OwedStep, AllDrawn, TypeCorrect, PTL DEF Spec

-----------------------------------------------------------------------------
(* Refinement.                                                             *)

\* Every step is a step of the lifecycle, or changes none of its variables.
LEMMA LifecycleStep ==
    TypeOK /\ Drawn /\ RefreshChainLinear /\ [Next]_vars
        => [Lifecycle!Next]_(Lifecycle!vars)
<1> SUFFICES ASSUME TypeOK, Drawn, RefreshChainLinear, [Next]_vars
             PROVE  [Lifecycle!Next]_(Lifecycle!vars)
  OBVIOUS
<1> USE DEF Active
<1>1. ASSUME NEW u \in Users, NEW s \in Sids, NEW t \in Tokens, Create(u, s, t)
      PROVE  Lifecycle!Open(u, s)
  <2> USE NoneAssumption DEF TypeOK
  <2>1. LiveView[s] = NONE /\ s \notin RetiredView
    BY <1>1 DEF Create, Drawn, LiveView, RetiredView
  <2>2. LiveView' = [LiveView EXCEPT ![s] = u]
    BY <1>1 DEF Create, LiveView
  <2>3. RetiredView' = RetiredView
    BY <1>1 DEF Create, RetiredView
  <2>4. /\ \A x \in Tokens, z \in Sids :
               Redeems(x, z)' <=> (x = t /\ z = s) \/ (x # t /\ Redeems(x, z))
        /\ \A z \in Sids : ~Redeems(t, z)
        /\ \A q \in Procs, z \in Sids : Holds(q, z)' <=> Holds(q, z)
    BY <1>1 DEF Create, Redeems, Holds, Drawn
  <2>5. ChainView' = [ChainView EXCEPT ![s] = "token"]
    BY <2>4 DEF ChainView
  <2> QED
    BY <2>1, <2>2, <2>3, <2>5 DEF Lifecycle!Open
<1>2. ASSUME NEW p \in Procs, NEW t \in Tokens,
             RotateGetDel(p, t) \/ LogoutGetDel(p, t)
      PROVE  \E s \in Sids : Lifecycle!Redeem(s)
  <2>1. PICK s \in Sids : s = rt[t].sid
    BY <1>2, TakeStep
  <2>2. LiveView' = LiveView /\ RetiredView' = RetiredView
    BY <1>2, TakeStep DEF LiveView, RetiredView
  <2>3. ChainView[s] = "token"
    BY <1>2, <2>1, TakeStep DEF ChainView
  <2>4. ASSUME NEW z \in Sids, z # s
        PROVE  ChainView'[z] = ChainView[z]
    <3>1. ~Redeems(t, z)
      BY <2>1, <2>4 DEF Redeems
    <3>2. \A x \in Tokens : Redeems(x, z)' <=> Redeems(x, z)
      BY <1>2, <3>1, TakeStep
    <3>3. \A q \in Procs : Holds(q, z)' <=> Holds(q, z)
      <4>1. \A q \in Procs : Holds(q, z)' <=> q # p /\ Holds(q, z)
        BY <1>2, <2>1, <2>4, TakeStep
      <4> QED
        BY <1>2, <4>1, TakeStep
    <3> QED
      BY <3>2, <3>3 DEF ChainView
  <2>5. ChainView'[s] = "held"
    <3>1. \A x \in Tokens : ~Redeems(x, s)'
      BY <1>2, <2>1, TakeStep
    <3>2. Holds(p, s)'
      BY <1>2, <2>1, TakeStep
    <3> QED
      BY <3>1, <3>2 DEF ChainView
  <2>6. ChainView' = [ChainView EXCEPT ![s] = "held"]
    BY <2>4, <2>5 DEF ChainView
  <2> QED
    BY <2>2, <2>3, <2>6 DEF Lifecycle!Redeem
<1>3. ASSUME NEW p \in Procs, NEW t \in Tokens, RotateMulti(p, t)
      PROVE  \E s \in Sids : Lifecycle!Renew(s)
  <2>1. PICK s \in Sids : s = req[p].sid
    BY <1>3, InstallStep
  <2>2. LiveView' = LiveView /\ RetiredView' = RetiredView
    BY <1>3, InstallStep DEF LiveView, RetiredView, TypeOK
  <2>3. ChainView[s] = "held"
    BY <1>3, <2>1, InstallStep DEF ChainView
  <2>4. ASSUME NEW z \in Sids, z # s
        PROVE  ChainView'[z] = ChainView[z]
    <3>1. ~Holds(p, z)
      BY <1>3, <2>1, <2>4, InstallStep
    <3>2. \A x \in Tokens : Redeems(x, z)' <=> Redeems(x, z)
      BY <1>3, <2>1, <2>4, InstallStep
    <3>3. \A q \in Procs : Holds(q, z)' <=> Holds(q, z)
      BY <1>3, <3>1, InstallStep
    <3> QED
      BY <3>2, <3>3 DEF ChainView
  <2>5. ChainView'[s] = "token"
    <3>1. Redeems(t, s)'
      BY <1>3, <2>1, InstallStep
    <3> QED
      BY <3>1 DEF ChainView
  <2>6. ChainView' = [ChainView EXCEPT ![s] = "token"]
    BY <2>4, <2>5 DEF ChainView
  <2> QED
    BY <2>2, <2>3, <2>6 DEF Lifecycle!Renew
<1>4. CASE Shrinking
  <2> DEFINE ending == {s \in Sids : Active(s) /\ ~Active(s)'}
             breaking == {s \in Sids : ChainView'[s] = "none"}
  <2>1. \A s \in ending : LiveView[s] # NONE
    BY DEF LiveView
  <2>2. LiveView' = [s \in Sids |-> IF s \in ending THEN NONE ELSE LiveView[s]]
    BY <1>4 DEF LiveView, Shrinking
  <2>3. RetiredView' = RetiredView \cup ending
    BY <1>4, NoneAssumption DEF RetiredView, Shrinking, Drawn, TypeOK
  <2>4. \A s \in Sids : ChainView'[s] # "none" => ChainView'[s] = ChainView[s]
    BY <1>4 DEF Shrinking, ChainView, RefreshChainLinear
  <2>5. ChainView' = [s \in Sids |-> IF s \in breaking THEN "none" ELSE ChainView[s]]
    BY <2>4 DEF ChainView
  <2> HIDE DEF ending, breaking
  <2>6. Lifecycle!Lapse(ending, breaking)
    BY <2>1, <2>2, <2>3, <2>5 DEF Lifecycle!Lapse
  <2> QED
    BY <2>6 DEF Lifecycle!Next, ending, breaking
<1> QED
  BY <1>1, <1>2, <1>3, <1>4, ChainSteps DEF Lifecycle!Next

\* The store implements SessionLifecycle, whatever the interleaving.
THEOREM StoreImplementsLifecycle == Spec => ImplementsLifecycle
<1>1. Init => Lifecycle!Init
  BY NoneAssumption
     DEF Init, Lifecycle!Init, LiveView, RetiredView, ChainView, NoHash, NoRef,
         Idle, Call, Redeems, Holds
<1> QED
  BY <1>1, LifecycleStep, RefreshLinear, AllDrawn, TypeCorrect, PTL
     DEF Spec, ImplementsLifecycle, Lifecycle!Spec
=============================================================================
