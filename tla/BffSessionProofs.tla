-------------------------- MODULE BffSessionProofs --------------------------
(* What holds of BffSession for every value of its constants.               *)
EXTENDS BffSession, TLAPS

-----------------------------------------------------------------------------
(* Types.                                                                  *)

\* The assumptions on the numbers, with what arithmetic makes of them.
LEMMA Numbers ==
    /\ AccessTTL \in Nat /\ Leeway \in Nat /\ Skew \in Nat /\ ApiTimeout \in Nat
    /\ MaxGen \in Nat
    /\ Skew >= 2 * ApiTimeout /\ AccessTTL > Skew
  BY SkewAssumption

\* Sealed builds seals, and ageing one keeps its type.
LEMMA SealTypes ==
    /\ NoSeal \in Seal
    /\ \A s \in Sids, g \in 0..MaxGen, b \in 0..AccessTTL,
          l \in 0..(AccessTTL + Leeway) : Sealed(s, g, b, l) \in Seal
    /\ \A seal \in Seal : Older(seal) \in Seal /\ Sealed(seal.sid, 0, 0, 0) \in Seal
  BY Numbers DEF Seal, Sealed, NoSeal, Older, Less

\* State builds requests.
LEMMA StateTypes ==
    ASSUME NEW k \in Kinds, NEW pc \in {"idle"} \cup Waiting \cup Answered,
           NEW seal \in Seal, NEW out \in {"keep", "set", "clear"},
           NEW age \in 0..ApiTimeout, NEW e \in BOOLEAN
    PROVE  /\ State(k, pc, seal, out, age, e) \in Request
           /\ State(k, pc, seal, out, age, e).pc = pc
           /\ State(k, pc, seal, out, age, e).kind = k
           /\ State(k, pc, seal, out, age, e).seal = seal
           /\ State(k, pc, seal, out, age, e).out = out
           /\ State(k, pc, seal, out, age, e).age = age
  BY DEF State, Request

\* The part of TypeOK about the requests.
ReqOK ==
    /\ req \in [Procs -> Request]
    /\ \A p \in Procs : req[p].pc \in Waiting \ {"login"} => req[p].seal.sid \in Sids

\* Go keeps the requests well typed.
LEMMA GoTypes ==
    ASSUME ReqOK, NEW p \in Procs, NEW pc \in Waiting \cup Answered,
           NEW seal \in Seal, NEW out \in {"keep", "set", "clear"},
           NEW age \in 0..ApiTimeout,
           pc \in Waiting \ {"login"} => seal.sid \in Sids,
           Go(p, pc, seal, out, age)
    PROVE  ReqOK'
<1>1. req[p].kind \in Kinds /\ req[p].entitled \in BOOLEAN
  BY DEF ReqOK, Request
<1> DEFINE new == State(req[p].kind, pc, seal, out, age, req[p].entitled)
<1>2. new \in Request /\ new.pc = pc /\ new.seal = seal
  <2>1. pc \in {"idle"} \cup Waiting \cup Answered
    OBVIOUS
  <2> QED
    BY <1>1, <2>1, StateTypes DEF new
<1>3. req' = [req EXCEPT ![p] = new]
  BY DEF Go
<1> HIDE DEF new
<1> QED
  BY <1>2, <1>3 DEF ReqOK

\* So do answers.
LEMMA AnswerTypes ==
    ASSUME ReqOK, NEW p \in Procs, NEW pc \in Answered,
           NEW out \in {"keep", "set", "clear"}, Answer(p, pc, out)
    PROVE  ReqOK'
<1>1. req[p].seal \in Seal
  BY DEF ReqOK, Request
<1> DEFINE seal == IF out = "set" THEN req[p].seal ELSE Sealed(Sid(p), 0, 0, 0)
<1>2. seal \in Seal
  BY <1>1, SealTypes DEF Sid
<1>3. Go(p, pc, seal, out, 0)
  BY DEF Answer
<1>4. 0 \in 0..ApiTimeout /\ pc \in Waiting \cup Answered /\ pc \notin Waiting
  BY Numbers DEF Waiting, Answered
<1> HIDE DEF seal
<1> QED
  BY <1>2, <1>3, <1>4, GoTypes

\* And what ends a session at the Next server.
LEMMA DestroyTypes ==
    ASSUME ReqOK, NEW p \in Procs, Destroy(p)
    PROVE  ReqOK'
<1>1. "to_login" \in Answered /\ "error" \in Answered
  BY DEF Answered
<1> QED
  BY <1>1, AnswerTypes DEF Destroy

\* And the answers of the backend that bring tokens.
LEMMA IssueTypes ==
    ASSUME ReqOK, NEW p \in Procs, NEW s \in Sids, NEW g \in 0..MaxGen,
           Issue(p, s, g)
    PROVE  ReqOK'
<1> DEFINE seal == Sealed(s, g, 0, AccessTTL + Leeway)
<1>1. seal \in Seal /\ seal.sid = s
  <2>1. 0 \in 0..AccessTTL /\ AccessTTL + Leeway \in 0..(AccessTTL + Leeway)
    BY Numbers
  <2>2. seal \in Seal
    BY <2>1, SealTypes
  <2> QED
    BY <2>2 DEF Sealed
<1>2. req[p].out \in {"keep", "set", "clear"} /\ req[p].age \in 0..ApiTimeout
  BY DEF ReqOK, Request
<1>3. Go(p, "issued", seal, req[p].out, req[p].age)
  BY DEF Issue
<1>4. "issued" \in Waiting
  BY DEF Waiting
<1> HIDE DEF seal
<1> QED
  BY <1>1, <1>2, <1>3, <1>4, GoTypes

\* And a request that has just been sent.
LEMMA SendTypes ==
    ASSUME ReqOK, NEW p \in Procs, NEW k \in Kinds, NEW pc \in Waiting,
           NEW seal \in Seal, NEW e \in BOOLEAN,
           pc # "login" => seal.sid \in Sids,
           req' = [req EXCEPT ![p] = State(k, pc, seal, "keep", 0, e)]
    PROVE  ReqOK'
<1> DEFINE new == State(k, pc, seal, "keep", 0, e)
<1>1. new \in Request /\ new.pc = pc /\ new.seal = seal
  <2>1. pc \in {"idle"} \cup Waiting \cup Answered /\ 0 \in 0..ApiTimeout
    BY Numbers
  <2> QED
    BY <2>1, StateTypes DEF new
<1> HIDE DEF new
<1> QED
  BY <1>1 DEF ReqOK, new

\* The part about the backend.
BackendOK ==
    /\ live \in [Sids -> Users \cup {NONE}]
    /\ retired \subseteq Sids
    /\ chain \in [Sids -> {"token", "held", "none"}]

\* Every operation of the backend keeps its types.
LEMMA BackendTypes ==
    ASSUME BackendOK,
           \/ \E u \in Users, s \in Sids : Backend!Open(u, s)
           \/ \E s \in Sids : Backend!Redeem(s) \/ Backend!Renew(s)
           \/ \E ending, breaking \in SUBSET Sids : Backend!Lapse(ending, breaking)
           \/ UNCHANGED backend
    PROVE  BackendOK'
  BY DEF BackendOK, Backend!Open, Backend!Redeem, Backend!Renew, Backend!Lapse,
         backend

\* A step of one request keeps the types.
LEMMA ServeTypes ==
    ASSUME TypeOK, NEW p \in Procs, Serve(p)
    PROVE  TypeOK'
<1> USE Numbers
<1>0. /\ BackendOK /\ ReqOK
      /\ gen \in [Sids -> 0..MaxGen] /\ jar \in Seal
      /\ req[p] \in Request
      /\ req[p].seal \in Seal
      /\ req[p].out \in {"keep", "set", "clear"}
      /\ req[p].age \in 0..ApiTimeout
      /\ (req[p].pc \in Waiting \ {"login"} => Sid(p) \in Sids)
  BY DEF TypeOK, BackendOK, ReqOK, Request, Sid
<1> SUFFICES BackendOK' /\ ReqOK' /\ gen' \in [Sids -> 0..MaxGen] /\ jar' \in Seal
  BY DEF TypeOK, BackendOK, ReqOK
<1>1. CASE SendLogin(p)
  <2>1. NoSeal \in Seal /\ "login" \in Kinds /\ "login" \in Waiting
    BY SealTypes DEF Kinds, Waiting
  <2>2. ReqOK'
    BY <1>0, <1>1, <2>1, SendTypes DEF SendLogin
  <2> QED
    BY <1>0, <1>1, <2>2, BackendTypes DEF SendLogin
<1>2. CASE SendLogout(p)
  <2>1. "logout" \in Kinds /\ "logout" \in Waiting /\ jar.sid \in Sids
    BY <1>0, <1>2 DEF Kinds, Waiting, SendLogout, Seal, NoSeal, Sealed
  <2> QED
    BY <1>0, <1>2, <2>1, BackendTypes, SendTypes DEF SendLogout
<1>3. CASE \E kind \in {"page", "profile"} : SendProtected(p, kind)
  <2>1. PICK kind \in {"page", "profile"} : SendProtected(p, kind)
    BY <1>3
  <2>2. kind \in Kinds /\ jar.sid \in Sids
        /\ (IF Fresh(jar) THEN "call" ELSE "refresh") \in Waiting
    BY <1>0, <2>1 DEF Kinds, Waiting, SendProtected, Seal, NoSeal, Sealed
  <2> QED
    BY <1>0, <2>1, <2>2, BackendTypes, SendTypes DEF SendProtected
<1>4. CASE \E u \in Users, s \in Sids : LoginOpens(p, u, s)
  <2>1. PICK u \in Users, s \in Sids : LoginOpens(p, u, s)
    BY <1>4
  <2>2. ReqOK'
    BY <1>0, <2>1, IssueTypes DEF LoginOpens
  <2> QED
    BY <1>0, <2>1, <2>2, BackendTypes DEF LoginOpens
<1>5. CASE RefreshTakes(p)
  <2>1. Sid(p) \in Sids
    BY <1>0, <1>5 DEF RefreshTakes, At, Waiting
  <2>2. ReqOK'
    <3>1. CASE Advance(p, "renew")
      BY <1>0, <2>1, <3>1, GoTypes DEF Advance, Waiting, Sid
    <3> QED
      BY <1>0, <1>5, <3>1, DestroyTypes DEF RefreshTakes
  <2> QED
    BY <1>0, <1>5, <2>1, <2>2, BackendTypes DEF RefreshTakes
<1>6. CASE RefreshRenews(p)
  <2>1. Sid(p) \in Sids
    BY <1>0, <1>6 DEF RefreshRenews, At, Waiting
  <2>2. gen[Sid(p)] + 1 \in 0..MaxGen
    BY <1>0, <1>6, <2>1 DEF RefreshRenews
  <2>3. ReqOK'
    BY <1>0, <1>6, <2>1, <2>2, IssueTypes DEF RefreshRenews
  <2> QED
    BY <1>0, <1>6, <2>1, <2>2, <2>3, BackendTypes DEF RefreshRenews
<1>7. CASE RefreshFindsDead(p)
  <2>1. Sid(p) \in Sids
    BY <1>0, <1>7 DEF RefreshFindsDead, At, Waiting
  <2>2. BackendOK'
    BY <1>0, <1>7, <2>1, BackendTypes DEF RefreshFindsDead
  <2> QED
    BY <1>0, <1>7, <2>2, DestroyTypes DEF RefreshFindsDead
<1>8. CASE Establish(p)
  <2>1. Sid(p) \in Sids
    BY <1>0, <1>8 DEF Establish, At, Waiting
  <2> DEFINE seal == Sealed(Sid(p), req[p].seal.gen, AccessTTL, req[p].seal.left)
  <2>2. seal \in Seal /\ seal.sid = Sid(p)
    <3>1. req[p].seal.gen \in 0..MaxGen /\ req[p].seal.left \in 0..(AccessTTL + Leeway)
      BY <1>0 DEF Seal, NoSeal, Sealed
    <3>2. AccessTTL \in 0..AccessTTL
      OBVIOUS
    <3>3. seal \in Seal
      BY <2>1, <3>1, <3>2, SealTypes
    <3> QED
      BY <3>3 DEF Sealed
  <2>3. ReqOK'
    <3>1. CASE Answer(p, "error", "keep")
      BY <1>0, <3>1, AnswerTypes DEF Answered
    <3>2. CASE Go(p, IF req[p].kind = "login" THEN "signed_in" ELSE "call",
                  seal, "set", 0)
      <4>1. (IF req[p].kind = "login" THEN "signed_in" ELSE "call")
                \in Waiting \cup Answered
        BY DEF Waiting, Answered
      <4> HIDE DEF seal
      <4> QED
        BY <1>0, <2>1, <2>2, <3>2, <4>1, GoTypes
    <3> QED
      BY <1>8, <3>1, <3>2 DEF Establish
  <2> QED
    BY <1>0, <1>8, <2>3, BackendTypes DEF Establish
<1>9. CASE CallAnswered(p)
  <2>1. ReqOK'
    <3>1. CASE Destroy(p)
      BY <1>0, <3>1, DestroyTypes
    <3>2. CASE Answer(p, "data", IF req[p].kind = "profile" THEN "set" ELSE req[p].out)
      BY <1>0, <3>2, AnswerTypes DEF Answered
    <3> QED
      BY <1>9, <3>1, <3>2 DEF CallAnswered
  <2> QED
    BY <1>0, <1>9, <2>1, BackendTypes DEF CallAnswered
<1>10. CASE LogoutTakes(p)
  <2>1. Sid(p) \in Sids
    BY <1>0, <1>10 DEF LogoutTakes, At, Waiting
  <2>2. ReqOK'
    <3>1. CASE Advance(p, "end")
      BY <1>0, <2>1, <3>1, GoTypes DEF Advance, Waiting, Sid
    <3>2. CASE Answer(p, "signed_out", "clear")
      BY <1>0, <3>2, AnswerTypes DEF Answered
    <3> QED
      BY <1>10, <3>1, <3>2 DEF LogoutTakes
  <2> QED
    BY <1>0, <1>10, <2>1, <2>2, BackendTypes DEF LogoutTakes
<1>11. CASE LogoutEnds(p)
  <2>1. Sid(p) \in Sids
    BY <1>0, <1>11 DEF LogoutEnds, At, Waiting
  <2>2. ReqOK'
    BY <1>0, <1>11, AnswerTypes DEF LogoutEnds, Answered
  <2> QED
    BY <1>0, <1>11, <2>1, <2>2, BackendTypes DEF LogoutEnds, Ending
<1>12. CASE ApiFails(p)
  <2>1. BackendOK' /\ gen' \in [Sids -> 0..MaxGen]
    <3>1. CASE UNCHANGED <<backend, gen>>
      BY <1>0, <3>1, BackendTypes
    <3>2. CASE /\ At(p, "renew")
               /\ gen[Sid(p)] < MaxGen
               /\ Backend!Renew(Sid(p))
               /\ gen' = [gen EXCEPT ![Sid(p)] = gen[Sid(p)] + 1]
      <4>1. Sid(p) \in Sids
        BY <1>0, <3>2 DEF At, Waiting
      <4> QED
        BY <1>0, <3>2, <4>1, BackendTypes
    <3>3. CASE /\ At(p, "end")
               /\ Backend!Lapse(Ending(Sid(p)), {Sid(p)})
               /\ UNCHANGED gen
      <4>1. Sid(p) \in Sids
        BY <1>0, <3>3 DEF At, Waiting
      <4> QED
        BY <1>0, <3>3, <4>1, BackendTypes DEF Ending
    <3> QED
      BY <1>12, <3>1, <3>2, <3>3 DEF ApiFails, Aftermath
  <2>2. ReqOK'
    BY <1>0, <1>12, AnswerTypes, DestroyTypes DEF ApiFails, Answered
  <2> QED
    BY <1>0, <1>12, <2>1, <2>2 DEF ApiFails
<1>13. CASE Deliver(p) \/ Lose(p)
  <2>1. jar' \in Seal
    BY <1>0, <1>13, SealTypes DEF Deliver, Lose
  <2>2. ReqOK'
    <3>1. Idle \in Request /\ Idle.pc = "idle"
      <4>1. /\ "page" \in Kinds /\ "idle" \in {"idle"} \cup Waiting \cup Answered
            /\ NoSeal \in Seal /\ 0 \in 0..ApiTimeout /\ FALSE \in BOOLEAN
            /\ "keep" \in {"keep", "set", "clear"}
        BY SealTypes DEF Kinds
      <4> QED
        BY <4>1 DEF Idle, State, Request
    <3>2. req' = [req EXCEPT ![p] = Idle]
      BY <1>13 DEF Deliver, Lose
    <3> QED
      BY <1>0, <3>1, <3>2 DEF ReqOK, Waiting
  <2> QED
    BY <1>0, <1>13, <2>1, <2>2, BackendTypes DEF Deliver, Lose
<1> QED
  BY <1>1, <1>2, <1>3, <1>4, <1>5, <1>6, <1>7, <1>8, <1>9, <1>10, <1>11, <1>12,
     <1>13 DEF Serve

\* Every step keeps the types.
LEMMA TypeStep == TypeOK /\ [Next]_vars => TypeOK'
<1> SUFFICES ASSUME TypeOK, [Next]_vars PROVE TypeOK'
  OBVIOUS
<1> USE Numbers
<1>1. ASSUME NEW p \in Procs, Serve(p)
      PROVE  TypeOK'
  BY <1>1, ServeTypes
<1>2. ASSUME NEW s \in Sids, EndElsewhere(s)
      PROVE  TypeOK'
  <2>1. BackendOK
    BY DEF TypeOK, BackendOK
  <2>2. BackendOK'
    BY <1>2, <2>1, BackendTypes DEF EndElsewhere
  <2> QED
    BY <1>2, <2>2 DEF EndElsewhere, TypeOK, BackendOK
<1>3. CASE Tick
  <2>1. jar' \in Seal
    BY <1>3, SealTypes DEF Tick, TypeOK
  <2> DEFINE new(p) ==
               State(req[p].kind, req[p].pc, Older(req[p].seal), req[p].out,
                     IF req[p].pc \in Waiting THEN req[p].age + 1 ELSE 0,
                     req[p].entitled)
  <2>2. ASSUME NEW p \in Procs
        PROVE  /\ new(p) \in Request
               /\ new(p).pc = req[p].pc
               /\ new(p).seal.sid = req[p].seal.sid
    <3>1. req[p] \in Request
      BY DEF TypeOK
    <3>2. /\ req[p].kind \in Kinds /\ req[p].entitled \in BOOLEAN
          /\ req[p].pc \in {"idle"} \cup Waiting \cup Answered
          /\ req[p].out \in {"keep", "set", "clear"}
          /\ req[p].seal \in Seal /\ req[p].age \in 0..ApiTimeout
      BY <3>1 DEF Request
    <3>3. (IF req[p].pc \in Waiting THEN req[p].age + 1 ELSE 0) \in 0..ApiTimeout
      BY <1>3, <3>2 DEF Tick
    <3>4. Older(req[p].seal) \in Seal /\ Older(req[p].seal).sid = req[p].seal.sid
      BY <3>2, SealTypes DEF Older, Sealed
    <3> QED
      BY <3>2, <3>3, <3>4 DEF State, Request
  <2>3. req' = [p \in Procs |-> new(p)]
    BY <1>3 DEF Tick
  <2> HIDE DEF new
  <2>4. req' \in [Procs -> Request]
    BY <2>2, <2>3
  <2>5. ASSUME NEW p \in Procs, req'[p].pc \in Waiting \ {"login"}
        PROVE  req'[p].seal.sid \in Sids
    BY <2>2, <2>3, <2>5 DEF TypeOK
  <2> QED
    BY <1>3, <2>1, <2>4, <2>5 DEF Tick, TypeOK, backend
<1>4. CASE UNCHANGED vars
  BY <1>4 DEF vars, backend, TypeOK
<1> QED
  BY <1>1, <1>2, <1>3, <1>4 DEF Next

\* The cookie, the session objects of the requests and the backend are well
\* typed in every reachable state; a request that awaits the backend for a
\* session names one.
THEOREM TypeCorrect == Spec => []TypeOK
<1>1. Init => TypeOK
  <2>1. NoSeal \in Seal /\ Idle.pc = "idle" /\ Idle \in Request
    <3>1. /\ "page" \in Kinds /\ "idle" \in {"idle"} \cup Waiting \cup Answered
          /\ NoSeal \in Seal /\ 0 \in 0..ApiTimeout /\ FALSE \in BOOLEAN
          /\ "keep" \in {"keep", "set", "clear"}
      BY SealTypes, Numbers DEF Kinds
    <3> QED
      BY <3>1 DEF Idle, State, Request
  <2> QED
    BY <2>1, Numbers DEF Init, Backend!Init, TypeOK, Waiting
<1> QED
  BY <1>1, TypeStep, PTL DEF Spec

-----------------------------------------------------------------------------
(* The delays.                                                             *)

\* A session object that is sound believes its access token to live longer than
\* it does by the API timeout at most.
SealSound(seal) == seal.believed <= seal.left + ApiTimeout

\* The lifetime of the access token of a request, from the moment its call was
\* sent: a token just issued, and one that is being used.
RequestSound(r) ==
    /\ SealSound(r.seal)
    /\ r.pc = "issued" => r.seal.left + r.age >= AccessTTL + Leeway
    /\ r.pc = "call" => r.seal.left + r.age + ApiTimeout > Skew

\* The inductive invariant of the delays.
Delays == SealSound(jar) /\ \A p \in Procs : RequestSound(req[p])

\* The fields of a seal are numbers; ageing one keeps it sound.
LEMMA SealNumbers ==
    ASSUME NEW seal \in Seal
    PROVE  /\ seal.believed \in Nat /\ seal.left \in Nat
           /\ SealSound(seal) => SealSound(Older(seal))
           /\ Older(seal).left + 1 >= seal.left /\ Older(seal).left \in Nat
           /\ SealSound(NoSeal) /\ SealSound(Sealed(seal.sid, 0, 0, 0))
  BY Numbers DEF Seal, NoSeal, Sealed, SealSound, Older, Less

\* Go keeps the requests sound when its arguments are.
LEMMA GoSound ==
    ASSUME ReqOK, \A q \in Procs : RequestSound(req[q]),
           NEW p \in Procs, NEW pc, NEW seal, NEW out, NEW age,
           SealSound(seal),
           pc = "issued" => seal.left + age >= AccessTTL + Leeway,
           pc = "call" => seal.left + age + ApiTimeout > Skew,
           Go(p, pc, seal, out, age)
    PROVE  \A q \in Procs : RequestSound(req'[q])
<1> DEFINE new == State(req[p].kind, pc, seal, out, age, req[p].entitled)
<1>1. RequestSound(new)
  BY DEF RequestSound, State
<1>2. req' = [req EXCEPT ![p] = new]
  BY DEF Go
<1> HIDE DEF new
<1> QED
  BY <1>1, <1>2 DEF ReqOK

\* So do answers, and the end of a session at the Next server.
LEMMA AnswerSound ==
    ASSUME ReqOK, \A q \in Procs : RequestSound(req[q]),
           NEW p \in Procs,
           \/ \E pc \in Answered, out \in {"keep", "set", "clear"} : Answer(p, pc, out)
           \/ Destroy(p)
    PROVE  \A q \in Procs : RequestSound(req'[q])
<1>1. PICK pc \in Answered, out \in {"keep", "set", "clear"} : Answer(p, pc, out)
  BY DEF Destroy, Answered
<1> DEFINE seal == IF out = "set" THEN req[p].seal ELSE Sealed(Sid(p), 0, 0, 0)
<1>2. SealSound(seal)
  <2>1. req[p].seal \in Seal
    BY DEF ReqOK, Request
  <2> QED
    BY <2>1, SealNumbers DEF Sid, RequestSound
<1>3. Go(p, pc, seal, out, 0)
  BY <1>1 DEF Answer
<1>4. pc # "issued" /\ pc # "call"
  BY DEF Answered
<1> HIDE DEF seal
<1> QED
  BY <1>2, <1>3, <1>4, GoSound

\* And tokens that have just been issued.
LEMMA IssueSound ==
    ASSUME ReqOK, \A q \in Procs : RequestSound(req[q]),
           NEW p \in Procs, NEW s, NEW g, Issue(p, s, g)
    PROVE  \A q \in Procs : RequestSound(req'[q])
<1> DEFINE seal == Sealed(s, g, 0, AccessTTL + Leeway)
<1>1. req[p].age \in Nat
  BY Numbers DEF ReqOK, Request
<1>2. SealSound(seal) /\ seal.left = AccessTTL + Leeway
  BY Numbers DEF Sealed, SealSound
<1>3. seal.left + req[p].age >= AccessTTL + Leeway
  BY <1>1, <1>2, Numbers
<1>4. Go(p, "issued", seal, req[p].out, req[p].age)
  BY DEF Issue
<1> HIDE DEF seal
<1> QED
  BY <1>2, <1>3, <1>4, GoSound

\* A request that is sent starts with the seal of the cookie.
LEMMA SendSound ==
    ASSUME ReqOK, \A q \in Procs : RequestSound(req[q]),
           NEW p \in Procs, NEW k, NEW pc, NEW seal \in Seal, NEW e,
           SealSound(seal), pc # "issued", pc = "call" => Fresh(seal),
           req' = [req EXCEPT ![p] = State(k, pc, seal, "keep", 0, e)]
    PROVE  \A q \in Procs : RequestSound(req'[q])
<1> DEFINE new == State(k, pc, seal, "keep", 0, e)
<1>1. RequestSound(new)
  <2>1. seal.left \in Nat /\ seal.believed \in Nat
    BY SealNumbers
  <2>2. Fresh(seal) => seal.left + 0 + ApiTimeout > Skew
    BY <2>1, Numbers DEF Fresh, SealSound
  <2> QED
    BY <2>2 DEF RequestSound, State
<1>2. req' = [req EXCEPT ![p] = new]
  OBVIOUS
<1> HIDE DEF new
<1> QED
  BY <1>1, <1>2 DEF ReqOK

\* A step of one request keeps the delays.
LEMMA ServeSound ==
    ASSUME TypeOK, Delays, NEW p \in Procs, Serve(p)
    PROVE  Delays'
<1>0. /\ ReqOK /\ jar \in Seal /\ SealSound(jar)
      /\ \A q \in Procs : RequestSound(req[q])
      /\ req[p].seal \in Seal /\ req[p].age \in 0..ApiTimeout
      /\ SealSound(req[p].seal)
      /\ req[p].out \in {"keep", "set", "clear"}
  BY DEF TypeOK, ReqOK, Request, Delays, RequestSound
<1> SUFFICES SealSound(jar') /\ \A q \in Procs : RequestSound(req'[q])
  BY DEF Delays
<1>1. CASE SendLogin(p)
  BY <1>0, <1>1, SendSound, SealTypes, SealNumbers DEF SendLogin
<1>2. CASE SendLogout(p)
  BY <1>0, <1>2, SendSound DEF SendLogout
<1>3. CASE \E kind \in {"page", "profile"} : SendProtected(p, kind)
  <2>1. PICK kind \in {"page", "profile"} : SendProtected(p, kind)
    BY <1>3
  <2> DEFINE pc == IF Fresh(jar) THEN "call" ELSE "refresh"
  <2>2. pc # "issued" /\ (pc = "call" => Fresh(jar))
    OBVIOUS
  <2>3. /\ req' = [req EXCEPT ![p] = State(kind, pc, jar, "keep", 0,
                                           live[jar.sid] # NONE)]
        /\ jar' = jar
    BY <2>1 DEF SendProtected
  <2> HIDE DEF pc
  <2> QED
    BY <1>0, <2>2, <2>3, SendSound
<1>4. CASE \E u \in Users, s \in Sids : LoginOpens(p, u, s)
  BY <1>0, <1>4, IssueSound DEF LoginOpens
<1>5. CASE RefreshTakes(p)
  <2>1. CASE Advance(p, "renew")
    BY <1>0, <1>5, <2>1, GoSound DEF Advance, RefreshTakes
  <2> QED
    BY <1>0, <1>5, <2>1, AnswerSound DEF RefreshTakes
<1>6. CASE RefreshRenews(p)
  BY <1>0, <1>6, IssueSound DEF RefreshRenews
<1>7. CASE RefreshFindsDead(p)
  BY <1>0, <1>7, AnswerSound DEF RefreshFindsDead
<1>8. CASE Establish(p)
  <2>1. CASE Answer(p, "error", "keep")
    BY <1>0, <1>8, <2>1, AnswerSound DEF Establish, Answered
  <2> DEFINE seal == Sealed(Sid(p), req[p].seal.gen, AccessTTL, req[p].seal.left)
             pc == IF req[p].kind = "login" THEN "signed_in" ELSE "call"
  <2>2. CASE Go(p, pc, seal, "set", 0)
    <3>1. req[p].seal.left \in Nat /\ req[p].seal.left + ApiTimeout >= AccessTTL + Leeway
      <4>1. req[p].seal.left \in Nat
        BY <1>0, SealNumbers
      <4>2. req[p].seal.left + req[p].age >= AccessTTL + Leeway
        BY <1>0, <1>8 DEF Establish, At, RequestSound
      <4> QED
        BY <1>0, <4>1, <4>2, Numbers
    <3>2. seal.left = req[p].seal.left /\ seal.believed = AccessTTL
      BY DEF Sealed
    <3>3. SealSound(seal) /\ seal.left + 0 + ApiTimeout > Skew
      BY <3>1, <3>2, Numbers DEF SealSound
    <3>4. pc # "issued"
      OBVIOUS
    <3> HIDE DEF seal, pc
    <3> QED
      BY <1>0, <1>8, <2>2, <3>3, <3>4, GoSound DEF Establish
  <2> QED
    BY <1>8, <2>1, <2>2 DEF Establish
<1>9. CASE CallAnswered(p)
  <2>1. (IF req[p].kind = "profile" THEN "set" ELSE req[p].out)
            \in {"keep", "set", "clear"}
    BY <1>0
  <2> QED
    BY <1>0, <1>9, <2>1, AnswerSound DEF CallAnswered, Answered
<1>10. CASE LogoutTakes(p)
  <2>1. CASE Advance(p, "end")
    BY <1>0, <1>10, <2>1, GoSound DEF Advance, LogoutTakes
  <2> QED
    BY <1>0, <1>10, <2>1, AnswerSound DEF LogoutTakes, Answered
<1>11. CASE LogoutEnds(p)
  BY <1>0, <1>11, AnswerSound DEF LogoutEnds, Answered
<1>12. CASE ApiFails(p)
  BY <1>0, <1>12, AnswerSound DEF ApiFails, Answered
<1>13. CASE Deliver(p) \/ Lose(p)
  <2>1. RequestSound(Idle)
    BY SealTypes, SealNumbers DEF Idle, State, RequestSound
  <2>2. SealSound(jar')
    BY <1>0, <1>13, SealTypes, SealNumbers DEF Deliver, Lose
  <2>3. req' = [req EXCEPT ![p] = Idle]
    BY <1>13 DEF Deliver, Lose
  <2> QED
    BY <1>0, <2>1, <2>2, <2>3 DEF ReqOK
<1> QED
  BY <1>1, <1>2, <1>3, <1>4, <1>5, <1>6, <1>7, <1>8, <1>9, <1>10, <1>11, <1>12,
     <1>13 DEF Serve

\* Every step keeps the delays.
LEMMA DelaysStep == TypeOK /\ Delays /\ [Next]_vars => Delays'
<1> SUFFICES ASSUME TypeOK, Delays, [Next]_vars PROVE Delays'
  OBVIOUS
<1>1. ASSUME NEW p \in Procs, Serve(p)
      PROVE  Delays'
  BY <1>1, ServeSound
<1>2. ASSUME NEW s \in Sids, EndElsewhere(s)
      PROVE  Delays'
  BY <1>2 DEF EndElsewhere, Delays
<1>3. CASE Tick
  <2>1. SealSound(jar')
    BY <1>3, SealNumbers DEF Tick, TypeOK, Delays
  <2>2. ASSUME NEW p \in Procs
        PROVE  RequestSound(req'[p])
    <3> DEFINE age == IF req[p].pc \in Waiting THEN req[p].age + 1 ELSE 0
               new == State(req[p].kind, req[p].pc, Older(req[p].seal),
                            req[p].out, age, req[p].entitled)
    <3>1. req'[p] = new
      BY <1>3 DEF Tick
    <3>2. /\ new.pc = req[p].pc /\ new.seal = Older(req[p].seal) /\ new.age = age
      BY DEF State
    <3>3. req[p].seal \in Seal /\ req[p].age \in Nat /\ RequestSound(req[p])
      BY Numbers DEF TypeOK, Request, Delays
    <3>4. /\ SealSound(Older(req[p].seal))
          /\ Older(req[p].seal).left + 1 >= req[p].seal.left
          /\ Older(req[p].seal).left \in Nat /\ req[p].seal.left \in Nat
      BY <3>3, SealNumbers DEF RequestSound
    <3>5. req[p].pc \in {"issued", "call"} =>
              Older(req[p].seal).left + age >= req[p].seal.left + req[p].age
      BY <3>3, <3>4 DEF Waiting
    <3>6. age \in Nat
      BY <3>3
    <3> HIDE DEF new, age
    <3>7. RequestSound(new)
      BY <3>2, <3>3, <3>4, <3>5, <3>6, Numbers DEF RequestSound
    <3> QED
      BY <3>1, <3>7
  <2> QED
    BY <2>1, <2>2 DEF Delays
<1>4. CASE UNCHANGED vars
  BY <1>4 DEF vars, Delays
<1> QED
  BY <1>1, <1>2, <1>3, <1>4 DEF Next

\* The expiry a session object holds is never too optimistic for the skew:
\* whatever the delays of the backend, the access token of a call that is under
\* way has not expired, so that a 401 means that the session has ended.
THEOREM SkewIsEnough == Spec => []SkewCovers
<1>1. Init => Delays
  <2>1. RequestSound(Idle) /\ SealSound(NoSeal)
    BY SealTypes, SealNumbers DEF RequestSound, Idle, State
  <2> QED
    BY <2>1 DEF Init, Delays
<1>2. TypeOK /\ Delays => SkewCovers
  <2> SUFFICES ASSUME TypeOK, Delays, NEW p \in Procs, At(p, "call")
               PROVE  req[p].seal.left > 0
    BY DEF SkewCovers
  <2>1. req[p].seal \in Seal /\ req[p].age \in 0..ApiTimeout
    BY DEF TypeOK, Request
  <2>2. req[p].seal.left \in Nat
    BY <2>1, SealNumbers
  <2>3. req[p].seal.left + req[p].age + ApiTimeout > Skew
    BY DEF Delays, RequestSound, At
  <2> QED
    BY <2>1, <2>2, <2>3, Numbers
<1> QED
  BY <1>1, <1>2, DelaysStep, TypeCorrect, PTL DEF Spec

-----------------------------------------------------------------------------
(* Sessions that have ended.  The parts are stated of a backend with the   *)
(* active sessions l and the ended ones t, before or after a step.         *)

\* What has ended is not active; a seal is of a session that was opened.
Dead(l, t) == \A s \in t : l[s] = NONE
Known(seal, l, t) == seal.sid = NONE \/ l[seal.sid] # NONE \/ seal.sid \in t

\* A request that was sent after its session had ended works for one that
\* can never be active again, until it is answered without data.
Asking == {"refresh", "renew", "issued", "call"}
Safe(r, l, t) ==
    /\ Known(r.seal, l, t)
    /\ r.pc = "login" => r.kind = "login"
    /\ r.pc \in Asking \ {"issued"} => r.kind # "login"
    /\ r.pc \in Asking /\ r.kind # "login" => r.entitled \/ r.seal.sid \in t
    /\ r.pc = "data" => r.entitled

EndedInv ==
    /\ Dead(live, retired)
    /\ Known(jar, live, retired)
    /\ \A p \in Procs : Safe(req[p], live, retired)

\* What a step does to the backend: nothing that has ended comes back, and
\* nothing that was opened is forgotten.
Onward ==
    /\ retired \subseteq retired'
    /\ Dead(live', retired')
    /\ \A s \in Sids : live[s] # NONE \/ s \in retired => live'[s] # NONE \/ s \in retired'

LEMMA BackendOnward ==
    ASSUME BackendOK, Dead(live, retired),
           \/ \E u \in Users, s \in Sids : Backend!Open(u, s)
           \/ \E s \in Sids : Backend!Redeem(s) \/ Backend!Renew(s)
           \/ \E ending, breaking \in SUBSET Sids : Backend!Lapse(ending, breaking)
           \/ UNCHANGED backend
    PROVE  Onward
<1>1. CASE \E u \in Users, s \in Sids : Backend!Open(u, s)
  <2>1. PICK u \in Users, s \in Sids : Backend!Open(u, s)
    BY <1>1
  <2> QED
    BY <2>1, NoneAssumption DEF Backend!Open, BackendOK, Onward, Dead
<1>2. CASE \E s \in Sids : Backend!Redeem(s) \/ Backend!Renew(s)
  BY <1>2 DEF Backend!Redeem, Backend!Renew, Onward
<1>3. CASE \E ending, breaking \in SUBSET Sids : Backend!Lapse(ending, breaking)
  <2>1. PICK ending \in SUBSET Sids, breaking \in SUBSET Sids :
                Backend!Lapse(ending, breaking)
    BY <1>3
  <2> QED
    BY <2>1 DEF Backend!Lapse, BackendOK, Onward, Dead
<1>4. CASE UNCHANGED backend
  BY <1>4 DEF backend, Onward
<1> QED
  BY <1>1, <1>2, <1>3, <1>4

\* What was known stays known, and what was safe stays safe.
LEMMA KnownOnward ==
    ASSUME Onward
    PROVE  /\ \A seal \in Seal : Known(seal, live, retired) => Known(seal, live', retired')
           /\ \A r \in Request : Safe(r, live, retired) => Safe(r, live', retired')
<1>1. ASSUME NEW seal \in Seal, Known(seal, live, retired)
      PROVE  Known(seal, live', retired')
  <2>1. seal.sid \in Sids \/ seal.sid = NONE
    BY DEF Seal, NoSeal, Sealed
  <2> QED
    BY <1>1, <2>1 DEF Known, Onward
<1>2. ASSUME NEW r \in Request, Safe(r, live, retired)
      PROVE  Safe(r, live', retired')
  <2>1. r.seal \in Seal
    BY DEF Request
  <2>2. r.seal.sid \in retired => r.seal.sid \in retired'
    BY DEF Onward
  <2> QED
    BY <1>1, <1>2, <2>1, <2>2 DEF Safe
<1> QED
  BY <1>1, <1>2

\* One request is replaced by a safe one.
LEMMA OneSafe ==
    ASSUME ReqOK, Onward, \A q \in Procs : Safe(req[q], live, retired),
           NEW p \in Procs, NEW new, Safe(new, live', retired'),
           req' = [req EXCEPT ![p] = new]
    PROVE  \A q \in Procs : Safe(req'[q], live', retired')
<1>1. \A q \in Procs : req[q] \in Request /\ req'[q] = IF q = p THEN new ELSE req[q]
  BY DEF ReqOK
<1> QED
  BY <1>1, KnownOnward

\* Go keeps the requests safe when its arguments are.
LEMMA GoSafe ==
    ASSUME ReqOK, Onward, \A q \in Procs : Safe(req[q], live, retired),
           NEW p \in Procs, NEW pc, NEW seal, NEW out, NEW age,
           Known(seal, live', retired'), pc # "login",
           pc \in Asking \ {"issued"} => req[p].kind # "login",
           pc \in Asking /\ req[p].kind # "login" => req[p].entitled \/ seal.sid \in retired',
           pc = "data" => req[p].entitled,
           Go(p, pc, seal, out, age)
    PROVE  \A q \in Procs : Safe(req'[q], live', retired')
<1> DEFINE new == State(req[p].kind, pc, seal, out, age, req[p].entitled)
<1>1. /\ new.kind = req[p].kind /\ new.pc = pc /\ new.seal = seal
      /\ new.entitled = req[p].entitled
  BY DEF State
<1>2. req' = [req EXCEPT ![p] = new]
  BY DEF Go
<1> HIDE DEF new
<1>3. Safe(new, live', retired')
  BY <1>1 DEF Safe
<1> QED
  BY <1>2, <1>3, OneSafe

\* So do answers, of which only one has data.
LEMMA AnswerSafe ==
    ASSUME ReqOK, Onward, \A q \in Procs : Safe(req[q], live, retired),
           NEW p \in Procs,
           \/ \E pc \in Answered, out \in {"keep", "set", "clear"} :
                 (pc = "data" => req[p].entitled) /\ Answer(p, pc, out)
           \/ Destroy(p)
    PROVE  \A q \in Procs : Safe(req'[q], live', retired')
<1>1. PICK pc \in Answered, out \in {"keep", "set", "clear"} :
              (pc = "data" => req[p].entitled) /\ Answer(p, pc, out)
  BY DEF Destroy, Answered
<1> DEFINE seal == IF out = "set" THEN req[p].seal ELSE Sealed(Sid(p), 0, 0, 0)
<1>2. seal.sid = req[p].seal.sid
  BY DEF Sealed, Sid
<1>3. Known(seal, live', retired')
  <2>1. req[p].seal \in Seal /\ Known(req[p].seal, live, retired)
    BY DEF ReqOK, Request, Safe
  <2> HIDE DEF seal
  <2> QED
    BY <1>2, <2>1, KnownOnward DEF Known
<1>4. Go(p, pc, seal, out, 0)
  BY <1>1 DEF Answer
<1>5. pc \notin Asking /\ pc # "login"
  BY DEF Answered, Asking
<1> HIDE DEF seal
<1> QED
  BY <1>1, <1>3, <1>4, <1>5, GoSafe

\* A request that is sent with the seal of the cookie.
LEMMA SendSafe ==
    ASSUME ReqOK, Onward, \A q \in Procs : Safe(req[q], live, retired),
           NEW p \in Procs, NEW k, NEW pc \in Waiting, NEW seal, NEW e \in BOOLEAN,
           Known(seal, live', retired'), pc = "login" <=> k = "login",
           pc # "issued",
           e \/ pc = "login" \/ seal.sid \in retired',
           req' = [req EXCEPT ![p] = State(k, pc, seal, "keep", 0, e)]
    PROVE  \A q \in Procs : Safe(req'[q], live', retired')
<1> DEFINE new == State(k, pc, seal, "keep", 0, e)
<1>1. new.kind = k /\ new.pc = pc /\ new.seal = seal /\ new.entitled = e
  BY DEF State
<1>2. req' = [req EXCEPT ![p] = new]
  OBVIOUS
<1> HIDE DEF new
<1>3. pc # "data"
  BY DEF Waiting
<1>4. Safe(new, live', retired')
  BY <1>1, <1>3, Zenon DEF Safe, Asking
<1> QED
  BY <1>2, <1>4, OneSafe

\* A step of one request keeps the invariant.
LEMMA ServeEnded ==
    ASSUME TypeOK, EndedInv, NEW p \in Procs, Serve(p)
    PROVE  EndedInv'
<1>0. /\ ReqOK /\ BackendOK /\ jar \in Seal /\ Known(jar, live, retired)
      /\ Dead(live, retired) /\ \A q \in Procs : Safe(req[q], live, retired)
      /\ Safe(req[p], live, retired)
      /\ req[p].seal \in Seal /\ Known(req[p].seal, live, retired)
      /\ req[p].out \in {"keep", "set", "clear"}
      /\ (req[p].pc \in Waiting \ {"login"} => Sid(p) \in Sids)
  BY DEF TypeOK, BackendOK, ReqOK, Request, EndedInv, Safe, Sid
<1>a. /\ req[p].pc \in Asking \ {"issued"} => req[p].kind # "login"
      /\ req[p].pc \in Asking /\ req[p].kind # "login" =>
             req[p].entitled \/ req[p].seal.sid \in retired
  BY <1>0 DEF Safe
<1> SUFFICES /\ Onward /\ Known(jar', live', retired')
             /\ \A q \in Procs : Safe(req'[q], live', retired')
  BY DEF EndedInv, Onward
<1>1. CASE SendLogin(p)
  <2>1. Onward /\ jar' = jar
    BY <1>0, <1>1, BackendOnward DEF SendLogin
  <2>2. Known(NoSeal, live', retired') /\ "login" \in Waiting /\ FALSE \in BOOLEAN
    BY DEF Known, NoSeal, Sealed, Waiting
  <2>3. req' = [req EXCEPT ![p] = State("login", "login", NoSeal, "keep", 0, FALSE)]
    BY <1>1 DEF SendLogin
  <2> QED
    BY <1>0, <2>1, <2>2, <2>3, KnownOnward, SendSafe
<1>2. CASE SendLogout(p)
  <2>1. Onward /\ jar' = jar /\ retired' = retired
    BY <1>0, <1>2, BackendOnward DEF SendLogout, backend
  <2> DEFINE e == live[jar.sid] # NONE
  <2>2. /\ req' = [req EXCEPT ![p] = State("logout", "logout", jar, "keep", 0, e)]
        /\ jar.sid \in Sids
    BY <1>0, <1>2 DEF SendLogout, Seal, NoSeal, Sealed
  <2>3. e \in BOOLEAN /\ (e \/ jar.sid \in retired')
    BY <1>0, <2>1, <2>2, NoneAssumption DEF Known
  <2>4. Known(jar, live', retired') /\ "logout" \in Waiting
    BY <1>0, <2>1, KnownOnward DEF Waiting
  <2> HIDE DEF e
  <2>5. \A q \in Procs : Safe(req'[q], live', retired')
    BY <1>0, <2>1, <2>2, <2>3, <2>4, SendSafe
  <2> QED
    BY <2>1, <2>4, <2>5
<1>3. CASE \E kind \in {"page", "profile"} : SendProtected(p, kind)
  <2>1. PICK kind \in {"page", "profile"} : SendProtected(p, kind)
    BY <1>3
  <2>2. Onward /\ jar' = jar /\ retired' = retired
    BY <1>0, <2>1, BackendOnward DEF SendProtected, backend
  <2> DEFINE e == live[jar.sid] # NONE
             pc == IF Fresh(jar) THEN "call" ELSE "refresh"
  <2>3. /\ req' = [req EXCEPT ![p] = State(kind, pc, jar, "keep", 0, e)]
        /\ jar.sid \in Sids
    BY <1>0, <2>1 DEF SendProtected, Seal, NoSeal, Sealed
  <2>4. e \in BOOLEAN /\ (e \/ jar.sid \in retired')
    BY <1>0, <2>2, <2>3, NoneAssumption DEF Known
  <2>5. Known(jar, live', retired')
    BY <1>0, <2>2, KnownOnward
  <2>6. pc \in Waiting /\ pc # "issued" /\ pc # "login"
    BY DEF Waiting
  <2> HIDE DEF e, pc
  <2>7. \A q \in Procs : Safe(req'[q], live', retired')
    BY <1>0, <2>2, <2>3, <2>4, <2>5, <2>6, SendSafe
  <2> QED
    BY <2>2, <2>5, <2>7
<1>4. CASE \E u \in Users, s \in Sids : LoginOpens(p, u, s)
  <2>1. PICK u \in Users, s \in Sids : LoginOpens(p, u, s)
    BY <1>4
  <2>2. Onward /\ jar' = jar /\ req[p].kind = "login"
    BY <1>0, <2>1, BackendOnward DEF LoginOpens, At, Safe
  <2> DEFINE seal == Sealed(s, 0, 0, AccessTTL + Leeway)
  <2>3. Go(p, "issued", seal, req[p].out, req[p].age)
    BY <2>1 DEF LoginOpens, Issue
  <2>4. Known(seal, live', retired')
    <3>1. live'[s] = u /\ u # NONE
      BY <1>0, <2>1, NoneAssumption DEF LoginOpens, Backend!Open, BackendOK
    <3> QED
      BY <3>1 DEF Known, Sealed
  <2> HIDE DEF seal
  <2>5. \A q \in Procs : Safe(req'[q], live', retired')
    BY <1>0, <2>2, <2>3, <2>4, GoSafe
  <2> QED
    BY <1>0, <2>2, <2>5, KnownOnward
<1>5. CASE RefreshTakes(p)
  <2>1. Sid(p) \in Sids /\ req[p].pc = "refresh" /\ jar' = jar
    BY <1>0, <1>5 DEF RefreshTakes, At, Waiting
  <2>2. Onward
    BY <1>0, <1>5, <2>1, BackendOnward DEF RefreshTakes
  <2>3. req[p].kind # "login" /\ (req[p].entitled \/ req[p].seal.sid \in retired')
    BY <1>a, <2>1, <2>2 DEF Asking, Onward
  <2>4. CASE Advance(p, "renew")
    <3>1. Known(req[p].seal, live', retired') /\ Known(jar', live', retired')
      BY <1>0, <2>1, <2>2, KnownOnward
    <3>2. Go(p, "renew", req[p].seal, req[p].out, req[p].age)
      BY <2>4 DEF Advance
    <3> QED
      BY <1>0, <2>2, <2>3, <3>1, <3>2, GoSafe
  <2> QED
    BY <1>0, <1>5, <2>1, <2>2, <2>4, AnswerSafe, KnownOnward DEF RefreshTakes
<1>6. CASE RefreshRenews(p)
  <2>1. Sid(p) \in Sids /\ req[p].pc = "renew" /\ jar' = jar
    BY <1>0, <1>6 DEF RefreshRenews, At, Waiting
  <2>2. Onward
    BY <1>0, <1>6, <2>1, BackendOnward DEF RefreshRenews
  <2>3. req[p].kind # "login" /\ (req[p].entitled \/ req[p].seal.sid \in retired')
    BY <1>a, <2>1, <2>2 DEF Asking, Onward
  <2> DEFINE seal == Sealed(Sid(p), gen[Sid(p)] + 1, 0, AccessTTL + Leeway)
  <2>4. Go(p, "issued", seal, req[p].out, req[p].age)
    BY <1>6 DEF RefreshRenews, Issue
  <2>5. seal.sid = req[p].seal.sid
    BY DEF Sealed, Sid
  <2> HIDE DEF seal
  <2>6. Known(seal, live', retired')
    BY <1>0, <2>2, <2>5, KnownOnward DEF Known
  <2> QED
    BY <1>0, <2>1, <2>2, <2>3, <2>4, <2>5, <2>6, KnownOnward, GoSafe
<1>7. CASE RefreshFindsDead(p)
  <2>1. Sid(p) \in Sids /\ jar' = jar
    BY <1>0, <1>7 DEF RefreshFindsDead, At, Waiting
  <2>2. Onward
    BY <1>0, <1>7, <2>1, BackendOnward DEF RefreshFindsDead
  <2> QED
    BY <1>0, <1>7, <2>1, <2>2, AnswerSafe, KnownOnward DEF RefreshFindsDead
<1>8. CASE Establish(p)
  <2>1. Onward /\ jar' = jar /\ req[p].pc = "issued"
    BY <1>0, <1>8, BackendOnward DEF Establish, At
  <2>2. req[p].kind # "login" => req[p].entitled \/ req[p].seal.sid \in retired'
    BY <1>a, <2>1 DEF Asking, Onward
  <2>3. CASE Answer(p, "error", "keep")
    BY <1>0, <2>1, <2>3, AnswerSafe, KnownOnward DEF Answered
  <2> DEFINE seal == Sealed(Sid(p), req[p].seal.gen, AccessTTL, req[p].seal.left)
             pc == IF req[p].kind = "login" THEN "signed_in" ELSE "call"
  <2>4. CASE Go(p, pc, seal, "set", 0)
    <3>1. seal.sid = req[p].seal.sid
      BY DEF Sealed, Sid
    <3>2. /\ pc # "login" /\ pc # "data"
          /\ pc \in Asking => req[p].kind # "login"
      BY DEF Asking
    <3> HIDE DEF seal, pc
    <3>3. Known(seal, live', retired')
      BY <1>0, <2>1, <3>1, KnownOnward DEF Known
    <3> QED
      BY <1>0, <2>1, <2>2, <2>4, <3>1, <3>2, <3>3, KnownOnward, GoSafe
  <2> QED
    BY <1>8, <2>3, <2>4 DEF Establish
<1>9. CASE CallAnswered(p)
  <2>1. Onward /\ jar' = jar /\ req[p].pc = "call"
    BY <1>0, <1>9, BackendOnward DEF CallAnswered, At
  <2> DEFINE out == IF req[p].kind = "profile" THEN "set" ELSE req[p].out
  <2>2. out \in {"keep", "set", "clear"} /\ "data" \in Answered
    BY <1>0 DEF Answered
  <2>3. Accepted(p) => req[p].entitled
    BY <1>0, <1>a, <2>1 DEF Accepted, Sid, Asking, Dead
  <2> HIDE DEF out
  <2>4. CASE Accepted(p) /\ Answer(p, "data", out)
    BY <1>0, <2>1, <2>2, <2>3, <2>4, AnswerSafe, KnownOnward
  <2>5. CASE Destroy(p)
    BY <1>0, <2>1, <2>5, AnswerSafe, KnownOnward
  <2> QED
    BY <1>9, <2>4, <2>5 DEF CallAnswered, out
<1>10. CASE LogoutTakes(p)
  <2>1. Sid(p) \in Sids /\ jar' = jar
    BY <1>0, <1>10 DEF LogoutTakes, At, Waiting
  <2>2. Onward
    BY <1>0, <1>10, <2>1, BackendOnward DEF LogoutTakes
  <2>3. CASE Advance(p, "end")
    BY <1>0, <2>1, <2>2, <2>3, KnownOnward, GoSafe DEF Advance, Asking
  <2>4. CASE Answer(p, "signed_out", "clear")
    BY <1>0, <2>1, <2>2, <2>4, AnswerSafe, KnownOnward DEF Answered
  <2> QED
    BY <1>10, <2>3, <2>4 DEF LogoutTakes
<1>11. CASE LogoutEnds(p)
  <2>1. Sid(p) \in Sids /\ jar' = jar
    BY <1>0, <1>11 DEF LogoutEnds, At, Waiting
  <2>2. Onward
    BY <1>0, <1>11, <2>1, BackendOnward DEF LogoutEnds, Ending
  <2> QED
    BY <1>0, <1>11, <2>1, <2>2, AnswerSafe, KnownOnward DEF LogoutEnds, Answered
<1>12. CASE ApiFails(p)
  <2>1. Onward
    <3>1. CASE UNCHANGED <<backend, gen>>
      BY <1>0, <3>1, BackendOnward
    <3>2. CASE At(p, "renew") /\ Backend!Renew(Sid(p))
      BY <1>0, <3>2, BackendOnward DEF At, Waiting
    <3>3. CASE At(p, "end") /\ Backend!Lapse(Ending(Sid(p)), {Sid(p)})
      BY <1>0, <3>3, BackendOnward DEF At, Waiting, Ending
    <3> QED
      BY <1>12, <3>1, <3>2, <3>3 DEF ApiFails, Aftermath
  <2>2. jar' = jar /\ (Answer(p, "error", req[p].out) \/ Destroy(p))
    BY <1>12 DEF ApiFails
  <2> QED
    BY <1>0, <2>1, <2>2, AnswerSafe, KnownOnward DEF Answered
<1>13. CASE Deliver(p) \/ Lose(p)
  <2>1. backend' = backend /\ req' = [req EXCEPT ![p] = Idle]
        /\ jar' \in {req[p].seal, NoSeal, jar}
    BY <1>0, <1>13 DEF Deliver, Lose
  <2>2. Onward
    BY <1>0, <2>1, BackendOnward
  <2>3. Safe(Idle, live', retired') /\ Known(NoSeal, live', retired')
    BY DEF Idle, State, Safe, Known, NoSeal, Sealed, Asking
  <2> QED
    BY <1>0, <2>1, <2>2, <2>3, KnownOnward, OneSafe
<1> QED
  BY <1>1, <1>2, <1>3, <1>4, <1>5, <1>6, <1>7, <1>8, <1>9, <1>10, <1>11, <1>12,
     <1>13 DEF Serve

LEMMA EndedStep == TypeOK /\ EndedInv /\ [Next]_vars => EndedInv'
<1> SUFFICES ASSUME TypeOK, EndedInv, [Next]_vars PROVE EndedInv'
  OBVIOUS
<1>0. BackendOK /\ ReqOK /\ jar \in Seal /\ Dead(live, retired)
  BY DEF TypeOK, BackendOK, ReqOK, EndedInv
<1>1. ASSUME NEW p \in Procs, Serve(p)
      PROVE  EndedInv'
  BY <1>1, ServeEnded
<1>2. ASSUME NEW s \in Sids, EndElsewhere(s)
      PROVE  EndedInv'
  <2>1. Onward
    <3>1. \E ending, breaking \in SUBSET Sids : Backend!Lapse(ending, breaking)
      <4>1. {s} \in SUBSET Sids /\ (IF chain[s] = "token" THEN {s} ELSE {}) \in SUBSET Sids
        OBVIOUS
      <4> QED
        BY <1>2, <4>1 DEF EndElsewhere
    <3> QED
      BY <1>0, <3>1, BackendOnward
  <2>2. jar' = jar /\ req' = req
    BY <1>2 DEF EndElsewhere
  <2> QED
    BY <1>0, <2>1, <2>2, KnownOnward DEF EndedInv, Onward, ReqOK
<1>3. CASE Tick
  <2>1. live' = live /\ retired' = retired /\ jar' = Older(jar)
    BY <1>3 DEF Tick, backend
  <2>2. \A seal : Older(seal).sid = seal.sid
    BY DEF Older, Sealed
  <2>3. Known(jar', live', retired')
    BY <2>1, <2>2 DEF EndedInv, Known
  <2>4. ASSUME NEW p \in Procs
        PROVE  Safe(req'[p], live', retired')
    <3>1. /\ req'[p].kind = req[p].kind /\ req'[p].pc = req[p].pc
          /\ req'[p].seal = Older(req[p].seal)
          /\ req'[p].entitled = req[p].entitled
      BY <1>3 DEF Tick, State
    <3>2. Safe(req[p], live, retired)
      BY DEF EndedInv
    <3> QED
      BY <2>1, <2>2, <3>1, <3>2 DEF Safe, Known
  <2> QED
    BY <2>1, <2>3, <2>4 DEF EndedInv
<1>4. CASE UNCHANGED vars
  BY <1>4 DEF vars, backend, EndedInv
<1> QED
  BY <1>1, <1>2, <1>3, <1>4 DEF Next

\* A request of a browser that is sent after its session has ended is never
\* answered with data, whatever its cookie holds and whatever is rotated meanwhile.
THEOREM EndedYieldsNothing == Spec => []RevokedSeesNothing
<1>1. Init => EndedInv
  BY DEF Init, Backend!Init, EndedInv, Dead, Known, Safe, NoSeal, Sealed, Idle, State,
         Asking
<1>2. EndedInv => RevokedSeesNothing
  BY DEF EndedInv, Safe, RevokedSeesNothing, At
<1> QED
  BY <1>1, <1>2, EndedStep, TypeCorrect, PTL DEF Spec

-----------------------------------------------------------------------------
(* Failed refreshes, where renders may write cookies.                      *)

\* A request changes no other.
LEMMA OthersUntouched ==
    ASSUME ReqOK, NEW p \in Procs, NEW q \in Procs, q # p, Serve(q)
    PROVE  req'[p] = req[p]
<1> SUFFICES ASSUME NEW new, req' = [req EXCEPT ![q] = new]
             PROVE  req'[p] = req[p]
  <2>1. CASE \/ SendLogin(q) \/ SendLogout(q)
             \/ \E kind \in {"page", "profile"} : SendProtected(q, kind)
             \/ Deliver(q) \/ Lose(q)
    BY <2>1 DEF SendLogin, SendLogout, SendProtected, Deliver, Lose
  <2>2. CASE \/ \E u \in Users, s \in Sids : LoginOpens(q, u, s)
             \/ RefreshTakes(q) \/ RefreshRenews(q) \/ RefreshFindsDead(q)
    BY <2>2 DEF LoginOpens, RefreshTakes, RefreshRenews, RefreshFindsDead,
                Issue, Advance, Destroy, Answer, Go
  <2>3. CASE \/ Establish(q) \/ CallAnswered(q) \/ LogoutTakes(q) \/ LogoutEnds(q)
             \/ ApiFails(q)
    BY <2>3 DEF Establish, CallAnswered, LogoutTakes, LogoutEnds, ApiFails,
                Advance, Destroy, Answer, Go
  <2> QED BY <2>1, <2>2, <2>3 DEF Serve
<1> QED BY DEF ReqOK

\* Where cookies can be written, what ends the session of a request clears them
\* and leads to the login page.
LEMMA DestroyLeadsToLogin ==
    ASSUME ReqOK, NEW p \in Procs, MayWrite(p), Destroy(p)
    PROVE  req'[p].pc = "to_login" /\ req'[p].out = "clear"
BY DEF ReqOK, Destroy, Answer, Go, State

\* A refresh under way goes on to the next call, or ends in that way.
LEMMA RefreshEnds ==
    ASSUME ReqOK, RendersWrite, NEW p \in Procs, Serve(p),
           req[p].pc \in {"refresh", "renew", "issued"}, req[p].kind # "login"
    PROVE  \/ req'[p].pc \notin Answered
           \/ req'[p].pc = "to_login" /\ req'[p].out = "clear"
<1>1. MayWrite(p)
  BY DEF MayWrite
<1>2. ~At(p, "idle") /\ ~At(p, "login") /\ ~At(p, "call") /\ ~At(p, "logout")
      /\ ~At(p, "end") /\ req[p].pc \notin Answered
  BY DEF At, Answered
<1>3. CASE Destroy(p)
  BY <1>1, <1>3, DestroyLeadsToLogin
<1>4. ASSUME NEW pc \in Waiting, NEW seal, NEW out, NEW age, Go(p, pc, seal, out, age)
      PROVE  req'[p].pc \notin Answered
  BY <1>4 DEF ReqOK, Go, State, Waiting, Answered
<1>5. "renew" \in Waiting /\ "issued" \in Waiting /\ "call" \in Waiting
  BY DEF Waiting
<1>6. CASE RefreshTakes(p)
  BY <1>3, <1>4, <1>5, <1>6 DEF RefreshTakes, Advance
<1>7. CASE RefreshRenews(p)
  BY <1>4, <1>5, <1>7 DEF RefreshRenews, Issue
<1>8. CASE RefreshFindsDead(p)
  BY <1>3, <1>8 DEF RefreshFindsDead
<1>9. CASE Establish(p)
  BY <1>1, <1>4, <1>5, <1>9 DEF Establish
<1>10. CASE ApiFails(p)
  BY <1>2, <1>3, <1>10 DEF ApiFails
<1> QED
  BY <1>2, <1>6, <1>7, <1>8, <1>9, <1>10
     DEF Serve, SendLogin, SendLogout, SendProtected, LoginOpens, CallAnswered,
         LogoutTakes, LogoutEnds, Deliver, Lose

\* What the property says of one step.
EndsAtLogin ==
    \A p \in Procs :
        req[p].pc \in {"refresh", "renew", "issued"} /\ req[p].kind # "login"
        /\ req'[p].pc \in Answered
        => req'[p].pc = "to_login" /\ req'[p].out = "clear"

LEMMA EndsAtLoginStep == ASSUME RendersWrite PROVE TypeOK /\ [Next]_vars => [EndsAtLogin]_vars
<1> SUFFICES ASSUME TypeOK, [Next]_vars, NEW p \in Procs,
                    req[p].pc \in {"refresh", "renew", "issued"}, req[p].kind # "login",
                    req'[p].pc \in Answered
             PROVE  req'[p].pc = "to_login" /\ req'[p].out = "clear"
  BY DEF EndsAtLogin
<1>1. ReqOK /\ req[p].pc \notin Answered
  BY DEF TypeOK, ReqOK, Answered
<1>2. CASE Serve(p)
  BY <1>1, <1>2, RefreshEnds
<1>3. ASSUME NEW q \in Procs, q # p, Serve(q) PROVE FALSE
  BY <1>1, <1>3, OthersUntouched
<1>4. CASE (\E s \in Sids : EndElsewhere(s)) \/ UNCHANGED vars
  BY <1>1, <1>4 DEF EndElsewhere, vars
<1>5. CASE Tick
  BY <1>1, <1>5 DEF Tick, State
<1> QED BY <1>2, <1>3, <1>4, <1>5 DEF Next

\* What is read-only in a page render is all that stands between the code and what
\* its documentation says of a refresh that fails: where renders may write cookies, as
\* actions may, every such refresh ends at the login page with the cookie cleared.
THEOREM WritableRefreshToLogin == ASSUME RendersWrite PROVE Spec => FailedRefreshToLogin
<1>1. TypeOK /\ [Next]_vars => [EndsAtLogin]_vars
  BY EndsAtLoginStep
<1>2. Spec => [][EndsAtLogin]_vars
  BY <1>1, TypeCorrect, PTL DEF Spec
<1> QED BY <1>2 DEF FailedRefreshToLogin, EndsAtLogin

=============================================================================
