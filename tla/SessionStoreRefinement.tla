----------------------- MODULE SessionStoreRefinement -----------------------
(* The store under concurrent requests implements SessionLifecycle.         *)
EXTENDS SessionStore

\* The state of the promise that a state of the store stands for.
LiveView == [s \in Sids |-> sess[s].user_id]
RetiredView == {s \in born : ~Active(s)}
ChainView ==
    [s \in Sids |-> IF \E t \in Tokens : Redeems(t, s) THEN "token"
                    ELSE IF \E p \in Procs : Holds(p, s) THEN "held"
                    ELSE "none"]

Lifecycle == INSTANCE SessionLifecycle
             WITH live <- LiveView, retired <- RetiredView, chain <- ChainView

\* Every step of every request, and every expiry, is a step of the lifecycle or
\* invisible: sessions are opened once, keep their owner, end for good, and their
\* refresh right never forks.
ImplementsLifecycle == Lifecycle!Spec
=============================================================================
