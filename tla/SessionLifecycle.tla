-------------------------- MODULE SessionLifecycle --------------------------
(***************************************************************************)
(* What the session store promises to its callers, with neither keys,      *)
(* clocks nor requests: a session is opened once for one user, stays that  *)
(* user's until it ends, and is never opened again; the right to refresh   *)
(* it is passed along one chain, that may break but not fork.              *)
(***************************************************************************)
CONSTANTS Users, Sids, NONE

VARIABLES
    live,     \* the owner of each active session, NONE for the others
    retired,  \* the sessions that have ended
    chain     \* the right to refresh: "token" redeemable, "held" by a request,
              \* or "none"

vars == <<live, retired, chain>>

Init ==
    /\ live = [s \in Sids |-> NONE]
    /\ retired = {}
    /\ chain = [s \in Sids |-> "none"]

Open(u, s) ==
    /\ live[s] = NONE
    /\ s \notin retired
    /\ live' = [live EXCEPT ![s] = u]
    /\ chain' = [chain EXCEPT ![s] = "token"]
    /\ UNCHANGED retired

\* A request takes the token of s.
Redeem(s) ==
    /\ chain[s] = "token"
    /\ chain' = [chain EXCEPT ![s] = "held"]
    /\ UNCHANGED <<live, retired>>

\* The request that holds the right to refresh s turns it into a new token.
Renew(s) ==
    /\ chain[s] = "held"
    /\ chain' = [chain EXCEPT ![s] = "token"]
    /\ UNCHANGED <<live, retired>>

\* Sessions end, and chains break, by revocation, by expiry or because a request
\* was dropped: for good in both cases.
Lapse(ending, breaking) ==
    /\ \A s \in ending : live[s] # NONE
    /\ live' = [s \in Sids |-> IF s \in ending THEN NONE ELSE live[s]]
    /\ retired' = retired \cup ending
    /\ chain' = [s \in Sids |-> IF s \in breaking THEN "none" ELSE chain[s]]

Next ==
    \/ \E u \in Users, s \in Sids : Open(u, s)
    \/ \E s \in Sids : Redeem(s) \/ Renew(s)
    \/ \E ending, breaking \in SUBSET Sids : Lapse(ending, breaking)

Spec == Init /\ [][Next]_vars
=============================================================================
