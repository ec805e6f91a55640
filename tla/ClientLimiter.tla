--------------------------- MODULE ClientLimiter ---------------------------
(***************************************************************************)
(* What the in-memory limiter of the /auth routes promises: each client    *)
(* has a bucket of its own, whatever it or another client sends.  A bucket *)
(* holds Burst requests and regains one every Period ticks.                *)
(***************************************************************************)
EXTENDS Naturals

CONSTANTS Clients, Burst, Period

VARIABLES
    debt,    \* for each client, the ticks until its bucket is full again
    answer   \* the last answer: to whom, and whether it was admitted

Init ==
    /\ debt = [c \in Clients |-> 0]
    /\ answer \in [to : Clients, ok : BOOLEAN]

Pays(c) == debt[c] + Period <= Burst * Period

Request(c) ==
    /\ answer' = [to |-> c, ok |-> Pays(c)]
    /\ debt' = [d \in Clients |->
                    IF d = c /\ Pays(c) THEN debt[d] + Period ELSE debt[d]]

Tick ==
    /\ debt' = [c \in Clients |-> IF debt[c] = 0 THEN 0 ELSE debt[c] - 1]
    /\ UNCHANGED answer

Next == Tick \/ \E c \in Clients : Request(c)

Spec == Init /\ [][Next]_<<debt, answer>>
=============================================================================
