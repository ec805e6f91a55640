------------------------------ MODULE LossyLog ------------------------------
(***************************************************************************)
(* What the shipping of log documents promises to those that record them.  *)
(* Recording never waits: a document is taken, or it is refused and        *)
(* counted, and that only when Room documents wait.  Documents leave in    *)
(* the order of recording, at most Lot at a time, indexed or given up; and *)
(* those that wait when the process ends are lost with it.                 *)
(***************************************************************************)
EXTENDS Naturals, Sequences, SequencesExt

CONSTANTS
    Room,   \* the documents that always find a place
    Lot     \* the most that leave together

VARIABLES
    recorded,    \* the number of documents recorded so far
    waiting,     \* those that were taken and have not left, in order
    indexed,     \* those that OpenSearch has
    abandoned,   \* those that left and that it has not
    refused,     \* the number of those that were not taken
    ended        \* the process has ended

Init ==
    /\ recorded = 0
    /\ waiting = <<>>
    /\ indexed = {}
    /\ abandoned = {}
    /\ refused = 0
    /\ ended = FALSE

Take ==
    /\ Len(waiting) < Room + Lot
    /\ waiting' = Append(waiting, recorded')
    /\ UNCHANGED refused
Refuse ==
    /\ Len(waiting) >= Room
    /\ refused' = refused + 1
    /\ UNCHANGED waiting
Offer ==
    /\ ~ended
    /\ recorded' = recorded + 1
    /\ Take \/ Refuse
    /\ UNCHANGED <<indexed, abandoned, ended>>

\* The first n leave; OpenSearch has those in kept.
Settle(n, kept) ==
    /\ ~ended
    /\ n <= Len(waiting)
    /\ LET lot == ToSet(SubSeq(waiting, 1, n)) IN
       /\ kept \subseteq lot
       /\ indexed' = indexed \cup kept
       /\ abandoned' = abandoned \cup (lot \ kept)
    /\ waiting' = SubSeq(waiting, n + 1, Len(waiting))
    /\ UNCHANGED <<recorded, refused, ended>>

End ==
    /\ ~ended
    /\ ended' = TRUE
    /\ UNCHANGED <<recorded, waiting, indexed, abandoned, refused>>

Next ==
    \/ Offer
    \/ \E n \in 1..Lot : \E kept \in SUBSET ToSet(waiting) : Settle(n, kept)
    \/ End

Spec == Init /\ [][Next]_<<recorded, waiting, indexed, abandoned, refused, ended>>
=============================================================================
