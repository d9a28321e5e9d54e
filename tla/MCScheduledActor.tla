-------------------------- MODULE MCScheduledActor --------------------------
(* Small instances of ScheduledActor for TLC.                               *)
EXTENDS ScheduledActor

CONSTANT MaxTotal  \* bound on the messages all senders create together

Symmetry == Permutations(Sender) \cup Permutations(Worker)

TotalSends == \A p, q \in Sender : p # q => sent[p] + sent[q] <= MaxTotal
=============================================================================
