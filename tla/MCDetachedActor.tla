--------------------------- MODULE MCDetachedActor ---------------------------
(* Small instances of DetachedActor for TLC.                                *)
EXTENDS DetachedActor

CONSTANT MaxTotal  \* bound on the messages all senders create together

Symmetry == Permutations(Sender)

TotalSends == \A p, q \in Sender : p # q => sent[p] + sent[q] <= MaxTotal
=============================================================================
