------------------------------ MODULE JobDeque ------------------------------
(***************************************************************************)
(* What a worker's job queue promises: a sequence of jobs to which every   *)
(* operation is applied in one step.  A job is always held by one thread   *)
(* or is in the queue, never both and never twice.                         *)
(***************************************************************************)
EXTENDS Naturals, Sequences

CONSTANTS Thread, Job

VARIABLES q,    \* the jobs in the queue
          held  \* the jobs in the hands of each thread

vars == <<q, held>>

Gives(t, j) ==
  /\ j \in held[t]
  /\ held' = [held EXCEPT ![t] = @ \ {j}]

Gets(t, j) == held' = [held EXCEPT ![t] = @ \cup {j}]

PushBack(t, j)  == Gives(t, j) /\ q' = Append(q, j)
PushFront(t, j) == Gives(t, j) /\ q' = <<j>> \o q
PopFront(t)     == q # <<>> /\ Gets(t, q[1]) /\ q' = Tail(q)
PopBack(t)      == q # <<>> /\ Gets(t, q[Len(q)]) /\ q' = SubSeq(q, 1, Len(q) - 1)

Init == q = <<>> /\ held \in [Thread -> SUBSET Job]

Next ==
  \E t \in Thread :
    \/ \E j \in Job : PushBack(t, j) \/ PushFront(t, j)
    \/ PopFront(t) \/ PopBack(t)

Spec == Init /\ [][Next]_vars
=============================================================================
