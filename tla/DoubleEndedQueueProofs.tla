----------------------- MODULE DoubleEndedQueueProofs -----------------------
(***************************************************************************)
(* Proofs about DoubleEndedQueue for any number of threads, jobs and       *)
(* nodes: the two spin locks exclude what they should, the list stays a    *)
(* list whatever both ends do at the same time, and no node is used after  *)
(* it was freed or leaks.                                                  *)
(***************************************************************************)
EXTENDS DoubleEndedQueue, TLAPS

NextPointers == [Node -> Node \cup {Null}]
-----------------------------------------------------------------------------
(* Reachability.  Every fact about it comes from two: it is closed, and it  *)
(* is the smallest such set.                                                *)

(* The start of the list is on the list, and so is what follows a node on it. *)
LEMMA ReachableClosed ==
  ASSUME NEW nx \in NextPointers, NEW h \in Node
  PROVE  /\ Reachable(h, nx) \subseteq Node
         /\ h \in Reachable(h, nx)
         /\ Closed(Reachable(h, nx), nx)
BY DEF Reachable, Closed, NextPointers

(* Whatever contains the start and is closed under next contains the list.  *)
LEMMA ReachableSmallest ==
  ASSUME NEW nx, NEW h, NEW S \in SUBSET Node, h \in S, Closed(S, nx)
  PROVE  Reachable(h, nx) \subseteq S
BY DEF Reachable

(* Pointers of nodes that are not on the list do not matter to it.          *)
LEMMA ReachableFrame ==
  ASSUME NEW nx \in NextPointers, NEW ny \in NextPointers, NEW h \in Node,
         \A n \in Reachable(h, nx) : ny[n] = nx[n]
  PROVE  Reachable(h, ny) = Reachable(h, nx)
<1> DEFINE R == Reachable(h, nx)
           Q == Reachable(h, ny)
<1>1. R \subseteq Node /\ h \in R /\ Closed(R, nx) /\ Q \subseteq Node /\ h \in Q /\ Closed(Q, ny)
  BY ReachableClosed
<1>2. Closed(R, ny)
  BY <1>1 DEF Closed
<1>3. Q \subseteq R
  BY <1>1, <1>2, ReachableSmallest
<1>4. Closed(Q, nx)
  BY <1>1, <1>3 DEF Closed
<1>5. R \subseteq Q
  BY <1>1, <1>4, ReachableSmallest
<1> QED BY <1>3, <1>5

(* Linking a node behind the last one adds it to the list.                  *)
LEMMA ReachableAppend ==
  ASSUME NEW nx \in NextPointers, NEW h \in Node, NEW last \in Reachable(h, nx),
         nx[last] = Null, NEW n \in Node, n \notin Reachable(h, nx), nx[n] = Null,
         Null \notin Node
  PROVE  Reachable(h, [nx EXCEPT ![last] = n]) = Reachable(h, nx) \cup {n}
<1> DEFINE ny == [nx EXCEPT ![last] = n]
           R == Reachable(h, nx)
           Q == Reachable(h, ny)
<1>0. last \in Node /\ ny \in NextPointers
  BY ReachableClosed DEF NextPointers
<1>1. R \subseteq Node /\ h \in R /\ Closed(R, nx) /\ Q \subseteq Node /\ h \in Q /\ Closed(Q, ny)
  BY <1>0, ReachableClosed
<1>2. ny[last] = n /\ \A m \in Node \ {last} : ny[m] = nx[m]
  BY <1>0 DEF NextPointers
<1>3. Closed(R \cup {n}, ny)
  BY <1>0, <1>1, <1>2 DEF Closed
<1>4. Q \subseteq R \cup {n}
  BY <1>1, <1>3, ReachableSmallest
<1>5. Closed(Q, nx)
  BY <1>0, <1>1, <1>2 DEF Closed
<1>6. R \subseteq Q
  BY <1>1, <1>5, ReachableSmallest
<1>7. n \in Q
  BY <1>0, <1>1, <1>2, <1>6 DEF Closed
<1> QED BY <1>4, <1>6, <1>7

(* So does linking a node behind the first one, if it points to the second. *)
LEMMA ReachableInsert ==
  ASSUME NEW nx \in NextPointers, NEW h \in Node, NEW n \in Node,
         n \notin Reachable(h, nx), nx[n] = nx[h], Null \notin Node
  PROVE  Reachable(h, [nx EXCEPT ![h] = n]) = Reachable(h, nx) \cup {n}
<1> DEFINE ny == [nx EXCEPT ![h] = n]
           R == Reachable(h, nx)
           Q == Reachable(h, ny)
<1>0. ny \in NextPointers
  BY DEF NextPointers
<1>1. R \subseteq Node /\ h \in R /\ Closed(R, nx) /\ Q \subseteq Node /\ h \in Q /\ Closed(Q, ny)
  BY <1>0, ReachableClosed
<1>2. n # h /\ ny[h] = n /\ \A m \in Node \ {h} : ny[m] = nx[m]
  BY <1>1 DEF NextPointers
<1>3. Closed(R \cup {n}, ny)
  BY <1>1, <1>2 DEF Closed
<1>4. Q \subseteq R \cup {n}
  BY <1>1, <1>3, ReachableSmallest
<1>5. n \in Q
  BY <1>1, <1>2 DEF Closed
<1>6. Closed(Q, nx)
  BY <1>1, <1>2, <1>5 DEF Closed
<1>7. R \subseteq Q
  BY <1>1, <1>6, ReachableSmallest
<1> QED BY <1>4, <1>5, <1>7

(* Moving the start to the second node takes the first off the list.        *)
LEMMA ReachableForward ==
  ASSUME NEW nx \in NextPointers, NEW h \in Node, nx[h] \in Node,
         \A m \in Reachable(h, nx) : nx[m] # h, Null \notin Node
  PROVE  Reachable(nx[h], nx) = Reachable(h, nx) \ {h}
<1> DEFINE R == Reachable(h, nx)
           Q == Reachable(nx[h], nx)
<1>1. R \subseteq Node /\ h \in R /\ Closed(R, nx) /\ Q \subseteq Node /\ nx[h] \in Q /\ Closed(Q, nx)
  BY ReachableClosed
<1>2. nx[h] \in R \ {h} /\ Closed(R \ {h}, nx)
  BY <1>1 DEF Closed
<1>3. Q \subseteq R \ {h}
  BY <1>1, <1>2, ReachableSmallest
<1>4. Closed(Q \cup {h}, nx)
  BY <1>1 DEF Closed
<1>5. R \subseteq Q \cup {h}
  BY <1>1, <1>4, ReachableSmallest
<1> QED BY <1>3, <1>5

(* Clearing the pointer to the last node takes it off the list.             *)
LEMMA ReachableCut ==
  ASSUME NEW nx \in NextPointers, NEW h \in Node, NEW p \in Reachable(h, nx),
         nx[p] \in Node, nx[nx[p]] = Null, nx[p] # h,
         \A m \in Reachable(h, nx) : nx[m] = nx[p] => m = p, Null \notin Node
  PROVE  Reachable(h, [nx EXCEPT ![p] = Null]) = Reachable(h, nx) \ {nx[p]}
<1> DEFINE ny == [nx EXCEPT ![p] = Null]
           R == Reachable(h, nx)
           Q == Reachable(h, ny)
<1>0. p \in Node /\ ny \in NextPointers
  BY ReachableClosed DEF NextPointers
<1>1. R \subseteq Node /\ h \in R /\ Closed(R, nx) /\ Q \subseteq Node /\ h \in Q /\ Closed(Q, ny)
  BY <1>0, ReachableClosed
<1>2. ny[p] = Null /\ \A m \in Node \ {p} : ny[m] = nx[m]
  BY <1>0 DEF NextPointers
<1>3. Closed(R \ {nx[p]}, ny)
  BY <1>0, <1>1, <1>2 DEF Closed
<1>4. Q \subseteq R \ {nx[p]}
  BY <1>1, <1>3, ReachableSmallest
<1>5. Closed(Q \cup {nx[p]}, nx)
  BY <1>0, <1>1, <1>2 DEF Closed
<1>6. R \subseteq Q \cup {nx[p]}
  <2> HIDE DEF Q
  <2> QED BY <1>1, <1>5, ReachableSmallest
<1> QED BY <1>4, <1>6

(* Every node of the list but the first has a predecessor on the list.      *)
LEMMA ReachablePredecessor ==
  ASSUME NEW nx \in NextPointers, NEW h \in Node, NEW n \in Reachable(h, nx), n # h
  PROVE  \E m \in Reachable(h, nx) : nx[m] = n
<1> DEFINE R == Reachable(h, nx)
<1>1. R \subseteq Node /\ h \in R /\ Closed(R, nx)
  BY ReachableClosed
<1> SUFFICES ASSUME \A m \in R : nx[m] # n PROVE FALSE
  OBVIOUS
<1>2. Closed(R \ {n}, nx)
  BY <1>1 DEF Closed
<1>3. R \subseteq R \ {n}
  BY <1>1, <1>2, ReachableSmallest
<1> QED BY <1>3

-----------------------------------------------------------------------------
(* The inductive invariant.                                                 *)

(* Where each operation can be.                                             *)
OpLabels ==
  \A t \in Thread :
    /\ pc[t] = "idle" <=> op[t] = "none"
    /\ pc[t] = "lock_head" => op[t] \in {"prepend", "take_head", "take_tail"}
    /\ pc[t] = "lock_tail" => op[t] \in {"append", "prepend", "take_tail"}
    /\ pc[t] \in {"link", "swing"} => op[t] = "append"
    /\ pc[t] \in {"first", "insert"} => op[t] = "prepend"
    /\ pc[t] \in {"next", "value", "forward"} => op[t] = "take_head"
    /\ pc[t] \in {"last", "predecessor", "cut"} => op[t] = "take_tail"
    /\ pc[t] = "delete" => op[t] \in {"take_head", "take_tail"}

HoldsHead(t) ==
  \/ pc[t] \in {"first", "insert", "next", "value", "forward", "last", "predecessor", "cut"}
  \/ pc[t] = "lock_tail" /\ op[t] # "append"

HoldsTail(t) ==
  pc[t] \in {"link", "swing", "first", "insert", "last", "predecessor", "cut"}

(* The flags are set exactly while a thread holds the lock, and there is    *)
(* one such thread only.                                                    *)
MutualExclusion ==
  /\ headLock <=> \E t \in Thread : HoldsHead(t)
  /\ tailLock <=> \E t \in Thread : HoldsTail(t)
  /\ \A t, u \in Thread : HoldsHead(t) /\ HoldsHead(u) => t = u
  /\ \A t, u \in Thread : HoldsTail(t) /\ HoldsTail(u) => t = u

(* A list: the dummy comes first, and no node is the successor of two.      *)
ListShape ==
  /\ Chain \subseteq live
  /\ \A a \in Chain : next[a] # head_
  /\ \A a, b \in Chain : next[a] = next[b] /\ next[a] # Null => a = b

(* Nodes that are created and not linked yet, or unlinked and not deleted.  *)
Fresh(t) == op[t] \in {"append", "prepend"} /\ pc[t] # "swing"
Owns(t) == Fresh(t) \/ pc[t] = "delete"

OwnNodes ==
  /\ \A t \in Thread : Owns(t) => node[t] \in live /\ node[t] \notin Chain
  /\ \A t, u \in Thread : Owns(t) /\ Owns(u) /\ node[t] = node[u] => t = u
  /\ \A n \in live : n \in Chain \/ \E t \in Thread : Owns(t) /\ node[t] = n
  /\ \A t \in Thread : Fresh(t) =>
       /\ value[node[t]] = result[t] /\ result[t] \in Job
       /\ pc[t] # "insert" => next[node[t]] = Null

(* tail_ is the last node unless an operation on the tail is half done.     *)
TailIsLast ==
  (\A t \in Thread : pc[t] \notin {"swing", "insert", "cut"}) =>
    tail_ \in Chain /\ next[tail_] = Null

(* What the operations know of the list between two accesses to it.         *)
HalfDone ==
  \A t \in Thread :
    /\ pc[t] = "swing" => node[t] \in Chain /\ next[node[t]] = Null
    /\ pc[t] = "insert" =>
         /\ next[node[t]] = next[head_]
         /\ IF next[head_] = Null THEN tail_ = node[t]
                                  ELSE tail_ \in Chain /\ next[tail_] = Null
    /\ pc[t] \in {"value", "forward"} =>
         node[t] = head_ /\ succ[t] = next[head_] /\ succ[t] # Null
    /\ pc[t] = "predecessor" => node[t] = tail_ /\ tail_ # head_ /\ result[t] \in Job
    /\ pc[t] = "cut" =>
         /\ tail_ \in Chain /\ next[tail_] = node[t]
         /\ node[t] \in Node /\ node[t] # head_ /\ next[node[t]] = Null
         /\ result[t] \in Job

(* Every node behind the dummy carries a job, but for the one that is about *)
(* to become the dummy.                                                     *)
NodesCarryJobs ==
  \A n \in Chain \ {head_} :
    value[n] = Null => \E t \in Thread : pc[t] = "forward" /\ succ[t] = n

ListInv == ListShape /\ OwnNodes /\ TailIsLast /\ HalfDone /\ NodesCarryJobs

IInv == TypeOK /\ OpLabels /\ MutualExclusion /\ ListInv

-----------------------------------------------------------------------------
(* Control: where the operations are and who holds the locks.               *)

(* Every step moves one thread along its operation.                         *)
LEMMA OpLabelsStep ==
  ASSUME IInv, NEW t \in Thread, Step(t)
  PROVE  OpLabels'
<1> USE DEF OpLabels, IInv, TypeOK, Goto
<1>1. CASE (\E o \in Ops, j \in Job : Push(t, o, j)) \/ (\E o \in Ops : Take(t, o))
  BY <1>1 DEF Push, Take, NeedsHead, MayCall, Ops
<1>2. CASE LockHead(t) \/ LockTail(t)
  BY <1>2 DEF LockHead, LockTail, Body, NeedsTail, localVars, Ops
<1>3. CASE AppendLink(t) \/ AppendSwing(t) \/ PrependFirst(t) \/ PrependInsert(t)
  BY <1>3 DEF AppendLink, AppendSwing, PrependFirst, PrependInsert, Return, localVars
<1>4. CASE TakeHeadNext(t) \/ TakeHeadValue(t) \/ TakeHeadForward(t)
  BY <1>4 DEF TakeHeadNext, TakeHeadValue, TakeHeadForward, Return, localVars
<1>5. CASE TakeTailLast(t) \/ TakeTailPredecessor(t) \/ TakeTailCut(t) \/ Delete(t)
  BY <1>5 DEF TakeTailLast, TakeTailPredecessor, TakeTailCut, Delete, Return, localVars
<1> QED BY <1>1, <1>2, <1>3, <1>4, <1>5 DEF Step

(* Release frees the locks the operation takes and no other.                *)
LEMMA ReleaseFacts ==
  ASSUME TypeOK, NEW t \in Thread, Release(t)
  PROVE  /\ headLock' \in BOOLEAN /\ tailLock' \in BOOLEAN
         /\ NeedsHead(op[t]) => ~ headLock'
         /\ ~ NeedsHead(op[t]) => (headLock' <=> headLock)
         /\ NeedsTail(op[t]) => ~ tailLock'
         /\ ~ NeedsTail(op[t]) => (tailLock' <=> tailLock)
<1>1. CASE NeedsHead(op[t]) /\ NeedsTail(op[t])
  BY <1>1 DEF Release, TypeOK
<1>2. CASE NeedsHead(op[t]) /\ ~ NeedsTail(op[t])
  BY <1>2 DEF Release, TypeOK
<1>3. CASE ~ NeedsHead(op[t]) /\ NeedsTail(op[t])
  BY <1>3 DEF Release, TypeOK
<1>4. CASE ~ NeedsHead(op[t]) /\ ~ NeedsTail(op[t])
  BY <1>4 DEF Release, TypeOK
<1> QED BY <1>1, <1>2, <1>3, <1>4

(* A lock is taken only if it is free and released only by its holder.      *)
LEMMA MutualExclusionStep ==
  ASSUME IInv, NEW t \in Thread, Step(t)
  PROVE  MutualExclusion'
<1> USE DEF MutualExclusion, HoldsHead, HoldsTail, OpLabels, IInv, TypeOK, Goto
<1>1. CASE (\E o \in Ops, j \in Job : Push(t, o, j)) \/ (\E o \in Ops : Take(t, o))
  BY <1>1 DEF Push, Take, NeedsHead, MayCall, Ops, lockVars
<1>2. CASE LockHead(t)
  BY <1>2 DEF LockHead, Body, NeedsTail, localVars, Ops
<1>3. CASE LockTail(t)
  BY <1>3 DEF LockTail, Body, localVars, Ops
<1>4. CASE AppendLink(t) \/ PrependFirst(t)
  BY <1>4 DEF AppendLink, PrependFirst, localVars, lockVars
<1>5. CASE AppendSwing(t) \/ PrependInsert(t)
  BY <1>5, ReleaseFacts DEF AppendSwing, PrependInsert, Return, NeedsHead, NeedsTail
<1>6. CASE TakeHeadNext(t)
  BY <1>6, ReleaseFacts DEF TakeHeadNext, Return, NeedsHead, NeedsTail, lockVars
<1>7. CASE TakeHeadValue(t) \/ TakeHeadForward(t)
  BY <1>7, ReleaseFacts DEF TakeHeadValue, TakeHeadForward, NeedsHead, NeedsTail, lockVars,
     localVars
<1>8. CASE TakeTailLast(t)
  BY <1>8, ReleaseFacts DEF TakeTailLast, Return, NeedsHead, NeedsTail, lockVars
<1>9. CASE TakeTailPredecessor(t) \/ TakeTailCut(t)
  BY <1>9, ReleaseFacts DEF TakeTailPredecessor, TakeTailCut, NeedsHead, NeedsTail, lockVars,
     localVars
<1>10. CASE Delete(t)
  BY <1>10 DEF Delete, Return, lockVars
<1> QED BY <1>1, <1>2, <1>3, <1>4, <1>5, <1>6, <1>7, <1>8, <1>9, <1>10 DEF Step

(* What the invariant says about the nodes at the ends of the list.         *)
LEMMA ChainFacts ==
  ASSUME IInv
  PROVE  /\ next \in NextPointers /\ Null \notin Node
         /\ Chain \subseteq Node /\ head_ \in Chain /\ Closed(Chain, next)
         /\ \A t \in Thread : HoldsTail(t) /\ pc[t] \notin {"swing", "insert", "cut"} =>
              tail_ \in Chain /\ next[tail_] = Null
BY ReachableClosed, DequeAssumption
   DEF IInv, TypeOK, NextPointers, Chain, ListInv, TailIsLast, MutualExclusion, HoldsTail

(* Every step keeps the variables in their types.                           *)
LEMMA TypeStep ==
  ASSUME IInv, NEW t \in Thread, Step(t)
  PROVE  TypeOK'
<1> USE DEF TypeOK, Goto, nodeVars, endVars, lockVars, localVars
<1>0. /\ TypeOK /\ OpLabels
      /\ \A l \in Labels : [pc EXCEPT ![t] = l] \in [Thread -> Labels]
  BY DEF IInv
<1>1. CASE \E o \in Ops, j \in Job : Push(t, o, j)
  BY <1>0, <1>1 DEF Push, Labels
<1>2. CASE \E o \in Ops : Take(t, o)
  BY <1>0, <1>2 DEF Take, Labels
<1>3. CASE LockHead(t) \/ LockTail(t)
  BY <1>0, <1>3 DEF LockHead, LockTail, Labels, OpLabels, Body, NeedsTail, Ops
<1>4. CASE AppendLink(t)
  BY <1>0, <1>4 DEF AppendLink, Labels
<1>5. CASE AppendSwing(t)
  BY <1>0, <1>5, ChainFacts DEF AppendSwing, Return, Release, NewTail, Labels, IInv, ListInv,
     HalfDone
<1>6. CASE PrependFirst(t)
  <2>1. node[t] \in Node
    BY <1>6 DEF PrependFirst, IInv, ListInv, OwnNodes, Owns, Fresh, OpLabels
  <2> QED BY <1>0, <1>6, <2>1 DEF PrependFirst, Labels
<1>7. CASE PrependInsert(t)
  BY <1>0, <1>7 DEF PrependInsert, Return, Release, Labels
<1>8. CASE TakeHeadNext(t)
  BY <1>0, <1>8, ReleaseFacts DEF TakeHeadNext, Return, Labels
<1>9. CASE TakeHeadValue(t)
  <2>1. succ[t] \in Node /\ succ[t] \in Chain \ {head_}
    BY <1>9, ChainFacts DEF TakeHeadValue, IInv, ListInv, HalfDone, Closed, ListShape
  <2>2. value[succ[t]] \in Job
    BY <1>0, <1>9, <2>1 DEF TakeHeadValue, IInv, ListInv, NodesCarryJobs, MutualExclusion, HoldsHead
  <2> QED BY <1>0, <1>9, <2>1, <2>2 DEF TakeHeadValue, Labels
<1>10. CASE TakeHeadForward(t)
  <2>1. node[t] = head_ /\ succ[t] = next[head_] /\ succ[t] # Null
    BY <1>10 DEF TakeHeadForward, IInv, ListInv, HalfDone
  <2>2. succ[t] \in Node
    BY <1>0, <2>1
  <2>3. headLock' \in BOOLEAN /\ tailLock' \in BOOLEAN
    BY <1>0, <1>10 DEF TakeHeadForward, Release
  <2> QED BY <1>0, <1>10, <2>2, <2>3 DEF TakeHeadForward, Labels
<1>11. CASE TakeTailLast(t)
  BY <1>0, <1>11, ReleaseFacts DEF TakeTailLast, Return, Labels
<1>12. CASE TakeTailPredecessor(t)
  <2>1. tail_ \in Chain \ {head_} /\ node[t] = tail_
    BY <1>12, ChainFacts DEF TakeTailPredecessor, HoldsTail, IInv, ListInv, HalfDone
  <2>2. \E i \in Chain : next[i] = node[t]
    BY <2>1, ChainFacts, ReachablePredecessor DEF Chain
  <2>3. find_predecessor(node[t]) \in Chain
    BY <2>2 DEF find_predecessor
  <2> QED BY <1>0, <1>12, <2>3, ChainFacts DEF TakeTailPredecessor, Labels
<1>13. CASE TakeTailCut(t)
  BY <1>0, <1>13, ReleaseFacts DEF TakeTailCut, Labels, IInv, ListInv, HalfDone
<1>14. CASE Delete(t)
  BY <1>0, <1>14 DEF Delete, Return, Labels
<1> QED BY <1>1, <1>2, <1>3, <1>4, <1>5, <1>6, <1>7, <1>8, <1>9, <1>10, <1>11, <1>12, <1>13,
           <1>14 DEF Step

-----------------------------------------------------------------------------
(* The list, action by action.                                              *)

(* The list after a step.                                                   *)
LEMMA ChainPrime == Chain' = Reachable(head_', next')
BY DEF Chain, Reachable, Closed

(* Steps that leave the list as it is.                                      *)
LEMMA QuietSteps ==
  ASSUME IInv, NEW t \in Thread,
         \/ \E o \in Ops : Take(t, o)
         \/ LockHead(t) \/ LockTail(t) \/ TakeHeadNext(t) \/ TakeTailLast(t)
  PROVE  ListInv' /\ Chain' = Chain
<1> USE DEF IInv, TypeOK, OpLabels, Goto, nodeVars, endVars, localVars
<1>1. Chain' = Chain /\ UNCHANGED <<next, value, live, head_, tail_>>
  BY DEF Chain, Take, LockHead, LockTail, TakeHeadNext, TakeTailLast
<1>2. ListShape'
  BY <1>1 DEF ListInv, ListShape
<1>3. \A u \in Thread : u # t => pc'[u] = pc[u] /\ op'[u] = op[u] /\ node'[u] = node[u]
                               /\ succ'[u] = succ[u] /\ result'[u] = result[u]
  BY DEF Take, LockHead, LockTail, TakeHeadNext, TakeTailLast, Return
<1>4. CASE \E o \in Ops : Take(t, o)
  <2>1. ~ Owns(t) /\ ~ Owns(t)' /\ pc[t] = "idle" /\ pc'[t] \in {"lock_head", "lock_tail"}
    BY <1>4 DEF Take, Owns, Fresh
  <2> QED BY <1>1, <1>2, <1>3, <2>1
          DEF ListInv, OwnNodes, Owns, Fresh, TailIsLast, HalfDone, NodesCarryJobs
<1>5. CASE LockHead(t) \/ LockTail(t)
  <2>1. /\ (Owns(t) <=> Owns(t)') /\ (Fresh(t) <=> Fresh(t)')
        /\ pc[t] \in {"lock_head", "lock_tail"}
        /\ pc'[t] \in {"lock_tail", "link", "first", "next", "last"}
        /\ node'[t] = node[t] /\ result'[t] = result[t]
    BY <1>5 DEF LockHead, LockTail, Owns, Fresh, Body, NeedsTail, Ops
  <2> QED BY <1>1, <1>2, <1>3, <2>1
          DEF ListInv, OwnNodes, Owns, Fresh, TailIsLast, HalfDone, NodesCarryJobs
<1>6. CASE TakeHeadNext(t)
  <2>1. /\ ~ Owns(t) /\ ~ Owns(t)' /\ pc[t] = "next" /\ pc'[t] \in {"idle", "value"}
        /\ pc'[t] = "value" => node'[t] = head_ /\ succ'[t] = next[head_] /\ next[head_] # Null
    BY <1>6 DEF TakeHeadNext, Owns, Fresh, Return
  <2> QED BY <1>1, <1>2, <1>3, <2>1
          DEF ListInv, OwnNodes, Owns, Fresh, TailIsLast, HalfDone, NodesCarryJobs
<1>7. CASE TakeTailLast(t)
  <2>1. /\ ~ Owns(t) /\ ~ Owns(t)' /\ pc[t] = "last" /\ pc'[t] \in {"idle", "predecessor"}
        /\ pc'[t] = "predecessor" =>
             node'[t] = tail_ /\ result'[t] = value[tail_] /\ tail_ # head_
    BY <1>7 DEF TakeTailLast, Owns, Fresh, Return
  <2>2. pc'[t] = "predecessor" => result'[t] \in Job
    <3>1. tail_ \in Chain
      BY <2>1, ChainFacts DEF HoldsTail
    <3>2. tail_ # head_ => value[tail_] \in Job
      BY <2>1, <3>1 DEF ListInv, NodesCarryJobs, MutualExclusion, HoldsHead
    <3> QED BY <2>1, <3>2
  <2> QED BY <1>1, <1>2, <1>3, <2>1, <2>2
          DEF ListInv, OwnNodes, Owns, Fresh, TailIsLast, HalfDone, NodesCarryJobs
<1> QED BY <1>1, <1>4, <1>5, <1>6, <1>7

(* new node: it comes from free memory and is in nobody's way.              *)
LEMMA PushList ==
  ASSUME IInv, NEW t \in Thread, NEW o \in Ops, NEW j \in Job, Push(t, o, j)
  PROVE  ListInv' /\ Chain' = Chain
<1> USE DEF IInv, TypeOK, OpLabels, Goto, endVars
<1>1. PICK n \in Node \ live : /\ live' = live \cup {n}
                              /\ next' = [next EXCEPT ![n] = Null]
                              /\ value' = [value EXCEPT ![n] = j]
                              /\ node' = [node EXCEPT ![t] = n]
  BY DEF Push
<1>2. n \notin Chain /\ Chain \subseteq live
  BY <1>1 DEF ListInv, ListShape
<1>3. Chain' = Chain /\ head_' = head_ /\ tail_' = tail_
  <2>1. next' \in NextPointers /\ \A m \in Chain : next'[m] = next[m]
    BY <1>1, <1>2, ChainFacts DEF NextPointers
  <2>2. head_ \in Node /\ head_' = head_ /\ tail_' = tail_
    BY DEF Push
  <2>3. Reachable(head_, next') = Reachable(head_, next)
    <3> HIDE DEF IInv, TypeOK, OpLabels, Goto, endVars
    <3> QED BY <2>1, <2>2, ChainFacts, ReachableFrame DEF Chain
  <2> QED BY <2>2, <2>3, ChainPrime DEF Chain
<1>4. \A m \in Node : m # n => next'[m] = next[m] /\ value'[m] = value[m]
  BY <1>1
<1>5. \A u \in Thread : u # t => pc'[u] = pc[u] /\ op'[u] = op[u] /\ node'[u] = node[u]
                               /\ succ'[u] = succ[u] /\ result'[u] = result[u]
  BY <1>1 DEF Push
<1>6. /\ ~ Owns(t) /\ Fresh(t)' /\ pc[t] = "idle" /\ pc'[t] \in {"lock_head", "lock_tail"}
      /\ node'[t] = n /\ value'[n] = j /\ result'[t] = j /\ next'[n] = Null
  BY <1>1 DEF Push, Owns, Fresh
<1>7. ListShape'
  BY <1>1, <1>2, <1>3, <1>4, ChainFacts DEF ListInv, ListShape
<1>8. OwnNodes'
  <2>1. \A u \in Thread : u # t => (Owns(u)' <=> Owns(u)) /\ (Fresh(u)' <=> Fresh(u))
    BY <1>5 DEF Owns, Fresh
  <2>2. \A u \in Thread : Owns(u) => node[u] \in live /\ node[u] # n
    BY <1>1 DEF ListInv, OwnNodes
  <2> QED BY <1>1, <1>2, <1>3, <1>4, <1>5, <1>6, <2>1, <2>2 DEF ListInv, OwnNodes, Owns
<1>9. TailIsLast'
  BY <1>2, <1>3, <1>4, <1>5, <1>6, ChainFacts DEF ListInv, TailIsLast
<1>10. HalfDone'
  <2>1. \A u \in Thread : Owns(u) => node[u] \in Node /\ node[u] # n
    BY <1>1 DEF ListInv, OwnNodes
  <2> QED BY <1>2, <1>3, <1>4, <1>5, <1>6, <2>1, ChainFacts DEF ListInv, HalfDone, Owns, Fresh,
             Closed
<1>11. NodesCarryJobs'
  BY <1>2, <1>3, <1>4, <1>5, <1>6, ChainFacts DEF ListInv, NodesCarryJobs
<1> QED BY <1>3, <1>7, <1>8, <1>9, <1>10, <1>11 DEF ListInv

(* append publishes its node behind the last one ...                        *)
LEMMA AppendLinkList ==
  ASSUME IInv, NEW t \in Thread, AppendLink(t)
  PROVE  ListInv' /\ Chain' = Chain \cup {node[t]}
<1> USE DEF IInv, TypeOK, OpLabels, Goto, endVars, localVars
<1> DEFINE n == node[t]
<1>1. tail_ \in Chain /\ next[tail_] = Null
  BY ChainFacts DEF AppendLink, HoldsTail
<1>2. Owns(t) /\ Fresh(t) /\ n \in live /\ n \notin Chain /\ next[n] = Null
      /\ value[n] \in Job /\ n # head_ /\ n # tail_ /\ n \in Node
  BY <1>1, ChainFacts DEF AppendLink, Owns, Fresh, ListInv, OwnNodes
<1>3. /\ next' = [next EXCEPT ![tail_] = n] /\ UNCHANGED <<value, live, head_, tail_>>
      /\ pc[t] = "link" /\ pc' = [pc EXCEPT ![t] = "swing"]
      /\ UNCHANGED <<op, node, succ, result>>
  BY DEF AppendLink
<1>4. Chain' = Chain \cup {n}
  <2>1. head_ \in Node
    OBVIOUS
  <2>2. Reachable(head_, [next EXCEPT ![tail_] = n]) = Reachable(head_, next) \cup {n}
    <3> HIDE DEF IInv, TypeOK, OpLabels, Goto, endVars, localVars, n
    <3> QED BY <1>1, <1>2, <2>1, ChainFacts, ReachableAppend DEF Chain
  <2> QED BY <1>3, <2>2, ChainPrime DEF Chain
<1>5. next'[tail_] = n /\ \A m \in Node : m # tail_ => next'[m] = next[m]
  BY <1>3
<1>6. \A u \in Thread : HoldsTail(u) => u = t
  BY <1>3 DEF MutualExclusion, HoldsTail
<1>7. ListShape'
  <2>1. \A a \in Chain : next[a] # n
    BY <1>2, ChainFacts DEF Closed
  <2> QED BY <1>1, <1>2, <1>3, <1>4, <1>5, <2>1, ChainFacts DEF ListInv, ListShape
<1>8. OwnNodes'
  <2>1. ~ Owns(t)' /\ \A u \in Thread : u # t => (Owns(u)' <=> Owns(u)) /\ (Fresh(u)' <=> Fresh(u))
    BY <1>3 DEF Owns, Fresh
  <2>2. \A u \in Thread : u # t /\ Owns(u) => node[u] # n /\ node[u] # tail_
    BY <1>1, <1>2 DEF ListInv, OwnNodes
  <2> QED BY <1>2, <1>3, <1>4, <1>5, <2>1, <2>2 DEF ListInv, OwnNodes, Owns
<1>9. TailIsLast'
  BY <1>3 DEF TailIsLast
<1>10. HalfDone'
  <2>1. \A u \in Thread : u # t => pc'[u] = pc[u] /\ pc[u] \notin {"swing", "insert", "predecessor", "cut"}
    BY <1>3, <1>6 DEF HoldsTail
  <2>2. \A u \in Thread : pc[u] \in {"value", "forward"} => next'[head_] = next[head_]
    BY <1>1, <1>5, ChainFacts DEF ListInv, HalfDone
  <2> QED BY <1>2, <1>3, <1>4, <1>5, <2>1, <2>2 DEF ListInv, HalfDone
<1>11. NodesCarryJobs'
  BY <1>2, <1>3, <1>4, DequeAssumption DEF ListInv, NodesCarryJobs
<1> QED BY <1>4, <1>7, <1>8, <1>9, <1>10, <1>11 DEF ListInv

(* ... and makes it the last.                                               *)
LEMMA AppendSwingList ==
  ASSUME IInv, NEW t \in Thread, AppendSwing(t)
  PROVE  ListInv' /\ Chain' = Chain
<1> USE DEF IInv, TypeOK, OpLabels, Goto, nodeVars
<1>1. /\ pc[t] = "swing" /\ pc' = [pc EXCEPT ![t] = "idle"] /\ op' = [op EXCEPT ![t] = "none"]
      /\ tail_' = node[t] /\ UNCHANGED <<next, value, live, head_>>
      /\ \A u \in Thread : u # t => node'[u] = node[u] /\ succ'[u] = succ[u] /\ result'[u] = result[u]
  BY DEF AppendSwing, Return, NewTail
<1>2. Chain' = Chain
  BY <1>1 DEF Chain
<1>3. tail_' \in Chain' /\ next'[tail_'] = Null
  BY <1>1, <1>2 DEF ListInv, HalfDone
<1>4. \A u \in Thread : u # t => pc'[u] = pc[u] /\ ~ HoldsTail(u)
  BY <1>1 DEF MutualExclusion, HoldsTail
<1>5. ~ Owns(t) /\ ~ Owns(t)'
  BY <1>1 DEF Owns, Fresh
<1>6. HalfDone'
  BY <1>1, <1>2, <1>4 DEF ListInv, HalfDone, HoldsTail
<1> QED BY <1>1, <1>2, <1>3, <1>4, <1>5, <1>6
        DEF ListInv, ListShape, OwnNodes, Owns, Fresh, TailIsLast, NodesCarryJobs

(* prepend looks at the first node: the tail moves if the list is empty.    *)
LEMMA PrependFirstList ==
  ASSUME IInv, NEW t \in Thread, PrependFirst(t)
  PROVE  ListInv' /\ Chain' = Chain
<1> USE DEF IInv, TypeOK, OpLabels, Goto, localVars
<1> DEFINE n == node[t]
<1>1. tail_ \in Chain /\ next[tail_] = Null
  BY ChainFacts DEF PrependFirst, HoldsTail
<1>2. Owns(t) /\ Fresh(t) /\ n \in live /\ n \notin Chain /\ next[n] = Null
      /\ value[n] \in Job /\ value[n] = result[t] /\ n # head_ /\ n \in Node
  BY <1>1, ChainFacts DEF PrependFirst, Owns, Fresh, ListInv, OwnNodes
<1>3. /\ pc[t] = "first" /\ pc' = [pc EXCEPT ![t] = "insert"]
      /\ UNCHANGED <<op, node, succ, result, value, live, head_>>
  BY DEF PrependFirst
<1>4. /\ next' = [next EXCEPT ![n] = next[head_]]
      /\ tail_' = IF next[head_] = Null THEN n ELSE tail_
  BY <1>2 DEF PrependFirst
<1>5. next'[n] = next[head_] /\ \A m \in Node : m # n => next'[m] = next[m]
  BY <1>2, <1>4
<1>6. Chain' = Chain
  <2>1. next' \in NextPointers /\ head_ \in Node /\ \A m \in Chain : next'[m] = next[m]
    BY <1>2, <1>4, <1>5, ChainFacts DEF NextPointers
  <2>2. Reachable(head_, next') = Reachable(head_, next)
    <3> HIDE DEF IInv, TypeOK, OpLabels, Goto, localVars
    <3> QED BY <2>1, ChainFacts, ReachableFrame DEF Chain
  <2> QED BY <1>3, <2>2, ChainPrime DEF Chain
<1>7. \A u \in Thread : u # t => pc'[u] = pc[u] /\ ~ HoldsTail(u) /\ ~ HoldsHead(u)
  BY <1>3 DEF MutualExclusion, HoldsTail, HoldsHead
<1>8. ListShape'
  BY <1>2, <1>3, <1>5, <1>6, ChainFacts DEF ListInv, ListShape
<1>9. OwnNodes'
  <2>1. \A u \in Thread : (Owns(u)' <=> Owns(u)) /\ (Fresh(u)' <=> Fresh(u))
    BY <1>3 DEF Owns, Fresh
  <2>2. \A u \in Thread : u # t /\ Owns(u) => node[u] # n /\ node[u] \in Node
    BY <1>2 DEF ListInv, OwnNodes
  <2> QED BY <1>2, <1>3, <1>5, <1>6, <2>1, <2>2 DEF ListInv, OwnNodes, Owns
<1>10. TailIsLast'
  BY <1>3 DEF TailIsLast
<1>11. HalfDone'
  BY <1>1, <1>2, <1>3, <1>4, <1>5, <1>6, <1>7, ChainFacts DEF HoldsTail, HoldsHead, HalfDone
<1>12. NodesCarryJobs'
  BY <1>3, <1>6 DEF ListInv, NodesCarryJobs
<1> QED BY <1>6, <1>8, <1>9, <1>10, <1>11, <1>12 DEF ListInv

(* Then the new node is linked behind the dummy.                            *)
LEMMA PrependInsertList ==
  ASSUME IInv, NEW t \in Thread, PrependInsert(t)
  PROVE  ListInv' /\ Chain' = Chain \cup {node[t]}
<1> USE DEF IInv, TypeOK, OpLabels, Goto, endVars
<1> DEFINE n == node[t]
<1>1. /\ pc[t] = "insert" /\ pc' = [pc EXCEPT ![t] = "idle"] /\ op' = [op EXCEPT ![t] = "none"]
      /\ next' = [next EXCEPT ![head_] = n] /\ UNCHANGED <<value, live, head_, tail_>>
      /\ \A u \in Thread : u # t => node'[u] = node[u] /\ succ'[u] = succ[u] /\ result'[u] = result[u]
  BY DEF PrependInsert, Return
<1>2. Owns(t) /\ Fresh(t) /\ n \in live /\ n \notin Chain /\ next[n] = next[head_]
      /\ value[n] \in Job /\ n # head_ /\ n \in Node
  BY <1>1, ChainFacts DEF Owns, Fresh, ListInv, OwnNodes, HalfDone
<1>3. next'[head_] = n /\ \A m \in Node : m # head_ => next'[m] = next[m]
  BY <1>1
<1>4. Chain' = Chain \cup {n}
  <2>1. head_ \in Node
    OBVIOUS
  <2>2. Reachable(head_, [next EXCEPT ![head_] = n]) = Reachable(head_, next) \cup {n}
    <3> HIDE DEF IInv, TypeOK, OpLabels, Goto, endVars, n
    <3> QED BY <1>2, <2>1, ChainFacts, ReachableInsert DEF Chain
  <2> QED BY <1>1, <2>2, ChainPrime DEF Chain
<1>5. \A u \in Thread : u # t => pc'[u] = pc[u] /\ op'[u] = op[u] /\ ~ HoldsTail(u) /\ ~ HoldsHead(u)
  BY <1>1 DEF MutualExclusion, HoldsTail, HoldsHead
<1>6. ListShape'
  <2>1. \A a \in Chain : next[a] # n
    BY <1>2, ChainFacts DEF Closed
  <2> QED BY <1>1, <1>2, <1>3, <1>4, <2>1, ChainFacts DEF ListInv, ListShape
<1>7. OwnNodes'
  <2>1. ~ Owns(t)' /\ \A u \in Thread : u # t => (Owns(u)' <=> Owns(u)) /\ (Fresh(u)' <=> Fresh(u))
    BY <1>1, <1>5 DEF Owns, Fresh
  <2>2. \A u \in Thread : u # t /\ Owns(u) => node[u] # n /\ node[u] # head_
    BY <1>2, ChainFacts DEF ListInv, OwnNodes
  <2> QED BY <1>1, <1>2, <1>3, <1>4, <1>5, <2>1, <2>2 DEF ListInv, OwnNodes, Owns
<1>8. TailIsLast'
  <2>1. tail_ \in Chain' /\ next'[tail_] = Null
    BY <1>1, <1>2, <1>3, <1>4, ChainFacts DEF ListInv, HalfDone
  <2> QED BY <1>1, <2>1 DEF TailIsLast
<1>9. HalfDone'
  BY <1>1, <1>5 DEF HalfDone, HoldsTail, HoldsHead
<1>10. NodesCarryJobs'
  BY <1>1, <1>2, <1>4, <1>5, DequeAssumption DEF ListInv, NodesCarryJobs
<1> QED BY <1>4, <1>6, <1>7, <1>8, <1>9, <1>10 DEF ListInv

(* take_head takes the job out of the second node ...                       *)
LEMMA TakeHeadValueList ==
  ASSUME IInv, NEW t \in Thread, TakeHeadValue(t)
  PROVE  ListInv' /\ Chain' = Chain
<1> USE DEF IInv, TypeOK, OpLabels, Goto, endVars
<1>1. /\ pc[t] = "value" /\ pc' = [pc EXCEPT ![t] = "forward"]
      /\ value' = [value EXCEPT ![succ[t]] = Null]
      /\ UNCHANGED <<next, live, head_, tail_, op, node, succ>>
      /\ \A u \in Thread : u # t => result'[u] = result[u]
  BY DEF TakeHeadValue
<1>2. Chain' = Chain
  BY <1>1 DEF Chain
<1>3. succ[t] \in Chain /\ succ[t] \in Node /\ \A m \in Node : m # succ[t] => value'[m] = value[m]
  BY <1>1, ChainFacts DEF ListInv, HalfDone, Closed
<1>4. \A u \in Thread : u # t => pc'[u] = pc[u] /\ ~ HoldsHead(u)
  BY <1>1 DEF MutualExclusion, HoldsHead
<1>5. OwnNodes'
  <2>1. ~ Owns(t) /\ ~ Owns(t)'
    BY <1>1 DEF Owns, Fresh
  <2>2. \A u \in Thread : Owns(u) => node[u] # succ[t] /\ node[u] \in Node
    BY <1>3 DEF ListInv, OwnNodes
  <2>3. \A u \in Thread : u # t => (Owns(u)' <=> Owns(u)) /\ (Fresh(u)' <=> Fresh(u))
    BY <1>1 DEF Owns, Fresh
  <2> QED BY <1>1, <1>2, <1>3, <1>4, <2>1, <2>2, <2>3 DEF ListInv, OwnNodes, Owns
<1>6. HalfDone'
  BY <1>1, <1>2, <1>4 DEF ListInv, HalfDone, HoldsHead
<1> QED BY <1>1, <1>2, <1>3, <1>4, <1>5, <1>6 DEF ListInv, ListShape, TailIsLast, NodesCarryJobs

(* ... which becomes the new dummy, even while an append is under way.      *)
LEMMA TakeHeadForwardList ==
  ASSUME IInv, NEW t \in Thread, TakeHeadForward(t)
  PROVE  ListInv' /\ Chain' = Chain \ {head_}
<1> USE DEF IInv, TypeOK, OpLabels, Goto, nodeVars, localVars
<1>1. /\ pc[t] = "forward" /\ pc' = [pc EXCEPT ![t] = "delete"] /\ head_' = succ[t]
      /\ UNCHANGED <<next, value, live, tail_, op, node, succ, result>>
  BY DEF TakeHeadForward
<1>2. /\ node[t] = head_ /\ succ[t] = next[head_] /\ succ[t] \in Chain /\ succ[t] \in Node
      /\ succ[t] # head_ /\ next[head_] # Null
  BY <1>1, ChainFacts DEF ListInv, HalfDone, Closed, ListShape
<1>3. Chain' = Chain \ {head_}
  <2>1. head_ \in Node /\ \A m \in Reachable(head_, next) : next[m] # head_
    BY DEF ListInv, ListShape, Chain
  <2>2. Reachable(next[head_], next) = Reachable(head_, next) \ {head_}
    <3> HIDE DEF IInv, TypeOK, OpLabels, Goto, nodeVars, localVars
    <3> QED BY <1>2, <2>1, ChainFacts, ReachableForward
  <2> QED BY <1>1, <1>2, <2>2, ChainPrime DEF Chain
<1>4. \A u \in Thread : u # t => pc'[u] = pc[u] /\ ~ HoldsHead(u)
  BY <1>1 DEF MutualExclusion, HoldsHead
<1>5. ListShape'
  BY <1>1, <1>2, <1>3, ChainFacts DEF ListInv, ListShape
<1>6. OwnNodes'
  <2>1. ~ Owns(t) /\ Owns(t)' /\ ~ Fresh(t)'
    BY <1>1 DEF Owns, Fresh
  <2>2. \A u \in Thread : u # t => (Owns(u)' <=> Owns(u)) /\ (Fresh(u)' <=> Fresh(u))
    BY <1>1 DEF Owns, Fresh
  <2>3. head_ \in live /\ head_ \in Chain
    BY ChainFacts DEF ListInv, ListShape
  <2> QED BY <1>1, <1>2, <1>3, <1>4, <2>1, <2>2, <2>3 DEF ListInv, OwnNodes, Owns
<1>7. TailIsLast'
  BY <1>1, <1>2, <1>3, <1>4 DEF ListInv, TailIsLast
<1>8. HalfDone'
  BY <1>1, <1>2, <1>3, <1>4 DEF ListInv, HalfDone, HoldsHead
<1>9. NodesCarryJobs'
  BY <1>1, <1>2, <1>3, <1>4 DEF ListInv, NodesCarryJobs, HoldsHead
<1> QED BY <1>3, <1>5, <1>6, <1>7, <1>8, <1>9 DEF ListInv

(* take_tail moves the tail to the predecessor of the last node ...         *)
LEMMA TakeTailPredecessorList ==
  ASSUME IInv, NEW t \in Thread, TakeTailPredecessor(t)
  PROVE  ListInv' /\ Chain' = Chain
<1> USE DEF IInv, TypeOK, OpLabels, Goto, nodeVars, localVars
<1>1. /\ pc[t] = "predecessor" /\ pc' = [pc EXCEPT ![t] = "cut"]
      /\ tail_' = find_predecessor(node[t])
      /\ UNCHANGED <<next, value, live, head_, op, node, succ, result>>
  BY DEF TakeTailPredecessor
<1>2. /\ node[t] = tail_ /\ tail_ \in Chain /\ tail_ # head_ /\ next[tail_] = Null
      /\ result[t] \in Job
  BY <1>1, ChainFacts DEF HoldsTail, ListInv, HalfDone
<1>3. \E i \in Chain : next[i] = node[t]
  <2> HIDE DEF IInv
  <2> QED BY <1>2, ChainFacts, ReachablePredecessor DEF Chain
<1>4. tail_' \in Chain /\ next[tail_'] = node[t]
  BY <1>1, <1>3 DEF find_predecessor
<1>5. Chain' = Chain
  BY <1>1 DEF Chain
<1>6. \A u \in Thread : u # t => pc'[u] = pc[u] /\ ~ HoldsHead(u) /\ ~ HoldsTail(u)
  BY <1>1 DEF MutualExclusion, HoldsHead, HoldsTail
<1>7. OwnNodes'
  <2>1. ~ Owns(t) /\ ~ Owns(t)'
    BY <1>1 DEF Owns, Fresh
  <2>2. \A u \in Thread : u # t => (Owns(u)' <=> Owns(u)) /\ (Fresh(u)' <=> Fresh(u))
    BY <1>1 DEF Owns, Fresh
  <2> QED BY <1>1, <1>5, <1>6, <2>1, <2>2 DEF ListInv, OwnNodes, Owns
<1>8. HalfDone'
  BY <1>1, <1>2, <1>4, <1>5, <1>6 DEF HalfDone, HoldsHead, HoldsTail
<1>9. TailIsLast'
  BY <1>1 DEF TailIsLast
<1> QED BY <1>1, <1>5, <1>6, <1>7, <1>8, <1>9 DEF ListInv, ListShape, NodesCarryJobs

(* ... and cuts the last node off.                                          *)
LEMMA TakeTailCutList ==
  ASSUME IInv, NEW t \in Thread, TakeTailCut(t)
  PROVE  ListInv' /\ Chain' = Chain \ {node[t]}
<1> USE DEF IInv, TypeOK, OpLabels, Goto, endVars, localVars
<1>1. /\ pc[t] = "cut" /\ pc' = [pc EXCEPT ![t] = "delete"]
      /\ next' = [next EXCEPT ![tail_] = Null]
      /\ UNCHANGED <<value, live, head_, tail_, op, node, succ, result>>
  BY DEF TakeTailCut
<1>2. /\ tail_ \in Chain /\ next[tail_] = node[t] /\ node[t] \in Node /\ node[t] # head_
      /\ next[node[t]] = Null /\ node[t] # Null /\ node[t] \in Chain
  BY <1>1, ChainFacts DEF ListInv, HalfDone, Closed
<1>3. next'[tail_] = Null /\ \A m \in Node : m # tail_ => next'[m] = next[m]
  BY <1>1
<1>4. tail_ # node[t]
  BY <1>2
<1>5. Chain' = Chain \ {node[t]}
  <2>1. head_ \in Node /\ \A m \in Reachable(head_, next) : next[m] = next[tail_] => m = tail_
    BY <1>2 DEF ListInv, ListShape, Chain
  <2>2. Reachable(head_, [next EXCEPT ![tail_] = Null]) = Reachable(head_, next) \ {next[tail_]}
    <3>1. tail_ \in Reachable(head_, next)
      BY <1>2 DEF Chain
    <3> HIDE DEF IInv, TypeOK, OpLabels, Goto, endVars, localVars
    <3> QED BY <1>2, <2>1, <3>1, ChainFacts, ReachableCut
  <2> QED BY <1>1, <1>2, <2>2, ChainPrime DEF Chain
<1>6. \A u \in Thread : u # t => pc'[u] = pc[u] /\ ~ HoldsHead(u) /\ ~ HoldsTail(u)
  BY <1>1 DEF MutualExclusion, HoldsHead, HoldsTail
<1>7. ListShape'
  BY <1>1, <1>2, <1>3, <1>5, ChainFacts DEF ListInv, ListShape
<1>8. OwnNodes'
  <2>1. ~ Owns(t) /\ Owns(t)' /\ ~ Fresh(t)'
    BY <1>1 DEF Owns, Fresh
  <2>2. \A u \in Thread : u # t => (Owns(u)' <=> Owns(u)) /\ (Fresh(u)' <=> Fresh(u))
    BY <1>1 DEF Owns, Fresh
  <2>3. \A u \in Thread : Owns(u) => node[u] # tail_ /\ node[u] # node[t]
    BY <1>2, <2>1 DEF ListInv, OwnNodes
  <2>4. node[t] \in live
    BY <1>2 DEF ListInv, ListShape
  <2> QED BY <1>1, <1>2, <1>3, <1>5, <1>6, <2>1, <2>2, <2>3, <2>4 DEF ListInv, OwnNodes, Owns
<1>9. TailIsLast'
  BY <1>1, <1>2, <1>3, <1>4, <1>5 DEF TailIsLast
<1>10. HalfDone'
  BY <1>1, <1>6 DEF HalfDone, HoldsHead, HoldsTail
<1>11. NodesCarryJobs'
  BY <1>1, <1>5, <1>6 DEF ListInv, NodesCarryJobs
<1> QED BY <1>5, <1>7, <1>8, <1>9, <1>10, <1>11 DEF ListInv

(* Deleting a node: nobody else refers to it.                               *)
LEMMA DeleteList ==
  ASSUME IInv, NEW t \in Thread, Delete(t)
  PROVE  ListInv' /\ Chain' = Chain
<1> USE DEF IInv, TypeOK, OpLabels, Goto, endVars
<1> DEFINE n == node[t]
<1>1. /\ pc[t] = "delete" /\ pc' = [pc EXCEPT ![t] = "idle"] /\ op' = [op EXCEPT ![t] = "none"]
      /\ live' = live \ {n} /\ next' = [next EXCEPT ![n] = Null] /\ value' = [value EXCEPT ![n] = Null]
      /\ UNCHANGED <<head_, tail_>>
      /\ \A u \in Thread : u # t => node'[u] = node[u] /\ succ'[u] = succ[u] /\ result'[u] = result[u]
  BY DEF Delete, Return
<1>2. Owns(t) /\ ~ Fresh(t) /\ n \in live /\ n \in Node /\ n \notin Chain
  BY <1>1 DEF Owns, Fresh, ListInv, OwnNodes
<1>3. \A m \in Node : m # n => next'[m] = next[m] /\ value'[m] = value[m]
  BY <1>1
<1>4. Chain' = Chain
  <2>1. next' \in NextPointers /\ head_ \in Node /\ \A m \in Chain : next'[m] = next[m]
    BY <1>1, <1>2, <1>3, ChainFacts DEF NextPointers
  <2>2. Reachable(head_, next') = Reachable(head_, next)
    <3> HIDE DEF IInv, TypeOK, OpLabels, Goto, endVars
    <3> QED BY <2>1, ChainFacts, ReachableFrame DEF Chain
  <2> QED BY <1>1, <2>2, ChainPrime DEF Chain
<1>5. \A u \in Thread : u # t => pc'[u] = pc[u] /\ op'[u] = op[u]
  BY <1>1
<1>6. ~ Owns(t)' /\ \A u \in Thread : u # t => (Owns(u)' <=> Owns(u)) /\ (Fresh(u)' <=> Fresh(u))
  BY <1>1, <1>5 DEF Owns, Fresh
<1>7. \A u \in Thread : u # t /\ Owns(u) => node[u] # n /\ node[u] \in Node
  BY <1>2 DEF ListInv, OwnNodes
<1>8. ListShape'
  BY <1>1, <1>2, <1>3, <1>4, ChainFacts DEF ListInv, ListShape
<1>9. OwnNodes'
  BY <1>1, <1>2, <1>3, <1>4, <1>5, <1>6, <1>7 DEF ListInv, OwnNodes, Owns
<1>10. TailIsLast'
  BY <1>1, <1>2, <1>3, <1>4, <1>5, ChainFacts DEF ListInv, TailIsLast
<1>11. HalfDone'
  BY <1>1, <1>2, <1>3, <1>4, <1>5, <1>7, ChainFacts DEF ListInv, HalfDone, Owns, Fresh, Closed
<1>12. NodesCarryJobs'
  BY <1>1, <1>2, <1>3, <1>4, <1>5, ChainFacts DEF ListInv, NodesCarryJobs
<1> QED BY <1>4, <1>8, <1>9, <1>10, <1>11, <1>12 DEF ListInv

-----------------------------------------------------------------------------
(* The theorems.                                                            *)

(* The constructor: one dummy, no thread at work.                           *)
LEMMA InitIInv == Init => IInv
<1> SUFFICES ASSUME Init PROVE IInv
  OBVIOUS
<1>1. PICK d \in Node : live = {d} /\ head_ = d /\ tail_ = d
  BY DEF Init
<1>2. TypeOK
  BY <1>1 DEF Init, TypeOK, Labels, Ops, Thread
<1>3. OpLabels /\ MutualExclusion
  BY DEF Init, OpLabels, MutualExclusion, HoldsHead, HoldsTail
<1>4. Chain = {d}
  <2>1. next \in NextPointers /\ next[d] = Null
    BY DEF Init, NextPointers
  <2>2. d \in Chain
    BY <1>1, <2>1, ReachableClosed DEF Chain
  <2>3. Closed({d}, next)
    BY <2>1 DEF Closed
  <2>4. Chain \subseteq {d}
    BY <1>1, <2>3, ReachableSmallest DEF Chain
  <2> QED BY <2>2, <2>4
<1>5. ListInv
  BY <1>1, <1>4, DequeAssumption
     DEF Init, ListInv, ListShape, OwnNodes, Owns, Fresh, TailIsLast, HalfDone, NodesCarryJobs
<1> QED BY <1>2, <1>3, <1>5 DEF IInv

(* Every step of every thread preserves the invariant.                      *)
LEMMA NextIInv == IInv /\ [Next]_vars => IInv'
<1> SUFFICES ASSUME IInv, [Next]_vars PROVE IInv'
  OBVIOUS
<1>1. CASE Next
  <2>1. PICK t \in Thread : Step(t)
    BY <1>1 DEF Next
  <2>2. TypeOK' /\ OpLabels' /\ MutualExclusion'
    BY <2>1, TypeStep, OpLabelsStep, MutualExclusionStep
  <2>3. ListInv'
    BY <2>1, QuietSteps, PushList, AppendLinkList, AppendSwingList, PrependFirstList,
       PrependInsertList, TakeHeadValueList, TakeHeadForwardList, TakeTailPredecessorList,
       TakeTailCutList, DeleteList DEF Step
  <2> QED BY <2>2, <2>3 DEF IInv
<1>2. CASE UNCHANGED vars
  BY <1>2 DEF vars, nodeVars, endVars, lockVars, localVars, IInv, TypeOK, OpLabels,
     MutualExclusion, HoldsHead, HoldsTail, ListInv, ListShape, OwnNodes, Owns, Fresh, TailIsLast,
     HalfDone, NodesCarryJobs, Chain, Reachable, Closed
<1> QED BY <1>1, <1>2

(* The inductive invariant holds in every reachable state, so the variables *)
(* of double_ended_queue keep their types: in particular tail_ never is     *)
(* null, as take_tail asserts, and no operation hands out a null job.       *)
THEOREM Invariance == Spec => []IInv
BY InitIInv, NextIInv, PTL DEF Spec

(* At most one thread is between lock and unlock of head_lock_, and at most *)
(* one of tail_lock_, and the flags say so.                                 *)
THEOREM LocksExclude == Spec => []MutualExclusion
<1>1. IInv => MutualExclusion
  BY DEF IInv
<1> QED BY <1>1, Invariance, PTL

(* The nodes of the linked list stay sound: none is dereferenced or deleted *)
(* after it was freed, none leaks, and the assertions of prepend and        *)
(* take_tail hold, for any number of workers, jobs and nodes.               *)
THEOREM NodesStaySound == Spec => []NodesSound
<1>1. IInv => NodesSound
  <2> SUFFICES ASSUME IInv PROVE NodesSound
    OBVIOUS
  <2>1. NoUseAfterFree
    <3> SUFFICES ASSUME NEW t \in Thread PROVE Derefs(t) \subseteq live
      BY DEF NoUseAfterFree
    <3>1. Chain \subseteq live /\ head_ \in live
      BY ChainFacts DEF IInv, ListInv, ListShape
    <3>2. pc[t] \in {"link", "last", "cut"} => tail_ \in Chain
      BY ChainFacts DEF HoldsTail, IInv, ListInv, HalfDone
    <3>3. pc[t] \in {"first", "insert", "delete"} => node[t] \in live
      BY DEF IInv, OpLabels, ListInv, OwnNodes, Owns, Fresh
    <3>4. pc[t] = "value" => succ[t] \in Chain
      BY ChainFacts DEF IInv, ListInv, HalfDone, Closed
    <3> QED BY <3>1, <3>2, <3>3, <3>4 DEF Derefs
  <2>2. NoLeak
    <3> DEFINE U == {u \in Thread : pc[u] = "delete" \/ (pc[u] # "idle" /\ op[u] \in {"append", "prepend"})}
    <3>1. \A u \in Thread : Owns(u) => u \in U
      BY DEF Owns, Fresh, IInv, OpLabels
    <3>2. \A u \in U : Owns(u) \/ node[u] \in Chain
      BY DEF Owns, Fresh, IInv, OpLabels, ListInv, HalfDone
    <3>3. \A u \in U : node[u] \in live
      BY <3>2 DEF IInv, ListInv, OwnNodes, ListShape
    <3>4. Chain \subseteq live
      BY DEF IInv, ListInv, ListShape
    <3>5. \A n \in live : n \in Chain \/ \E u \in U : node[u] = n
      BY <3>1 DEF IInv, ListInv, OwnNodes
    <3> QED BY <3>3, <3>4, <3>5 DEF NoLeak
  <2>3. Asserts
    <3> SUFFICES ASSUME NEW t \in Thread
                 PROVE  /\ pc[t] = "first" => (next[head_] = Null <=> head_ = tail_)
                        /\ pc[t] = "predecessor" => find_predecessor(node[t]) # Null
                        /\ pc[t] \in {"link", "last"} => next[tail_] = Null
      BY DEF Asserts
    <3>1. ASSUME pc[t] = "first" PROVE next[head_] = Null <=> head_ = tail_
      <4>1. tail_ \in Chain /\ next[tail_] = Null
        BY <3>1, ChainFacts DEF HoldsTail
      <4>2. next[head_] = Null => Closed({head_}, next)
        BY DEF Closed
      <4>3. next[head_] = Null => Chain \subseteq {head_}
        BY <4>2, ChainFacts, ReachableSmallest DEF Chain
      <4> QED BY <4>1, <4>3
    <3>2. ASSUME pc[t] = "predecessor" PROVE find_predecessor(node[t]) # Null
      <4>1. node[t] = tail_ /\ tail_ # head_ /\ tail_ \in Chain
        BY <3>2, ChainFacts DEF HoldsTail, IInv, ListInv, HalfDone
      <4>2. \E i \in Chain : next[i] = node[t]
        BY <4>1, ChainFacts, ReachablePredecessor DEF Chain
      <4> QED BY <4>2, ChainFacts DEF find_predecessor
    <3>3. pc[t] \in {"link", "last"} => next[tail_] = Null
      BY ChainFacts DEF HoldsTail
    <3> QED BY <3>1, <3>2, <3>3
  <2> QED BY <2>1, <2>2, <2>3 DEF NodesSound
<1> QED BY <1>1, Invariance, PTL

-----------------------------------------------------------------------------
(* The jobs.                                                                *)

(* A job is in the hands of one thread or in one node of the list, never in *)
(* two places and never in none: whatever append, prepend, take_head and    *)
(* take_tail do at the same time, no job is lost or handed out twice.       *)
JobsConserved ==
  /\ \A t, u \in Thread : t # u => held[t] \cap held[u] = {}
  /\ \A m, n \in Chain : value[m] = value[n] /\ value[m] # Null => m = n
  /\ \A t \in Thread, n \in Chain : value[n] \notin held[t]
  /\ \A j \in Job : \/ \E t \in Thread : j \in held[t]
                    \/ \E n \in Chain : value[n] = j

(* The dummy carries no job, and a job is handed over in the step that      *)
(* links its node or takes it off the list.                                 *)
JobsInTransit ==
  /\ value[head_] = Null
  /\ \A t \in Thread :
       /\ Fresh(t) => result[t] \in held[t]
       /\ pc[t] \in {"predecessor", "cut"} => result[t] = value[node[t]]
       /\ pc[t] = "forward" => value[succ[t]] = Null

JobsInv == JobsConserved /\ JobsInTransit

(* Steps that move no job.                                                  *)
LEMMA JobsStay ==
  ASSUME IInv, JobsInv, Chain' = Chain, UNCHANGED <<held, head_>>,
         \A n \in Chain : value'[n] = value[n], JobsInTransit'
  PROVE  JobsInv'
BY DEF JobsInv, JobsConserved

(* Every step hands a job over completely or not at all.                    *)
LEMMA JobsStep ==
  ASSUME IInv, JobsInv, NEW t \in Thread, Step(t)
  PROVE  JobsInv'
<1> USE DEF IInv, TypeOK, OpLabels, Goto
<1>0. /\ head_ \in Chain /\ Chain \subseteq Node /\ Null \notin Job /\ Null \notin Node
      /\ \A u \in Thread : Owns(u) => node[u] \in Node /\ node[u] \notin Chain
  BY ChainFacts, DequeAssumption DEF ListInv, OwnNodes
<1>1. CASE \E o \in Ops, j \in Job : Push(t, o, j)
  <2>1. PICK o \in Ops, j \in Job : Push(t, o, j)
    BY <1>1
  <2>2. Chain' = Chain
    BY <2>1, PushList
  <2>3. PICK n \in Node \ live : value' = [value EXCEPT ![n] = j] /\ node' = [node EXCEPT ![t] = n]
    BY <2>1 DEF Push
  <2>4. n \notin Chain
    BY <2>3 DEF ListInv, ListShape
  <2>5. UNCHANGED <<held, head_>> /\ \A m \in Chain : value'[m] = value[m]
    BY <1>0, <2>1, <2>3, <2>4 DEF Push, endVars
  <2>6. \A u \in Thread : u # t => pc'[u] = pc[u] /\ node'[u] = node[u] /\ succ'[u] = succ[u]
                                 /\ result'[u] = result[u]
                                 /\ (Fresh(u)' <=> Fresh(u))
    BY <2>1, <2>3 DEF Push, Fresh
  <2>7. result'[t] = j /\ j \in held[t] /\ pc'[t] \in {"lock_head", "lock_tail"}
    BY <2>1 DEF Push
  <2>8. \A u \in Thread : /\ pc[u] \in {"predecessor", "cut"} => node[u] \in Chain
                          /\ pc[u] = "forward" => succ[u] \in Chain
    BY ChainFacts DEF HoldsTail, ListInv, HalfDone, Closed
  <2>9. JobsInTransit'
    BY <1>0, <2>5, <2>6, <2>7, <2>8 DEF JobsInv, JobsInTransit
  <2> QED BY <2>2, <2>5, <2>9, JobsStay
<1>2. CASE (\E o \in Ops : Take(t, o)) \/ LockHead(t) \/ LockTail(t) \/ TakeHeadNext(t) \/ TakeTailLast(t)
  <2>1. Chain' = Chain
    BY <1>2, QuietSteps
  <2>2. UNCHANGED <<held, head_, value>>
    BY <1>2 DEF Take, LockHead, LockTail, TakeHeadNext, TakeTailLast, endVars, nodeVars
  <2>3. \A u \in Thread : u # t => pc'[u] = pc[u] /\ node'[u] = node[u] /\ succ'[u] = succ[u]
                                 /\ result'[u] = result[u]
                                 /\ (Fresh(u)' <=> Fresh(u))
    BY <1>2 DEF Take, LockHead, LockTail, TakeHeadNext, TakeTailLast, Return, Fresh, localVars
  <2>4. Fresh(t)' => Fresh(t) /\ result'[t] = result[t]
    BY <1>2 DEF Take, LockHead, LockTail, TakeHeadNext, TakeTailLast, Return, Fresh, localVars
  <2>5. pc'[t] \in {"predecessor", "cut"} => result'[t] = value[node'[t]]
    BY <1>2 DEF Take, LockHead, LockTail, TakeHeadNext, TakeTailLast, Return, localVars, Body,
       NeedsTail, Ops
  <2>6. pc'[t] # "forward"
    BY <1>2 DEF Take, LockHead, LockTail, TakeHeadNext, TakeTailLast, Return, localVars, Body,
       NeedsTail, Ops
  <2>7. JobsInTransit'
    BY <2>2, <2>3, <2>4, <2>5, <2>6 DEF JobsInv, JobsInTransit
  <2> QED BY <2>1, <2>2, <2>7, JobsStay
<1>3. CASE AppendLink(t) \/ PrependInsert(t)
  <2>1. /\ Chain' = Chain \cup {node[t]}
        /\ held' = [held EXCEPT ![t] = held[t] \ {result[t]}] /\ UNCHANGED <<value, head_>>
    BY <1>3, AppendLinkList, PrependInsertList DEF AppendLink, PrependInsert, endVars
  <2>2. Fresh(t) /\ ~ Fresh(t)' /\ node[t] \notin Chain /\ node[t] \in Node
        /\ value[node[t]] = result[t] /\ result[t] \in Job /\ result[t] \in held[t]
    BY <1>0, <1>3 DEF AppendLink, PrependInsert, Return, Fresh, Owns, ListInv, OwnNodes, JobsInv,
       JobsInTransit
  <2>3. \A u \in Thread : u # t => held'[u] = held[u]
    BY <2>1
  <2>4. JobsConserved'
    <3>1. \A u \in Thread, n \in Chain' : value[n] \notin held'[u]
      BY <2>1, <2>2, <2>3 DEF JobsInv, JobsConserved
    <3>2. \A m, n \in Chain' : value[m] = value[n] /\ value[m] # Null => m = n
      BY <2>1, <2>2 DEF JobsInv, JobsConserved
    <3>3. \A j \in Job : (\E u \in Thread : j \in held'[u]) \/ (\E n \in Chain' : value[n] = j)
      BY <2>1, <2>2, <2>3 DEF JobsInv, JobsConserved
    <3>4. \A u, v \in Thread : u # v => held'[u] \cap held'[v] = {}
      BY <2>1, <2>3 DEF JobsInv, JobsConserved
    <3> QED BY <2>1, <3>1, <3>2, <3>3, <3>4 DEF JobsConserved
  <2>5. JobsInTransit'
    <3>1. \A u \in Thread : u # t => pc'[u] = pc[u] /\ node'[u] = node[u] /\ succ'[u] = succ[u]
                                 /\ result'[u] = result[u]
                                   /\ (Fresh(u)' <=> Fresh(u))
      BY <1>3 DEF AppendLink, PrependInsert, Return, Fresh, localVars
    <3>2. pc'[t] \in {"swing", "idle"}
      BY <1>3 DEF AppendLink, PrependInsert, Return
    <3> QED BY <2>1, <2>2, <2>3, <3>1, <3>2 DEF JobsInv, JobsInTransit
  <2> QED BY <2>4, <2>5 DEF JobsInv
<1>4. CASE AppendSwing(t) \/ PrependFirst(t) \/ TakeTailPredecessor(t)
  <2>1. Chain' = Chain /\ UNCHANGED <<held, head_, value>>
    BY <1>4, AppendSwingList, PrependFirstList, TakeTailPredecessorList
       DEF AppendSwing, PrependFirst, TakeTailPredecessor, nodeVars
  <2>2. \A u \in Thread : u # t => pc'[u] = pc[u] /\ node'[u] = node[u] /\ succ'[u] = succ[u]
                                 /\ result'[u] = result[u]
                                 /\ (Fresh(u)' <=> Fresh(u))
    BY <1>4 DEF AppendSwing, PrependFirst, TakeTailPredecessor, Return, Fresh, localVars
  <2>3. /\ pc'[t] # "forward"
        /\ Fresh(t)' => Fresh(t) /\ result'[t] = result[t]
        /\ pc'[t] \in {"predecessor", "cut"} =>
             pc[t] = "predecessor" /\ result'[t] = result[t] /\ node'[t] = node[t]
    BY <1>4 DEF AppendSwing, PrependFirst, TakeTailPredecessor, Return, Fresh, localVars
  <2>4. JobsInTransit'
    BY <2>1, <2>2, <2>3 DEF JobsInv, JobsInTransit
  <2> QED BY <2>1, <2>4, JobsStay
<1>5. CASE TakeHeadValue(t)
  <2> DEFINE n == succ[t]
  <2>1. /\ Chain' = Chain /\ UNCHANGED <<head_, op, node>>
        /\ held' = [held EXCEPT ![t] = held[t] \cup {value[n]}]
        /\ value' = [value EXCEPT ![n] = Null] /\ pc' = [pc EXCEPT ![t] = "forward"]
        /\ \A u \in Thread : u # t => result'[u] = result[u]
        /\ UNCHANGED succ
    BY <1>5, TakeHeadValueList DEF TakeHeadValue, endVars
  <2>2. n \in Chain /\ n \in Node /\ n # head_
    BY <1>5, ChainFacts DEF TakeHeadValue, ListInv, HalfDone, Closed, ListShape
  <2>3. value[n] \in Job
    BY <1>5, <2>2 DEF TakeHeadValue, ListInv, NodesCarryJobs, MutualExclusion, HoldsHead
  <2>4. value'[n] = Null /\ \A m \in Node : m # n => value'[m] = value[m]
    BY <2>1, <2>2
  <2>5. held'[t] = held[t] \cup {value[n]} /\ \A u \in Thread : u # t => held'[u] = held[u]
    BY <2>1
  <2>6. JobsConserved'
    <3>1. \A u \in Thread, m \in Chain : value'[m] \notin held'[u]
      BY <1>0, <2>2, <2>3, <2>4, <2>5 DEF JobsInv, JobsConserved
    <3>2. \A l, m \in Chain : value'[l] = value'[m] /\ value'[l] # Null => l = m
      BY <1>0, <2>4 DEF JobsInv, JobsConserved
    <3>3. \A j \in Job : (\E u \in Thread : j \in held'[u]) \/ (\E m \in Chain : value'[m] = j)
      BY <1>0, <2>4, <2>5 DEF JobsInv, JobsConserved
    <3>4. \A u, v \in Thread : u # v => held'[u] \cap held'[v] = {}
      BY <2>2, <2>5 DEF JobsInv, JobsConserved
    <3> QED BY <2>1, <3>1, <3>2, <3>3, <3>4 DEF JobsConserved
  <2>7. JobsInTransit'
    <3>1. \A u \in Thread : u # t => pc[u] \notin {"predecessor", "cut"}
      BY <1>5 DEF TakeHeadValue, MutualExclusion, HoldsHead
    <3>2. ~ Fresh(t)' /\ \A u \in Thread : u # t => (Fresh(u)' <=> Fresh(u))
      BY <1>5, <2>1 DEF Fresh, TakeHeadValue
    <3> QED BY <1>0, <2>1, <2>2, <2>4, <2>5, <3>1, <3>2 DEF JobsInv, JobsInTransit
  <2> QED BY <2>6, <2>7 DEF JobsInv
<1>6. CASE TakeHeadForward(t)
  <2>1. /\ Chain' = Chain \ {head_} /\ head_' = succ[t] /\ pc' = [pc EXCEPT ![t] = "delete"]
        /\ UNCHANGED <<value, held, op, node, succ, result>>
    BY <1>6, TakeHeadForwardList DEF TakeHeadForward, nodeVars, localVars
  <2>2. value[succ[t]] = Null
    BY <1>6 DEF TakeHeadForward, JobsInv, JobsInTransit
  <2>3. JobsConserved'
    BY <1>0, <2>1 DEF JobsInv, JobsConserved, JobsInTransit
  <2>4. \A u \in Thread : Fresh(u)' <=> Fresh(u)
    BY <1>6, <2>1 DEF Fresh, TakeHeadForward
  <2>5. JobsInTransit'
    BY <2>1, <2>2, <2>4 DEF JobsInv, JobsInTransit
  <2> QED BY <2>3, <2>5 DEF JobsInv
<1>7. CASE TakeTailCut(t)
  <2>1. /\ Chain' = Chain \ {node[t]} /\ pc' = [pc EXCEPT ![t] = "delete"]
        /\ held' = [held EXCEPT ![t] = held[t] \cup {result[t]}]
        /\ UNCHANGED <<value, head_, op, node, succ, result>>
    BY <1>7, TakeTailCutList DEF TakeTailCut, endVars, localVars
  <2>2. node[t] \in Chain /\ node[t] # head_ /\ result[t] = value[node[t]] /\ result[t] \in Job
    BY <1>7, ChainFacts DEF TakeTailCut, ListInv, HalfDone, Closed, JobsInv, JobsInTransit
  <2>3. held'[t] = held[t] \cup {result[t]} /\ \A u \in Thread : u # t => held'[u] = held[u]
    BY <2>1
  <2>4. JobsConserved'
    <3>1. \A u \in Thread, m \in Chain' : value[m] \notin held'[u]
      BY <1>0, <2>1, <2>2, <2>3 DEF JobsInv, JobsConserved
    <3>2. \A l, m \in Chain' : value[l] = value[m] /\ value[l] # Null => l = m
      BY <2>1 DEF JobsInv, JobsConserved
    <3>3. \A j \in Job : (\E u \in Thread : j \in held'[u]) \/ (\E m \in Chain' : value[m] = j)
      BY <1>0, <2>1, <2>2, <2>3 DEF JobsInv, JobsConserved
    <3>4. \A u, v \in Thread : u # v => held'[u] \cap held'[v] = {}
      BY <2>2, <2>3 DEF JobsInv, JobsConserved
    <3> QED BY <2>1, <3>1, <3>2, <3>3, <3>4 DEF JobsConserved
  <2>5. \A u \in Thread : Fresh(u)' <=> Fresh(u)
    BY <1>7, <2>1 DEF Fresh, TakeTailCut
  <2>6. JobsInTransit'
    BY <2>1, <2>3, <2>5 DEF JobsInv, JobsInTransit
  <2> QED BY <2>4, <2>6 DEF JobsInv
<1>8. CASE Delete(t)
  <2>1. /\ Chain' = Chain /\ UNCHANGED <<held, head_>> /\ pc' = [pc EXCEPT ![t] = "idle"]
        /\ value' = [value EXCEPT ![node[t]] = Null]
        /\ \A u \in Thread : u # t => node'[u] = node[u] /\ result'[u] = result[u] /\ op'[u] = op[u]
                                     /\ succ'[u] = succ[u]
    BY <1>8, DeleteList DEF Delete, Return, endVars
  <2>2. ~ Fresh(t)' /\ \A u \in Thread : u # t => (Fresh(u)' <=> Fresh(u))
    BY <1>8, <2>1 DEF Fresh, Delete, Return
  <2>3. node[t] \notin Chain /\ \A m \in Chain : value'[m] = value[m]
    BY <1>0, <1>8, <2>1 DEF Delete, Owns
  <2>4. \A u \in Thread : /\ pc[u] \in {"predecessor", "cut"} => node[u] \in Chain
                          /\ pc[u] = "forward" => succ[u] \in Chain
    BY ChainFacts DEF HoldsTail, ListInv, HalfDone, Closed
  <2>5. JobsInTransit'
    BY <1>0, <2>1, <2>2, <2>3, <2>4 DEF JobsInv, JobsInTransit
  <2> QED BY <2>1, <2>3, <2>5, JobsStay
<1> QED BY <1>1, <1>2, <1>3, <1>4, <1>5, <1>6, <1>7, <1>8 DEF Step

(* No job is lost or handed out twice, for any number of workers.           *)
THEOREM NoJobLost == Spec => []JobsConserved
<1>1. Init => JobsInv
  <2> SUFFICES ASSUME Init PROVE JobsInv
    OBVIOUS
  <2>1. head_ \in Node /\ \A n \in Node : value[n] = Null
    BY DEF Init
  <2>2. Chain \subseteq Node
    BY DEF Chain, Reachable
  <2>3. \A t \in Thread : ~ Fresh(t) /\ pc[t] = "idle" /\ held[t] \subseteq Job
    BY DEF Init, Fresh
  <2>4. JobsInTransit
    BY <2>1, <2>3 DEF JobsInTransit
  <2>5. \A t, u \in Thread : t # u => held[t] \cap held[u] = {}
    BY DEF Init
  <2>6. \A j \in Job : \E t \in Thread : j \in held[t]
    BY DEF Init
  <2> QED BY <2>1, <2>2, <2>3, <2>4, <2>5, <2>6, DequeAssumption DEF JobsInv, JobsConserved
<1>2. IInv /\ JobsInv /\ [Next]_vars => JobsInv'
  <2>1. IInv /\ JobsInv /\ Next => JobsInv'
    BY JobsStep DEF Next
  <2>2. JobsInv /\ UNCHANGED vars => JobsInv'
    BY DEF vars, nodeVars, endVars, lockVars, localVars, JobsInv, JobsConserved, JobsInTransit,
       Fresh, Chain, Reachable, Closed
  <2> QED BY <2>1, <2>2
<1>3. JobsInv => JobsConserved
  BY DEF JobsInv
<1> QED BY <1>1, <1>2, <1>3, Invariance, PTL DEF Spec
=============================================================================
