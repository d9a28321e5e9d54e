-------------------------- MODULE DoubleEndedQueue --------------------------
(***************************************************************************)
(* detail/double_ended_queue.hpp, the job queue of a worker under the work *)
(* stealing policy: a linked list with a dummy in front and two spin       *)
(* locks, one per end.  Appending takes only the tail lock and taking the  *)
(* head only the head lock, so the two run at the same time and meet on    *)
(* the dummy when the queue is empty; the other operations take both locks *)
(* in the same order.  Nodes are deleted after the locks are released, and *)
(* their memory may be handed out again at once.                           *)
(*                                                                         *)
(* Between acquiring and releasing its locks a thread performs one access  *)
(* to shared memory per step.  The locks are released together with the    *)
(* last write: in between nobody else could take them.                     *)
(***************************************************************************)
EXTENDS Naturals, Sequences, FiniteSets

CONSTANTS Owner,   \* the worker the queue belongs to
          Other,   \* all other threads
          Job,     \* resumables
          Node,    \* memory for nodes
          Null     \* nullptr

ASSUME DequeAssumption ==
  /\ Owner \notin Other
  /\ Null \notin Node /\ Null \notin Job
  /\ IsFiniteSet(Node)

Thread == {Owner} \cup Other

VARIABLES
  next, value,        \* the fields of the nodes
  live,               \* nodes that are allocated
  head_, tail_,
  headLock, tailLock, \* held by somebody?
  op,                 \* the operation each thread performs
  pc,                 \* where it is
  node,               \* its local variable tmp, first or last
  succ,               \* its local variable next
  result,             \* its local variable result, or the argument value
  held                \* the jobs in each thread's hands

nodeVars  == <<next, value, live>>
endVars   == <<head_, tail_>>
lockVars  == <<headLock, tailLock>>
localVars == <<op, node, succ, result>>
vars == <<nodeVars, endVars, lockVars, localVars, pc, held>>

Ops == {"append", "prepend", "take_head", "take_tail"}

Labels == {"idle", "lock_head", "lock_tail",
           "link", "swing", "first", "insert", "next", "value", "forward",
           "last", "predecessor", "cut", "delete"}

(* work_stealing: who calls what.  The owner prepends the actors it wakes   *)
(* (internal_enqueue), appends those that yield (resume_job_later) and      *)
(* takes from the head; anybody may append (external_enqueue) and thieves   *)
(* take from the tail (try_steal).                                          *)
MayCall(t, o) ==
  \/ o = "append"
  \/ t = Owner /\ o \in {"prepend", "take_head"}
  \/ t # Owner /\ o = "take_tail"

NeedsHeadNotStealing(o) == o \in {"prepend", "take_head"}
NeedsHead(o) == o \in {"prepend", "take_head", "take_tail"}
NeedsTail(o) == o \in {"append", "prepend", "take_tail"}

(* The first access after all locks are taken.                              *)
Body(o) ==
  CASE o = "append" -> "link" [] o = "prepend" -> "first"
    [] o = "take_head" -> "next" [] o = "take_tail" -> "last"

Goto(t, label) == pc' = [pc EXCEPT ![t] = label]

(* The operation returns and its local variables are gone.                  *)
Return(t) ==
  /\ Goto(t, "idle")
  /\ op' = [op EXCEPT ![t] = "none"]
  /\ node' = [node EXCEPT ![t] = Null]
  /\ succ' = [succ EXCEPT ![t] = Null]
  /\ result' = [result EXCEPT ![t] = Null]

Release(t) ==
  /\ headLock' = IF NeedsHead(op[t]) THEN FALSE ELSE headLock
  /\ tailLock' = IF NeedsTail(op[t]) THEN FALSE ELSE tailLock

-----------------------------------------------------------------------------
(* new node(value), before any lock is taken.                               *)
Push(t, o, j) ==
  /\ pc[t] = "idle"
  /\ MayCall(t, o) /\ o \in {"append", "prepend"}
  /\ j \in held[t]
  /\ \E n \in Node \ live :
       /\ live' = live \cup {n}
       /\ next' = [next EXCEPT ![n] = Null]
       /\ value' = [value EXCEPT ![n] = j]
       /\ node' = [node EXCEPT ![t] = n]
  /\ op' = [op EXCEPT ![t] = o]
  /\ result' = [result EXCEPT ![t] = j]
  /\ Goto(t, IF NeedsHead(o) THEN "lock_head" ELSE "lock_tail")
  /\ UNCHANGED <<endVars, lockVars, succ, held>>

Take(t, o) ==
  /\ pc[t] = "idle"
  /\ MayCall(t, o) /\ o \in {"take_head", "take_tail"}
  /\ op' = [op EXCEPT ![t] = o]
  /\ Goto(t, IF NeedsHead(o) THEN "lock_head" ELSE "lock_tail")
  /\ UNCHANGED <<nodeVars, endVars, lockVars, node, succ, result, held>>

LockHead(t) ==
  /\ pc[t] = "lock_head"
  /\ ~ headLock
  /\ headLock' = TRUE
  /\ Goto(t, IF NeedsTail(op[t]) THEN "lock_tail" ELSE Body(op[t]))
  /\ UNCHANGED <<nodeVars, endVars, tailLock, localVars, held>>

LockTail(t) ==
  /\ pc[t] = "lock_tail"
  /\ ~ tailLock
  /\ tailLock' = TRUE
  /\ Goto(t, Body(op[t]))
  /\ UNCHANGED <<nodeVars, endVars, headLock, localVars, held>>

(* append: tail_.load()->next = tmp                                         *)
AppendLink(t) ==
  /\ pc[t] = "link"
  /\ next' = [next EXCEPT ![tail_] = node[t]]
  /\ held' = [held EXCEPT ![t] = @ \ {result[t]}]
  /\ Goto(t, "swing")
  /\ UNCHANGED <<value, live, endVars, lockVars, localVars>>

(* tail_ = tmp                                                              *)
NewTailOld(t) == tail_
NewTail(t) == node[t]

AppendSwing(t) ==
  /\ pc[t] = "swing"
  /\ tail_' = NewTail(t)
  /\ Release(t)
  /\ Return(t)
  /\ UNCHANGED <<nodeVars, head_, held>>

(* prepend: the new node goes behind the dummy; if the queue is empty it    *)
(* becomes the tail, otherwise it points to the old first node.             *)
PrependFirst(t) ==
  /\ pc[t] = "first"
  /\ IF next[head_] = Null
     THEN tail_' = node[t] /\ UNCHANGED next
     ELSE next' = [next EXCEPT ![node[t]] = next[head_]] /\ UNCHANGED tail_
  /\ Goto(t, "insert")
  /\ UNCHANGED <<value, live, head_, lockVars, localVars, held>>

PrependInsert(t) ==
  /\ pc[t] = "insert"
  /\ next' = [next EXCEPT ![head_] = node[t]]
  /\ held' = [held EXCEPT ![t] = @ \ {result[t]}]
  /\ Release(t)
  /\ Return(t)
  /\ UNCHANGED <<value, live, endVars>>

(* take_head: first = head_, next = first->next; null means empty.          *)
TakeHeadNext(t) ==
  /\ pc[t] = "next"
  /\ IF next[head_] = Null
     THEN Release(t) /\ Return(t)
     ELSE /\ node' = [node EXCEPT ![t] = head_]
          /\ succ' = [succ EXCEPT ![t] = next[head_]]
          /\ Goto(t, "value")
          /\ UNCHANGED <<lockVars, op, result>>
  /\ UNCHANGED <<nodeVars, endVars, held>>

(* result = next->value; next->value = nullptr                              *)
TakeHeadValue(t) ==
  /\ pc[t] = "value"
  /\ result' = [result EXCEPT ![t] = value[succ[t]]]
  /\ held' = [held EXCEPT ![t] = @ \cup {value[succ[t]]}]
  /\ value' = [value EXCEPT ![succ[t]] = Null]
  /\ Goto(t, "forward")
  /\ UNCHANGED <<next, live, endVars, lockVars, op, node, succ>>

(* head_ = next                                                             *)
TakeHeadForward(t) ==
  /\ pc[t] = "forward"
  /\ head_' = succ[t]
  /\ Release(t)
  /\ Goto(t, "delete")
  /\ UNCHANGED <<nodeVars, tail_, localVars, held>>

(* take_tail: last = tail_; if that is the dummy the queue is empty.        *)
TakeTailLast(t) ==
  /\ pc[t] = "last"
  /\ IF tail_ = head_
     THEN Release(t) /\ Return(t)
     ELSE /\ node' = [node EXCEPT ![t] = tail_]
          /\ result' = [result EXCEPT ![t] = value[tail_]]
          /\ Goto(t, "predecessor")
          /\ UNCHANGED <<lockVars, op, succ>>
  /\ UNCHANGED <<nodeVars, endVars, held>>

(* The nodes a loop over the next pointers visits that starts at h: the     *)
(* smallest set with h that is closed under next.                           *)
Closed(S, nx) == \A n \in S : nx[n] # Null => nx[n] \in S

Reachable(h, nx) ==
  {n \in Node : \A S \in SUBSET Node : h \in S /\ Closed(S, nx) => n \in S}

Chain == Reachable(head_, next)

find_predecessor(n) ==
  IF \E i \in Chain : next[i] = n THEN CHOOSE i \in Chain : next[i] = n ELSE Null

TakeTailPredecessor(t) ==
  /\ pc[t] = "predecessor"
  /\ tail_' = find_predecessor(node[t])
  /\ Goto(t, "cut")
  /\ UNCHANGED <<nodeVars, head_, lockVars, localVars, held>>

(* tail_.load()->next = nullptr                                             *)
TakeTailCut(t) ==
  /\ pc[t] = "cut"
  /\ next' = [next EXCEPT ![tail_] = Null]
  /\ held' = [held EXCEPT ![t] = @ \cup {result[t]}]
  /\ Release(t)
  /\ Goto(t, "delete")
  /\ UNCHANGED <<value, live, endVars, localVars>>

(* The unique_ptr first or last goes out of scope.                          *)
Delete(t) ==
  /\ pc[t] = "delete"
  /\ live' = live \ {node[t]}
  /\ next' = [next EXCEPT ![node[t]] = Null]
  /\ value' = [value EXCEPT ![node[t]] = Null]
  /\ Return(t)
  /\ UNCHANGED <<endVars, lockVars, held>>

-----------------------------------------------------------------------------
(* double_ended_queue(): one dummy.  Every job is in somebody's hands.      *)
Init ==
  /\ next = [n \in Node |-> Null]
  /\ value = [n \in Node |-> Null]
  /\ \E n \in Node : live = {n} /\ head_ = n /\ tail_ = n
  /\ headLock = FALSE /\ tailLock = FALSE
  /\ op = [t \in Thread |-> "none"]
  /\ pc = [t \in Thread |-> "idle"]
  /\ node = [t \in Thread |-> Null]
  /\ succ = [t \in Thread |-> Null]
  /\ result = [t \in Thread |-> Null]
  /\ \E t \in Thread : held = [u \in Thread |-> IF u = t THEN Job ELSE {}]

Step(t) ==
  \/ \E o \in Ops, j \in Job : Push(t, o, j)
  \/ \E o \in Ops : Take(t, o)
  \/ LockHead(t) \/ LockTail(t)
  \/ AppendLink(t) \/ AppendSwing(t)
  \/ PrependFirst(t) \/ PrependInsert(t)
  \/ TakeHeadNext(t) \/ TakeHeadValue(t) \/ TakeHeadForward(t)
  \/ TakeTailLast(t) \/ TakeTailPredecessor(t) \/ TakeTailCut(t)
  \/ Delete(t)

Next == \E t \in Thread : Step(t)

Spec == Init /\ [][Next]_vars
-----------------------------------------------------------------------------
(* Properties.                                                              *)

(* Type correctness; in particular tail_ is never null, as take_tail asserts. *)
TypeOK ==
  /\ next \in [Node -> Node \cup {Null}]
  /\ value \in [Node -> Job \cup {Null}]
  /\ live \subseteq Node
  /\ head_ \in Node /\ tail_ \in Node
  /\ headLock \in BOOLEAN /\ tailLock \in BOOLEAN
  /\ op \in [Thread -> Ops \cup {"none"}] /\ pc \in [Thread -> Labels]
  /\ node \in [Thread -> Node \cup {Null}]
  /\ succ \in [Thread -> Node \cup {Null}]
  /\ result \in [Thread -> Job \cup {Null}]
  /\ held \in [Thread -> SUBSET Job]

(* The nodes a thread dereferences in its next step.                        *)
Derefs(t) ==
  CASE pc[t] = "link" -> {tail_}
    [] pc[t] \in {"first", "insert"} -> {head_, node[t]}
    [] pc[t] = "next" -> {head_}
    [] pc[t] = "value" -> {succ[t]}
    [] pc[t] = "last" -> {tail_}
    [] pc[t] = "predecessor" -> Chain
    [] pc[t] = "cut" -> {tail_}
    [] pc[t] = "delete" -> {node[t]}
    [] OTHER -> {}

(* No thread touches a node that was deleted, and none is deleted twice:    *)
(* although take_head frees the old dummy without the tail lock, an append  *)
(* that is under way never follows a stale tail_.                           *)
NoUseAfterFree == \A t \in Thread : Derefs(t) \subseteq live

(* Nodes are not leaked: each is reachable or belongs to the thread that    *)
(* just created it or is about to delete it.                                *)
NoLeak ==
  live = Chain \cup
    {node[t] : t \in {u \in Thread :
       \/ pc[u] = "delete"
       \/ pc[u] # "idle" /\ op[u] \in {"append", "prepend"}}}

(* The assertions of prepend and take_tail: the queue looks empty from one  *)
(* end exactly if it does from the other, and the last node has a           *)
(* predecessor.  To append and take_tail, tail_ is the last node.           *)
Asserts ==
  \A t \in Thread :
    /\ pc[t] = "first" => (next[head_] = Null <=> head_ = tail_)
    /\ pc[t] = "predecessor" => find_predecessor(node[t]) # Null
    /\ pc[t] \in {"link", "last"} => next[tail_] = Null

(* The nodes stay sound while both ends are used at once under different    *)
(* locks: none is used after it was freed, none leaks, no assertion fails.  *)
NodesSound == NoUseAfterFree /\ NoLeak /\ Asserts

(* The k-th node from the dummy on.                                         *)
Walk[k \in 0 .. Cardinality(Node)] ==
  IF k = 0 THEN head_ ELSE IF Walk[k - 1] = Null THEN Null ELSE next[Walk[k - 1]]

(* The jobs in the queue, in order; a job that was taken out of its node    *)
(* is no longer there.                                                      *)
Contents ==
  LET values == [k \in 1 .. Cardinality(Node) |->
                   IF Walk[k] = Null THEN Null ELSE value[Walk[k]]]
  IN  SelectSeq(values, LAMBDA v : v # Null)

(* Refinement: the operations take effect one at a time.                    *)
Deque == INSTANCE JobDeque WITH q <- Contents

(* take_head and take_tail return null only if the queue is empty at that   *)
(* moment.                                                                  *)
NullMeansEmpty ==
  [][\A t \in Thread :
       pc[t] \in {"next", "last"} /\ pc'[t] = "idle" => Contents = <<>>]_vars

(* The operations of one worker and its thieves take effect one at a time,  *)
(* on a double-ended queue, and report an empty queue only when it is.      *)
ImplementsJobDeque == Deque!Spec /\ NullMeansEmpty
=============================================================================
