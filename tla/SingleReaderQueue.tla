------------------------- MODULE SingleReaderQueue -------------------------
(***************************************************************************)
(* The mailbox of an actor: detail/single_reader_queue.hpp, an intrusive   *)
(* lock-free stack that any number of writers push to and that one reader  *)
(* empties, plus the reader's own two lists.                               *)
(*                                                                         *)
(* The atomic pointer stack_ is either one of three special values or the  *)
(* address of the element pushed last.  It is represented by two           *)
(* variables: `stack' is the chain of elements reachable from stack_, the  *)
(* newest first, and `mark' is the special value stack_ holds when that    *)
(* chain is empty.  The atomic operations on stack_ are the operators      *)
(* below; the modules that extend this one say which thread performs them  *)
(* and in which order.                                                     *)
(***************************************************************************)
EXTENDS Naturals, Sequences, SequencesExt

CONSTANTS Sender,       \* threads that send to the actor
          MaxSends,     \* bound on the messages one thread sends
          EmptyDummy,   \* stack_empty_dummy(): nothing new, reader is awake
          BlockedDummy, \* reader_blocked_dummy(): nothing new, reader waits
          NullPtr       \* nullptr: the reader has closed the queue

(* A mailbox_element: who sent it, the how-manieth of that sender it is, and *)
(* whether its message_id makes it a request (somebody waits for a reply).   *)
Message == [src : Sender, num : 1 .. MaxSends, req : BOOLEAN]

Mark == {EmptyDummy, BlockedDummy, NullPtr}

ASSUME QueueAssumption ==
  /\ MaxSends \in Nat
  /\ EmptyDummy # BlockedDummy /\ EmptyDummy # NullPtr /\ BlockedDummy # NullPtr
  /\ Mark \cap Message = {}

VARIABLES stack,  \* the chain hanging off stack_, newest element first
          mark,   \* the value of stack_ when that chain is empty
          head,   \* head_: fetched elements in the order they arrived
          cache   \* second partition of cache_: elements the actor skipped

queueVars == <<stack, mark, head, cache>>

(* stack_.load() *)
Top == IF stack = <<>> THEN mark ELSE stack[1]

is_dummy(ptr) == ptr \in {EmptyDummy, BlockedDummy}

closed == Top = NullPtr

blocked == Top = BlockedDummy

can_fetch_more == head # <<>> \/ ~ is_dummy(Top)

(* The effect of enqueue's compare-and-swap once it succeeds: the new       *)
(* element's next pointer is the old top, or null if that was a dummy.      *)
Push(m) ==
  /\ stack' = <<m>> \o stack
  /\ mark' = EmptyDummy
  /\ UNCHANGED <<head, cache>>

(* The effect of fetch_new_data's compare-and-swap of stack_ to end_ptr:    *)
(* the chain is detached and reversed into arrival order.                   *)
Detach(endPtr) ==
  /\ stack' = <<>>
  /\ mark' = endPtr

FetchedUnreversed == stack
Fetched == Reverse(stack)

(* try_block's compare-and-swap when stack_ still is the empty dummy.       *)
Block ==
  /\ Top = EmptyDummy
  /\ mark' = BlockedDummy
  /\ UNCHANGED <<stack, head, cache>>

(* try_unblock's compare-and-swap when stack_ still is the blocked dummy.   *)
Unblock ==
  /\ Top = BlockedDummy
  /\ mark' = EmptyDummy
  /\ UNCHANGED <<stack, head, cache>>

QueueInit ==
  /\ stack = <<>>
  /\ mark = EmptyDummy
  /\ head = <<>>
  /\ cache = <<>>

QueueTypeOK ==
  /\ stack \in Seq(Message)
  /\ mark \in Mark
  /\ head \in Seq(Message)
  /\ cache \in Seq(Message)

(* A dummy is never part of a non-empty list, and a queue holds a mark      *)
(* other than the empty one only while its chain is empty.                  *)
MarkInv == stack # <<>> => mark = EmptyDummy
=============================================================================
