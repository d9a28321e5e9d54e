------------------------ MODULE DetachedActorProofs -------------------------
(***************************************************************************)
(* Proofs about DetachedActor for any number of senders and messages: the  *)
(* thread's sleep cannot miss a message and its assertions cannot fail.    *)
(***************************************************************************)
EXTENDS DetachedActor, ActorMailboxProofs

-----------------------------------------------------------------------------
(* Type correctness.                                                        *)

(* What the thread does to the mailbox: an operation of the reader, an      *)
(* element the timer takes out, or the end of a wait that timed out.        *)
LEMMA ThreadMailbox ==
  ASSUME ThreadStep \/ AwaitSpurious
  PROVE  UNCHANGED mailboxVars \/ ReaderOp \/ TimerInvoke \/ AwaitTimedOut
<1>1. CASE Launch \/ Initialize \/ Act \/ LoadStack \/ FetchCas \/ FetchRetry
  BY <1>1 DEF Launch, Initialize, Act, LoadStack, FetchCas, FetchRetry, ReaderOp, AttachedOp
<1>2. CASE EventInvoke \/ EventCache \/ EventBlock
  BY <1>2 DEF EventInvoke, EventCache, EventBlock, ReaderOp, AttachedOp
<1>3. CASE ActReturns \/ ActThrows \/ DequeueFromCache \/ Dequeue \/ TimerDeliver \/ BlockingInvoke
  BY <1>3 DEF ActReturns, ActThrows, Unhandled, PlanExit, DequeueFromCache, Dequeue, TimerDeliver,
     BlockingInvoke, ReaderOp, AttachedOp
<1>4. CASE AwaitHasNext \/ AwaitCanFetch \/ AwaitBlock \/ AwaitLock \/ AwaitCheck \/ AwaitSleep
           \/ AwaitNotified \/ AwaitTimeout \/ AwaitSpurious
  BY <1>4 DEF AwaitHasNext, AwaitCanFetch, AwaitBlock, AwaitLock, AwaitCheck, AwaitSleep,
     AwaitNotified, AwaitTimeout, AwaitSpurious, ReaderOp, AttachedOp
<1>5. CASE CloseClear \/ CloseCas \/ SetExitReason
  BY <1>5 DEF CloseClear, CloseCas, SetExitReason, ReaderOp, AttachedOp
<1> QED BY <1>1, <1>2, <1>3, <1>4, <1>5 DEF ThreadStep

(* The mailbox keeps its type.                                              *)
LEMMA ThreadMailboxType ==
  ASSUME TypeOK, ThreadStep \/ AwaitSpurious
  PROVE  MailboxTypeOK'
<1> USE DEF queueVars, senderVars, replyVars, history
<1>1. CASE UNCHANGED mailboxVars
  BY <1>1 DEF mailboxVars, TypeOK, MailboxTypeOK, QueueTypeOK
<1>2. CASE ReaderOp
  BY <1>2, ReaderType DEF TypeOK
<1>3. CASE TimerInvoke
  <2>1. head \in Seq(Message) /\ head # <<>> /\ taken \in Seq(Message)
    BY <1>3 DEF TimerInvoke, TakeHead, TypeOK, MailboxTypeOK, QueueTypeOK
  <2>2. head' \in Seq(Message) /\ taken' \in Seq(Message) /\ Requests(<<head[1]>>) \subseteq Message
    <3>1. head[1] \in Message
      BY <2>1
    <3> QED BY <1>3, <2>1, <3>1 DEF TimerInvoke, TakeHead, Requests, ToSet
  <2>3. lost' \subseteq Message /\ planned' \in Reason \cup {NotExited}
    BY <1>3, <2>2, ReasonAssumption DEF TimerInvoke, TypeOK, MailboxTypeOK, ReasonAssumption
  <2> QED BY <1>3, <2>2, <2>3 DEF TimerInvoke, TakeHead, TypeOK, MailboxTypeOK, QueueTypeOK
<1>4. CASE AwaitTimedOut
  BY <1>4 DEF AwaitTimedOut, Unblock, TypeOK, MailboxTypeOK, QueueTypeOK, Mark
<1> QED BY <1>1, <1>2, <1>3, <1>4, ThreadMailbox

(* The thread's own variables keep theirs.                                  *)
LEMMA ThreadTypeStep ==
  ASSUME TypeOK, ThreadStep \/ AwaitSpurious
  PROVE  TypeOK'
<1> USE DEF Goto, OnlyRpc, ThreadPc, AwaitReturns
<1>1. Top \in Pointer
  BY TopType DEF TypeOK, MailboxTypeOK
<1>2. MailboxTypeOK'
  BY ThreadMailboxType
<1>3. kind' \in Kinds /\ signalled' \in BOOLEAN /\ crashed' \in BOOLEAN
  BY DEF ThreadStep, Launch, Initialize, Act, LoadStack, FetchCas, FetchRetry, EventInvoke,
     EventCache, EventBlock, ActReturns, ActThrows, Unhandled, DequeueFromCache, Dequeue,
     TimerDeliver, BlockingInvoke, TimerInvoke, AwaitHasNext, AwaitCanFetch, AwaitBlock, AwaitLock,
     AwaitCheck, AwaitSleep, AwaitNotified, AwaitTimeout, AwaitTimedOut, AwaitSpurious, CloseClear,
     CloseCas, SetExitReason, TypeOK
<1>4. re' \in Pointer /\ mtx' \in Sender \cup {Self, Free}
  BY <1>1 DEF ThreadStep, Launch, Initialize, Act, LoadStack, FetchCas, FetchRetry, EventInvoke,
     EventCache, EventBlock, ActReturns, ActThrows, Unhandled, DequeueFromCache, Dequeue,
     TimerDeliver, BlockingInvoke, TimerInvoke, AwaitHasNext, AwaitCanFetch, AwaitBlock, AwaitLock,
     AwaitCheck, AwaitSleep, AwaitNotified, AwaitTimeout, AwaitTimedOut, AwaitSpurious, CloseClear,
     CloseCas, SetExitReason, TypeOK
<1>5. delayed' \in Nat
  BY DEF ThreadStep, Launch, Initialize, Act, LoadStack, FetchCas, FetchRetry, EventInvoke,
     EventCache, EventBlock, ActReturns, ActThrows, Unhandled, DequeueFromCache, Dequeue,
     TimerDeliver, BlockingInvoke, TimerInvoke, AwaitHasNext, AwaitCanFetch, AwaitBlock, AwaitLock,
     AwaitCheck, AwaitSleep, AwaitNotified, AwaitTimeout, AwaitTimedOut, AwaitSpurious, CloseClear,
     CloseCas, SetExitReason, TypeOK
<1>6. rpc' \in ThreadPc
  <2>1. CASE Launch \/ Initialize \/ Act \/ LoadStack \/ FetchCas \/ FetchRetry
    BY <2>1 DEF Launch, Initialize, Act, LoadStack, FetchCas, FetchRetry, TypeOK
  <2>2. CASE EventInvoke \/ EventCache \/ EventBlock
    BY <2>2 DEF EventInvoke, EventCache, EventBlock, AfterSuccess, AfterThrow, AfterBlock
  <2>3. CASE ActReturns \/ ActThrows \/ DequeueFromCache \/ Dequeue \/ TimerDeliver
             \/ BlockingInvoke \/ TimerInvoke
    BY <2>3 DEF ActReturns, ActThrows, Unhandled, DequeueFromCache, Dequeue, TimerDeliver,
       BlockingInvoke, TimerInvoke, TypeOK
  <2>4. CASE AwaitHasNext \/ AwaitCanFetch \/ AwaitBlock \/ AwaitLock \/ AwaitCheck \/ AwaitSleep
             \/ AwaitNotified \/ AwaitTimeout \/ AwaitTimedOut \/ AwaitSpurious
    BY <2>4 DEF AwaitHasNext, AwaitCanFetch, AwaitBlock, AwaitLock, AwaitCheck, AwaitSleep,
       AwaitNotified, AwaitTimeout, AwaitTimedOut, AwaitSpurious
  <2>5. CASE CloseClear \/ CloseCas \/ SetExitReason
    BY <2>5 DEF CloseClear, CloseCas, SetExitReason
  <2> QED BY <2>1, <2>2, <2>3, <2>4, <2>5 DEF ThreadStep
<1> QED BY <1>2, <1>3, <1>4, <1>5, <1>6 DEF TypeOK

(* So does a sender's step.                                                 *)
LEMMA SenderTypeStep ==
  ASSUME TypeOK, NEW p \in Sender, SenderStep(p)
  PROVE  TypeOK'
<1> USE DEF queueVars, senderVars, mailboxVars, replyVars, history
<1>1. CASE Enqueue(p) /\ UNCHANGED threadVars
  <2>1. MailboxTypeOK'
    BY <1>1, EnqueueType DEF TypeOK
  <2>2. signalled' \in BOOLEAN /\ crashed' \in BOOLEAN
    BY <1>1 DEF threadVars, TypeOK
  <2> QED BY <1>1, <2>1, <2>2 DEF threadVars, TypeOK
<1>2. CASE NotifyLock(p)
  <2>1. signalled' \in BOOLEAN /\ crashed' \in BOOLEAN
    BY <1>2 DEF NotifyLock, TypeOK
  <2> QED BY <1>2, <2>1 DEF NotifyLock, TypeOK, MailboxTypeOK, QueueTypeOK
<1>3. CASE NotifyOne(p)
  <2>1. MailboxTypeOK'
    BY <1>3, EnqueueType DEF NotifyOne, TypeOK
  <2>2. signalled' \in BOOLEAN /\ crashed' \in BOOLEAN
    BY <1>3 DEF NotifyOne, TypeOK
  <2>3. mtx' \in Sender \cup {Self, Free}
    BY <1>3 DEF NotifyOne, TypeOK
  <2> QED BY <1>3, <2>1, <2>2, <2>3 DEF NotifyOne, TypeOK
<1> QED BY <1>1, <1>2, <1>3 DEF SenderStep

(* Every variable stays in its type.                                        *)
THEOREM TypeCorrect == Spec => []TypeOK
<1>1. Init => TypeOK
  <2> SUFFICES ASSUME Init PROVE TypeOK
    OBVIOUS
  <2>1. QueueTypeOK /\ arrivals \in Seq(Message) /\ taken \in Seq(Message)
    BY DEF Init, MailboxInit, QueueInit, QueueTypeOK, Mark
  <2>2. /\ pc \in [Sender -> SenderPc] /\ \A p \in Sender : pc[p] = "idle"
        /\ msg \in [Sender -> Message \cup {NullPtr}] /\ e \in [Sender -> Pointer]
    BY DEF Init, MailboxInit, SenderPc, Pointer, Mark
  <2>3. sent \in [Sender -> 0 .. MaxSends] /\ replies \in [Message -> Nat]
    BY QueueAssumption DEF Init, MailboxInit, QueueAssumption
  <2>4. /\ planned \in Reason \cup {NotExited} /\ exit_reason \in Reason \cup {NotExited}
        /\ bounces = {} /\ lost = {}
    BY DEF Init, MailboxInit
  <2>5. /\ kind \in Kinds /\ rpc \in ThreadPc /\ re \in Pointer /\ delayed \in Nat
        /\ mtx \in Sender \cup {Self, Free}
    BY DEF Init, ThreadPc, Pointer, Mark
  <2>6. signalled \in BOOLEAN /\ crashed \in BOOLEAN
    BY DEF Init
  <2> QED BY <2>1, <2>2, <2>3, <2>4, <2>5, <2>6 DEF TypeOK, MailboxTypeOK
<1>2. TypeOK /\ [Next]_vars => TypeOK'
  <2> SUFFICES ASSUME TypeOK, [Next]_vars PROVE TypeOK'
    OBVIOUS
  <2>1. CASE \E p \in Sender : SenderStep(p)
    BY <2>1, SenderTypeStep
  <2>2. CASE ThreadStep \/ AwaitSpurious
    BY <2>2, ThreadTypeStep
  <2>3. CASE UNCHANGED vars
    <3>1. signalled' \in BOOLEAN /\ crashed' \in BOOLEAN
      BY <2>3 DEF vars, threadVars, TypeOK
    <3> QED BY <2>3, <3>1 DEF vars, mailboxVars, queueVars, senderVars, replyVars, history,
            threadVars, TypeOK, MailboxTypeOK, QueueTypeOK
  <2> QED BY <2>1, <2>2, <2>3 DEF Next, Quiescent
<1> QED BY <1>1, <1>2, PTL DEF Spec

-----------------------------------------------------------------------------
(* The inductive strengthening of NoLostWakeup, AwaitDelivers and           *)
(* ReaderAsserts: the value of stack_, the contents of the lists and the *)
(* owner of the mutex determine where the thread can be.                    *)
Slumber == {"lock", "check", "cv_wait", "asleep", "relock", "timeout", "timed_out"}

MarkAndPc ==
  /\ MarkInv
  /\ mark = BlockedDummy => rpc \in {"has_next", "can_fetch", "await_block"} \cup Slumber
  /\ mark = NullPtr <=> rpc \in {"exit", "done"}

ListsAndPc ==
  /\ mark = BlockedDummy \/ rpc \in {"fetch", "block", "close", "can_fetch", "await_block"} \cup Slumber
       => head = <<>>
  /\ rpc \in Slumber => mark = BlockedDummy \/ stack # <<>>
  /\ rpc = "pop" => head # <<>> \/ stack # <<>>
  /\ rpc = "fetch" => stack # <<>>
  /\ rpc \in {"fetch", "close"} => re \notin {BlockedDummy, NullPtr}
  /\ rpc # "null"

MutexAndPc ==
  /\ mtx = Self <=> rpc \in {"check", "cv_wait", "timed_out"}
  /\ \A p \in Sender : mtx = p => pc[p] = "wake"

WakeupComes ==
  /\ rpc = "cv_wait" => mark = BlockedDummy \/ \E p \in Sender : pc[p] = "wake"
  /\ rpc = "asleep" => signalled \/ mark = BlockedDummy \/ \E p \in Sender : pc[p] = "wake"

ThreadInv == MarkAndPc /\ ListsAndPc /\ MutexAndPc /\ WakeupComes

(* A sender's step.  A push onto the blocked dummy obliges the sender to    *)
(* notify, and it can do so only when the thread does not hold the mutex.   *)
LEMMA SenderInvStep ==
  ASSUME TypeOK, ThreadInv, NEW p \in Sender, SenderStep(p)
  PROVE  ThreadInv'
<1> USE DEF queueVars, senderVars, mailboxVars, threadVars, replyVars, history, Slumber
<1>0. QueueTypeOK /\ MarkInv /\ pc \in [Sender -> SenderPc]
  BY DEF TypeOK, MailboxTypeOK, ThreadInv, MarkAndPc
<1>1. CASE EnqueueCas(p) /\ UNCHANGED <<planned, threadVars>>
  <2>1. /\ stack' = <<msg[p]>> \o stack /\ mark' = EmptyDummy /\ UNCHANGED <<head, threadVars>>
        /\ pc' = [pc EXCEPT ![p] = IF unblocked_reader(p) THEN "wake" ELSE "idle"]
    BY <1>1 DEF EnqueueCas, Push
  <2>2. pc[p] = "cas" /\ stack' # <<>>
    <3>1. msg[p] \in Message
      BY <1>1 DEF EnqueueCas, TypeOK, MailboxTypeOK
    <3> QED BY <1>1, <2>1, <3>1, <1>0 DEF EnqueueCas, QueueTypeOK
  <2>3. mark = BlockedDummy => pc'[p] = "wake"
    <3> SUFFICES ASSUME mark = BlockedDummy PROVE pc'[p] = "wake"
      OBVIOUS
    <3>1. Top = BlockedDummy /\ Top \notin Message
      BY <1>0, TopFacts, QueueAssumption DEF blocked, QueueAssumption, Mark
    <3>2. unblocked_reader(p)
      BY <1>1, <3>1 DEF EnqueueCas, Recycled, unblocked_reader
    <3> QED BY <1>0, <2>1, <3>2
  <2>4. \A q \in Sender : pc[q] = "wake" => pc'[q] = "wake"
    BY <1>0, <2>1, <2>2
  <2>5. mark # NullPtr
    <3>1. Top # NullPtr
      BY <1>1, QueueAssumption DEF EnqueueCas, queue_closed, Recycled, QueueAssumption, Mark
    <3> QED BY <1>0, <3>1, TopFacts DEF closed
  <2>6. MarkAndPc'
    BY <2>1, <2>5, QueueAssumption DEF ThreadInv, MarkAndPc, MarkInv, QueueAssumption
  <2>7. ListsAndPc'
    BY <2>1, <2>2, QueueAssumption DEF ThreadInv, ListsAndPc, QueueAssumption
  <2>8. MutexAndPc'
    BY <2>1, <2>4 DEF ThreadInv, MutexAndPc
  <2>9. WakeupComes'
    BY <2>1, <2>3, <2>4 DEF ThreadInv, WakeupComes
  <2> QED BY <2>6, <2>7, <2>8, <2>9 DEF ThreadInv
<1>2. CASE /\ EnqueueLoad(p) \/ EnqueueRetry(p) \/ EnqueueClosed(p) \/ BounceClosed(p)
           /\ UNCHANGED <<planned, threadVars>>
  <2>1. UNCHANGED <<queueVars, threadVars>> /\ \A q \in Sender : pc'[q] = "wake" <=> pc[q] = "wake"
    BY <1>0, <1>2 DEF EnqueueLoad, EnqueueRetry, EnqueueClosed, BounceClosed
  <2> QED BY <2>1 DEF ThreadInv, MarkAndPc, MarkInv, ListsAndPc, MutexAndPc, WakeupComes
<1>3. CASE NotifyLock(p)
  BY <1>3, DetachedAssumption DEF NotifyLock, ThreadInv, MarkAndPc, MarkInv, ListsAndPc, MutexAndPc,
     WakeupComes, DetachedAssumption
<1>4. CASE NotifyOne(p)
  <2>1. /\ mtx = p /\ mtx' = Free /\ UNCHANGED <<queueVars, rpc, re>>
        /\ signalled' = (signalled \/ rpc = "asleep") /\ \A q \in Sender : q # p => pc'[q] = pc[q]
    BY <1>0, <1>4 DEF NotifyOne, MayNotify, Woken
  <2>2. mtx # Self
    BY <2>1, DetachedAssumption DEF DetachedAssumption
  <2>3. MutexAndPc'
    BY <2>1, <2>2, DetachedAssumption DEF ThreadInv, MutexAndPc, DetachedAssumption
  <2>4. WakeupComes'
    BY <2>1, <2>2 DEF ThreadInv, MutexAndPc, WakeupComes
  <2> QED BY <2>1, <2>3, <2>4 DEF ThreadInv, MarkAndPc, MarkInv, ListsAndPc
<1> QED BY <1>1, <1>2, <1>3, <1>4 DEF SenderStep, Enqueue

(* A step of the thread outside synchronized_await keeps away from the      *)
(* mutex, and senders keep away from it.                                    *)
LEMMA AwakeInv ==
  ASSUME UNCHANGED <<pc, mtx>>, MutexAndPc,
         rpc \notin {"check", "cv_wait", "timed_out", "asleep"},
         rpc' \notin {"check", "cv_wait", "timed_out", "asleep"}
  PROVE  MutexAndPc' /\ WakeupComes'
BY DEF MutexAndPc, WakeupComes

(* The program of the thread, up to its calls of await_data.                *)
LEMMA ProgramInvStep ==
  ASSUME TypeOK, ThreadInv,
         \/ Launch \/ Initialize \/ Act \/ LoadStack \/ FetchCas \/ FetchRetry
         \/ EventInvoke \/ EventCache \/ EventBlock
         \/ ActReturns \/ ActThrows \/ DequeueFromCache \/ Dequeue \/ TimerDeliver
         \/ BlockingInvoke \/ TimerInvoke
  PROVE  ThreadInv'
<1> USE DEF queueVars, senderVars, mailboxVars, threadVars, replyVars, history, Slumber, Goto, OnlyRpc
<1>0. QueueTypeOK /\ MarkInv /\ mark \in Mark /\ MutexAndPc
  BY DEF TypeOK, MailboxTypeOK, QueueTypeOK, ThreadInv, MarkAndPc
<1>1. CASE Launch \/ Initialize \/ Act \/ Dequeue \/ ActReturns \/ ActThrows \/ TimerDeliver
  <2>1. /\ UNCHANGED <<pc, mtx, queueVars, re>>
        /\ rpc \in {"unborn", "start", "act", "due"}
        /\ rpc' \in {"start", "loop", "clear", "act", "has_next"}
    BY <1>1 DEF Launch, Initialize, PlanExit, Act, Dequeue, ActReturns, ActThrows, Unhandled,
       TimerDeliver
  <2> QED BY <1>0, <2>1, AwakeInv DEF ThreadInv, MarkAndPc, MarkInv, ListsAndPc
<1>2. CASE LoadStack
  <2>1. mark = EmptyDummy /\ head = <<>>
    BY <1>0, <1>2 DEF LoadStack, ThreadInv, MarkAndPc, Mark
  <2>2. UNCHANGED <<pc, mtx, queueVars>> /\ re' = Top /\ rpc \in {"loop", "pop"}
    BY <1>2 DEF LoadStack
  <2>3. CASE stack = <<>>
    <3>1. rpc = "loop"
      BY <2>1, <2>2, <2>3 DEF ThreadInv, ListsAndPc
    <3>2. rpc' = "block"
      BY <1>0, <1>2, <2>1, <2>3, <3>1, TopFacts DEF LoadStack
    <3> QED BY <1>0, <2>1, <2>2, <3>2, AwakeInv DEF ThreadInv, MarkAndPc, MarkInv, ListsAndPc
  <2>4. CASE stack # <<>>
    <3>1. rpc' = "fetch" /\ Top \in Message
      BY <1>0, <1>2, <2>4, TopFacts DEF LoadStack
    <3>2. re' \notin {BlockedDummy, NullPtr}
      BY <2>2, <3>1, QueueAssumption DEF QueueAssumption, Mark
    <3> QED BY <1>0, <2>1, <2>2, <2>4, <3>1, <3>2, AwakeInv
            DEF ThreadInv, MarkAndPc, MarkInv, ListsAndPc
  <2> QED BY <2>3, <2>4
<1>3. CASE FetchCas
  <2>1. /\ UNCHANGED <<pc, mtx, re>> /\ rpc = "fetch" /\ rpc' \in {"loop", "pop"}
        /\ mark' = EmptyDummy /\ stack' = <<>> /\ head' = Reverse(stack)
    BY <1>3 DEF FetchCas, FetchNewData, Detach, Fetched
  <2>2. head' # <<>>
    <3>1. stack # <<>> /\ stack \in Seq(Message) /\ Len(Reverse(stack)) = Len(stack)
      BY <1>0, <2>1, ReverseType DEF ThreadInv, ListsAndPc, QueueTypeOK
    <3> QED BY <2>1, <3>1
  <2> QED BY <1>0, <2>1, <2>2, AwakeInv, QueueAssumption
          DEF ThreadInv, MarkAndPc, MarkInv, ListsAndPc, QueueAssumption
<1>4. CASE FetchRetry
  <2>1. UNCHANGED <<pc, mtx, queueVars, rpc>> /\ re' = Top /\ rpc \in {"fetch", "close"}
    BY <1>4 DEF FetchRetry
  <2>2. Top \notin {BlockedDummy, NullPtr}
    BY <1>0, <2>1, TopFacts DEF ThreadInv, MarkAndPc, blocked, closed
  <2> QED BY <1>0, <2>1, <2>2, AwakeInv DEF ThreadInv, MarkAndPc, MarkInv, ListsAndPc
<1>5. CASE EventInvoke \/ EventCache \/ DequeueFromCache \/ BlockingInvoke \/ TimerInvoke
  <2>1. /\ UNCHANGED <<pc, mtx, re, stack, mark>>
        /\ rpc \in {"loop", "cache", "act", "pop"}
        /\ rpc' \in {"loop", "cache", "clear", "has_next", "act"}
    BY <1>5 DEF EventInvoke, EventCache, DequeueFromCache, BlockingInvoke, TimerInvoke, Unhandled,
       HandleHead, SkipHead, DropHead, ThrowHead, TakeHead, InvokeFromCache, ThrowFromCache,
       AfterSuccess, AfterThrow
  <2>2. mark = EmptyDummy
    BY <1>0, <2>1 DEF ThreadInv, MarkAndPc, Mark
  <2> QED BY <1>0, <2>1, <2>2, AwakeInv, QueueAssumption
          DEF ThreadInv, MarkAndPc, MarkInv, ListsAndPc, QueueAssumption
<1>6. CASE EventBlock
  <2>1. /\ UNCHANGED <<pc, mtx, re, stack, head>> /\ rpc = "block"
        /\ \/ rpc' = "has_next" /\ mark' = BlockedDummy /\ stack = <<>>
           \/ rpc' = "loop" /\ mark' = mark
    <3>1. ~ blocked
      BY <1>0, <1>6, TopFacts DEF EventBlock, ThreadInv, MarkAndPc
    <3> QED BY <1>0, <1>6, <3>1, TopFacts DEF EventBlock, try_block, Block, AfterBlock
  <2> QED BY <1>0, <2>1, AwakeInv, QueueAssumption
          DEF ThreadInv, MarkAndPc, MarkInv, ListsAndPc, QueueAssumption
<1> QED BY <1>1, <1>2, <1>3, <1>4, <1>5, <1>6

(* await_data and synchronized_await.                                       *)
LEMMA AwaitInvStep ==
  ASSUME TypeOK, ThreadInv,
         \/ AwaitHasNext \/ AwaitCanFetch \/ AwaitBlock \/ AwaitLock \/ AwaitCheck
         \/ AwaitSleep \/ AwaitNotified \/ AwaitSpurious \/ AwaitTimeout \/ AwaitTimedOut
  PROVE  ThreadInv'
<1> USE DEF queueVars, senderVars, mailboxVars, threadVars, replyVars, history, Slumber, Goto, OnlyRpc
<1>0. QueueTypeOK /\ MarkInv /\ mark \in Mark /\ MutexAndPc
  BY DEF TypeOK, MailboxTypeOK, QueueTypeOK, ThreadInv, MarkAndPc
<1>1. CASE AwaitHasNext \/ AwaitCanFetch
  <2>1. UNCHANGED <<pc, mtx, re, queueVars>> /\ rpc \in {"has_next", "can_fetch"} /\ mark # NullPtr
    BY <1>0, <1>1 DEF AwaitHasNext, AwaitCanFetch, ThreadInv, MarkAndPc
  <2>2. can_fetch_more <=> head # <<>> \/ stack # <<>>
    BY <1>0, <2>1, TopFacts DEF can_fetch_more
  <2>3. CASE can_fetch_more
    <3>1. rpc' \in {"loop", "pop"} /\ mark # BlockedDummy
      BY <1>1, <2>2, <2>3, QueueAssumption DEF AwaitHasNext, AwaitCanFetch, AwaitReturns, ThreadInv,
         MarkAndPc, MarkInv, ListsAndPc, QueueAssumption
    <3> QED BY <1>0, <2>1, <2>2, <2>3, <3>1, AwakeInv DEF ThreadInv, MarkAndPc, MarkInv, ListsAndPc
  <2>4. CASE ~ can_fetch_more
    <3>1. rpc' \in {"can_fetch", "await_block"}
      BY <1>1, <2>4 DEF AwaitHasNext, AwaitCanFetch
    <3> QED BY <1>0, <2>1, <2>2, <2>4, <3>1, AwakeInv DEF ThreadInv, MarkAndPc, MarkInv, ListsAndPc
  <2> QED BY <2>3, <2>4
<1>2. CASE AwaitBlock
  <2>1. /\ UNCHANGED <<pc, mtx, re, stack, head>> /\ rpc = "await_block"
        /\ \/ rpc' = "lock" /\ mark' = BlockedDummy /\ stack = <<>>
           \/ rpc' \in {"loop", "pop"} /\ mark' = mark /\ stack # <<>>
    <3>1. rpc = "await_block" /\ mark # NullPtr
      BY <1>0, <1>2 DEF AwaitBlock, ThreadInv, MarkAndPc
    <3>2. CASE try_block /\ rpc' = "lock"
      BY <1>0, <1>2, <3>1, <3>2, TopFacts, QueueAssumption
         DEF AwaitBlock, try_block, Block, MarkInv, QueueAssumption
    <3>3. CASE ~ is_dummy(Top) /\ AwaitReturns /\ UNCHANGED mailboxVars
      BY <1>0, <1>2, <3>1, <3>3, TopFacts DEF AwaitBlock, AwaitReturns
    <3> QED BY <1>2, <3>2, <3>3 DEF AwaitBlock
  <2>2. stack # <<>> => mark = EmptyDummy
    BY <1>0 DEF MarkInv
  <2> QED BY <1>0, <2>1, <2>2, AwakeInv, QueueAssumption
          DEF ThreadInv, MarkAndPc, MarkInv, ListsAndPc, QueueAssumption
<1>3. CASE AwaitLock
  <2>1. /\ UNCHANGED <<pc, re, queueVars>> /\ mtx' = Self /\ mtx = Free
        /\ rpc \in {"lock", "relock", "timeout"} /\ rpc' \in {"check", "timed_out"}
    BY <1>3 DEF AwaitLock
  <2> QED BY <1>0, <2>1, DetachedAssumption
          DEF ThreadInv, MarkAndPc, MarkInv, ListsAndPc, MutexAndPc, WakeupComes, DetachedAssumption
<1>4. CASE AwaitCheck
  <2>1. UNCHANGED <<pc, re, queueVars>> /\ rpc = "check" /\ mtx = Self
    BY <1>0, <1>4 DEF AwaitCheck, MutexAndPc
  <2>2. CASE blocked
    <3>1. rpc' = "cv_wait" /\ mtx' = Self /\ mark = BlockedDummy
      BY <1>0, <1>4, <2>1, <2>2, TopFacts DEF AwaitCheck
    <3> QED BY <1>0, <2>1, <3>1
            DEF ThreadInv, MarkAndPc, MarkInv, ListsAndPc, MutexAndPc, WakeupComes
  <2>3. CASE ~ blocked
    <3>1. rpc' \in {"loop", "pop"} /\ mtx' = Free /\ stack # <<>> /\ mark # BlockedDummy
      BY <1>0, <1>4, <2>1, <2>3, TopFacts DEF AwaitCheck, AwaitReturns, ThreadInv, ListsAndPc
    <3> QED BY <1>0, <2>1, <3>1, DetachedAssumption
            DEF ThreadInv, MarkAndPc, MarkInv, ListsAndPc, MutexAndPc, WakeupComes, DetachedAssumption
  <2> QED BY <2>2, <2>3
<1>5. CASE AwaitSleep
  <2>1. /\ UNCHANGED <<pc, re, queueVars>> /\ rpc = "cv_wait" /\ mtx' = Free /\ rpc' = "asleep"
    BY <1>5 DEF AwaitSleep
  <2> QED BY <1>0, <2>1, DetachedAssumption
          DEF ThreadInv, MarkAndPc, MarkInv, ListsAndPc, MutexAndPc, WakeupComes, DetachedAssumption
<1>6. CASE AwaitNotified \/ AwaitSpurious \/ AwaitTimeout
  <2>1. /\ UNCHANGED <<pc, re, mtx, queueVars>> /\ rpc = "asleep" /\ rpc' \in {"relock", "timeout"}
    BY <1>6 DEF AwaitNotified, AwaitSpurious, AwaitTimeout
  <2> QED BY <1>0, <2>1
          DEF ThreadInv, MarkAndPc, MarkInv, ListsAndPc, MutexAndPc, WakeupComes
<1>7. CASE AwaitTimedOut
  <2>1. UNCHANGED <<pc, re, stack, head>> /\ rpc = "timed_out" /\ mtx = Self /\ mtx' = Free
    BY <1>0, <1>7 DEF AwaitTimedOut, Unblock, MutexAndPc
  <2>2. CASE blocked
    <3>1. rpc' = "due" /\ mark' = EmptyDummy
      BY <1>7, <2>2 DEF AwaitTimedOut, LateMessage, Unblock
    <3> QED BY <1>0, <2>1, <3>1, DetachedAssumption, QueueAssumption
            DEF ThreadInv, MarkAndPc, MarkInv, ListsAndPc, MutexAndPc, WakeupComes,
                DetachedAssumption, QueueAssumption
  <2>3. CASE ~ blocked
    <3>1. rpc' \in {"loop", "pop"} /\ mark' = mark /\ stack # <<>> /\ mark # BlockedDummy
      BY <1>0, <1>7, <2>1, <2>3, TopFacts
         DEF AwaitTimedOut, AwaitReturns, LateMessage, ThreadInv, ListsAndPc
    <3> QED BY <1>0, <2>1, <3>1, DetachedAssumption
            DEF ThreadInv, MarkAndPc, MarkInv, ListsAndPc, MutexAndPc, WakeupComes, DetachedAssumption
  <2> QED BY <2>2, <2>3
<1> QED BY <1>1, <1>2, <1>3, <1>4, <1>5, <1>6, <1>7

(* cleanup: the mailbox is closed once and for all.                         *)
LEMMA CloseInvStep ==
  ASSUME TypeOK, ThreadInv, CloseClear \/ CloseCas \/ SetExitReason
  PROVE  ThreadInv'
<1> USE DEF queueVars, senderVars, mailboxVars, threadVars, replyVars, history, Slumber, Goto, OnlyRpc
<1>0. QueueTypeOK /\ MarkInv /\ mark \in Mark /\ MutexAndPc
  BY DEF TypeOK, MailboxTypeOK, QueueTypeOK, ThreadInv, MarkAndPc
<1>1. CASE CloseClear
  <2>1. /\ UNCHANGED <<pc, mtx, stack, mark>> /\ head' = <<>> /\ re' = Top
        /\ rpc = "clear" /\ rpc' = "close"
    BY <1>1 DEF CloseClear, CloseHead
  <2>2. Top \notin {BlockedDummy, NullPtr}
    BY <1>0, <2>1, TopFacts DEF ThreadInv, MarkAndPc, blocked, closed
  <2> QED BY <1>0, <2>1, <2>2, AwakeInv DEF ThreadInv, MarkAndPc, MarkInv, ListsAndPc
<1>2. CASE CloseCas
  <2>1. /\ UNCHANGED <<pc, mtx, re, head>> /\ stack' = <<>> /\ mark' = NullPtr
        /\ rpc = "close" /\ rpc' = "exit"
    BY <1>2 DEF CloseCas, CloseStack, Detach
  <2> QED BY <1>0, <2>1, AwakeInv, QueueAssumption
          DEF ThreadInv, MarkAndPc, MarkInv, ListsAndPc, QueueAssumption
<1>3. CASE SetExitReason
  <2>1. UNCHANGED <<pc, mtx, re, queueVars>> /\ rpc = "exit" /\ rpc' = "done"
    BY <1>3 DEF SetExitReason, PublishExitReason
  <2> QED BY <1>0, <2>1, AwakeInv DEF ThreadInv, MarkAndPc, MarkInv, ListsAndPc
<1> QED BY <1>1, <1>2, <1>3

(* ThreadInv is inductive.                                                  *)
THEOREM ThreadInvariant == Spec => []ThreadInv
<1>1. Init => ThreadInv
  BY QueueAssumption, DetachedAssumption
     DEF Init, MailboxInit, QueueInit, ThreadInv, MarkAndPc, MarkInv, ListsAndPc, MutexAndPc,
         WakeupComes, Slumber, QueueAssumption, DetachedAssumption
<1>2. TypeOK /\ ThreadInv /\ [Next]_vars => ThreadInv'
  <2> SUFFICES ASSUME TypeOK, ThreadInv, [Next]_vars PROVE ThreadInv'
    OBVIOUS
  <2>1. CASE \E p \in Sender : SenderStep(p)
    BY <2>1, SenderInvStep
  <2>2. CASE ThreadStep \/ AwaitSpurious
    BY <2>2, ProgramInvStep, AwaitInvStep, CloseInvStep DEF ThreadStep
  <2>3. CASE UNCHANGED vars
    BY <2>3 DEF vars, mailboxVars, queueVars, senderVars, threadVars, ThreadInv, MarkAndPc, MarkInv,
       ListsAndPc, MutexAndPc, WakeupComes
  <2> QED BY <2>1, <2>2, <2>3 DEF Next, Quiescent
<1> QED BY <1>1, <1>2, TypeCorrect, PTL DEF Spec

(* Testing blocked() and going to sleep never misses a notification of      *)
(* synchronized_enqueue, for any number of senders; see NoLostWakeup.       *)
THEOREM SleeperIsWoken == Spec => []NoLostWakeup
<1>1. TypeOK /\ ThreadInv => NoLostWakeup
  BY TopFacts DEF TypeOK, MailboxTypeOK, ThreadInv, MarkAndPc, WakeupComes, NoLostWakeup
<1> QED BY <1>1, ThreadInvariant, TypeCorrect, PTL

(* When await_data returns there is a message; see AwaitDelivers.           *)
THEOREM AwaitNeverLies == Spec => []AwaitDelivers
<1>1. TypeOK /\ ThreadInv => AwaitDelivers
  BY TopFacts DEF TypeOK, MailboxTypeOK, ThreadInv, MarkAndPc, ListsAndPc, AwaitDelivers,
     can_fetch_more
<1> QED BY <1>1, ThreadInvariant, TypeCorrect, PTL

(* The assertions in the reader's code cannot fail; see ReaderAsserts.      *)
THEOREM ReaderAssertsHold == Spec => []ReaderAsserts
<1>1. TypeOK /\ ThreadInv => ReaderAsserts
  BY TopFacts DEF TypeOK, MailboxTypeOK, ThreadInv, MarkAndPc, ListsAndPc, ReaderAsserts, Slumber
<1> QED BY <1>1, ThreadInvariant, TypeCorrect, PTL

(* The mailbox is first-in first-out for a detached actor, too; see         *)
(* ArrivalOrder.                                                            *)
THEOREM MessagesInArrivalOrder == Spec => []ArrivalOrder
<1>1. Init => ArrivalOrder
  BY DEF Init, MailboxInit, QueueInit, ArrivalOrder, Reverse
<1>2. TypeOK /\ ThreadInv /\ ArrivalOrder /\ [Next]_vars => ArrivalOrder'
  <2> SUFFICES ASSUME TypeOK, ThreadInv, ArrivalOrder, [Next]_vars PROVE ArrivalOrder'
    OBVIOUS
  <2> USE DEF mailboxVars, queueVars, history
  <2>1. ASSUME UNCHANGED <<stack, head, history>> PROVE ArrivalOrder'
    BY <2>1, ArrivalOrderFrame
  <2>2. ASSUME NEW p \in Sender, SenderStep(p) PROVE ArrivalOrder'
    <3>1. CASE NotifyLock(p)
      BY <2>1, <3>1 DEF NotifyLock
    <3> QED BY <2>2, <3>1, EnqueueOrder DEF SenderStep, NotifyOne, TypeOK
  <2>3. CASE FetchCas \/ CloseCas
    <3>1. head = <<>>
      BY <2>3 DEF FetchCas, CloseCas, ThreadInv, ListsAndPc
    <3> QED BY <2>3, <3>1, DetachOrder DEF FetchCas, CloseCas, TypeOK
  <2>4. CASE CloseClear
    BY <2>4, CloseHeadOrder DEF CloseClear, TypeOK
  <2>5. CASE EventInvoke \/ BlockingInvoke \/ TimerInvoke
    <3>1. TakeHead
      BY <2>5 DEF EventInvoke, BlockingInvoke, TimerInvoke, HandleHead, SkipHead, DropHead,
         ThrowHead
    <3> QED BY <3>1, TakeHeadOrder DEF TypeOK
  <2>6. CASE EventCache \/ DequeueFromCache
    BY <2>1, <2>6 DEF EventCache, DequeueFromCache, InvokeFromCache, ThrowFromCache
  <2>7. CASE \/ Launch \/ Initialize \/ Act \/ LoadStack \/ FetchRetry \/ EventBlock
             \/ ActReturns \/ ActThrows \/ Dequeue \/ TimerDeliver \/ SetExitReason
    BY <2>1, <2>7 DEF Launch, Initialize, PlanExit, Act, LoadStack, FetchRetry, EventBlock,
       try_block, Block, ActReturns, ActThrows, Dequeue, TimerDeliver, SetExitReason,
       PublishExitReason
  <2>8. CASE \/ AwaitHasNext \/ AwaitCanFetch \/ AwaitBlock \/ AwaitLock \/ AwaitCheck \/ AwaitSleep
             \/ AwaitNotified \/ AwaitSpurious \/ AwaitTimeout \/ AwaitTimedOut
    BY <2>1, <2>8 DEF AwaitHasNext, AwaitCanFetch, AwaitBlock, try_block, Block, AwaitLock,
       AwaitCheck, AwaitSleep, AwaitNotified, AwaitSpurious, AwaitTimeout, AwaitTimedOut, Unblock
  <2>9. CASE UNCHANGED vars
    BY <2>1, <2>9 DEF vars
  <2> QED BY <2>2, <2>3, <2>4, <2>5, <2>6, <2>7, <2>8, <2>9 DEF Next, ThreadStep, Quiescent
<1> QED BY <1>1, <1>2, TypeCorrect, ThreadInvariant, PTL DEF Spec

-----------------------------------------------------------------------------
(* The contract of an actor.                                                *)

(* Every message is accounted for; see MailInv.                             *)
THEOREM MailAccounted == Spec => []MailInv
<1>1. Init => MailInv
  BY DEF Init, MailboxInit, QueueInit, MailInv, ArrivalOrder, Reverse, ArrivalsInv, CacheInv,
     ReplyInv, PendingInv
<1>2. TypeOK /\ ThreadInv /\ MailInv /\ [Next]_vars => MailInv'
  <2> SUFFICES ASSUME TypeOK, ThreadInv, MailInv, [Next]_vars PROVE MailInv'
    OBVIOUS
  <2>0. MailboxTypeOK /\ MarkInv
    BY DEF TypeOK, ThreadInv, MarkAndPc
  <2>1. ASSUME UNCHANGED mailboxVars PROVE MailInv'
    <3>1. UNCHANGED <<stack, head, mark, cache, pc, msg, e, sent, replies, arrivals, taken>>
      BY <2>1 DEF mailboxVars, queueVars, senderVars, replyVars, history
    <3>2. ArrivalOrder' /\ ArrivalsInv' /\ CacheInv'
      BY <3>1 DEF MailInv, ArrivalOrder, ArrivalsInv, CacheInv, Accepted
    <3>3. ReplyInv' /\ PendingInv'
      BY <3>1 DEF MailInv, ReplyInv, PendingInv, Accepted
    <3> QED BY <3>2, <3>3 DEF MailInv
  <2>2. ASSUME NEW p \in Sender, SenderStep(p) PROVE MailInv'
    BY <2>0, <2>1, <2>2, EnqueueMail DEF SenderStep, NotifyLock, NotifyOne
  <2>3. CASE FetchCas \/ CloseCas
    <3>1. head = <<>> /\ (rpc = "fetch" => mark # NullPtr)
      BY <2>3 DEF FetchCas, CloseCas, ThreadInv, MarkAndPc, ListsAndPc
    <3> QED BY <2>0, <2>3, <3>1, ReaderMail DEF FetchCas, CloseCas
  <2>4. CASE \/ Initialize \/ EventInvoke \/ EventCache \/ EventBlock \/ ActReturns \/ ActThrows
             \/ DequeueFromCache \/ BlockingInvoke \/ AwaitBlock \/ CloseClear \/ SetExitReason
    <3>1. AttachedOp \/ UNCHANGED mailboxVars
      BY <2>4 DEF AttachedOp, Initialize, EventInvoke, EventCache, EventBlock, ActReturns,
         ActThrows,
         Unhandled, PlanExit, DequeueFromCache, BlockingInvoke, AwaitBlock, CloseClear, SetExitReason
    <3> QED BY <2>0, <2>1, <3>1, ReaderMail
  <2>5. CASE TimerInvoke
    BY <2>0, <2>5, TakeHeadMail DEF TimerInvoke
  <2>6. CASE AwaitTimedOut
    <3>1. UNCHANGED <<stack, head, cache, senderVars, replies, history>> /\ mark # NullPtr
      BY <2>6 DEF AwaitTimedOut, Unblock, queueVars, senderVars, replyVars, history, ThreadInv,
         MarkAndPc
    <3>2. ArrivalOrder'
      BY <3>1, ArrivalOrderFrame DEF MailInv, history
    <3> QED BY <3>1, <3>2, MailFrame DEF MailInv, CacheInv, ReplyInv, Accepted, senderVars, history
  <2>7. CASE \/ Launch \/ Act \/ LoadStack \/ FetchRetry \/ Dequeue \/ TimerDeliver
             \/ AwaitHasNext \/ AwaitCanFetch \/ AwaitLock \/ AwaitCheck \/ AwaitSleep
             \/ AwaitNotified \/ AwaitSpurious \/ AwaitTimeout
    BY <2>1, <2>7 DEF Launch, Act, LoadStack, FetchRetry, Dequeue, TimerDeliver, AwaitHasNext,
       AwaitCanFetch, AwaitLock, AwaitCheck, AwaitSleep, AwaitNotified, AwaitSpurious, AwaitTimeout
  <2> QED BY <2>1, <2>2, <2>3, <2>4, <2>5, <2>6, <2>7 DEF Next, ThreadStep, Quiescent, vars
<1> QED BY <1>1, <1>2, TypeCorrect, ThreadInvariant, PTL DEF Spec

(* The mode of the contract, read off stack_ and the thread's place.        *)
RunningPc == {"loop", "cache", "block", "act", "due", "pop", "fetch", "null", "clear", "close"}

ModeIs ==
  /\ Mode = "unborn" <=> rpc = "unborn"
  /\ Mode = "dead" <=> mark = NullPtr
  /\ Mode = "waiting" <=> mark = BlockedDummy
  /\ Mode = "ready" <=> rpc = "start" \/ (rpc \in AwaitPc /\ mark # BlockedDummy)
  /\ Mode = "running" <=> rpc \in RunningPc

(* The mode that the mapping shows, in terms of the mark and the program   *)
(* counter.                                                                *)
LEMMA ModeFacts == TypeOK /\ ThreadInv => ModeIs
<1> SUFFICES ASSUME TypeOK, ThreadInv PROVE ModeIs
  OBVIOUS
<1>1. blocked <=> mark = BlockedDummy
  BY TopFacts DEF TypeOK, MailboxTypeOK, ThreadInv, MarkAndPc
<1>2. /\ mark = BlockedDummy => rpc \in AwaitPc
      /\ mark = NullPtr <=> rpc \in {"exit", "done"}
  BY DEF ThreadInv, MarkAndPc, Slumber, AwaitPc
<1>3. rpc \in ThreadPc
  BY DEF TypeOK
<1> QED BY <1>1, <1>2, <1>3 DEF ModeIs, Mode, AwaitPc, ThreadPc, RunningPc

(* The same in the next state.                                             *)
LEMMA ModeFactsNext == TypeOK' /\ ThreadInv' => ModeIs'
BY ModeFacts, PTL

(* The steps of ActorContract under the refinement mapping.                 *)
LEMMA ContractAccept ==
  ASSUME NEW STATE m, m \in Message, Mode # "dead", Inbox' = Append(Inbox, m),
         Mode' = IF Mode = "waiting" THEN "ready" ELSE Mode, UNCHANGED <<cache, replies>>
  PROVE  Contract!Next
BY DEF Inbox, Contract!Next, Contract!Accept

(* A request to a dead actor is answered with an error.                    *)
LEMMA ContractReject ==
  ASSUME NEW STATE m, m \in Message, Mode = "dead", Mode' = "dead", m.req, replies[m] = 0,
         ReplyTo({m}), UNCHANGED <<Inbox, cache>>
  PROVE  Contract!Next
BY DEF Inbox, ReplyTo, Contract!Next, Contract!Reject, Contract!Reply

(* The steps of the contract that change only the mode.                    *)
LEMMA ContractModeChange ==
  ASSUME UNCHANGED <<Inbox, cache, replies>>,
         \/ Mode = "unborn" /\ (Mode' = "ready" \/ (Mode' = "waiting" /\ Inbox = <<>>))
         \/ Mode = "ready" /\ Mode' = "running"
         \/ Mode \in {"ready", "running"} /\ Mode' = "waiting" /\ Inbox = <<>>
         \/ Mode = "waiting" /\ Mode' = "running"
         \/ Mode = "running" /\ Mode' = "ready"
  PROVE  Contract!Next
BY DEF Inbox, Contract!Next, Contract!Launch, Contract!Run, Contract!Wait, Contract!GiveUp,
   Contract!Yield

(* One message is taken from the inbox and handled, skipped or dropped.    *)
LEMMA ContractConsume ==
  ASSUME Mode = "running", Mode' \in {"running", "ready"},
         Inbox # <<>>, Inbox' = Tail(Inbox),
         \/ ReplyTo({Inbox[1]}) /\ ToSet(cache)' = ToSet(cache)
         \/ UNCHANGED replies /\ ToSet(cache)' = ToSet(cache) \cup {Inbox[1]}
         \/ UNCHANGED replies /\ ToSet(cache)' = ToSet(cache)
  PROVE  Contract!Next
BY DEF Inbox, ReplyTo, Contract!Next, Contract!Consume, Contract!Reply

(* One message is taken from the cache and handled or dropped.             *)
LEMMA ContractUnstash ==
  ASSUME Mode = "running", UNCHANGED Inbox,
         NEW STATE m, m \in ToSet(cache), ToSet(cache)' = ToSet(cache) \ {m},
         \/ ReplyTo({m}) /\ Mode' = "running"
         \/ UNCHANGED replies /\ Mode' \in {"running", "ready"}
  PROVE  Contract!Next
BY DEF Inbox, ReplyTo, Contract!Next, Contract!Unstash, Contract!Reply

(* The front of the inbox is bounced by a dying actor.                     *)
LEMMA ContractFlush ==
  ASSUME Mode = "running", Mode' = "running", UNCHANGED cache,
         \E k \in 1 .. Len(Inbox) : /\ ReplyTo(ToSet(SubSeq(Inbox, 1, k)))
                                   /\ Inbox' = SubSeq(Inbox, k + 1, Len(Inbox))
  PROVE  Contract!Next
BY DEF Inbox, ReplyTo, ToSet, Contract!Next, Contract!Flush, Contract!Reply, Contract!ToSet

(* Death answers every request that is left.                               *)
LEMMA ContractDie ==
  ASSUME Mode = "running", Mode' = "dead", ReplyTo(ToSet(Inbox) \cup ToSet(cache)),
         Inbox' = <<>>, ToSet(cache)' = {}
  PROVE  Contract!Next
BY DEF Inbox, ReplyTo, ToSet, Contract!Next, Contract!Die, Contract!Reply, Contract!ToSet

(* A step that changes nothing the contract sees.                          *)
LEMMA ContractStutter ==
  ASSUME UNCHANGED <<Inbox, cache, Mode, replies>>
  PROVE  UNCHANGED Contract!vars
BY DEF Inbox, Contract!vars

(* A sender's step is an accepted or a rejected message, or is not seen.    *)
LEMMA SenderRefines ==
  ASSUME TypeOK, ThreadInv, MailInv, TypeOK', ThreadInv', NEW p \in Sender, SenderStep(p)
  PROVE  [Contract!Next]_(Contract!vars)
<1> USE DEF queueVars, senderVars, mailboxVars, threadVars, replyVars, history
<1>0. ModeIs /\ ModeIs' /\ MailboxTypeOK /\ QueueTypeOK /\ MarkInv
  BY ModeFacts, ModeFactsNext DEF TypeOK, MailboxTypeOK, ThreadInv, MarkAndPc
<1>1. CASE EnqueueCas(p) /\ UNCHANGED <<planned, threadVars>>
  <2>1. msg[p] \in Message /\ Inbox' = Append(Inbox, msg[p])
    BY <1>0, <1>1, PushInbox
  <2>2. mark' = EmptyDummy /\ UNCHANGED <<rpc, cache, replies>>
    BY <1>1 DEF EnqueueCas, Push
  <2>3. Mode # "dead"
    <3>1. Top # NullPtr
      BY <1>1, QueueAssumption DEF EnqueueCas, queue_closed, Recycled, QueueAssumption, Mark
    <3> QED BY <1>0, <3>1, TopFacts DEF ModeIs, closed
  <2>4. mark = BlockedDummy => rpc \in AwaitPc
    BY DEF ThreadInv, MarkAndPc, Slumber, AwaitPc
  <2>5. Mode' = IF Mode = "waiting" THEN "ready" ELSE Mode
    <3>1. mark' # BlockedDummy /\ mark' # NullPtr
      BY <2>2, QueueAssumption DEF QueueAssumption
    <3>2. rpc \in ThreadPc /\ (mark = NullPtr <=> rpc \in {"exit", "done"})
      BY DEF TypeOK, ThreadInv, MarkAndPc
    <3> QED BY <1>0, <2>2, <2>3, <2>4, <3>1, <3>2 DEF ModeIs, ThreadPc, AwaitPc, RunningPc
  <2> QED BY <2>1, <2>2, <2>3, <2>5, ContractAccept
<1>2. CASE BounceClosed(p) /\ UNCHANGED <<planned, threadVars>>
  <2>1. msg[p] \in Message /\ msg[p].req /\ mark = NullPtr /\ replies[msg[p]] = 0
    <3>1. msg[p] \in Message /\ pc[p] = "bounce" /\ msg[p].src = p
      BY <1>0, <1>2 DEF BounceClosed, MailboxTypeOK, MailInv, PendingInv
    <3>2. ~ Accepted(msg[p])
      BY <3>1 DEF Accepted
    <3> QED BY <3>1, <3>2 DEF MailInv, PendingInv, ReplyInv
  <2>2. UNCHANGED <<mark, Inbox, cache>>
    BY <1>2 DEF BounceClosed, Inbox
  <2>3. Mode = "dead" /\ Mode' = "dead"
    BY <1>0, <2>1, <2>2 DEF ModeIs
  <2>4. ReplyTo({msg[p]})
    <3>1. \A m \in Message : m \in {msg[p]} <=> m \in {msg[p]} /\ m.req
      BY <2>1
    <3> QED BY <1>2, <3>1 DEF BounceClosed, sync_request_bouncer, ReplyTo
  <2> QED BY <2>1, <2>2, <2>3, <2>4, ContractReject
<1>3. CASE \/ /\ EnqueueLoad(p) \/ EnqueueRetry(p) \/ EnqueueClosed(p)
              /\ UNCHANGED threadVars
           \/ NotifyLock(p) \/ NotifyOne(p)
  <2>1. UNCHANGED <<stack, mark, head, cache, replies, rpc>>
    BY <1>3 DEF EnqueueLoad, EnqueueRetry, EnqueueClosed, NotifyLock, NotifyOne, Woken
  <2>2. UNCHANGED <<Inbox, Mode>>
    BY <2>1 DEF Inbox, Mode, blocked, Top
  <2> QED BY <2>1, <2>2, ContractStutter
<1> QED BY <1>1, <1>2, <1>3 DEF SenderStep, Enqueue

(* An element that leaves the inbox, however the thread's program treats it. *)
LEMMA ConsumeRefines ==
  ASSUME TypeOK, MailInv, ThreadInv, ThreadInv', TypeOK',
         EventInvoke \/ BlockingInvoke \/ TimerInvoke
  PROVE  Contract!Next
<1> USE DEF queueVars, senderVars, mailboxVars, threadVars, replyVars, history, Goto, OnlyRpc
<1>0. ModeIs /\ ModeIs' /\ MailboxTypeOK /\ QueueTypeOK
  BY ModeFacts, ModeFactsNext DEF TypeOK, MailboxTypeOK
<1>1. TakeHead /\ rpc \in {"loop", "pop"} /\ rpc' \in {"loop", "cache", "clear", "has_next", "act"}
  BY DEF EventInvoke, BlockingInvoke, TimerInvoke, Unhandled, HandleHead, SkipHead, DropHead,
     ThrowHead, AfterSuccess, AfterThrow
<1>2. mark # BlockedDummy /\ mark' = mark
  BY <1>1 DEF TakeHead, ThreadInv, MarkAndPc, Slumber
<1>3. Mode = "running" /\ Mode' \in {"running", "ready"}
  BY <1>0, <1>1, <1>2 DEF ModeIs, RunningPc, AwaitPc
<1>4. Inbox # <<>> /\ Inbox[1] = head[1] /\ head[1] \in Message /\ Inbox' = Tail(Inbox)
  BY <1>0, <1>1, TakeInbox
<1>5. CASE HandleHead \/ DropHead
  <2>1. ReplyTo({head[1]}) /\ UNCHANGED cache
    BY <1>0, <1>4, <1>5, AnswerReplies DEF HandleHead, DropHead
  <2> QED BY <1>3, <1>4, <2>1, ContractConsume
<1>6. CASE SkipHead
  <2>1. UNCHANGED replies /\ ToSet(cache)' = ToSet(cache) \cup {head[1]}
    BY <1>0, <1>4, <1>6, AppendToSet DEF SkipHead, QueueTypeOK
  <2> QED BY <1>3, <1>4, <2>1, ContractConsume
<1>7. CASE ThrowHead \/ TimerInvoke
  <2>1. UNCHANGED <<replies, cache>>
    BY <1>7 DEF ThrowHead, Throw, TimerInvoke
  <2> QED BY <1>3, <1>4, <2>1, ContractConsume
<1> QED BY <1>5, <1>6, <1>7 DEF EventInvoke, BlockingInvoke

(* A skipped element that is taken up again.                                *)
LEMMA UnstashRefines ==
  ASSUME TypeOK, MailInv, ThreadInv, ThreadInv', TypeOK', rpc \in {"cache", "act"},
         \/ InvokeFromCache /\ rpc' \in {"cache", "act", "clear"}
         \/ ThrowFromCache /\ rpc' \in {"clear", "has_next"}
  PROVE  Contract!Next
<1> USE DEF queueVars, senderVars, mailboxVars, threadVars, replyVars, history
<1>0. ModeIs /\ ModeIs' /\ MailboxTypeOK /\ QueueTypeOK
  BY ModeFacts, ModeFactsNext DEF TypeOK, MailboxTypeOK
<1>1. UNCHANGED <<stack, mark, head, senderVars, history>>
  BY DEF InvokeFromCache, ThrowFromCache
<1>2. PICK i \in DOMAIN cache :
        /\ cache' = CacheWithout(i)
        /\ \/ Answer(cache[i]) /\ rpc' \in {"cache", "act", "clear"}
           \/ Throw(cache[i]) /\ rpc' \in {"clear", "has_next"}
  BY DEF InvokeFromCache, ThrowFromCache
<1>3. cache[i] \in Message /\ cache[i] \in ToSet(cache)
  BY <1>0, <1>2 DEF QueueTypeOK, ToSet
<1>4. \/ ReplyTo({cache[i]}) /\ rpc' \in {"cache", "act", "clear"}
      \/ UNCHANGED replies
  BY <1>0, <1>2, <1>3, AnswerReplies DEF Throw
<1>5. \A m \in Message : replies'[m] # replies[m] => m = cache[i]
  BY <1>4 DEF ReplyTo
<1>6. ToSet(cache)' = ToSet(cache) \ {cache[i]}
  <2>1. cache' = CacheWithout(i)
    BY <1>2
  <2> QED BY <1>0, <1>1, <1>5, <2>1, CacheMail
<1>7. mark # BlockedDummy /\ mark' = mark
  BY <1>1 DEF ThreadInv, MarkAndPc, Slumber
<1>8. /\ Mode = "running" /\ Mode' \in {"running", "ready"}
      /\ rpc' \in {"cache", "act", "clear"} => Mode' = "running"
  BY <1>0, <1>7 DEF ModeIs, RunningPc, AwaitPc
<1>9. Inbox' = Inbox
  BY <1>1 DEF Inbox
<1> QED BY <1>3, <1>4, <1>6, <1>8, <1>9, ContractUnstash

(* try_block leaves a blocked and empty queue.                              *)
LEMMA BlockFacts ==
  ASSUME QueueTypeOK, MarkInv, try_block
  PROVE  mark' = BlockedDummy /\ stack = <<>> /\ UNCHANGED <<stack, head, cache, replies>>
BY TopFacts, QueueAssumption
   DEF try_block, Block, MarkInv, queueVars, replyVars, QueueAssumption

(* The rest of the thread's program, up to its calls of await_data.         *)
LEMMA ProgramRefines ==
  ASSUME TypeOK, ThreadInv, MailInv, TypeOK', ThreadInv',
         \/ Launch \/ Initialize \/ Act \/ LoadStack \/ FetchCas \/ FetchRetry
         \/ EventInvoke \/ EventCache \/ EventBlock
         \/ ActReturns \/ ActThrows \/ DequeueFromCache \/ Dequeue \/ TimerDeliver
         \/ BlockingInvoke \/ TimerInvoke
  PROVE  [Contract!Next]_(Contract!vars)
<1> USE DEF queueVars, senderVars, mailboxVars, threadVars, replyVars, history, Goto, OnlyRpc
<1>0. ModeIs /\ ModeIs' /\ MailboxTypeOK /\ QueueTypeOK /\ MarkInv
  BY ModeFacts, ModeFactsNext DEF TypeOK, MailboxTypeOK, ThreadInv, MarkAndPc
<1>1. ASSUME UNCHANGED <<stack, mark, head, cache, replies>>
      PROVE  UNCHANGED <<Inbox, cache, replies>>
  BY <1>1 DEF Inbox
<1>2. CASE Launch \/ Initialize \/ Act \/ Dequeue
  <2>1. /\ UNCHANGED <<stack, mark, head, cache, replies>>
        /\ \/ rpc = "unborn" /\ rpc' = "start"
           \/ rpc = "start" /\ rpc' \in {"loop", "clear", "act"}
           \/ rpc = "act" /\ rpc' = "has_next"
    BY <1>2 DEF Launch, Initialize, PlanExit, Act, Dequeue
  <2>2. mark # BlockedDummy
    BY <2>1 DEF ThreadInv, MarkAndPc, Slumber
  <2>3. \/ Mode = "unborn" /\ Mode' = "ready"
        \/ Mode = "ready" /\ Mode' = "running"
        \/ Mode = "running" /\ Mode' = "ready"
    BY <1>0, <2>1, <2>2 DEF ModeIs, RunningPc, AwaitPc
  <2> QED BY <1>1, <2>1, <2>3, ContractModeChange
<1>3. CASE LoadStack \/ FetchRetry \/ ActReturns \/ ActThrows \/ TimerDeliver
  <2>1. UNCHANGED <<stack, mark, head, cache, replies>> /\ rpc \in RunningPc /\ rpc' \in RunningPc
    BY <1>3 DEF LoadStack, FetchRetry, ActReturns, ActThrows, Unhandled, TimerDeliver, RunningPc
  <2>2. Mode' = Mode
    BY <1>0, <2>1 DEF ModeIs
  <2> QED BY <1>1, <2>1, <2>2, ContractStutter
<1>4. CASE FetchCas
  <2>1. UNCHANGED <<cache, replies>> /\ rpc \in RunningPc /\ rpc' \in RunningPc
    BY <1>4 DEF FetchCas, FetchNewData, RunningPc
  <2>2. Inbox' = Inbox
    BY <1>0, <1>4, FetchInbox DEF FetchCas, ThreadInv, ListsAndPc
  <2>3. Mode' = Mode
    BY <1>0, <2>1 DEF ModeIs
  <2> QED BY <2>1, <2>2, <2>3, ContractStutter
<1>5. CASE EventInvoke \/ BlockingInvoke \/ TimerInvoke
  BY <1>5, ConsumeRefines
<1>6. CASE EventCache \/ DequeueFromCache
  <2>1. CASE EventCache /\ UNCHANGED mailboxVars /\ rpc' = "loop"
    <3>1. UNCHANGED <<stack, mark, head, cache, replies>> /\ rpc \in RunningPc /\ rpc' \in RunningPc
      BY <2>1 DEF EventCache, RunningPc
    <3>2. Mode' = Mode
      BY <1>0, <3>1 DEF ModeIs
    <3> QED BY <1>1, <3>1, <3>2, ContractStutter
  <2>2. CASE \/ InvokeFromCache /\ rpc' \in {"cache", "act", "clear"}
             \/ ThrowFromCache /\ rpc' \in {"clear", "has_next"}
    <3>1. rpc \in {"cache", "act"}
      BY <1>6 DEF EventCache, DequeueFromCache
    <3> QED BY <2>2, <3>1, UnstashRefines
  <2> QED BY <1>6, <2>1, <2>2 DEF EventCache, DequeueFromCache, AfterSuccess, AfterThrow, Unhandled
<1>7. CASE EventBlock
  <2>1. CASE try_block /\ rpc' = "has_next"
    <3>1. /\ rpc = "block" /\ rpc' = "has_next" /\ UNCHANGED <<cache, replies, stack, head>>
          /\ mark' = BlockedDummy /\ stack = <<>>
      BY <1>0, <1>7, <2>1, BlockFacts DEF EventBlock
    <3>2. head = <<>>
      BY <3>1 DEF ThreadInv, ListsAndPc
    <3>3. Inbox = <<>> /\ UNCHANGED <<Inbox, cache, replies>>
      BY <3>1, <3>2 DEF Inbox, Reverse
    <3>4. Mode = "running" /\ Mode' = "waiting"
      BY <1>0, <3>1 DEF ModeIs, RunningPc
    <3> QED BY <3>3, <3>4, ContractModeChange
  <2>2. CASE rpc' = "loop" /\ UNCHANGED mailboxVars
    <3>1. UNCHANGED <<stack, mark, head, cache, replies>> /\ rpc \in RunningPc /\ rpc' \in RunningPc
      BY <1>7, <2>2 DEF EventBlock, RunningPc
    <3>2. Mode' = Mode
      BY <1>0, <3>1 DEF ModeIs
    <3> QED BY <1>1, <3>1, <3>2, ContractStutter
  <2> QED BY <1>7, <2>1, <2>2 DEF EventBlock, AfterBlock
<1> QED BY <1>2, <1>3, <1>4, <1>5, <1>6, <1>7

(* await_data: from its first look into the queue to its return, with or    *)
(* without a message.                                                       *)
LEMMA AwaitRefines ==
  ASSUME TypeOK, ThreadInv, TypeOK', ThreadInv',
         \/ AwaitHasNext \/ AwaitCanFetch \/ AwaitBlock \/ AwaitLock \/ AwaitCheck \/ AwaitSleep
         \/ AwaitNotified \/ AwaitSpurious \/ AwaitTimeout \/ AwaitTimedOut
  PROVE  [Contract!Next]_(Contract!vars)
<1> USE DEF queueVars, senderVars, mailboxVars, threadVars, replyVars, history, Goto, OnlyRpc
<1>0. ModeIs /\ ModeIs' /\ MailboxTypeOK /\ QueueTypeOK /\ MarkInv
  BY ModeFacts, ModeFactsNext DEF TypeOK, MailboxTypeOK, ThreadInv, MarkAndPc
<1>1. rpc \in AwaitPc
  BY DEF AwaitHasNext, AwaitCanFetch, AwaitBlock, AwaitLock, AwaitCheck, AwaitSleep, AwaitNotified,
     AwaitSpurious, AwaitTimeout, AwaitTimedOut, AwaitPc
<1>2. ASSUME UNCHANGED <<stack, head, cache, replies>>
      PROVE  UNCHANGED <<Inbox, cache, replies>>
  BY <1>2 DEF Inbox
<1>3. CASE UNCHANGED mailboxVars /\ rpc' \in AwaitPc
  <2>1. UNCHANGED <<stack, mark, head, cache, replies>>
    BY <1>3
  <2>2. Mode' = Mode
    BY <1>0, <1>1, <1>3, <2>1 DEF ModeIs, RunningPc, AwaitPc, Mode, blocked, Top
  <2> QED BY <1>2, <2>1, <2>2, ContractStutter
<1>4. CASE UNCHANGED <<stack, mark, head, cache, replies>> /\ rpc' \in {"loop", "pop"}
  <2>1. mark # BlockedDummy
    BY <1>4 DEF ThreadInv, MarkAndPc, Slumber
  <2>2. Mode = "ready" /\ Mode' = "running"
    BY <1>0, <1>1, <1>4, <2>1 DEF ModeIs, RunningPc
  <2> QED BY <1>2, <1>4, <2>2, ContractModeChange
<1>5. CASE AwaitBlock /\ try_block /\ rpc' = "lock"
  <2>1. /\ UNCHANGED <<stack, head, cache, replies>>
        /\ mark' = BlockedDummy /\ stack = <<>> /\ rpc = "await_block"
    BY <1>0, <1>5, BlockFacts DEF AwaitBlock
  <2>2. head = <<>>
    BY <2>1 DEF ThreadInv, ListsAndPc
  <2>3. Inbox = <<>>
    BY <2>1, <2>2 DEF Inbox, Reverse
  <2>4. CASE mark = BlockedDummy \* resume has blocked already
    <3>1. Mode = "waiting" /\ Mode' = "waiting"
      BY <1>0, <2>1, <2>4 DEF ModeIs
    <3> QED BY <1>2, <2>1, <3>1, ContractStutter
  <2>5. CASE mark # BlockedDummy
    <3>1. Mode = "ready" /\ Mode' = "waiting"
      BY <1>0, <1>1, <2>1, <2>5 DEF ModeIs
    <3> QED BY <1>2, <2>1, <2>3, <3>1, ContractModeChange
  <2> QED BY <2>4, <2>5
<1>6. CASE AwaitTimedOut /\ Unblock /\ rpc' = "due"
  <2>1. UNCHANGED <<stack, head, cache, replies>> /\ mark = BlockedDummy
    BY <1>0, <1>6, TopFacts DEF AwaitTimedOut, Unblock, blocked
  <2>2. Mode = "waiting" /\ Mode' = "running"
    BY <1>0, <1>6, <2>1 DEF ModeIs, RunningPc
  <2> QED BY <1>2, <2>1, <2>2, ContractModeChange
<1> QED BY <1>3, <1>4, <1>5, <1>6
        DEF AwaitHasNext, AwaitCanFetch, AwaitBlock, AwaitLock, AwaitCheck, AwaitSleep, AwaitNotified,
            AwaitSpurious, AwaitTimeout, AwaitTimedOut, AwaitReturns, AwaitPc

(* cleanup flushes what was fetched, then dies with all the rest.           *)
LEMMA CloseRefines ==
  ASSUME TypeOK, ThreadInv, TypeOK', ThreadInv', CloseClear \/ CloseCas \/ SetExitReason
  PROVE  [Contract!Next]_(Contract!vars)
<1>0. ModeIs /\ ModeIs' /\ MailboxTypeOK /\ QueueTypeOK
  BY ModeFacts, ModeFactsNext DEF TypeOK, MailboxTypeOK
<1>1. CASE CloseClear
  <2>1. rpc = "clear" /\ rpc' = "close" /\ UNCHANGED <<cache, mark>> /\ CloseHead
    BY <1>1 DEF CloseClear, CloseHead, Goto
  <2>2. Mode = "running" /\ Mode' = "running"
    BY <1>0, <2>1 DEF ModeIs, RunningPc
  <2>3. CASE head = <<>>
    BY <1>0, <2>1, <2>2, <2>3, CloseHeadInbox, ContractStutter
  <2>4. CASE head # <<>>
    BY <1>0, <2>1, <2>2, <2>4, CloseHeadInbox, ContractFlush
  <2> QED BY <2>3, <2>4
<1>2. CASE CloseCas
  <2>1. rpc = "close" /\ rpc' = "exit" /\ mark' = NullPtr /\ CloseStack /\ head = <<>>
    BY <1>2 DEF CloseCas, CloseStack, Detach, ThreadInv, ListsAndPc, Goto
  <2>2. Mode = "running" /\ Mode' = "dead"
    BY <1>0, <2>1 DEF ModeIs, RunningPc
  <2> QED BY <1>0, <2>1, <2>2, CloseStackInbox, ContractDie
<1>3. CASE SetExitReason
  <2>1. UNCHANGED <<stack, mark, head, cache, replies>> /\ mark = NullPtr
    BY <1>3 DEF SetExitReason, PublishExitReason, ThreadInv, MarkAndPc, queueVars, replyVars,
       senderVars
  <2>2. Mode = "dead" /\ Mode' = "dead"
    BY <1>0, <2>1 DEF ModeIs
  <2> QED BY <2>1, <2>2, ContractStutter DEF Inbox
<1> QED BY <1>1, <1>2, <1>3

(* The thread, its mutex and its condition variable implement the same      *)
(* contract as the cooperative scheduler does; see ActorContract.           *)
THEOREM ActorKeepsContract == Spec => ImplementsContract
<1>1. Init => Contract!Init
  <2> SUFFICES ASSUME Init PROVE Contract!Init
    OBVIOUS
  <2>1. head \o Reverse(stack) = <<>> /\ ToSet(cache) = {} /\ rpc = "unborn"
    BY DEF Init, MailboxInit, QueueInit, Reverse, ToSet
  <2>2. Mode = "unborn"
    BY <2>1 DEF Mode, AwaitPc
  <2> QED BY <2>1, <2>2 DEF Init, MailboxInit, Contract!Init
<1>2. TypeOK /\ ThreadInv /\ MailInv /\ TypeOK' /\ ThreadInv' /\ [Next]_vars
        => [Contract!Next]_(Contract!vars)
  <2> SUFFICES ASSUME TypeOK, ThreadInv, MailInv, TypeOK', ThreadInv', [Next]_vars
               PROVE  [Contract!Next]_(Contract!vars)
    OBVIOUS
  <2>1. CASE \E p \in Sender : SenderStep(p)
    BY <2>1, SenderRefines
  <2>2. CASE ThreadStep \/ AwaitSpurious
    BY <2>2, ProgramRefines, AwaitRefines, CloseRefines DEF ThreadStep
  <2>3. CASE UNCHANGED vars
    <3>1. UNCHANGED <<stack, mark, head, cache, replies, rpc>>
      BY <2>3 DEF vars, mailboxVars, queueVars, replyVars, threadVars
    <3>2. UNCHANGED <<Inbox, Mode>>
      BY <3>1 DEF Inbox, Mode, blocked, Top
    <3> QED BY <3>1, <3>2, ContractStutter
  <2> QED BY <2>1, <2>2, <2>3 DEF Next, Quiescent
<1> QED BY <1>1, <1>2, TypeCorrect, ThreadInvariant, MailAccounted, PTL
        DEF Spec, ImplementsContract, Contract!Spec
=============================================================================
