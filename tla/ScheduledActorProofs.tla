------------------------ MODULE ScheduledActorProofs ------------------------
(***************************************************************************)
(* Proofs about ScheduledActor for any number of senders, workers and      *)
(* messages and any throughput limit.                                      *)
(***************************************************************************)
EXTENDS ScheduledActor, ActorMailboxProofs

-----------------------------------------------------------------------------
(* Type correctness.                                                        *)

(* All that a worker does to the mailbox is one operation of the reader.    *)
LEMMA WorkerMailbox ==
  ASSUME NEW w \in Worker, WorkerStep(w)
  PROVE  UNCHANGED mailboxVars \/ ReaderOp
<1>1. CASE Resume(w) \/ LoadStack(w) \/ FetchCas(w) \/ FetchRetry(w)
  BY <1>1 DEF Resume, LoadStack, FetchCas, FetchRetry, ReaderOp, AttachedOp
<1>2. CASE InvokeSuccess(w) \/ InvokeFails(w) \/ InvokeThrows(w)
           \/ CacheSuccess(w) \/ CacheThrows(w) \/ CacheDone(w)
  BY <1>2 DEF InvokeSuccess, InvokeFails, InvokeThrows, CacheSuccess, CacheThrows, CacheDone,
     ReaderOp, AttachedOp
<1>3. CASE TryBlock(w) \/ TryBlockFails(w) \/ ThroughputReached(w) \/ ResumeLater(w)
           \/ CloseClear(w) \/ CloseCas(w) \/ SetExitReason(w)
  BY <1>3 DEF TryBlock, TryBlockFails, ThroughputReached, ResumeLater, CloseClear, CloseCas,
     SetExitReason, ReaderOp, AttachedOp
<1> QED BY <1>1, <1>2, <1>3 DEF WorkerStep

(* A worker's step keeps every variable in its type.                        *)
LEMMA WorkerTypeStep ==
  ASSUME TypeOK, NEW w \in Worker, WorkerStep(w)
  PROVE  TypeOK'
<1>1. Top \in Pointer
  BY TopType DEF TypeOK, MailboxTypeOK
<1>2. MailboxTypeOK'
  <2>1. CASE UNCHANGED mailboxVars
    BY <2>1 DEF mailboxVars, queueVars, senderVars, replyVars, history,
       TypeOK, MailboxTypeOK, QueueTypeOK
  <2>2. CASE ReaderOp
    BY <2>2, ReaderType DEF TypeOK
  <2> QED BY <2>1, <2>2, WorkerMailbox
<1>3. \A l \in WorkerPc : Goto(w, l) => wpc' \in [Worker -> WorkerPc]
  BY DEF TypeOK, Goto
<1>4. NextIteration(w) => handled' \in [Worker -> Nat]
  BY DEF TypeOK, NextIteration
<1>5. launched' \in BOOLEAN /\ initialized' \in BOOLEAN
  BY DEF WorkerStep, Resume, LoadStack, FetchCas, FetchRetry, InvokeSuccess, InvokeFails,
     InvokeThrows, AfterThrow, CacheSuccess, CacheThrows, CacheDone, TryBlock, TryBlockFails,
     ThroughputReached, ResumeLater, CloseClear, CloseCas, SetExitReason, TypeOK
<1>6. CASE Resume(w)
  <2>1. wpc' \in [Worker -> WorkerPc]
    BY <1>3, <1>6 DEF Resume, WorkerPc
  <2>2. jobs' \in Nat /\ handled' \in [Worker -> Nat] /\ we' \in [Worker -> Pointer]
    BY <1>6 DEF Resume, TypeOK
  <2> QED BY <1>2, <1>5, <2>1, <2>2 DEF TypeOK
<1>7. CASE LoadStack(w) \/ CloseClear(w)
  <2>1. wpc' \in [Worker -> WorkerPc]
    BY <1>3, <1>7 DEF LoadStack, CloseClear, WorkerPc
  <2>2. jobs' \in Nat /\ handled' \in [Worker -> Nat] /\ we' \in [Worker -> Pointer]
    BY <1>1, <1>7 DEF LoadStack, CloseClear, TypeOK
  <2> QED BY <1>2, <1>5, <2>1, <2>2 DEF TypeOK
<1>8. CASE FetchRetry(w)
  <2>1. we' \in [Worker -> Pointer]
    BY <1>1, <1>8 DEF FetchRetry, TypeOK
  <2> QED BY <1>2, <1>5, <1>8, <2>1 DEF FetchRetry, TypeOK
<1>9. CASE InvokeThrows(w) \/ CacheThrows(w)
  <2>1. AfterThrow(w)
    BY <1>9 DEF InvokeThrows, CacheThrows
  <2>2. wpc' \in [Worker -> WorkerPc]
    BY <1>3, <2>1 DEF AfterThrow, WorkerPc
  <2>3. jobs' \in Nat /\ handled' \in [Worker -> Nat] /\ we' \in [Worker -> Pointer]
    BY <2>1 DEF AfterThrow, TypeOK
  <2> QED BY <1>2, <1>5, <2>2, <2>3 DEF TypeOK
<1>10. CASE FetchCas(w) \/ InvokeSuccess(w) \/ CacheSuccess(w) \/ TryBlock(w)
            \/ ThroughputReached(w) \/ ResumeLater(w) \/ CloseCas(w) \/ SetExitReason(w)
  <2>1. wpc' \in [Worker -> WorkerPc]
    BY <1>3, <1>10 DEF FetchCas, InvokeSuccess, CacheSuccess, AfterSuccess, TryBlock,
       ThroughputReached, ResumeLater, CloseCas, SetExitReason, WorkerPc
  <2>2. jobs' \in Nat /\ handled' \in [Worker -> Nat] /\ we' \in [Worker -> Pointer]
    BY <1>10 DEF FetchCas, InvokeSuccess, CacheSuccess, TryBlock,
       ThroughputReached, ResumeLater, CloseCas, SetExitReason, TypeOK
  <2> QED BY <1>2, <1>5, <2>1, <2>2 DEF TypeOK
<1>11. CASE InvokeFails(w) \/ CacheDone(w) \/ TryBlockFails(w)
  <2>1. wpc' \in [Worker -> WorkerPc]
    BY <1>3, <1>11 DEF InvokeFails, CacheDone, TryBlockFails, TypeOK, WorkerPc
  <2>2. jobs' \in Nat /\ handled' \in [Worker -> Nat] /\ we' \in [Worker -> Pointer]
    BY <1>4, <1>11 DEF InvokeFails, CacheDone, TryBlockFails, TypeOK
  <2> QED BY <1>2, <1>5, <2>1, <2>2 DEF TypeOK
<1> QED BY <1>6, <1>7, <1>8, <1>9, <1>10, <1>11 DEF WorkerStep

(* A sender's step keeps every variable in its type.                        *)
LEMMA SenderTypeStep ==
  ASSUME TypeOK, NEW p \in Sender, SenderStep(p)
  PROVE  TypeOK'
<1>1. MailboxTypeOK'
  BY EnqueueType DEF SenderStep, ExecLater, TypeOK
<1>2. launched' \in BOOLEAN /\ initialized' \in BOOLEAN
  BY DEF SenderStep, ExecLater, schedVars, TypeOK
<1>3. jobs' \in Nat /\ UNCHANGED workerVars
  BY DEF SenderStep, ExecLater, schedVars, TypeOK
<1> QED BY <1>1, <1>2, <1>3 DEF workerVars, TypeOK

(* Every variable stays in its type.                                        *)
THEOREM TypeCorrect == Spec => []TypeOK
<1>1. Init => TypeOK
  <2> SUFFICES ASSUME Init PROVE TypeOK
    OBVIOUS
  <2>1. launched \in BOOLEAN /\ initialized \in BOOLEAN
    BY DEF Init
  <2>2. QueueTypeOK /\ arrivals \in Seq(Message) /\ taken \in Seq(Message)
    BY DEF Init, MailboxInit, QueueInit, QueueTypeOK, Mark
  <2>3. /\ pc \in [Sender -> SenderPc] /\ wpc \in [Worker -> WorkerPc]
        /\ \A p \in Sender : pc[p] = "idle"
        /\ msg \in [Sender -> Message \cup {NullPtr}]
        /\ e \in [Sender -> Pointer] /\ we \in [Worker -> Pointer]
    BY DEF Init, MailboxInit, SenderPc, WorkerPc, Pointer, Mark
  <2>4. /\ sent \in [Sender -> 0 .. MaxSends] /\ jobs \in Nat
        /\ handled \in [Worker -> Nat] /\ replies \in [Message -> Nat]
    BY QueueAssumption DEF Init, MailboxInit, QueueAssumption
  <2>5. /\ planned \in Reason \cup {NotExited} /\ exit_reason \in Reason \cup {NotExited}
        /\ bounces = {} /\ lost = {}
    BY DEF Init, MailboxInit
  <2> QED BY <2>1, <2>2, <2>3, <2>4, <2>5 DEF TypeOK, MailboxTypeOK
<1>2. TypeOK /\ [Next]_vars => TypeOK'
  <2> SUFFICES ASSUME TypeOK, [Next]_vars PROVE TypeOK'
    OBVIOUS
  <2>1. CASE LaunchLazy
    <3>1. MailboxTypeOK'
      BY <2>1, ReaderType DEF LaunchLazy, ReaderOp, AttachedOp, TypeOK
    <3>2. launched' \in BOOLEAN /\ initialized' \in BOOLEAN
      BY <2>1 DEF LaunchLazy, TypeOK
    <3> QED BY <2>1, <3>1, <3>2 DEF LaunchLazy, workerVars, TypeOK
  <2>2. CASE LaunchNow
    <3>1. launched' \in BOOLEAN /\ initialized' \in BOOLEAN
      BY <2>2 DEF LaunchNow, TypeOK
    <3> QED BY <2>2, <3>1 DEF LaunchNow, mailboxVars, queueVars, senderVars, replyVars,
            history, workerVars, TypeOK, MailboxTypeOK, QueueTypeOK
  <2>3. CASE \E p \in Sender : SenderStep(p)
    BY <2>3, SenderTypeStep
  <2>4. CASE \E w \in Worker : WorkerStep(w)
    BY <2>4, WorkerTypeStep
  <2>5. CASE UNCHANGED vars
    <3>1. launched' \in BOOLEAN /\ initialized' \in BOOLEAN
      BY <2>5 DEF vars, schedVars, TypeOK
    <3> QED BY <2>5, <3>1 DEF vars, mailboxVars, schedVars, queueVars, senderVars, replyVars,
            history, workerVars, TypeOK, MailboxTypeOK, QueueTypeOK
  <2> QED BY <2>1, <2>2, <2>3, <2>4, <2>5 DEF Next, Quiescent
<1> QED BY <1>1, <1>2, PTL DEF Spec

-----------------------------------------------------------------------------
(* One owner, no lost wake-up, and the reader's assertions.                 *)


(* The situations OwnerInv allows for a launched actor, each spelled out.   *)
RunBy(w) ==
  /\ MarkInv /\ launched /\ mark = EmptyDummy
  /\ jobs = 0 /\ Waker = {}
  /\ \A v \in Worker : wpc[v] # "idle" <=> v = w
  /\ wpc[w] # "exit"
  /\ wpc[w] \in {"fetch", "close"} => we[w] \notin {BlockedDummy, NullPtr}
  /\ wpc[w] \in {"fetch", "block", "last_block", "close"} => head = <<>>
  /\ wpc[w] \in Dying <=> planned # NotExited

Queued ==
  /\ MarkInv /\ launched /\ mark = EmptyDummy
  /\ jobs = 1 /\ Waker = {} /\ \A v \in Worker : wpc[v] = "idle"
  /\ planned = NotExited

(* A worker inside resume, before the mailbox is closed, is the only owner. *)
LEMMA RunnerOwns ==
  ASSUME TypeOK, OwnerInv, NEW w \in Worker, wpc[w] \notin {"idle", "exit"}
  PROVE  RunBy(w)
<1>1. w \in Runner
  BY DEF Runner
<1>2. mark = EmptyDummy
  BY <1>1 DEF OwnerInv, TypeOK, MailboxTypeOK, QueueTypeOK, Mark, NobodyOwns
<1>3. \A v \in Worker : wpc[v] # "idle" <=> v = w
  BY <1>1 DEF OwnerInv, OneOwner, Runner
<1>4. jobs = 0 /\ Waker = {} /\ launched
  BY <1>1 DEF OwnerInv, OneOwner, NobodyOwns, TypeOK
<1>5. wpc[w] \in Dying <=> planned # NotExited
  BY <1>2, <1>3, QueueAssumption DEF OwnerInv, Dying, QueueAssumption
<1> QED BY <1>2, <1>3, <1>4, <1>5 DEF RunBy, OwnerInv

(* Each situation satisfies OwnerInv; stated for the state after a step.    *)
LEMMA RunByOwnerInv ==
  ASSUME TypeOK', NEW w \in Worker, RunBy(w)'
  PROVE  OwnerInv'
<1>1. Runner' = {w}
  BY DEF RunBy, Runner
<1>2. mark' # BlockedDummy /\ mark' # NullPtr
  BY QueueAssumption DEF RunBy, QueueAssumption
<1>3. \A v \in Worker : v # w => wpc'[v] = "idle"
  BY DEF RunBy
<1>4. OneOwner'
  BY <1>1 DEF RunBy, OneOwner
<1>5. \E v \in Worker : v = w
  OBVIOUS
<1> QED BY <1>1, <1>2, <1>3, <1>4, <1>5 DEF RunBy, OwnerInv, NobodyOwns, Dying

(* The owner invariant of an actor that waits in the job queue.             *)
LEMMA QueuedOwnerInv ==
  ASSUME TypeOK', Queued'
  PROVE  OwnerInv'
<1>1. Runner' = {}
  BY DEF Queued, Runner
<1>2. mark' # BlockedDummy /\ mark' # NullPtr
  BY QueueAssumption DEF Queued, QueueAssumption
<1> QED BY <1>1, <1>2 DEF Queued, OwnerInv, OneOwner, NobodyOwns, Dying
(* A sender's step: only a push onto the blocked dummy makes it the owner.  *)
LEMMA SenderOwnerStep ==
  ASSUME TypeOK, OwnerInv, NEW p \in Sender, SenderStep(p)
  PROVE  OwnerInv'
<1> USE DEF queueVars, senderVars, mailboxVars, schedVars, workerVars, replyVars, history
<1>1. ASSUME UNCHANGED <<queueVars, workerVars, launched, initialized, planned, exit_reason, jobs>>, UNCHANGED Waker
      PROVE  OwnerInv'
  BY <1>1 DEF OwnerInv, OneOwner, MarkInv, NobodyOwns, Runner, Dying
<1>2. ASSUME NEW l \in SenderPc \ {"wake"}, pc[p] # "wake",
             pc' = [pc EXCEPT ![p] = l]
      PROVE  UNCHANGED Waker
  BY <1>2 DEF Waker, TypeOK, MailboxTypeOK
<1>3. CASE EnqueueLoad(p) /\ UNCHANGED <<planned, schedVars>>
  BY <1>1, <1>2, <1>3 DEF EnqueueLoad, SenderPc
<1>4. CASE EnqueueCas(p) /\ UNCHANGED <<planned, schedVars>> /\ Top = BlockedDummy
  <2>1. e[p] = BlockedDummy /\ mark = BlockedDummy /\ stack = <<>>
    BY <1>4, QueueAssumption DEF EnqueueCas, queue_closed, Recycled, Top, QueueAssumption, Mark,
       TypeOK, MailboxTypeOK, QueueTypeOK
  <2>2. NobodyOwns /\ head = <<>> /\ launched
    BY <2>1, QueueAssumption DEF OwnerInv, QueueAssumption
  <2>3. Waker' = {p}
    BY <1>4, <2>1, <2>2 DEF EnqueueCas, unblocked_reader, Waker, TypeOK, MailboxTypeOK, NobodyOwns
  <2>4. UNCHANGED <<wpc, we, jobs, launched, planned, exit_reason, initialized, head>>
        /\ Runner' = {} /\ Runner = {} /\ jobs = 0
    BY <1>4, <2>2 DEF EnqueueCas, Push, Runner, NobodyOwns
  <2>5. mark' = EmptyDummy /\ MarkInv'
    BY <1>4 DEF EnqueueCas, Push, MarkInv
  <2>6. OneOwner'
    BY <2>3, <2>4 DEF OneOwner
  <2>7. planned = NotExited /\ \A w \in Worker : wpc[w] = "idle"
    BY <2>1, <2>4, QueueAssumption DEF OwnerInv, Runner, Dying, QueueAssumption
  <2> QED BY <2>2, <2>3, <2>4, <2>5, <2>6, <2>7, QueueAssumption
          DEF OwnerInv, NobodyOwns, Dying, QueueAssumption
<1>5. CASE EnqueueCas(p) /\ UNCHANGED <<planned, schedVars>> /\ Top # BlockedDummy
  <2>1. e[p] # BlockedDummy
    BY <1>5, QueueAssumption DEF EnqueueCas, queue_closed, Recycled, QueueAssumption, Mark
  <2>2. UNCHANGED Waker
    BY <1>2, <1>5, <2>1 DEF EnqueueCas, unblocked_reader, SenderPc
  <2>3. Top # NullPtr
    BY <1>5, QueueAssumption DEF EnqueueCas, queue_closed, Recycled, QueueAssumption, Mark
  <2>4. mark = EmptyDummy /\ mark' = EmptyDummy
    BY <1>5, <2>3 DEF EnqueueCas, Push, Top, OwnerInv, MarkInv, TypeOK, MailboxTypeOK,
       QueueTypeOK, Mark
  <2>5. UNCHANGED <<head, workerVars, launched, initialized, planned, exit_reason, jobs, mark>>
    BY <1>5, <2>4 DEF EnqueueCas, Push
  <2> QED BY <2>2, <2>4, <2>5 DEF OwnerInv, OneOwner, MarkInv, NobodyOwns, Runner, Dying
<1>6. CASE EnqueueRetry(p) /\ UNCHANGED <<planned, schedVars>>
  BY <1>1, <1>6 DEF EnqueueRetry, Waker
<1>7. CASE EnqueueClosed(p) /\ UNCHANGED <<planned, schedVars>>
  BY <1>1, <1>2, <1>7 DEF EnqueueClosed, SenderPc
<1>8. CASE ExecLater(p)
  <2>1. Waker = {p}
    BY <1>8 DEF ExecLater, Woken, Waker, OwnerInv, OneOwner
  <2>2. Waker' = {}
    BY <1>8, <2>1 DEF ExecLater, Woken, Waker, TypeOK, MailboxTypeOK
  <2>3. jobs = 0 /\ jobs' = 1 /\ Runner = {}
    BY <1>8, <2>1 DEF ExecLater, Woken, OwnerInv, OneOwner, TypeOK
  <2>4. mark = EmptyDummy /\ launched
    BY <2>1 DEF OwnerInv, NobodyOwns, TypeOK, MailboxTypeOK, QueueTypeOK, Mark
  <2>5. \A w \in Worker : wpc[w] = "idle"
    BY <2>3 DEF Runner
  <2>6. planned = NotExited
    BY <2>4, <2>5, QueueAssumption DEF OwnerInv, Dying, QueueAssumption
  <2>7. Queued'
    BY <1>8, <2>2, <2>3, <2>4, <2>5, <2>6 DEF ExecLater, Woken, Queued, MarkInv
  <2> QED BY <2>7, QueuedOwnerInv, SenderTypeStep
<1>9. CASE BounceClosed(p) /\ UNCHANGED <<planned, schedVars>>
  BY <1>1, <1>2, <1>9 DEF BounceClosed, SenderPc
<1> QED BY <1>3, <1>4, <1>5, <1>6, <1>7, <1>8, <1>9 DEF SenderStep, Enqueue

(* A worker's step: it stays the owner, or hands the actor to the queue, or *)
(* plants the blocked dummy, or leaves the actor dead.                      *)
LEMMA WorkerOwnerStep ==
  ASSUME TypeOK, OwnerInv, NEW w \in Worker, WorkerStep(w)
  PROVE  OwnerInv'
<1> USE DEF queueVars, senderVars, mailboxVars, schedVars, workerVars, replyVars, history
<1>1. TypeOK'
  BY WorkerTypeStep
<1>2. wpc[w] \notin {"idle", "exit"} => RunBy(w)
  BY RunnerOwns
<1>3. CASE Resume(w)
  <2>1. jobs = 1 /\ jobs' = 0 /\ Waker = {} /\ \A v \in Worker : wpc[v] = "idle"
    BY <1>3 DEF Resume, PlanExit, OwnerInv, OneOwner, TypeOK, Runner
  <2>2. launched /\ mark = EmptyDummy /\ MarkInv
    BY <2>1 DEF OwnerInv, NobodyOwns, TypeOK, MailboxTypeOK, QueueTypeOK, Mark
  <2>3. \A v \in Worker : wpc'[v] # "idle" <=> v = w
    BY <1>3, <2>1 DEF Resume, PlanExit, Goto, TypeOK
  <2>4. wpc'[w] = IF planned' = NotExited THEN "loop" ELSE "clear"
    BY <1>3 DEF Resume, PlanExit, Goto, TypeOK
  <2>5. Waker' = {} /\ MarkInv' /\ launched' /\ mark' = EmptyDummy
    BY <1>3, <2>1, <2>2 DEF Resume, PlanExit, Waker, MarkInv
  <2>6. RunBy(w)'
    BY <2>1, <2>3, <2>4, <2>5 DEF RunBy, Dying
  <2> QED BY <1>1, <2>6, RunByOwnerInv
<1>4. CASE LoadStack(w)
  <2>1. RunBy(w)
    BY <1>2, <1>4 DEF LoadStack
  <2>2. RunBy(w)'
    BY <1>4, <2>1, QueueAssumption DEF LoadStack, RunBy, Goto, Waker, MarkInv, Dying, TypeOK,
       MailboxTypeOK, QueueTypeOK, QueueAssumption, Mark, Top
  <2> QED BY <1>1, <2>2, RunByOwnerInv
<1>5. CASE FetchCas(w)
  <2>1. RunBy(w)
    BY <1>2, <1>5 DEF FetchCas, FetchNewData
  <2>2. RunBy(w)'
    BY <1>5, <2>1, QueueAssumption DEF FetchCas, FetchNewData, RunBy, Goto, Waker, MarkInv,
       Dying, TypeOK,
       MailboxTypeOK, QueueTypeOK, QueueAssumption, Mark, Detach
  <2> QED BY <1>1, <2>2, RunByOwnerInv
<1>6. CASE FetchRetry(w)
  <2>1. RunBy(w)
    BY <1>2, <1>6 DEF FetchRetry
  <2>2. RunBy(w)'
    BY <1>6, <2>1, QueueAssumption DEF FetchRetry, RunBy, Goto, Waker, MarkInv, Dying, TypeOK,
       MailboxTypeOK, QueueTypeOK, QueueAssumption, Mark, Top
  <2> QED BY <1>1, <2>2, RunByOwnerInv
<1>7. CASE InvokeSuccess(w)
  <2>1. RunBy(w)
    BY <1>2, <1>7 DEF InvokeSuccess, HandleHead, TakeHead
  <2>2. RunBy(w)'
    BY <1>7, <2>1, QueueAssumption DEF InvokeSuccess, HandleHead, AfterSuccess, RunBy, Goto,
       Waker, MarkInv, Dying, TypeOK,
       MailboxTypeOK, QueueTypeOK, QueueAssumption, Mark, TakeHead
  <2> QED BY <1>1, <2>2, RunByOwnerInv
<1>8. CASE InvokeFails(w)
  <2>1. RunBy(w)
    BY <1>2, <1>8 DEF InvokeFails
  <2>2. UNCHANGED <<stack, mark, planned, senderVars, jobs, launched, wpc, we>>
        /\ wpc[w] = "loop"
    BY <1>8 DEF InvokeFails, SkipHead, DropHead, TakeHead
  <2>3. RunBy(w)'
    BY <2>1, <2>2 DEF RunBy, Waker, MarkInv, Dying
  <2> QED BY <1>1, <2>3, RunByOwnerInv
<1>10. CASE CacheSuccess(w)
  <2>1. RunBy(w)
    BY <1>2, <1>10 DEF CacheSuccess, InvokeFromCache
  <2>2. RunBy(w)'
    BY <1>10, <2>1, QueueAssumption DEF CacheSuccess, InvokeFromCache, AfterSuccess, RunBy, Goto,
       Waker, MarkInv, Dying, TypeOK,
       MailboxTypeOK, QueueTypeOK, QueueAssumption, Mark
  <2> QED BY <1>1, <2>2, RunByOwnerInv
<1>11. CASE CacheDone(w)
  <2>1. RunBy(w)
    BY <1>2, <1>11 DEF CacheDone
  <2>2. RunBy(w)'
    BY <1>11, <2>1, QueueAssumption DEF CacheDone, RunBy, Goto, Waker, MarkInv, Dying, TypeOK,
       MailboxTypeOK, QueueTypeOK, QueueAssumption, Mark, NextIteration
  <2> QED BY <1>1, <2>2, RunByOwnerInv
<1>12. CASE TryBlockFails(w)
  <2>1. RunBy(w)
    BY <1>2, <1>12 DEF TryBlockFails
  <2>2. RunBy(w)'
    BY <1>12, <2>1, QueueAssumption DEF TryBlockFails, RunBy, Goto, Waker, MarkInv, Dying, TypeOK,
       MailboxTypeOK, QueueTypeOK, QueueAssumption, Mark, NextIteration, is_dummy
  <2> QED BY <1>1, <2>2, RunByOwnerInv
<1>13. CASE ThroughputReached(w)
  <2>1. RunBy(w)
    BY <1>2, <1>13 DEF ThroughputReached
  <2>2. RunBy(w)'
    BY <1>13, <2>1, QueueAssumption DEF ThroughputReached, RunBy, Goto, Waker, MarkInv, Dying,
       TypeOK,
       MailboxTypeOK, QueueTypeOK, QueueAssumption, Mark, has_next_message, can_fetch_more, is_dummy
  <2> QED BY <1>1, <2>2, RunByOwnerInv
<1>14. CASE CloseClear(w)
  <2>1. RunBy(w)
    BY <1>2, <1>14 DEF CloseClear, CloseHead
  <2>2. RunBy(w)'
    BY <1>14, <2>1, QueueAssumption DEF CloseClear, CloseHead, RunBy, Goto, Waker, MarkInv,
       Dying, TypeOK,
       MailboxTypeOK, QueueTypeOK, QueueAssumption, Mark, Top
  <2> QED BY <1>1, <2>2, RunByOwnerInv
<1>15. ASSUME AfterThrow(w), wpc[w] \notin {"idle", "exit"},
              UNCHANGED <<pc, stack, mark>>
       PROVE  OwnerInv'
  <2>1. RunBy(w)
    BY <1>2, <1>15
  <2>2. CASE planned' = NotExited
    <3>1. Queued'
      BY <1>15, <2>1, <2>2 DEF AfterThrow, RunBy, Queued, Goto, Waker, MarkInv, TypeOK
    <3> QED BY <1>1, <3>1, QueuedOwnerInv
  <2>3. CASE planned' # NotExited
    <3>1. RunBy(w)'
      BY <1>15, <2>1, <2>3 DEF AfterThrow, RunBy, Goto, Waker, MarkInv, Dying, TypeOK
    <3> QED BY <1>1, <3>1, RunByOwnerInv
  <2> QED BY <2>2, <2>3
<1>16. CASE InvokeThrows(w)
  BY <1>15, <1>16 DEF InvokeThrows, ThrowHead, TakeHead, Throw
<1>17. CASE CacheThrows(w)
  <2>1. PICK i \in DOMAIN cache : Throw(cache[i])
    BY <1>17 DEF CacheThrows, ThrowFromCache
  <2> QED BY <1>15, <1>17, <2>1 DEF CacheThrows, ThrowFromCache, Throw
<1>18. CASE ResumeLater(w)
  <2>1. RunBy(w)
    BY <1>2, <1>18 DEF ResumeLater
  <2>2. Queued'
    BY <1>18, <2>1 DEF ResumeLater, RunBy, Queued, Goto, Waker, MarkInv, Dying, TypeOK
  <2> QED BY <1>1, <2>2, QueuedOwnerInv
<1>19. CASE TryBlock(w)
  <2>1. RunBy(w) /\ head = <<>> /\ planned = NotExited
    BY <1>2, <1>19 DEF TryBlock, try_block, RunBy, Dying
  <2>2. Block
    BY <1>19, <2>1, QueueAssumption DEF TryBlock, try_block, RunBy, MarkInv, blocked, Top,
       QueueAssumption, Mark, TypeOK, MailboxTypeOK, QueueTypeOK
  <2>3. stack' = <<>> /\ mark' = BlockedDummy /\ head' = <<>>
    BY <2>1, <2>2, QueueAssumption DEF Block, Top, QueueAssumption, Mark, TypeOK, MailboxTypeOK,
       QueueTypeOK
  <2>4. \A v \in Worker : wpc'[v] = "idle"
    BY <1>19, <2>1 DEF TryBlock, try_block, RunBy, Goto, TypeOK
  <2>5. NobodyOwns' /\ Runner' = {} /\ Waker' = {} /\ jobs' = 0 /\ launched'
    BY <1>19, <2>1, <2>4 DEF TryBlock, try_block, RunBy, NobodyOwns, Runner, Waker
  <2>6. planned' = NotExited
    BY <1>19, <2>1 DEF TryBlock, try_block
  <2> QED BY <2>3, <2>4, <2>5, <2>6, QueueAssumption
          DEF OwnerInv, OneOwner, MarkInv, Dying, QueueAssumption
<1>20. CASE CloseCas(w)
  <2>1. RunBy(w)
    BY <1>2, <1>20 DEF CloseCas, CloseStack
  <2>2. /\ \A v \in Worker : v # w => wpc'[v] = "idle"
        /\ wpc'[w] = "exit"
    BY <1>20, <2>1 DEF CloseCas, CloseStack, RunBy, Goto, TypeOK
  <2>3. Runner' = {w} /\ Waker' = {} /\ jobs' = 0 /\ launched'
    BY <1>20, <2>1, <2>2 DEF CloseCas, CloseStack, RunBy, Runner, Waker
  <2>4. stack' = <<>> /\ mark' = NullPtr /\ planned' # NotExited
    BY <1>20, <2>1 DEF CloseCas, CloseStack, Detach, RunBy, Dying
  <2> QED BY <2>2, <2>3, <2>4, QueueAssumption
          DEF OwnerInv, OneOwner, NobodyOwns, MarkInv, Dying, QueueAssumption
<1>21. CASE SetExitReason(w)
  <2>1. w \in Runner /\ mark = NullPtr /\ planned # NotExited
    BY <1>21 DEF SetExitReason, PublishExitReason, Runner, OwnerInv, Dying
  <2>2. jobs = 0 /\ Waker = {} /\ launched
    BY <2>1, QueueAssumption DEF OwnerInv, NobodyOwns, QueueAssumption
  <2>3. \A v \in Worker : wpc'[v] = "idle"
    BY <1>21, <2>1 DEF SetExitReason, PublishExitReason, Goto, TypeOK, OwnerInv, OneOwner, Runner
  <2>4. Runner' = {} /\ Waker' = {} /\ jobs' = 0 /\ launched'
    BY <1>21, <2>2, <2>3 DEF SetExitReason, PublishExitReason, Runner, Waker
  <2>5. mark' = NullPtr /\ MarkInv' /\ exit_reason' # NotExited
    BY <1>21, <2>1 DEF SetExitReason, PublishExitReason, OwnerInv, MarkInv
  <2> QED BY <2>3, <2>4, <2>5, QueueAssumption
          DEF OwnerInv, OneOwner, NobodyOwns, Dying, QueueAssumption
<1> QED BY <1>3, <1>4, <1>5, <1>6, <1>7, <1>8, <1>10, <1>11, <1>12, <1>13, <1>14, <1>16, <1>17,
           <1>18, <1>19, <1>20, <1>21 DEF WorkerStep


(* OwnerInv is inductive.                                                   *)
THEOREM OwnerInvariant == Spec => []OwnerInv
<1>1. Init => OwnerInv
  BY QueueAssumption DEF Init, MailboxInit, QueueInit, OwnerInv, OneOwner, MarkInv, NobodyOwns,
     Runner, Waker, Dying, QueueAssumption
<1>2. TypeOK /\ OwnerInv /\ [Next]_vars => OwnerInv'
  <2> SUFFICES ASSUME TypeOK, OwnerInv, [Next]_vars PROVE OwnerInv'
    OBVIOUS
  <2> USE DEF queueVars, senderVars, mailboxVars, schedVars, workerVars, replyVars, history
  <2>1. ASSUME ~ launched
        PROVE  /\ jobs = 0 /\ Waker = {} /\ (\A w \in Worker : wpc[w] = "idle")
               /\ mark = EmptyDummy /\ planned = NotExited
    BY <2>1 DEF OwnerInv, NobodyOwns, Runner
  <2>2. CASE LaunchLazy
    <3>1. stack' = <<>> /\ mark' = BlockedDummy /\ head' = head /\ launched'
      BY <2>2, <2>1, QueueAssumption
         DEF LaunchLazy, try_block, Block, blocked, Top, QueueAssumption, Mark, TypeOK, MailboxTypeOK, QueueTypeOK
    <3>2. jobs' = 0 /\ Waker' = {} /\ planned' = NotExited /\ \A w \in Worker : wpc'[w] = "idle"
      BY <2>2, <2>1 DEF LaunchLazy, try_block, Waker
    <3>3. Runner' = {} /\ head = <<>>
      BY <2>2, <3>2 DEF Runner, LaunchLazy, OwnerInv
    <3> QED BY <3>1, <3>2, <3>3, QueueAssumption
            DEF OwnerInv, OneOwner, NobodyOwns, MarkInv, Dying, QueueAssumption
  <2>3. CASE LaunchNow
    <3>1. Queued'
      BY <2>3, <2>1 DEF LaunchNow, Queued, Waker, OwnerInv, MarkInv
    <3>2. TypeOK'
      BY <2>3 DEF LaunchNow, TypeOK, MailboxTypeOK, QueueTypeOK
    <3> QED BY <3>1, <3>2, QueuedOwnerInv
  <2>4. CASE \E p \in Sender : SenderStep(p)
    BY <2>4, SenderOwnerStep
  <2>5. CASE \E w \in Worker : WorkerStep(w)
    BY <2>5, WorkerOwnerStep
  <2>6. CASE UNCHANGED vars
    BY <2>6 DEF vars, OwnerInv, OneOwner, MarkInv, NobodyOwns, Runner, Waker, Dying
  <2> QED BY <2>2, <2>3, <2>4, <2>5, <2>6 DEF Next, Quiescent
<1> QED BY <1>1, <1>2, TypeCorrect, PTL DEF Spec

(* At any time at most one worker executes the actor, and it is in at most  *)
(* one scheduler queue; see OneOwner.                                       *)
THEOREM ActorHasOneOwner == Spec => []OneOwner
<1>1. OwnerInv => OneOwner
  BY DEF OwnerInv
<1> QED BY <1>1, OwnerInvariant, PTL

(* No wake-up is lost, for any number of senders; see NeverAbandoned.       *)
THEOREM ActorNeverAbandoned == Spec => []NeverAbandoned
<1>1. TypeOK /\ OwnerInv => NeverAbandoned
  BY QueueAssumption DEF TypeOK, MailboxTypeOK, QueueTypeOK, OwnerInv, NeverAbandoned,
     NobodyOwns, MarkInv,
     blocked, closed, Top, QueueAssumption, Mark
<1> QED BY <1>1, OwnerInvariant, TypeCorrect, PTL

(* The assertions in the reader's code cannot fail; see ReaderAsserts.      *)
THEOREM ReaderAssertsHold == Spec => []ReaderAsserts
<1>1. TypeOK /\ OwnerInv => ReaderAsserts
  <2> SUFFICES ASSUME TypeOK, OwnerInv PROVE ReaderAsserts
    OBVIOUS
  <2>1. ASSUME NEW w \in Runner, wpc[w] # "exit" PROVE ~ blocked /\ ~ closed
    <3>1. mark = EmptyDummy
      BY <2>1 DEF OwnerInv, NobodyOwns, TypeOK, MailboxTypeOK, QueueTypeOK, Mark
    <3> QED BY <3>1, QueueAssumption DEF blocked, closed, Top, TypeOK, MailboxTypeOK, QueueTypeOK,
            QueueAssumption, Mark
  <2>2. ASSUME jobs > 0, initialized PROVE planned = NotExited
    <3>1. jobs = 1 /\ Runner = {}
      BY <2>2 DEF OwnerInv, OneOwner, TypeOK
    <3>2. \A w \in Worker : wpc[w] = "idle"
      BY <3>1 DEF Runner
    <3> QED BY <3>1, <3>2 DEF OwnerInv, Dying
  <2> QED BY <2>1, <2>2 DEF ReaderAsserts, OwnerInv
<1> QED BY <1>1, OwnerInvariant, TypeCorrect, PTL

-----------------------------------------------------------------------------
(* The mailbox is first-in first-out, however many senders push and however *)
(* often the reader fetches; see ArrivalOrder.                              *)
THEOREM MessagesInArrivalOrder == Spec => []ArrivalOrder
<1>1. Init => ArrivalOrder
  BY DEF Init, MailboxInit, QueueInit, ArrivalOrder, Reverse
<1>2. TypeOK /\ OwnerInv /\ ArrivalOrder /\ [Next]_vars => ArrivalOrder'
  <2> SUFFICES ASSUME TypeOK, OwnerInv, ArrivalOrder, [Next]_vars PROVE ArrivalOrder'
    OBVIOUS
  <2>1. ASSUME UNCHANGED mailboxVars PROVE ArrivalOrder'
    BY <2>1, ArrivalOrderFrame DEF mailboxVars, queueVars, history
  <2>2. ASSUME NEW p \in Sender, SenderStep(p) PROVE ArrivalOrder'
    BY <2>2, EnqueueOrder DEF SenderStep, ExecLater, TypeOK
  <2>3. ASSUME NEW w \in Worker, WorkerStep(w) PROVE ArrivalOrder'
    <3>1. CASE FetchCas(w) \/ CloseCas(w)
      <4>1. head = <<>>
        BY <3>1 DEF FetchCas, CloseCas, OwnerInv
      <4> QED BY <3>1, <4>1, DetachOrder DEF FetchCas, CloseCas, TypeOK
    <3>2. CASE InvokeSuccess(w) \/ InvokeFails(w) \/ InvokeThrows(w)
      <4>1. TakeHead
        BY <3>2 DEF InvokeSuccess, InvokeFails, InvokeThrows, HandleHead, SkipHead, DropHead,
           ThrowHead
      <4> QED BY <4>1, TakeHeadOrder DEF TypeOK
    <3>3. CASE CloseClear(w)
      BY <3>3, CloseHeadOrder DEF CloseClear, TypeOK
    <3>4. CASE Resume(w) \/ LoadStack(w) \/ FetchRetry(w) \/ CacheSuccess(w) \/ CacheThrows(w)
               \/ CacheDone(w) \/ TryBlock(w) \/ TryBlockFails(w) \/ ThroughputReached(w)
               \/ ResumeLater(w) \/ SetExitReason(w)
      BY <2>1, <3>4, ArrivalOrderFrame
         DEF Resume, LoadStack, FetchRetry, CacheSuccess, CacheThrows, CacheDone, TryBlock,
             TryBlockFails, ThroughputReached, ResumeLater, SetExitReason, PlanExit,
             InvokeFromCache, ThrowFromCache, try_block, Block, PublishExitReason,
             queueVars, history
    <3> QED BY <2>3, <3>1, <3>2, <3>3, <3>4 DEF WorkerStep
  <2>4. CASE LaunchLazy
    BY <2>4, ArrivalOrderFrame DEF LaunchLazy, try_block, Block, queueVars, history
  <2> QED BY <2>1, <2>2, <2>3, <2>4 DEF Next, LaunchNow, Quiescent, vars
<1> QED BY <1>1, <1>2, TypeCorrect, OwnerInvariant, PTL DEF Spec

-----------------------------------------------------------------------------
(* The contract of an actor.                                                *)

(* Every message is accounted for; see MailInv.                             *)
THEOREM MailAccounted == Spec => []MailInv
<1>1. Init => MailInv
  BY DEF Init, MailboxInit, QueueInit, MailInv, ArrivalOrder, Reverse, ArrivalsInv, CacheInv,
     ReplyInv, PendingInv
<1>2. TypeOK /\ OwnerInv /\ MailInv /\ [Next]_vars => MailInv'
  <2> SUFFICES ASSUME TypeOK, OwnerInv, MailInv, [Next]_vars PROVE MailInv'
    OBVIOUS
  <2>0. MailboxTypeOK /\ MarkInv
    BY DEF TypeOK, OwnerInv
  <2>1. ASSUME UNCHANGED mailboxVars PROVE MailInv'
    BY <2>1 DEF mailboxVars, queueVars, senderVars, replyVars, history, MailInv, ArrivalOrder,
       ArrivalsInv, CacheInv, ReplyInv, PendingInv, Accepted
  <2>2. ASSUME NEW p \in Sender, SenderStep(p) PROVE MailInv'
    BY <2>0, <2>2, EnqueueMail DEF SenderStep, ExecLater
  <2>3. ASSUME NEW w \in Worker, WorkerStep(w) PROVE MailInv'
    <3>1. CASE FetchCas(w) \/ CloseCas(w)
      <4>1. head = <<>> /\ (wpc[w] = "fetch" => mark # NullPtr)
        BY <3>1 DEF FetchCas, CloseCas, OwnerInv, Runner
      <4> QED BY <2>0, <3>1, <4>1, ReaderMail DEF FetchCas, CloseCas
    <3>2. CASE \/ InvokeSuccess(w) \/ InvokeFails(w) \/ InvokeThrows(w) \/ CloseClear(w)
               \/ CacheSuccess(w) \/ CacheThrows(w) \/ TryBlock(w) \/ SetExitReason(w)
      BY <2>0, <3>2, ReaderMail
         DEF AttachedOp, InvokeSuccess, InvokeFails, InvokeThrows, CloseClear, CacheSuccess,
             CacheThrows, TryBlock, SetExitReason
    <3>3. CASE \/ Resume(w) \/ LoadStack(w) \/ FetchRetry(w) \/ CacheDone(w) \/ TryBlockFails(w)
               \/ ThroughputReached(w) \/ ResumeLater(w)
      BY <2>0, <2>1, <3>3, ReaderMail DEF AttachedOp, Resume, LoadStack, FetchRetry, CacheDone,
         TryBlockFails, ThroughputReached, ResumeLater
    <3> QED BY <2>3, <3>1, <3>2, <3>3 DEF WorkerStep
  <2>4. CASE LaunchLazy
    BY <2>0, <2>4, ReaderMail DEF LaunchLazy, AttachedOp
  <2> QED BY <2>1, <2>2, <2>3, <2>4 DEF Next, LaunchNow, Quiescent, vars
<1> QED BY <1>1, <1>2, TypeCorrect, OwnerInvariant, PTL DEF Spec

(* The mode of the contract, read off stack_ and the workers.               *)
ModeIs ==
  /\ Mode = "unborn" <=> ~ launched
  /\ Mode = "dead" <=> mark = NullPtr
  /\ Mode = "waiting" <=> mark = BlockedDummy
  /\ Mode = "running" <=> launched /\ mark = EmptyDummy /\ Runner # {}
  /\ Mode = "ready" <=> launched /\ mark = EmptyDummy /\ Runner = {}

(* The mode that the mapping shows, in terms of the mark and the workers.   *)
LEMMA ModeFacts == TypeOK /\ OwnerInv => ModeIs
<1> SUFFICES ASSUME TypeOK, OwnerInv PROVE ModeIs
  OBVIOUS
<1>1. /\ blocked <=> mark = BlockedDummy
      /\ closed <=> mark = NullPtr
  BY TopFacts DEF TypeOK, MailboxTypeOK, OwnerInv
<1>2. mark \in {EmptyDummy, BlockedDummy, NullPtr} /\ (~ launched => mark = EmptyDummy)
  BY DEF TypeOK, MailboxTypeOK, QueueTypeOK, Mark, OwnerInv
<1>3. EmptyDummy # BlockedDummy /\ EmptyDummy # NullPtr /\ BlockedDummy # NullPtr
  BY QueueAssumption DEF QueueAssumption
<1> QED BY <1>1, <1>2, <1>3 DEF ModeIs, Mode

(* The same in the next state.                                             *)
LEMMA ModeFactsNext == TypeOK' /\ OwnerInv' => ModeIs'
BY ModeFacts, PTL

(* The steps of ActorContract under the refinement mapping.                 *)
LEMMA ContractAccept ==
  ASSUME NEW STATE m, m \in Message, Mode # "dead", Inbox' = Append(Inbox, m),
         Mode' = IF Mode = "waiting" THEN "ready" ELSE Mode, UNCHANGED <<cache, replies>>
  PROVE  Contract!Next
BY DEF Inbox, Contract!Next, Contract!Accept

(* A request to a dead actor is answered with an error.                    *)
LEMMA ContractReject ==
  ASSUME NEW STATE m, m \in Message, Mode = "dead", Mode' = "dead", m.req, replies[m] = 0,
         ReplyTo({m}), UNCHANGED <<Inbox, cache>>
  PROVE  Contract!Next
BY DEF Inbox, ReplyTo, Contract!Next, Contract!Reject, Contract!Reply

(* The steps of the contract that change only the mode.                    *)
LEMMA ContractModeChange ==
  ASSUME UNCHANGED <<Inbox, cache, replies>>,
         \/ Mode = "unborn" /\ (Mode' = "ready" \/ (Mode' = "waiting" /\ Inbox = <<>>))
         \/ Mode = "ready" /\ Mode' = "running"
         \/ Mode \in {"ready", "running"} /\ Mode' = "waiting" /\ Inbox = <<>>
         \/ Mode = "waiting" /\ Mode' = "running"
         \/ Mode = "running" /\ Mode' = "ready"
  PROVE  Contract!Next
BY DEF Inbox, Contract!Next, Contract!Launch, Contract!Run, Contract!Wait, Contract!GiveUp,
   Contract!Yield

(* One message is taken from the inbox and handled, skipped or dropped.    *)
LEMMA ContractConsume ==
  ASSUME Mode = "running", Mode' \in {"running", "ready"},
         Inbox # <<>>, Inbox' = Tail(Inbox),
         \/ ReplyTo({Inbox[1]}) /\ ToSet(cache)' = ToSet(cache)
         \/ UNCHANGED replies /\ ToSet(cache)' = ToSet(cache) \cup {Inbox[1]}
         \/ UNCHANGED replies /\ ToSet(cache)' = ToSet(cache)
  PROVE  Contract!Next
BY DEF Inbox, ReplyTo, Contract!Next, Contract!Consume, Contract!Reply

(* One message is taken from the cache and handled or dropped.             *)
LEMMA ContractUnstash ==
  ASSUME Mode = "running", UNCHANGED Inbox,
         NEW STATE m, m \in ToSet(cache), ToSet(cache)' = ToSet(cache) \ {m},
         \/ ReplyTo({m}) /\ Mode' = "running"
         \/ UNCHANGED replies /\ Mode' \in {"running", "ready"}
  PROVE  Contract!Next
BY DEF Inbox, ReplyTo, Contract!Next, Contract!Unstash, Contract!Reply

(* The front of the inbox is bounced by a dying actor.                     *)
LEMMA ContractFlush ==
  ASSUME Mode = "running", Mode' = "running", UNCHANGED cache,
         \E k \in 1 .. Len(Inbox) : /\ ReplyTo(ToSet(SubSeq(Inbox, 1, k)))
                                   /\ Inbox' = SubSeq(Inbox, k + 1, Len(Inbox))
  PROVE  Contract!Next
BY DEF Inbox, ReplyTo, ToSet, Contract!Next, Contract!Flush, Contract!Reply, Contract!ToSet

(* Death answers every request that is left.                               *)
LEMMA ContractDie ==
  ASSUME Mode = "running", Mode' = "dead", ReplyTo(ToSet(Inbox) \cup ToSet(cache)),
         Inbox' = <<>>, ToSet(cache)' = {}
  PROVE  Contract!Next
BY DEF Inbox, ReplyTo, ToSet, Contract!Next, Contract!Die, Contract!Reply, Contract!ToSet

(* A step that changes nothing the contract sees.                          *)
LEMMA ContractStutter ==
  ASSUME UNCHANGED <<Inbox, cache, Mode, replies>>
  PROVE  UNCHANGED Contract!vars
BY DEF Inbox, Contract!vars

(* A sender's step is an accepted or a rejected message, or is not seen.    *)
LEMMA SenderRefines ==
  ASSUME TypeOK, OwnerInv, MailInv, TypeOK', OwnerInv', NEW p \in Sender, SenderStep(p)
  PROVE  [Contract!Next]_(Contract!vars)
<1> USE DEF queueVars, senderVars, mailboxVars, schedVars, workerVars, replyVars, history
<1>0. ModeIs /\ ModeIs' /\ MailboxTypeOK /\ QueueTypeOK /\ MarkInv
  BY ModeFacts, ModeFactsNext DEF TypeOK, MailboxTypeOK, OwnerInv
<1>1. CASE EnqueueCas(p) /\ UNCHANGED <<planned, schedVars>>
  <2>1. msg[p] \in Message /\ Inbox' = Append(Inbox, msg[p])
    BY <1>0, <1>1, PushInbox
  <2>2. mark' = EmptyDummy /\ UNCHANGED <<launched, Runner, cache, replies>>
    BY <1>1 DEF EnqueueCas, Push, Runner
  <2>3. Mode # "dead"
    <3>1. Top # NullPtr
      BY <1>1, QueueAssumption DEF EnqueueCas, queue_closed, Recycled, QueueAssumption, Mark
    <3> QED BY <1>0, <3>1, TopFacts DEF ModeIs, closed
  <2>4. Mode = "waiting" => launched /\ Runner = {}
    BY <1>0, QueueAssumption DEF ModeIs, OwnerInv, NobodyOwns, QueueAssumption
  <2>5. Mode' = IF Mode = "waiting" THEN "ready" ELSE Mode
    <3>1. mark \in {EmptyDummy, BlockedDummy, NullPtr}
      BY <1>0 DEF QueueTypeOK, Mark
    <3> QED BY <1>0, <2>2, <2>3, <2>4, <3>1, QueueAssumption DEF ModeIs, QueueAssumption
  <2> QED BY <2>1, <2>2, <2>3, <2>5, ContractAccept
<1>2. CASE BounceClosed(p) /\ UNCHANGED <<planned, schedVars>>
  <2>1. msg[p] \in Message /\ msg[p].req /\ mark = NullPtr /\ replies[msg[p]] = 0
    <3>1. msg[p] \in Message /\ pc[p] = "bounce" /\ msg[p].src = p
      BY <1>0, <1>2 DEF BounceClosed, MailboxTypeOK, MailInv, PendingInv
    <3>2. ~ Accepted(msg[p])
      BY <3>1 DEF Accepted
    <3> QED BY <3>1, <3>2 DEF MailInv, PendingInv, ReplyInv
  <2>2. UNCHANGED <<mark, Inbox, cache>>
    BY <1>2 DEF BounceClosed, Inbox
  <2>3. Mode = "dead" /\ Mode' = "dead"
    BY <1>0, <2>1, <2>2 DEF ModeIs
  <2>4. ReplyTo({msg[p]})
    <3>1. \A m \in Message : m \in {msg[p]} <=> m \in {msg[p]} /\ m.req
      BY <2>1
    <3> QED BY <1>2, <3>1 DEF BounceClosed, sync_request_bouncer, ReplyTo
  <2> QED BY <2>1, <2>2, <2>3, <2>4, ContractReject
<1>3. CASE \/ /\ EnqueueLoad(p) \/ EnqueueRetry(p) \/ EnqueueClosed(p)
              /\ UNCHANGED schedVars
           \/ ExecLater(p)
  <2>1. UNCHANGED <<stack, mark, head, cache, replies, launched, wpc>>
    BY <1>3 DEF EnqueueLoad, EnqueueRetry, EnqueueClosed, ExecLater, Woken
  <2>2. UNCHANGED <<Inbox, Mode>>
    BY <2>1 DEF Inbox, Mode, closed, blocked, Top, Runner
  <2> QED BY <2>1, <2>2, ContractStutter
<1> QED BY <1>1, <1>2, <1>3 DEF SenderStep, Enqueue

(* A worker that runs the actor, before and after a step.                   *)
LEMMA RunningMode ==
  ASSUME TypeOK, OwnerInv, TypeOK', OwnerInv', NEW w \in Worker, wpc[w] \notin {"idle", "exit"},
         launched' = launched, wpc' = [wpc EXCEPT ![w] = wpc'[w]]
  PROVE  /\ Mode = "running"
         /\ mark' = EmptyDummy => Mode' \in {"running", "ready"}
         /\ mark' = EmptyDummy /\ wpc'[w] # "idle" => Mode' = "running"
         /\ mark' = EmptyDummy /\ wpc'[w] = "idle" => Mode' = "ready"
         /\ mark' = BlockedDummy => Mode' = "waiting"
         /\ mark' = NullPtr => Mode' = "dead"
         /\ mark = EmptyDummy
<1>1. RunBy(w)
  BY RunnerOwns
<1>2. ModeIs /\ ModeIs'
  BY ModeFacts, ModeFactsNext
<1>3. Runner = {w} /\ launched /\ mark = EmptyDummy
  BY <1>1 DEF RunBy, Runner
<1>4. Runner' = IF wpc'[w] = "idle" THEN {} ELSE {w}
  BY <1>1 DEF RunBy, Runner, TypeOK
<1> QED BY <1>2, <1>3, <1>4 DEF ModeIs

(* A worker's step is one of the contract's, or is not seen.                *)
LEMMA WorkerRefines ==
  ASSUME TypeOK, OwnerInv, MailInv, TypeOK', OwnerInv', NEW w \in Worker, WorkerStep(w)
  PROVE  [Contract!Next]_(Contract!vars)
<1> USE DEF queueVars, senderVars, mailboxVars, schedVars, workerVars, replyVars, history, Goto
<1>0. ModeIs /\ ModeIs' /\ MailboxTypeOK /\ QueueTypeOK /\ MarkInv /\ wpc \in [Worker -> WorkerPc]
  BY ModeFacts, ModeFactsNext DEF TypeOK, MailboxTypeOK, OwnerInv
<1>1. CASE Resume(w)
  <2>1. UNCHANGED <<stack, mark, head, cache, replies, launched>> /\ jobs > 0 /\ wpc'[w] # "idle"
    BY <1>0, <1>1 DEF Resume, PlanExit
  <2>2. Runner = {} /\ mark = EmptyDummy /\ launched
    BY <1>0, <2>1 DEF OwnerInv, OneOwner, NobodyOwns, TypeOK, QueueTypeOK, Mark
  <2>3. Mode = "ready" /\ Mode' = "running"
    BY <1>0, <2>1, <2>2 DEF ModeIs, Runner
  <2> QED BY <2>1, <2>3, ContractModeChange DEF Inbox
<1>2. CASE LoadStack(w) \/ FetchRetry(w) \/ CacheDone(w) \/ TryBlockFails(w) \/ ThroughputReached(w)
  <2>1. /\ UNCHANGED <<stack, mark, head, cache, replies, launched>>
        /\ wpc[w] \notin {"idle", "exit"} /\ wpc'[w] # "idle" /\ wpc' = [wpc EXCEPT ![w] = wpc'[w]]
    BY <1>0, <1>2 DEF LoadStack, FetchRetry, CacheDone, TryBlockFails, ThroughputReached
  <2>2. Mode' = Mode
    BY <2>1, RunningMode
  <2> QED BY <2>1, <2>2, ContractStutter DEF Inbox
<1>3. CASE FetchCas(w)
  <2>1. /\ UNCHANGED <<cache, replies, launched>> /\ mark' = EmptyDummy
        /\ wpc[w] = "fetch" /\ wpc'[w] = "loop" /\ wpc' = [wpc EXCEPT ![w] = wpc'[w]]
    BY <1>0, <1>3 DEF FetchCas, FetchNewData, Detach
  <2>2. Inbox' = Inbox
    BY <1>0, <1>3, <2>1, FetchInbox DEF FetchCas, OwnerInv
  <2>3. Mode' = Mode
    BY <2>1, RunningMode
  <2> QED BY <2>1, <2>2, <2>3, ContractStutter
<1>4. CASE InvokeSuccess(w) \/ InvokeFails(w) \/ InvokeThrows(w)
  <2>1. TakeHead /\ UNCHANGED <<launched, mark>>
    BY <1>4 DEF InvokeSuccess, InvokeFails, InvokeThrows, HandleHead, SkipHead, DropHead, ThrowHead,
       TakeHead, AfterThrow
  <2>2. wpc[w] = "loop" /\ wpc' = [wpc EXCEPT ![w] = wpc'[w]]
    BY <1>0, <1>4 DEF InvokeSuccess, InvokeFails, InvokeThrows, AfterThrow
  <2>3. Mode = "running" /\ Mode' \in {"running", "ready"}
    BY <2>1, <2>2, RunningMode
  <2>4. Inbox # <<>> /\ Inbox[1] = head[1] /\ head[1] \in Message /\ Inbox' = Tail(Inbox)
    BY <1>0, <2>1, TakeInbox
  <2>5. CASE HandleHead \/ DropHead
    <3>1. ReplyTo({head[1]}) /\ UNCHANGED cache
      BY <1>0, <2>4, <2>5, AnswerReplies DEF HandleHead, DropHead
    <3> QED BY <2>3, <2>4, <3>1, ContractConsume
  <2>6. CASE SkipHead
    <3>1. UNCHANGED replies /\ ToSet(cache)' = ToSet(cache) \cup {head[1]}
      BY <1>0, <2>4, <2>6, AppendToSet DEF SkipHead, QueueTypeOK
    <3> QED BY <2>3, <2>4, <3>1, ContractConsume
  <2>7. CASE ThrowHead
    BY <2>3, <2>4, <2>7, ContractConsume DEF ThrowHead, Throw
  <2> QED BY <1>4, <2>5, <2>6, <2>7 DEF InvokeSuccess, InvokeFails, InvokeThrows
<1>5. CASE CacheSuccess(w) \/ CacheThrows(w)
  <2>1. PICK i \in DOMAIN cache :
          /\ cache' = CacheWithout(i)
          /\ (Answer(cache[i]) /\ CacheSuccess(w)) \/ (Throw(cache[i]) /\ CacheThrows(w))
    BY <1>5 DEF CacheSuccess, CacheThrows, InvokeFromCache, ThrowFromCache
  <2>2. UNCHANGED <<stack, mark, head, senderVars, history, launched>> /\ wpc[w] = "cache"
        /\ wpc' = [wpc EXCEPT ![w] = wpc'[w]]
    BY <1>0, <1>5 DEF CacheSuccess, CacheThrows, InvokeFromCache, ThrowFromCache, AfterThrow
  <2>3. cache[i] \in Message /\ cache[i] \in ToSet(cache)
    BY <1>0, <2>1 DEF QueueTypeOK, ToSet
  <2>4. (ReplyTo({cache[i]}) /\ CacheSuccess(w)) \/ (UNCHANGED replies /\ CacheThrows(w))
    BY <1>0, <2>1, <2>3, AnswerReplies DEF Throw
  <2>5. \A m \in Message : replies'[m] # replies[m] => m = cache[i]
    BY <2>4 DEF ReplyTo
  <2>6. ToSet(cache)' = ToSet(cache) \ {cache[i]}
    <3>1. cache' = CacheWithout(i)
      BY <2>1
    <3>2. MailboxTypeOK
      BY <1>0
    <3> QED BY <2>2, <2>5, <3>1, <3>2, CacheMail
  <2>7. Mode = "running" /\ Mode' \in {"running", "ready"} /\ (CacheSuccess(w) => Mode' = "running")
    <3>1. CacheSuccess(w) => wpc'[w] # "idle"
      BY <1>0 DEF CacheSuccess, AfterSuccess
    <3> QED BY <2>2, <3>1, RunningMode
  <2>8. Inbox' = Inbox
    BY <2>2 DEF Inbox
  <2> QED BY <2>3, <2>4, <2>6, <2>7, <2>8, ContractUnstash
<1>6. CASE TryBlock(w)
  <2>1. /\ wpc[w] \in {"block", "last_block"} /\ wpc' = [wpc EXCEPT ![w] = wpc'[w]]
        /\ UNCHANGED <<launched, cache, replies, stack, head>> /\ mark' = BlockedDummy
    <3>1. wpc[w] \in {"block", "last_block"} /\ UNCHANGED <<launched, replies>> /\ try_block
          /\ wpc' = [wpc EXCEPT ![w] = wpc'[w]]
      BY <1>0, <1>6 DEF TryBlock, try_block
    <3> QED BY <1>0, <3>1, TopFacts DEF try_block, Block
  <2>2. head = <<>> /\ stack = <<>>
    BY <1>0, <1>6, <2>1, TopFacts, QueueAssumption
       DEF OwnerInv, TryBlock, try_block, Block, MarkInv, QueueAssumption
  <2>3. Mode = "running" /\ Mode' = "waiting"
    BY <2>1, RunningMode
  <2>4. Inbox = <<>> /\ Inbox' = Inbox
    BY <2>1, <2>2 DEF Inbox, Reverse
  <2> QED BY <2>1, <2>3, <2>4, ContractModeChange
<1>7. CASE ResumeLater(w)
  <2>1. /\ wpc[w] \in {"loop", "last_block"} /\ wpc'[w] = "idle" /\ wpc' = [wpc EXCEPT ![w] = wpc'[w]]
        /\ UNCHANGED <<launched, cache, replies, stack, head, mark>>
    BY <1>0, <1>7 DEF ResumeLater
  <2>2. Mode = "running" /\ Mode' = "ready"
    BY <2>1, RunningMode
  <2> QED BY <2>1, <2>2, ContractModeChange DEF Inbox
<1>8. CASE CloseClear(w)
  <2>1. /\ wpc[w] = "clear" /\ wpc'[w] = "close" /\ wpc' = [wpc EXCEPT ![w] = wpc'[w]]
        /\ UNCHANGED <<launched, cache, mark>> /\ CloseHead
    BY <1>0, <1>8 DEF CloseClear, CloseHead
  <2>2. Mode = "running" /\ Mode' = "running"
    BY <2>1, RunningMode
  <2>3. CASE head = <<>>
    BY <1>0, <2>1, <2>2, <2>3, CloseHeadInbox, ContractStutter
  <2>4. CASE head # <<>>
    BY <1>0, <2>1, <2>2, <2>4, CloseHeadInbox, ContractFlush
  <2> QED BY <2>3, <2>4
<1>9. CASE CloseCas(w)
  <2>1. /\ wpc[w] = "close" /\ wpc' = [wpc EXCEPT ![w] = wpc'[w]]
        /\ UNCHANGED launched /\ mark' = NullPtr /\ CloseStack /\ head = <<>>
    BY <1>0, <1>9 DEF CloseCas, CloseStack, Detach, OwnerInv
  <2>2. Mode = "running" /\ Mode' = "dead"
    BY <2>1, RunningMode
  <2> QED BY <1>0, <2>1, <2>2, CloseStackInbox, ContractDie
<1>10. CASE SetExitReason(w)
  <2>1. UNCHANGED <<stack, mark, head, cache, replies>> /\ mark = NullPtr
    BY <1>10 DEF SetExitReason, PublishExitReason, OwnerInv
  <2>2. Mode = "dead" /\ Mode' = "dead"
    BY <1>0, <2>1 DEF ModeIs
  <2> QED BY <2>1, <2>2, ContractStutter DEF Inbox
<1> QED BY <1>1, <1>2, <1>3, <1>4, <1>5, <1>6, <1>7, <1>8, <1>9, <1>10 DEF WorkerStep

(* The protocol implements what the runtime promises to the code of an      *)
(* actor and to those who send to it; see ActorContract.                    *)
THEOREM ActorKeepsContract == Spec => ImplementsContract
<1>1. Init => Contract!Init
  <2> SUFFICES ASSUME Init PROVE Contract!Init
    OBVIOUS
  <2>1. head \o Reverse(stack) = <<>> /\ ToSet(cache) = {} /\ ~ launched
    BY DEF Init, MailboxInit, QueueInit, Reverse, ToSet
  <2>2. Mode = "unborn"
    BY <2>1 DEF Mode
  <2> QED BY <2>1, <2>2 DEF Init, MailboxInit, Contract!Init
<1>2. TypeOK /\ OwnerInv /\ MailInv /\ TypeOK' /\ OwnerInv' /\ [Next]_vars => [Contract!Next]_(Contract!vars)
  <2> SUFFICES ASSUME TypeOK, OwnerInv, MailInv, TypeOK', OwnerInv', [Next]_vars
               PROVE  [Contract!Next]_(Contract!vars)
    OBVIOUS
  <2> USE DEF queueVars, senderVars, mailboxVars, schedVars, workerVars, replyVars, history
  <2>0. ModeIs /\ ModeIs' /\ MailboxTypeOK /\ QueueTypeOK /\ MarkInv
    BY ModeFacts, ModeFactsNext DEF TypeOK, MailboxTypeOK, OwnerInv
  <2>1. CASE \E p \in Sender : SenderStep(p)
    BY <2>1, SenderRefines
  <2>2. CASE \E w \in Worker : WorkerStep(w)
    BY <2>2, WorkerRefines
  <2>3. CASE LaunchLazy
    <3>1. mark = EmptyDummy /\ head = <<>> /\ Mode = "unborn"
      BY <2>0, <2>3 DEF LaunchLazy, OwnerInv, ModeIs
    <3>2. mark' = BlockedDummy /\ stack = <<>> /\ UNCHANGED <<stack, head, cache, replies>>
      BY <2>0, <2>3, <3>1, TopFacts, QueueAssumption DEF LaunchLazy, try_block, Block,
         QueueAssumption
    <3>3. Mode' = "waiting" /\ Inbox = <<>> /\ Inbox' = Inbox
      BY <2>0, <3>1, <3>2 DEF ModeIs, Inbox, Reverse
    <3> QED BY <3>1, <3>2, <3>3, ContractModeChange
  <2>4. CASE LaunchNow
    <3>1. UNCHANGED <<stack, head, mark, cache, replies, wpc>> /\ launched' /\ ~ launched
      BY <2>4 DEF LaunchNow
    <3>2. mark = EmptyDummy /\ Runner = {} /\ Mode = "unborn"
      BY <2>0, <3>1 DEF OwnerInv, NobodyOwns, ModeIs
    <3>3. Mode' = "ready"
      BY <2>0, <3>1, <3>2 DEF ModeIs, Runner
    <3>4. UNCHANGED <<Inbox, cache, replies>>
      BY <3>1 DEF Inbox
    <3> QED BY <3>2, <3>3, <3>4, ContractModeChange
  <2>5. CASE UNCHANGED vars
    BY <2>5, ContractStutter DEF vars, Inbox, Mode, closed, blocked, Top, Runner
  <2> QED BY <2>1, <2>2, <2>3, <2>4, <2>5 DEF Next, Quiescent
<1> QED BY <1>1, <1>2, TypeCorrect, OwnerInvariant, MailAccounted, PTL
        DEF Spec, ImplementsContract, Contract!Spec
=============================================================================
