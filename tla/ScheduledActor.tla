--------------------------- MODULE ScheduledActor ---------------------------
(***************************************************************************)
(* A cooperatively scheduled, event-based actor: local_actor::launch and   *)
(* local_actor::resume of src/local_actor.cpp, the latter called by the    *)
(* workers of scheduler/worker.hpp.                                        *)
(*                                                                         *)
(* Nothing but the mailbox decides who runs the actor: a sender schedules  *)
(* it exactly if its push replaced the blocked dummy, and a worker that    *)
(* gives it up either plants that dummy or puts the actor back into a job  *)
(* queue.  No lock guards the actor's state, so the whole runtime rests on *)
(* this protocol keeping every actor in at most one pair of hands, and in  *)
(* at least one as long as it has mail.                                    *)
(*                                                                         *)
(* The scheduler's queues are abstracted to a count of the entries that    *)
(* hold this actor.                                                        *)
(***************************************************************************)
EXTENDS ActorMailbox

CONSTANTS Worker,        \* threads of the scheduler
          MaxThroughput  \* messages an actor may process per resume

ASSUME ThroughputAssumption == MaxThroughput \in Nat \ {0}

VARIABLES
  jobs,        \* entries of the scheduler's queues holding this actor
  launched,    \* local_actor::launch has run
  initialized, \* is_initialized()
  wpc,         \* where each worker is in local_actor::resume
  we,          \* the local variable e of fetch_new_data
  handled      \* the loop counter i of resume

workerVars == <<wpc, we, handled>>
schedVars  == <<jobs, launched, initialized, workerVars>>
vars == <<mailboxVars, schedVars>>

WorkerPc == {"idle", "loop", "fetch", "block", "last_block", "cache",
             "clear", "close", "exit"}

(* unblocked_reader: exec_later of the sender's execution unit, or enqueue  *)
(* of the coordinator.                                                      *)
ExecLater(p) ==
  /\ Woken(p)
  /\ jobs' = jobs + 1
  /\ UNCHANGED <<launched, initialized, workerVars>>

(* local_actor::launch: an actor spawned with lazy_init that has no mail    *)
(* yet starts out blocked; any other is scheduled.  Messages may arrive     *)
(* before the launch, because initialisation code can hand out the address. *)
LaunchLazy ==
  /\ ~ launched
  /\ launched' = TRUE
  /\ try_block
  /\ UNCHANGED <<jobs, initialized, workerVars>>

LaunchNow ==
  /\ ~ launched
  /\ launched' = TRUE
  /\ jobs' = jobs + 1
  /\ UNCHANGED <<mailboxVars, initialized, workerVars>>

-----------------------------------------------------------------------------
(* Workers: worker::run calling local_actor::resume.                        *)

Goto(w, label) == wpc' = [wpc EXCEPT ![w] = label]

NextIteration(w) == handled' = [handled EXCEPT ![w] = @ + 1]

(* Take a job off the queue and enter resume.  The first resume calls       *)
(* initialize(), after which the actor may already be done.                 *)
Resume(w) ==
  /\ wpc[w] = "idle"
  /\ jobs > 0
  /\ jobs' = jobs - 1
  /\ handled' = [handled EXCEPT ![w] = 0]
  /\ initialized' = TRUE
  /\ IF initialized THEN UNCHANGED mailboxVars ELSE PlanExit
  /\ Goto(w, IF planned' = NotExited THEN "loop" ELSE "clear")
  /\ UNCHANGED <<we, launched>>

(* take_head with an empty head_: fetch_new_data loads stack_; the empty    *)
(* dummy means there is no message.                                         *)
LoadStack(w) ==
  /\ wpc[w] = "loop"
  /\ handled[w] < MaxThroughput
  /\ head = <<>>
  /\ we' = [we EXCEPT ![w] = Top]
  /\ Goto(w, IF Top = EmptyDummy THEN "block" ELSE "fetch")
  /\ UNCHANGED <<mailboxVars, jobs, launched, initialized, handled>>

FetchCas(w) ==
  /\ wpc[w] = "fetch"
  /\ we[w] = Top
  /\ FetchNewData
  /\ Goto(w, "loop")
  /\ UNCHANGED <<jobs, launched, initialized, we, handled>>

(* A failed compare-and-swap reloads e, in resume's fetch as in cleanup's.  *)
FetchRetry(w) ==
  /\ wpc[w] \in {"fetch", "close"}
  /\ we[w] # Top
  /\ we' = [we EXCEPT ![w] = Top]
  /\ UNCHANGED <<mailboxVars, jobs, launched, initialized, wpc, handled>>

(* actor_done(), tested after every success.                                *)
AfterSuccess == IF planned' = NotExited THEN "cache" ELSE "clear"

(* next_message() returned an element and invoke_message handled it ...     *)
InvokeSuccess(w) ==
  /\ wpc[w] = "loop" /\ handled[w] < MaxThroughput
  /\ HandleHead
  /\ Goto(w, AfterSuccess)
  /\ UNCHANGED <<jobs, launched, initialized, we, handled>>

(* ... or skipped or dropped it ...                                         *)
InvokeFails(w) ==
  /\ wpc[w] = "loop" /\ handled[w] < MaxThroughput
  /\ SkipHead \/ DropHead
  /\ NextIteration(w)
  /\ UNCHANGED <<jobs, launched, initialized, wpc, we>>

(* ... or threw: an actor that was "revived" is resumed later.              *)
AfterThrow(w) ==
  /\ Goto(w, IF planned' = NotExited THEN "idle" ELSE "clear")
  /\ jobs' = IF planned' = NotExited THEN jobs + 1 ELSE jobs
  /\ UNCHANGED <<launched, initialized, we, handled>>

InvokeThrows(w) ==
  /\ wpc[w] = "loop" /\ handled[w] < MaxThroughput
  /\ ThrowHead
  /\ AfterThrow(w)

(* After a success: while (invoke_from_cache()).                            *)
CacheSuccess(w) ==
  /\ wpc[w] = "cache"
  /\ InvokeFromCache
  /\ Goto(w, AfterSuccess)
  /\ UNCHANGED <<jobs, launched, initialized, we, handled>>

CacheThrows(w) ==
  /\ wpc[w] = "cache"
  /\ ThrowFromCache
  /\ AfterThrow(w)

CacheDone(w) ==
  /\ wpc[w] = "cache"
  /\ NextIteration(w)
  /\ Goto(w, "loop")
  /\ UNCHANGED <<mailboxVars, jobs, launched, initialized, we>>

(* No element in the mailbox: success returns awaiting_message.             *)
TryBlock(w) ==
  /\ wpc[w] \in {"block", "last_block"}
  /\ try_block
  /\ Goto(w, "idle")
  /\ UNCHANGED <<jobs, launched, initialized, we, handled>>

(* try_block() interrupted by a new message.                                *)
TryBlockFails(w) ==
  /\ wpc[w] = "block"
  /\ ~ is_dummy(Top)
  /\ NextIteration(w)
  /\ Goto(w, "loop")
  /\ UNCHANGED <<mailboxVars, jobs, launched, initialized, we>>

HasNextIgnoresHead == ~ is_dummy(Top)
has_next_message == can_fetch_more

(* max_throughput is reached: without a next message try to block once.     *)
ThroughputReached(w) ==
  /\ wpc[w] = "loop"
  /\ handled[w] = MaxThroughput
  /\ ~ has_next_message
  /\ Goto(w, "last_block")
  /\ UNCHANGED <<mailboxVars, jobs, launched, initialized, we, handled>>

(* resume_later: worker::run puts the actor back into its queue.            *)
ResumeLater(w) ==
  /\ \/ wpc[w] = "loop" /\ handled[w] = MaxThroughput /\ has_next_message
     \/ wpc[w] = "last_block" /\ ~ is_dummy(Top)
  /\ Goto(w, "idle")
  /\ jobs' = jobs + 1
  /\ UNCHANGED <<mailboxVars, launched, initialized, we, handled>>

(* cleanup: clear_cached_elements, then fetch_new_data loads stack_.        *)
CloseClear(w) ==
  /\ wpc[w] = "clear"
  /\ CloseHead
  /\ we' = [we EXCEPT ![w] = Top]
  /\ Goto(w, "close")
  /\ UNCHANGED <<jobs, launched, initialized, handled>>

CloseCas(w) ==
  /\ wpc[w] = "close"
  /\ we[w] = Top
  /\ CloseStack
  /\ Goto(w, "exit")
  /\ UNCHANGED <<jobs, launched, initialized, we, handled>>

(* resume returns done and the worker drops its reference.                  *)
SetExitReason(w) ==
  /\ wpc[w] = "exit"
  /\ PublishExitReason
  /\ Goto(w, "idle")
  /\ UNCHANGED <<jobs, launched, initialized, we, handled>>

-----------------------------------------------------------------------------
Init ==
  /\ MailboxInit
  /\ jobs = 0
  /\ launched = FALSE
  /\ initialized = FALSE
  /\ wpc = [w \in Worker |-> "idle"]
  /\ we = [w \in Worker |-> NullPtr]
  /\ handled = [w \in Worker |-> 0]

SenderStep(p) ==
  \/ Enqueue(p) /\ UNCHANGED schedVars
  \/ ExecLater(p)

WorkerStep(w) ==
  \/ Resume(w) \/ LoadStack(w) \/ FetchCas(w) \/ FetchRetry(w)
  \/ InvokeSuccess(w) \/ InvokeFails(w) \/ InvokeThrows(w)
  \/ CacheSuccess(w) \/ CacheThrows(w) \/ CacheDone(w)
  \/ TryBlock(w) \/ TryBlockFails(w) \/ ThroughputReached(w) \/ ResumeLater(w)
  \/ CloseClear(w) \/ CloseCas(w) \/ SetExitReason(w)

(* Everybody has done everything there is to do: the actor is dead, or it   *)
(* waits with an empty mailbox.  Any other state without a successor is a   *)
(* deadlock.                                                                *)
Quiescent ==
  /\ launched /\ jobs = 0
  /\ \A p \in Sender : pc[p] = "idle" /\ sent[p] = MaxSends
  /\ \A w \in Worker : wpc[w] = "idle"
  /\ (blocked /\ head = <<>>) \/ closed
  /\ UNCHANGED vars

Next ==
  \/ LaunchLazy \/ LaunchNow
  \/ \E p \in Sender : SenderStep(p)
  \/ \E w \in Worker : WorkerStep(w)
  \/ Quiescent

(* Threads are never descheduled for ever and a handler returns.  Sending   *)
(* is the choice of the sender: no fairness makes it create a message.      *)
Fairness ==
  /\ WF_vars(LaunchLazy \/ LaunchNow)
  /\ \A p \in Sender : WF_vars(pc[p] # "idle" /\ SenderStep(p))
  /\ \A w \in Worker : WF_vars(WorkerStep(w))

Spec == Init /\ [][Next]_vars /\ Fairness
-----------------------------------------------------------------------------
(* Properties.                                                              *)

(* Type correctness of the mailbox, the job count and the workers of resume. *)
TypeOK ==
  /\ MailboxTypeOK
  /\ jobs \in Nat
  /\ launched \in BOOLEAN
  /\ initialized \in BOOLEAN
  /\ wpc \in [Worker -> WorkerPc]
  /\ we \in [Worker -> Pointer]
  /\ handled \in [Worker -> Nat]

Runner == {w \in Worker : wpc[w] # "idle"}
Waker  == {p \in Sender : pc[p] = "wake"}

(* The actor is in at most one pair of hands: no two workers ever execute   *)
(* it, it is never queued twice, never queued while it runs, and no sender  *)
(* is about to queue it in either case.  Nothing else serialises access to  *)
(* an actor's state in local_actor::resume.                                 *)
OneOwner ==
  /\ jobs <= 1
  /\ \A v, w \in Runner : v = w
  /\ \A p, q \in Waker : p = q
  /\ jobs = 1 => Runner = {} /\ Waker = {}
  /\ Runner = {} \/ Waker = {}

(* No wake-up is lost: a launched actor that is alive and that nobody holds *)
(* waits behind the blocked dummy, so that the next sender schedules it,    *)
(* and it has no fetched message left over.                                 *)
NeverAbandoned ==
  launched /\ jobs = 0 /\ Runner = {} /\ Waker = {} =>
    \/ blocked /\ head = <<>>
    \/ closed /\ exit_reason # NotExited

(* The assertions of the reader's code hold: fetch_new_data never sees a    *)
(* blocked or closed queue, and resume is never entered by an actor that    *)
(* already has an exit reason.                                              *)
ReaderAsserts ==
  /\ \A w \in Runner : wpc[w] # "exit" => ~ blocked /\ ~ closed
  /\ \A w \in Worker : wpc[w] \in {"fetch", "close"} => we[w] \notin {BlockedDummy, NullPtr}
  /\ jobs > 0 /\ initialized => planned = NotExited

(* The inductive strengthening of OneOwner, NeverAbandoned and              *)
(* ReaderAsserts.  The value of stack_ and the owner determine each other:  *)
(* the blocked dummy stands for "nobody", null for "dead or dying", and     *)
(* everything else for exactly one owner.                                   *)
NobodyOwns == jobs = 0 /\ Runner = {} /\ Waker = {}

Dying == {"clear", "close", "exit"}

OwnerInv ==
  /\ MarkInv
  /\ OneOwner
  /\ ~ launched => NobodyOwns /\ mark = EmptyDummy /\ exit_reason = NotExited
                   /\ ~ initialized /\ planned = NotExited /\ head = <<>>
  /\ mark = BlockedDummy => NobodyOwns /\ head = <<>>
  /\ mark = NullPtr => jobs = 0 /\ Waker = {} /\ \A w \in Runner : wpc[w] = "exit"
  /\ launched /\ NobodyOwns => \/ mark = BlockedDummy
                               \/ mark = NullPtr /\ exit_reason # NotExited
  /\ \A w \in Worker :
       /\ wpc[w] = "exit" => mark = NullPtr
       /\ wpc[w] \in {"fetch", "close"} => we[w] \notin {BlockedDummy, NullPtr}
       /\ wpc[w] \in {"fetch", "block", "last_block", "close"} => head = <<>>
       /\ wpc[w] \in Dying => planned # NotExited
  /\ planned # NotExited => mark = NullPtr \/ \E w \in Worker : wpc[w] \in Dying

-----------------------------------------------------------------------------
(* Refinement: to its environment the actor is an ActorContract.            *)
Mode ==
  CASE ~ launched -> "unborn"
    [] launched /\ closed -> "dead"
    [] launched /\ blocked -> "waiting"
    [] OTHER -> IF Runner # {} THEN "running" ELSE "ready"

Contract == INSTANCE ActorContract WITH
  inbox <- head \o Reverse(stack), stash <- ToSet(cache), mode <- Mode, replied <- replies

ImplementsContract == Contract!Spec
=============================================================================
