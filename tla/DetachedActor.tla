---------------------------- MODULE DetachedActor ----------------------------
(***************************************************************************)
(* An actor with a thread of its own: the lambda started by                *)
(* local_actor::launch, local_actor::await_data, synchronized_enqueue and  *)
(* the two synchronized_await of single_reader_queue.hpp.  The thread runs *)
(* one of three programs:                                                  *)
(*   event     local_actor::resume without a throughput limit              *)
(*   blocking  the actor's act(), which calls blocking_actor::dequeue      *)
(*   timer     timer_actor::act of abstract_coordinator.cpp, the only user *)
(*             of the wait with a time limit                               *)
(*                                                                         *)
(* The mailbox itself is lock-free; the mutex mtx_ and the condition       *)
(* variable cv_ are only used to sleep and to be woken.  Condition         *)
(* variables may wake up spuriously.                                       *)
(***************************************************************************)
EXTENDS ActorMailbox

CONSTANTS UnhandledException, \* exit_reason::unhandled_exception
          Free                \* nobody holds mtx_

ASSUME DetachedAssumption ==
  /\ UnhandledException \in Reason
  /\ Free \notin Sender /\ Self \notin Sender /\ Self # Free

VARIABLES
  kind,       \* which program the thread runs
  rpc,        \* where it is
  re,         \* the local variable e of fetch_new_data
  delayed,    \* how many messages the timer has to deliver later
  mtx,        \* who holds mtx_
  signalled,  \* cv_ was notified while the thread slept
  crashed     \* act() ended in an exception that nobody handled

threadVars == <<kind, rpc, re, delayed, mtx, signalled, crashed>>
vars == <<mailboxVars, threadVars>>

Kinds == {"event", "blocking", "timer"}

ThreadPc == {"unborn", "start", "loop", "cache", "block", "act", "due", "pop", "fetch", "null",
             "has_next", "can_fetch", "await_block", "lock", "check", "cv_wait",
             "asleep", "relock", "timeout", "timed_out",
             "clear", "close", "exit", "done"}

-----------------------------------------------------------------------------
(* Senders: synchronized_enqueue notifies the condition variable while it   *)
(* holds the mutex.                                                         *)

NotifyLock(p) ==
  /\ pc[p] = "wake"
  /\ mtx = Free
  /\ mtx' = p
  /\ UNCHANGED <<mailboxVars, kind, rpc, re, delayed, signalled, crashed>>

MayNotifyUnlocked(p) == TRUE
MayNotify(p) == mtx = p

NotifyOne(p) ==
  /\ MayNotify(p)
  /\ Woken(p)
  /\ signalled' = (signalled \/ rpc = "asleep")
  /\ mtx' = IF mtx = p THEN Free ELSE mtx
  /\ UNCHANGED <<kind, rpc, re, delayed, crashed>>

-----------------------------------------------------------------------------
(* The thread.                                                              *)

Goto(label) == rpc' = label

OnlyRpc == UNCHANGED <<kind, re, delayed, mtx, signalled, crashed>>

(* local_actor::launch starts the thread.                                   *)
Launch ==
  /\ rpc = "unborn"
  /\ Goto("start")
  /\ OnlyRpc /\ UNCHANGED mailboxVars

(* The first resume of an event-based actor calls initialize().             *)
Initialize ==
  /\ rpc = "start" /\ kind = "event"
  /\ PlanExit
  /\ Goto(IF planned' = NotExited THEN "loop" ELSE "clear")
  /\ OnlyRpc

(* That of the other kinds calls act().                                     *)
Act ==
  /\ rpc = "start" /\ kind # "event"
  /\ Goto("act")
  /\ OnlyRpc /\ UNCHANGED mailboxVars

(* take_head with an empty head_: fetch_new_data loads stack_.  The empty   *)
(* dummy means there is no message: resume tries to block, but the other    *)
(* programs count on a message here and invoke_message asserts that it has  *)
(* one.                                                                     *)
LoadStack ==
  /\ rpc \in {"loop", "pop"}
  /\ head = <<>>
  /\ re' = Top
  /\ Goto(CASE Top # EmptyDummy -> "fetch"
            [] Top = EmptyDummy /\ rpc = "loop" -> "block"
            [] OTHER -> "null")
  /\ UNCHANGED <<mailboxVars, kind, delayed, mtx, signalled, crashed>>

FetchCas ==
  /\ rpc = "fetch"
  /\ re = Top
  /\ FetchNewData
  /\ Goto(IF kind = "event" THEN "loop" ELSE "pop")
  /\ OnlyRpc

FetchRetry ==
  /\ rpc \in {"fetch", "close"}
  /\ re # Top
  /\ re' = Top
  /\ UNCHANGED <<mailboxVars, kind, rpc, delayed, mtx, signalled, crashed>>

(* The loop of resume; an actor that is "revived" after an exception waits  *)
(* for data.                                                                *)
AfterSuccess == IF planned' = NotExited THEN "cache" ELSE "clear"
AfterThrow   == IF planned' = NotExited THEN "has_next" ELSE "clear"

EventInvoke ==
  /\ rpc = "loop"
  /\ \/ HandleHead /\ Goto(AfterSuccess)
     \/ (SkipHead \/ DropHead) /\ Goto("loop")
     \/ ThrowHead /\ Goto(AfterThrow)
  /\ OnlyRpc

(* After a success: while (invoke_from_cache()).                            *)
EventCache ==
  /\ rpc = "cache"
  /\ \/ InvokeFromCache /\ Goto(AfterSuccess)
     \/ ThrowFromCache /\ Goto(AfterThrow)
     \/ Goto("loop") /\ UNCHANGED mailboxVars
  /\ OnlyRpc

(* resume returns awaiting_message and the thread calls await_data.         *)
AfterBlock == "has_next"

EventBlock ==
  /\ rpc = "block"
  /\ \/ try_block /\ Goto(AfterBlock)
     \/ ~ is_dummy(Top) /\ Goto("loop") /\ UNCHANGED mailboxVars
  /\ OnlyRpc

(* act() of a blocking actor.  quit() throws actor_exited, so a handler     *)
(* either returns, leaving the planned exit reason alone, or ends act().    *)
ActReturns ==
  /\ rpc = "act" /\ kind = "blocking"
  /\ planned' \in Reason
  /\ Goto("clear")
  /\ UNCHANGED <<queueVars, senderVars, exit_reason, replyVars, history>>
  /\ OnlyRpc

(* Any other exception: resume uses *handle(eptr) as the exit reason.  The  *)
(* optional is empty unless an attached handler supplied a reason; reading  *)
(* it then yields whatever is in memory.                                    *)
Unhandled ==
  /\ planned' \in Reason \cup {NotExited}
  /\ crashed' \in BOOLEAN
  /\ Goto("clear")
  /\ UNCHANGED <<kind, re, delayed, mtx, signalled>>

ActThrows ==
  /\ rpc = "act" /\ kind = "blocking"
  /\ Unhandled
  /\ UNCHANGED <<queueVars, senderVars, exit_reason, replyVars, history>>

(* blocking_actor::dequeue looks into the cache first.                      *)
DequeueFromCache ==
  /\ rpc = "act" /\ kind = "blocking"
  /\ \/ InvokeFromCache /\ UNCHANGED planned /\ OnlyRpc /\ UNCHANGED rpc
     \/ ThrowFromCache /\ Unhandled

(* dequeue(), or try_dequeue(tp) if the timer has messages to deliver.      *)
Dequeue ==
  /\ rpc = "act"
  /\ Goto("has_next")
  /\ OnlyRpc /\ UNCHANGED mailboxVars

(* The timer delivers what is due, after a timeout at least one message.    *)
TimerDeliver ==
  /\ rpc \in {"act", "due"} /\ kind = "timer"
  /\ delayed > 0
  /\ delayed' \in 0 .. delayed - 1
  /\ Goto("act")
  /\ UNCHANGED <<mailboxVars, kind, re, mtx, signalled, crashed>>

BlockingInvoke ==
  /\ rpc = "pop" /\ kind = "blocking"
  /\ \/ HandleHead /\ UNCHANGED planned /\ Goto("act") /\ OnlyRpc
     \/ (SkipHead \/ DropHead) /\ Goto("has_next") /\ OnlyRpc
     \/ ThrowHead /\ Unhandled

(* The timer applies its handler to the message alone and never replies.    *)
(* The message is one to deliver later, an exit message, or unexpected.     *)
TimerInvoke ==
  /\ rpc = "pop" /\ kind = "timer"
  /\ TakeHead
  /\ lost' = lost \cup Requests(<<head[1]>>)
  /\ \/ Goto("act") /\ UNCHANGED planned /\ delayed' \in {delayed, delayed + 1}
     \/ Goto("clear") /\ planned' = Normal /\ UNCHANGED delayed
  /\ UNCHANGED <<replies, bounces, cache, kind, re, mtx, signalled, crashed>>

-----------------------------------------------------------------------------
(* await_data and synchronized_await.                                       *)

(* The wait is over: resume is entered again, or a message is popped.       *)
AwaitReturns == Goto(IF kind = "event" THEN "loop" ELSE "pop")

(* has_next_message() of await_data ... *)
AwaitHasNext ==
  /\ rpc = "has_next"
  /\ IF can_fetch_more THEN AwaitReturns ELSE Goto("can_fetch")
  /\ OnlyRpc /\ UNCHANGED mailboxVars

(* ... and can_fetch_more() of synchronized_await load stack_ twice.        *)
AwaitCanFetch ==
  /\ rpc = "can_fetch"
  /\ IF can_fetch_more THEN AwaitReturns ELSE Goto("await_block")
  /\ OnlyRpc /\ UNCHANGED mailboxVars

AwaitBlock ==
  /\ rpc = "await_block"
  /\ \/ try_block /\ Goto("lock")
     \/ ~ is_dummy(Top) /\ AwaitReturns /\ UNCHANGED mailboxVars
  /\ OnlyRpc

(* Acquire the mutex, before the first test and after every wake-up.        *)
AwaitLock ==
  /\ rpc \in {"lock", "relock", "timeout"}
  /\ mtx = Free
  /\ mtx' = Self
  /\ Goto(IF rpc = "timeout" THEN "timed_out" ELSE "check")
  /\ UNCHANGED <<mailboxVars, kind, re, delayed, signalled, crashed>>

(* while (blocked())                                                        *)
AwaitCheck ==
  /\ rpc = "check"
  /\ IF blocked THEN Goto("cv_wait") /\ mtx' = mtx ELSE AwaitReturns /\ mtx' = Free
  /\ UNCHANGED <<mailboxVars, kind, re, delayed, signalled, crashed>>

(* cv.wait releases the mutex and sleeps in one step.                       *)
AwaitSleep ==
  /\ rpc = "cv_wait"
  /\ mtx' = Free
  /\ signalled' = FALSE
  /\ Goto("asleep")
  /\ UNCHANGED <<mailboxVars, kind, re, delayed, crashed>>

AwaitNotified ==
  /\ rpc = "asleep"
  /\ signalled
  /\ Goto("relock")
  /\ OnlyRpc /\ UNCHANGED mailboxVars

AwaitSpurious ==
  /\ rpc = "asleep"
  /\ ~ signalled
  /\ Goto("relock")
  /\ OnlyRpc /\ UNCHANGED mailboxVars

AwaitTimeout ==
  /\ rpc = "asleep"
  /\ delayed > 0
  /\ Goto("timeout")
  /\ OnlyRpc /\ UNCHANGED mailboxVars

(* return ! try_unblock(): a message may have arrived at the last moment.   *)
LateMessageAssumed == TRUE
LateMessage == ~ blocked

AwaitTimedOut ==
  /\ rpc = "timed_out"
  /\ mtx' = Free
  /\ IF LateMessage
     THEN AwaitReturns /\ UNCHANGED queueVars
     ELSE Goto("due") /\ Unblock
  /\ UNCHANGED <<senderVars, planned, exit_reason, replyVars, history>>
  /\ UNCHANGED <<kind, re, delayed, signalled, crashed>>

-----------------------------------------------------------------------------
(* local_actor::cleanup.                                                    *)
CloseClear ==
  /\ rpc = "clear"
  /\ CloseHead
  /\ re' = Top
  /\ Goto("close")
  /\ UNCHANGED <<kind, delayed, mtx, signalled, crashed>>

CloseCas ==
  /\ rpc = "close"
  /\ re = Top
  /\ CloseStack
  /\ Goto("exit")
  /\ OnlyRpc

SetExitReason ==
  /\ rpc = "exit"
  /\ PublishExitReason
  /\ Goto("done")
  /\ OnlyRpc

-----------------------------------------------------------------------------
Init ==
  /\ MailboxInit
  /\ kind \in Kinds
  /\ rpc = "unborn"
  /\ re = NullPtr
  /\ delayed = 0
  /\ mtx = Free
  /\ signalled = FALSE
  /\ crashed = FALSE

SenderStep(p) ==
  \/ Enqueue(p) /\ UNCHANGED threadVars
  \/ NotifyLock(p) \/ NotifyOne(p)

ThreadStep ==
  \/ Launch \/ Initialize \/ Act \/ LoadStack \/ FetchCas \/ FetchRetry
  \/ EventInvoke \/ EventCache \/ EventBlock
  \/ ActReturns \/ ActThrows \/ DequeueFromCache \/ Dequeue \/ TimerDeliver
  \/ BlockingInvoke \/ TimerInvoke
  \/ AwaitHasNext \/ AwaitCanFetch \/ AwaitBlock \/ AwaitLock \/ AwaitCheck
  \/ AwaitSleep \/ AwaitNotified \/ AwaitTimeout \/ AwaitTimedOut
  \/ CloseClear \/ CloseCas \/ SetExitReason

(* The thread has ended and nobody is sending.                              *)
Quiescent ==
  /\ rpc = "done"
  /\ \A p \in Sender : pc[p] = "idle"
  /\ UNCHANGED vars

Next ==
  \/ \E p \in Sender : SenderStep(p)
  \/ ThreadStep
  \/ AwaitSpurious
  \/ Quiescent

(* A thread that can go on does; the mutex is free again and again, and a   *)
(* time limit expires.  Nothing promises a spurious wake-up.                *)
Fairness ==
  /\ \A p \in Sender : WF_vars(pc[p] # "idle" /\ SenderStep(p))
  /\ WF_vars(ThreadStep)

Spec == Init /\ [][Next]_vars /\ Fairness
-----------------------------------------------------------------------------
(* Properties.                                                              *)

(* Type correctness of the mailbox and of the thread that runs the actor.  *)
TypeOK ==
  /\ MailboxTypeOK
  /\ kind \in Kinds
  /\ rpc \in ThreadPc
  /\ re \in Pointer
  /\ delayed \in Nat
  /\ mtx \in Sender \cup {Self, Free}
  /\ signalled \in BOOLEAN
  /\ crashed \in BOOLEAN

(* A sleeping thread has been notified, or its mailbox still carries the    *)
(* blocked dummy, or the sender that replaced the dummy is on its way to    *)
(* notify it: testing blocked() and going to sleep cannot miss the          *)
(* notification of synchronized_enqueue.                                    *)
NoLostWakeup ==
  rpc = "asleep" => signalled \/ blocked \/ \E p \in Sender : pc[p] = "wake"

(* When await_data returns there is a message: blocking_actor::dequeue and  *)
(* the timer pop one without asking again, and invoke_message asserts that  *)
(* its argument is not null.  The wait with a time limit must not report a  *)
(* message that is not there either.                                        *)
AwaitDelivers == rpc = "pop" => can_fetch_more

(* The assertions of the reader hold: fetch_new_data never meets a blocked  *)
(* or a closed queue, and launch's thread never enters resume with the      *)
(* blocked dummy in place.                                                  *)
ReaderAsserts ==
  /\ rpc \in {"start", "loop", "cache", "block", "act", "due", "pop", "fetch",
             "clear", "close"} =>
       ~ blocked /\ ~ closed
  /\ rpc \in {"fetch", "close"} => re \notin {BlockedDummy, NullPtr}
  /\ rpc # "null"

AwaitPc == {"has_next", "can_fetch", "await_block", "lock", "check", "cv_wait",
            "asleep", "relock", "timeout", "timed_out"}

(* Refinement: to its environment the actor is an ActorContract.            *)
Mode ==
  CASE rpc = "unborn" -> "unborn"
    [] rpc \in {"exit", "done"} -> "dead"
    [] rpc \in AwaitPc /\ blocked -> "waiting"
    [] rpc = "start" \/ (rpc \in AwaitPc /\ ~ blocked) -> "ready"
    [] OTHER -> "running"

Contract == INSTANCE ActorContract WITH
  inbox <- head \o Reverse(stack), stash <- ToSet(cache), mode <- Mode, replied <- replies

ImplementsContract == Contract!Spec
=============================================================================
