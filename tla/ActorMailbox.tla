---------------------------- MODULE ActorMailbox ----------------------------
(***************************************************************************)
(* Sending to an actor, and what an actor does with its mail: the part of  *)
(* src/local_actor.cpp that is the same however the actor is run.  Every   *)
(* access to the mailbox's atomic stack_ and to the atomic exit_reason_ is *)
(* a step of its own; everything between two such accesses touches only    *)
(* the data of the thread that performs it.                                *)
(*                                                                         *)
(* Abstracted: what a handler does is a free choice among the outcomes of  *)
(* invoke_message.  A handler replies by returning; response promises and  *)
(* forwarded requests are left out, as are timeouts and priorities (the    *)
(* actor is not priority aware).                                           *)
(***************************************************************************)
EXTENDS SingleReaderQueue, FiniteSets

CONSTANTS Reason,     \* exit reasons
          Normal,     \* exit_reason::normal
          NotExited,  \* exit_reason::not_exited
          Self        \* the address of the actor

ASSUME ReasonAssumption ==
  /\ Normal \in Reason
  /\ NotExited \notin Reason

VARIABLES
  pc,          \* where each sender is in local_actor::enqueue
  msg,         \* the element each sender is enqueueing
  e,           \* the local variable e of single_reader_queue::enqueue
  sent,        \* how many messages each sender has created
  planned,     \* planned_exit_reason()
  exit_reason, \* the atomic exit_reason_
  replies,     \* how many replies were sent for each request
  bounces,     \* the sync_exited_msg messages sent
  lost,        \* requests whose handler ended in an exception
  arrivals,    \* history: elements in the order of their successful push
  taken        \* history: elements the reader took out, in that order

senderVars == <<pc, msg, e, sent>>
replyVars  == <<replies, bounces, lost>>
history    == <<arrivals, taken>>
mailboxVars == <<queueVars, senderVars, planned, exit_reason, replyVars, history>>

SenderPc == {"idle", "cas", "wake", "bounce"}

Pointer == Message \cup Mark

Requests(s) == {m \in ToSet(s) : m.req}

(* The constructor of sync_request_bouncer turns not_exited into normal.    *)
bouncer_reason(reason) == IF reason = NotExited THEN Normal ELSE reason

(* sync_request_bouncer::operator(): the message that is sent names the     *)
(* requester as its source.                                                 *)
sync_request_bouncer(reason, reqs) ==
  /\ replies' = [m \in Message |-> IF m \in reqs THEN replies[m] + 1 ELSE replies[m]]
  /\ bounces' = bounces \cup
       {[msg |-> m, source |-> m.src, reason |-> bouncer_reason(reason)] : m \in reqs}
  /\ UNCHANGED lost

(* post_process_invoke_res: a request that was handled is answered.         *)
Answer(m) ==
  /\ replies' = IF m.req THEN [replies EXCEPT ![m] = @ + 1] ELSE replies
  /\ UNCHANGED <<bounces, lost>>

-----------------------------------------------------------------------------
(* Senders: local_actor::enqueue on top of single_reader_queue::enqueue.    *)

(* Create an element and load stack_.                                       *)
EnqueueLoad(p) ==
  /\ pc[p] = "idle"
  /\ sent[p] < MaxSends
  /\ \E r \in BOOLEAN :
       msg' = [msg EXCEPT ![p] = [src |-> p, num |-> sent[p] + 1, req |-> r]]
  /\ sent' = [sent EXCEPT ![p] = @ + 1]
  /\ e' = [e EXCEPT ![p] = Top]
  /\ pc' = [pc EXCEPT ![p] = "cas"]
  /\ UNCHANGED <<queueVars, exit_reason, replyVars, history>>

(* The memory of an element the reader is done with may be handed out again *)
(* for a newer one: comparing addresses cannot tell the two apart.          *)
Recycled(p) ==
  /\ e[p] \in Message \ (ToSet(stack) \cup ToSet(head) \cup ToSet(cache))
  /\ Top \in Message

(* The loaded pointer is null.                                              *)
queue_closed(p) == e[p] = NullPtr

(* Only a push that replaced the blocked dummy obliges the sender to        *)
(* wake the reader.                                                         *)
UnblockedByAnyDummy(p) == is_dummy(e[p])
UnblockedNever(p) == FALSE
unblocked_reader(p) == e[p] = BlockedDummy

(* compare_exchange_strong succeeds.                                        *)
EnqueueCas(p) ==
  /\ pc[p] = "cas"
  /\ ~ queue_closed(p)
  /\ e[p] = Top \/ Recycled(p)
  /\ Push(msg[p])
  /\ arrivals' = Append(arrivals, msg[p])
  /\ pc' = [pc EXCEPT ![p] = IF unblocked_reader(p) THEN "wake" ELSE "idle"]
  /\ UNCHANGED <<msg, e, sent, exit_reason, replyVars, taken>>

(* compare_exchange_strong fails and reloads e.                             *)
EnqueueRetry(p) ==
  /\ pc[p] = "cas"
  /\ ~ queue_closed(p)
  /\ e[p] # Top
  /\ e' = [e EXCEPT ![p] = Top]
  /\ UNCHANGED <<pc, msg, sent, queueVars, exit_reason, replyVars, history>>

(* The value loaded is null: the element is deleted; a request is bounced.  *)
DropsWhenClosed(p) == FALSE
BouncesWhenClosed(p) == msg[p].req

EnqueueClosed(p) ==
  /\ pc[p] = "cas"
  /\ queue_closed(p)
  /\ pc' = [pc EXCEPT ![p] = IF BouncesWhenClosed(p) THEN "bounce" ELSE "idle"]
  /\ UNCHANGED <<msg, e, sent, queueVars, exit_reason, replyVars, history>>

(* queue_closed: sync_request_bouncer{exit_reason()} for a request.         *)
BounceClosed(p) ==
  /\ pc[p] = "bounce"
  /\ sync_request_bouncer(exit_reason, {msg[p]})
  /\ pc' = [pc EXCEPT ![p] = "idle"]
  /\ UNCHANGED <<msg, e, sent, queueVars, exit_reason, history>>

(* unblocked_reader: whatever wakes the reader up is done.                  *)
Woken(p) ==
  /\ pc[p] = "wake"
  /\ pc' = [pc EXCEPT ![p] = "idle"]
  /\ UNCHANGED <<msg, e, sent, queueVars, planned, exit_reason, replyVars, history>>

(* Every step of enqueue but the last one, waking the reader.               *)
Enqueue(p) ==
  /\ \/ EnqueueLoad(p) \/ EnqueueCas(p) \/ EnqueueRetry(p)
     \/ EnqueueClosed(p) \/ BounceClosed(p)
  /\ UNCHANGED planned

-----------------------------------------------------------------------------
(* The reader: what becomes of an element.                                  *)

(* take_head with a non-empty head_.                                        *)
TakeHead ==
  /\ head # <<>>
  /\ head' = Tail(head)
  /\ taken' = Append(taken, head[1])
  /\ UNCHANGED <<stack, mark, arrivals, senderVars, exit_reason>>

(* im_success: the handler may have called quit() or dropped its behavior.  *)
HandleHead ==
  /\ TakeHead
  /\ Answer(head[1])
  /\ planned' \in Reason \cup {NotExited}
  /\ UNCHANGED cache

(* im_skipped: push_to_cache.                                               *)
SkipHead ==
  /\ TakeHead
  /\ cache' = Append(cache, head[1])
  /\ UNCHANGED <<planned, replyVars>>

(* im_dropped: a system message, already answered if it was a request, or   *)
(* a signal that is ignored.                                                *)
DropHead ==
  /\ TakeHead
  /\ Answer(head[1])
  /\ UNCHANGED <<cache, planned>>

(* The handler threw.  The element stays in current_element_, which nothing *)
(* ever answers; handle(eptr) may choose another reason or, by choosing     *)
(* not_exited, "revive" the actor.                                          *)
Throw(m) ==
  /\ lost' = IF m.req THEN lost \cup {m} ELSE lost
  /\ planned' \in Reason \cup {NotExited}
  /\ UNCHANGED <<replies, bounces>>

ThrowHead ==
  /\ TakeHead
  /\ Throw(head[1])
  /\ UNCHANGED cache

(* cache.invoke takes an element out of the list before it is invoked.      *)
CacheWithout(i) == RemoveAt(cache, i)

(* invoke_from_cache with a behavior that may match any skipped element.    *)
InvokeFromCache ==
  /\ \E i \in DOMAIN cache :
       /\ cache' = CacheWithout(i)
       /\ Answer(cache[i])
  /\ planned' \in Reason \cup {NotExited}
  /\ UNCHANGED <<stack, mark, head, senderVars, exit_reason, history>>

ThrowFromCache ==
  /\ \E i \in DOMAIN cache :
       /\ cache' = CacheWithout(i)
       /\ Throw(cache[i])
  /\ UNCHANGED <<stack, mark, head, senderVars, exit_reason, history>>

(* fetch_new_data's compare-and-swap succeeds.                              *)
FetchNewData ==
  /\ Detach(EmptyDummy)
  /\ head' = Fetched
  /\ UNCHANGED <<cache, senderVars, planned, exit_reason, replyVars, history>>

(* try_block() plants the blocked dummy or finds it already there.          *)
try_block ==
  /\ Block \/ (blocked /\ UNCHANGED queueVars)
  /\ UNCHANGED <<senderVars, planned, exit_reason, replyVars, history>>

-----------------------------------------------------------------------------
(* local_actor::cleanup with mailbox_.close(sync_request_bouncer{reason}).  *)

(* clear_cached_elements.                                                   *)
CloseHead ==
  /\ sync_request_bouncer(planned, Requests(head))
  /\ taken' = taken \o head
  /\ head' = <<>>
  /\ UNCHANGED <<stack, mark, cache, senderVars, planned, exit_reason, arrivals>>

(* The requests in what was fetched last and in cache_ are bounced.         *)
ClosingIgnoresCache == Requests(stack)
ClosingBounces == Requests(stack) \cup Requests(cache)

(* fetch_new_data(nullptr)'s compare-and-swap makes stack_ null.            *)
CloseStack ==
  /\ Detach(NullPtr)
  /\ sync_request_bouncer(planned, ClosingBounces)
  /\ taken' = taken \o Fetched
  /\ cache' = <<>>
  /\ UNCHANGED <<head, senderVars, planned, exit_reason, arrivals>>

(* abstract_actor::cleanup publishes the exit reason.                       *)
PublishExitReason ==
  /\ exit_reason' = planned
  /\ UNCHANGED <<queueVars, senderVars, planned, replyVars, history>>

(* The actor's code, initialize() or act(), chooses whether to go on.       *)
PlanExit ==
  /\ planned' \in Reason \cup {NotExited}
  /\ UNCHANGED <<queueVars, senderVars, exit_reason, replyVars, history>>

-----------------------------------------------------------------------------
MailboxInit ==
  /\ QueueInit
  /\ pc = [p \in Sender |-> "idle"]
  /\ msg = [p \in Sender |-> NullPtr]
  /\ e = [p \in Sender |-> NullPtr]
  /\ sent = [p \in Sender |-> 0]
  /\ planned = NotExited
  /\ exit_reason = NotExited
  /\ replies = [m \in Message |-> 0]
  /\ bounces = {}
  /\ lost = {}
  /\ arrivals = <<>>
  /\ taken = <<>>

-----------------------------------------------------------------------------
(* Properties of every actor, whatever runs it.                             *)

MailboxTypeOK ==
  /\ QueueTypeOK
  /\ pc \in [Sender -> SenderPc]
  /\ msg \in [Sender -> Message \cup {NullPtr}]
  /\ \A p \in Sender : pc[p] # "idle" => msg[p] \in Message
  /\ e \in [Sender -> Pointer]
  /\ sent \in [Sender -> 0 .. MaxSends]
  /\ planned \in Reason \cup {NotExited}
  /\ exit_reason \in Reason \cup {NotExited}
  /\ replies \in [Message -> Nat]
  /\ bounces \subseteq [msg : Message, source : Sender \cup {Self}, reason : Reason]
  /\ lost \subseteq Message
  /\ arrivals \in Seq(Message)
  /\ taken \in Seq(Message)

(* The reader takes the elements out in the order of their pushes, without  *)
(* losing or repeating one, although stack_ is last-in first-out.           *)
ArrivalOrder == taken \o head \o Reverse(stack) = arrivals

Created(m) == m.num <= sent[m.src] /\ msg[m.src] = m /\ pc[m.src] = "cas"

(* Every request is eventually answered, bounced, lost to an exception or   *)
(* set aside by an actor that does not handle it (yet).                     *)
RequestsSettle ==
  \A m \in Message :
    Created(m) /\ m.req ~> replies[m] = 1 \/ m \in lost \/ m \in ToSet(cache)

(* Whatever is in the mailbox is eventually looked at.                      *)
MailIsRead == \A m \in Message : m \in ToSet(stack) \cup ToSet(head) ~> m \in ToSet(taken)

(* Both: senders hear of their requests, receivers of their mail.           *)
MailSettles == RequestsSettle /\ MailIsRead
=============================================================================
