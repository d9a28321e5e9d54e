------------------------- MODULE ActorMailboxProofs -------------------------
(***************************************************************************)
(* Lemmas about the operations of ActorMailbox, for any number of senders  *)
(* and messages: each keeps the types and the order of arrival.  The       *)
(* proofs about the modules that extend ActorMailbox rest on them.         *)
(***************************************************************************)
EXTENDS ActorMailbox, SequenceTheorems, TLAPS

(* The value loaded from stack_ is a dummy, null or an element.             *)
LEMMA TopType ==
  ASSUME QueueTypeOK
  PROVE  Top \in Pointer
BY DEF QueueTypeOK, Top, Pointer

(* What the value loaded from stack_ says about the two variables that      *)
(* represent it.                                                            *)
LEMMA TopFacts ==
  ASSUME QueueTypeOK, MarkInv
  PROVE  /\ blocked <=> mark = BlockedDummy
         /\ closed <=> mark = NullPtr
         /\ Top = EmptyDummy <=> mark = EmptyDummy /\ stack = <<>>
         /\ is_dummy(Top) <=> stack = <<>> /\ mark # NullPtr
         /\ Top \in Message <=> stack # <<>>
BY QueueAssumption DEF QueueTypeOK, MarkInv, Top, blocked, closed, is_dummy, Mark, QueueAssumption

(* Reversing a sequence keeps its type.                                     *)
LEMMA ReverseType ==
  ASSUME NEW S, NEW s \in Seq(S)
  PROVE  Reverse(s) \in Seq(S) /\ Len(Reverse(s)) = Len(s)
BY DEF Reverse

(* Removing an element keeps a sequence's type.                             *)
LEMMA RemoveAtType ==
  ASSUME NEW S, NEW s \in Seq(S), NEW i \in 1 .. Len(s)
  PROVE  RemoveAt(s, i) \in Seq(S)
<1>1. SubSeq(s, 1, i - 1) \in Seq(S)
  OBVIOUS
<1>2. SubSeq(s, i + 1, Len(s)) \in Seq(S)
  OBVIOUS
<1> QED BY <1>1, <1>2 DEF RemoveAt

(* Bouncing a set of requests keeps the reply bookkeeping well typed.       *)
LEMMA BouncerType ==
  ASSUME MailboxTypeOK, NEW STATE r, r \in Reason \cup {NotExited},
         NEW STATE ms, ms \in SUBSET Message,
         sync_request_bouncer(r, ms)
  PROVE  /\ replies' \in [Message -> Nat]
         /\ bounces' \subseteq [msg : Message, source : Sender \cup {Self}, reason : Reason]
         /\ lost' \subseteq Message
<1>1. \A m \in ms : [msg |-> m, source |-> m.src,
                     reason |-> bouncer_reason(r)]
                      \in [msg : Message, source : Sender \cup {Self}, reason : Reason]
  BY ReasonAssumption DEF ReasonAssumption, Message, bouncer_reason
<1>2. bounces' \subseteq [msg : Message, source : Sender \cup {Self}, reason : Reason]
  BY <1>1 DEF MailboxTypeOK, sync_request_bouncer
<1>3. replies' \in [Message -> Nat] /\ lost' \subseteq Message
  BY DEF MailboxTypeOK, sync_request_bouncer
<1> QED BY <1>2, <1>3

(* So does answering one.                                                   *)
LEMMA AnswerType ==
  ASSUME MailboxTypeOK, NEW STATE m, m \in Message, Answer(m)
  PROVE  /\ replies' \in [Message -> Nat]
         /\ bounces' \subseteq [msg : Message, source : Sender \cup {Self}, reason : Reason]
         /\ lost' \subseteq Message
<1>1. replies' \in [Message -> Nat]
  BY DEF MailboxTypeOK, Answer
<1> QED BY <1>1 DEF MailboxTypeOK, Answer

(* The operations of the reader; two of them detach the stack.              *)
AttachedOp ==
  \/ HandleHead \/ SkipHead \/ DropHead \/ ThrowHead
  \/ InvokeFromCache \/ ThrowFromCache \/ try_block
  \/ CloseHead \/ PublishExitReason \/ PlanExit

ReaderOp == AttachedOp \/ FetchNewData \/ CloseStack

-----------------------------------------------------------------------------
(* Type correctness.                                                        *)

(* A sender's step keeps every variable in its type.                        *)
LEMMA EnqueueType ==
  ASSUME MailboxTypeOK, NEW p \in Sender, Enqueue(p) \/ Woken(p)
  PROVE  MailboxTypeOK'
<1> USE DEF queueVars, senderVars, replyVars, history
<1>1. Top \in Pointer
  BY TopType DEF MailboxTypeOK
<1>2. CASE EnqueueLoad(p) /\ UNCHANGED planned
  <2>1. \A r \in BOOLEAN : [src |-> p, num |-> sent[p] + 1, req |-> r] \in Message
    BY <1>2, QueueAssumption DEF EnqueueLoad, MailboxTypeOK, Message, QueueAssumption
  <2>2. msg' \in [Sender -> Message \cup {NullPtr}] /\ msg'[p] \in Message
        /\ \A q \in Sender \ {p} : msg'[q] = msg[q]
    BY <1>2, <2>1 DEF EnqueueLoad, MailboxTypeOK
  <2>3. pc' \in [Sender -> SenderPc] /\ \A q \in Sender \ {p} : pc'[q] = pc[q]
    BY <1>2 DEF EnqueueLoad, MailboxTypeOK, SenderPc
  <2>4. sent' \in [Sender -> 0 .. MaxSends] /\ e' \in [Sender -> Pointer]
    BY <1>1, <1>2, QueueAssumption DEF EnqueueLoad, MailboxTypeOK, QueueAssumption
  <2> QED BY <1>2, <2>2, <2>3, <2>4 DEF EnqueueLoad, MailboxTypeOK, QueueTypeOK
<1>3. CASE EnqueueCas(p) /\ UNCHANGED planned
  <2>1. msg[p] \in Message
    BY <1>3 DEF EnqueueCas, MailboxTypeOK
  <2>2. stack' \in Seq(Message) /\ mark' \in Mark /\ arrivals' \in Seq(Message)
    BY <1>3, <2>1 DEF EnqueueCas, MailboxTypeOK, QueueTypeOK, Push, Mark
  <2>3. pc' \in [Sender -> SenderPc] /\ \A q \in Sender \ {p} : pc'[q] = pc[q]
    BY <1>3 DEF EnqueueCas, MailboxTypeOK, SenderPc
  <2> QED BY <1>3, <2>1, <2>2, <2>3 DEF EnqueueCas, MailboxTypeOK, QueueTypeOK, Push
<1>4. CASE EnqueueRetry(p) /\ UNCHANGED planned
  <2>1. e' \in [Sender -> Pointer]
    BY <1>1, <1>4 DEF EnqueueRetry, MailboxTypeOK
  <2> QED BY <1>4, <2>1 DEF EnqueueRetry, MailboxTypeOK, QueueTypeOK
<1>5. CASE EnqueueClosed(p) /\ UNCHANGED planned
  <2>1. pc' \in [Sender -> SenderPc] /\ \A q \in Sender \ {p} : pc'[q] = pc[q]
    BY <1>5 DEF EnqueueClosed, MailboxTypeOK, SenderPc
  <2> QED BY <1>5, <2>1 DEF EnqueueClosed, MailboxTypeOK, QueueTypeOK
<1>6. CASE Woken(p)
  <2>1. pc' \in [Sender -> SenderPc] /\ \A q \in Sender \ {p} : pc'[q] = pc[q]
    BY <1>6 DEF Woken, MailboxTypeOK, SenderPc
  <2> QED BY <1>6, <2>1 DEF Woken, MailboxTypeOK, QueueTypeOK
<1>7. CASE BounceClosed(p) /\ UNCHANGED planned
  <2>1. pc' \in [Sender -> SenderPc] /\ pc'[p] = "idle"
        /\ \A q \in Sender \ {p} : pc'[q] = pc[q]
    BY <1>7 DEF BounceClosed, MailboxTypeOK, SenderPc
  <2>2. {msg[p]} \in SUBSET Message /\ exit_reason \in Reason \cup {NotExited}
    BY <1>7 DEF BounceClosed, MailboxTypeOK
  <2>3. sync_request_bouncer(exit_reason, {msg[p]})
    BY <1>7 DEF BounceClosed
  <2>4. /\ replies' \in [Message -> Nat]
        /\ bounces' \subseteq [msg : Message, source : Sender \cup {Self}, reason : Reason]
        /\ lost' \subseteq Message
    BY <2>2, <2>3, BouncerType
  <2> QED BY <1>7, <2>1, <2>4 DEF BounceClosed, MailboxTypeOK, QueueTypeOK
<1> QED BY <1>2, <1>3, <1>4, <1>5, <1>6, <1>7 DEF Enqueue

(* So does an operation of the reader.                                      *)
LEMMA ReaderType ==
  ASSUME MailboxTypeOK, ReaderOp
  PROVE  MailboxTypeOK'
<1> USE DEF queueVars, senderVars, replyVars, history
<1> DEFINE ReplyTypeOK ==
      /\ replies \in [Message -> Nat]
      /\ bounces \subseteq [msg : Message, source : Sender \cup {Self}, reason : Reason]
      /\ lost \subseteq Message
<1>1. Fetched \in Seq(Message)
  BY ReverseType DEF MailboxTypeOK, QueueTypeOK, Fetched
<1>2. ASSUME TakeHead
      PROVE  /\ head[1] \in Message
             /\ head' \in Seq(Message)
             /\ taken' \in Seq(Message)
  <2>1. head \in Seq(Message) /\ head # <<>> /\ taken \in Seq(Message)
    BY <1>2 DEF TakeHead, MailboxTypeOK, QueueTypeOK
  <2>2. head[1] \in Message
    BY <2>1
  <2> QED BY <1>2, <2>1, <2>2 DEF TakeHead
<1>3. ASSUME TakeHead, Answer(head[1]) PROVE ReplyTypeOK'
  BY <1>2, <1>3, AnswerType
<1>4. CASE HandleHead \/ DropHead
  BY <1>2, <1>3, <1>4 DEF HandleHead, DropHead, TakeHead, MailboxTypeOK, QueueTypeOK
<1>5. CASE SkipHead
  <2>1. cache' \in Seq(Message)
    BY <1>2, <1>5 DEF SkipHead, MailboxTypeOK, QueueTypeOK
  <2> QED BY <1>2, <1>5, <2>1 DEF SkipHead, TakeHead, MailboxTypeOK, QueueTypeOK
<1>6. CASE ThrowHead
  <2>1. ReplyTypeOK' /\ planned' \in Reason \cup {NotExited}
    BY <1>2, <1>6 DEF ThrowHead, Throw, MailboxTypeOK
  <2> QED BY <1>2, <1>6, <2>1 DEF ThrowHead, TakeHead, MailboxTypeOK, QueueTypeOK
<1>7. CASE InvokeFromCache
  <2>1. PICK i \in DOMAIN cache : cache' = CacheWithout(i) /\ Answer(cache[i])
    BY <1>7 DEF InvokeFromCache
  <2>2. cache[i] \in Message /\ cache' \in Seq(Message)
    BY <2>1, RemoveAtType DEF CacheWithout, MailboxTypeOK, QueueTypeOK
  <2>3. ReplyTypeOK'
    BY <2>1, <2>2, AnswerType
  <2> QED BY <1>7, <2>2, <2>3 DEF InvokeFromCache, MailboxTypeOK, QueueTypeOK
<1>8. CASE ThrowFromCache
  <2>1. PICK i \in DOMAIN cache : cache' = CacheWithout(i) /\ Throw(cache[i])
    BY <1>8 DEF ThrowFromCache
  <2>2. cache[i] \in Message /\ cache' \in Seq(Message)
    BY <2>1, RemoveAtType DEF CacheWithout, MailboxTypeOK, QueueTypeOK
  <2>3. ReplyTypeOK' /\ planned' \in Reason \cup {NotExited}
    BY <2>1, <2>2 DEF MailboxTypeOK, Throw
  <2> QED BY <1>8, <2>2, <2>3 DEF ThrowFromCache, MailboxTypeOK, QueueTypeOK
<1>9. CASE FetchNewData
  BY <1>1, <1>9 DEF FetchNewData, Detach, MailboxTypeOK, QueueTypeOK, Mark
<1>10. CASE try_block
  BY <1>10 DEF try_block, Block, MailboxTypeOK, QueueTypeOK, Mark
<1>11. CASE CloseHead
  <2>1. Requests(head) \in SUBSET Message /\ planned \in Reason \cup {NotExited}
    BY DEF Requests, ToSet, MailboxTypeOK, QueueTypeOK
  <2>2. sync_request_bouncer(planned, Requests(head))
    BY <1>11 DEF CloseHead
  <2>3. ReplyTypeOK'
    BY <2>1, <2>2, BouncerType
  <2>4. taken' \in Seq(Message) /\ head' \in Seq(Message)
    BY <1>11 DEF CloseHead, MailboxTypeOK, QueueTypeOK
  <2> QED BY <1>11, <2>3, <2>4 DEF CloseHead, MailboxTypeOK, QueueTypeOK
<1>12. CASE CloseStack
  <2>1. ClosingBounces \in SUBSET Message /\ planned \in Reason \cup {NotExited}
    BY DEF ClosingBounces, Requests, ToSet, MailboxTypeOK, QueueTypeOK
  <2>2. sync_request_bouncer(planned, ClosingBounces)
    BY <1>12 DEF CloseStack
  <2>3. ReplyTypeOK'
    BY <2>1, <2>2, BouncerType
  <2>4. taken' \in Seq(Message) /\ stack' \in Seq(Message) /\ mark' \in Mark
        /\ cache' \in Seq(Message)
    BY <1>1, <1>12 DEF CloseStack, Detach, MailboxTypeOK, QueueTypeOK, Mark
  <2> QED BY <1>12, <2>3, <2>4 DEF CloseStack, MailboxTypeOK, QueueTypeOK
<1>13. CASE PublishExitReason \/ PlanExit
  BY <1>13 DEF PublishExitReason, PlanExit, MailboxTypeOK, QueueTypeOK
<1> QED BY <1>4, <1>5, <1>6, <1>7, <1>8, <1>9, <1>10, <1>11, <1>12, <1>13
        DEF ReaderOp, AttachedOp

-----------------------------------------------------------------------------
(* Arrival order.                                                           *)

(* Pushing onto a stack appends to its reversal.                            *)
LEMMA ReversePush ==
  ASSUME NEW S, NEW s \in Seq(S), NEW m \in S
  PROVE  Reverse(<<m>> \o s) = Append(Reverse(s), m)
<1>1. /\ <<m>> \o s \in Seq(S) /\ Len(<<m>> \o s) = Len(s) + 1
      /\ \A i \in 1 .. Len(s) + 1 : (<<m>> \o s)[i] = IF i = 1 THEN m ELSE s[i - 1]
  OBVIOUS
<1>2. /\ Reverse(s) \in Seq(S) /\ Len(Reverse(s)) = Len(s)
      /\ \A i \in 1 .. Len(s) : Reverse(s)[i] = s[Len(s) - i + 1]
  BY DEF Reverse
<1>3. /\ Append(Reverse(s), m) \in Seq(S)
      /\ Len(Append(Reverse(s), m)) = Len(s) + 1
      /\ \A i \in 1 .. Len(s) + 1 :
           Append(Reverse(s), m)[i] = IF i = Len(s) + 1 THEN m ELSE s[Len(s) - i + 1]
  BY <1>2
<1>4. /\ Reverse(<<m>> \o s) \in Seq(S) /\ Len(Reverse(<<m>> \o s)) = Len(s) + 1
      /\ \A i \in 1 .. Len(s) + 1 :
           Reverse(<<m>> \o s)[i] = (<<m>> \o s)[(Len(s) + 1 - i) + 1]
  BY <1>1 DEF Reverse
<1>5. \A i \in 1 .. Len(s) + 1 : Reverse(<<m>> \o s)[i] = Append(Reverse(s), m)[i]
  <2> SUFFICES ASSUME NEW i \in 1 .. Len(s) + 1
               PROVE  Reverse(<<m>> \o s)[i] = Append(Reverse(s), m)[i]
    OBVIOUS
  <2> DEFINE j == (Len(s) + 1 - i) + 1
  <2>1. j \in 1 .. Len(s) + 1 /\ (j = 1 <=> i = Len(s) + 1) /\ j - 1 = Len(s) - i + 1
    OBVIOUS
  <2>2. Reverse(<<m>> \o s)[i] = (<<m>> \o s)[j]
    BY <1>4
  <2>3. (<<m>> \o s)[j] = IF j = 1 THEN m ELSE s[j - 1]
    BY <1>1, <2>1
  <2>4. Append(Reverse(s), m)[i] = IF i = Len(s) + 1 THEN m ELSE s[Len(s) - i + 1]
    BY <1>3
  <2> HIDE DEF j
  <2> QED BY <2>1, <2>2, <2>3, <2>4
<1> QED BY <1>3, <1>4, <1>5, SeqEqual

(* Moving the first element of a list to the end of the one before it.      *)
LEMMA HeadMoves ==
  ASSUME NEW S, NEW r \in Seq(S), NEW s \in Seq(S), s # <<>>
  PROVE  Append(r, s[1]) \o Tail(s) = r \o s
OBVIOUS

(* Laws of concatenation used below.                                        *)
LEMMA ConcatLaws ==
  ASSUME NEW S, NEW r \in Seq(S), NEW t \in Seq(S)
  PROVE  (r \o <<>>) \o t = r \o t /\ (r \o t) \o <<>> = r \o t
OBVIOUS

(* A message appended to one of two concatenated parts of the inbox.        *)
LEMMA ConcatAppend ==
  ASSUME NEW S, NEW r \in Seq(S), NEW t \in Seq(S), NEW m \in S
  PROVE  r \o Append(t, m) = Append(r \o t, m)
OBVIOUS

(* What ArrivalOrder relates, unchanged.                                    *)
LEMMA ArrivalOrderFrame ==
  ASSUME ArrivalOrder, UNCHANGED <<taken, head, stack, arrivals>>
  PROVE  ArrivalOrder'
BY DEF ArrivalOrder

(* A push keeps the order: it appends to the arrivals.                      *)
LEMMA EnqueueOrder ==
  ASSUME MailboxTypeOK, ArrivalOrder, NEW p \in Sender, Enqueue(p) \/ Woken(p)
  PROVE  ArrivalOrder'
<1> USE DEF queueVars, senderVars, replyVars, history
<1>1. CASE EnqueueCas(p)
  <2>1. msg[p] \in Message
    BY <1>1 DEF EnqueueCas, MailboxTypeOK
  <2>2. /\ taken \in Seq(Message) /\ head \in Seq(Message) /\ stack \in Seq(Message)
        /\ Reverse(stack) \in Seq(Message)
    BY ReverseType DEF MailboxTypeOK, QueueTypeOK
  <2>3. Reverse(stack') = Append(Reverse(stack), msg[p])
    BY <1>1, <2>1, <2>2, ReversePush DEF EnqueueCas, Push
  <2>4. taken \o head \in Seq(Message)
    BY <2>2
  <2>5. \A r, t \in Seq(Message), m \in Message : r \o Append(t, m) = Append(r \o t, m)
    BY ConcatAppend
  <2>6. (taken \o head) \o Append(Reverse(stack), msg[p])
        = Append((taken \o head) \o Reverse(stack), msg[p])
    BY <2>1, <2>2, <2>4, <2>5, Zenon
  <2> QED BY <1>1, <2>3, <2>6 DEF EnqueueCas, Push, ArrivalOrder
<1>2. CASE EnqueueLoad(p) \/ EnqueueRetry(p) \/ EnqueueClosed(p) \/ BounceClosed(p) \/ Woken(p)
  BY <1>2, ArrivalOrderFrame DEF EnqueueLoad, EnqueueRetry, EnqueueClosed, BounceClosed, Woken
<1> QED BY <1>1, <1>2 DEF Enqueue

(* Taking an element out keeps the order ...                                *)
LEMMA TakeHeadOrder ==
  ASSUME MailboxTypeOK, ArrivalOrder, TakeHead
  PROVE  ArrivalOrder'
<1>1. /\ taken \in Seq(Message) /\ head \in Seq(Message)
      /\ Reverse(stack) \in Seq(Message) /\ taken \o head \o Reverse(stack) = arrivals
  BY ReverseType DEF MailboxTypeOK, QueueTypeOK, ArrivalOrder
<1>2. head # <<>>
  BY DEF TakeHead
<1>3. Append(taken, head[1]) \o Tail(head) = taken \o head
  BY <1>1, <1>2, HeadMoves
<1>4. (Append(taken, head[1]) \o Tail(head)) \o Reverse(stack) = arrivals
  BY <1>1, <1>3, Zenon
<1> QED BY <1>4 DEF TakeHead, ArrivalOrder

(* ... as does closing the fetched elements ...                             *)
LEMMA CloseHeadOrder ==
  ASSUME MailboxTypeOK, ArrivalOrder, CloseHead
  PROVE  ArrivalOrder'
<1>1. /\ taken \in Seq(Message) /\ head \in Seq(Message)
      /\ Reverse(stack) \in Seq(Message) /\ taken \o head \o Reverse(stack) = arrivals
  BY ReverseType DEF MailboxTypeOK, QueueTypeOK, ArrivalOrder
<1>2. taken' = taken \o head /\ head' = <<>> /\ stack' = stack /\ arrivals' = arrivals
  BY DEF CloseHead
<1> QED BY <1>1, <1>2, ConcatLaws DEF ArrivalOrder

(* ... and detaching the stack, provided the reader does so only when it    *)
(* has used up what it detached before.                                     *)
LEMMA DetachOrder ==
  ASSUME MailboxTypeOK, ArrivalOrder, FetchNewData \/ CloseStack, head = <<>>
  PROVE  ArrivalOrder'
<1>1. /\ taken \in Seq(Message) /\ head \in Seq(Message)
      /\ Reverse(stack) \in Seq(Message) /\ taken \o head \o Reverse(stack) = arrivals
  BY ReverseType DEF MailboxTypeOK, QueueTypeOK, ArrivalOrder
<1>2. Reverse(stack') = <<>>
  <2>1. stack' = <<>>
    BY DEF FetchNewData, CloseStack, Detach
  <2> QED BY <2>1 DEF Reverse
<1>3. CASE FetchNewData
  <2>1. head' = Reverse(stack) /\ UNCHANGED <<taken, arrivals>>
    BY <1>3 DEF FetchNewData, Fetched, history
  <2> QED BY <1>1, <1>2, <2>1, ConcatLaws DEF ArrivalOrder
<1>4. CASE CloseStack
  <2>1. taken' = taken \o Reverse(stack) /\ UNCHANGED <<head, arrivals>>
    BY <1>4 DEF CloseStack, Fetched
  <2> QED BY <1>1, <1>2, <2>1, ConcatLaws DEF ArrivalOrder
<1> QED BY <1>3, <1>4

-----------------------------------------------------------------------------
(***************************************************************************)
(* Every message is accounted for, which the contract of an actor needs:   *)
(* a message that was accepted, whether it is still in the mailbox or not, *)
(* is none of those the senders still hold in their hands; no message is   *)
(* accepted twice or skipped twice; and only a closed mailbox bounces.     *)
(***************************************************************************)
Accepted(m) == m.num <= sent[m.src] /\ ~ (pc[m.src] \in {"cas", "bounce"} /\ msg[m.src] = m)

ArrivalsInv ==
  /\ \A i, j \in 1 .. Len(arrivals) : arrivals[i] = arrivals[j] => i = j
  /\ \A i \in 1 .. Len(arrivals) : Accepted(arrivals[i])

CacheInv ==
  /\ \A i, j \in 1 .. Len(cache) : cache[i] = cache[j] => i = j
  /\ \A i \in 1 .. Len(cache) : \E k \in 1 .. Len(taken) : taken[k] = cache[i]

ReplyInv == \A m \in Message : replies[m] # 0 => Accepted(m)

PendingInv ==
  \A p \in Sender :
    /\ pc[p] # "idle" => msg[p].src = p /\ msg[p].num = sent[p]
    /\ pc[p] = "bounce" => msg[p].req
    /\ pc[p] = "bounce" \/ (pc[p] = "cas" /\ e[p] = NullPtr) => mark = NullPtr

MailInv == ArrivalOrder /\ ArrivalsInv /\ CacheInv /\ ReplyInv /\ PendingInv

(* The elements of a concatenation.                                         *)
LEMMA ConcatElements ==
  ASSUME NEW S, NEW r \in Seq(S), NEW t \in Seq(S)
  PROVE  /\ Len(r \o t) = Len(r) + Len(t)
         /\ \A i \in 1 .. Len(r) : (r \o t)[i] = r[i]
         /\ \A i \in 1 .. Len(t) : (r \o t)[Len(r) + i] = t[i]
OBVIOUS

(* Where the elements of the lists occur among the arrivals.                *)
LEMMA InArrivals ==
  ASSUME MailboxTypeOK, ArrivalOrder
  PROVE  /\ \A i \in 1 .. Len(taken) : i \in 1 .. Len(arrivals) /\ arrivals[i] = taken[i]
         /\ \A i \in 1 .. Len(head) :
              Len(taken) + i \in 1 .. Len(arrivals) /\ arrivals[Len(taken) + i] = head[i]
         /\ \A i \in 1 .. Len(stack) : \E k \in 1 .. Len(arrivals) : arrivals[k] = stack[i]
<1> DEFINE r == Reverse(stack)
           a == taken \o head
<1>1. taken \in Seq(Message) /\ head \in Seq(Message) /\ stack \in Seq(Message)
  BY DEF MailboxTypeOK, QueueTypeOK
<1>2. /\ r \in Seq(Message) /\ Len(r) = Len(stack)
      /\ \A i \in 1 .. Len(stack) : r[i] = stack[Len(stack) - i + 1]
  BY <1>1 DEF Reverse
<1>3. /\ a \in Seq(Message) /\ Len(a) = Len(taken) + Len(head)
      /\ \A i \in 1 .. Len(taken) : a[i] = taken[i]
      /\ \A i \in 1 .. Len(head) : a[Len(taken) + i] = head[i]
  BY <1>1
<1>4. arrivals = a \o r
  BY DEF ArrivalOrder
<1> HIDE DEF r, a
<1>5. /\ Len(arrivals) = Len(a) + Len(r)
      /\ \A i \in 1 .. Len(a) : arrivals[i] = a[i]
      /\ \A i \in 1 .. Len(r) : arrivals[Len(a) + i] = r[i]
  <2>1. r \in Seq(Message) /\ a \in Seq(Message)
    BY <1>2, <1>3
  <2> QED BY <1>4, <2>1, ConcatElements
<1>6. /\ Len(taken) \in Nat /\ Len(head) \in Nat /\ Len(stack) \in Nat
      /\ Len(arrivals) = Len(taken) + Len(head) + Len(stack)
  BY <1>1, <1>2, <1>3, <1>5
<1>8. ASSUME NEW i \in 1 .. Len(taken) PROVE i \in 1 .. Len(arrivals) /\ arrivals[i] = taken[i]
  BY <1>3, <1>5, <1>6
<1>9. ASSUME NEW i \in 1 .. Len(head)
      PROVE  Len(taken) + i \in 1 .. Len(arrivals) /\ arrivals[Len(taken) + i] = head[i]
  <2>1. Len(taken) + i \in 1 .. Len(a)
    BY <1>3, <1>6
  <2> QED BY <1>3, <1>5, <1>6, <2>1
<1>7. ASSUME NEW i \in 1 .. Len(stack) PROVE \E k \in 1 .. Len(arrivals) : arrivals[k] = stack[i]
  <2> DEFINE j == Len(stack) - i + 1
  <2>1. j \in 1 .. Len(stack) /\ Len(stack) - j + 1 = i
    BY <1>1, <1>7
  <2>2. r[j] = stack[i] /\ j \in 1 .. Len(r)
    BY <1>2, <2>1
  <2>3. Len(a) + j \in 1 .. Len(arrivals)
    BY <1>3, <1>6, <2>1
  <2>4. arrivals[Len(a) + j] = r[j]
    BY <1>5, <2>2
  <2> QED BY <2>2, <2>3, <2>4
<1> QED BY <1>7, <1>8, <1>9

(* Replies for messages that have arrived keep ReplyInv.                    *)
LEMMA RepliesToArrived ==
  ASSUME MailboxTypeOK, MailInv, UNCHANGED <<pc, msg, sent>>,
         \A m \in Message : replies'[m] # replies[m] => \E k \in 1 .. Len(arrivals) : arrivals[k] = m
  PROVE  ReplyInv'
BY DEF MailInv, ReplyInv, ArrivalsInv, Accepted

(* A reader's step that leaves the arrivals and the senders alone.          *)
LEMMA MailFrame ==
  ASSUME MailInv, UNCHANGED <<arrivals, senderVars>>, mark' = mark \/ mark # NullPtr
  PROVE  ArrivalsInv' /\ PendingInv'
BY DEF MailInv, ArrivalsInv, PendingInv, Accepted, senderVars

(* A sender's step keeps every message accounted for: only its own message  *)
(* changes hands.                                                           *)
LEMMA EnqueueMail ==
  ASSUME MailboxTypeOK, MarkInv, MailInv, NEW p \in Sender, Enqueue(p) \/ Woken(p)
  PROVE  MailInv'
<1> USE DEF queueVars, senderVars, replyVars, history
<1>0. /\ ArrivalOrder' /\ QueueTypeOK /\ arrivals \in Seq(Message)
      /\ pc \in [Sender -> SenderPc] /\ sent \in [Sender -> Nat]
  BY EnqueueOrder DEF MailInv, MailboxTypeOK
<1>1. CASE EnqueueLoad(p) /\ UNCHANGED planned
  <2>1. PICK b \in BOOLEAN : msg' = [msg EXCEPT ![p] = [src |-> p, num |-> sent[p] + 1, req |-> b]]
    BY <1>1 DEF EnqueueLoad
  <2>2. /\ msg'[p].src = p /\ msg'[p].num = sent'[p] /\ sent'[p] = sent[p] + 1
        /\ pc'[p] = "cas" /\ pc[p] = "idle" /\ e'[p] = Top
        /\ \A q \in Sender : q # p => /\ pc'[q] = pc[q] /\ msg'[q] = msg[q]
                                      /\ sent'[q] = sent[q] /\ e'[q] = e[q]
    BY <1>1, <2>1 DEF EnqueueLoad, MailboxTypeOK
  <2>3. \A m \in Message : Accepted(m) => Accepted(m)'
    <3> SUFFICES ASSUME NEW m \in Message, Accepted(m) PROVE Accepted(m)'
      OBVIOUS
    <3>1. m.src \in Sender /\ m.num \in Nat
      BY DEF Message
    <3> QED BY <1>0, <2>2, <3>1 DEF Accepted
  <2>4. ArrivalsInv' /\ ReplyInv' /\ CacheInv'
    <3>1. UNCHANGED <<arrivals, cache, taken, replies>>
      BY <1>1 DEF EnqueueLoad
    <3>2. \A i \in 1 .. Len(arrivals) : arrivals[i] \in Message
      BY <1>0
    <3>3. \A i \in 1 .. Len(arrivals) : \E m \in Message : m = arrivals[i] /\ Accepted(m)'
      BY <2>3, <3>2 DEF MailInv, ArrivalsInv
    <3>4. ArrivalsInv'
      BY <3>1, <3>3 DEF MailInv, ArrivalsInv, Accepted
    <3>5. ReplyInv'
      BY <2>3, <3>1 DEF MailInv, ReplyInv
    <3>6. CacheInv'
      BY <3>1 DEF MailInv, CacheInv
    <3> QED BY <3>4, <3>5, <3>6
  <2>5. PendingInv'
    <3>1. Top = NullPtr => mark = NullPtr
      BY <1>0, TopFacts DEF closed
    <3> QED BY <1>1, <2>2, <3>1 DEF EnqueueLoad, MailInv, PendingInv
  <2> QED BY <1>0, <2>4, <2>5 DEF MailInv
<1>2. CASE EnqueueCas(p) /\ UNCHANGED planned
  <2>1. /\ pc[p] = "cas" /\ pc'[p] \in {"wake", "idle"} /\ UNCHANGED <<msg, e, sent, cache, replies, taken>>
        /\ \A q \in Sender : q # p => pc'[q] = pc[q]
        /\ arrivals' = Append(arrivals, msg[p])
    BY <1>0, <1>2 DEF EnqueueCas, Push
  <2>2. msg[p] \in Message /\ ~ Accepted(msg[p]) /\ Accepted(msg[p])'
    <3>1. msg[p] \in Message /\ msg[p].src = p /\ msg[p].num = sent[p]
      BY <1>0, <2>1 DEF MailboxTypeOK, MailInv, PendingInv
    <3> QED BY <1>0, <2>1, <3>1 DEF Accepted
  <2>3. \A m \in Message : Accepted(m) => Accepted(m)'
    BY <2>1 DEF Accepted, Message
  <2>4. ArrivalsInv'
    <3>1. \A i \in 1 .. Len(arrivals) : arrivals[i] \in Message /\ Accepted(arrivals[i]) /\ arrivals[i] # msg[p]
      BY <1>0, <2>2 DEF MailInv, ArrivalsInv
    <3>2. /\ Len(arrivals') = Len(arrivals) + 1 /\ arrivals'[Len(arrivals) + 1] = msg[p]
          /\ \A i \in 1 .. Len(arrivals) : arrivals'[i] = arrivals[i]
      BY <1>0, <2>1, <2>2
    <3>3. \A i \in 1 .. Len(arrivals) + 1 : i \in 1 .. Len(arrivals) \/ i = Len(arrivals) + 1
      BY <1>0
    <3>4. \A i, j \in 1 .. Len(arrivals') : arrivals'[i] = arrivals'[j] => i = j
      BY <3>1, <3>2, <3>3 DEF MailInv, ArrivalsInv
    <3>5. \A i \in 1 .. Len(arrivals') : \E m \in Message : arrivals'[i] = m /\ Accepted(m)'
      <4> SUFFICES ASSUME NEW i \in 1 .. Len(arrivals')
                   PROVE  \E m \in Message : arrivals'[i] = m /\ Accepted(m)'
        OBVIOUS
      <4>1. CASE i \in 1 .. Len(arrivals)
        <5>1. PICK m \in Message : arrivals[i] = m /\ Accepted(m)
          BY <3>1, <4>1
        <5> QED BY <2>3, <3>2, <4>1, <5>1
      <4>2. CASE i = Len(arrivals) + 1
        <5>1. PICK m \in Message : m = msg[p] /\ Accepted(m)'
          BY <2>1, <2>2 DEF Accepted
        <5> QED BY <3>2, <4>2, <5>1
      <4> QED BY <3>2, <3>3, <4>1, <4>2
    <3> QED BY <3>4, <3>5 DEF ArrivalsInv, Accepted
  <2>5. ReplyInv' /\ CacheInv'
    BY <2>1, <2>3 DEF MailInv, ReplyInv, CacheInv
  <2>6. PendingInv'
    <3>1. Top # NullPtr
      BY <1>2, QueueAssumption DEF EnqueueCas, queue_closed, Recycled, QueueAssumption, Mark
    <3>2. mark # NullPtr
      BY <1>0, <3>1, TopFacts DEF closed
    <3> QED BY <2>1, <3>2 DEF MailInv, PendingInv
  <2> QED BY <1>0, <2>4, <2>5, <2>6 DEF MailInv
<1>3. CASE EnqueueRetry(p) /\ UNCHANGED planned
  <2>1. /\ UNCHANGED <<pc, msg, sent, mark, cache, arrivals, replies, taken>>
        /\ e'[p] = Top /\ \A q \in Sender : q # p => e'[q] = e[q]
    BY <1>3 DEF EnqueueRetry, MailboxTypeOK
  <2>2. Top = NullPtr => mark = NullPtr
    BY <1>0, TopFacts DEF closed
  <2>3. PendingInv'
    BY <2>1, <2>2 DEF MailInv, PendingInv
  <2> QED BY <1>0, <2>1, <2>3 DEF MailInv, ArrivalsInv, ReplyInv, CacheInv, Accepted
<1>4. CASE /\ EnqueueClosed(p) \/ BounceClosed(p) \/ Woken(p)
           /\ UNCHANGED planned
  <2>1. /\ UNCHANGED <<msg, e, sent, mark, cache, arrivals, taken>>
        /\ \A q \in Sender : q # p => pc'[q] = pc[q]
        /\ pc[p] \in {"cas", "bounce", "wake"} /\ pc'[p] \in {"idle", "bounce"}
        /\ pc'[p] = "bounce" => pc[p] = "cas" /\ msg[p].req /\ e[p] = NullPtr
    BY <1>0, <1>4 DEF EnqueueClosed, BouncesWhenClosed, queue_closed, BounceClosed, Woken
  <2>2. \A m \in Message : Accepted(m) => Accepted(m)'
    BY <2>1 DEF Accepted, Message
  <2>3. \A m \in Message : replies'[m] # 0 => replies[m] # 0 \/ (m = msg[p] /\ pc'[p] = "idle")
    BY <1>4 DEF EnqueueClosed, BounceClosed, sync_request_bouncer, Woken, MailboxTypeOK
  <2>4. pc'[p] = "idle" => Accepted(msg[p])'
    <3>1. msg[p].src = p /\ msg[p].num = sent[p]
      BY <1>0, <2>1 DEF MailInv, PendingInv
    <3> QED BY <1>0, <2>1, <3>1 DEF Accepted
  <2>5. ReplyInv'
    BY <2>1, <2>2, <2>3, <2>4 DEF MailInv, ReplyInv, Accepted
  <2>6. ArrivalsInv' /\ CacheInv' /\ PendingInv'
    BY <1>0, <2>1, <2>2 DEF MailInv, ArrivalsInv, CacheInv, PendingInv
  <2> QED BY <1>0, <2>5, <2>6 DEF MailInv
<1> QED BY <1>1, <1>2, <1>3, <1>4 DEF Enqueue, Woken

(* Taking out the oldest fetched element, and skipping it or not.           *)
LEMMA TakeHeadMail ==
  ASSUME MailboxTypeOK, MailInv, TakeHead,
         UNCHANGED cache \/ cache' = Append(cache, head[1]),
         \A m \in Message : replies'[m] # replies[m] => m = head[1]
  PROVE  MailInv'
<1> USE DEF senderVars
<1>1. /\ head \in Seq(Message) /\ head # <<>> /\ 1 \in 1 .. Len(head) /\ head[1] \in Message
      /\ taken \in Seq(Message) /\ cache \in Seq(Message)
  BY DEF TakeHead, MailboxTypeOK, QueueTypeOK
<1>2. ArrivalOrder /\ ArrivalOrder'
  BY TakeHeadOrder DEF MailInv
<1>3. /\ Len(taken) + 1 \in 1 .. Len(arrivals) /\ arrivals[Len(taken) + 1] = head[1]
      /\ \A k \in 1 .. Len(taken) : k \in 1 .. Len(arrivals) /\ arrivals[k] = taken[k]
  BY <1>1, <1>2, InArrivals
<1>4. \A k \in 1 .. Len(taken) : taken[k] # head[1]
  BY <1>1, <1>3 DEF MailInv, ArrivalsInv
<1>5. /\ Len(taken') = Len(taken) + 1 /\ taken'[Len(taken) + 1] = head[1]
      /\ \A k \in 1 .. Len(taken) : taken'[k] = taken[k]
  BY <1>1 DEF TakeHead
<1>6. Len(taken) \in Nat /\ Len(taken) + 1 \in 1 .. Len(taken')
      /\ \A k \in 1 .. Len(taken) : k \in 1 .. Len(taken')
  BY <1>1, <1>5
<1>7. CacheInv'
  <2>1. CASE UNCHANGED cache
    BY <1>5, <1>6, <2>1 DEF MailInv, CacheInv
  <2>2. CASE cache' = Append(cache, head[1])
    <3>1. /\ Len(cache') = Len(cache) + 1 /\ cache'[Len(cache) + 1] = head[1]
          /\ \A k \in 1 .. Len(cache) : cache'[k] = cache[k]
          /\ \A k \in 1 .. Len(cache) + 1 : k \in 1 .. Len(cache) \/ k = Len(cache) + 1
      BY <1>1, <2>2
    <3>2. \A k \in 1 .. Len(cache) : cache[k] # head[1]
      BY <1>4 DEF MailInv, CacheInv
    <3>3. \A j, k \in 1 .. Len(cache') : cache'[j] = cache'[k] => j = k
      BY <3>1, <3>2 DEF MailInv, CacheInv
    <3>4. \A j \in 1 .. Len(cache') : \E k \in 1 .. Len(taken') : taken'[k] = cache'[j]
      BY <1>5, <1>6, <3>1 DEF MailInv, CacheInv
    <3> QED BY <3>3, <3>4 DEF CacheInv
  <2> QED BY <2>1, <2>2
<1>8. ArrivalsInv' /\ PendingInv'
  BY MailFrame DEF TakeHead
<1>9. ReplyInv'
  BY <1>3, RepliesToArrived DEF TakeHead
<1> QED BY <1>2, <1>7, <1>8, <1>9 DEF MailInv

(* Taking an element out of a list.                                         *)
LEMMA RemoveAtElements ==
  ASSUME NEW S, NEW s \in Seq(S), NEW i \in 1 .. Len(s)
  PROVE  /\ Len(RemoveAt(s, i)) = Len(s) - 1
         /\ \A j \in 1 .. Len(s) - 1 : RemoveAt(s, i)[j] = s[IF j < i THEN j ELSE j + 1]
<1> DEFINE a == SubSeq(s, 1, i - 1)
           b == SubSeq(s, i + 1, Len(s))
<1>0. i \in Nat /\ Len(s) \in Nat /\ 1 <= i /\ i <= Len(s)
  OBVIOUS
<1>1. a \in Seq(S) /\ Len(a) = i - 1 /\ \A j \in 1 .. i - 1 : a[j] = s[j]
  OBVIOUS
<1>2. b \in Seq(S) /\ Len(b) = Len(s) - i /\ \A j \in 1 .. Len(s) - i : b[j] = s[i + j]
  OBVIOUS
<1>3. RemoveAt(s, i) = a \o b
  BY DEF RemoveAt
<1> HIDE DEF a, b
<1>4. /\ Len(a \o b) = Len(s) - 1
      /\ \A j \in 1 .. i - 1 : (a \o b)[j] = s[j]
      /\ \A j \in 1 .. Len(s) - i : (a \o b)[(i - 1) + j] = s[i + j]
  <2>1. /\ Len(a \o b) = Len(a) + Len(b)
        /\ \A j \in 1 .. Len(a) : (a \o b)[j] = a[j]
        /\ \A j \in 1 .. Len(b) : (a \o b)[Len(a) + j] = b[j]
    <3>1. a \in Seq(S) /\ b \in Seq(S)
      BY <1>1, <1>2
    <3> QED BY <3>1, ConcatElements
  <2>2. Len(a \o b) = Len(s) - 1
    BY <1>0, <1>1, <1>2, <2>1
  <2>3. ASSUME NEW j \in 1 .. i - 1 PROVE (a \o b)[j] = s[j]
    BY <1>1, <2>1
  <2>4. ASSUME NEW j \in 1 .. Len(s) - i PROVE (a \o b)[(i - 1) + j] = s[i + j]
    BY <1>1, <1>2, <2>1
  <2> QED BY <2>2, <2>3, <2>4
<1>5. ASSUME NEW j \in 1 .. Len(s) - 1 PROVE (a \o b)[j] = s[IF j < i THEN j ELSE j + 1]
  <2>1. CASE j < i
    BY <1>0, <1>4, <2>1
  <2>2. CASE ~ j < i
    <3>1. (j - i) + 1 \in 1 .. Len(s) - i /\ (i - 1) + ((j - i) + 1) = j /\ i + ((j - i) + 1) = j + 1
      BY <1>0, <2>2
    <3> QED BY <1>4, <2>2, <3>1
  <2> QED BY <2>1, <2>2
<1> QED BY <1>3, <1>4, <1>5

(* Taking up a skipped element again.                                       *)
LEMMA CacheMail ==
  ASSUME MailboxTypeOK, MailInv, NEW i \in DOMAIN cache, cache' = CacheWithout(i),
         UNCHANGED <<stack, mark, head, senderVars, history>>,
         \A m \in Message : replies'[m] # replies[m] => m = cache[i]
  PROVE  /\ MailInv'
         /\ ToSet(cache') = ToSet(cache) \ {cache[i]}
<1> USE DEF senderVars, history
<1>1. cache \in Seq(Message) /\ i \in 1 .. Len(cache) /\ cache[i] \in Message
      /\ Len(cache) \in Nat /\ cache' \in Seq(Message)
  BY RemoveAtType DEF MailboxTypeOK, QueueTypeOK, CacheWithout
<1>2. /\ Len(cache') = Len(cache) - 1
      /\ \A j \in 1 .. Len(cache) - 1 : cache'[j] = cache[IF j < i THEN j ELSE j + 1]
  BY <1>1, RemoveAtElements DEF CacheWithout
<1>3. ArrivalOrder /\ ArrivalOrder'
  BY ArrivalOrderFrame DEF MailInv
<1>4. \E k \in 1 .. Len(arrivals) : arrivals[k] = cache[i]
  BY <1>1, <1>3, InArrivals DEF MailInv, CacheInv
<1>5. ReplyInv'
  BY <1>4, RepliesToArrived
<1>6. ArrivalsInv' /\ PendingInv'
  BY MailFrame
<1> DEFINE at(j) == IF j < i THEN j ELSE j + 1
<1>7. /\ \A j \in 1 .. Len(cache') : at(j) \in 1 .. Len(cache) /\ at(j) # i /\ cache'[j] = cache[at(j)]
      /\ \A j, k \in 1 .. Len(cache') : at(j) = at(k) => j = k
      /\ \A k \in 1 .. Len(cache) : k # i => \E j \in 1 .. Len(cache') : at(j) = k
  <2>1. ASSUME NEW j \in 1 .. Len(cache')
        PROVE  at(j) \in 1 .. Len(cache) /\ at(j) # i /\ cache'[j] = cache[at(j)]
    <3>1. j \in Nat /\ 1 <= j /\ j <= Len(cache) - 1 /\ i \in Nat /\ Len(cache) \in Nat
      BY <1>1, <1>2
    <3>2. at(j) \in 1 .. Len(cache) /\ at(j) # i
      BY <3>1
    <3>3. j \in 1 .. Len(cache) - 1
      BY <3>1
    <3> QED BY <1>2, <3>2, <3>3
  <2>2. \A j, k \in 1 .. Len(cache') : at(j) = at(k) => j = k
    BY <1>1, <1>2
  <2>3. ASSUME NEW k \in 1 .. Len(cache), k # i PROVE \E j \in 1 .. Len(cache') : at(j) = k
    <3>1. CASE k < i
      <4>1. k \in 1 .. Len(cache') /\ at(k) = k
        BY <1>1, <1>2, <3>1
      <4> QED BY <4>1
    <3>2. CASE ~ k < i
      <4>1. k - 1 \in 1 .. Len(cache') /\ at(k - 1) = k
        BY <1>1, <1>2, <2>3, <3>2
      <4> QED BY <4>1
    <3> QED BY <3>1, <3>2
  <2> QED BY <2>1, <2>2, <2>3
<1> HIDE DEF at
<1>8. CacheInv'
  <2>0. \A j, k \in 1 .. Len(cache) : cache[j] = cache[k] => j = k
    BY DEF MailInv, CacheInv
  <2>1. \A j, k \in 1 .. Len(cache') : cache'[j] = cache'[k] => j = k
    <3> SUFFICES ASSUME NEW j \in 1 .. Len(cache'), NEW k \in 1 .. Len(cache'), cache'[j] = cache'[k]
                 PROVE  j = k
      OBVIOUS
    <3>1. at(j) = at(k)
      BY <1>7, <2>0
    <3> QED BY <1>7, <3>1
  <2>2. \A j \in 1 .. Len(cache') : \E k \in 1 .. Len(taken) : taken[k] = cache'[j]
    BY <1>7 DEF MailInv, CacheInv
  <2> QED BY <2>1, <2>2 DEF CacheInv
<1>9. ToSet(cache') = ToSet(cache) \ {cache[i]}
  <2>1. /\ ToSet(cache) = {cache[j] : j \in 1 .. Len(cache)}
        /\ ToSet(cache') = {cache'[j] : j \in 1 .. Len(cache')}
    BY <1>1 DEF ToSet
  <2>2. \A j \in 1 .. Len(cache) : cache[j] = cache[i] => j = i
    BY <1>1 DEF MailInv, CacheInv
  <2>3. ToSet(cache') \subseteq ToSet(cache) \ {cache[i]}
    BY <1>7, <2>1, <2>2
  <2>4. ToSet(cache) \ {cache[i]} \subseteq ToSet(cache')
    <3> SUFFICES ASSUME NEW k \in 1 .. Len(cache), cache[k] # cache[i] PROVE cache[k] \in ToSet(cache')
      BY <2>1
    <3>1. PICK j \in 1 .. Len(cache') : at(j) = k
      BY <1>7
    <3> QED BY <1>7, <2>1, <3>1
  <2> QED BY <2>3, <2>4
<1> QED BY <1>3, <1>5, <1>6, <1>8, <1>9 DEF MailInv

(* The requests among the elements of a list.                               *)
LEMMA RequestsElements ==
  ASSUME NEW s \in Seq(Message)
  PROVE  \A m \in Requests(s) : \E i \in 1 .. Len(s) : s[i] = m
<1>1. DOMAIN s = 1 .. Len(s)
  OBVIOUS
<1> QED BY <1>1, Zenon DEF Requests, ToSet

(* So do the other operations of the reader, if it fetches only when it has *)
(* used up what it fetched before, and never from a closed queue.           *)
LEMMA ReaderMail ==
  ASSUME MailboxTypeOK, MarkInv, MailInv,
         \/ AttachedOp
         \/ FetchNewData /\ head = <<>> /\ mark # NullPtr
         \/ CloseStack /\ head = <<>>
  PROVE  MailInv'
<1> USE DEF queueVars, senderVars, replyVars, history
<1>0. /\ QueueTypeOK /\ ArrivalOrder /\ cache \in Seq(Message) /\ stack \in Seq(Message)
      /\ head \in Seq(Message) /\ taken \in Seq(Message)
  BY DEF MailInv, MailboxTypeOK, QueueTypeOK
<1>1. ASSUME TakeHead PROVE head[1] \in Message
  BY <1>0, <1>1 DEF TakeHead
<1>2. ASSUME NEW STATE m, Answer(m) \/ Throw(m)
      PROVE  \A n \in Message : replies'[n] # replies[n] => n = m
  BY <1>2 DEF Answer, Throw, MailboxTypeOK
<1>3. CASE HandleHead \/ DropHead \/ ThrowHead \/ SkipHead
  <2>1. TakeHead /\ (UNCHANGED cache \/ cache' = Append(cache, head[1]))
    BY <1>3 DEF HandleHead, DropHead, ThrowHead, SkipHead
  <2>2. \A n \in Message : replies'[n] # replies[n] => n = head[1]
    BY <1>2, <1>3 DEF HandleHead, DropHead, ThrowHead, SkipHead
  <2> QED BY <2>1, <2>2, TakeHeadMail
<1>4. CASE InvokeFromCache \/ ThrowFromCache
  <2>1. PICK i \in DOMAIN cache : cache' = CacheWithout(i) /\ (Answer(cache[i]) \/ Throw(cache[i]))
    BY <1>4 DEF InvokeFromCache, ThrowFromCache
  <2>2. \A n \in Message : replies'[n] # replies[n] => n = cache[i]
    BY <1>2, <2>1
  <2>3. UNCHANGED <<stack, mark, head, senderVars, history>>
    BY <1>4 DEF InvokeFromCache, ThrowFromCache
  <2> QED BY <2>1, <2>2, <2>3, CacheMail
<1>5. CASE FetchNewData /\ head = <<>> /\ mark # NullPtr
  <2>1. ArrivalOrder'
    BY <1>0, <1>5, DetachOrder
  <2>2. UNCHANGED <<cache, senderVars, replies, history>> /\ mark # NullPtr
    BY <1>5 DEF FetchNewData
  <2> QED BY <2>1, <2>2, MailFrame DEF MailInv, CacheInv, ReplyInv, Accepted
<1>6. CASE try_block \/ PublishExitReason \/ PlanExit
  <2>1. UNCHANGED <<stack, head, cache, senderVars, replies, history>> /\ (mark' = mark \/ mark # NullPtr)
    BY <1>0, <1>6, TopFacts, QueueAssumption
       DEF try_block, Block, PublishExitReason, PlanExit, MarkInv, QueueAssumption
  <2> QED BY <1>0, <2>1, MailFrame, ArrivalOrderFrame DEF MailInv, CacheInv, ReplyInv, Accepted
<1>7. CASE CloseHead
  <2>1. ArrivalOrder'
    BY <1>0, <1>7, CloseHeadOrder
  <2>2. UNCHANGED <<mark, cache, senderVars, arrivals>> /\ taken' = taken \o head
    BY <1>7 DEF CloseHead
  <2>3. Len(taken') = Len(taken) + Len(head) /\ \A k \in 1 .. Len(taken) : taken'[k] = taken[k]
    BY <1>0, <2>2, ConcatElements
  <2>4. CacheInv'
    <3>1. \A k \in 1 .. Len(taken) : k \in 1 .. Len(taken')
      BY <1>0, <2>3
    <3> QED BY <2>2, <2>3, <3>1 DEF MailInv, CacheInv
  <2>5. \A m \in Message : replies'[m] # replies[m] => m \in Requests(head)
    BY <1>7 DEF CloseHead, sync_request_bouncer, MailboxTypeOK
  <2>6. \A m \in Requests(head) : \E k \in 1 .. Len(arrivals) : arrivals[k] = m
    <3>1. \A m \in Requests(head) : \E i \in 1 .. Len(head) : head[i] = m
      BY <1>0, RequestsElements
    <3>2. \A i \in 1 .. Len(head) : \E k \in 1 .. Len(arrivals) : arrivals[k] = head[i]
      BY <1>0, InArrivals
    <3> QED BY <3>1, <3>2
  <2> QED BY <2>1, <2>2, <2>4, <2>5, <2>6, MailFrame, RepliesToArrived DEF MailInv
<1>8. CASE CloseStack /\ head = <<>>
  <2>1. ArrivalOrder'
    BY <1>0, <1>8, DetachOrder
  <2>2. UNCHANGED <<senderVars, arrivals>> /\ mark' = NullPtr /\ cache' = <<>>
    BY <1>8 DEF CloseStack, Detach
  <2>3. ArrivalsInv' /\ PendingInv'
    BY <2>2 DEF MailInv, ArrivalsInv, PendingInv, Accepted
  <2>4. CacheInv'
    BY <2>2 DEF CacheInv
  <2>5. \A m \in Message : replies'[m] # replies[m] => m \in Requests(stack) \cup Requests(cache)
    BY <1>8 DEF CloseStack, ClosingBounces, sync_request_bouncer, MailboxTypeOK
  <2>6. \A m \in Requests(stack) \cup Requests(cache) : \E k \in 1 .. Len(arrivals) : arrivals[k] = m
    <3>1. /\ \A m \in Requests(stack) : \E i \in 1 .. Len(stack) : stack[i] = m
          /\ \A m \in Requests(cache) : \E i \in 1 .. Len(cache) : cache[i] = m
      BY <1>0, RequestsElements
    <3>2. \A i \in 1 .. Len(cache) : \E k \in 1 .. Len(arrivals) : arrivals[k] = cache[i]
      BY <1>0, InArrivals DEF MailInv, CacheInv
    <3>3. \A i \in 1 .. Len(stack) : \E k \in 1 .. Len(arrivals) : arrivals[k] = stack[i]
      BY <1>0, InArrivals
    <3>4. \A m \in Requests(stack) : \E k \in 1 .. Len(arrivals) : arrivals[k] = m
      BY <3>1, <3>3
    <3>5. \A m \in Requests(cache) : \E k \in 1 .. Len(arrivals) : arrivals[k] = m
      BY <3>1, <3>2
    <3> QED BY <3>4, <3>5
  <2> QED BY <2>1, <2>2, <2>3, <2>4, <2>5, <2>6, RepliesToArrived DEF MailInv
<1> QED BY <1>3, <1>4, <1>5, <1>6, <1>7, <1>8 DEF AttachedOp

-----------------------------------------------------------------------------
(***************************************************************************)
(* What the operations do to the mailbox as ActorContract sees it: the     *)
(* inbox is what was fetched followed by what was not, oldest first.       *)
(***************************************************************************)
Inbox == head \o Reverse(stack)

ReplyTo(ms) ==
  replies' = [m \in Message |-> IF m \in ms /\ m.req THEN replies[m] + 1 ELSE replies[m]]

(* The parts of the inbox are sequences of messages.                        *)
LEMMA InboxType ==
  ASSUME MailboxTypeOK
  PROVE  /\ head \in Seq(Message) /\ Reverse(stack) \in Seq(Message) /\ Inbox \in Seq(Message)
         /\ Len(Inbox) = Len(head) + Len(stack)
         /\ Len(head) \in Nat /\ Len(stack) \in Nat
<1>1. head \in Seq(Message) /\ stack \in Seq(Message)
  BY DEF MailboxTypeOK, QueueTypeOK
<1>2. Reverse(stack) \in Seq(Message) /\ Len(Reverse(stack)) = Len(stack)
  BY <1>1, ReverseType
<1> QED BY <1>1, <1>2 DEF Inbox

(* A push appends to the inbox.                                             *)
LEMMA PushInbox ==
  ASSUME MailboxTypeOK, NEW p \in Sender, EnqueueCas(p)
  PROVE  msg[p] \in Message /\ Inbox' = Append(Inbox, msg[p])
<1>1. msg[p] \in Message /\ stack \in Seq(Message)
  BY DEF EnqueueCas, MailboxTypeOK, QueueTypeOK
<1>2. Reverse(stack') = Append(Reverse(stack), msg[p]) /\ head' = head
  BY <1>1, ReversePush DEF EnqueueCas, Push
<1>3. head \o Append(Reverse(stack), msg[p]) = Append(head \o Reverse(stack), msg[p])
  <2>1. head \in Seq(Message) /\ Reverse(stack) \in Seq(Message)
    BY InboxType
  <2> QED BY <1>1, <2>1, ConcatAppend
<1> QED BY <1>1, <1>2, <1>3 DEF Inbox

(* The reader takes the oldest element of the inbox.                        *)
LEMMA TakeInbox ==
  ASSUME MailboxTypeOK, TakeHead
  PROVE  Inbox # <<>> /\ Inbox[1] = head[1] /\ head[1] \in Message /\ Inbox' = Tail(Inbox)
<1>1. head \in Seq(Message) /\ Reverse(stack) \in Seq(Message) /\ head # <<>>
  BY InboxType DEF TakeHead
<1>2. \A s, r \in Seq(Message) : s # <<>> =>
        /\ s \o r # <<>> /\ (s \o r)[1] = s[1] /\ s[1] \in Message /\ Tail(s \o r) = Tail(s) \o r
  <2> SUFFICES ASSUME NEW s \in Seq(Message), NEW r \in Seq(Message), s # <<>>
               PROVE  /\ s \o r # <<>> /\ (s \o r)[1] = s[1] /\ s[1] \in Message
                      /\ Tail(s \o r) = Tail(s) \o r
    OBVIOUS
  <2>1. s \o r \in Seq(Message) /\ Len(s \o r) = Len(s) + Len(r) /\ Len(s) > 0 /\ Len(r) >= 0
    OBVIOUS
  <2>2. s \o r # <<>> /\ (s \o r)[1] = s[1] /\ s[1] \in Message
    BY <2>1
  <2>3. Tail(s \o r) = Tail(s) \o r
    <3>1. /\ Tail(s \o r) \in Seq(Message) /\ Tail(s) \in Seq(Message) /\ Tail(s) \o r \in Seq(Message)
          /\ Len(Tail(s \o r)) = Len(s) + Len(r) - 1 /\ Len(Tail(s)) = Len(s) - 1
          /\ Len(Tail(s) \o r) = Len(s) + Len(r) - 1
      BY <2>1, <2>2
    <3>2. \A i \in 1 .. Len(s) + Len(r) - 1 : Tail(s \o r)[i] = (Tail(s) \o r)[i]
      BY <2>1, <2>2, <3>1
    <3> QED BY <3>1, <3>2, SeqEqual
  <2> QED BY <2>2, <2>3
<1>3. head' = Tail(head) /\ stack' = stack
  BY DEF TakeHead
<1>4. /\ head \o Reverse(stack) # <<>> /\ (head \o Reverse(stack))[1] = head[1] /\ head[1] \in Message
      /\ Tail(head \o Reverse(stack)) = Tail(head) \o Reverse(stack)
  BY <1>1, <1>2, Zenon
<1>5. Inbox' = Tail(head) \o Reverse(stack)
  BY <1>3 DEF Inbox
<1> QED BY <1>4, <1>5 DEF Inbox

(* Fetching moves nothing into or out of the inbox.                         *)
LEMMA FetchInbox ==
  ASSUME MailboxTypeOK, FetchNewData, head = <<>>
  PROVE  Inbox' = Inbox
<1>1. head' = Reverse(stack) /\ stack' = <<>> /\ Reverse(stack) \in Seq(Message)
  BY InboxType DEF FetchNewData, Detach, Fetched
<1>2. Reverse(stack') = <<>>
  BY <1>1 DEF Reverse
<1> QED BY <1>1, <1>2 DEF Inbox

(* Answering one element.                                                   *)
LEMMA AnswerReplies ==
  ASSUME MailboxTypeOK, NEW STATE m, m \in Message, Answer(m)
  PROVE  ReplyTo({m})
<1>1. replies \in [Message -> Nat]
  BY DEF MailboxTypeOK
<1>2. replies' \in [Message -> Nat]
  BY AnswerType
<1>3. \A n \in Message : replies'[n] = IF n \in {m} /\ n.req THEN replies[n] + 1 ELSE replies[n]
  BY <1>1 DEF Answer
<1> QED BY <1>2, <1>3 DEF ReplyTo

(* Skipping one.                                                            *)
LEMMA AppendToSet ==
  ASSUME NEW S, NEW s \in Seq(S), NEW m \in S
  PROVE  ToSet(Append(s, m)) = ToSet(s) \cup {m}
<1>1. /\ DOMAIN s = 1 .. Len(s) /\ Len(s) \in Nat /\ DOMAIN Append(s, m) = 1 .. Len(s) + 1
      /\ Append(s, m)[Len(s) + 1] = m /\ \A i \in 1 .. Len(s) : Append(s, m)[i] = s[i]
  OBVIOUS
<1>2. \A i \in 1 .. Len(s) + 1 : i \in 1 .. Len(s) \/ i = Len(s) + 1
  BY <1>1
<1>3. Len(s) + 1 \in 1 .. Len(s) + 1 /\ \A i \in 1 .. Len(s) : i \in 1 .. Len(s) + 1
  BY <1>1
<1> QED BY <1>1, <1>2, <1>3 DEF ToSet

(* Closing bounces first what was fetched ...                               *)
LEMMA CloseHeadInbox ==
  ASSUME MailboxTypeOK, CloseHead
  PROVE  /\ head = <<>> => UNCHANGED <<replies, Inbox>>
         /\ head # <<>> => \E k \in 1 .. Len(Inbox) :
                             /\ ReplyTo(ToSet(SubSeq(Inbox, 1, k)))
                             /\ Inbox' = SubSeq(Inbox, k + 1, Len(Inbox))
<1>1. /\ head \in Seq(Message) /\ Reverse(stack) \in Seq(Message)
      /\ Len(head) \in Nat /\ Len(Reverse(stack)) \in Nat
  BY InboxType
<1>2. head' = <<>> /\ stack' = stack /\ replies \in [Message -> Nat]
      /\ replies' = [m \in Message |-> IF m \in Requests(head) THEN replies[m] + 1 ELSE replies[m]]
  BY DEF CloseHead, sync_request_bouncer, MailboxTypeOK
<1>3. Inbox' = Reverse(stack)
  BY <1>1, <1>2 DEF Inbox
<1>4. CASE head = <<>>
  <2>1. Requests(head) = {}
    BY <1>4 DEF Requests, ToSet
  <2>2. replies' = replies
    BY <1>2, <2>1
  <2> QED BY <1>1, <1>3, <1>4, <2>2 DEF Inbox
<1>5. CASE head # <<>>
  <2> DEFINE r == Reverse(stack)
             k == Len(head)
  <2> HIDE DEF r
  <2>1. r \in Seq(Message) /\ Inbox = head \o r /\ Inbox' = r
    BY <1>1, <1>3 DEF r, Inbox
  <2>2. k \in 1 .. Len(Inbox) /\ Len(Inbox) = Len(head) + Len(r)
    BY <1>1, <1>5, <2>1
  <2>3. SubSeq(head \o r, 1, Len(head)) = head
    BY <1>1, <2>1
  <2>4. SubSeq(head \o r, Len(head) + 1, Len(head) + Len(r)) = r
    BY <1>1, <2>1
  <2>5. ReplyTo(ToSet(head))
    <3>1. \A m \in Message : m \in Requests(head) <=> m \in ToSet(head) /\ m.req
      BY DEF Requests
    <3> QED BY <1>2, <3>1 DEF ReplyTo
  <2>6. ReplyTo(ToSet(SubSeq(Inbox, 1, k)))
    BY <2>1, <2>3, <2>5
  <2>7. Inbox' = SubSeq(Inbox, k + 1, Len(Inbox))
    BY <2>1, <2>2, <2>4
  <2> QED BY <1>5, <2>2, <2>6, <2>7
<1> QED BY <1>4, <1>5

(* ... and then all the rest.                                               *)
LEMMA CloseStackInbox ==
  ASSUME MailboxTypeOK, CloseStack, head = <<>>
  PROVE  ReplyTo(ToSet(Inbox) \cup ToSet(cache)) /\ Inbox' = <<>> /\ ToSet(cache') = {}
<1>1. /\ stack \in Seq(Message) /\ Reverse(stack) \in Seq(Message) /\ replies \in [Message -> Nat]
      /\ stack' = <<>> /\ head' = <<>> /\ cache' = <<>>
      /\ replies' = [m \in Message |->
                       IF m \in Requests(stack) \cup Requests(cache) THEN replies[m] + 1 ELSE replies[m]]
  BY InboxType DEF CloseStack, Detach, ClosingBounces, sync_request_bouncer, MailboxTypeOK,
     QueueTypeOK
<1>2. Inbox' = <<>> /\ ToSet(cache') = {}
  <2>1. Reverse(stack') = <<>>
    BY <1>1 DEF Reverse
  <2> QED BY <1>1, <2>1 DEF Inbox, ToSet
<1>3. ToSet(Inbox) = ToSet(stack)
  <2>1. Inbox = Reverse(stack)
    BY <1>1 DEF Inbox
  <2>2. /\ Len(Reverse(stack)) = Len(stack) /\ Len(stack) \in Nat
        /\ \A i \in 1 .. Len(stack) : Reverse(stack)[i] = stack[(Len(stack) - i) + 1]
    BY <1>1 DEF Reverse
  <2>3. \A i \in 1 .. Len(stack) : /\ (Len(stack) - i) + 1 \in 1 .. Len(stack)
                                  /\ (Len(stack) - ((Len(stack) - i) + 1)) + 1 = i
    BY <2>2
  <2>4. /\ ToSet(stack) = {stack[i] : i \in 1 .. Len(stack)}
        /\ ToSet(Reverse(stack)) = {Reverse(stack)[i] : i \in 1 .. Len(stack)}
    <3>1. DOMAIN stack = 1 .. Len(stack) /\ DOMAIN Reverse(stack) = 1 .. Len(stack)
      BY <1>1, <2>2
    <3> QED BY <3>1, Zenon DEF ToSet
  <2>5. ToSet(Reverse(stack)) \subseteq ToSet(stack)
    BY <2>2, <2>3, <2>4
  <2>6. ToSet(stack) \subseteq ToSet(Reverse(stack))
    <3> SUFFICES ASSUME NEW i \in 1 .. Len(stack) PROVE stack[i] \in ToSet(Reverse(stack))
      BY <2>4
    <3> DEFINE j == (Len(stack) - i) + 1
    <3>1. j \in 1 .. Len(stack) /\ (Len(stack) - j) + 1 = i
      BY <2>3
    <3>2. Reverse(stack)[j] = stack[i]
      BY <2>2, <3>1
    <3> QED BY <2>4, <3>1, <3>2
  <2> QED BY <2>1, <2>5, <2>6
<1>4. ReplyTo(ToSet(stack) \cup ToSet(cache))
  <2>1. \A m \in Message : m \in Requests(stack) \cup Requests(cache) <=>
                            m \in ToSet(stack) \cup ToSet(cache) /\ m.req
    BY DEF Requests
  <2> QED BY <1>1, <2>1 DEF ReplyTo
<1> QED BY <1>2, <1>3, <1>4
=============================================================================
