------------------------------ MODULE Requests ------------------------------
(***************************************************************************)
(* Synchronous messaging of one event-based actor: message ids and their   *)
(* flags, the list of pending responses, idle and response timeouts, the   *)
(* cache of skipped messages, the priority-aware mailbox, system messages  *)
(* (info, migrate, restore) and the promises that answer a request later.  *)
(*                                                                         *)
(* The actor runs local_actor::resume.  Its environment is the clients     *)
(* that send it messages and requests, one server that it sends requests   *)
(* to, and the timer actor.  Durations are left out: a timer may fire at   *)
(* any time after it was requested.                                        *)
(***************************************************************************)
EXTENDS Integers, Sequences, FiniteSets, SequencesExt

CONSTANTS
  IdBits,      \* width of request_id_mask
  Clients,     \* the requests that clients send, 1 .. n
  Notes,       \* content of the asynchronous messages clients send
  MaxMail,     \* bound: messages and requests sent to the actor
  MaxAsks,     \* bound: requests that the actor's handlers send
  MaxFires,    \* bound: timer expirations
  Kinds,       \* content of the requests clients send
  Reactions,   \* what the actor's message handlers do
  Priorities,  \* priorities the actor uses with sync_send
  Urgencies,   \* priorities the clients use
  Modes        \* kinds of actor: subset of {"plain", "aware", "stateful"}

ASSUME BoundsAssumption ==
  /\ IdBits \in Nat /\ MaxAsks \in Nat
  /\ MaxAsks + Cardinality(Clients) < 2^IdBits
  /\ Clients \subseteq 1 .. (2^IdBits - 1) /\ IsFiniteSet(Clients)

VARIABLES
  mbox,     \* elements in the mailbox, in arrival order
  first,    \* cache, first partition: fetched by a priority-aware actor
  cache,    \* cache, second partition: skipped messages
  pc,       \* "idle" (awaiting_message), "run", "cache", or "dead"
  ci,       \* position of invoke_from_cache
  handled,  \* handled_msgs > 0 in this resume
  s,        \* the other fields of local_actor and the timers
  env       \* the server's requests, answers to the clients, and bounds

vars == <<mbox, first, cache, pc, ci, handled, s, env>>
------------------------------------------------------------------------------
(* message_id: a request id below three flag bits *)

High == 2^IdBits
Answered == 2 * High
Response == 2 * Answered

Has(mid, flag) == (mid \div flag) % 2 = 1
With(mid, flag) == IF Has(mid, flag) THEN mid ELSE mid + flag
request_id(mid) == mid % High
is_request(mid) == request_id(mid) # 0 /\ ~Has(mid, Response)
response_id(mid) == IF is_request(mid) THEN With(mid, Response) ELSE 0
Prioritized(mid, mp) == IF mp = "high" THEN With(mid, High) ELSE mid

Element(mid, kind) == [mid |-> mid, kind |-> kind, tid |-> 0]
timeout_msg(tid) == [mid |-> 0, kind |-> "timeout", tid |-> tid]
------------------------------------------------------------------------------
(* Behaviors.  "promise" is the request the handler will answer.  A chained *)
(* handler is "wrapped": others >> [..] takes whatever message arrives and  *)
(* shows it to the handler of that name inside.                             *)

Behavior(name, timed, promise) ==
  [name |-> name, timed |-> timed, promise |-> promise, wrapped |-> FALSE]
Main == Behavior("main", TRUE, 0)       \* has an after(...) clause
Alt == Behavior("alt", FALSE, 0)
Proxy == Behavior("proxy", FALSE, 0)    \* what a migrated actor decays into
Unset == Behavior("unset", FALSE, 0)    \* behavior{}

(* Whether a handler of the user runs for the message *)
Accepts(b, kind) ==
  CASE b.name = "main" -> kind \in {"job", "go"}
    [] b.name = "alt" -> kind = "go"
    [] b.name = "proxy" -> TRUE
    [] b.name = "ask" -> kind = "ok"
    [] b.name = "unset" -> FALSE
    [] OTHER -> kind \in {"ok", "error"}
------------------------------------------------------------------------------
(* Timeouts *)

request_timeout(st, b) ==
  IF ~b.timed THEN [st EXCEPT !.has_timeout = FALSE]
  ELSE [st EXCEPT !.has_timeout = TRUE, !.timeout_id = @ + 2,
                  !.timers = @ \cup {timeout_msg(st.timeout_id + 2)}]

is_active_timeout(st, tid) == st.has_timeout /\ st.timeout_id = tid
------------------------------------------------------------------------------
(* Pending responses: the newest request is at the front *)

awaits(st, mid) == \E i \in DOMAIN st.pending : st.pending[i].rid = mid
awaited_response_id(st) == IF st.pending = <<>> THEN 0 ELSE st.pending[1].rid
get_behavior(st) ==
  IF st.pending = <<>> THEN Last(st.stack) ELSE st.pending[1].bhvr
KeepArrived(st, mid) == st      \* mutant: the entry stays
mark_arrived(st, mid) ==
  [st EXCEPT !.pending = SelectSeq(@, LAMBDA p : p.rid # mid)]

new_request_id(st, mp) ==
  [st EXCEPT !.last_request_id = @ + 1,
             !.pending = <<[rid |-> response_id(st.last_request_id + 1),
                            bhvr |-> Unset]>> \o @]

request_sync_timeout_msg(st, mid) ==
  [st EXCEPT !.timers = @ \cup {Element(mid, "sync_timeout")}]

set_response_handler(st, mid, bhvr) ==
  IF ~awaits(st, mid) THEN st
  ELSE [(IF bhvr.timed THEN request_sync_timeout_msg(st, mid) ELSE st)
        EXCEPT !.pending = [i \in DOMAIN @ |->
                 IF @[i].rid = mid THEN [@[i] EXCEPT !.bhvr = bhvr] ELSE @[i]]]

then(st, mid, bhvr) == set_response_handler(st, mid, bhvr)

(* sync_send(mp, server, ...).then(bhvr); the request leaves in st.sent *)
sync_send(st, mp, bhvr) ==
  LET mid == Prioritized(st.last_request_id + 1, mp)
      asked == [new_request_id(st, mp) EXCEPT !.sent = @ \cup {mid}]
  IN  then(asked, response_id(mid), bhvr)

do_become(st, bhvr, discard_old) ==
  [request_timeout(st, bhvr) EXCEPT
     !.stack = Append(IF discard_old THEN Front(@) ELSE @, bhvr)]

(* response_promise::deliver: a promise made for an asynchronous message   *)
(* or a response has no valid id, its message is no answer                 *)
deliver(st, mid) ==
  IF request_id(mid) = 0 THEN st
  ELSE [st EXCEPT !.answers[request_id(mid)] = @ + 1]
------------------------------------------------------------------------------
(* What a handler does with message e, r \in Reactions, and what invoking  *)
(* it makes of its result (post_process_invoke_res)                        *)

Asks(r) == CASE r \in {"ask", "ask_timed", "chain", "chain_timed"} -> 1
             [] r = "ask_twice" -> 2
             [] OTHER -> 0

(* mutant: the promise is made but the handler is not wrapped *)
LosePromise(st, promise) == st

(* continue_helper: the id of the request a handler returned; the handler  *)
(* is wrapped in one without timeout that delivers its result to promise   *)
handle_message_id_res(st, promise) ==
  LET mid == response_id(st.last_request_id)
      chain(b) == [b EXCEPT !.timed = FALSE, !.promise = promise, !.wrapped = TRUE]
  IN  [st EXCEPT !.pending = [i \in DOMAIN @ |->
         IF @[i].rid = mid THEN [@[i] EXCEPT !.bhvr = chain(@)] ELSE @[i]]]

(* return sync_send(...).then(...): the handler takes every response, or    *)
(* has a timeout and takes only the expected one                            *)
Chains == {"chain", "chain_timed"}
Chain(st, r, mp, promise) ==
  handle_message_id_res(
    sync_send(st, mp, IF r = "chain" THEN Behavior("chain", FALSE, 0)
                      ELSE Behavior("ask", TRUE, 0)), promise)

React(st, r, mp, e) ==
  LET promise == IF is_request(e.mid) THEN request_id(e.mid) ELSE 0
      ask(x, name, timed) == sync_send(x, mp, Behavior(name, timed, 0))
  IN  CASE r = "void" -> deliver(st, promise)
        [] r = "become" ->
             deliver(do_become(st, IF Last(st.stack) = Main THEN Alt ELSE Main,
                               TRUE), promise)
        [] r = "ask" -> deliver(ask(st, "ask", FALSE), promise)
        [] r = "ask_twice" ->
             deliver(ask(ask(st, "ask", TRUE), "ask", FALSE), promise)
        [] r = "ask_timed" -> deliver(ask(st, "ask", TRUE), promise)
        [] r \in Chains -> Chain(st, r, mp, promise)
        [] r = "forward" -> [st EXCEPT !.forwarded = @ \cup ({promise} \ {0})]

(* How the handler of a response reacts: its result goes to its promise,   *)
(* the handlers of a migration answer the migrate request                  *)
ReactToResponse(st, b, r, mp, e) ==
  CASE b.name = "migrate" /\ e.kind = "ok" ->
         [do_become(deliver(st, b.promise), Proxy, FALSE) EXCEPT
            !.is_migrated_from = TRUE]
    [] b.name = "migrate" /\ e.kind = "error" -> deliver(st, b.promise)
    [] b.name # "migrate" /\ r \in Chains -> Chain(st, r, mp, b.promise)
    [] OTHER -> deliver(React(st, r, mp, e), b.promise)

ResponseReactions(b) ==
  IF b.name = "migrate" THEN {"void"} ELSE Reactions \cap ({"void", "ask"} \cup Chains)
------------------------------------------------------------------------------
(* filter_msg: system messages are handled here, whatever the actor awaits *)

IsSystem(e) == e.kind \in {"info", "migrate", "restore"}

(* Actors spawned with priority_aware and stateful actors whose state can  *)
(* be serialized: both set the same bit of flags_                          *)
is_priority_aware(mode) == mode \in {"aware", "stateful"}
is_serializable(mode) == is_priority_aware(mode)

(* save_state and load_state of an actor without such a state throw *)
SystemMessage(st, e, mode) ==
  CASE e.kind = "info" \/ ~is_serializable(mode) -> deliver(st, e.mid)
    [] e.kind # "info" /\ mode = "aware" -> [st EXCEPT !.quit = TRUE]
    [] e.kind = "migrate" /\ mode = "stateful" ->
         sync_send(st, "normal", Behavior("migrate", FALSE, request_id(e.mid)))
    [] e.kind = "restore" /\ mode = "stateful" ->
         deliver([st EXCEPT
                    !.stack = IF st.is_migrated_from THEN Front(@) ELSE @,
                    !.lapsed = @ \/ st.is_migrated_from,
                    !.is_migrated_from = FALSE], e.mid)

filter_msg(st, e) ==
  CASE Has(e.mid, Response) ->
         IF awaits(st, e.mid) THEN "sync_response" ELSE "expired_sync_response"
    [] ~Has(e.mid, Response) /\ IsSystem(e) -> "sys_message"
    [] ~Has(e.mid, Response) /\ e.kind = "timeout" ->
         IF is_active_timeout(st, e.tid) THEN "timeout" ELSE "expired_timeout"
    [] OTHER -> "ordinary"

(* One call of invoke_message(e, bhvr, awaited): the possible results, as  *)
(* records [res, st].  A timeout handler may change the behavior.          *)
Dropped(st) == {[res |-> "dropped", st |-> st]}
Skipped(st) == {[res |-> "skipped", st |-> st]}
Success(st) == [res |-> "success", st |-> st]

MayAsk(st, r) == st.last_request_id + Asks(r) <= MaxAsks

handle_timeout(st, bhvr) ==
  {Success(st)} \cup
  (IF bhvr.timed /\ "become" \in Reactions
   THEN {Success(do_become(st, Alt, TRUE))} ELSE {})

Called(st, mid) == [st EXCEPT !.calls[request_id(mid)] = @ + 1]

(* The entry goes although no handler ran for the response or its timeout  *)
Unheard(st, mid, b) ==
  [st EXCEPT !.unheard = @ \cup
     {[id |-> request_id(mid), promise |-> b.promise, chained |-> b.wrapped]}]

invoke_response(st, e, bhvr) ==
  LET arrived(x) == Success(mark_arrived(x, e.mid))
  IN  IF e.kind = "sync_timeout"
      THEN {arrived(IF bhvr.timed THEN Called(st, e.mid)
                    ELSE Unheard(st, e.mid, bhvr))}
      ELSE IF Accepts(bhvr, e.kind)
      THEN {arrived(ReactToResponse(Called(st, e.mid), bhvr, r, mp, e)) :
              r \in {x \in ResponseReactions(bhvr) : MayAsk(st, x)},
              mp \in Priorities}
      ELSE IF bhvr.wrapped THEN {arrived(Unheard(st, e.mid, bhvr))}
      ELSE {arrived([st EXCEPT !.quit = TRUE])}       \* handle_sync_failure

invoke_ordinary(st, e, bhvr) ==
  LET untimed == [st EXCEPT !.has_timeout = FALSE]
      rs == IF bhvr.name = "proxy" THEN {"forward"}
            ELSE {r \in Reactions : MayAsk(st, r)}
  IN  IF ~Accepts(bhvr, e.kind) THEN Skipped(st)
      ELSE {Success(React(untimed, r, mp, e)) : r \in rs, mp \in Priorities}

invoke_message(st, e, bhvr, awaited, mode) ==
  LET type == filter_msg(st, e)
  IN  CASE type \in {"expired_sync_response", "expired_timeout"} -> Dropped(st)
        [] type = "sys_message" -> Dropped(SystemMessage(st, e, mode))
        [] type = "timeout" ->
             IF awaited = 0 THEN handle_timeout(st, bhvr) ELSE Dropped(st)
        [] type = "sync_response" ->
             IF e.mid = awaited THEN invoke_response(st, e, bhvr) ELSE Skipped(st)
        [] type = "ordinary" ->
             IF awaited = 0 THEN invoke_ordinary(st, e, bhvr) ELSE Skipped(st)
------------------------------------------------------------------------------
Init ==
  \E mode \in Modes :
    /\ mbox = <<>> /\ first = <<>> /\ cache = <<>>
    /\ pc = "idle" /\ ci = 1 /\ handled = FALSE
    /\ s = request_timeout(
             [stack |-> <<Main>>, pending |-> <<>>, last_request_id |-> 0,
              has_timeout |-> FALSE, timeout_id |-> 0, timers |-> {},
              sent |-> {}, quit |-> FALSE, is_migrated_from |-> FALSE,
              lapsed |-> FALSE, forwarded |-> {}, unheard |-> {},
              answers |-> [c \in Clients |-> 0],
              calls |-> [k \in 1 .. MaxAsks + Cardinality(Clients) |-> 0]], Main)
    /\ env = [mode |-> mode, requested |-> {}, notes |-> 0, fires |-> 0]

(* Enqueueing to a dead actor bounces a request *)
enqueue(e, st) ==
  IF pc = "dead"
  THEN s' = (IF is_request(e.mid) THEN deliver(st, e.mid) ELSE st)
       /\ UNCHANGED mbox
  ELSE mbox' = Append(mbox, e) /\ s' = st

MayMail == env.notes + Cardinality(env.requested) < MaxMail

ClientNote(kind) ==
  /\ MayMail
  /\ env' = [env EXCEPT !.notes = @ + 1]
  /\ enqueue(Element(0, kind), s)
  /\ UNCHANGED <<first, cache, pc, ci, handled>>

ClientRequest(c, kind, mp) ==
  /\ MayMail
  /\ mp = "high" => is_priority_aware(env.mode)       \* other mailboxes ignore it
  /\ env.requested = Clients \cap (1 .. c - 1)     \* in the order of their ids
  /\ env' = [env EXCEPT !.requested = @ \cup {c}]
  /\ enqueue(Element(Prioritized(c, mp), kind), s)
  /\ UNCHANGED <<first, cache, pc, ci, handled>>

(* The server answers, or its bouncer does when it is dead: an error       *)
ServerReply(mid, kind) ==
  /\ mid \in s.sent
  /\ enqueue(Element(response_id(mid), kind), [s EXCEPT !.sent = @ \ {mid}])
  /\ UNCHANGED <<first, cache, pc, ci, handled, env>>

(* The timer actor delivers a delayed message *)
TimerFires(e) ==
  /\ e \in s.timers /\ env.fires < MaxFires
  /\ env' = [env EXCEPT !.fires = @ + 1]
  /\ enqueue(e, [s EXCEPT !.timers = @ \ {e}])
  /\ UNCHANGED <<first, cache, pc, ci, handled>>
------------------------------------------------------------------------------
(* local_actor::cleanup: the mailbox closes and bounces every request in it *)
RequestsIn(q) == {request_id(q[i].mid) : i \in {j \in DOMAIN q : is_request(q[j].mid)}}

cleanup(st) ==
  /\ s' = [st EXCEPT !.pending = <<>>,
             !.answers = [c \in Clients |->
                IF c \in RequestsIn(mbox') \cup RequestsIn(first') \cup RequestsIn(cache')
                THEN @[c] + 1 ELSE @[c]]]
  /\ pc' = "dead"

(* next_message: a priority-aware actor fetches its whole mailbox unless a *)
(* message of high priority waits in the cache already                     *)
IsHigh(e) == Has(e.mid, High)
IsLow(e) == ~IsHigh(e)
next_message ==
  LET fetch == is_priority_aware(env.mode) /\ (first = <<>> \/ IsLow(Head(first)))
      all == IF fetch THEN SelectSeq(mbox, IsHigh) \o first \o SelectSeq(mbox, IsLow)
             ELSE first
  IN  IF is_priority_aware(env.mode) THEN [from |-> all, left |-> IF fetch THEN <<>> ELSE mbox]
      ELSE [from |-> mbox, left |-> <<>>]

(* push_to_cache: behind the skipped messages of at least its priority *)
push_to_cache(e) ==
  IF is_priority_aware(env.mode)
  THEN SelectSeq(cache, IsHigh) \o
       (IF IsHigh(e) THEN <<e>> \o SelectSeq(cache, IsLow)
                     ELSE Append(SelectSeq(cache, IsLow), e))
  ELSE Append(cache, e)

(* One iteration of resume's loop: take the next message and invoke it *)
Resume ==
  /\ pc \in {"idle", "run"} /\ mbox \o first # <<>>
  /\ LET next == next_message
         e == Head(next.from)
     IN \E r \in invoke_message(s, e, get_behavior(s), awaited_response_id(s),
                                env.mode) :
          /\ IF is_priority_aware(env.mode)
             THEN first' = Tail(next.from) /\ mbox' = next.left
             ELSE mbox' = Tail(next.from) /\ UNCHANGED first
          /\ cache' = IF r.res = "skipped" THEN push_to_cache(e) ELSE cache
          /\ handled' = (handled \/ r.res = "success")
          /\ ci' = 1
          /\ IF r.st.quit THEN cleanup(r.st)
             ELSE /\ s' = r.st
                  /\ pc' = IF r.res = "success" THEN "cache" ELSE "run"
  /\ UNCHANGED env

(* One iteration of the loop over the cache; a success starts it afresh *)
InvokeFromCache ==
  /\ pc = "cache" /\ ci <= Len(cache)
  /\ \E r \in invoke_message(s, cache[ci], get_behavior(s),
                             awaited_response_id(s), env.mode) :
       /\ cache' = IF r.res = "skipped" THEN cache ELSE RemoveAt(cache, ci)
       /\ ci' = CASE r.res = "skipped" -> ci + 1
                  [] r.res = "dropped" -> ci
                  [] r.res = "success" -> 1
       /\ UNCHANGED <<mbox, first, handled, env>>
       /\ IF r.st.quit THEN cleanup(r.st) ELSE s' = r.st /\ UNCHANGED pc

(* mutant: a handled message does not lead to a scan of the cache *)
SkipCache ==
  /\ pc = "cache"
  /\ pc' = "run" /\ ci' = 1
  /\ UNCHANGED <<mbox, first, cache, handled, s, env>>

CacheDone ==
  /\ pc = "cache" /\ ci > Len(cache)
  /\ pc' = "run" /\ ci' = 1
  /\ UNCHANGED <<mbox, first, cache, handled, s, env>>

(* mutant: the timeout is not requested again *)
LeaveTimeout == s' = s /\ handled' = FALSE

reset_timeout_if_needed ==
  /\ s' = IF handled THEN [request_timeout(s, get_behavior(s)) EXCEPT !.lapsed = FALSE]
          ELSE s
  /\ handled' = FALSE

(* The mailbox is empty: wait for the next message *)
Block ==
  /\ pc = "run" /\ mbox \o first = <<>>
  /\ reset_timeout_if_needed
  /\ pc' = "idle"
  /\ UNCHANGED <<mbox, first, cache, ci, env>>

(* The actor used up max_throughput and is resumed later *)
Yield ==
  /\ pc = "run" /\ handled /\ mbox \o first # <<>>
  /\ reset_timeout_if_needed
  /\ UNCHANGED <<mbox, first, cache, pc, ci, env>>

Next ==
  \/ \E kind \in Notes : ClientNote(kind)
  \/ \E c \in Clients, kind \in Kinds, mp \in Urgencies : ClientRequest(c, kind, mp)
  \/ \E mid \in s.sent, kind \in {"ok", "error"} : ServerReply(mid, kind)
  \/ \E e \in s.timers : TimerFires(e)
  \/ Resume \/ InvokeFromCache \/ CacheDone \/ Block \/ Yield

Spec == Init /\ [][Next]_vars
------------------------------------------------------------------------------
alive == pc # "dead"
Count(q, P(_)) == Cardinality({i \in DOMAIN q : P(q[i])})

(* Every request the actor sent is either still pending or its handler ran *)
(* exactly once, whatever the order of reply, bounce and sync timeout.     *)
(* Only a chained handler may be passed over: its wrapper has no timeout   *)
(* (local_actor.cpp:345-356, 447-449) and swallows a response that the     *)
(* handler inside does not match (351-354).                                *)
HandledOnce ==
  alive => \A k \in 1 .. s.last_request_id :
    s.calls[k] + Count(s.pending, LAMBDA p : request_id(p.rid) = k)
      + Cardinality({u \in s.unheard : u.id = k /\ u.chained}) = 1

(* No client's request is lost or answered twice: it waits in the mailbox, *)
(* is owed by one chained handler, was forwarded, or was answered once;    *)
(* or the chained handler that owed the answer was passed over, in which   *)
(* case the code never answers it.                                         *)
AnswersAccounted ==
  alive => \A c \in env.requested :
    LET waits(e) == is_request(e.mid) /\ request_id(e.mid) = c
    IN  s.answers[c]
        + Count(mbox, waits) + Count(first, waits) + Count(cache, waits)
        + Count(s.pending, LAMBDA p : p.bhvr.promise = c)
        + (IF c \in s.forwarded THEN 1 ELSE 0)
        + Cardinality({u \in s.unheard : u.promise = c /\ u.chained}) = 1

(* An actor that goes to sleep under a behavior with a timeout has a timer *)
(* running, or expired and in its mailbox, that it will not take for an    *)
(* expired one.                                                            *)
NoLostTimeout ==
  pc = "idle" /\ s.pending = <<>> /\ Last(s.stack).timed /\ ~s.lapsed =>
    /\ s.has_timeout
    /\ \/ timeout_msg(s.timeout_id) \in s.timers
       \/ \E e \in ToSet(mbox) \cup ToSet(first) : e = timeout_msg(s.timeout_id)

(* An actor that goes to sleep has no message in its cache that its current *)
(* behavior, or the response handler it waits in, would accept.            *)
CacheSettled ==
  pc = "idle" => \A e \in ToSet(cache) :
    LET awaited == awaited_response_id(s)
    IN  CASE filter_msg(s, e) = "sync_response" -> e.mid # awaited
          [] filter_msg(s, e) = "ordinary" ->
               awaited # 0 \/ ~Accepts(get_behavior(s), e.kind)
          [] OTHER -> FALSE

==============================================================================
