--------------------------- MODULE UtilityActors ---------------------------
(***************************************************************************)
(* The utility actors of the scheduler: the timer actor behind             *)
(* delayed_send and the printer actor behind aout.  Each reads its         *)
(* own mailbox in order; users append to the mailboxes at any time.        *)
(***************************************************************************)
EXTENDS Integers, Sequences, SequencesExt, FiniteSets, TLC

CONSTANTS Writers,      \* actors that print
          Files,        \* names for redirect; BadFile cannot be opened
          BadFile,
          MaxTime,      \* bound of the clock
          Delays,       \* durations of delayed messages
          MaxDelayed, MaxPrints   \* bounds on requests

VARIABLES timer, printer
-----------------------------------------------------------------------------
(* delayed_msg: id stands for the contents, at for the time it is due.     *)
(* messages is the multimap, as a sequence ordered by key.                 *)
TimerInit == timer = [now |-> 0, mailbox |-> <<>>, messages |-> <<>>, pc |-> "loop",
                      deadline |-> 0, sent |-> 0, delivered |-> <<>>]

(* delayed_send: a message for the timer *)
delayed_send(d) ==
  /\ timer.sent < MaxDelayed
  /\ timer' = [timer EXCEPT !.sent = @ + 1,
                            !.mailbox = Append(@, [id |-> timer.sent + 1, delay |-> d,
                                                   asked |-> timer.now])]
exit_timer ==
  /\ timer.sent < MaxDelayed
  /\ timer' = [timer EXCEPT !.sent = MaxDelayed, !.mailbox = Append(@, [id |-> 0])]
Tick == timer.now < MaxTime /\ timer' = [timer EXCEPT !.now = @ + 1]

(* insert_dmsg: after the messages due at the same time *)
insert_dmsg(st, req) ==
  LET due == st.now + req.delay
      Early(e) == e.at <= due
  IN [st EXCEPT !.messages = SelectSeq(@, Early)
        \o <<[id |-> req.id, at |-> due, asked |-> req.asked + req.delay]>>
        \o SelectSeq(@, LAMBDA e : ~Early(e))]

deliver(st, dms) ==
  [st EXCEPT !.delivered = @ \o [i \in DOMAIN dms |-> dms[i] @@ [when |-> st.now]]]

(* The inner loop of act: what is due is delivered; then the actor waits   *)
(* for a message, and for the next timeout if there is one                 *)
TimerLoop ==
  LET due == SelectSeq(timer.messages, LAMBDA e : e.at <= timer.now)
      rest == SelectSeq(timer.messages, LAMBDA e : e.at > timer.now)
  IN  /\ timer.pc = "loop"
      /\ timer' = IF timer.messages = <<>> THEN [timer EXCEPT !.pc = "dequeue"]
                  ELSE IF rest = <<>> THEN [deliver(timer, due) EXCEPT !.messages = rest]
                  ELSE [deliver(timer, due) EXCEPT !.messages = rest, !.pc = "try_dequeue",
                                                   !.deadline = rest[1].at]

(* dequeue, or try_dequeue before the deadline; then mfun *)
TimerReceive ==
  /\ timer.pc \in {"dequeue", "try_dequeue"} /\ timer.mailbox # <<>>
  /\ LET req == Head(timer.mailbox)
         st == [timer EXCEPT !.mailbox = Tail(@)]
     IN timer' = IF req.id = 0 THEN [st EXCEPT !.pc = "done"]
                 ELSE [insert_dmsg(st, req) EXCEPT !.pc = "loop"]

(* await_data returns false *)
TimerExpires ==
  /\ timer.pc = "try_dequeue" /\ timer.mailbox = <<>> /\ timer.now >= timer.deadline
  /\ timer' = [timer EXCEPT !.pc = "loop"]
-----------------------------------------------------------------------------
(* The printer.  A text is [by, n, nl]: the n-th of its writer, ending a   *)
(* line or not.  A sink is a file in the cache with its use count; output  *)
(* lists <<sink, text>>.                                                   *)
NoSink == "none"
Nobody == CHOOSE a \in Writers : TRUE   \* for messages without an actor
PrinterInit ==
  printer = [mailbox |-> <<>>, data |-> <<>>, redirect |-> <<>>, global |-> NoSink,
             cache |-> <<>>, output |-> <<>>, lost |-> {}, running |-> TRUE,
             wrote |-> [a \in Writers |-> <<>>], alive |-> Writers, monitored |-> {},
             sent |-> 0]

Mail(st, kind, a, fn) ==
  [st EXCEPT !.mailbox = Append(@, [kind |-> kind, by |-> a, fn |-> fn, text |-> <<>>])]
MayPrint == printer.sent < MaxPrints
Count1(st) == [st EXCEPT !.sent = @ + 1]

(* actor_ostream: write, flush, redirect, redirect_all *)
write(a, nl) ==
  /\ MayPrint /\ a \in printer.alive
  /\ LET text == [by |-> a, n |-> Len(printer.wrote[a]) + 1, nl |-> nl]
     IN printer' = [Count1(printer) EXCEPT
          !.wrote[a] = Append(@, text),
          !.mailbox = Append(@, [kind |-> "add", by |-> a, fn |-> "", text |-> <<text>>])]
flush(a) == MayPrint /\ a \in printer.alive /\ printer' = Count1(Mail(printer, "flush", a, ""))
redirect(a, fn) == MayPrint /\ printer' = Count1(Mail(printer, "redirect", a, fn))
redirect_all(fn) == MayPrint /\ printer' = Count1(Mail(printer, "redirect_all", Nobody, fn))
WriterDies(a) ==
  /\ a \in printer.alive
  /\ LET st == [printer EXCEPT !.alive = @ \ {a}]
     IN printer' = IF a \in printer.monitored THEN Mail(st, "down", a, "") ELSE st
exit_printer == MayPrint /\ printer' = [Mail(printer, "exit", Nobody, "") EXCEPT !.sent = MaxPrints]

Using(st) == [f \in Files |-> Cardinality({a \in DOMAIN st.redirect : st.redirect[a] = f})
                              + IF st.global = f THEN 1 ELSE 0]

(* mutant: the handle that is replaced keeps its use of the sink *)
ClearNothing(st, fn) == st

(* sink_handle::clear: the last use removes the sink from the cache *)
clear(st, fn) ==
  IF fn = NoSink THEN st
  ELSE IF st.cache[fn] = 1 THEN [st EXCEPT !.cache = [f \in DOMAIN @ \ {fn} |-> @[f]]]
  ELSE [st EXCEPT !.cache[fn] = @ - 1]

(* make_sink fails for a file that cannot be opened *)
make_sink(fn) == fn # BadFile
get_sink_handle(st, fn) == IF fn \in DOMAIN st.cache \/ make_sink(fn) THEN fn ELSE NoSink

(* sink_handle's constructor and operator=: nothing if it is the same sink; *)
(* otherwise the old use ends and the new one counts                       *)
acquire(st, fn) == IF fn = NoSink THEN st
                   ELSE [st EXCEPT !.cache = (fn :> 1 + IF fn \in DOMAIN @ THEN @[fn] ELSE 0) @@ @]
sink_assign(st, old, new) == IF old = new THEN st ELSE acquire(clear(st, old), new)

(* get_data with insert_missing: a new writer is monitored, which a dead   *)
(* one answers at once                                                     *)
get_data(st, a) ==
  IF a \in DOMAIN st.data THEN st
  ELSE LET new == [st EXCEPT !.data = @ @@ (a :> <<>>), !.redirect = @ @@ (a :> NoSink),
                             !.monitored = @ \cup {a}]
       IN IF a \in st.alive THEN new ELSE Mail(new, "down", a, "")

(* flush: to the writer's sink, the global one or std::cout *)
SinkOf(st, a) == IF st.redirect[a] # NoSink THEN st.redirect[a] ELSE st.global
flush_line(st, a, forced) ==
  LET line == st.data[a]
  IN  IF a \notin DOMAIN st.data THEN st
      ELSE IF line = <<>> \/ (~line[Len(line)].nl /\ ~forced) THEN st
      ELSE [st EXCEPT !.output = @ \o [i \in DOMAIN line |-> <<SinkOf(st, a), line[i]>>],
                      !.data[a] = <<>>]

forget(st, a) ==
  IF a \notin DOMAIN st.data THEN st
  ELSE [clear(st, st.redirect[a]) EXCEPT
          !.data = [b \in DOMAIN @ \ {a} |-> @[b]], !.redirect = [b \in DOMAIN @ \ {a} |-> @[b]],
          !.monitored = @ \ {a}]

printer_loop ==
  /\ printer.running /\ printer.mailbox # <<>>
  /\ LET m == Head(printer.mailbox)
         st == [printer EXCEPT !.mailbox = Tail(@)]
         a == m.by
     IN printer' =
          CASE m.kind = "add" ->
                 flush_line([get_data(st, a) EXCEPT !.data[a] = @ \o m.text], a, FALSE)
            [] m.kind = "flush" -> flush_line(st, a, TRUE)
            [] m.kind = "down" -> forget(flush_line(st, a, TRUE), a)
            [] m.kind = "exit" -> [st EXCEPT !.running = FALSE,
                                             !.lost = UNION {Range(st.data[b]) : b \in DOMAIN st.data}]
            [] m.kind = "redirect_all" ->
                 LET fn == get_sink_handle(st, m.fn)
                 IN [sink_assign(st, st.global, fn) EXCEPT !.global = fn]
            [] m.kind = "redirect" ->
                 LET d == get_data(st, a)
                     fn == get_sink_handle(d, m.fn)
                 IN [sink_assign(d, d.redirect[a], fn) EXCEPT !.redirect[a] = fn]
-----------------------------------------------------------------------------
TimerNext == \/ (\E d \in Delays : delayed_send(d)) \/ exit_timer \/ Tick
             \/ TimerLoop \/ TimerReceive \/ TimerExpires
PrinterNext ==
  \/ \E a \in Writers : \/ \E nl \in BOOLEAN : write(a, nl)
                         \/ flush(a) \/ WriterDies(a)
                         \/ \E fn \in Files : redirect(a, fn)
  \/ (\E fn \in Files : redirect_all(fn)) \/ exit_printer \/ printer_loop

Init == TimerInit /\ PrinterInit

Requested(st) == Cardinality({i \in DOMAIN st.mailbox : st.mailbox[i].id # 0})

(* A delayed message is delivered once and never early; messages leave in  *)
(* the order of their due times, and in request order if these are equal.  *)
(* None is forgotten unless the timer was told to exit.                    *)
DelaysKept ==
  LET out == timer.delivered
  IN  /\ \A i \in DOMAIN out : out[i].when >= out[i].at /\ out[i].at >= out[i].asked
      /\ \A i, j \in DOMAIN out : i < j =>
           \/ out[i].at < out[j].at
           \/ out[i].at = out[j].at /\ out[i].id < out[j].id
      /\ timer.sent < MaxDelayed =>
           Len(out) + Len(timer.messages) + Requested(timer) = timer.sent

(* What an actor writes comes out in its order and without loss, also when *)
(* the actor ends, prints again through another actor's stream or has its  *)
(* output redirected; a dead writer leaves nothing behind, and a file is   *)
(* open exactly as long as some handle uses it.                            *)
OutputComplete ==
  /\ printer.running => \A a \in Writers :
       LET Texts(s) == SelectSeq(s, LAMBDA x : x.by = a)
           printed == Texts([i \in DOMAIN printer.output |-> printer.output[i][2]])
           held == IF a \in DOMAIN printer.data THEN printer.data[a] ELSE <<>>
           adds == SelectSeq(printer.mailbox, LAMBDA m : m.kind = "add" /\ m.by = a)
       IN  /\ printed \o held \o [i \in DOMAIN adds |-> adds[i].text[1]] = printer.wrote[a]
           /\ printer.mailbox = <<>> /\ a \notin printer.alive => a \notin DOMAIN printer.data
  /\ \A f \in Files : Using(printer)[f] = IF f \in DOMAIN printer.cache THEN printer.cache[f] ELSE 0
  /\ \A f \in DOMAIN printer.cache : printer.cache[f] > 0
=============================================================================
