------------------------------- MODULE Broker -------------------------------
(***************************************************************************)
(* A broker in the event loop of the ASIO multiplexer: scribes with their  *)
(* read and write loops, doormen with their accept loop, the detachment of *)
(* both from the broker, the ports the middleman actor publishes, opens    *)
(* and closes through it, and middleman::stop.                             *)
(*                                                                         *)
(* Sockets are external: an asynchronous operation is "pending" until the  *)
(* network completes it, then "ready" or "failed" until the event loop     *)
(* calls its callback.  A callback runs to its end, with everything the    *)
(* broker's message handlers do in it.  Bytes are numbered.                *)
(***************************************************************************)
EXTENDS Integers, Sequences, FiniteSets

CONSTANTS
  Conns,      \* connections
  Ports,      \* local ports, each with the doorman bound to it
  Actors,     \* actors that can be published
  None,       \* no actor: invalid_actor_addr
  Policies,   \* receive policies, records [flag, size]
  Extra,      \* headroom of an at_least read (100 bytes in the code)
  Reactions,  \* what the broker's handlers do
  Workloads,  \* bounds, records [in, out, tasks]: bytes a peer sends and the
              \* broker writes on a connection, requests to the middleman actor
  MaxFaults   \* bound: failing connections and acceptors

ASSUME BrokerAssumption ==
  /\ None \notin Actors /\ Extra \in Nat
  /\ Policies \subseteq [flag : {"exactly", "at_most", "at_least"}, size : Nat \ {0}]
  /\ Reactions \subseteq {"none", "write", "flush", "close", "quit", "ask"}

VARIABLES
  w,       \* broker, scribes, doormen and published actors
  posted,  \* tasks posted to the event loop by the middleman actor
  env      \* tasks and faults so far, their bounds, and whether stop was called

vars == <<w, posted, env>>

Bytes(n) == [i \in 1 .. n |-> i]
------------------------------------------------------------------------------
NewScribe ==
  [st |-> "none", launched |-> FALSE, flag |-> "at_most", size |-> 1024,
   op |-> "idle", rd |-> "idle", cap |-> 0, rbuf |-> <<>>, msg |-> TRUE,
   wr |-> "idle", wr_buf |-> <<>>, wr_offline |-> <<>>,
   flushed |-> 0, written |-> 0, shut |-> FALSE, broken |-> FALSE,
   net |-> <<>>, sent |-> 0, out |-> <<>>, seen |-> <<>>]

NewDoorman == [st |-> "none", acc |-> "idle", conn |-> None, msg |-> TRUE,
               failed |-> FALSE]

Init ==
  /\ w = [alive |-> TRUE, awaiting |-> FALSE, cache |-> <<>>, crashed |-> FALSE,
          conn |-> [c \in Conns |-> NewScribe],
          door |-> [p \in Ports |-> NewDoorman],
          published |-> [p \in Ports |-> None]]
  /\ posted = <<>>
  /\ env \in [tasks : {0}, faults : {0}, stop : {FALSE}, load : Workloads]

valid(x, c) == x.conn[c].st = "attached"
------------------------------------------------------------------------------
(* stream: write buffers *)

write(x, c) ==
  [x EXCEPT !.conn[c].wr_offline = Append(@, x.conn[c].written + 1),
            !.conn[c].written = @ + 1]

write_loop(x, c) ==
  IF x.conn[c].wr_offline = <<>> THEN [x EXCEPT !.conn[c].wr = "idle"]
  ELSE [x EXCEPT !.conn[c].wr = "pending",
                 !.conn[c].wr_buf = x.conn[c].wr_offline,
                 !.conn[c].wr_offline = <<>>]

(* mutant: flush does not look at writing_ *)
FlushAnyway(x, c) ==
  LET y == [x EXCEPT !.conn[c].flushed = x.conn[c].written]
  IN  IF x.conn[c].wr_offline # <<>> THEN write_loop(y, c) ELSE y

(* writing_ holds from here until write_loop finds nothing left to write *)
flush(x, c) ==
  LET y == [x EXCEPT !.conn[c].flushed = x.conn[c].written]
  IN  IF x.conn[c].wr_offline # <<>> /\ x.conn[c].wr = "idle"
      THEN write_loop(y, c) ELSE y
------------------------------------------------------------------------------
(* stream: reading.  cap is the number of bytes the operation has room for *)

Larger(m, n) == IF m > n THEN m ELSE n

read_loop(x, c) ==
  LET s == x.conn[c]
      start(op, cap) ==
        [x EXCEPT !.conn[c] = [s EXCEPT !.op = op, !.rd = "pending", !.cap = cap, !.rbuf = <<>>]]
  IN  CASE s.flag = "exactly" -> start("exactly", s.size)
        [] s.flag = "at_most" -> start("some", s.size)
        [] s.flag = "at_least" ->
             start("collect", Larger(Len(s.rbuf),
                                     s.size + Larger(Extra, s.size \div 10)))

configure_read(x, c, policy) ==
  LET y == [x EXCEPT !.conn[c].flag = policy.flag, !.conn[c].size = policy.size,
                     !.conn[c].launched = TRUE]
  IN  IF x.conn[c].launched THEN y ELSE read_loop(y, c)
------------------------------------------------------------------------------
(* manager::detach, stop_reading of scribe and doorman, and the broker's   *)
(* end.  Closing a socket makes its pending operations fail; a completion  *)
(* that waits for its callback stays as it is.                             *)

Abort(op) == IF op = "pending" THEN "failed" ELSE op

(* mutant: the scribe is detached but its socket stays open for reading *)
DetachOnly(x, c) == [x EXCEPT !.conn[c].st = "detached"]

close(x, c) ==
  [x EXCEPT !.conn[c].st = "detached", !.conn[c].shut = TRUE,
            !.conn[c].rd = Abort(@)]

close_port(x, p) ==
  [x EXCEPT !.door[p].st = "detached", !.door[p].acc = Abort(@)]

close_all(x) ==
  [x EXCEPT
     !.conn = [c \in Conns |-> IF valid(x, c) THEN close(x, c).conn[c] ELSE @[c]],
     !.door = [p \in Ports |-> IF x.door[p].st = "attached"
                               THEN close_port(x, p).door[p] ELSE @[p]]]

cleanup(x) ==
  [close_all(x) EXCEPT !.alive = FALSE, !.awaiting = FALSE, !.cache = <<>>]
------------------------------------------------------------------------------
(* What the broker's handlers do with handle c.  An invalid handle throws  *)
(* std::invalid_argument, which kills the broker.                          *)

React(x, r, c) ==
  CASE r = "none" -> x
    [] r = "quit" -> cleanup(x)
    [] r = "ask" -> [x EXCEPT !.awaiting = TRUE]
    [] r \notin {"none", "quit", "ask"} /\ ~valid(x, c) -> cleanup(x)
    [] r = "write" /\ valid(x, c) -> write(x, c)
    [] r = "flush" /\ valid(x, c) -> flush(x, c)
    [] r = "close" /\ valid(x, c) -> close(x, c)

MayReact(x, r, c) == r = "write" => x.conn[c].written < env.load.out

(* The messages of scribes and doormen: data, connection closed, new       *)
(* connection (which a broker answers by writing and starting to read)     *)
Handle(x, m, r, policy) ==
  CASE m.kind = "data" ->
         React([x EXCEPT !.conn[m.c].seen = @ \o m.bytes], r, m.c)
    [] m.kind = "closed" -> React(x, IF r = "quit" THEN r ELSE "none", m.c)
    [] m.kind = "accepted" ->
         IF valid(x, m.c)
         THEN configure_read(flush(write(x, m.c), m.c), m.c, policy)
         ELSE cleanup(x)

(* mutant: a skipped message is dropped *)
DropSkipped(x, m, r, policy) ==
  IF x.awaiting THEN x ELSE Handle(x, m, r, policy)

(* abstract_broker::invoke_message: a broker that awaits a response skips  *)
(* the message, which then stays in the cache                              *)
invoke_message(x, m, r, policy) ==
  IF x.awaiting THEN [x EXCEPT !.cache = Append(@, m)]
  ELSE Handle(x, m, r, policy)

(* manager::detach(true) *)
io_failure(x, c, r) ==
  IF ~valid(x, c) THEN x
  ELSE invoke_message([x EXCEPT !.conn[c].st = "detached"],
                      [kind |-> "closed", c |-> c], r, None)

(* scribe::consume.  The message object of the scribe is swapped into the  *)
(* mailbox element and comes back only if the broker did not keep it.      *)
consume(x, c, r) ==
  LET m == [kind |-> "data", c |-> c, bytes |-> x.conn[c].rbuf]
  IN  IF ~valid(x, c) THEN x
      ELSE IF ~x.conn[c].msg THEN [x EXCEPT !.crashed = TRUE]
      ELSE IF x.awaiting
      THEN [invoke_message(x, m, r, None) EXCEPT !.conn[c].msg = FALSE]
      ELSE flush(invoke_message(x, m, r, None), c)
------------------------------------------------------------------------------
(* Callbacks of the event loop *)

Running == ~w.crashed

(* read_loop's and collect_data's callback after a successful read *)
ReadCallback(c, r) ==
  /\ Running /\ w.conn[c].rd = "ready" /\ MayReact(w, r, c)
  /\ LET s == w.conn[c]
         done == s.op # "collect" \/ Len(s.rbuf) >= s.size
         y == consume(w, c, r)
     IN  w' = CASE ~done -> [w EXCEPT !.conn[c].rd = "pending"]
                [] done /\ y.crashed -> y
                [] done /\ ~y.crashed -> read_loop(y, c)
  /\ UNCHANGED <<posted, env>>

ReadFailed(c, r) ==
  /\ Running /\ w.conn[c].rd = "failed"
  /\ w' = io_failure([w EXCEPT !.conn[c].rd = "idle"], c, r)
  /\ UNCHANGED <<posted, env>>

WriteCallback(c) ==
  /\ Running /\ w.conn[c].wr = "ready"
  /\ w' = write_loop(w, c)
  /\ UNCHANGED <<posted, env>>

WriteFailed(c, r) ==
  /\ Running /\ w.conn[c].wr = "failed"
  /\ w' = [io_failure(w, c, r) EXCEPT !.conn[c].wr = "idle"]
  /\ UNCHANGED <<posted, env>>

(* accept_loop's callback: doorman::new_connection does not ask whether    *)
(* the doorman is detached; a detached one has no broker                   *)
AcceptCallback(p, policy) ==
  LET d == w.door[p]
      x == [w EXCEPT !.conn[d.conn].st = "attached", !.door[p].conn = None,
                     !.door[p].acc = "pending"]
      m == [kind |-> "accepted", c |-> d.conn]
  IN  /\ Running /\ d.acc = "ready"
      /\ w' = IF d.st # "attached" \/ ~d.msg THEN [w EXCEPT !.crashed = TRUE]
              ELSE [invoke_message(x, m, "none", policy)
                      EXCEPT !.door[p].msg = ~w.awaiting]
      /\ UNCHANGED <<posted, env>>

(* The failure is reported with the handle of a doorman that is no longer  *)
(* in doormen_, so local_port is 0 and nothing is unpublished              *)
AcceptFailed(p) ==
  /\ Running /\ w.door[p].acc = "failed"
  /\ w' = [w EXCEPT !.door[p].acc = "idle", !.door[p].st = "detached"]
  /\ UNCHANGED <<posted, env>>

(* A message of another actor that makes the broker do r *)
Command(r, c) ==
  /\ Running /\ w.alive /\ ~w.awaiting /\ ~env.stop
  /\ r # "none" /\ MayReact(w, r, c)
  /\ w' = React(w, r, c)
  /\ UNCHANGED <<posted, env>>

Reconfigure(c, policy) ==
  /\ Running /\ w.alive /\ ~w.awaiting /\ valid(w, c)
  /\ w.conn[c].launched /\ policy # [flag |-> w.conn[c].flag, size |-> w.conn[c].size]
  /\ w' = configure_read(w, c, policy)
  /\ UNCHANGED <<posted, env>>

(* The broker from state x through the messages of the cache q, one by one *)
Replay(x, q, policy) ==
  LET run[i \in 0 .. Len(q)] ==
        IF i = 0 THEN x
        ELSE IF run[i - 1].alive THEN Handle(run[i - 1], q[i], "none", policy)
        ELSE run[i - 1]
  IN  run

(* The awaited response arrives; then the broker goes through its cache *)
Respond(policy) ==
  /\ Running /\ w.alive /\ w.awaiting
  /\ w' = Replay([w EXCEPT !.awaiting = FALSE, !.cache = <<>>], w.cache, policy)[Len(w.cache)]
  /\ UNCHANGED <<posted, env>>
------------------------------------------------------------------------------
(* The middleman actor: it opens sockets itself and posts to the broker *)

Post(task) ==
  /\ env.tasks < env.load.tasks /\ ~env.stop
  /\ env' = [env EXCEPT !.tasks = @ + 1]
  /\ posted' = Append(posted, task)

put(p, whom) ==
  /\ Running /\ w.door[p].st = "none"
  /\ w' = [w EXCEPT !.door[p].st = "unassigned"]
  /\ Post([op |-> "publish", p |-> p, whom |-> whom])

Connect(c) ==
  /\ Running /\ w.conn[c].st = "none"
  /\ w' = [w EXCEPT !.conn[c].st = "unassigned"]
  /\ Post([op |-> "connect", p |-> c, whom |-> None])

Forward(op, p, whom) ==
  /\ Running /\ Post([op |-> op, p |-> p, whom |-> whom]) /\ UNCHANGED w

(* The broker's handlers for these tasks *)
publish(x, p, whom) ==
  IF whom = None THEN x
  ELSE [x EXCEPT !.door[p].st = "attached", !.door[p].acc = "pending",
                 !.published[p] = whom]

connect(x, c, policy) ==
  configure_read([x EXCEPT !.conn[c].st = "attached"], c, policy)

(* mutant: the doorman is closed whoever is published there *)
CloseAnyway(x, p, whom) ==
  [(IF x.door[p].st = "attached" THEN close_port(x, p) ELSE x)
     EXCEPT !.published[p] = IF @ = whom THEN None ELSE @]

unpublish(x, p, whom) ==
  IF whom = None \/ x.published[p] # whom THEN x
  ELSE [(IF x.door[p].st = "attached" THEN close_port(x, p) ELSE x)
          EXCEPT !.published[p] = None]

close_acceptor(x, p) ==
  [(IF x.door[p].st = "attached" THEN close_port(x, p) ELSE x)
     EXCEPT !.published[p] = None]

(* A message to a broker that is dead is dropped; one that awaits a        *)
(* response gets to it when the response is there                          *)
RunPosted(policy) ==
  /\ Running /\ posted # <<>> /\ ~w.awaiting
  /\ posted' = Tail(posted) /\ UNCHANGED env
  /\ LET t == Head(posted)
     IN  w' = CASE ~w.alive -> w
                [] w.alive /\ t.op = "publish" -> publish(w, t.p, t.whom)
                [] w.alive /\ t.op = "connect" -> connect(w, t.p, policy)
                [] w.alive /\ t.op = "unpublish" -> unpublish(w, t.p, t.whom)
                [] w.alive /\ t.op = "close" -> close_acceptor(w, t.p)

(* middleman::stop cleans the broker up and waits for the event loop, which *)
(* ends when no operation is outstanding                                   *)
Stop ==
  /\ Running /\ ~env.stop
  /\ env' = [env EXCEPT !.stop = TRUE]
  /\ w' = IF w.alive THEN cleanup(w) ELSE w
  /\ UNCHANGED posted

NoWork ==
  /\ posted = <<>>
  /\ \A c \in Conns : w.conn[c].rd = "idle" /\ w.conn[c].wr = "idle"
  /\ \A p \in Ports : w.door[p].acc = "idle"
------------------------------------------------------------------------------
(* External: the network *)

PeerSends(c) ==
  /\ Running /\ w.conn[c].st = "attached" /\ w.conn[c].sent < env.load.in
  /\ w' = [w EXCEPT !.conn[c].net = Append(@, w.conn[c].sent + 1),
                    !.conn[c].sent = @ + 1]
  /\ UNCHANGED <<posted, env>>

(* A read completes with n bytes: all it asked for, or what there is *)
ReadDone(c) ==
  LET s == w.conn[c]
      room == s.cap - Len(s.rbuf)
  IN  /\ Running /\ s.rd = "pending" /\ ~s.broken /\ ~s.shut
      /\ \E n \in 1 .. Len(s.net) :
           /\ IF s.op = "exactly" THEN n = s.cap ELSE n <= room
           /\ w' = [w EXCEPT !.conn[c].rd = "ready",
                             !.conn[c].rbuf = @ \o SubSeq(s.net, 1, n),
                             !.conn[c].net = SubSeq(s.net, n + 1, Len(s.net))]
      /\ UNCHANGED <<posted, env>>

WriteDone(c) ==
  /\ Running /\ w.conn[c].wr = "pending" /\ ~w.conn[c].broken
  /\ w' = [w EXCEPT !.conn[c].wr = "ready",
                    !.conn[c].out = @ \o w.conn[c].wr_buf]
  /\ UNCHANGED <<posted, env>>

PeerConnects(p) ==
  /\ Running /\ w.door[p].acc = "pending" /\ w.door[p].st = "attached"
  /\ \E c \in {x \in Conns : w.conn[x].st = "none"} :
       w' = [w EXCEPT !.door[p].acc = "ready", !.door[p].conn = c,
                      !.conn[c].st = "accepting"]
  /\ UNCHANGED <<posted, env>>

ConnectionBreaks(c) ==
  /\ Running /\ env.faults < MaxFaults /\ ~w.conn[c].broken /\ valid(w, c)
  /\ env' = [env EXCEPT !.faults = @ + 1]
  /\ w' = [w EXCEPT !.conn[c].broken = TRUE]
  /\ UNCHANGED posted

AcceptorBreaks(p) ==
  /\ Running /\ env.faults < MaxFaults /\ w.door[p].acc = "pending"
  /\ env' = [env EXCEPT !.faults = @ + 1]
  /\ w' = [w EXCEPT !.door[p].acc = "failed", !.door[p].failed = TRUE]
  /\ UNCHANGED posted

(* An operation on a broken or closed socket fails *)
OperationFails(c) ==
  /\ Running
  /\ \/ /\ w.conn[c].rd = "pending" /\ (w.conn[c].broken \/ w.conn[c].shut)
        /\ w' = [w EXCEPT !.conn[c].rd = "failed"]
     \/ /\ w.conn[c].wr = "pending" /\ w.conn[c].broken
        /\ w' = [w EXCEPT !.conn[c].wr = "failed"]
  /\ UNCHANGED <<posted, env>>
------------------------------------------------------------------------------
Callback(c) ==
  \E r \in Reactions : ReadCallback(c, r) \/ ReadFailed(c, r) \/ WriteFailed(c, r)

Next ==
  \/ \E c \in Conns : \/ Callback(c) \/ WriteCallback(c) \/ Connect(c)
                      \/ PeerSends(c) \/ ReadDone(c) \/ WriteDone(c)
                      \/ ConnectionBreaks(c) \/ OperationFails(c)
  \/ \E p \in Ports : \/ \E policy \in Policies : AcceptCallback(p, policy)
                      \/ AcceptFailed(p) \/ PeerConnects(p)
                      \/ AcceptorBreaks(p)
                      \/ \E a \in Actors \cup {None} : put(p, a)
                      \/ \E a \in Actors, op \in {"unpublish", "close"} : Forward(op, p, a)
  \/ \E c \in Conns, r \in Reactions : Command(r, c)
  \/ \E c \in Conns, policy \in Policies : Reconfigure(c, policy)
  \/ \E policy \in Policies : Respond(policy) \/ RunPosted(policy)
  \/ Stop

(* The event loop runs every callback and task, and the network completes  *)
(* or fails every write and every operation on a closed socket             *)
Fairness ==
  /\ \A c \in Conns : /\ WF_vars(Callback(c)) /\ WF_vars(WriteCallback(c))
                      /\ WF_vars(WriteDone(c)) /\ WF_vars(OperationFails(c))
  /\ \A p \in Ports : /\ WF_vars(AcceptFailed(p))
                      /\ WF_vars(\E policy \in Policies : AcceptCallback(p, policy))
  /\ WF_vars(\E policy \in Policies : RunPosted(policy))

Spec == Init /\ [][Next]_vars /\ Fairness
------------------------------------------------------------------------------
(* What a broker writes leaves in order and once, and nothing that was     *)
(* flushed waits without a write in progress.  It is complete as long as   *)
(* the connection works and someone holds the buffers: the broker, or the  *)
(* callback of a write.  A scribe that was closed while it did not write   *)
(* has sent all that was flushed; what was not is gone.                    *)
WritesDelivered ==
  \A c \in Conns :
    LET s == w.conn[c]
        inflight == IF s.wr = "pending" THEN s.wr_buf ELSE <<>>
    IN  ~s.broken =>
          /\ valid(w, c) \/ s.wr # "idle" =>
               s.out \o inflight \o s.wr_offline = Bytes(s.written)
          /\ ~valid(w, c) /\ s.wr = "idle" =>
               s.flushed <= Len(s.out) /\ s.out = Bytes(Len(s.out))
          /\ Len(s.out) < s.flushed => s.wr # "idle"

(* The bytes for connection c in the first messages of the cache q *)
Skipped(q, c) ==
  LET bytes[i \in 0 .. Len(q)] ==
        IF i = 0 THEN <<>>
        ELSE IF q[i].kind = "data" /\ q[i].c = c THEN bytes[i - 1] \o q[i].bytes
        ELSE bytes[i - 1]
  IN  bytes

(* Every byte that arrives is handed to the broker once and in order while *)
(* the scribe is attached, through partial reads, changes of the receive   *)
(* policy and messages that the broker skips.                              *)
InputInOrder ==
  \A c \in Conns :
    LET s == w.conn[c]
        skipped == Skipped(w.cache, c)[Len(w.cache)]
        reading == IF s.rd # "idle" THEN s.rbuf ELSE <<>>
    IN  valid(w, c) /\ Running =>
          s.seen \o skipped \o reading \o s.net = Bytes(s.sent)

(* A published actor can be reached: its port has a doorman in the broker  *)
(* that accepts connections, unless its acceptor failed.                   *)
PublishedServed ==
  w.alive => \A p \in Ports :
    w.published[p] # None => /\ w.door[p].st = "attached" \/ w.door[p].failed
                             /\ w.door[p].acc = "idle" => w.door[p].failed

(* middleman::stop returns: after it closed the broker, every outstanding  *)
(* operation ends and the event loop runs out of work.                     *)
StopReturns == env.stop ~> (NoWork \/ w.crashed)

==============================================================================
