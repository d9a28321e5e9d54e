------------------------------- MODULE Sockets -------------------------------
(***************************************************************************)
(* The sockets and the event loop of asio_multiplexer.  Any thread opens   *)
(* a socket, which waits under its descriptor in a table until the broker  *)
(* that is sent the handle claims it.  A descriptor is a number, and the   *)
(* operating system gives out the lowest one that is free.                 *)
(***************************************************************************)
EXTENDS Integers, Sequences, FiniteSets, FiniteSetsExt

CONSTANTS Threads, Owners,   \* callers outside of the loop, brokers
          Fds, Ports, Tasks

VARIABLES kind, bound,       \* of a descriptor; 0: not an acceptor
          local,             \* descriptor that a thread holds on its stack, or 0
          thrown,            \* exception of a thread's last call
          unassigned_sockets_, unassigned_acceptors_,
          native,            \* descriptors that user code opened
          scribes_, doormen_, ended,
          handles_sent,      \* handles on their way to brokers
          lost               \* descriptors whose handle nobody has any more
VARIABLES loop, tid_, supervised, queue, order, ran

Kinds == {"stream", "acceptor"}
Init ==
  /\ kind = [f \in Fds |-> "free"] /\ bound = [f \in Fds |-> 0]
  /\ local = [t \in Threads |-> 0] /\ thrown = [t \in Threads |-> "none"]
  /\ unassigned_sockets_ = {} /\ unassigned_acceptors_ = {} /\ native = {}
  /\ scribes_ = [b \in Owners |-> {}] /\ doormen_ = [b \in Owners |-> {}] /\ ended = {}
  /\ handles_sent = {} /\ lost = {}
  /\ loop = "none" /\ tid_ = FALSE /\ supervised = FALSE /\ queue = <<>> /\ order = <<>> /\ ran = <<>>

Free == {f \in Fds : kind[f] = "free"}
Lowest == Min(Free)
Taken == {bound[f] : f \in Fds}
Open(k, p) == kind' = [kind EXCEPT ![Lowest] = k] /\ bound' = [bound EXCEPT ![Lowest] = p]
Closed(S) == /\ kind' = [f \in Fds |-> IF f \in S THEN "free" ELSE kind[f]]
             /\ bound' = [f \in Fds |-> IF f \in S THEN 0 ELSE bound[f]]

(* Both throw before the caller sees a descriptor; the socket on the stack *)
(* is closed                                                               *)
new_tcp_connection(host) == IF host \in {"unknown", "down"} THEN "network_error" ELSE "none"
ip_bind(p, addr) == CASE addr = "bad" -> "network_error" [] p \in Taken \ {0} -> "bind_failure" [] OTHER -> "none"
Assigned(p) == IF p = 0 THEN Min(Ports \ Taken) ELSE p     \* port 0: the system chooses

Throw(t, e) == thrown' = [thrown EXCEPT ![t] = e]
Opened(t, e, k, p) ==
  /\ local[t] = 0 /\ Free # {} /\ Throw(t, e)
  /\ IF e = "none" THEN Open(k, p) /\ local' = [local EXCEPT ![t] = Lowest]
     ELSE UNCHANGED <<kind, bound, local>>
  /\ UNCHANGED <<unassigned_sockets_, unassigned_acceptors_, native, scribes_, doormen_, ended, handles_sent, lost>>
OpenStream(t, host) == Opened(t, new_tcp_connection(host), "stream", 0)
OpenAcceptor(t, p, addr) ==
  Ports \ Taken # {} /\ Opened(t, ip_bind(p, addr), "acceptor", Assigned(p))

(* The rest of new_tcp_scribe and new_tcp_doorman, under the mutex of the  *)
(* table; then the caller sends the handle to a broker                     *)
Insert(t, b, whom) ==
  LET f == local[t]
  IN  /\ f # 0 /\ local' = [local EXCEPT ![t] = 0]
      /\ handles_sent' = handles_sent \cup {[to |-> b, fd |-> f, kind |-> kind[f], whom |-> whom]}
      /\ IF kind[f] = "stream"
         THEN unassigned_sockets_' = unassigned_sockets_ \cup {f} /\ UNCHANGED unassigned_acceptors_
         ELSE unassigned_acceptors_' = unassigned_acceptors_ \cup {f} /\ UNCHANGED unassigned_sockets_
      /\ UNCHANGED <<kind, bound, thrown, native, scribes_, doormen_, ended, lost>>

(* In the loop: a handle that is not in the table is ignored *)
assign_tcp_scribe(b, f) ==
  /\ unassigned_sockets_' = unassigned_sockets_ \ {f}
  /\ scribes_' = [scribes_ EXCEPT ![b] = IF f \in unassigned_sockets_ THEN @ \cup {f} ELSE @]
  /\ UNCHANGED <<unassigned_acceptors_, doormen_>>
assign_tcp_doorman(b, f) ==
  /\ unassigned_acceptors_' = unassigned_acceptors_ \ {f}
  /\ doormen_' = [doormen_ EXCEPT ![b] = IF f \in unassigned_acceptors_ THEN @ \cup {f} ELSE @]
  /\ UNCHANGED <<unassigned_sockets_, scribes_>>

(* The broker's handlers of connect and publish; nothing is published for  *)
(* an invalid actor, and the messages to a broker that ended are dropped   *)
Claim(m) ==
  /\ m \in handles_sent /\ handles_sent' = handles_sent \ {m}
  /\ IF m.to \in ended \/ (m.kind = "acceptor" /\ ~m.whom)
     THEN /\ lost' = lost \cup {m.fd}
          /\ UNCHANGED <<unassigned_sockets_, unassigned_acceptors_, scribes_, doormen_>>
     ELSE /\ UNCHANGED lost
          /\ IF m.kind = "stream" THEN assign_tcp_scribe(m.to, m.fd) ELSE assign_tcp_doorman(m.to, m.fd)
  /\ UNCHANGED <<kind, bound, local, thrown, native, ended>>

Place(b, k, f) == IF k = "stream" THEN scribes_' = [scribes_ EXCEPT ![b] = @ \cup {f}] /\ UNCHANGED doormen_
                  ELSE doormen_' = [doormen_ EXCEPT ![b] = @ \cup {f}] /\ UNCHANGED scribes_
(* What a broker opens itself, in the loop *)
add_tcp(b, k, p, e) ==
  /\ b \notin ended /\ Free # {} /\ e = "none"
  /\ Open(k, p) /\ Place(b, k, Lowest)
  /\ UNCHANGED <<local, thrown, unassigned_sockets_, unassigned_acceptors_, native, ended, handles_sent, lost>>
add_tcp_scribe(b, host) == add_tcp(b, "stream", 0, new_tcp_connection(host))
add_tcp_doorman(b, p, addr) == Ports \ Taken # {} /\ add_tcp(b, "acceptor", Assigned(p), ip_bind(p, addr))

(* add_tcp_scribe and add_tcp_doorman of a descriptor: if neither protocol *)
(* takes it, they throw and it stays with the user                         *)
Takes(v6, v4) == v6 \/ v4
UserOpens(k) == /\ Free # {} /\ Open(k, 0) /\ native' = native \cup {Lowest}
                /\ UNCHANGED <<local, thrown, unassigned_sockets_, unassigned_acceptors_, scribes_, doormen_, ended,
                               handles_sent, lost>>
add_native(b, f, v6, v4) ==
  /\ b \notin ended /\ f \in native /\ Takes(v6, v4)
  /\ native' = native \ {f} /\ Place(b, kind[f], f)
  /\ UNCHANGED <<kind, bound, local, thrown, unassigned_sockets_, unassigned_acceptors_, ended, handles_sent, lost>>

(* close, and close_all when the broker ends *)
CloseThese(b, S) ==
  /\ Closed(S)
  /\ scribes_' = [scribes_ EXCEPT ![b] = @ \ S] /\ doormen_' = [doormen_ EXCEPT ![b] = @ \ S]
  /\ UNCHANGED <<local, thrown, unassigned_sockets_, unassigned_acceptors_, native, handles_sent, lost>>
close(b, f) == f \in scribes_[b] \cup doormen_[b] /\ CloseThese(b, {f}) /\ UNCHANGED ended
close_all(b) == b \notin ended /\ ended' = ended \cup {b} /\ CloseThese(b, scribes_[b] \cup doormen_[b])

SocketNext ==
  \/ \E t \in Threads : \/ \E h \in {"up", "down", "unknown"} : OpenStream(t, h)
                        \/ \E p \in Ports \cup {0}, a \in {"any", "bad"} : OpenAcceptor(t, p, a)
                        \/ \E b \in Owners, whom \in BOOLEAN : Insert(t, b, whom)
  \/ \E m \in handles_sent : Claim(m)
  \/ \E b \in Owners : \/ add_tcp_scribe(b, "up") \/ close_all(b)
                       \/ \E p \in Ports \cup {0} : add_tcp_doorman(b, p, "any")
                       \/ \E f \in native, v6, v4 \in BOOLEAN : add_native(b, f, v6, v4)
                       \/ \E f \in Fds : close(b, f)
  \/ \E k \in Kinds : UserOpens(k)

(* Every open descriptor has one owner and a free one has none; no two     *)
(* acceptors have a port; and a handle on its way always names the socket  *)
(* that it was made for, since that waits in its table until the handle    *)
(* comes: no broker claims another's socket or claims in vain.             *)
SocketsOwned ==
  LET Places(f) == {<<"local", t>> : t \in {x \in Threads : local[x] = f}}
                     \cup {<<"broker", b>> : b \in {x \in Owners : f \in scribes_[x] \cup doormen_[x]}}
                     \cup {x \in {<<"socket", 0>>} : f \in unassigned_sockets_}
                     \cup {x \in {<<"acceptor", 0>>} : f \in unassigned_acceptors_}
                     \cup {x \in {<<"user", 0>>} : f \in native}
  IN  /\ \A f \in Fds : Cardinality(Places(f)) = IF kind[f] = "free" THEN 0 ELSE 1
      /\ \A f, g \in Fds : bound[f] = bound[g] /\ bound[f] # 0 => f = g
      /\ \A m \in handles_sent : m.fd \in IF m.kind = "stream" THEN unassigned_sockets_ ELSE unassigned_acceptors_
      /\ \A f \in unassigned_sockets_ \cup unassigned_acceptors_ :
           Cardinality({m \in handles_sent : m.fd = f}) = IF f \in lost THEN 0 ELSE 1
-----------------------------------------------------------------------------
(* initialize: the thread runs before its id is stored *)
initialize == /\ loop = "none" /\ loop' = "running" /\ supervised' = TRUE
              /\ UNCHANGED <<tid_, queue, order, ran>>
thread_id == loop = "running" /\ ~tid_ /\ tid_' = TRUE /\ UNCHANGED <<loop, supervised, queue, order, ran>>

(* A function is given to the loop at most once *)
Fresh(f) == \A i \in DOMAIN order : order[i] # f
post(f) == queue' = Append(queue, f) /\ order' = Append(order, f) /\ UNCHANGED ran
dispatch(here, f) == IF here /\ tid_ THEN ran' = Append(ran, f) /\ UNCHANGED <<queue, order>> ELSE post(f)
InLoop == loop = "running"
Give(f, here, atOnce) ==
  /\ Fresh(f) /\ (\A i \in DOMAIN ran : ran[i] # f) /\ loop # "none" /\ (here => InLoop)
  /\ IF atOnce THEN dispatch(here, f) ELSE post(f)
  /\ UNCHANGED <<loop, tid_, supervised>>
RunNext == /\ InLoop /\ queue # <<>> /\ queue' = Tail(queue) /\ ran' = Append(ran, Head(queue))
           /\ UNCHANGED <<loop, tid_, supervised, order>>
(* stop: gives the loop its last function, then lets it go *)
Stop == tid_ /\ supervised /\ Fresh("stop") /\ dispatch(FALSE, "stop") /\ UNCHANGED <<loop, tid_, supervised>>
Release == supervised /\ ~Fresh("stop") /\ supervised' = FALSE /\ UNCHANGED <<loop, tid_, queue, order, ran>>
run_returns == InLoop /\ ~supervised /\ queue = <<>> /\ loop' = "returned" /\ UNCHANGED <<tid_, supervised, queue, order, ran>>

LoopNext ==
  \/ initialize \/ thread_id \/ RunNext \/ Stop \/ Release \/ run_returns
  \/ \E f \in Tasks, here, atOnce \in BOOLEAN : Give(f, here, atOnce)

(* What is posted runs once and in the order of the posts, whatever the    *)
(* loop's own thread dispatches in between, and before the loop is left    *)
(* if it came before stop.                                                 *)
PostedInOrder ==
  /\ SelectSeq(ran, LAMBDA f : ~Fresh(f)) \o queue = order
  /\ loop = "returned" =>
       \E i \in DOMAIN ran : ran[i] = "stop" /\ \A j \in DOMAIN order : order[j] = "stop" => i >= j
=============================================================================
