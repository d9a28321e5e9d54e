------------------------------- MODULE Basp -------------------------------
(***************************************************************************)
(* The Binary Actor System Protocol: the BASP brokers of several nodes,    *)
(* their routing tables, connection contexts and proxies, and the TCP      *)
(* connections between them.                                               *)
(*                                                                         *)
(* A connection c has two handles, <<c, 1>> at the node that dialled and   *)
(* <<c, 2>> at the node that accepted.  A broker runs on one thread, so    *)
(* each handler of basp_broker::make_behavior is one action.  A handler    *)
(* calls several member functions that change the broker's state one after *)
(* the other; these are operators from broker state to broker state.       *)
(*                                                                         *)
(* Payloads are reduced to the actor handle they carry: deserialising it   *)
(* is what creates proxies and indirect routes.                            *)
(***************************************************************************)
EXTENDS Naturals, Sequences, FiniteSets, Functions

CONSTANTS
  Node, NoNode,      \* node_id and invalid_node_id
  Conn,              \* TCP connections that may ever be established
  Dials,             \* pairs <<n, m>> : an actor on n may call remote_actor(m)
  Actor, NoActor,    \* actors and invalid_actor_id
  Home,              \* the node an actor lives on
  Published,         \* what each node publishes, or NoActor
  Spawner,           \* per node: the hidden actor spawned by learned_new_node
  Mortal, Talkers,   \* actors that may terminate, actors that may send
  Rank,              \* iteration order of an unordered_set of node ids
  MaxSends, MaxFaults

ASSUME BaspAssumption ==
  /\ NoNode \notin Node /\ NoActor \notin Actor
  /\ Dials \subseteq Node \X Node
  /\ Home \in [Actor -> Node]
  /\ Published \in [Node -> Actor \cup {NoActor}]
  /\ Spawner \in [Node -> Actor]
  /\ \A n \in Node : Home[Spawner[n]] = n /\ (Published[n] # NoActor => Home[Published[n]] = n)
  /\ Rank \in [Node \cup {NoNode} -> Nat] /\ IsInjective(Rank)
  /\ Mortal \subseteq Actor /\ Talkers \subseteq Actor
  /\ MaxSends \in Nat /\ MaxFaults \in Nat

VARIABLES
  broker,    \* per node: routing table, contexts, proxies and output buffers
  wire,      \* per handle: datagrams sent by its owner and not yet read
  sock,      \* per handle: "none", "backlog", "open" or "closed"
  ends,      \* per connection: the dialling and the accepting node
  broken,    \* connections the network has cut
  dead,      \* actors that have terminated
  watched,   \* pairs <<a, m>>: a runs a functor that kills m's proxy at exit
  killq,     \* such functors that have run and wait in the I/O loop
  promise,   \* per connection: the answer remote_actor waits for
  nullRead,  \* actor_namespace::read has dereferenced a null proxy
  sends, faults

vars == <<broker, wire, sock, ends, broken, dead, watched, killq, promise,
          nullRead, sends, faults>>

Hdl == Conn \X {1, 2}
Peer(h) == <<h[1], 3 - h[2]>>
Owner(h) == ends[h[1]][h[2]]

---------------------------------------------------------------------------
(* Datagrams: the header of basp.hpp and the handle found in the payload.  *)
(* pay says whether payload_len is not zero.                               *)

Datagram(op, src, dst, sa, da, pay, ref) ==
  [op |-> op, src |-> src, dst |-> dst, sa |-> sa, da |-> da, pay |-> pay, ref |-> ref]

\* the receiver of a message to a registered name (actor_id max)
Named == "named"

server_handshake(n) ==
  Datagram("server_handshake", n, NoNode, Published[n], NoActor, Published[n] # NoActor, Published[n])
client_handshake(n, m) == Datagram("client_handshake", n, m, NoActor, NoActor, FALSE, NoActor)
dispatch_message(n, m, sa, da, ref) == Datagram("dispatch_message", n, m, sa, da, TRUE, ref)
announce_proxy(n, a) == Datagram("announce_proxy_instance", n, Home[a], NoActor, a, FALSE, NoActor)
kill_proxy_instance(n, m, a) == Datagram("kill_proxy_instance", n, m, a, NoActor, FALSE, NoActor)
\* write_dispatch_error also sends a kill_proxy_instance, with a payload and no actor
dispatch_error(n, m) == Datagram("kill_proxy_instance", n, m, NoActor, NoActor, TRUE, NoActor)

valid(d) ==
  CASE d.op = "server_handshake" ->
         d.src # NoNode /\ d.dst = NoNode /\ d.da = NoActor /\ (d.sa # NoActor <=> d.pay)
    [] d.op = "client_handshake" ->
         d.src # NoNode /\ d.dst # NoNode /\ d.src # d.dst /\ d.sa = NoActor /\ d.da = NoActor /\ ~d.pay
    [] d.op = "dispatch_message" ->
         d.dst # NoNode /\ d.da # NoActor /\ d.pay
    [] d.op = "announce_proxy_instance" ->
         d.src # NoNode /\ d.dst # NoNode /\ d.src # d.dst /\ d.sa = NoActor /\ d.da # NoActor /\ ~d.pay
    [] d.op = "kill_proxy_instance" ->
         d.src # NoNode /\ d.dst # NoNode /\ d.src # d.dst /\ d.sa # NoActor /\ d.da = NoActor /\ ~d.pay

is_handshake(d) == d.op \in {"server_handshake", "client_handshake"}

---------------------------------------------------------------------------
(* The state of one broker.  byHdl, byNid: direct routes in both           *)
(* directions; indirect: known hops per destination (an entry may be       *)
(* empty); ctx: connection contexts; proxies: live entries of the          *)
(* actor_namespace; posted: erase calls the exit functors of killed        *)
(* proxies have posted; out: unflushed wr_buf; sent: flushed datagrams;    *)
(* shut: handles closed by this handler; spawners: keys of spawn_servers.  *)

EmptyMap == [x \in {} |-> x]
Put(f, k, v) == [x \in DOMAIN f \cup {k} |-> IF x = k THEN v ELSE f[x]]
Del(f, k) == Restrict(f, DOMAIN f \ {k})

NewBroker ==
  [byHdl |-> EmptyMap, byNid |-> EmptyMap, indirect |-> EmptyMap, ctx |-> EmptyMap,
   proxies |-> {}, posted |-> {}, spawners |-> {},
   out |-> [h \in Hdl |-> <<>>], sent |-> [h \in Hdl |-> <<>>], shut |-> {}, ub |-> FALSE]

write(b, h, d) == [b EXCEPT !.out[h] = Append(@, d)]
flush(b, h) == [b EXCEPT !.sent[h] = @ \o b.out[h], !.out[h] = <<>>]

lookup_direct(b, h) == IF h \in DOMAIN b.byHdl THEN b.byHdl[h] ELSE NoNode
has_direct(b, m) == m \in DOMAIN b.byNid

\* routing_table::lookup: the hops before the first usable one are dropped
FirstHop(b, m) ==
  LET live == {x \in b.indirect[m] : has_direct(b, x)}
  IN CHOOSE x \in live : \A y \in live : Rank[x] <= Rank[y]
has_route(b, m) ==
  has_direct(b, m) \/ (m \in DOMAIN b.indirect /\ \E x \in b.indirect[m] : has_direct(b, x))
route_hdl(b, m) == b.byNid[IF has_direct(b, m) THEN m ELSE FirstHop(b, m)]
lookup(b, m) ==
  IF has_direct(b, m) \/ m \notin DOMAIN b.indirect THEN b
  ELSE [b EXCEPT !.indirect[m] =
          IF has_route(b, m) THEN {x \in @ : Rank[x] >= Rank[FirstHop(b, m)]} ELSE {}]

\* write to the route and flush it; without a route nothing is written
send_to(b, m, d) ==
  LET b1 == lookup(b, m)
  IN IF has_route(b, m) THEN flush(write(b1, route_hdl(b, m), d), route_hdl(b, m)) ELSE b1

learned_new_node(b, n, m) ==
  send_to([b EXCEPT !.spawners = @ \cup {m}], m,
          dispatch_message(n, m, Spawner[n], Named, NoActor))

\* mutant: a new direct connection leaves the indirect entry in the table
AddDirectKeepsIndirect(b, n, h, m) ==
  [first |-> [b EXCEPT !.byHdl = Put(@, h, m), !.byNid = Put(@, m, h)],
   learn |-> m \notin DOMAIN b.indirect]

\* add_direct and erase_indirect
add_direct(b, n, h, m) ==
  LET b1 == [b EXCEPT !.byHdl = Put(@, h, m), !.byNid = Put(@, m, h),
                      !.indirect = Del(@, m)]
      was_indirect == m \in DOMAIN b.indirect
  IN [first |-> b1, learn |-> ~was_indirect]

\* add_indirect and, when it was the first hop, learned_new_node_indirectly
add_indirect(b, n, hop, m) ==
  LET hops == IF m \in DOMAIN b.indirect THEN b.indirect[m] ELSE {}
      b1 == [b EXCEPT !.indirect = Put(@, m, hops \cup {hop})]
  IN IF hops = {} THEN learned_new_node(b1, n, m) ELSE b1

\* mutant: the proxies are killed and stay in the namespace
EraseKeepsProxies(b, S) == [b EXCEPT !.posted = @ \cup (b.proxies \cap S)]

\* erasing namespace entries kills the proxies; each posts another erase
erase_proxies(b, S) ==
  [b EXCEPT !.proxies = @ \ S, !.posted = @ \cup (b.proxies \cap S)]
ActorsOf(m) == {a \in Actor : Home[a] = m}

purge_state(b, m) ==
  IF has_direct(b, m)
  THEN [erase_proxies(b, ActorsOf(m)) EXCEPT !.ctx = Del(@, b.byNid[m])]
  ELSE b

\* get_or_put and make_proxy, reading from the connection cur
make_proxy(b, n, cur, a) ==
  LET m == Home[a]
      b1 == IF m # b.ctx[cur].id /\ ~has_direct(b, m)
            THEN add_indirect(b, n, b.ctx[cur].id, m) ELSE b
      b2 == lookup(b1, m)
  IN IF has_route(b1, m)
     THEN flush(write([b2 EXCEPT !.proxies = @ \cup {a}], cur, announce_proxy(n, a)),
                route_hdl(b1, m))
     ELSE b2
get_or_put(b, n, cur, a) == IF a \in b.proxies THEN b ELSE make_proxy(b, n, cur, a)

\* actor_namespace::read of the handle in a payload: a null proxy is dereferenced
read_addr(b, n, cur, a) ==
  IF a = NoActor \/ Home[a] = n THEN b
  ELSE LET b1 == get_or_put(b, n, cur, a) IN [b1 EXCEPT !.ub = @ \/ a \notin b1.proxies]

finalize_handshake(b, n, h, m, a) ==
  LET b1 == [b EXCEPT !.ctx[h].id = m, !.ctx[h].callback = FALSE]
  IN IF b.ctx[h].callback /\ a # NoActor /\ m # n THEN get_or_put(b1, n, h, a) ELSE b1

\* the error function of instance::handle and close() by the broker
close_connection(b, h) ==
  LET m == lookup_direct(b, h)
      b1 == IF m = NoNode THEN b
            ELSE [purge_state(b, m) EXCEPT !.byNid = Del(@, m), !.byHdl = Del(@, h)]
  IN [b1 EXCEPT !.shut = @ \cup {h}, !.ctx = Del(@, h)]

---------------------------------------------------------------------------
(* instance::handle for a complete datagram d read by node n from handle h *)

forward(b, n, d) ==
  IF has_route(b, d.dst) THEN send_to(b, d.dst, d)
  ELSE LET b1 == lookup(b, d.dst)
       IN IF d.src = n \/ ~has_route(b1, d.src) THEN lookup(b1, d.src)
          ELSE write(lookup(b1, d.src), route_hdl(b1, d.src), dispatch_error(n, d.src))

handle_server_handshake(b, n, h, d) ==
  IF d.src = n \/ has_direct(b, d.src)
  THEN close_connection(finalize_handshake(b, n, h, d.src, d.sa), h)
  ELSE LET r == add_direct(b, n, h, d.src)
           b1 == write(r.first, h, client_handshake(n, d.src))
           b2 == IF r.learn THEN learned_new_node(b1, n, d.src) ELSE b1
       IN flush(finalize_handshake(b2, n, h, d.src, d.sa), h)

handle_client_handshake(b, n, h, d) ==
  IF has_direct(b, d.src) THEN b
  ELSE LET r == add_direct(b, n, h, d.src)
       IN IF r.learn THEN learned_new_node(r.first, n, d.src) ELSE r.first

\* the sender's address is what deliver adds to the broker's state
deliver(b, n, h, d) ==
  IF d.src = n \/ d.sa = NoActor THEN b ELSE get_or_put(b, n, h, d.sa)

handle_dispatch(b, n, h, d) ==
  LET last_hop == lookup_direct(b, h)
      b1 == IF d.src \notin {n, NoNode, last_hop} /\ ~has_direct(b, d.src)
            THEN add_indirect(b, n, last_hop, d.src) ELSE b
  IN deliver(read_addr(b1, n, h, d.ref), n, h, d)

\* an announced actor that has already terminated is answered at once; for
\* a running one ReadDatagram attaches a functor
proxy_announced(b, n, d) ==
  IF d.da \in dead THEN send_to(b, d.src, kill_proxy_instance(n, d.src, d.da)) ELSE b

handle(b, n, h, d) ==
  IF ~valid(d) THEN close_connection(b, h)
  ELSE IF ~is_handshake(d) /\ d.dst # n THEN forward(b, n, d)
  ELSE CASE d.op = "server_handshake" -> handle_server_handshake(b, n, h, d)
         [] d.op = "client_handshake" -> handle_client_handshake(b, n, h, d)
         [] d.op = "dispatch_message" -> handle_dispatch(b, n, h, d)
         [] d.op = "announce_proxy_instance" -> proxy_announced(b, n, d)
         [] d.op = "kill_proxy_instance" -> erase_proxies(b, {d.sa})

---------------------------------------------------------------------------
(* Actions.  Install makes b the state of n's broker: flushed datagrams go *)
(* to the wire (or nowhere, when the connection is cut) and the sockets of *)
(* closed handles are shut.                                                *)

Install(n, b, w, s) ==
  /\ broker' = [broker EXCEPT ![n] = [b EXCEPT !.sent = [h \in Hdl |-> <<>>], !.shut = {}, !.ub = FALSE]]
  /\ wire' = [h \in Hdl |-> IF h[1] \in broken THEN w[h] ELSE w[h] \o b.sent[h]]
  /\ sock' = [h \in Hdl |-> IF h \in b.shut THEN "closed" ELSE s[h]]

Init ==
  /\ broker = [n \in Node |-> NewBroker]
  /\ wire = [h \in Hdl |-> <<>>] /\ sock = [h \in Hdl |-> "none"]
  /\ ends = [c \in Conn |-> <<>>] /\ broken = {}
  /\ dead = {} /\ watched = {} /\ killq = {}
  /\ promise = [c \in Conn |-> "none"]
  /\ nullRead = FALSE /\ sends = 0 /\ faults = 0

NewContext(cb) == [id |-> NoNode, cstate |-> "await_header", callback |-> cb]

\* remote_actor on n: the middleman dials m and the broker gets connect_atom
Connect(c, n, m) ==
  /\ <<n, m>> \in Dials /\ ends[c] = <<>>
  /\ ends' = [ends EXCEPT ![c] = <<n, m>>]
  /\ sock' = [sock EXCEPT ![<<c, 1>>] = "open", ![<<c, 2>>] = "backlog"]
  /\ broker' = [broker EXCEPT ![n].ctx = Put(@, <<c, 1>>, NewContext(TRUE))]
  /\ promise' = [promise EXCEPT ![c] = "pending"]
  /\ UNCHANGED <<wire, broken, dead, watched, killq, nullRead, sends, faults>>

\* new_connection_msg: the accepting node opens with its server handshake
Accept(h) ==
  /\ sock[h] = "backlog"
  /\ LET n == Owner(h)
     IN Install(n, flush(write(broker[n], h, server_handshake(n)), h), wire, [sock EXCEPT ![h] = "open"])
  /\ UNCHANGED <<ends, broken, dead, watched, killq, promise, nullRead, sends, faults>>

\* data on an accepted connection may be the first the broker hears of it
set_context(b, h) == IF h \in DOMAIN b.ctx THEN b.ctx[h] ELSE NewContext(FALSE)

\* new_data_msg while a header is awaited and a payload follows
ReadHeader(h) ==
  /\ sock[h] = "open" /\ wire[Peer(h)] # <<>>
  /\ LET n == Owner(h)
         b == broker[n]
         ctx == set_context(b, h)
     IN /\ Head(wire[Peer(h)]).pay /\ ctx.cstate = "await_header"
        /\ Install(n, flush([b EXCEPT !.ctx = Put(@, h, [ctx EXCEPT !.cstate = "await_payload"])], h),
                   wire, sock)
  /\ UNCHANGED <<ends, broken, dead, watched, killq, promise, nullRead, sends, faults>>

\* new_data_msg that completes a datagram; scribe::consume flushes afterwards
ReadDatagram(h) ==
  /\ sock[h] = "open" /\ wire[Peer(h)] # <<>>
  /\ LET n == Owner(h)
         b == broker[n]
         d == Head(wire[Peer(h)])
         ctx == set_context(b, h)
         b1 == handle([b EXCEPT !.ctx = Put(@, h, ctx)], n, h, d)
         b2 == IF h \in DOMAIN b1.ctx THEN [b1 EXCEPT !.ctx[h].cstate = "await_header"] ELSE b1
     IN /\ d.pay => ctx.cstate = "await_payload"
        /\ Install(n, flush(b2, h), [wire EXCEPT ![Peer(h)] = Tail(@)], sock)
        /\ nullRead' = (nullRead \/ b1.ub)
        /\ watched' = IF d.op = "announce_proxy_instance" /\ d.dst = n /\ d.da \notin dead
                      THEN watched \cup {<<d.da, d.src>>} ELSE watched
        /\ promise' = IF d.op = "server_handshake" /\ ctx.callback
                      THEN [promise EXCEPT ![h[1]] = "ok"] ELSE promise
  /\ UNCHANGED <<ends, broken, dead, killq, sends, faults>>

\* routing_table::erase, called for a node whose connection is lost
handle_node_shutdown(b, m) ==
  LET hops == IF m \in DOMAIN b.indirect THEN b.indirect[m] ELSE {}
      lost == {m} \cup hops
      b1 == erase_proxies(b, UNION {ActorsOf(x) : x \in {y \in lost : has_direct(b, y)}})
      b2 == [b1 EXCEPT !.ctx = Restrict(@, DOMAIN @ \ {b.byNid[x] : x \in {y \in lost : has_direct(b, y)}}),
                       !.indirect = Del(@, m)]
  IN IF has_direct(b, m)
     THEN [b2 EXCEPT !.byHdl = Del(@, b.byNid[m]), !.byNid = Del(@, m)] ELSE b2

\* mutant: a context is erased without an answer for its callback
EraseContextSilently(p, b, h) == p

\* what erase_context delivers: the connection closed during the handshake
erase_context(p, b, h) ==
  IF h \in DOMAIN b.ctx /\ b.ctx[h].callback THEN [p EXCEPT ![h[1]] = "error"] ELSE p

\* connection_closed_msg: the scribe is gone before the broker is told
ConnectionClosed(h) ==
  /\ sock[h] = "open"
  /\ h[1] \in broken \/ (sock[Peer(h)] = "closed" /\ wire[Peer(h)] = <<>>)
  /\ LET n == Owner(h)
         b == broker[n]
         m == lookup_direct(b, h)
         b1 == [b EXCEPT !.ctx = Del(@, h)]
         b2 == IF m = NoNode THEN b1 ELSE erase_proxies(handle_node_shutdown(b1, m), ActorsOf(m))
     IN /\ Install(n, IF h \in DOMAIN b.ctx THEN b2 ELSE b, wire, [sock EXCEPT ![h] = "closed"])
        /\ promise' = erase_context(promise, b, h)
  /\ UNCHANGED <<ends, broken, dead, watched, killq, nullRead, sends, faults>>

\* the exit functor of a killed proxy erases whatever entry exists by now
RunPosted(n, a) ==
  /\ a \in broker[n].posted
  /\ broker' = [broker EXCEPT ![n] = erase_proxies([broker[n] EXCEPT !.posted = @ \ {a}], {a})]
  /\ UNCHANGED <<wire, sock, ends, broken, dead, watched, killq, promise, nullRead, sends, faults>>

\* an actor terminates; its functors are queued in the I/O loop of its node
Die(a) ==
  /\ a \in Mortal \ dead
  /\ dead' = dead \cup {a}
  /\ killq' = killq \cup {w \in watched : w[1] = a}
  /\ watched' = {w \in watched : w[1] # a}
  /\ UNCHANGED <<broker, wire, sock, ends, broken, promise, nullRead, sends, faults>>

SendKill(a, m) ==
  /\ <<a, m>> \in killq
  /\ killq' = killq \ {<<a, m>>}
  /\ LET n == Home[a]
     IN Install(n, send_to(broker[n], m, kill_proxy_instance(n, m, a)), wire, sock)
  /\ UNCHANGED <<ends, broken, dead, watched, promise, nullRead, sends, faults>>

\* forward_atom: an actor of n sends to a proxy a message that carries ref
Forward(n, a, to, ref) ==
  /\ sends < MaxSends
  /\ a \in Talkers \ dead /\ Home[a] = n /\ to \in broker[n].proxies
  /\ ref = NoActor \/ ref \in broker[n].proxies \ {to}
  /\ Install(n, send_to(broker[n], Home[to], dispatch_message(n, Home[to], a, to, ref)), wire, sock)
  /\ sends' = sends + 1
  /\ UNCHANGED <<ends, broken, dead, watched, killq, promise, nullRead, faults>>

\* fault: the network cuts a connection and what is in flight on it is lost
Cut(c) ==
  /\ faults < MaxFaults
  /\ ends[c] # <<>> /\ c \notin broken
  /\ broken' = broken \cup {c} /\ faults' = faults + 1
  /\ wire' = [h \in Hdl |-> IF h[1] = c THEN <<>> ELSE wire[h]]
  /\ UNCHANGED <<broker, sock, ends, dead, watched, killq, promise, nullRead, sends>>

Next ==
  \/ \E c \in Conn, n, m \in Node : Connect(c, n, m)
  \/ \E h \in Hdl : Accept(h) \/ ReadHeader(h) \/ ReadDatagram(h) \/ ConnectionClosed(h)
  \/ \E n \in Node, a \in Actor : RunPosted(n, a)
  \/ \E a \in Actor : Die(a)
  \/ \E a \in Actor, m \in Node : SendKill(a, m)
  \/ \E n \in Node, a, to \in Actor, ref \in Actor \cup {NoActor} : Forward(n, a, to, ref)
  \/ \E c \in Conn : Cut(c)

Spec == Init /\ [][Next]_vars

---------------------------------------------------------------------------
(* Properties *)

\* Nothing is left to do for any I/O loop.  Every handler uses up a datagram,
\* a closed socket or a queued functor, so a system whose loops keep running
\* and whose actors stop sending always gets here.
Quiet ==
  /\ \A h \in Hdl : /\ sock[h] # "backlog"
                    /\ sock[h] = "open" => wire[Peer(h)] = <<>> /\ h[1] \notin broken
                                          /\ sock[Peer(h)] # "closed"
  /\ \A n \in Node : broker[n].posted = {}
  /\ killq = {}

\* The two direct maps of routing_table are inverse to each other, a direct
\* route has an attached scribe and a context (else wr_buf throws and the
\* broker dies, or a closed connection is never noticed), and a node with a
\* direct route has no indirect entry (else routing_table::erase purges
\* hops that are still connected).
RoutesBacked ==
  \A n \in Node :
    LET b == broker[n]
    IN /\ \A h \in DOMAIN b.byHdl :
            /\ b.byHdl[h] \in DOMAIN b.byNid /\ b.byNid[b.byHdl[h]] = h
            /\ sock[h] = "open" /\ h \in DOMAIN b.ctx
       /\ \A m \in DOMAIN b.byNid : b.byNid[m] \in DOMAIN b.byHdl
       /\ DOMAIN b.byNid \cap DOMAIN b.indirect = {}

\* A proxy stands for an actor on a node that the broker has a usable route
\* to.  Only after it has closed a connection to another node may the route be
\* missing: routing_table::erase does not purge what lies behind a lost hop,
\* so the indirect entry stays without it and so do the proxies.
LostHop(n, m) ==
  \E h \in Hdl : /\ ends[h[1]] # <<>> /\ Owner(h) = n /\ Owner(Peer(h)) # m
                 /\ sock[h] = "closed"
ProxiesRouted ==
  \A n \in Node : \A a \in broker[n].proxies :
    \/ has_route(broker[n], Home[a])
    \/ Home[a] \in DOMAIN broker[n].indirect /\ LostHop(n, Home[a])

\* remote_actor always gets an answer: the promise stored in the context of
\* a connection is fulfilled by the handshake or by the loss of the
\* connection, also when the connection turns out to be redundant.
ConnectAnswered == Quiet => \A c \in Conn : promise[c] # "pending"

=============================================================================
