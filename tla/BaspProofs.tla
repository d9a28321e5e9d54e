----------------------------- MODULE BaspProofs -----------------------------
(***************************************************************************)
(* Proofs about Basp, for any number of nodes, connections and actors and  *)
(* any pattern of dialling: every direct route is backed by an open        *)
(* connection, proxies have a route unless a lost connection took it, and  *)
(* remote_actor is answered.                                               *)
(*                                                                         *)
(* A handler is a composition of operators from broker state to broker     *)
(* state.  Sound is what all of them preserve; the lemmas show this one    *)
(* operator at a time, and the invariance proof only has to relate the     *)
(* state of one broker to sockets, wires and promises.                     *)
(***************************************************************************)
EXTENDS Basp, WellFoundedInduction, TLAPS

(* Maps from a subset of S to T                                            *)
Maps(S, T) == UNION {[D -> T] : D \in SUBSET S}

Ops == {"server_handshake", "client_handshake", "dispatch_message",
        "announce_proxy_instance", "kill_proxy_instance"}

Datagrams ==
  [op : Ops, src : Node \cup {NoNode}, dst : Node \cup {NoNode},
   sa : Actor \cup {NoActor}, da : Actor \cup {NoActor, Named},
   pay : BOOLEAN, ref : Actor \cup {NoActor}]

Contexts == [id : Node \cup {NoNode}, cstate : {"await_header", "await_payload"},
             callback : BOOLEAN]

(* What may be sent on handle h when the connections have the ends E: a    *)
(* handshake names its sender, the accepting side sends the server's and   *)
(* the dialling side the client's.                                         *)
Allowed(E, h) ==
  {d \in Datagrams :
     /\ d.op = "server_handshake" => h[2] = 2 /\ d.src = E[h[1]][2]
     /\ d.op = "client_handshake" => h[2] = 1 /\ d.src = E[h[1]][1]}

BrokerT ==
  [byHdl : Maps(Hdl, Node), byNid : Maps(Node, Hdl),
   indirect : Maps(Node, SUBSET (Node \cup {NoNode})), ctx : Maps(Hdl, Contexts),
   proxies : SUBSET Actor, posted : SUBSET Actor, spawners : SUBSET Node,
   out : [Hdl -> Seq(Datagrams)], sent : [Hdl -> Seq(Datagrams)],
   shut : SUBSET Hdl, ub : BOOLEAN]

(* The two direct maps are inverse to each other; a direct route leads to  *)
(* the node at the other end of the connection, its handle has a context,  *)
(* is not one of the handles Q that the broker cannot use and is not       *)
(* closed by this handler.                                                 *)
Direct(b, E, Q) ==
  /\ \A h \in DOMAIN b.byHdl :
       /\ h \notin Q /\ h \in DOMAIN b.ctx /\ h \notin b.shut
       /\ b.byHdl[h] = E[h[1]][3 - h[2]]
       /\ b.byHdl[h] \in DOMAIN b.byNid /\ b.byNid[b.byHdl[h]] = h
  /\ \A m \in DOMAIN b.byNid : b.byNid[m] \in DOMAIN b.byHdl /\ b.byHdl[b.byNid[m]] = m
  /\ DOMAIN b.byNid \cap DOMAIN b.indirect = {}

(* Proxies stand for actors of nodes with a usable route; only for the     *)
(* nodes X does an indirect entry do whose hops may all be gone.           *)
Reach(b, X) ==
  \A a \in b.proxies : has_route(b, Home[a]) \/ Home[a] \in DOMAIN b.indirect \cap X

(* Buffers hold what may be sent, and nothing for the handles P that the   *)
(* broker has not used yet.                                                *)
Output(b, E, P) ==
  \A h \in Hdl : /\ b.out[h] \in Seq(Allowed(E, h)) /\ b.sent[h] \in Seq(Allowed(E, h))
                 /\ h \in P => b.out[h] = <<>> /\ b.sent[h] = <<>>

(* The handles K have a context with a callback and no route yet; they are *)
(* not closed by this handler.                                             *)
Callbacks(b, Q, K) ==
  /\ \A h \in K : /\ h \in DOMAIN b.ctx /\ b.ctx[h].callback
                  /\ h \notin DOMAIN b.byHdl /\ h \notin b.shut
  /\ b.shut \cap Q = {} /\ DOMAIN b.ctx \cap (Q \cup b.shut) = {}

Sound(b, E, P, Q, K, X) ==
  /\ b \in BrokerT
  /\ Direct(b, E, Q) /\ Reach(b, X) /\ Output(b, E, P) /\ Callbacks(b, Q, K)

(* What most operators leave alone                                         *)
Frame(b, b1) ==
  /\ b1.ctx = b.ctx /\ b1.byHdl = b.byHdl /\ b1.byNid = b.byNid /\ b1.shut = b.shut

(* For connections with ends E and sockets S: the handles that are not     *)
(* open or not the broker's of n, and those of them that never were        *)
Foreign(E, n) == {h \in Hdl : E[h[1]] = <<>> \/ E[h[1]][h[2]] # n}
Unusable(E, S, n) == Foreign(E, n) \cup {h \in Hdl : S[h] # "open"}
Unused(E, S, n) == Foreign(E, n) \cup {h \in Hdl : S[h] \in {"none", "backlog"}}

(* The nodes for which n may have lost its hop: it has a closed connection *)
(* to some other node                                                      *)
Stranded(E, S, n) ==
  {m \in Node : \E h \in Hdl : /\ h \notin Foreign(E, n) /\ S[h] = "closed"
                              /\ E[h[1]][3 - h[2]] # m}

(* Losing handle h is an excuse to keep proxies of every node but the one  *)
(* at its other end.                                                       *)
Excused(E, h, X) == \A m \in Node : m # E[h[1]][3 - h[2]] => m \in X

(* Handles on which n waits for the answer to remote_actor                 *)
Waiting(E, p, n) ==
  {h \in Hdl \ Foreign(E, n) : h[2] = 1 /\ p[h[1]] = "pending"}

Sockets == {"none", "backlog", "open", "closed"}
Promises == {"none", "pending", "ok", "error"}

TypesInv ==
  /\ ends \in [Conn -> {<<>>} \cup (Node \X Node)]
  /\ sock \in [Hdl -> Sockets]
  /\ promise \in [Conn -> Promises]
  /\ wire \in [Hdl -> Seq(Datagrams)]
  /\ broker \in [Node -> BrokerT]
  /\ dead \subseteq Actor

BrokersInv ==
  \A n \in Node :
    /\ Sound(broker[n], ends, Unused(ends, sock, n), Unusable(ends, sock, n),
             Waiting(ends, promise, n), Stranded(ends, sock, n))
    /\ broker[n].shut = {} /\ broker[n].sent = [h \in Hdl |-> <<>>]

(* A connection nobody has dialled has no sockets, and a socket that is    *)
(* not open yet has sent nothing.                                          *)
SocketsInv ==
  /\ \A c \in Conn : IF ends[c] = <<>>
       THEN sock[<<c, 1>>] = "none" /\ sock[<<c, 2>>] = "none" /\ promise[c] = "none"
       ELSE sock[<<c, 1>>] \in {"open", "closed"} /\ sock[<<c, 2>>] # "none"
  /\ \A h \in Hdl : /\ wire[h] \in Seq(Allowed(ends, h))
                    /\ sock[h] \in {"none", "backlog"} \/ h[1] \in broken => wire[h] = <<>>

(* While remote_actor waits, its socket is open and the server's handshake *)
(* is still to be sent or the first thing to be read, or the connection is *)
(* lost.                                                                   *)
PromisesInv ==
  \A c \in Conn : promise[c] = "pending" =>
    /\ sock[<<c, 1>>] = "open"
    /\ \/ sock[<<c, 2>>] = "backlog"
       \/ wire[<<c, 2>>] # <<>> /\ Head(wire[<<c, 2>>]) = server_handshake(ends[c][2])
       \/ c \in broken

IInv == TypesInv /\ BrokersInv /\ SocketsInv /\ PromisesInv
-----------------------------------------------------------------------------
(* Maps, and the least element of a set of numbers                         *)

(* What membership in a set of maps gives                                  *)
LEMMA MapFacts ==
  ASSUME NEW S, NEW T, NEW f \in Maps(S, T)
  PROVE  DOMAIN f \subseteq S /\ \A x \in DOMAIN f : f[x] \in T
BY DEF Maps

(* Put is a map again.                                                     *)
LEMMA PutMap ==
  ASSUME NEW S, NEW T, NEW f \in Maps(S, T), NEW k \in S, NEW v \in T
  PROVE  Put(f, k, v) \in Maps(S, T)
<1>1. Put(f, k, v) \in [DOMAIN f \cup {k} -> T]
  BY MapFacts DEF Put
<1>2. DOMAIN f \cup {k} \in SUBSET S
  BY MapFacts
<1> QED BY <1>1, <1>2 DEF Maps

(* A restriction is a map again.                                           *)
LEMMA RestrictMap ==
  ASSUME NEW S, NEW T, NEW f \in Maps(S, T), NEW D \in SUBSET (DOMAIN f)
  PROVE  Restrict(f, D) \in Maps(S, T)
<1>1. Restrict(f, D) \in [D -> T]
  BY MapFacts DEF Restrict
<1>2. D \in SUBSET S
  BY MapFacts
<1> QED BY <1>1, <1>2 DEF Maps

(* Del is a map again.                                                     *)
LEMMA DelMap ==
  ASSUME NEW S, NEW T, NEW f \in Maps(S, T), NEW k
  PROVE  Del(f, k) \in Maps(S, T)
BY RestrictMap DEF Del

(* Assigning to a key keeps a map a map.                                   *)
LEMMA ExceptMap ==
  ASSUME NEW S, NEW T, NEW f \in Maps(S, T), NEW k \in DOMAIN f, NEW v \in T
  PROVE  /\ [f EXCEPT ![k] = v] \in Maps(S, T)
         /\ DOMAIN [f EXCEPT ![k] = v] = DOMAIN f
         /\ [f EXCEPT ![k] = v][k] = v
         /\ \A x \in DOMAIN f : x # k => [f EXCEPT ![k] = v][x] = f[x]
<1>1. PICK D \in SUBSET S : f \in [D -> T]
  BY DEF Maps
<1>2. [f EXCEPT ![k] = v] \in [D -> T]
  BY <1>1
<1> QED BY <1>1, <1>2 DEF Maps

(* A non-empty queue keeps its head when something is appended.            *)
LEMMA ConcatHead ==
  ASSUME NEW T, NEW q \in Seq(T), NEW r \in Seq(T), q # <<>>
  PROVE  q \o r # <<>> /\ Head(q \o r) = Head(q)
<1>1. Len(q) >= 1 /\ Len(q) \in Nat /\ Len(r) \in Nat
  OBVIOUS
<1>2. Len(q \o r) = Len(q) + Len(r) /\ q \o r \in Seq(T)
  OBVIOUS
<1>3. q \o r # <<>>
  BY <1>1, <1>2
<1>4. (q \o r)[1] = q[1]
  BY <1>1
<1>5. Head(q \o r) = (q \o r)[1] /\ Head(q) = q[1]
  BY <1>2, <1>3
<1> QED BY <1>3, <1>4, <1>5

(* A non-empty set of natural numbers has a least element.                 *)
LEMMA LeastExists ==
  ASSUME NEW T \in SUBSET Nat, T # {}
  PROVE  \E x \in T : \A y \in T : x <= y
<1>1. PICK x \in T : \A y \in T : ~ (<<y, x>> \in OpToRel(<, Nat))
  BY NatLessThanWellFounded, WFMin
<1>2. ASSUME NEW y \in T PROVE x <= y
  <2>1. x \in Nat /\ y \in Nat
    OBVIOUS
  <2>2. ~ (y < x)
    BY <1>1, <2>1 DEF OpToRel
  <2> QED BY <2>1, <2>2
<1> QED BY <1>2

(* The first usable hop exists when there is one.                          *)
LEMMA FirstHopLive ==
  ASSUME NEW b, NEW m, b \in BrokerT, m \in DOMAIN b.indirect,
         \E x \in b.indirect[m] : has_direct(b, x)
  PROVE  FirstHop(b, m) \in b.indirect[m] /\ has_direct(b, FirstHop(b, m))
<1> DEFINE live == {x \in b.indirect[m] : has_direct(b, x)}
<1>1. b.byNid \in Maps(Node, Hdl)
  BY DEF BrokerT
<1>2. DOMAIN b.byNid \subseteq Node
  BY <1>1, MapFacts
<1>3. live \subseteq Node /\ live # {}
  BY <1>2 DEF has_direct
<1> HIDE DEF live
<1> DEFINE ranks == {Rank[x] : x \in live}
<1>4. ranks \in SUBSET Nat /\ ranks # {}
  BY <1>3, BaspAssumption
<1> HIDE DEF ranks
<1>5. PICK r \in ranks : \A y \in ranks : r <= y
  BY <1>4, LeastExists
<1>6. PICK x \in live : r = Rank[x]
  BY <1>5 DEF ranks
<1>7. \A y \in live : Rank[x] <= Rank[y]
  BY <1>5, <1>6 DEF ranks
<1>8. (CHOOSE z \in live : \A y \in live : Rank[z] <= Rank[y]) \in live
  BY <1>6, <1>7
<1>9. FirstHop(b, m) \in live
  BY <1>8 DEF FirstHop, live
<1> QED BY <1>9 DEF live
-----------------------------------------------------------------------------
(* The operators of a handler keep a broker sound.                         *)

(* What write and flush change                                             *)
LEMMA WriteSound ==
  ASSUME NEW b, NEW E, NEW Q, NEW P \in SUBSET Q, NEW K, NEW X, NEW h \in Hdl, NEW d \in Allowed(E, h),
         Sound(b, E, P, Q, K, X), h \notin Q
  PROVE  Sound(write(b, h, d), E, P, Q, K, X)
<1> DEFINE b1 == write(b, h, d)
<1>1. b \in BrokerT /\ d \in Datagrams
  BY DEF Sound, Allowed
<1>2. /\ b1 \in BrokerT
      /\ b1.byHdl = b.byHdl /\ b1.byNid = b.byNid /\ b1.indirect = b.indirect
      /\ b1.ctx = b.ctx /\ b1.proxies = b.proxies /\ b1.shut = b.shut /\ b1.sent = b.sent
      /\ b1.out = [b.out EXCEPT ![h] = Append(b.out[h], d)]
  <2> DEFINE o == [b.out EXCEPT ![h] = Append(b.out[h], d)]
  <2>1. b.out \in [Hdl -> Seq(Datagrams)]
    BY <1>1 DEF BrokerT
  <2>2. o \in [Hdl -> Seq(Datagrams)]
    BY <1>1, <2>1
  <2>3. b1 = [b EXCEPT !.out = o]
    BY <1>1, <2>1 DEF write
  <2> HIDE DEF o, b1
  <2>4. b1 \in BrokerT
    BY <1>1, <2>2, <2>3 DEF BrokerT
  <2>5. b1.out = o
    BY <1>1, <2>3 DEF BrokerT
  <2> QED BY <1>1, <2>3, <2>4, <2>5 DEF BrokerT, o
<1> HIDE DEF b1
<1>3. Direct(b1, E, Q) /\ Reach(b1, X) /\ Callbacks(b1, Q, K)
  BY <1>2 DEF Sound, Direct, Reach, Callbacks, has_route, has_direct
<1>4. Output(b1, E, P)
  <2> SUFFICES ASSUME NEW g \in Hdl
               PROVE  /\ b1.out[g] \in Seq(Allowed(E, g)) /\ b1.sent[g] \in Seq(Allowed(E, g))
                      /\ g \in P => b1.out[g] = <<>> /\ b1.sent[g] = <<>>
    BY DEF Output
  <2>1. /\ b.out[g] \in Seq(Allowed(E, g)) /\ b.sent[g] \in Seq(Allowed(E, g))
        /\ g \in P => b.out[g] = <<>> /\ b.sent[g] = <<>>
    BY DEF Sound, Output
  <2>2. b.out \in [Hdl -> Seq(Datagrams)]
    BY <1>1 DEF BrokerT
  <2>3. b1.out[g] = IF g = h THEN Append(b.out[h], d) ELSE b.out[g]
    BY <1>2, <2>2
  <2> QED BY <1>2, <2>1, <2>3
<1> QED BY <1>2, <1>3, <1>4 DEF Sound, b1

LEMMA FlushSound ==
  ASSUME NEW b, NEW E, NEW Q, NEW P \in SUBSET Q, NEW K, NEW X, NEW h \in Hdl,
         Sound(b, E, P, Q, K, X), h \notin Q
  PROVE  Sound(flush(b, h), E, P, Q, K, X)
<1> DEFINE b1 == flush(b, h)
<1>1. b \in BrokerT
  BY DEF Sound
<1>2. b.out \in [Hdl -> Seq(Datagrams)] /\ b.sent \in [Hdl -> Seq(Datagrams)]
  BY <1>1 DEF BrokerT
<1>3. b.sent[h] \o b.out[h] \in Seq(Datagrams)
  BY <1>2
<1>4. /\ b1 \in BrokerT
      /\ b1.byHdl = b.byHdl /\ b1.byNid = b.byNid /\ b1.indirect = b.indirect
      /\ b1.ctx = b.ctx /\ b1.proxies = b.proxies /\ b1.shut = b.shut
      /\ b1.sent = [b.sent EXCEPT ![h] = b.sent[h] \o b.out[h]]
      /\ b1.out = [b.out EXCEPT ![h] = <<>>]
  <2> DEFINE o == [b.out EXCEPT ![h] = <<>>]
             t == [b.sent EXCEPT ![h] = b.sent[h] \o b.out[h]]
  <2>1. o \in [Hdl -> Seq(Datagrams)] /\ t \in [Hdl -> Seq(Datagrams)]
    BY <1>2, <1>3
  <2>2. b1 = [b EXCEPT !.sent = t, !.out = o]
    BY <1>1, <1>2 DEF flush
  <2> HIDE DEF o, t, b1
  <2>3. b1 \in BrokerT
    BY <1>1, <2>1, <2>2 DEF BrokerT
  <2>4. b1.out = o /\ b1.sent = t
    BY <1>1, <2>2 DEF BrokerT
  <2> QED BY <1>1, <2>2, <2>3, <2>4 DEF BrokerT, o, t
<1> HIDE DEF b1
<1>5. Direct(b1, E, Q) /\ Reach(b1, X) /\ Callbacks(b1, Q, K)
  BY <1>4 DEF Sound, Direct, Reach, Callbacks, has_route, has_direct
<1>6. Output(b1, E, P)
  <2> SUFFICES ASSUME NEW g \in Hdl
               PROVE  /\ b1.out[g] \in Seq(Allowed(E, g)) /\ b1.sent[g] \in Seq(Allowed(E, g))
                      /\ g \in P => b1.out[g] = <<>> /\ b1.sent[g] = <<>>
    BY DEF Output
  <2>1. /\ b.out[g] \in Seq(Allowed(E, g)) /\ b.sent[g] \in Seq(Allowed(E, g))
        /\ g \in P => b.out[g] = <<>> /\ b.sent[g] = <<>>
    BY DEF Sound, Output
  <2>2. b1.out[g] = IF g = h THEN <<>> ELSE b.out[g]
    BY <1>2, <1>4
  <2>3. b1.sent[g] = IF g = h THEN b.sent[g] \o b.out[g] ELSE b.sent[g]
    BY <1>2, <1>4
  <2> QED BY <2>1, <2>2, <2>3
<1> QED BY <1>4, <1>5, <1>6 DEF Sound, b1

(* What looking up a route changes: the hops of an indirect entry, of      *)
(* which the first usable one stays                                        *)
LEMMA LookupSound ==
  ASSUME NEW b, NEW E, NEW Q, NEW P \in SUBSET Q, NEW K, NEW X, NEW m, Sound(b, E, P, Q, K, X)
  PROVE  /\ Sound(lookup(b, m), E, P, Q, K, X) /\ Frame(b, lookup(b, m))
         /\ DOMAIN lookup(b, m).indirect = DOMAIN b.indirect
         /\ \A k : has_route(b, k) => has_route(lookup(b, m), k)
<1>1. CASE has_direct(b, m) \/ m \notin DOMAIN b.indirect
  BY <1>1 DEF lookup, Frame
<1>2. CASE ~ has_direct(b, m) /\ m \in DOMAIN b.indirect
  <2> DEFINE hops == IF has_route(b, m) THEN {x \in b.indirect[m] : Rank[x] >= Rank[FirstHop(b, m)]} ELSE {}
             b1 == lookup(b, m)
  <2>1. b \in BrokerT /\ b.indirect \in Maps(Node, SUBSET (Node \cup {NoNode}))
    BY DEF Sound, BrokerT
  <2>2. b.indirect[m] \in SUBSET (Node \cup {NoNode})
    BY <1>2, <2>1, MapFacts
  <2>3. hops \in SUBSET (Node \cup {NoNode})
    BY <2>2
  <2>4. has_route(b, m) => \E x \in hops : has_direct(b, x)
    <3> SUFFICES ASSUME has_route(b, m)
                 PROVE  \E x \in hops : has_direct(b, x)
      OBVIOUS
    <3>1. FirstHop(b, m) \in b.indirect[m] /\ has_direct(b, FirstHop(b, m))
      BY <1>2, <2>1, FirstHopLive DEF has_route
    <3>2. Rank[FirstHop(b, m)] \in Nat
      BY <2>2, <3>1, BaspAssumption
    <3> QED BY <3>1, <3>2
  <2>5. b1 = [b EXCEPT !.indirect = [b.indirect EXCEPT ![m] = hops]]
    BY <1>2, <2>1 DEF lookup, BrokerT
  <2> HIDE DEF hops
  <2>6. /\ [b.indirect EXCEPT ![m] = hops] \in Maps(Node, SUBSET (Node \cup {NoNode}))
        /\ DOMAIN [b.indirect EXCEPT ![m] = hops] = DOMAIN b.indirect
        /\ [b.indirect EXCEPT ![m] = hops][m] = hops
        /\ \A k \in DOMAIN b.indirect : k # m => [b.indirect EXCEPT ![m] = hops][k] = b.indirect[k]
    BY <1>2, <2>1, <2>3, ExceptMap
  <2> HIDE DEF b1
  <2>7. /\ b1 \in BrokerT
        /\ b1.byHdl = b.byHdl /\ b1.byNid = b.byNid /\ b1.ctx = b.ctx
        /\ b1.indirect = [b.indirect EXCEPT ![m] = hops]
        /\ b1.proxies = b.proxies /\ b1.shut = b.shut /\ b1.sent = b.sent /\ b1.out = b.out
    BY <2>1, <2>5, <2>6 DEF BrokerT
  <2>8. ASSUME NEW k, has_route(b, k)
        PROVE  has_route(b1, k)
    <3>1. CASE k = m
      BY <1>2, <2>4, <2>6, <2>7, <2>8, <3>1 DEF has_route, has_direct
    <3>2. CASE k # m
      BY <2>6, <2>7, <2>8, <3>2 DEF has_route, has_direct
    <3> QED BY <3>1, <3>2
  <2>9. DOMAIN b1.indirect = DOMAIN b.indirect
    BY <2>6, <2>7
  <2>10. Direct(b1, E, Q) /\ Callbacks(b1, Q, K) /\ Output(b1, E, P)
    BY <2>7, <2>9 DEF Sound, Direct, Callbacks, Output
  <2>11. Reach(b1, X)
    BY <2>7, <2>8, <2>9 DEF Sound, Reach
  <2> QED BY <2>7, <2>8, <2>9, <2>10, <2>11 DEF Sound, Frame, b1
<1> QED BY <1>1, <1>2

(* A route leads to a handle with a direct route.                          *)
LEMMA RouteUsable ==
  ASSUME NEW b, NEW E, NEW Q, NEW P \in SUBSET Q, NEW K, NEW X, NEW m, Sound(b, E, P, Q, K, X), has_route(b, m)
  PROVE  /\ route_hdl(b, m) \in DOMAIN b.byHdl
         /\ route_hdl(b, m) \in Hdl /\ route_hdl(b, m) \notin Q
<1>1. b \in BrokerT /\ b.byHdl \in Maps(Hdl, Node)
  BY DEF Sound, BrokerT
<1>2. \A x \in DOMAIN b.byNid : b.byNid[x] \in DOMAIN b.byHdl
  BY DEF Sound, Direct
<1>3. route_hdl(b, m) \in DOMAIN b.byHdl
  <2>1. CASE has_direct(b, m)
    BY <1>2, <2>1 DEF route_hdl, has_direct
  <2>2. CASE ~ has_direct(b, m)
    <3>1. has_direct(b, FirstHop(b, m))
      BY <1>1, <2>2, FirstHopLive DEF has_route
    <3> QED BY <1>2, <2>2, <3>1 DEF route_hdl, has_direct
  <2> QED BY <2>1, <2>2
<1>4. DOMAIN b.byHdl \subseteq Hdl
  BY <1>1, MapFacts
<1> QED BY <1>3, <1>4 DEF Sound, Direct

(* Anything but a handshake may be sent on every handle.                   *)
LEMMA NoHandshakeAllowed ==
  ASSUME NEW E, NEW h, NEW d \in Datagrams, ~ is_handshake(d)
  PROVE  d \in Allowed(E, h)
BY DEF Allowed, is_handshake

LEMMA SendSound ==
  ASSUME NEW b, NEW E, NEW Q, NEW P \in SUBSET Q, NEW K, NEW X, NEW m, NEW d \in Datagrams,
         Sound(b, E, P, Q, K, X), ~ is_handshake(d)
  PROVE  /\ Sound(send_to(b, m, d), E, P, Q, K, X) /\ Frame(b, send_to(b, m, d))
         /\ DOMAIN send_to(b, m, d).indirect = DOMAIN b.indirect
<1> DEFINE b1 == lookup(b, m)
           r == route_hdl(b, m)
           b2 == write(b1, r, d)
           b3 == flush(b2, r)
<1>1. /\ Sound(b1, E, P, Q, K, X) /\ Frame(b, b1)
      /\ DOMAIN b1.indirect = DOMAIN b.indirect
  BY LookupSound
<1>2. CASE ~ has_route(b, m)
  BY <1>1, <1>2 DEF send_to
<1>3. CASE has_route(b, m)
  <2>1. r \in Hdl /\ r \notin Q /\ d \in Allowed(E, r)
    BY <1>3, RouteUsable, NoHandshakeAllowed
  <2> HIDE DEF b1, r
  <2>2. Sound(b2, E, P, Q, K, X)
    BY <1>1, <2>1, WriteSound
  <2>3. Frame(b1, b2) /\ b2.indirect = b1.indirect
    BY <1>1 DEF Sound, BrokerT, write, Frame
  <2> HIDE DEF b2
  <2>4. Sound(b3, E, P, Q, K, X)
    BY <2>1, <2>2, FlushSound
  <2>5. Frame(b2, b3) /\ b3.indirect = b2.indirect
    BY <2>2 DEF Sound, BrokerT, flush, Frame
  <2> HIDE DEF b3
  <2>6. send_to(b, m, d) = b3
    BY <1>3 DEF send_to, b1, b2, b3, r
  <2> QED BY <1>1, <2>3, <2>4, <2>5, <2>6 DEF Frame
<1> QED BY <1>2, <1>3

(* learned_new_node adds a key to the spawn servers and sends a message.   *)
LEMMA LearnedSound ==
  ASSUME NEW b, NEW n \in Node, NEW E, NEW Q, NEW P \in SUBSET Q, NEW K, NEW X, NEW m \in Node, Sound(b, E, P, Q, K, X)
  PROVE  /\ Sound(learned_new_node(b, n, m), E, P, Q, K, X)
         /\ Frame(b, learned_new_node(b, n, m))
         /\ DOMAIN learned_new_node(b, n, m).indirect = DOMAIN b.indirect
<1> DEFINE b1 == [b EXCEPT !.spawners = @ \cup {m}]
           d == dispatch_message(n, m, Spawner[n], Named, NoActor)
<1>1. b \in BrokerT
  BY DEF Sound
<1>2. b1 \in BrokerT
  BY <1>1 DEF BrokerT
<1>3. /\ Frame(b, b1) /\ b1.indirect = b.indirect /\ b1.proxies = b.proxies
      /\ b1.sent = b.sent /\ b1.out = b.out
  BY <1>1 DEF BrokerT, Frame
<1>4. d \in Datagrams /\ ~ is_handshake(d)
  BY BaspAssumption DEF dispatch_message, Datagram, Datagrams, Ops, is_handshake
<1>5. learned_new_node(b, n, m) = send_to(b1, m, d)
  BY DEF learned_new_node
<1> HIDE DEF b1, d
<1>6. Sound(b1, E, P, Q, K, X)
  BY <1>2, <1>3 DEF Sound, Direct, Reach, Output, Callbacks, Frame, has_route, has_direct
<1>7. /\ Sound(send_to(b1, m, d), E, P, Q, K, X) /\ Frame(b1, send_to(b1, m, d))
      /\ DOMAIN send_to(b1, m, d).indirect = DOMAIN b1.indirect
  BY <1>4, <1>6, SendSound
<1> QED BY <1>3, <1>5, <1>7 DEF Frame

(* add_indirect adds a hop for a node without a direct route.              *)
LEMMA AddIndirectSound ==
  ASSUME NEW b, NEW n \in Node, NEW E, NEW Q, NEW P \in SUBSET Q, NEW K, NEW X, NEW m \in Node,
         NEW hop \in Node \cup {NoNode}, Sound(b, E, P, Q, K, X), ~ has_direct(b, m)
  PROVE  /\ Sound(add_indirect(b, n, hop, m), E, P, Q, K, X)
         /\ Frame(b, add_indirect(b, n, hop, m))
<1> DEFINE hops == IF m \in DOMAIN b.indirect THEN b.indirect[m] ELSE {}
           f == Put(b.indirect, m, hops \cup {hop})
           b1 == [b EXCEPT !.indirect = f]
<1>1. b \in BrokerT /\ b.indirect \in Maps(Node, SUBSET (Node \cup {NoNode}))
  BY DEF Sound, BrokerT
<1>2. hops \cup {hop} \in SUBSET (Node \cup {NoNode})
  BY <1>1, MapFacts
<1>3. add_indirect(b, n, hop, m) = IF hops = {} THEN learned_new_node(b1, n, m) ELSE b1
  BY DEF add_indirect
<1> HIDE DEF hops
<1>4. /\ f \in Maps(Node, SUBSET (Node \cup {NoNode})) /\ DOMAIN f = DOMAIN b.indirect \cup {m}
      /\ \A k \in DOMAIN b.indirect : b.indirect[k] \subseteq f[k]
  <2>1. f \in Maps(Node, SUBSET (Node \cup {NoNode}))
    BY <1>1, <1>2, PutMap
  <2>2. m \in DOMAIN b.indirect => b.indirect[m] \subseteq hops \cup {hop}
    BY DEF hops
  <2> QED BY <2>1, <2>2 DEF Put
<1> HIDE DEF f
<1>5. /\ b1 \in BrokerT /\ Frame(b, b1) /\ b1.proxies = b.proxies
      /\ b1.sent = b.sent /\ b1.out = b.out /\ b1.indirect = f
      /\ DOMAIN b1.indirect = DOMAIN b.indirect \cup {m}
  BY <1>1, <1>4 DEF BrokerT, Frame
<1> HIDE DEF b1
<1>6. Direct(b1, E, Q)
  BY <1>5 DEF Sound, Direct, Frame, has_direct
<1>7. Reach(b1, X) /\ Output(b1, E, P) /\ Callbacks(b1, Q, K)
  <2>1. \A k : has_route(b, k) => has_route(b1, k)
    BY <1>4, <1>5 DEF has_route, has_direct, Frame
  <2>2. Reach(b1, X)
    BY <1>5, <2>1 DEF Sound, Reach
  <2> QED BY <1>5, <2>2 DEF Sound, Output, Callbacks, Frame
<1>8. Sound(b1, E, P, Q, K, X)
  BY <1>5, <1>6, <1>7 DEF Sound
<1>9. Sound(learned_new_node(b1, n, m), E, P, Q, K, X) /\ Frame(b1, learned_new_node(b1, n, m))
  BY <1>8, LearnedSound
<1> QED BY <1>3, <1>5, <1>8, <1>9 DEF Frame

(* add_direct gives handle h a route to the node at its other end.         *)
LEMMA AddDirectSound ==
  ASSUME NEW b, NEW n \in Node, NEW E, NEW Q, NEW P \in SUBSET Q, NEW K, NEW X, NEW m \in Node, NEW h \in Hdl,
         Sound(b, E, P, Q, K, X), ~ has_direct(b, m), m = E[h[1]][3 - h[2]],
         h \in DOMAIN b.ctx, h \notin Q, h \notin b.shut, h \notin K
  PROVE  /\ Sound(add_direct(b, n, h, m).first, E, P, Q, K, X)
         /\ add_direct(b, n, h, m).first.ctx = b.ctx
         /\ add_direct(b, n, h, m).first.shut = b.shut
         /\ add_direct(b, n, h, m).learn \in BOOLEAN
<1> DEFINE f == Put(b.byHdl, h, m)
           g == Put(b.byNid, m, h)
           i == Del(b.indirect, m)
           b1 == [b EXCEPT !.byHdl = f, !.byNid = g, !.indirect = i]
<1>1. /\ b \in BrokerT /\ b.indirect \in Maps(Node, SUBSET (Node \cup {NoNode}))
      /\ b.byHdl \in Maps(Hdl, Node) /\ b.byNid \in Maps(Node, Hdl)
  BY DEF Sound, BrokerT
<1>2. h \notin DOMAIN b.byHdl
  BY DEF Sound, Direct, has_direct
<1>3. /\ f \in Maps(Hdl, Node) /\ DOMAIN f = DOMAIN b.byHdl \cup {h}
      /\ f[h] = m /\ \A x \in DOMAIN b.byHdl : f[x] = b.byHdl[x]
  <2>1. f \in Maps(Hdl, Node)
    BY <1>1, PutMap
  <2> QED BY <1>2, <2>1 DEF Put
<1>4. /\ g \in Maps(Node, Hdl) /\ DOMAIN g = DOMAIN b.byNid \cup {m}
      /\ g[m] = h /\ \A x \in DOMAIN b.byNid : g[x] = b.byNid[x]
  <2>1. g \in Maps(Node, Hdl)
    BY <1>1, PutMap
  <2> QED BY <2>1 DEF Put, has_direct
<1>5. /\ i \in Maps(Node, SUBSET (Node \cup {NoNode})) /\ DOMAIN i = DOMAIN b.indirect \ {m}
      /\ \A k \in DOMAIN i : i[k] = b.indirect[k]
  <2>1. i \in Maps(Node, SUBSET (Node \cup {NoNode}))
    BY <1>1, DelMap
  <2> QED BY <2>1 DEF Del, Restrict
<1>6. add_direct(b, n, h, m).first = b1 /\ add_direct(b, n, h, m).learn \in BOOLEAN
  BY DEF add_direct
<1> HIDE DEF f, g, i
<1>7. /\ b1 \in BrokerT /\ b1.byHdl = f /\ b1.byNid = g /\ b1.indirect = i
      /\ b1.ctx = b.ctx /\ b1.shut = b.shut /\ b1.proxies = b.proxies
      /\ b1.sent = b.sent /\ b1.out = b.out
  BY <1>1, <1>3, <1>4, <1>5 DEF BrokerT
<1> HIDE DEF b1
<1>8. Direct(b1, E, Q)
  <2>1. \A x \in DOMAIN b.byNid : b.byNid[x] \in DOMAIN b.byHdl /\ b.byHdl[b.byNid[x]] = x
    BY DEF Sound, Direct
  <2>2. ASSUME NEW x \in DOMAIN b1.byHdl
        PROVE  /\ x \notin Q /\ x \in DOMAIN b1.ctx /\ x \notin b1.shut
               /\ b1.byHdl[x] = E[x[1]][3 - x[2]]
               /\ b1.byHdl[x] \in DOMAIN b1.byNid /\ b1.byNid[b1.byHdl[x]] = x
    <3>1. CASE x = h
      BY <1>3, <1>4, <1>7, <3>1
    <3>2. CASE x \in DOMAIN b.byHdl
      <4>1. /\ x \notin Q /\ x \in DOMAIN b.ctx /\ x \notin b.shut
            /\ b.byHdl[x] = E[x[1]][3 - x[2]]
            /\ b.byHdl[x] \in DOMAIN b.byNid /\ b.byNid[b.byHdl[x]] = x
        BY <3>2 DEF Sound, Direct
      <4> QED BY <1>3, <1>4, <1>7, <3>2, <4>1
    <3> QED BY <1>3, <1>7, <3>1, <3>2
  <2>3. ASSUME NEW x \in DOMAIN b1.byNid
        PROVE  b1.byNid[x] \in DOMAIN b1.byHdl /\ b1.byHdl[b1.byNid[x]] = x
    BY <1>3, <1>4, <1>7, <2>1
  <2>4. DOMAIN b1.byNid \cap DOMAIN b1.indirect = {}
    BY <1>4, <1>5, <1>7 DEF Sound, Direct
  <2> QED BY <2>2, <2>3, <2>4 DEF Direct
<1>9. Reach(b1, X)
  <2>1. \A k : has_route(b, k) => has_route(b1, k)
    BY <1>4, <1>5, <1>7 DEF has_route, has_direct
  <2>2. has_route(b1, m)
    BY <1>4, <1>7 DEF has_route, has_direct
  <2> QED BY <1>5, <1>7, <2>1, <2>2 DEF Sound, Reach
<1>10. Output(b1, E, P)
  BY <1>7 DEF Sound, Output
<1>11. Callbacks(b1, Q, K)
  BY <1>3, <1>7 DEF Sound, Callbacks
<1> QED BY <1>6, <1>7, <1>8, <1>9, <1>10, <1>11 DEF Sound

(* erase_proxies only takes proxies away.                                  *)
LEMMA EraseSound ==
  ASSUME NEW b, NEW E, NEW Q, NEW P \in SUBSET Q, NEW K, NEW X, NEW S, Sound(b, E, P, Q, K, X)
  PROVE  Sound(erase_proxies(b, S), E, P, Q, K, X) /\ Frame(b, erase_proxies(b, S))
<1> DEFINE b1 == erase_proxies(b, S)
<1>1. b \in BrokerT
  BY DEF Sound
<1>2. /\ b1 \in BrokerT /\ Frame(b, b1) /\ b1.indirect = b.indirect
      /\ b1.proxies = b.proxies \ S /\ b1.sent = b.sent /\ b1.out = b.out
  BY <1>1 DEF erase_proxies, BrokerT, Frame
<1> HIDE DEF b1
<1>3. Direct(b1, E, Q) /\ Reach(b1, X) /\ Output(b1, E, P) /\ Callbacks(b1, Q, K)
  BY <1>2 DEF Sound, Direct, Reach, Output, Callbacks, Frame, has_route, has_direct
<1> QED BY <1>2, <1>3 DEF Sound, b1

(* make_proxy adds a proxy for a node with a route.                        *)
LEMMA MakeProxySound ==
  ASSUME NEW b, NEW n \in Node, NEW E, NEW Q, NEW P \in SUBSET Q, NEW K, NEW X, NEW cur \in Hdl, NEW a \in Actor,
         Sound(b, E, P, Q, K, X), cur \in DOMAIN b.ctx, cur \notin Q
  PROVE  Sound(make_proxy(b, n, cur, a), E, P, Q, K, X) /\ Frame(b, make_proxy(b, n, cur, a))
<1> DEFINE m == Home[a]
           via == b.ctx[cur].id
           b1 == IF m # via /\ ~ has_direct(b, m) THEN add_indirect(b, n, via, m) ELSE b
           b2 == lookup(b1, m)
           b3 == [b2 EXCEPT !.proxies = @ \cup {a}]
           b4 == write(b3, cur, announce_proxy(n, a))
           b5 == flush(b4, route_hdl(b1, m))
<1>1. m \in Node
  BY BaspAssumption
<1>2. b.ctx \in Maps(Hdl, Contexts)
  BY DEF Sound, BrokerT
<1>3. via \in Node \cup {NoNode}
  <2>1. b.ctx[cur] \in Contexts
    BY <1>2, MapFacts
  <2> QED BY <2>1 DEF Contexts
<1>4. make_proxy(b, n, cur, a) = IF has_route(b1, m) THEN b5 ELSE b2
  BY DEF make_proxy
<1> HIDE DEF m, via
<1>5. Sound(b1, E, P, Q, K, X) /\ Frame(b, b1)
  <2>1. CASE m # via /\ ~ has_direct(b, m)
    <3>1. /\ Sound(add_indirect(b, n, via, m), E, P, Q, K, X)
          /\ Frame(b, add_indirect(b, n, via, m))
      BY <1>1, <1>3, <2>1, AddIndirectSound
    <3> QED BY <2>1, <3>1
  <2>2. CASE ~ (m # via /\ ~ has_direct(b, m))
    BY <2>2 DEF Frame
  <2> QED BY <2>1, <2>2
<1> HIDE DEF b1
<1>6. /\ Sound(b2, E, P, Q, K, X) /\ Frame(b1, b2)
      /\ \A k : has_route(b1, k) => has_route(b2, k)
  BY <1>5, LookupSound
<1> HIDE DEF b2
<1>7. CASE ~ has_route(b1, m)
  BY <1>4, <1>5, <1>6, <1>7 DEF Frame
<1>8. CASE has_route(b1, m)
  <2>1. b2 \in BrokerT
    BY <1>6 DEF Sound
  <2>2. /\ b3 \in BrokerT /\ Frame(b2, b3) /\ b3.indirect = b2.indirect
        /\ b3.proxies = b2.proxies \cup {a} /\ b3.sent = b2.sent /\ b3.out = b2.out
    BY <2>1 DEF BrokerT, Frame
  <2> HIDE DEF b3
  <2>3. has_route(b3, Home[a]) /\ \A k : has_route(b2, k) => has_route(b3, k)
    BY <1>6, <1>8, <2>2 DEF has_route, has_direct, Frame, m
  <2>4. Reach(b3, X)
    BY <1>6, <2>2, <2>3 DEF Sound, Reach
  <2>5. Direct(b3, E, Q) /\ Output(b3, E, P) /\ Callbacks(b3, Q, K)
    BY <1>6, <2>2 DEF Sound, Direct, Output, Callbacks, Frame
  <2>6. Sound(b3, E, P, Q, K, X)
    BY <2>2, <2>4, <2>5 DEF Sound
  <2>7. announce_proxy(n, a) \in Datagrams /\ ~ is_handshake(announce_proxy(n, a))
    BY BaspAssumption DEF announce_proxy, Datagram, Datagrams, Ops, is_handshake
  <2>8. announce_proxy(n, a) \in Allowed(E, cur)
    BY <2>7, NoHandshakeAllowed
  <2>9. Sound(b4, E, P, Q, K, X)
    BY <2>6, <2>8, WriteSound
  <2>10. Frame(b3, b4)
    BY <2>2 DEF BrokerT, write, Frame
  <2> HIDE DEF b4
  <2>11. route_hdl(b1, m) \in Hdl /\ route_hdl(b1, m) \notin Q
    BY <1>5, <1>8, RouteUsable
  <2>12. Sound(b5, E, P, Q, K, X)
    BY <2>9, <2>11, FlushSound
  <2>13. Frame(b4, b5)
    BY <2>9 DEF Sound, BrokerT, flush, Frame
  <2> HIDE DEF b5
  <2> QED BY <1>4, <1>5, <1>6, <1>8, <2>2, <2>10, <2>12, <2>13 DEF Frame
<1> QED BY <1>7, <1>8

LEMMA GetOrPutSound ==
  ASSUME NEW b, NEW n \in Node, NEW E, NEW Q, NEW P \in SUBSET Q, NEW K, NEW X, NEW cur \in Hdl, NEW a \in Actor,
         Sound(b, E, P, Q, K, X), cur \in DOMAIN b.ctx, cur \notin Q
  PROVE  Sound(get_or_put(b, n, cur, a), E, P, Q, K, X) /\ Frame(b, get_or_put(b, n, cur, a))
<1>1. Sound(make_proxy(b, n, cur, a), E, P, Q, K, X) /\ Frame(b, make_proxy(b, n, cur, a))
  BY MakeProxySound
<1> QED BY <1>1 DEF get_or_put, Frame

LEMMA ReadAddrSound ==
  ASSUME NEW b, NEW n \in Node, NEW E, NEW Q, NEW P \in SUBSET Q, NEW K, NEW X, NEW cur \in Hdl,
         NEW a \in Actor \cup {NoActor},
         Sound(b, E, P, Q, K, X), cur \in DOMAIN b.ctx, cur \notin Q
  PROVE  Sound(read_addr(b, n, cur, a), E, P, Q, K, X) /\ Frame(b, read_addr(b, n, cur, a))
<1>1. CASE a = NoActor \/ Home[a] = n
  BY <1>1 DEF read_addr, Frame
<1>2. CASE ~ (a = NoActor \/ Home[a] = n)
  <2> DEFINE b1 == get_or_put(b, n, cur, a)
             b2 == [b1 EXCEPT !.ub = @ \/ a \notin b1.proxies]
  <2>1. Sound(b1, E, P, Q, K, X) /\ Frame(b, b1)
    BY <1>2, GetOrPutSound
  <2>2. read_addr(b, n, cur, a) = b2
    BY <1>2 DEF read_addr
  <2> HIDE DEF b1
  <2>3. b1 \in BrokerT
    BY <2>1 DEF Sound
  <2>4. (b1.ub \/ a \notin b1.proxies) \in BOOLEAN
    BY <2>3 DEF BrokerT
  <2>5. /\ b2 \in BrokerT /\ Frame(b1, b2) /\ b2.indirect = b1.indirect
        /\ b2.proxies = b1.proxies /\ b2.sent = b1.sent /\ b2.out = b1.out
    BY <2>3, <2>4 DEF BrokerT, Frame
  <2> HIDE DEF b2
  <2>6. Direct(b2, E, Q) /\ Reach(b2, X) /\ Output(b2, E, P) /\ Callbacks(b2, Q, K)
    BY <2>1, <2>5 DEF Sound, Direct, Reach, Output, Callbacks, Frame, has_route, has_direct
  <2> QED BY <2>1, <2>2, <2>5, <2>6 DEF Sound, Frame
<1> QED BY <1>1, <1>2

(* finalize_handshake fills in the context of h and takes its callback.    *)
LEMMA FinalizeSound ==
  ASSUME NEW b, NEW n \in Node, NEW E, NEW Q, NEW P \in SUBSET Q, NEW K, NEW X, NEW h \in Hdl, NEW m \in Node,
         NEW a \in Actor \cup {NoActor},
         Sound(b, E, P, Q, K, X), h \in DOMAIN b.ctx, h \notin Q, h \notin K
  PROVE  /\ Sound(finalize_handshake(b, n, h, m, a), E, P, Q, K, X)
         /\ finalize_handshake(b, n, h, m, a).byHdl = b.byHdl
         /\ DOMAIN finalize_handshake(b, n, h, m, a).ctx = DOMAIN b.ctx
<1> DEFINE f == [b.ctx EXCEPT ![h] = [b.ctx[h] EXCEPT !.id = m, !.callback = FALSE]]
           b1 == [b EXCEPT !.ctx = f]
           b2 == get_or_put(b1, n, h, a)
<1>1. b \in BrokerT /\ b.ctx \in Maps(Hdl, Contexts)
  BY DEF Sound, BrokerT
<1>2. b.ctx[h] \in Contexts
  BY <1>1, MapFacts
<1>3. [b.ctx[h] EXCEPT !.id = m, !.callback = FALSE] \in Contexts
  BY <1>2 DEF Contexts
<1>4. /\ f \in Maps(Hdl, Contexts) /\ DOMAIN f = DOMAIN b.ctx
      /\ \A x \in DOMAIN b.ctx : x # h => f[x] = b.ctx[x]
  BY <1>1, <1>3, ExceptMap
<1>5. [b EXCEPT !.ctx[h].id = m, !.ctx[h].callback = FALSE] = b1
  BY <1>1, <1>2 DEF BrokerT, Contexts
<1>6. finalize_handshake(b, n, h, m, a) =
        IF b.ctx[h].callback /\ a # NoActor /\ m # n THEN b2 ELSE b1
  BY <1>5 DEF finalize_handshake
<1> HIDE DEF f
<1>7. /\ b1 \in BrokerT /\ b1.ctx = f /\ b1.byHdl = b.byHdl /\ b1.byNid = b.byNid
      /\ b1.shut = b.shut /\ b1.indirect = b.indirect
      /\ b1.proxies = b.proxies /\ b1.sent = b.sent /\ b1.out = b.out
  BY <1>1, <1>4 DEF BrokerT
<1> HIDE DEF b1
<1>8. Direct(b1, E, Q) /\ Reach(b1, X) /\ Output(b1, E, P)
  BY <1>4, <1>7 DEF Sound, Direct, Reach, Output, has_route, has_direct
<1>9. Callbacks(b1, Q, K)
  BY <1>4, <1>7 DEF Sound, Callbacks
<1>10. Sound(b1, E, P, Q, K, X)
  BY <1>7, <1>8, <1>9 DEF Sound
<1>11. a # NoActor => Sound(b2, E, P, Q, K, X) /\ Frame(b1, b2)
  BY <1>4, <1>7, <1>10, GetOrPutSound
<1> QED BY <1>4, <1>6, <1>7, <1>10, <1>11 DEF Frame

(* Removing a direct route with its context, the proxies behind it and     *)
(* both entries of the routing table leaves a sound broker.                *)
LEMMA RemovedSound ==
  ASSUME NEW b, NEW E, NEW Q, NEW P \in SUBSET Q, NEW K, NEW X, NEW h, NEW b1 \in BrokerT,
         Sound(b, E, P, Q, K, X), h \notin K, h \notin Q,
         b1.ctx = Del(b.ctx, h), b1.indirect = b.indirect,
         b1.sent = b.sent, b1.out = b.out, b1.shut \subseteq b.shut \cup {h},
         \/ /\ h \notin DOMAIN b.byHdl /\ b1.byHdl = b.byHdl /\ b1.byNid = b.byNid
            /\ b1.proxies \subseteq b.proxies
         \/ /\ h \in DOMAIN b.byHdl /\ b1.byHdl = Del(b.byHdl, h)
            /\ b1.byNid = Del(b.byNid, b.byHdl[h])
            /\ b1.proxies \subseteq b.proxies \ ActorsOf(b.byHdl[h])
            /\ Excused(E, h, X)
  PROVE  Sound(b1, E, P, Q, K, X)
<1>1. /\ DOMAIN b1.ctx = DOMAIN b.ctx \ {h}
      /\ \A x \in DOMAIN b1.ctx : b1.ctx[x] = b.ctx[x]
  BY DEF Del, Restrict
<1>2. Output(b1, E, P)
  BY DEF Sound, Output
<1>3. CASE /\ h \notin DOMAIN b.byHdl /\ b1.byHdl = b.byHdl /\ b1.byNid = b.byNid
           /\ b1.proxies \subseteq b.proxies
  <2>1. Direct(b1, E, Q)
    BY <1>1, <1>3 DEF Sound, Direct
  <2>2. Reach(b1, X)
    BY <1>3 DEF Sound, Reach, has_route, has_direct
  <2>3. Callbacks(b1, Q, K)
    BY <1>1, <1>3 DEF Sound, Callbacks
  <2> QED BY <1>2, <2>1, <2>2, <2>3 DEF Sound
<1>4. CASE /\ h \in DOMAIN b.byHdl /\ b1.byHdl = Del(b.byHdl, h)
           /\ b1.byNid = Del(b.byNid, b.byHdl[h])
           /\ b1.proxies \subseteq b.proxies \ ActorsOf(b.byHdl[h])
           /\ Excused(E, h, X)
  <2> DEFINE m == b.byHdl[h]
  <2>1. m \in DOMAIN b.byNid /\ b.byNid[m] = h
    BY <1>4 DEF Sound, Direct
  <2>2. \A x \in DOMAIN b.byNid : b.byNid[x] \in DOMAIN b.byHdl /\ b.byHdl[b.byNid[x]] = x
    BY DEF Sound, Direct
  <2>3. /\ DOMAIN b1.byHdl = DOMAIN b.byHdl \ {h}
        /\ \A x \in DOMAIN b1.byHdl : b1.byHdl[x] = b.byHdl[x]
    BY <1>4 DEF Del, Restrict
  <2>4. /\ DOMAIN b1.byNid = DOMAIN b.byNid \ {m}
        /\ \A x \in DOMAIN b1.byNid : b1.byNid[x] = b.byNid[x]
    BY <1>4 DEF Del, Restrict
  <2>5. Direct(b1, E, Q)
    <3>1. ASSUME NEW x \in DOMAIN b1.byHdl
          PROVE  /\ x \notin Q /\ x \in DOMAIN b1.ctx /\ x \notin b1.shut
                 /\ b1.byHdl[x] = E[x[1]][3 - x[2]]
                 /\ b1.byHdl[x] \in DOMAIN b1.byNid /\ b1.byNid[b1.byHdl[x]] = x
      <4>1. /\ x \notin Q /\ x \in DOMAIN b.ctx /\ x \notin b.shut
            /\ b.byHdl[x] = E[x[1]][3 - x[2]]
            /\ b.byHdl[x] \in DOMAIN b.byNid /\ b.byNid[b.byHdl[x]] = x
        BY <2>3 DEF Sound, Direct
      <4>2. b.byHdl[x] # m
        BY <2>1, <2>3, <4>1
      <4> QED BY <1>1, <2>3, <2>4, <4>1, <4>2
    <3>2. ASSUME NEW x \in DOMAIN b1.byNid
          PROVE  b1.byNid[x] \in DOMAIN b1.byHdl /\ b1.byHdl[b1.byNid[x]] = x
      BY <2>2, <2>3, <2>4
    <3>3. DOMAIN b1.byNid \cap DOMAIN b1.indirect = {}
      BY <2>4 DEF Sound, Direct
    <3> QED BY <3>1, <3>2, <3>3 DEF Direct
  <2>6. Reach(b1, X)
    <3> SUFFICES ASSUME NEW a \in b1.proxies
                 PROVE  has_route(b1, Home[a]) \/ Home[a] \in DOMAIN b1.indirect \cap X
      BY DEF Reach
    <3>1. has_route(b, Home[a]) \/ Home[a] \in DOMAIN b.indirect \cap X
      BY <1>4 DEF Sound, Reach
    <3>2. a \in Actor /\ Home[a] # m /\ Home[a] \in Node
      <4>1. a \in Actor /\ a \notin ActorsOf(m)
        BY <1>4 DEF Sound, BrokerT
      <4> QED BY <4>1, BaspAssumption DEF ActorsOf
    <3>3. Home[a] \in X
      <4>1. m = E[h[1]][3 - h[2]]
        BY <1>4 DEF Sound, Direct
      <4> QED BY <1>4, <3>2, <4>1 DEF Excused
    <3>4. has_direct(b, Home[a]) => has_direct(b1, Home[a])
      BY <2>4, <3>2 DEF has_direct
    <3> QED BY <3>1, <3>3, <3>4 DEF has_route
  <2>7. Callbacks(b1, Q, K)
    BY <1>1, <2>3 DEF Sound, Callbacks
  <2> QED BY <1>2, <2>5, <2>6, <2>7 DEF Sound
<1> QED BY <1>3, <1>4

(* Deleting a key again changes nothing, and neither does deleting a key   *)
(* that is not there.                                                      *)
LEMMA DelAgain ==
  ASSUME NEW S, NEW T, NEW f \in Maps(S, T), NEW k
  PROVE  Del(Del(f, k), k) = Del(f, k) /\ (k \notin DOMAIN f => Del(f, k) = f)
<1>1. PICK D \in SUBSET S : f \in [D -> T]
  BY DEF Maps
<1>2. k \notin DOMAIN f => Del(f, k) = f
  BY <1>1 DEF Del, Restrict
<1>3. DOMAIN Del(f, k) = DOMAIN f \ {k} /\ \A x \in DOMAIN f \ {k} : Del(f, k)[x] = f[x]
  BY DEF Del, Restrict
<1>4. Del(Del(f, k), k) = [x \in (DOMAIN f \ {k}) \ {k} |-> Del(f, k)[x]]
  BY <1>3 DEF Del, Restrict
<1>5. Del(f, k) = [x \in DOMAIN f \ {k} |-> f[x]]
  BY DEF Del, Restrict
<1> QED BY <1>2, <1>3, <1>4, <1>5

(* close_connection removes the route of h, if there is one, and h.        *)
LEMMA CloseSound ==
  ASSUME NEW b, NEW E, NEW Q, NEW P \in SUBSET Q, NEW K, NEW X, NEW h \in Hdl,
         Sound(b, E, P, Q, K, X), h \notin K, h \notin Q
  PROVE  /\ h \in close_connection(b, h).shut
         /\ Excused(E, h, X) => Sound(close_connection(b, h), E, P, Q, K, X)
<1> DEFINE m == lookup_direct(b, h)
           b0 == purge_state(b, m)
           b1 == IF m = NoNode THEN b ELSE [b0 EXCEPT !.byNid = Del(@, m), !.byHdl = Del(@, h)]
           b2 == [b1 EXCEPT !.shut = @ \cup {h}, !.ctx = Del(@, h)]
<1>1. /\ b \in BrokerT /\ b.byHdl \in Maps(Hdl, Node) /\ b.byNid \in Maps(Node, Hdl)
      /\ b.ctx \in Maps(Hdl, Contexts)
  BY DEF Sound, BrokerT
<1>2. /\ Del(b.ctx, h) \in Maps(Hdl, Contexts) /\ Del(b.byHdl, h) \in Maps(Hdl, Node)
      /\ Del(b.byNid, m) \in Maps(Node, Hdl) /\ Del(Del(b.ctx, h), h) = Del(b.ctx, h)
  BY <1>1, DelMap, DelAgain
<1>3. close_connection(b, h) = b2
  BY DEF close_connection
<1>4. CASE h \notin DOMAIN b.byHdl
  <2>1. b2 = [b EXCEPT !.shut = b.shut \cup {h}, !.ctx = Del(b.ctx, h)]
    BY <1>4 DEF lookup_direct
  <2> HIDE DEF b2
  <2>2. /\ b2 \in BrokerT /\ b2.ctx = Del(b.ctx, h) /\ b2.indirect = b.indirect
        /\ b2.sent = b.sent /\ b2.out = b.out /\ b2.shut = b.shut \cup {h}
        /\ b2.byHdl = b.byHdl /\ b2.byNid = b.byNid /\ b2.proxies = b.proxies
    BY <1>1, <1>2, <2>1 DEF BrokerT
  <2>3. Sound(b2, E, P, Q, K, X)
    BY <1>4, <2>2, RemovedSound
  <2> QED BY <1>3, <2>2, <2>3
<1>5. CASE h \in DOMAIN b.byHdl
  <2>1. m = b.byHdl[h] /\ m \in Node /\ m # NoNode
    BY <1>1, <1>5, MapFacts, BaspAssumption DEF lookup_direct
  <2>2. m \in DOMAIN b.byNid /\ b.byNid[m] = h
    BY <1>5, <2>1 DEF Sound, Direct
  <2>3. b0 = [b EXCEPT !.proxies = b.proxies \ ActorsOf(m),
                       !.posted = b.posted \cup (b.proxies \cap ActorsOf(m)),
                       !.ctx = Del(b.ctx, h)]
    BY <1>1, <2>2 DEF purge_state, has_direct, erase_proxies, BrokerT
  <2> HIDE DEF b0, m
  <2>4. /\ b0 \in BrokerT /\ b0.ctx = Del(b.ctx, h) /\ b0.indirect = b.indirect
        /\ b0.sent = b.sent /\ b0.out = b.out /\ b0.shut = b.shut
        /\ b0.byHdl = b.byHdl /\ b0.byNid = b.byNid
        /\ b0.proxies = b.proxies \ ActorsOf(m)
    BY <1>1, <1>2, <2>3 DEF BrokerT
  <2>5. /\ b1 \in BrokerT /\ b1.ctx = Del(b.ctx, h) /\ b1.indirect = b.indirect
        /\ b1.sent = b.sent /\ b1.out = b.out /\ b1.shut = b.shut
        /\ b1.byHdl = Del(b.byHdl, h) /\ b1.byNid = Del(b.byNid, m)
        /\ b1.proxies = b.proxies \ ActorsOf(m)
    BY <1>2, <2>1, <2>4 DEF BrokerT
  <2> HIDE DEF b1
  <2>6. /\ b2 \in BrokerT /\ b2.ctx = Del(b.ctx, h) /\ b2.indirect = b.indirect
        /\ b2.sent = b.sent /\ b2.out = b.out /\ b2.shut = b.shut \cup {h}
        /\ b2.byHdl = Del(b.byHdl, h) /\ b2.byNid = Del(b.byNid, m)
        /\ b2.proxies = b.proxies \ ActorsOf(m)
    BY <1>2, <2>5 DEF BrokerT
  <2> HIDE DEF b2
  <2>7. Excused(E, h, X) => Sound(b2, E, P, Q, K, X)
    BY <1>5, <2>1, <2>6, RemovedSound
  <2> QED BY <1>3, <2>6, <2>7
<1> QED BY <1>4, <1>5

(* What the broker does when it learns that the connection of h is gone    *)
Lost(b, h) ==
  LET m == lookup_direct(b, h)
      b1 == [b EXCEPT !.ctx = Del(@, h)]
  IN  IF m = NoNode THEN b1 ELSE erase_proxies(handle_node_shutdown(b1, m), ActorsOf(m))

LEMMA LostSound ==
  ASSUME NEW b, NEW E, NEW Q, NEW P \in SUBSET Q, NEW K, NEW X, NEW h \in Hdl,
         Sound(b, E, P, Q, K, X), h \notin K, h \notin Q, Excused(E, h, X)
  PROVE  /\ Sound(Lost(b, h), E, P, Q, K, X) /\ h \notin DOMAIN Lost(b, h).byHdl
         /\ Lost(b, h).shut = b.shut /\ Lost(b, h).sent = b.sent
         /\ DOMAIN Lost(b, h).ctx \subseteq DOMAIN b.ctx \ {h}
<1> DEFINE m == lookup_direct(b, h)
           b1 == [b EXCEPT !.ctx = Del(@, h)]
           S == ActorsOf(m)
<1>1. /\ b \in BrokerT /\ b.byHdl \in Maps(Hdl, Node) /\ b.byNid \in Maps(Node, Hdl)
      /\ b.ctx \in Maps(Hdl, Contexts) /\ b.indirect \in Maps(Node, SUBSET (Node \cup {NoNode}))
  BY DEF Sound, BrokerT
<1>2. /\ Del(b.ctx, h) \in Maps(Hdl, Contexts) /\ Del(b.byHdl, h) \in Maps(Hdl, Node)
      /\ Del(b.byNid, m) \in Maps(Node, Hdl) /\ Del(Del(b.ctx, h), h) = Del(b.ctx, h)
  BY <1>1, DelMap, DelAgain
<1>3. /\ b1 \in BrokerT /\ b1.ctx = Del(b.ctx, h) /\ b1.indirect = b.indirect
      /\ b1.sent = b.sent /\ b1.out = b.out /\ b1.shut = b.shut
      /\ b1.byHdl = b.byHdl /\ b1.byNid = b.byNid /\ b1.proxies = b.proxies
      /\ b1.posted = b.posted
  BY <1>1, <1>2 DEF BrokerT
<1>4. CASE h \notin DOMAIN b.byHdl
  <2>1. Lost(b, h) = b1
    BY <1>4 DEF Lost, lookup_direct
  <2>2. DOMAIN b1.ctx = DOMAIN b.ctx \ {h}
    BY <1>3 DEF Del, Restrict
  <2> HIDE DEF b1, m
  <2>3. Sound(b1, E, P, Q, K, X)
    BY <1>3, <1>4, RemovedSound
  <2> QED BY <1>3, <1>4, <2>1, <2>2, <2>3
<1>5. CASE h \in DOMAIN b.byHdl
  <2>1. m = b.byHdl[h] /\ m \in Node /\ m # NoNode
    BY <1>1, <1>5, MapFacts, BaspAssumption DEF lookup_direct
  <2>2. m \in DOMAIN b.byNid /\ b.byNid[m] = h /\ m \notin DOMAIN b.indirect
    BY <1>5, <2>1 DEF Sound, Direct
  <2>3. Lost(b, h) = erase_proxies(handle_node_shutdown(b1, m), S)
    BY <2>1 DEF Lost
  <2> HIDE DEF m, b1
  <2> DEFINE lost == {y \in {m} : has_direct(b1, y)}
             b2 == erase_proxies(b1, UNION {ActorsOf(x) : x \in lost})
             b3 == [b2 EXCEPT !.ctx = Restrict(@, DOMAIN @ \ {b1.byNid[x] : x \in lost}),
                              !.indirect = Del(@, m)]
             b4 == [b3 EXCEPT !.byHdl = Del(@, b1.byNid[m]), !.byNid = Del(@, m)]
             b5 == erase_proxies(b4, S)
  <2>4. lost = {m}
    BY <1>3, <2>2 DEF has_direct
  <2>5. handle_node_shutdown(b1, m) = b4
    <3>1. {m} \cup (IF m \in DOMAIN b1.indirect THEN b1.indirect[m] ELSE {}) = {m}
      BY <1>3, <2>2
    <3> QED BY <1>3, <2>2, <3>1 DEF handle_node_shutdown, has_direct
  <2> HIDE DEF lost
  <2>6. UNION {ActorsOf(x) : x \in lost} = S /\ {b1.byNid[x] : x \in lost} = {h}
    BY <1>3, <2>2, <2>4
  <2> HIDE DEF S
  <2>7. /\ b2 \in BrokerT /\ b2.ctx = Del(b.ctx, h) /\ b2.indirect = b.indirect
        /\ b2.sent = b.sent /\ b2.out = b.out /\ b2.shut = b.shut
        /\ b2.byHdl = b.byHdl /\ b2.byNid = b.byNid /\ b2.proxies = b.proxies \ S
    BY <1>3, <2>6 DEF erase_proxies, BrokerT
  <2> HIDE DEF b2
  <2>8. b3 = [b2 EXCEPT !.ctx = Del(Del(b.ctx, h), h), !.indirect = Del(b.indirect, m)]
    BY <2>6, <2>7 DEF Del, BrokerT
  <2> HIDE DEF b3
  <2>9. Del(b.indirect, m) = b.indirect
    BY <1>1, <2>2, DelAgain
  <2>10. /\ b3 \in BrokerT /\ b3.ctx = Del(b.ctx, h) /\ b3.indirect = b.indirect
         /\ b3.sent = b.sent /\ b3.out = b.out /\ b3.shut = b.shut
         /\ b3.byHdl = b.byHdl /\ b3.byNid = b.byNid /\ b3.proxies = b.proxies \ S
    BY <1>1, <1>2, <2>7, <2>8, <2>9 DEF BrokerT
  <2>11. /\ b4 \in BrokerT /\ b4.ctx = Del(b.ctx, h) /\ b4.indirect = b.indirect
         /\ b4.sent = b.sent /\ b4.out = b.out /\ b4.shut = b.shut
         /\ b4.byHdl = Del(b.byHdl, h) /\ b4.byNid = Del(b.byNid, m)
         /\ b4.proxies = b.proxies \ S
    BY <1>2, <1>3, <2>2, <2>10 DEF BrokerT
  <2> HIDE DEF b4
  <2>12. /\ b5 \in BrokerT /\ b5.ctx = Del(b.ctx, h) /\ b5.indirect = b.indirect
         /\ b5.sent = b.sent /\ b5.out = b.out /\ b5.shut = b.shut
         /\ b5.byHdl = Del(b.byHdl, h) /\ b5.byNid = Del(b.byNid, m)
         /\ b5.proxies \subseteq b.proxies \ S
    BY <2>11 DEF erase_proxies, BrokerT
  <2>13. Lost(b, h) = b5
    BY <2>3, <2>5
  <2> HIDE DEF b5
  <2>14. DOMAIN b5.byHdl = DOMAIN b.byHdl \ {h} /\ DOMAIN b5.ctx = DOMAIN b.ctx \ {h}
    BY <2>12 DEF Del, Restrict
  <2>15. Sound(b5, E, P, Q, K, X)
    BY <1>5, <2>1, <2>12, RemovedSound DEF S
  <2> QED BY <2>12, <2>13, <2>14, <2>15
<1> QED BY <1>4, <1>5
-----------------------------------------------------------------------------
(* instance::handle keeps a broker sound.                                  *)

LEMMA ForwardSound ==
  ASSUME NEW b, NEW n \in Node, NEW E, NEW Q, NEW P \in SUBSET Q, NEW K, NEW X, NEW d \in Datagrams,
         Sound(b, E, P, Q, K, X), ~ is_handshake(d)
  PROVE  Sound(forward(b, n, d), E, P, Q, K, X)
<1> DEFINE b1 == lookup(b, d.dst)
           b2 == lookup(b1, d.src)
           r == route_hdl(b1, d.src)
           e == dispatch_error(n, d.src)
<1>1. CASE has_route(b, d.dst)
  BY <1>1, SendSound DEF forward
<1>2. CASE ~ has_route(b, d.dst)
  <2>1. Sound(b1, E, P, Q, K, X)
    BY LookupSound
  <2>2. forward(b, n, d) = IF d.src = n \/ ~ has_route(b1, d.src) THEN b2 ELSE write(b2, r, e)
    BY <1>2 DEF forward
  <2>3. e \in Datagrams /\ ~ is_handshake(e)
    BY DEF dispatch_error, Datagram, Datagrams, Ops, is_handshake
  <2> HIDE DEF b1, e
  <2>4. Sound(b2, E, P, Q, K, X)
    BY <2>1, LookupSound
  <2>5. has_route(b1, d.src) => r \in Hdl /\ r \notin Q
    BY <2>1, RouteUsable
  <2> HIDE DEF b2, r
  <2>6. has_route(b1, d.src) => Sound(write(b2, r, e), E, P, Q, K, X)
    BY <2>3, <2>4, <2>5, WriteSound, NoHandshakeAllowed
  <2> QED BY <2>2, <2>4, <2>6
<1> QED BY <1>1, <1>2

(* A server handshake either finds a direct route and closes h, or gives h *)
(* a route and answers with the client handshake.                          *)
LEMMA ServerHandshakeSound ==
  ASSUME NEW b, NEW n \in Node, NEW E, NEW Q, NEW P \in SUBSET Q, NEW K, NEW X, NEW h \in Hdl, NEW d \in Datagrams,
         Sound(b, E, P, Q, K, X), h \in DOMAIN b.ctx, h \notin Q, h \notin K, h \notin b.shut,
         h[2] = 1, E[h[1]][1] = n, d.src = E[h[1]][2], d.src \in Node,
         h \in handle_server_handshake(b, n, h, d).shut => Excused(E, h, X)
  PROVE  Sound(handle_server_handshake(b, n, h, d), E, P, Q, K, X)
<1>1. d.sa \in Actor \cup {NoActor}
  BY DEF Datagrams
<1>2. CASE d.src = n \/ has_direct(b, d.src)
  <2> DEFINE b1 == finalize_handshake(b, n, h, d.src, d.sa)
  <2>1. Sound(b1, E, P, Q, K, X)
    BY <1>1, FinalizeSound
  <2>2. handle_server_handshake(b, n, h, d) = close_connection(b1, h)
    BY <1>2 DEF handle_server_handshake
  <2> HIDE DEF b1
  <2> QED BY <2>1, <2>2, CloseSound
<1>3. CASE ~ (d.src = n \/ has_direct(b, d.src))
  <2> DEFINE r == add_direct(b, n, h, d.src)
             b1 == write(r.first, h, client_handshake(n, d.src))
             b2 == IF r.learn THEN learned_new_node(b1, n, d.src) ELSE b1
             b3 == finalize_handshake(b2, n, h, d.src, d.sa)
  <2>1. handle_server_handshake(b, n, h, d) = flush(b3, h)
    BY <1>3 DEF handle_server_handshake
  <2>2. Sound(r.first, E, P, Q, K, X) /\ r.first.ctx = b.ctx
    BY <1>3, AddDirectSound
  <2> HIDE DEF r
  <2>3. client_handshake(n, d.src) \in Allowed(E, h)
    BY DEF client_handshake, Datagram, Datagrams, Ops, Allowed
  <2>4. Sound(b1, E, P, Q, K, X)
    BY <2>2, <2>3, WriteSound
  <2>5. b1.ctx = b.ctx
    BY <2>2 DEF Sound, BrokerT, write
  <2> HIDE DEF b1
  <2>6. Sound(b2, E, P, Q, K, X) /\ b2.ctx = b.ctx
    <3>1. /\ Sound(learned_new_node(b1, n, d.src), E, P, Q, K, X)
          /\ Frame(b1, learned_new_node(b1, n, d.src))
      BY <2>4, LearnedSound
    <3> QED BY <2>4, <2>5, <3>1 DEF Frame
  <2> HIDE DEF b2
  <2>7. Sound(b3, E, P, Q, K, X)
    BY <1>1, <2>6, FinalizeSound
  <2> HIDE DEF b3
  <2> QED BY <2>1, <2>7, FlushSound
<1> QED BY <1>2, <1>3

LEMMA ClientHandshakeSound ==
  ASSUME NEW b, NEW n \in Node, NEW E, NEW Q, NEW P \in SUBSET Q, NEW K, NEW X, NEW h \in Hdl, NEW d \in Datagrams,
         Sound(b, E, P, Q, K, X), h \in DOMAIN b.ctx, h \notin Q, h \notin K, h \notin b.shut,
         h[2] = 2, d.src = E[h[1]][1], d.src \in Node
  PROVE  Sound(handle_client_handshake(b, n, h, d), E, P, Q, K, X)
<1>1. CASE has_direct(b, d.src)
  BY <1>1 DEF handle_client_handshake
<1>2. CASE ~ has_direct(b, d.src)
  <2> DEFINE r == add_direct(b, n, h, d.src)
  <2>1. handle_client_handshake(b, n, h, d) =
          IF r.learn THEN learned_new_node(r.first, n, d.src) ELSE r.first
    BY <1>2 DEF handle_client_handshake
  <2>2. Sound(r.first, E, P, Q, K, X)
    BY <1>2, AddDirectSound
  <2> HIDE DEF r
  <2>3. Sound(learned_new_node(r.first, n, d.src), E, P, Q, K, X)
    BY <2>2, LearnedSound
  <2> QED BY <2>1, <2>2, <2>3
<1> QED BY <1>1, <1>2

LEMMA DispatchSound ==
  ASSUME NEW b, NEW n \in Node, NEW E, NEW Q, NEW P \in SUBSET Q, NEW K, NEW X, NEW h \in Hdl, NEW d \in Datagrams,
         Sound(b, E, P, Q, K, X), h \in DOMAIN b.ctx, h \notin Q
  PROVE  Sound(handle_dispatch(b, n, h, d), E, P, Q, K, X)
<1> DEFINE hop == lookup_direct(b, h)
           b1 == IF d.src \notin {n, NoNode, hop} /\ ~ has_direct(b, d.src)
                 THEN add_indirect(b, n, hop, d.src) ELSE b
           b2 == read_addr(b1, n, h, d.ref)
<1>1. d.src \in Node \cup {NoNode} /\ d.ref \in Actor \cup {NoActor} /\ d.sa \in Actor \cup {NoActor}
  BY DEF Datagrams
<1>2. hop \in Node \cup {NoNode}
  <2>1. b.byHdl \in Maps(Hdl, Node)
    BY DEF Sound, BrokerT
  <2> QED BY <2>1, MapFacts DEF lookup_direct
<1>3. handle_dispatch(b, n, h, d) = deliver(b2, n, h, d)
  BY DEF handle_dispatch
<1> HIDE DEF hop
<1>4. Sound(b1, E, P, Q, K, X) /\ b1.ctx = b.ctx
  <2> DEFINE src == d.src
  <2>1. CASE src \notin {n, NoNode, hop} /\ ~ has_direct(b, src)
    <3>1. src \in Node
      BY <1>1, <2>1
    <3> HIDE DEF src
    <3>2. /\ Sound(add_indirect(b, n, hop, src), E, P, Q, K, X)
          /\ Frame(b, add_indirect(b, n, hop, src))
      BY <1>2, <2>1, <3>1, AddIndirectSound
    <3> QED BY <2>1, <3>2 DEF Frame, src
  <2>2. CASE ~ (src \notin {n, NoNode, hop} /\ ~ has_direct(b, src))
    BY <2>2
  <2> QED BY <2>1, <2>2
<1> HIDE DEF b1
<1>5. Sound(b2, E, P, Q, K, X) /\ b2.ctx = b.ctx
  <2> DEFINE ref == d.ref
  <2>1. h \in DOMAIN b1.ctx /\ ref \in Actor \cup {NoActor}
    BY <1>1, <1>4
  <2> HIDE DEF ref
  <2>2. Sound(read_addr(b1, n, h, ref), E, P, Q, K, X) /\ Frame(b1, read_addr(b1, n, h, ref))
    BY <1>4, <2>1, ReadAddrSound
  <2> QED BY <1>4, <2>2 DEF Frame, ref
<1> HIDE DEF b2
<1>6. d.sa # NoActor => Sound(get_or_put(b2, n, h, d.sa), E, P, Q, K, X)
  BY <1>1, <1>5, GetOrPutSound
<1> QED BY <1>3, <1>5, <1>6 DEF deliver

(* Whatever datagram the other end of h may send                           *)
LEMMA HandleSound ==
  ASSUME NEW b, NEW n \in Node, NEW E, NEW Q, NEW P \in SUBSET Q, NEW K, NEW X, NEW h \in Hdl,
         NEW d \in Allowed(E, Peer(h)),
         Sound(b, E, P, Q, K, X), h \in DOMAIN b.ctx, h \notin Q, h \notin K, h \notin b.shut,
         E[h[1]][h[2]] = n, dead \subseteq Actor,
         h \in handle(b, n, h, d).shut => Excused(E, h, X)
  PROVE  Sound(handle(b, n, h, d), E, P, Q, K, X)
<1>1. d \in Datagrams
  BY DEF Allowed
<1>2. d.op \in Ops /\ d.src \in Node \cup {NoNode} /\ d.sa \in Actor \cup {NoActor}
  BY <1>1 DEF Datagrams
<1>3. h[2] \in {1, 2} /\ Peer(h)[1] = h[1] /\ Peer(h)[2] = 3 - h[2]
  <2>1. h[2] \in {1, 2}
    BY DEF Hdl
  <2>2. Peer(h)[1] = h[1] /\ Peer(h)[2] = 3 - h[2]
    BY DEF Peer
  <2> QED BY <2>1, <2>2
<1>4. d.op = "server_handshake" => h[2] = 1 /\ d.src = E[h[1]][2]
  BY <1>3 DEF Allowed
<1>5. d.op = "client_handshake" => h[2] = 2 /\ d.src = E[h[1]][1]
  BY <1>3 DEF Allowed
<1>6. CASE ~ valid(d)
  BY <1>6, CloseSound DEF handle
<1>7. CASE valid(d) /\ ~ is_handshake(d) /\ d.dst # n
  BY <1>1, <1>7, ForwardSound DEF handle
<1>8. CASE valid(d) /\ (is_handshake(d) \/ d.dst = n)
  <2>1. CASE d.op = "server_handshake"
    <3>1. d.src \in Node
      BY <1>2, <1>8, <2>1 DEF valid
    <3>2. handle(b, n, h, d) = handle_server_handshake(b, n, h, d)
      BY <1>8, <2>1 DEF handle
    <3> QED BY <1>1, <1>4, <2>1, <3>1, <3>2, ServerHandshakeSound
  <2>2. CASE d.op = "client_handshake"
    <3>1. d.src \in Node
      BY <1>2, <1>8, <2>2 DEF valid
    <3>2. handle(b, n, h, d) = handle_client_handshake(b, n, h, d)
      BY <1>8, <2>2 DEF handle
    <3> QED BY <1>1, <1>5, <2>2, <3>1, <3>2, ClientHandshakeSound
  <2>3. CASE d.op = "dispatch_message"
    <3>1. handle(b, n, h, d) = handle_dispatch(b, n, h, d)
      BY <1>8, <2>3 DEF handle
    <3> QED BY <1>1, <3>1, DispatchSound
  <2>4. CASE d.op = "announce_proxy_instance"
    <3> DEFINE k == kill_proxy_instance(n, d.src, d.da)
    <3>1. handle(b, n, h, d) = IF d.da \in dead THEN send_to(b, d.src, k) ELSE b
      BY <1>8, <2>4 DEF handle, proxy_announced
    <3>2. d.da \in Actor => k \in Datagrams /\ ~ is_handshake(k)
      BY <1>2 DEF kill_proxy_instance, Datagram, Datagrams, Ops, is_handshake
    <3> HIDE DEF k
    <3>3. d.da \in Actor => Sound(send_to(b, d.src, k), E, P, Q, K, X)
      BY <3>2, SendSound
    <3> QED BY <3>1, <3>3
  <2>5. CASE d.op = "kill_proxy_instance"
    <3>1. handle(b, n, h, d) = erase_proxies(b, {d.sa})
      BY <1>8, <2>5 DEF handle
    <3> QED BY <3>1, EraseSound
  <2> QED BY <1>2, <2>1, <2>2, <2>3, <2>4, <2>5 DEF Ops
<1> QED BY <1>6, <1>7, <1>8
-----------------------------------------------------------------------------
(* From the broker that runs a handler to the whole system                 *)

(* A broker that is sound for more handles is sound for fewer, and it may  *)
(* be excused for more nodes.                                              *)
LEMMA Weaken ==
  ASSUME NEW b, NEW E, NEW Q, NEW P \in SUBSET Q, NEW K, NEW X, Sound(b, E, P, Q, K, X),
         NEW Q1 \in SUBSET Q, NEW P1 \in SUBSET P, NEW K1 \in SUBSET K, NEW X1, X \subseteq X1
  PROVE  Sound(b, E, P1, Q1, K1, X1)
<1>1. Direct(b, E, Q1)
  BY DEF Sound, Direct
<1>2. Output(b, E, P1)
  BY DEF Sound, Output
<1>3. Callbacks(b, Q1, K1)
  BY DEF Sound, Callbacks
<1>4. Reach(b, X1)
  BY DEF Sound, Reach
<1> QED BY <1>1, <1>2, <1>3, <1>4 DEF Sound

(* The broker after a handler, whose output is on the wire and whose       *)
(* closed handles have become unusable                                     *)
Settled(b) == [b EXCEPT !.sent = [h \in Hdl |-> <<>>], !.shut = {}, !.ub = FALSE]

LEMMA SettledSound ==
  ASSUME NEW b, NEW E, NEW Q, NEW P \in SUBSET Q, NEW K, NEW X, Sound(b, E, P, Q, K, X)
  PROVE  /\ Sound(Settled(b), E, P, Q \cup b.shut, K, X) /\ Settled(b) \in BrokerT
         /\ Settled(b).shut = {} /\ Settled(b).sent = [h \in Hdl |-> <<>>]
<1> DEFINE t == [h \in Hdl |-> <<>>]
           b1 == Settled(b)
<1>1. b \in BrokerT
  BY DEF Sound
<1>2. t \in [Hdl -> Seq(Datagrams)] /\ \A h \in Hdl : t[h] = <<>>
  OBVIOUS
<1>3. b1 = [b EXCEPT !.sent = t, !.shut = {}, !.ub = FALSE]
  BY DEF Settled
<1> HIDE DEF t, b1
<1>4. /\ b1 \in BrokerT /\ b1.byHdl = b.byHdl /\ b1.byNid = b.byNid /\ b1.ctx = b.ctx
      /\ b1.indirect = b.indirect /\ b1.proxies = b.proxies /\ b1.out = b.out
      /\ b1.sent = t /\ b1.shut = {}
  BY <1>1, <1>2, <1>3 DEF BrokerT
<1>5. Direct(b1, E, Q \cup b.shut)
  BY <1>4 DEF Sound, Direct
<1>6. Reach(b1, X)
  BY <1>4 DEF Sound, Reach, has_route, has_direct
<1>7. Output(b1, E, P)
  <2> SUFFICES ASSUME NEW h \in Hdl
               PROVE  /\ b1.out[h] \in Seq(Allowed(E, h)) /\ b1.sent[h] \in Seq(Allowed(E, h))
                      /\ h \in P => b1.out[h] = <<>> /\ b1.sent[h] = <<>>
    BY DEF Output
  <2>1. b.out[h] \in Seq(Allowed(E, h)) /\ (h \in P => b.out[h] = <<>>)
    BY DEF Sound, Output
  <2>2. b1.sent[h] = <<>>
    BY <1>2, <1>4
  <2> QED BY <1>4, <2>1, <2>2
<1>8. Callbacks(b1, Q \cup b.shut, K)
  BY <1>4 DEF Sound, Callbacks
<1> QED BY <1>4, <1>5, <1>6, <1>7, <1>8 DEF Sound, b1, t

(* What an action in which the broker of n runs a handler provides: b is   *)
(* its state after it, s are the sockets before handles are closed and w   *)
(* the wires before the output of the handler is on them.                  *)
Handled(n, b, P, Q, K, X, w, s) ==
  /\ P \subseteq Q /\ Sound(b, ends, P, Q, K, X) /\ ends' = ends /\ broken' = broken
  /\ X \subseteq Stranded(ends, sock', n)
  /\ s \in [Hdl -> Sockets]
  /\ \A h \in Hdl : s[h] # sock[h] =>
       h \notin Foreign(ends, n) /\ s[h] \in {"open", "closed"}
  /\ Unused(ends, s, n) \subseteq P /\ Unusable(ends, s, n) \subseteq Q
  /\ promise' \in [Conn -> Promises]
  /\ \A c \in Conn : promise'[c] # promise[c] => ends[c] # <<>> /\ promise'[c] # "pending"
  /\ Waiting(ends, promise', n) \subseteq K
  /\ w \in [Hdl -> Seq(Datagrams)]
  /\ \A h \in Hdl : /\ w[h] \in Seq(Allowed(ends, h))
                    /\ sock[h] \in {"none", "backlog"} \/ h[1] \in broken => w[h] = <<>>
  /\ \A c \in Conn : promise'[c] = "pending" =>
       /\ s[<<c, 1>>] = "open"
       /\ \/ s[<<c, 2>>] = "backlog" \/ c \in broken
          \/ w[<<c, 2>>] # <<>> /\ Head(w[<<c, 2>>]) = server_handshake(ends[c][2])
          \/ w[<<c, 2>>] = <<>> /\ b.sent[<<c, 2>>] = <<server_handshake(ends[c][2])>>

LEMMA InstallInv ==
  ASSUME IInv, NEW n \in Node, NEW b, NEW Q, NEW P, NEW K, NEW X, NEW w, NEW s,
         Install(n, b, w, s), Handled(n, b, P, Q, K, X, w, s)
  PROVE  /\ BrokersInv' /\ SocketsInv' /\ PromisesInv'
         /\ broker' \in [Node -> BrokerT] /\ wire' \in [Hdl -> Seq(Datagrams)]
         /\ sock' \in [Hdl -> Sockets] /\ ends' = ends
<1> USE DEF Handled
<1>1. /\ ends \in [Conn -> {<<>>} \cup (Node \X Node)] /\ sock \in [Hdl -> Sockets]
      /\ broker \in [Node -> BrokerT] /\ promise \in [Conn -> Promises]
      /\ wire \in [Hdl -> Seq(Datagrams)] /\ ends' = ends /\ broken' = broken
  BY DEF IInv, TypesInv
<1>2. /\ broker' = [broker EXCEPT ![n] = Settled(b)]
      /\ wire' = [h \in Hdl |-> IF h[1] \in broken THEN w[h] ELSE w[h] \o b.sent[h]]
      /\ sock' = [h \in Hdl |-> IF h \in b.shut THEN "closed" ELSE s[h]]
  BY DEF Install, Settled
<1>3. /\ b.shut \subseteq Hdl /\ b.shut \cap Q = {}
      /\ \A h \in Hdl : b.sent[h] \in Seq(Datagrams) /\ b.sent[h] \in Seq(Allowed(ends, h))
      /\ \A h \in P : h \in Hdl => b.sent[h] = <<>>
  BY DEF Sound, BrokerT, Output, Callbacks
<1>4. /\ Sound(Settled(b), ends, P, Q \cup b.shut, K, X) /\ Settled(b) \in BrokerT
      /\ Settled(b).shut = {} /\ Settled(b).sent = [h \in Hdl |-> <<>>]
  BY SettledSound
<1>5. broker' \in [Node -> BrokerT]
  BY <1>1, <1>2, <1>4
<1>6. sock' \in [Hdl -> Sockets]
  BY <1>2 DEF Sockets
<1>7. wire' \in [Hdl -> Seq(Datagrams)]
  BY <1>2, <1>3
<1>8. \A h \in Hdl : h \in Foreign(ends, n) => sock'[h] = sock[h] /\ s[h] = sock[h]
  <2>1. Foreign(ends, n) \subseteq Q
    BY DEF Unusable
  <2> QED BY <1>2, <1>3, <2>1
<1>9. \A h \in Hdl : sock'[h] \in {"none", "backlog"} => s[h] = sock'[h] /\ sock[h] = s[h] /\ h \in P
  BY <1>2 DEF Unused
<1>10. BrokersInv'
  <2> SUFFICES ASSUME NEW k \in Node
               PROVE  /\ Sound(broker'[k], ends, Unused(ends, sock', k),
                               Unusable(ends, sock', k), Waiting(ends, promise', k),
                               Stranded(ends, sock', k))
                      /\ broker'[k].shut = {} /\ broker'[k].sent = [h \in Hdl |-> <<>>]
    BY <1>1 DEF BrokersInv
  <2>1. CASE k = n
    <3>1. broker'[k] = Settled(b)
      BY <1>1, <1>2, <2>1
    <3>2. Unused(ends, sock', n) \subseteq P
      BY <1>9 DEF Unused
    <3>3. Unusable(ends, sock', n) \subseteq Q \cup b.shut
      BY <1>2 DEF Unusable
    <3>4. P \in SUBSET (Q \cup b.shut)
      OBVIOUS
    <3>5. Sound(Settled(b), ends, Unused(ends, sock', n), Unusable(ends, sock', n),
                Waiting(ends, promise', n), Stranded(ends, sock', n))
      BY <1>4, <3>2, <3>3, <3>4, Weaken
    <3> QED BY <1>4, <2>1, <3>1, <3>5
  <2>2. CASE k # n
    <3>1. broker'[k] = broker[k]
      BY <1>1, <1>2, <2>2
    <3>2. /\ Sound(broker[k], ends, Unused(ends, sock, k), Unusable(ends, sock, k),
                   Waiting(ends, promise, k), Stranded(ends, sock, k))
          /\ broker[k].shut = {} /\ broker[k].sent = [h \in Hdl |-> <<>>]
      BY DEF IInv, BrokersInv
    <3>3. \A h \in Hdl : h \in Foreign(ends, k) \/ h \in Foreign(ends, n)
      BY <2>2 DEF Foreign
    <3>4. Unused(ends, sock', k) \subseteq Unused(ends, sock, k)
      BY <1>8, <3>3 DEF Unused
    <3>5. Unusable(ends, sock', k) \subseteq Unusable(ends, sock, k)
      BY <1>8, <3>3 DEF Unusable
    <3>6. Waiting(ends, promise', k) \subseteq Waiting(ends, promise, k)
      BY DEF Waiting, Hdl
    <3>7. Unused(ends, sock, k) \in SUBSET Unusable(ends, sock, k)
      BY DEF Unused, Unusable
    <3>8. Stranded(ends, sock, k) \subseteq Stranded(ends, sock', k)
      BY <1>8, <3>3 DEF Stranded
    <3>9. Sound(broker[k], ends, Unused(ends, sock', k), Unusable(ends, sock', k),
                Waiting(ends, promise', k), Stranded(ends, sock', k))
      BY <3>2, <3>4, <3>5, <3>6, <3>7, <3>8, Weaken
    <3> QED BY <3>1, <3>2, <3>9
  <2> QED BY <2>1, <2>2
<1>11. SocketsInv'
  <2>1. ASSUME NEW c \in Conn
        PROVE  IF ends[c] = <<>>
               THEN sock'[<<c, 1>>] = "none" /\ sock'[<<c, 2>>] = "none" /\ promise'[c] = "none"
               ELSE sock'[<<c, 1>>] \in {"open", "closed"} /\ sock'[<<c, 2>>] # "none"
    <3>1. <<c, 1>> \in Hdl /\ <<c, 2>> \in Hdl /\ <<c, 1>>[1] = c /\ <<c, 2>>[1] = c
      BY DEF Hdl
    <3>2. IF ends[c] = <<>>
          THEN sock[<<c, 1>>] = "none" /\ sock[<<c, 2>>] = "none" /\ promise[c] = "none"
          ELSE sock[<<c, 1>>] \in {"open", "closed"} /\ sock[<<c, 2>>] # "none"
      BY DEF IInv, SocketsInv
    <3>3. CASE ends[c] = <<>>
      BY <1>8, <3>1, <3>2, <3>3 DEF Foreign
    <3>4. CASE ends[c] # <<>>
      BY <1>2, <3>1, <3>2, <3>4
    <3> QED BY <3>3, <3>4
  <2>2. ASSUME NEW h \in Hdl
        PROVE  /\ wire'[h] \in Seq(Allowed(ends, h))
               /\ sock'[h] \in {"none", "backlog"} \/ h[1] \in broken => wire'[h] = <<>>
    <3>1. wire'[h] = IF h[1] \in broken THEN w[h] ELSE w[h] \o b.sent[h]
      BY <1>2
    <3>2. w[h] \in Seq(Allowed(ends, h)) /\ b.sent[h] \in Seq(Allowed(ends, h))
      BY <1>3
    <3>3. wire'[h] \in Seq(Allowed(ends, h))
      BY <3>1, <3>2
    <3>4. sock'[h] \in {"none", "backlog"} => w[h] = <<>> /\ b.sent[h] = <<>>
      BY <1>3, <1>9
    <3>5. <<>> \o <<>> = <<>>
      OBVIOUS
    <3> QED BY <3>1, <3>3, <3>4, <3>5
  <2> QED BY <1>1, <2>1, <2>2 DEF SocketsInv
<1>12. PromisesInv'
  <2> SUFFICES ASSUME NEW c \in Conn, promise'[c] = "pending"
               PROVE  /\ sock'[<<c, 1>>] = "open"
                      /\ \/ sock'[<<c, 2>>] = "backlog"
                         \/ /\ wire'[<<c, 2>>] # <<>>
                            /\ Head(wire'[<<c, 2>>]) = server_handshake(ends[c][2])
                         \/ c \in broken
    BY <1>1 DEF PromisesInv, server_handshake
  <2> DEFINE h == <<c, 1>>
             g == <<c, 2>>
  <2>1. h \in Hdl /\ g \in Hdl /\ h[1] = c /\ h[2] = 1 /\ g[1] = c /\ g[2] = 2
    BY DEF Hdl
  <2>2. /\ s[h] = "open"
        /\ \/ s[g] = "backlog" \/ c \in broken
           \/ w[g] # <<>> /\ Head(w[g]) = server_handshake(ends[c][2])
           \/ w[g] = <<>> /\ b.sent[g] = <<server_handshake(ends[c][2])>>
    OBVIOUS
  <2> HIDE DEF h, g
  <2>3. h \notin b.shut
    <3>1. CASE h \in Foreign(ends, n)
      BY <1>3, <3>1 DEF Unusable
    <3>2. CASE h \notin Foreign(ends, n)
      <4>1. h \in K
        BY <2>1, <3>2 DEF Waiting
      <4> QED BY <4>1 DEF Sound, Callbacks
    <3> QED BY <3>1, <3>2
  <2>4. sock'[h] = "open"
    BY <1>2, <2>1, <2>2, <2>3
  <2>5. s[g] = "backlog" => sock'[g] = "backlog"
    <3>1. s[g] = "backlog" => g \in Q
      BY <2>1 DEF Unusable
    <3> QED BY <1>2, <1>3, <2>1, <3>1
  <2>6. CASE c \notin broken
    <3>1. wire'[g] = w[g] \o b.sent[g]
      BY <1>2, <2>1, <2>6
    <3>2. w[g] \in Seq(Datagrams) /\ b.sent[g] \in Seq(Datagrams)
      BY <1>3, <2>1
    <3> DEFINE sh == server_handshake(ends[c][2])
    <3> HIDE DEF sh
    <3>3. w[g] # <<>> /\ Head(w[g]) = sh => wire'[g] # <<>> /\ Head(wire'[g]) = sh
      <4> DEFINE q == w[g]
                 r == b.sent[g]
      <4>1. q \in Seq(Datagrams) /\ r \in Seq(Datagrams) /\ wire'[g] = q \o r
        BY <3>1, <3>2
      <4> HIDE DEF q, r
      <4>2. q # <<>> => q \o r # <<>> /\ Head(q \o r) = Head(q)
        BY <4>1, ConcatHead
      <4> QED BY <4>1, <4>2 DEF q
    <3>4. w[g] = <<>> /\ b.sent[g] = <<sh>> => wire'[g] # <<>> /\ Head(wire'[g]) = sh
      BY <3>1, <3>2
    <3> QED BY <2>2, <2>4, <2>5, <2>6, <3>3, <3>4 DEF sh, h, g
  <2>7. CASE c \in broken
    BY <2>4, <2>7 DEF h
  <2> QED BY <2>6, <2>7
<1> QED BY <1>1, <1>5, <1>6, <1>7, <1>10, <1>11, <1>12
-----------------------------------------------------------------------------
(* The actions preserve the invariant.                                     *)

(* What the invariant says of one broker                                   *)
LEMMA OneBroker ==
  ASSUME IInv, NEW n \in Node
  PROVE  /\ Sound(broker[n], ends, Unused(ends, sock, n), Unusable(ends, sock, n),
                  Waiting(ends, promise, n), Stranded(ends, sock, n))
         /\ broker[n].shut = {} /\ broker[n].sent = [h \in Hdl |-> <<>>]
         /\ Unused(ends, sock, n) \in SUBSET Unusable(ends, sock, n)
         /\ broker[n] \in BrokerT
<1>1. Unused(ends, sock, n) \in SUBSET Unusable(ends, sock, n)
  BY DEF Unused, Unusable
<1> QED BY <1>1 DEF IInv, BrokersInv, Sound

(* The owner of a handle with a socket is a node, and can use it when it   *)
(* is open.                                                                *)
LEMMA OwnerNode ==
  ASSUME IInv, NEW h \in Hdl, sock[h] \in {"backlog", "open", "closed"}
  PROVE  /\ Owner(h) \in Node /\ ends[h[1]] # <<>> /\ h[1] \in Conn /\ h[2] \in {1, 2}
         /\ h \notin Foreign(ends, Owner(h)) /\ h = <<h[1], h[2]>>
         /\ sock[h] = "open" => h \notin Unusable(ends, sock, Owner(h))
<1>1. h[1] \in Conn /\ h[2] \in {1, 2} /\ h = <<h[1], h[2]>>
  BY DEF Hdl
<1>2. ends \in [Conn -> {<<>>} \cup (Node \X Node)]
  BY DEF IInv, TypesInv
<1>3. ends[h[1]] # <<>>
  <2>1. ends[h[1]] = <<>> => sock[<<h[1], 1>>] = "none" /\ sock[<<h[1], 2>>] = "none"
    BY <1>1 DEF IInv, SocketsInv
  <2> QED BY <1>1, <2>1
<1>4. ends[h[1]] \in Node \X Node
  BY <1>1, <1>2, <1>3
<1>5. ends[h[1]][1] \in Node /\ ends[h[1]][2] \in Node
  BY <1>4
<1>6. Owner(h) \in Node
  BY <1>1, <1>5 DEF Owner
<1>7. h \notin Foreign(ends, Owner(h))
  BY <1>3 DEF Foreign, Owner
<1> QED BY <1>1, <1>3, <1>6, <1>7 DEF Unusable

(* A handler that reads nothing and answers no promise                     *)
LEMMA PlainInstall ==
  ASSUME IInv, NEW n \in Node, NEW b, Install(n, b, wire, sock),
         UNCHANGED <<ends, broken, promise>>, dead' \subseteq Actor,
         Sound(b, ends, Unused(ends, sock, n), Unusable(ends, sock, n),
               Waiting(ends, promise, n), Stranded(ends, sock, n))
  PROVE  IInv'
<1>1. TypesInv /\ SocketsInv /\ PromisesInv
  BY DEF IInv
<1>2. Unused(ends, sock, n) \in SUBSET Unusable(ends, sock, n)
  BY DEF Unused, Unusable
<1>3. /\ BrokersInv' /\ SocketsInv' /\ PromisesInv'
      /\ broker' \in [Node -> BrokerT] /\ wire' \in [Hdl -> Seq(Datagrams)]
      /\ sock' \in [Hdl -> Sockets] /\ ends' = ends
  <2>1. /\ sock \in [Hdl -> Sockets] /\ promise' \in [Conn -> Promises]
        /\ wire \in [Hdl -> Seq(Datagrams)] /\ promise' = promise
    BY <1>1 DEF TypesInv
  <2>2. \A h \in Hdl : /\ wire[h] \in Seq(Allowed(ends, h))
                       /\ sock[h] \in {"none", "backlog"} \/ h[1] \in broken => wire[h] = <<>>
    BY <1>1 DEF SocketsInv
  <2>3. \A c \in Conn : promise'[c] = "pending" =>
          /\ sock[<<c, 1>>] = "open"
          /\ \/ sock[<<c, 2>>] = "backlog" \/ c \in broken
             \/ wire[<<c, 2>>] # <<>> /\ Head(wire[<<c, 2>>]) = server_handshake(ends[c][2])
             \/ wire[<<c, 2>>] = <<>> /\ b.sent[<<c, 2>>] = <<server_handshake(ends[c][2])>>
    BY <1>1, <2>1 DEF PromisesInv
  <2> DEFINE P == Unused(ends, sock, n)
             Q == Unusable(ends, sock, n)
             K == Waiting(ends, promise, n)
             X == Stranded(ends, sock, n)
  <2>4. X \subseteq Stranded(ends, sock', n)
    <3>1. \A h \in Hdl : sock[h] = "closed" => sock'[h] = "closed"
      BY DEF Install
    <3> QED BY <3>1 DEF Stranded
  <2>5. Handled(n, b, P, Q, K, X, wire, sock)
    BY <1>2, <2>1, <2>2, <2>3, <2>4 DEF Handled
  <2> HIDE DEF P, Q, K, X
  <2> QED BY <2>5, InstallInv
<1> QED BY <1>1, <1>3 DEF IInv, TypesInv

LEMMA SendKillInv ==
  ASSUME IInv, NEW a \in Actor, NEW m \in Node, SendKill(a, m)
  PROVE  IInv'
<1> DEFINE n == Home[a]
           d == kill_proxy_instance(n, m, a)
           b == send_to(broker[n], m, d)
<1>1. n \in Node
  BY BaspAssumption
<1>2. d \in Datagrams /\ ~ is_handshake(d)
  BY <1>1 DEF kill_proxy_instance, Datagram, Datagrams, Ops, is_handshake
<1>3. Install(n, b, wire, sock) /\ UNCHANGED <<ends, broken, dead, watched, promise>>
  BY DEF SendKill
<1>4. dead' \subseteq Actor
  BY <1>3 DEF SendKill, IInv, TypesInv
<1> HIDE DEF n, d
<1>5. Sound(b, ends, Unused(ends, sock, n), Unusable(ends, sock, n), Waiting(ends, promise, n),
           Stranded(ends, sock, n))
  BY <1>1, <1>2, OneBroker, SendSound
<1> QED BY <1>1, <1>3, <1>4, <1>5, PlainInstall

LEMMA ForwardInv ==
  ASSUME IInv, NEW n \in Node, NEW a \in Actor, NEW to \in Actor,
         NEW ref \in Actor \cup {NoActor}, Forward(n, a, to, ref)
  PROVE  IInv'
<1> DEFINE d == dispatch_message(n, Home[to], a, to, ref)
           b == send_to(broker[n], Home[to], d)
<1>1. d \in Datagrams /\ ~ is_handshake(d)
  BY BaspAssumption DEF dispatch_message, Datagram, Datagrams, Ops, is_handshake
<1>2. Install(n, b, wire, sock) /\ UNCHANGED <<ends, broken, dead, watched, killq, promise>>
  BY DEF Forward
<1>3. dead' \subseteq Actor
  BY <1>2 DEF IInv, TypesInv
<1> HIDE DEF d
<1>4. Sound(b, ends, Unused(ends, sock, n), Unusable(ends, sock, n), Waiting(ends, promise, n),
           Stranded(ends, sock, n))
  BY <1>1, OneBroker, SendSound
<1> QED BY <1>2, <1>3, <1>4, PlainInstall

(* Changing the context of an open handle, but not its callback            *)
LEMMA ContextSound ==
  ASSUME NEW b, NEW E, NEW Q, NEW P \in SUBSET Q, NEW K, NEW X, NEW h \in Hdl, NEW v \in Contexts,
         Sound(b, E, P, Q, K, X), h \notin Q, h \notin b.shut, h \in K => v.callback
  PROVE  /\ Sound([b EXCEPT !.ctx = Put(@, h, v)], E, P, Q, K, X)
         /\ [b EXCEPT !.ctx = Put(@, h, v)].shut = b.shut
         /\ h \in DOMAIN [b EXCEPT !.ctx = Put(@, h, v)].ctx
         /\ [b EXCEPT !.ctx = Put(@, h, v)].ctx[h] = v
<1> DEFINE f == Put(b.ctx, h, v)
           b1 == [b EXCEPT !.ctx = Put(@, h, v)]
<1>1. b \in BrokerT /\ b.ctx \in Maps(Hdl, Contexts)
  BY DEF Sound, BrokerT
<1>2. f \in Maps(Hdl, Contexts)
  BY <1>1, PutMap
<1>3. DOMAIN f = DOMAIN b.ctx \cup {h} /\ f[h] = v /\ \A x \in DOMAIN b.ctx : x # h => f[x] = b.ctx[x]
  BY DEF Put
<1>4. b1 = [b EXCEPT !.ctx = f]
  BY <1>1 DEF BrokerT
<1> HIDE DEF f, b1
<1>5. /\ b1 \in BrokerT /\ b1.ctx = f /\ b1.byHdl = b.byHdl /\ b1.byNid = b.byNid
      /\ b1.shut = b.shut /\ b1.indirect = b.indirect
      /\ b1.proxies = b.proxies /\ b1.sent = b.sent /\ b1.out = b.out
  BY <1>1, <1>2, <1>4 DEF BrokerT
<1>6. Direct(b1, E, Q) /\ Reach(b1, X) /\ Output(b1, E, P)
  BY <1>3, <1>5 DEF Sound, Direct, Reach, Output, has_route, has_direct
<1>7. Callbacks(b1, Q, K)
  BY <1>3, <1>5 DEF Sound, Callbacks
<1> QED BY <1>3, <1>5, <1>6, <1>7 DEF Sound, b1

(* The context that set_context finds or makes                             *)
LEMMA SetContext ==
  ASSUME NEW b, NEW E, NEW Q, NEW P \in SUBSET Q, NEW K, NEW X, NEW h, Sound(b, E, P, Q, K, X)
  PROVE  set_context(b, h) \in Contexts /\ (h \in K => set_context(b, h).callback)
<1>1. b.ctx \in Maps(Hdl, Contexts)
  BY DEF Sound, BrokerT
<1>2. h \in DOMAIN b.ctx => b.ctx[h] \in Contexts
  BY <1>1, MapFacts
<1>3. NewContext(FALSE) \in Contexts
  BY DEF NewContext, Contexts
<1> QED BY <1>2, <1>3 DEF set_context, Sound, Callbacks

LEMMA ReadHeaderInv ==
  ASSUME IInv, NEW h \in Hdl, ReadHeader(h)
  PROVE  IInv'
<1> DEFINE n == Owner(h)
           ctx == set_context(broker[n], h)
           v == [ctx EXCEPT !.cstate = "await_payload"]
           b1 == [broker[n] EXCEPT !.ctx = Put(@, h, v)]
           Q == Unusable(ends, sock, n)
           P == Unused(ends, sock, n)
           K == Waiting(ends, promise, n)
           X == Stranded(ends, sock, n)
<1>1. /\ Install(n, flush(b1, h), wire, sock) /\ sock[h] = "open"
      /\ UNCHANGED <<ends, broken, dead, watched, killq, promise>>
  BY DEF ReadHeader
<1>2. n \in Node /\ h \notin Q
  BY <1>1, OwnerNode
<1>3. dead' \subseteq Actor
  BY <1>1 DEF IInv, TypesInv
<1> HIDE DEF n
<1>4. Sound(broker[n], ends, P, Q, K, X) /\ broker[n].shut = {} /\ P \in SUBSET Q
  BY <1>2, OneBroker
<1> HIDE DEF P, Q, K, X
<1>5. ctx \in Contexts /\ (h \in K => ctx.callback)
  BY <1>4, SetContext
<1> HIDE DEF ctx
<1>6. v \in Contexts /\ v.callback = ctx.callback
  BY <1>5 DEF Contexts
<1> HIDE DEF v
<1>7. Sound(b1, ends, P, Q, K, X)
  BY <1>2, <1>4, <1>5, <1>6, ContextSound
<1> HIDE DEF b1
<1>8. Sound(flush(b1, h), ends, P, Q, K, X)
  BY <1>2, <1>4, <1>7, FlushSound
<1> QED BY <1>1, <1>2, <1>3, <1>8, PlainInstall DEF P, Q, K, X

(* The accepting node opens a connection with the server's handshake.      *)
LEMMA AcceptInv ==
  ASSUME IInv, NEW h \in Hdl, Accept(h)
  PROVE  IInv'
<1> DEFINE n == Owner(h)
           d == server_handshake(n)
           b0 == broker[n]
           b1 == write(b0, h, d)
           b == flush(b1, h)
           s == [sock EXCEPT ![h] = "open"]
           P == Unused(ends, s, n)
           Q == Unusable(ends, s, n)
           K == Waiting(ends, promise, n)
           X == Stranded(ends, sock, n)
<1>1. /\ sock[h] = "backlog" /\ Install(n, b, wire, s)
      /\ UNCHANGED <<ends, broken, dead, promise>>
  BY DEF Accept
<1>2. /\ n \in Node /\ h \notin Foreign(ends, n) /\ h[1] \in Conn /\ h[2] \in {1, 2}
      /\ h = <<h[1], h[2]>> /\ ends[h[1]] # <<>>
  BY <1>1, OwnerNode
<1>3. TypesInv /\ SocketsInv /\ PromisesInv
  BY DEF IInv
<1>4. h[2] = 2 /\ n = ends[h[1]][2]
  <2>1. sock[<<h[1], 1>>] # "backlog"
    BY <1>2, <1>3 DEF SocketsInv
  <2>2. h[2] = 2
    BY <1>1, <1>2, <2>1
  <2> QED BY <2>2 DEF Owner
<1>5. sock \in [Hdl -> Sockets] /\ s \in [Hdl -> Sockets] /\ s[h] = "open"
      /\ \A g \in Hdl : g # h => s[g] = sock[g]
  BY <1>3 DEF TypesInv, Sockets
<1>6. d \in Allowed(ends, h)
  <2>1. Published[n] \in Actor \cup {NoActor}
    BY <1>2, BaspAssumption
  <2> QED BY <1>2, <1>4, <2>1 DEF server_handshake, Datagram, Datagrams, Ops, Allowed
<1>7. /\ Sound(b0, ends, Unused(ends, sock, n), Unusable(ends, sock, n), K, X)
      /\ b0.sent = [g \in Hdl |-> <<>>] /\ b0 \in BrokerT
      /\ Unused(ends, sock, n) \in SUBSET Unusable(ends, sock, n)
  BY <1>2, OneBroker
<1>8. b0.out[h] = <<>> /\ b0.sent[h] = <<>>
  BY <1>1, <1>7 DEF Sound, Output, Unused
<1> HIDE DEF n, d, s
<1>9. P \in SUBSET Unused(ends, sock, n) /\ Q \in SUBSET Unusable(ends, sock, n) /\ P \in SUBSET Q
  BY <1>1, <1>5 DEF Unused, Unusable
<1>10. Sound(b0, ends, P, Q, K, X)
  BY <1>7, <1>9, Weaken
<1>11. h \notin Q
  BY <1>2, <1>5 DEF Unusable
<1>12. b1.sent[h] = <<>> /\ b1.out[h] = <<d>> /\ b1 \in BrokerT
  <2>1. b0.out \in [Hdl -> Seq(Datagrams)]
    BY <1>7 DEF BrokerT
  <2>2. b1.out = [b0.out EXCEPT ![h] = Append(b0.out[h], d)] /\ b1.sent = b0.sent
    BY <1>7 DEF write, BrokerT
  <2>3. b1 \in BrokerT
    <3>1. Sound(b1, ends, P, Q, K, X)
      BY <1>6, <1>9, <1>10, <1>11, WriteSound
    <3> QED BY <3>1 DEF Sound
  <2> QED BY <1>8, <2>1, <2>2, <2>3
<1> HIDE DEF b0, P, Q, K, X
<1>13. Sound(b1, ends, P, Q, K, X)
  BY <1>6, <1>9, <1>10, <1>11, WriteSound
<1> HIDE DEF b1
<1>14. Sound(b, ends, P, Q, K, X)
  BY <1>9, <1>11, <1>13, FlushSound
<1>15. b.sent[h] = <<d>>
  <2>1. b.sent = [b1.sent EXCEPT ![h] = b1.sent[h] \o b1.out[h]] /\ b1.sent \in [Hdl -> Seq(Datagrams)]
    BY <1>12 DEF flush, BrokerT
  <2>2. <<>> \o <<d>> = <<d>>
    OBVIOUS
  <2> QED BY <1>12, <2>1, <2>2
<1> HIDE DEF b
<1>16. X \subseteq Stranded(ends, sock', n)
  <2>1. \A g \in Hdl : sock[g] = "closed" => sock'[g] = "closed"
    BY <1>1, <1>5 DEF Install
  <2> QED BY <2>1 DEF X, Stranded
<1>17. Handled(n, b, P, Q, K, X, wire, s)
  <2>1. promise' \in [Conn -> Promises] /\ promise' = promise /\ wire \in [Hdl -> Seq(Datagrams)]
        /\ Waiting(ends, promise', n) \subseteq K
    BY <1>1, <1>3 DEF TypesInv, K
  <2>2. \A g \in Hdl : /\ wire[g] \in Seq(Allowed(ends, g))
                       /\ sock[g] \in {"none", "backlog"} \/ g[1] \in broken => wire[g] = <<>>
    BY <1>3 DEF SocketsInv
  <2>3. ASSUME NEW c \in Conn, promise'[c] = "pending"
        PROVE  /\ s[<<c, 1>>] = "open"
               /\ \/ s[<<c, 2>>] = "backlog" \/ c \in broken
                  \/ wire[<<c, 2>>] # <<>> /\ Head(wire[<<c, 2>>]) = server_handshake(ends[c][2])
                  \/ wire[<<c, 2>>] = <<>> /\ b.sent[<<c, 2>>] = <<server_handshake(ends[c][2])>>
    <3>1. <<c, 1>> \in Hdl /\ <<c, 2>> \in Hdl /\ <<c, 1>> # h
      BY <1>4 DEF Hdl
    <3>2. /\ sock[<<c, 1>>] = "open"
          /\ \/ sock[<<c, 2>>] = "backlog" \/ c \in broken
             \/ wire[<<c, 2>>] # <<>> /\ Head(wire[<<c, 2>>]) = server_handshake(ends[c][2])
      BY <1>3, <2>1, <2>3 DEF PromisesInv
    <3>3. CASE c = h[1]
      <4>1. h = <<c, 2>>
        BY <1>2, <1>4, <3>3
      <4>2. wire[h] = <<>>
        BY <1>1, <2>2
      <4>3. b.sent[h] = <<server_handshake(ends[c][2])>>
        BY <1>4, <1>15, <3>3 DEF d
      <4> QED BY <1>5, <3>1, <3>2, <4>1, <4>2, <4>3
    <3>4. CASE c # h[1]
      <4>1. <<c, 2>> # h
        BY <3>4
      <4> QED BY <1>5, <3>1, <3>2, <4>1
    <3> QED BY <3>3, <3>4
  <2>4. \A g \in Hdl : s[g] # sock[g] => g \notin Foreign(ends, n) /\ s[g] \in {"open", "closed"}
    BY <1>2, <1>5
  <2>5. Unused(ends, s, n) \subseteq P /\ Unusable(ends, s, n) \subseteq Q
    BY DEF P, Q
  <2> QED BY <1>1, <1>5, <1>9, <1>14, <1>16, <2>1, <2>2, <2>3, <2>4, <2>5 DEF Handled
<1>18. /\ BrokersInv' /\ SocketsInv' /\ PromisesInv'
       /\ broker' \in [Node -> BrokerT] /\ wire' \in [Hdl -> Seq(Datagrams)]
       /\ sock' \in [Hdl -> Sockets] /\ ends' = ends
  BY <1>1, <1>2, <1>17, InstallInv
<1> QED BY <1>1, <1>3, <1>18 DEF IInv, TypesInv

(* The end of reading: the context, if it still exists, awaits a header    *)
(* again, and the handle is flushed.                                       *)
ReadEnd(b, h) ==
  flush(IF h \in DOMAIN b.ctx THEN [b EXCEPT !.ctx[h].cstate = "await_header"] ELSE b, h)

(* It closes nothing and keeps the broker sound.                           *)
LEMMA ReadEndSound ==
  ASSUME NEW b1, NEW E, NEW Q, NEW P \in SUBSET Q, NEW K, NEW X, NEW h \in Hdl,
         Sound(b1, E, P, Q, K, X), h \notin Q, h \notin K
  PROVE  Sound(ReadEnd(b1, h), E, P, Q, K, X) /\ ReadEnd(b1, h).shut = b1.shut
<1> DEFINE b2 == [b1 EXCEPT !.ctx[h].cstate = "await_header"]
<1>1. ASSUME NEW c \in BrokerT
      PROVE  flush(c, h).shut = c.shut
  BY DEF flush, BrokerT
<1>2. CASE h \notin DOMAIN b1.ctx
  <2>1. Sound(flush(b1, h), E, P, Q, K, X) /\ b1 \in BrokerT
    BY FlushSound DEF Sound
  <2> QED BY <1>1, <1>2, <2>1 DEF ReadEnd
<1>3. CASE h \in DOMAIN b1.ctx
  <2> DEFINE v == [b1.ctx[h] EXCEPT !.cstate = "await_header"]
  <2>1. b1 \in BrokerT /\ b1.ctx \in Maps(Hdl, Contexts) /\ h \notin b1.shut
    BY <1>3 DEF Sound, BrokerT, Callbacks
  <2>2. b1.ctx[h] \in Contexts
    BY <1>3, <2>1, MapFacts
  <2>3. v \in Contexts
    BY <2>2 DEF Contexts
  <2>4. [b1.ctx EXCEPT ![h] = v] = Put(b1.ctx, h, v)
    <3>1. PICK D \in SUBSET Hdl : b1.ctx \in [D -> Contexts]
      BY <2>1 DEF Maps
    <3>2. DOMAIN b1.ctx \cup {h} = D /\ DOMAIN b1.ctx = D /\ h \in D
      BY <1>3, <3>1
    <3> HIDE DEF v
    <3> QED BY <3>1, <3>2 DEF Put
  <2>5. b2 = [b1 EXCEPT !.ctx = Put(b1.ctx, h, v)]
    BY <2>1, <2>2, <2>4 DEF BrokerT, Contexts
  <2> HIDE DEF v
  <2>6. Sound(b2, E, P, Q, K, X) /\ b2.shut = b1.shut
    BY <2>1, <2>3, <2>5, ContextSound
  <2> HIDE DEF b2
  <2>7. Sound(flush(b2, h), E, P, Q, K, X) /\ b2 \in BrokerT
    BY <2>6, FlushSound DEF Sound
  <2>8. flush(b2, h).shut = b1.shut
    BY <1>1, <2>6, <2>7
  <2> QED BY <1>3, <2>7, <2>8 DEF b2, ReadEnd
<1> QED BY <1>2, <1>3

LEMMA ReadDatagramInv ==
  ASSUME IInv, NEW h \in Hdl, ReadDatagram(h)
  PROVE  IInv'
<1> DEFINE n == Owner(h)
           p == Peer(h)
           d == Head(wire[p])
           ctx == set_context(broker[n], h)
           b0 == [broker[n] EXCEPT !.ctx = Put(@, h, ctx)]
           b1 == handle(b0, n, h, d)
           b == flush(IF h \in DOMAIN b1.ctx THEN [b1 EXCEPT !.ctx[h].cstate = "await_header"]
                      ELSE b1, h)
           w == [wire EXCEPT ![p] = Tail(@)]
           P == Unused(ends, sock, n)
           Q == Unusable(ends, sock, n)
           K0 == Waiting(ends, promise, n)
           K == K0 \ {h}
           X0 == Stranded(ends, sock, n)
           X == X0 \cup {m \in Node : h \in b1.shut /\ m # ends[h[1]][3 - h[2]]}
<1>1. /\ sock[h] = "open" /\ wire[p] # <<>> /\ Install(n, b, w, sock)
      /\ promise' = IF d.op = "server_handshake" /\ ctx.callback
                    THEN [promise EXCEPT ![h[1]] = "ok"] ELSE promise
      /\ UNCHANGED <<ends, broken, dead>>
  BY DEF ReadDatagram
<1>2. /\ n \in Node /\ h \notin Foreign(ends, n) /\ h[1] \in Conn /\ h[2] \in {1, 2}
      /\ h = <<h[1], h[2]>> /\ ends[h[1]] # <<>> /\ h \notin Q
  BY <1>1, OwnerNode
<1>3. TypesInv /\ SocketsInv /\ PromisesInv
  BY DEF IInv
<1>4. p = <<h[1], 3 - h[2]>> /\ p \in Hdl /\ p[1] = h[1]
  BY <1>2 DEF Peer, Hdl
<1>5. /\ wire \in [Hdl -> Seq(Datagrams)] /\ promise \in [Conn -> Promises]
      /\ sock \in [Hdl -> Sockets] /\ dead \subseteq Actor
      /\ \A g \in Hdl : /\ wire[g] \in Seq(Allowed(ends, g))
                        /\ sock[g] \in {"none", "backlog"} \/ g[1] \in broken => wire[g] = <<>>
  BY <1>3 DEF TypesInv, SocketsInv
<1>6. d \in Allowed(ends, p) /\ Tail(wire[p]) \in Seq(Allowed(ends, p))
      /\ Tail(wire[p]) \in Seq(Datagrams)
  <2>1. wire[p] \in Seq(Allowed(ends, p)) /\ wire[p] \in Seq(Datagrams)
    BY <1>4, <1>5
  <2> QED BY <1>1, <2>1
<1>7. ends[h[1]][h[2]] = n
  BY DEF Owner
<1>8. /\ Sound(broker[n], ends, P, Q, K0, X0) /\ broker[n].shut = {} /\ P \in SUBSET Q
  BY <1>2, OneBroker
<1> HIDE DEF n
<1>9. h \notin K0 \/ (d.op = "server_handshake" /\ ctx.callback)
  <2> SUFFICES ASSUME h \in K0
               PROVE  d.op = "server_handshake" /\ ctx.callback
    OBVIOUS
  <2>1. h[2] = 1 /\ promise[h[1]] = "pending"
    BY DEF Waiting
  <2>2. p = <<h[1], 2>>
    BY <1>4, <2>1
  <2>3. sock[p] # "backlog" /\ h[1] \notin broken
    BY <1>1, <1>4, <1>5
  <2>4. d = server_handshake(ends[h[1]][2])
    BY <1>2, <1>3, <2>1, <2>2, <2>3 DEF PromisesInv
  <2>5. d.op = "server_handshake"
    BY <2>4 DEF server_handshake, Datagram
  <2>6. ctx.callback
    BY <1>8, SetContext
  <2> QED BY <2>5, <2>6
<1>10. Sound(b, ends, P, Q, K, X) /\ b.shut = b1.shut
  <2>1. /\ K \in SUBSET K0 /\ Q \in SUBSET Q /\ P \in SUBSET P /\ h \notin K
        /\ X0 \subseteq X /\ (h \in b1.shut => Excused(ends, h, X))
    BY DEF Excused
  <2> HIDE DEF P, Q, K, K0, X0, X
  <2>2. Sound(broker[n], ends, P, Q, K, X)
    BY <1>8, <2>1, Weaken
  <2>3. ctx \in Contexts
    BY <1>8, <2>2, SetContext
  <2> HIDE DEF ctx
  <2>4. Sound(b0, ends, P, Q, K, X) /\ b0.shut = {} /\ h \in DOMAIN b0.ctx
    <3>1. h \notin broker[n].shut
      BY <1>8
    <3>2. P \in SUBSET Q /\ h \notin Q /\ h \notin K
      BY <1>2, <1>8, <2>1
    <3> DEFINE x == broker[n]
    <3>3. Sound(x, ends, P, Q, K, X) /\ h \notin x.shut /\ x.shut = {}
      BY <1>8, <2>2, <3>1
    <3> HIDE DEF x
    <3>4. /\ Sound([x EXCEPT !.ctx = Put(@, h, ctx)], ends, P, Q, K, X)
          /\ [x EXCEPT !.ctx = Put(@, h, ctx)].shut = x.shut
          /\ h \in DOMAIN [x EXCEPT !.ctx = Put(@, h, ctx)].ctx
      BY <2>3, <3>2, <3>3, ContextSound
    <3> QED BY <3>3, <3>4 DEF x
  <2> HIDE DEF b0, d, p
  <2>5. Sound(b1, ends, P, Q, K, X)
    <3>1. d \in Allowed(ends, Peer(h))
      BY <1>6 DEF p
    <3>2. h \notin b0.shut
      BY <2>4
    <3>3. h \in handle(b0, n, h, d).shut => Excused(ends, h, X)
      BY <2>1
    <3> QED BY <1>2, <1>5, <1>7, <1>8, <2>1, <2>4, <3>1, <3>2, <3>3, HandleSound
  <2> HIDE DEF b1
  <2>6. Sound(ReadEnd(b1, h), ends, P, Q, K, X) /\ ReadEnd(b1, h).shut = b1.shut
    BY <1>2, <1>8, <2>1, <2>5, ReadEndSound
  <2> QED BY <2>6 DEF ReadEnd
<1>11. promise' \in [Conn -> Promises]
       /\ \A c \in Conn : promise'[c] # promise[c] => c = h[1] /\ promise'[c] = "ok"
  BY <1>1, <1>2, <1>5 DEF Promises
<1>12. promise'[h[1]] = "pending" => h \notin K0 /\ promise[h[1]] = "pending"
  BY <1>1, <1>2, <1>5, <1>9, <1>11
<1>13. Waiting(ends, promise', n) \subseteq K
  <2> SUFFICES ASSUME NEW g \in Waiting(ends, promise', n)
               PROVE  g \in K
    OBVIOUS
  <2>1. g \in Hdl \ Foreign(ends, n) /\ g[2] = 1 /\ promise'[g[1]] = "pending" /\ g[1] \in Conn
    BY DEF Waiting, Hdl
  <2>2. promise[g[1]] = "pending"
    BY <1>11, <2>1
  <2>3. g \in K0
    BY <2>1, <2>2 DEF Waiting
  <2>4. g # h
    BY <1>12, <2>1, <2>3
  <2> QED BY <2>3, <2>4
<1> HIDE DEF b
<1>14. X \subseteq Stranded(ends, sock', n)
  <2>1. sock' = [g \in Hdl |-> IF g \in b.shut THEN "closed" ELSE sock[g]]
    BY <1>1 DEF Install
  <2> HIDE DEF b1
  <2>2. h \in b1.shut => sock'[h] = "closed"
    BY <1>10, <2>1
  <2> QED BY <1>2, <2>1, <2>2 DEF Stranded
<1> HIDE DEF b1, d
<1>15. /\ w \in [Hdl -> Seq(Datagrams)] /\ w[p] = Tail(wire[p])
       /\ \A g \in Hdl : g # p => w[g] = wire[g]
  BY <1>4, <1>5, <1>6
<1>16. \A g \in Hdl : /\ w[g] \in Seq(Allowed(ends, g))
                      /\ sock[g] \in {"none", "backlog"} \/ g[1] \in broken => w[g] = <<>>
  BY <1>1, <1>5, <1>6, <1>15
<1>17. ASSUME NEW c \in Conn, promise'[c] = "pending"
       PROVE  /\ sock[<<c, 1>>] = "open"
              /\ \/ sock[<<c, 2>>] = "backlog" \/ c \in broken
                 \/ w[<<c, 2>>] # <<>> /\ Head(w[<<c, 2>>]) = server_handshake(ends[c][2])
                 \/ w[<<c, 2>>] = <<>> /\ b.sent[<<c, 2>>] = <<server_handshake(ends[c][2])>>
  <2>1. promise[c] = "pending"
    BY <1>11, <1>17
  <2>2. /\ sock[<<c, 1>>] = "open"
        /\ \/ sock[<<c, 2>>] = "backlog" \/ c \in broken
           \/ wire[<<c, 2>>] # <<>> /\ Head(wire[<<c, 2>>]) = server_handshake(ends[c][2])
    BY <1>3, <2>1 DEF PromisesInv
  <2>3. p # <<c, 2>>
    <3> SUFFICES ASSUME p = <<c, 2>>
                 PROVE  FALSE
      OBVIOUS
    <3>1. c = h[1] /\ h[2] = 1
      BY <1>2, <1>4
    <3>2. h \in K0
      BY <1>2, <2>1, <3>1 DEF Waiting
    <3> QED BY <1>12, <1>17, <3>1, <3>2
  <2>4. <<c, 2>> \in Hdl
    BY DEF Hdl
  <2> QED BY <1>15, <2>2, <2>3, <2>4
<1>18. Handled(n, b, P, Q, K, X, w, sock)
  <2>1. \A c \in Conn : promise'[c] # promise[c] => ends[c] # <<>> /\ promise'[c] # "pending"
    BY <1>2, <1>11
  <2>2. Unused(ends, sock, n) \subseteq P /\ Unusable(ends, sock, n) \subseteq Q
    OBVIOUS
  <2> HIDE DEF w, P, Q, K, K0, X, X0, p, ctx
  <2> QED BY <1>1, <1>5, <1>8, <1>10, <1>11, <1>13, <1>15, <1>16, <1>17, <1>14, <2>1, <2>2 DEF Handled
<1> HIDE DEF w, P, Q, K, K0, X, X0, p, ctx
<1>19. /\ BrokersInv' /\ SocketsInv' /\ PromisesInv'
       /\ broker' \in [Node -> BrokerT] /\ wire' \in [Hdl -> Seq(Datagrams)]
       /\ sock' \in [Hdl -> Sockets] /\ ends' = ends
  BY <1>1, <1>2, <1>18, InstallInv
<1> QED BY <1>1, <1>3, <1>11, <1>19 DEF IInv, TypesInv

(* The connection of h is lost: its route and its context go, and a        *)
(* waiting remote_actor gets an error.                                     *)
LEMMA ConnectionClosedInv ==
  ASSUME IInv, NEW h \in Hdl, ConnectionClosed(h)
  PROVE  IInv'
<1> DEFINE n == Owner(h)
           b0 == broker[n]
           b == IF h \in DOMAIN b0.ctx THEN Lost(b0, h) ELSE b0
           s == [sock EXCEPT ![h] = "closed"]
           P == Unused(ends, sock, n)
           Q0 == Unusable(ends, sock, n)
           Q == Q0 \cup {h}
           K0 == Waiting(ends, promise, n)
           K == K0 \ {h}
           X0 == Stranded(ends, sock, n)
           X == Stranded(ends, s, n)
<1>1. /\ sock[h] = "open" /\ Install(n, b, wire, s)
      /\ promise' = erase_context(promise, b0, h)
      /\ UNCHANGED <<ends, broken, dead>>
  BY DEF ConnectionClosed, Lost
<1>2. /\ n \in Node /\ h \notin Foreign(ends, n) /\ h[1] \in Conn /\ h[2] \in {1, 2}
      /\ h = <<h[1], h[2]>> /\ ends[h[1]] # <<>> /\ h \notin Q0
  BY <1>1, OwnerNode
<1>3. TypesInv /\ SocketsInv /\ PromisesInv
  BY DEF IInv
<1>4. Sound(b0, ends, P, Q0, K0, X0) /\ b0.shut = {} /\ P \in SUBSET Q0 /\ b0.sent = [g \in Hdl |-> <<>>]
  BY <1>2, OneBroker
<1> HIDE DEF n
<1>5. h \in K0 => h \in DOMAIN b0.ctx /\ b0.ctx[h].callback
  BY <1>4 DEF Sound, Callbacks
<1>6. /\ wire \in [Hdl -> Seq(Datagrams)] /\ promise \in [Conn -> Promises]
      /\ sock \in [Hdl -> Sockets] /\ s \in [Hdl -> Sockets] /\ s[h] = "closed"
      /\ \A g \in Hdl : g # h => s[g] = sock[g]
      /\ \A g \in Hdl : /\ wire[g] \in Seq(Allowed(ends, g))
                        /\ sock[g] \in {"none", "backlog"} \/ g[1] \in broken => wire[g] = <<>>
  BY <1>3 DEF TypesInv, SocketsInv, Sockets
<1>7. promise' \in [Conn -> Promises]
      /\ \A c \in Conn : promise'[c] # promise[c] => c = h[1] /\ promise'[c] = "error"
  BY <1>1, <1>2, <1>6 DEF erase_context, Promises
<1>8. h \in K0 => promise'[h[1]] = "error"
  BY <1>1, <1>2, <1>5, <1>6 DEF erase_context
<1>9. Sound(b, ends, P, Q, K, X) /\ P \in SUBSET Q
  <2>1. /\ K \in SUBSET K0 /\ Q0 \in SUBSET Q0 /\ P \in SUBSET P /\ h \notin K
        /\ X0 \subseteq X /\ Excused(ends, h, X)
    BY <1>2, <1>6 DEF Stranded, Excused
  <2> HIDE DEF P, Q0, K, K0, X, X0
  <2>2. Sound(b0, ends, P, Q0, K, X)
    BY <1>4, <2>1, Weaken
  <2> HIDE DEF b0
  <2>3. Sound(b, ends, P, Q0, K, X) /\ b.shut = {} /\ h \notin DOMAIN b.byHdl
    <3>1. /\ Sound(Lost(b0, h), ends, P, Q0, K, X) /\ h \notin DOMAIN Lost(b0, h).byHdl
          /\ Lost(b0, h).shut = b0.shut
      BY <1>2, <1>4, <2>1, <2>2, LostSound
    <3>2. h \notin DOMAIN b0.ctx => h \notin DOMAIN b0.byHdl
      BY <2>2 DEF Sound, Direct
    <3> QED BY <1>4, <2>2, <3>1, <3>2
  <2>4. h \notin DOMAIN b.ctx
    <3>1. DOMAIN Lost(b0, h).ctx \subseteq DOMAIN b0.ctx \ {h}
      BY <1>2, <1>4, <2>1, <2>2, LostSound
    <3> QED BY <3>1
  <2> HIDE DEF b
  <2>5. Direct(b, ends, Q)
    BY <2>3 DEF Sound, Direct
  <2>6. Callbacks(b, Q, K)
    BY <2>3, <2>4 DEF Sound, Callbacks
  <2> QED BY <1>4, <2>3, <2>5, <2>6 DEF Sound
<1> HIDE DEF b
<1>10. Waiting(ends, promise', n) \subseteq K
  <2> SUFFICES ASSUME NEW g \in Waiting(ends, promise', n)
               PROVE  g \in K
    OBVIOUS
  <2>1. g \in Hdl \ Foreign(ends, n) /\ g[2] = 1 /\ promise'[g[1]] = "pending" /\ g[1] \in Conn
    BY DEF Waiting, Hdl
  <2>2. promise[g[1]] = "pending"
    BY <1>7, <2>1
  <2>3. g \in K0
    BY <2>1, <2>2 DEF Waiting
  <2>4. g # h
    BY <1>8, <2>1, <2>3
  <2> QED BY <2>3, <2>4
<1>11. ASSUME NEW c \in Conn, promise'[c] = "pending"
       PROVE  /\ s[<<c, 1>>] = "open"
              /\ \/ s[<<c, 2>>] = "backlog" \/ c \in broken
                 \/ wire[<<c, 2>>] # <<>> /\ Head(wire[<<c, 2>>]) = server_handshake(ends[c][2])
                 \/ wire[<<c, 2>>] = <<>> /\ b.sent[<<c, 2>>] = <<server_handshake(ends[c][2])>>
  <2>1. promise[c] = "pending"
    BY <1>7, <1>11
  <2>2. /\ sock[<<c, 1>>] = "open"
        /\ \/ sock[<<c, 2>>] = "backlog" \/ c \in broken
           \/ wire[<<c, 2>>] # <<>> /\ Head(wire[<<c, 2>>]) = server_handshake(ends[c][2])
    BY <1>3, <2>1 DEF PromisesInv
  <2>3. <<c, 1>> \in Hdl /\ <<c, 2>> \in Hdl
    BY DEF Hdl
  <2>4. h # <<c, 1>>
    <3> SUFFICES ASSUME h = <<c, 1>>
                 PROVE  FALSE
      OBVIOUS
    <3>1. c = h[1] /\ h[2] = 1
      OBVIOUS
    <3>2. h \in K0
      BY <1>2, <2>1, <3>1 DEF Waiting
    <3> QED BY <1>8, <1>11, <3>1, <3>2
  <2>5. sock[<<c, 2>>] = "backlog" => s[<<c, 2>>] = "backlog"
    BY <1>1, <1>6, <2>3
  <2> QED BY <1>6, <2>2, <2>3, <2>4, <2>5
<1>12. X \subseteq Stranded(ends, sock', n)
  <2>1. \A g \in Hdl : s[g] = "closed" => sock'[g] = "closed"
    BY <1>1 DEF Install
  <2> QED BY <2>1 DEF Stranded
<1>13. Handled(n, b, P, Q, K, X, wire, s)
  <2>1. \A c \in Conn : promise'[c] # promise[c] => ends[c] # <<>> /\ promise'[c] # "pending"
    BY <1>2, <1>7
  <2>2. Unused(ends, s, n) \subseteq P /\ Unusable(ends, s, n) \subseteq Q
    BY <1>1, <1>6 DEF Unused, Unusable
  <2>3. \A g \in Hdl : s[g] # sock[g] => g \notin Foreign(ends, n) /\ s[g] \in {"open", "closed"}
    BY <1>2, <1>6
  <2> HIDE DEF P, Q, K, K0, X, X0, s
  <2> QED BY <1>1, <1>6, <1>7, <1>9, <1>10, <1>11, <1>12, <2>1, <2>2, <2>3 DEF Handled
<1> HIDE DEF P, Q, K, K0, X, X0, s
<1>14. /\ BrokersInv' /\ SocketsInv' /\ PromisesInv'
       /\ broker' \in [Node -> BrokerT] /\ wire' \in [Hdl -> Seq(Datagrams)]
       /\ sock' \in [Hdl -> Sockets] /\ ends' = ends
  BY <1>1, <1>2, <1>13, InstallInv
<1> QED BY <1>1, <1>3, <1>7, <1>14 DEF IInv, TypesInv

(* A posted erase call takes a proxy away, if it is still there.           *)
LEMMA RunPostedInv ==
  ASSUME IInv, NEW n \in Node, NEW a \in Actor, RunPosted(n, a)
  PROVE  IInv'
<1> DEFINE b0 == broker[n]
           b1 == [b0 EXCEPT !.posted = @ \ {a}]
           b == erase_proxies(b1, {a})
           P == Unused(ends, sock, n)
           Q == Unusable(ends, sock, n)
           K == Waiting(ends, promise, n)
           X == Stranded(ends, sock, n)
<1>1. TypesInv /\ BrokersInv /\ SocketsInv /\ PromisesInv
  BY DEF IInv
<1>2. broker' = [broker EXCEPT ![n] = b] /\ UNCHANGED <<wire, sock, ends, broken, dead, promise>>
  BY DEF RunPosted
<1>3. /\ Sound(b0, ends, P, Q, K, X) /\ b0.shut = {} /\ b0.sent = [h \in Hdl |-> <<>>]
      /\ P \in SUBSET Q /\ b0 \in BrokerT
  BY OneBroker
<1> HIDE DEF b0, P, Q, K, X
<1>4. /\ b1 \in BrokerT /\ b1.byHdl = b0.byHdl /\ b1.byNid = b0.byNid /\ b1.ctx = b0.ctx
      /\ b1.indirect = b0.indirect /\ b1.proxies = b0.proxies /\ b1.out = b0.out
      /\ b1.sent = b0.sent /\ b1.shut = b0.shut
  BY <1>3 DEF BrokerT
<1> HIDE DEF b1
<1>5. Direct(b1, ends, Q) /\ Reach(b1, X) /\ Output(b1, ends, P) /\ Callbacks(b1, Q, K)
  BY <1>3, <1>4 DEF Sound, Direct, Reach, Output, Callbacks, has_route, has_direct
<1>6. Sound(b1, ends, P, Q, K, X)
  BY <1>4, <1>5 DEF Sound
<1>7. Sound(b, ends, P, Q, K, X)
  BY <1>3, <1>6, EraseSound
<1>8. b \in BrokerT /\ b.shut = {} /\ b.sent = [h \in Hdl |-> <<>>]
  BY <1>3, <1>4 DEF erase_proxies, BrokerT
<1> HIDE DEF b
<1>9. broker' \in [Node -> BrokerT]
  BY <1>1, <1>2, <1>8 DEF TypesInv
<1>10. BrokersInv'
  <2> SUFFICES ASSUME NEW k \in Node
               PROVE  /\ Sound(broker'[k], ends, Unused(ends, sock, k),
                               Unusable(ends, sock, k), Waiting(ends, promise, k),
                               Stranded(ends, sock, k))
                      /\ broker'[k].shut = {} /\ broker'[k].sent = [h \in Hdl |-> <<>>]
    BY <1>2 DEF BrokersInv
  <2>1. CASE k = n
    <3>1. broker'[k] = b
      BY <1>1, <1>2, <2>1 DEF TypesInv
    <3> QED BY <1>7, <1>8, <2>1, <3>1 DEF P, Q, K, X
  <2>2. CASE k # n
    <3>1. broker'[k] = broker[k]
      BY <1>1, <1>2, <2>2 DEF TypesInv
    <3> QED BY <1>1, <3>1 DEF BrokersInv
  <2> QED BY <2>1, <2>2
<1>11. SocketsInv' /\ PromisesInv'
  BY <1>1, <1>2 DEF SocketsInv, PromisesInv, server_handshake
<1> QED BY <1>1, <1>2, <1>9, <1>10, <1>11 DEF IInv, TypesInv

LEMMA DieInv ==
  ASSUME IInv, NEW a \in Actor, Die(a)
  PROVE  IInv'
<1>1. TypesInv /\ BrokersInv /\ SocketsInv /\ PromisesInv
  BY DEF IInv
<1>2. dead' \subseteq Actor /\ UNCHANGED <<broker, wire, sock, ends, broken, promise>>
  BY <1>1 DEF Die, TypesInv
<1>3. BrokersInv' /\ SocketsInv' /\ PromisesInv'
  BY <1>1, <1>2 DEF BrokersInv, SocketsInv, PromisesInv, server_handshake
<1> QED BY <1>1, <1>2, <1>3 DEF IInv, TypesInv

LEMMA CutInv ==
  ASSUME IInv, NEW c \in Conn, Cut(c)
  PROVE  IInv'
<1>1. TypesInv /\ BrokersInv /\ SocketsInv /\ PromisesInv
  BY DEF IInv
<1>2. /\ broken' = broken \cup {c} /\ wire' = [h \in Hdl |-> IF h[1] = c THEN <<>> ELSE wire[h]]
      /\ UNCHANGED <<broker, sock, ends, dead, promise>>
  BY DEF Cut
<1>3. BrokersInv'
  BY <1>1, <1>2 DEF BrokersInv
<1>4. wire' \in [Hdl -> Seq(Datagrams)]
  BY <1>1, <1>2 DEF TypesInv
<1>5. SocketsInv'
  <2>1. \A h \in Hdl : /\ wire'[h] \in Seq(Allowed(ends, h))
                       /\ sock[h] \in {"none", "backlog"} \/ h[1] \in broken' => wire'[h] = <<>>
    BY <1>1, <1>2 DEF SocketsInv
  <2> QED BY <1>1, <1>2, <2>1 DEF SocketsInv
<1>6. PromisesInv'
  <2> SUFFICES ASSUME NEW k \in Conn, promise[k] = "pending"
               PROVE  /\ sock[<<k, 1>>] = "open"
                      /\ \/ sock[<<k, 2>>] = "backlog"
                         \/ /\ wire'[<<k, 2>>] # <<>>
                            /\ Head(wire'[<<k, 2>>]) = server_handshake(ends[k][2])
                         \/ k \in broken'
    BY <1>2 DEF PromisesInv, server_handshake
  <2>1. k # c => wire'[<<k, 2>>] = wire[<<k, 2>>]
    BY <1>2 DEF Hdl
  <2> QED BY <1>1, <1>2, <2>1 DEF PromisesInv
<1> QED BY <1>1, <1>2, <1>3, <1>4, <1>5, <1>6 DEF IInv, TypesInv

(* New ends of a connection nobody has used change nothing for a broker.   *)
LEMMA NewEndsSound ==
  ASSUME NEW b, NEW E, NEW E1, NEW Q, NEW P \in SUBSET Q, NEW K, NEW X, NEW c,
         Sound(b, E, P, Q, K, X), \A h \in Hdl : h[1] = c => h \in P,
         \A h \in Hdl : h[1] # c => E1[h[1]] = E[h[1]]
  PROVE  Sound(b, E1, P, Q, K, X)
<1>1. b \in BrokerT /\ b.byHdl \in Maps(Hdl, Node)
  BY DEF Sound, BrokerT
<1>2. DOMAIN b.byHdl \subseteq Hdl
  BY <1>1, MapFacts
<1>3. Direct(b, E1, Q)
  <2>1. \A h \in DOMAIN b.byHdl : E1[h[1]] = E[h[1]]
    BY <1>2 DEF Sound, Direct
  <2> QED BY <2>1 DEF Sound, Direct
<1>4. Output(b, E1, P)
  <2> SUFFICES ASSUME NEW h \in Hdl
               PROVE  /\ b.out[h] \in Seq(Allowed(E1, h)) /\ b.sent[h] \in Seq(Allowed(E1, h))
                      /\ h \in P => b.out[h] = <<>> /\ b.sent[h] = <<>>
    BY DEF Output
  <2>1. /\ b.out[h] \in Seq(Allowed(E, h)) /\ b.sent[h] \in Seq(Allowed(E, h))
        /\ h \in P => b.out[h] = <<>> /\ b.sent[h] = <<>>
    BY DEF Sound, Output
  <2>2. CASE h[1] = c
    BY <2>1, <2>2
  <2>3. CASE h[1] # c
    <3>1. E1[h[1]] = E[h[1]]
      BY <2>3
    <3>2. Allowed(E1, h) = Allowed(E, h)
      BY <3>1 DEF Allowed
    <3> QED BY <2>1, <3>2
  <2> QED BY <2>2, <2>3
<1> QED BY <1>3, <1>4 DEF Sound

(* A handle with a callback and no route may be waited for.                *)
LEMMA MoreWaiting ==
  ASSUME NEW b, NEW E, NEW Q, NEW P \in SUBSET Q, NEW K, NEW X, NEW h, Sound(b, E, P, Q, K, X),
         h \in DOMAIN b.ctx, b.ctx[h].callback, h \notin DOMAIN b.byHdl, h \notin b.shut
  PROVE  Sound(b, E, P, Q, K \cup {h}, X)
<1>1. Callbacks(b, Q, K \cup {h})
  BY DEF Sound, Callbacks
<1> QED BY <1>1 DEF Sound

LEMMA ConnectInv ==
  ASSUME IInv, NEW c \in Conn, NEW n \in Node, NEW m \in Node, Connect(c, n, m)
  PROVE  IInv'
<1> DEFINE h == <<c, 1>>
           g == <<c, 2>>
           v == NewContext(TRUE)
           b0 == broker[n]
           b == [b0 EXCEPT !.ctx = Put(@, h, v)]
<1>1. TypesInv /\ BrokersInv /\ SocketsInv /\ PromisesInv
  BY DEF IInv
<1>2. /\ ends[c] = <<>> /\ ends' = [ends EXCEPT ![c] = <<n, m>>]
      /\ sock' = [sock EXCEPT ![h] = "open", ![g] = "backlog"]
      /\ broker' = [broker EXCEPT ![n] = b]
      /\ promise' = [promise EXCEPT ![c] = "pending"]
      /\ UNCHANGED <<wire, broken, dead>>
  BY DEF Connect
<1>3. h \in Hdl /\ g \in Hdl /\ h[1] = c /\ h[2] = 1 /\ g[1] = c /\ g[2] = 2 /\ h # g
  BY DEF Hdl
<1>4. \A x \in Hdl : x[1] \in Conn /\ (x[1] = c => x \in {h, g})
  BY DEF Hdl
<1> HIDE DEF h, g
<1>5. /\ ends' \in [Conn -> {<<>>} \cup (Node \X Node)] /\ ends'[c] = <<n, m>>
      /\ \A k \in Conn : k # c => ends'[k] = ends[k]
  BY <1>1, <1>2 DEF TypesInv
<1>6. /\ sock' \in [Hdl -> Sockets] /\ sock'[h] = "open" /\ sock'[g] = "backlog"
      /\ \A x \in Hdl : x[1] # c => sock'[x] = sock[x]
  BY <1>1, <1>2, <1>3 DEF TypesInv, Sockets
<1>7. /\ promise' \in [Conn -> Promises] /\ promise'[c] = "pending"
      /\ \A k \in Conn : k # c => promise'[k] = promise[k]
  BY <1>1, <1>2 DEF TypesInv, Promises
<1>8. ASSUME NEW k \in Node
      PROVE  /\ Sound(broker[k], ends', Unused(ends, sock, k), Unusable(ends, sock, k),
                      Waiting(ends, promise, k), Stranded(ends, sock, k))
             /\ Unused(ends, sock, k) \in SUBSET Unusable(ends, sock, k)
             /\ Unused(ends', sock', k) \subseteq Unused(ends, sock, k)
             /\ Unusable(ends', sock', k) \subseteq Unusable(ends, sock, k)
             /\ Stranded(ends, sock, k) \subseteq Stranded(ends', sock', k)
             /\ Waiting(ends', promise', k) \subseteq Waiting(ends, promise, k) \cup (IF k = n THEN {h} ELSE {})
  <2>1. /\ Sound(broker[k], ends, Unused(ends, sock, k), Unusable(ends, sock, k),
                 Waiting(ends, promise, k), Stranded(ends, sock, k))
        /\ Unused(ends, sock, k) \in SUBSET Unusable(ends, sock, k)
    BY OneBroker
  <2>2. \A x \in Hdl : x[1] = c => x \in Unused(ends, sock, k)
    BY <1>2 DEF Unused, Foreign
  <2>3. \A x \in Hdl : x[1] # c => ends'[x[1]] = ends[x[1]]
    BY <1>4, <1>5
  <2>4. Sound(broker[k], ends', Unused(ends, sock, k), Unusable(ends, sock, k),
              Waiting(ends, promise, k), Stranded(ends, sock, k))
    <3> DEFINE P == Unused(ends, sock, k)
               Q == Unusable(ends, sock, k)
               K == Waiting(ends, promise, k)
               X == Stranded(ends, sock, k)
    <3>1. Sound(broker[k], ends, P, Q, K, X) /\ P \in SUBSET Q /\ \A x \in Hdl : x[1] = c => x \in P
      BY <2>1, <2>2
    <3> HIDE DEF P, Q, K, X
    <3>2. Sound(broker[k], ends', P, Q, K, X)
      BY <2>3, <3>1, NewEndsSound
    <3> QED BY <3>2 DEF P, Q, K, X
  <2>5. Unused(ends', sock', k) \subseteq Unused(ends, sock, k)
    BY <1>6, <2>2, <2>3 DEF Unused, Foreign
  <2>6. Unusable(ends', sock', k) \subseteq Unusable(ends, sock, k)
    BY <1>2, <1>6, <2>3 DEF Unusable, Foreign
  <2>7. Waiting(ends', promise', k) \subseteq Waiting(ends, promise, k) \cup (IF k = n THEN {h} ELSE {})
    <3> SUFFICES ASSUME NEW x \in Waiting(ends', promise', k)
                 PROVE  x \in Waiting(ends, promise, k) \/ (k = n /\ x = h)
      OBVIOUS
    <3>1. x \in Hdl /\ x \notin Foreign(ends', k) /\ x[2] = 1 /\ promise'[x[1]] = "pending"
      BY DEF Waiting
    <3>2. CASE x[1] = c
      <4>1. x = h
        BY <1>3, <1>4, <3>1, <3>2
      <4>2. ends'[c][1] = k
        BY <1>3, <3>1, <4>1 DEF Foreign
      <4> QED BY <1>5, <4>1, <4>2
    <3>3. CASE x[1] # c
      BY <1>4, <1>5, <1>7, <3>1, <3>3 DEF Waiting, Foreign
    <3> QED BY <3>2, <3>3
  <2>8. Stranded(ends, sock, k) \subseteq Stranded(ends', sock', k)
    <3>1. \A x \in Hdl : x \notin Foreign(ends, k) => x[1] # c
      BY <1>2 DEF Foreign
    <3> QED BY <1>6, <2>3, <3>1 DEF Stranded, Foreign
  <2> QED BY <2>1, <2>4, <2>5, <2>6, <2>7, <2>8
<1>9. /\ Sound(b, ends', Unused(ends', sock', n), Unusable(ends', sock', n), Waiting(ends', promise', n),
               Stranded(ends', sock', n))
      /\ b \in BrokerT /\ b.shut = {} /\ b.sent = [x \in Hdl |-> <<>>]
  <2> DEFINE P == Unused(ends', sock', n)
             Q == Unusable(ends', sock', n)
             K == Waiting(ends, promise, n)
             K1 == Waiting(ends', promise', n)
             X0 == Stranded(ends, sock, n)
             X == Stranded(ends', sock', n)
  <2>1. P \in SUBSET Q /\ h \notin Q
    BY <1>3, <1>5, <1>6 DEF Unused, Unusable, Foreign
  <2>2. h \in Unusable(ends, sock, n)
    BY <1>2, <1>3 DEF Unusable, Foreign
  <2>3. /\ b0.shut = {} /\ b0.sent = [x \in Hdl |-> <<>>] /\ b0 \in BrokerT
    BY OneBroker
  <2>4. h \notin DOMAIN b0.byHdl /\ h \notin DOMAIN b0.ctx /\ h \notin K
    BY <1>8, <2>2 DEF Sound, Direct, Callbacks
  <2>5. K1 \subseteq K \cup {h}
    BY <1>8
  <2>6. Sound(b0, ends', P, Q, K, X)
    <3>1. /\ Unused(ends, sock, n) \in SUBSET Unusable(ends, sock, n)
          /\ P \in SUBSET Unused(ends, sock, n) /\ Q \in SUBSET Unusable(ends, sock, n)
          /\ K \in SUBSET K /\ X0 \subseteq X
      BY <1>8
    <3>2. Sound(b0, ends', Unused(ends, sock, n), Unusable(ends, sock, n), K, X0)
      BY <1>8
    <3> HIDE DEF P, Q, K, X, X0, b0
    <3> QED BY <3>1, <3>2, Weaken
  <2> HIDE DEF P, Q, K, K1, X, X0, b0
  <2>7. v \in Contexts /\ v.callback
    BY DEF NewContext, Contexts
  <2> HIDE DEF v
  <2>8. Sound(b, ends', P, Q, K, X) /\ b.shut = b0.shut /\ h \in DOMAIN b.ctx /\ b.ctx[h] = v
    <3>1. h \notin b0.shut /\ (h \in K => v.callback)
      BY <2>3, <2>7
    <3> DEFINE E == ends'
    <3>2. Sound(b0, E, P, Q, K, X)
      BY <2>6
    <3> HIDE DEF E
    <3>3. h \in Hdl /\ v \in Contexts /\ h \notin Q /\ P \in SUBSET Q
      BY <1>3, <2>1, <2>7
    <3> HIDE DEF b
    <3>4. Sound([b0 EXCEPT !.ctx = Put(@, h, v)], E, P, Q, K, X)
      BY <3>1, <3>2, <3>3, ContextSound
    <3>5. b.shut = b0.shut /\ b.ctx = Put(b0.ctx, h, v)
      BY <2>3 DEF b, BrokerT
    <3>6. h \in DOMAIN b.ctx /\ b.ctx[h] = v
      BY <3>5 DEF Put
    <3> QED BY <3>4, <3>5, <3>6 DEF E, b
  <2>9. b.byHdl = b0.byHdl /\ b.sent = b0.sent
    BY <2>3 DEF BrokerT
  <2> HIDE DEF b
  <2>10. Sound(b, ends', P, Q, K \cup {h}, X)
    <3>1. h \notin DOMAIN b.byHdl /\ h \notin b.shut /\ b.ctx[h].callback
      BY <2>3, <2>4, <2>7, <2>8, <2>9
    <3> QED BY <2>1, <2>8, <3>1, MoreWaiting
  <2>11. Sound(b, ends', P, Q, K1, X)
    <3>1. /\ P \in SUBSET P /\ Q \in SUBSET Q /\ K1 \in SUBSET (K \cup {h})
          /\ X \subseteq X
      BY <2>5
    <3> QED BY <2>1, <2>10, <3>1, Weaken
  <2>12. b \in BrokerT
    BY <2>11 DEF Sound
  <2> QED BY <2>3, <2>8, <2>9, <2>11, <2>12 DEF P, Q, K1, X
<1> HIDE DEF b, b0, v
<1>10. broker' \in [Node -> BrokerT]
  BY <1>1, <1>2, <1>9 DEF TypesInv
<1>11. BrokersInv'
  <2> SUFFICES ASSUME NEW k \in Node
               PROVE  /\ Sound(broker'[k], ends', Unused(ends', sock', k),
                               Unusable(ends', sock', k), Waiting(ends', promise', k),
                               Stranded(ends', sock', k))
                      /\ broker'[k].shut = {} /\ broker'[k].sent = [x \in Hdl |-> <<>>]
    BY DEF BrokersInv
  <2>1. CASE k = n
    <3>1. broker'[k] = b
      BY <1>1, <1>2, <2>1 DEF TypesInv
    <3> QED BY <1>9, <2>1, <3>1
  <2>2. CASE k # n
    <3>1. broker'[k] = broker[k]
      BY <1>1, <1>2, <2>2 DEF TypesInv
    <3>2. broker[k].shut = {} /\ broker[k].sent = [x \in Hdl |-> <<>>]
      BY <1>1 DEF BrokersInv
    <3> DEFINE x == broker[k]
               Q == Unusable(ends, sock, k)
               P == Unused(ends, sock, k)
               K == Waiting(ends, promise, k)
               X == Stranded(ends, sock, k)
    <3>3. /\ Sound(x, ends', P, Q, K, X) /\ P \in SUBSET Q
          /\ Unused(ends', sock', k) \in SUBSET P /\ Unusable(ends', sock', k) \in SUBSET Q
          /\ Waiting(ends', promise', k) \in SUBSET K
          /\ X \subseteq Stranded(ends', sock', k)
      BY <1>8, <2>2
    <3> HIDE DEF x, P, Q, K, X
    <3>4. Sound(x, ends', Unused(ends', sock', k), Unusable(ends', sock', k),
                Waiting(ends', promise', k), Stranded(ends', sock', k))
      BY <3>3, Weaken
    <3> QED BY <3>1, <3>2, <3>4 DEF x
  <2> QED BY <2>1, <2>2
<1>12. wire[h] = <<>> /\ wire[g] = <<>>
  <2>1. sock[h] = "none" /\ sock[g] = "none"
    BY <1>1, <1>2 DEF SocketsInv, h, g
  <2> QED BY <1>1, <1>3, <2>1 DEF SocketsInv
<1>13. SocketsInv'
  <2>1. ASSUME NEW k \in Conn
        PROVE  IF ends'[k] = <<>>
               THEN sock'[<<k, 1>>] = "none" /\ sock'[<<k, 2>>] = "none" /\ promise'[k] = "none"
               ELSE sock'[<<k, 1>>] \in {"open", "closed"} /\ sock'[<<k, 2>>] # "none"
    <3>1. CASE k = c
      BY <1>5, <1>6, <3>1 DEF h, g
    <3>2. CASE k # c
      <4>1. /\ sock'[<<k, 1>>] = sock[<<k, 1>>] /\ sock'[<<k, 2>>] = sock[<<k, 2>>]
            /\ ends'[k] = ends[k] /\ promise'[k] = promise[k]
        BY <1>5, <1>6, <1>7, <3>2 DEF Hdl
      <4> QED BY <1>1, <4>1 DEF SocketsInv
    <3> QED BY <3>1, <3>2
  <2>2. ASSUME NEW x \in Hdl
        PROVE  /\ wire[x] \in Seq(Allowed(ends', x))
               /\ sock'[x] \in {"none", "backlog"} \/ x[1] \in broken => wire[x] = <<>>
    <3>1. CASE x[1] = c
      <4>1. wire[x] = <<>>
        BY <1>4, <1>12, <3>1
      <4> DEFINE S == Allowed(ends', x)
      <4> HIDE DEF S
      <4>2. wire[x] \in Seq(S)
        BY <4>1
      <4> QED BY <4>1, <4>2 DEF S
    <3>2. CASE x[1] # c
      <4>1. ends'[x[1]] = ends[x[1]] /\ sock'[x] = sock[x]
        BY <1>4, <1>5, <1>6, <3>2
      <4>2. Allowed(ends', x) = Allowed(ends, x)
        BY <4>1 DEF Allowed
      <4> QED BY <1>1, <4>1, <4>2 DEF SocketsInv
    <3> QED BY <3>1, <3>2
  <2> QED BY <1>2, <2>1, <2>2 DEF SocketsInv
<1>14. PromisesInv'
  <2> SUFFICES ASSUME NEW k \in Conn, promise'[k] = "pending"
               PROVE  /\ sock'[<<k, 1>>] = "open"
                      /\ \/ sock'[<<k, 2>>] = "backlog"
                         \/ /\ wire[<<k, 2>>] # <<>>
                            /\ Head(wire[<<k, 2>>]) = server_handshake(ends'[k][2])
                         \/ k \in broken
    BY <1>2 DEF PromisesInv, server_handshake
  <2>1. CASE k = c
    BY <1>6, <2>1 DEF h, g
  <2>2. CASE k # c
    <3>1. /\ sock'[<<k, 1>>] = sock[<<k, 1>>] /\ sock'[<<k, 2>>] = sock[<<k, 2>>]
          /\ ends'[k] = ends[k] /\ promise'[k] = promise[k]
      BY <1>5, <1>6, <1>7, <2>2 DEF Hdl
    <3> QED BY <1>1, <3>1 DEF PromisesInv
  <2> QED BY <2>1, <2>2
<1> QED BY <1>1, <1>2, <1>5, <1>6, <1>7, <1>10, <1>11, <1>13, <1>14 DEF IInv, TypesInv
-----------------------------------------------------------------------------
(* The theorems                                                            *)

(* A broker that has just been created is sound: its tables, buffers and   *)
(* contexts are empty and no connection has been dialled.                  *)
LEMMA InitInv ==
  ASSUME Init
  PROVE  IInv
<1>1. /\ ends = [c \in Conn |-> <<>>] /\ sock = [h \in Hdl |-> "none"]
      /\ wire = [h \in Hdl |-> <<>>] /\ promise = [c \in Conn |-> "none"]
      /\ broker = [n \in Node |-> NewBroker] /\ dead = {}
  BY DEF Init
<1>2. NewBroker \in BrokerT
  <2>1. ASSUME NEW S, NEW T
        PROVE  EmptyMap \in Maps(S, T)
    <3>1. EmptyMap \in [{} -> T] /\ {} \in SUBSET S
      BY DEF EmptyMap
    <3> QED BY <3>1 DEF Maps
  <2>2. [h \in Hdl |-> <<>>] \in [Hdl -> Seq(Datagrams)]
    OBVIOUS
  <2> HIDE DEF EmptyMap
  <2> QED BY <2>1, <2>2 DEF NewBroker, BrokerT
<1>3. /\ DOMAIN NewBroker.byHdl = {} /\ DOMAIN NewBroker.byNid = {} /\ DOMAIN NewBroker.ctx = {}
      /\ DOMAIN NewBroker.indirect = {} /\ NewBroker.proxies = {} /\ NewBroker.shut = {}
      /\ NewBroker.out = [h \in Hdl |-> <<>>] /\ NewBroker.sent = [h \in Hdl |-> <<>>]
  BY DEF NewBroker, EmptyMap
<1> HIDE DEF NewBroker
<1>4. TypesInv
  BY <1>1, <1>2 DEF TypesInv, Sockets, Promises
<1>5. BrokersInv
  <2> SUFFICES ASSUME NEW n \in Node
               PROVE  Sound(NewBroker, ends, Unused(ends, sock, n), Unusable(ends, sock, n),
                            Waiting(ends, promise, n), Stranded(ends, sock, n))
    BY <1>1, <1>3 DEF BrokersInv
  <2>1. Waiting(ends, promise, n) = {}
    BY <1>1 DEF Waiting, Hdl
  <2>2. Direct(NewBroker, ends, Unusable(ends, sock, n)) /\ Reach(NewBroker, Stranded(ends, sock, n))
    BY <1>3 DEF Direct, Reach
  <2>3. Output(NewBroker, ends, Unused(ends, sock, n))
    BY <1>3 DEF Output
  <2>4. Callbacks(NewBroker, Unusable(ends, sock, n), Waiting(ends, promise, n))
    BY <1>3, <2>1 DEF Callbacks
  <2> QED BY <1>2, <2>2, <2>3, <2>4 DEF Sound
<1>6. SocketsInv
  BY <1>1 DEF SocketsInv, Hdl
<1>7. PromisesInv
  BY <1>1 DEF PromisesInv
<1> QED BY <1>4, <1>5, <1>6, <1>7 DEF IInv

(* Every handler of every broker, and every fault, preserves the invariant.*)
LEMMA NextInv ==
  ASSUME IInv, [Next]_vars
  PROVE  IInv'
<1>1. CASE \E c \in Conn, n, m \in Node : Connect(c, n, m)
  BY <1>1, ConnectInv
<1>2. CASE \E h \in Hdl : Accept(h)
  BY <1>2, AcceptInv
<1>3. CASE \E h \in Hdl : ReadHeader(h)
  BY <1>3, ReadHeaderInv
<1>4. CASE \E h \in Hdl : ReadDatagram(h)
  BY <1>4, ReadDatagramInv
<1>5. CASE \E h \in Hdl : ConnectionClosed(h)
  BY <1>5, ConnectionClosedInv
<1>6. CASE \E n \in Node, a \in Actor : RunPosted(n, a)
  BY <1>6, RunPostedInv
<1>7. CASE \E a \in Actor : Die(a)
  BY <1>7, DieInv
<1>8. CASE \E a \in Actor, m \in Node : SendKill(a, m)
  BY <1>8, SendKillInv
<1>9. CASE \E n \in Node, a, to \in Actor, ref \in Actor \cup {NoActor} : Forward(n, a, to, ref)
  BY <1>9, ForwardInv
<1>10. CASE \E c \in Conn : Cut(c)
  BY <1>10, CutInv
<1>11. CASE UNCHANGED vars
  <2>1. UNCHANGED <<ends, sock, promise, wire, broker, dead, broken>>
    BY <1>11 DEF vars
  <2> QED BY <2>1 DEF IInv, TypesInv, BrokersInv, SocketsInv, PromisesInv, server_handshake
<1> QED BY <1>1, <1>2, <1>3, <1>4, <1>5, <1>6, <1>7, <1>8, <1>9, <1>10, <1>11 DEF Next

(* The invariant: in every reachable state each broker is sound, sockets   *)
(* and wires fit together, and a waiting remote_actor has a handshake or a *)
(* loss coming.                                                            *)
THEOREM Invariance == Spec => []IInv
<1>1. Init => IInv
  BY InitInv
<1>2. IInv /\ [Next]_vars => IInv'
  BY NextInv
<1> QED BY <1>1, <1>2, PTL DEF Spec

(* The routing table of a BASP broker never disagrees with the sockets:    *)
(* routing_table::add_direct, erase and erase_indirect keep the two direct *)
(* maps inverse to each other, every direct route has an open scribe and a *)
(* connection context, and no destination is both direct and indirect.     *)
THEOREM RoutesBackedThm == Spec => []RoutesBacked
<1>1. IInv => RoutesBacked
  <2> SUFFICES ASSUME IInv, NEW n \in Node
               PROVE  LET b == broker[n]
                      IN /\ \A h \in DOMAIN b.byHdl :
                              /\ b.byHdl[h] \in DOMAIN b.byNid /\ b.byNid[b.byHdl[h]] = h
                              /\ sock[h] = "open" /\ h \in DOMAIN b.ctx
                         /\ \A m \in DOMAIN b.byNid : b.byNid[m] \in DOMAIN b.byHdl
                         /\ DOMAIN b.byNid \cap DOMAIN b.indirect = {}
    BY DEF RoutesBacked
  <2> DEFINE b == broker[n]
             P == Unused(ends, sock, n)
             Q == Unusable(ends, sock, n)
             K == Waiting(ends, promise, n)
             X == Stranded(ends, sock, n)
  <2>1. Sound(b, ends, P, Q, K, X)
    BY OneBroker
  <2>2. \A h \in Hdl : h \notin Q => sock[h] = "open"
    BY DEF Unusable
  <2> HIDE DEF b, P, Q, K, X
  <2>3. DOMAIN b.byHdl \subseteq Hdl
    BY <2>1, MapFacts DEF Sound, BrokerT
  <2>4. Direct(b, ends, Q)
    BY <2>1 DEF Sound
  <2> QED BY <2>2, <2>3, <2>4 DEF Direct, b
<1> QED BY <1>1, Invariance, PTL

(* A proxy stands for an actor of a node with a usable route, through      *)
(* every handshake, purge_state and posted erase: make_proxy asks for the  *)
(* route before it creates a proxy, lookup never drops a usable hop, and a *)
(* direct route is only removed together with the proxies of its node.     *)
(* What routing_table::erase does not do is purge the proxies behind the   *)
(* lost node, so a route may be missing once such a node was lost.         *)
THEOREM ProxiesRoutedThm == Spec => []ProxiesRouted
<1>1. IInv => ProxiesRouted
  <2> SUFFICES ASSUME IInv, NEW n \in Node, NEW a \in broker[n].proxies
               PROVE  \/ has_route(broker[n], Home[a])
                      \/ Home[a] \in DOMAIN broker[n].indirect /\ LostHop(n, Home[a])
    BY DEF ProxiesRouted
  <2>1. \/ has_route(broker[n], Home[a])
        \/ Home[a] \in DOMAIN broker[n].indirect \cap Stranded(ends, sock, n)
    BY OneBroker DEF Sound, Reach
  <2>2. ASSUME Home[a] \in Stranded(ends, sock, n)
        PROVE  LostHop(n, Home[a])
    <3>1. PICK h \in Hdl : /\ h \notin Foreign(ends, n) /\ sock[h] = "closed"
                          /\ ends[h[1]][3 - h[2]] # Home[a]
      BY <2>2 DEF Stranded
    <3>2. Owner(h) = n /\ ends[h[1]] # <<>> /\ Owner(Peer(h)) = ends[h[1]][3 - h[2]]
      BY <3>1 DEF Foreign, Owner, Peer
    <3> QED BY <3>1, <3>2 DEF LostHop
  <2> QED BY <2>1, <2>2
<1> QED BY <1>1, Invariance, PTL

(* No remote_actor is left waiting when the I/O loops have nothing to do:  *)
(* the context that holds its promise is only erased or completed by a     *)
(* handler that answers it.                                                *)
THEOREM ConnectAnsweredThm == Spec => []ConnectAnswered
<1>1. IInv => ConnectAnswered
  <2> SUFFICES ASSUME IInv, Quiet, NEW c \in Conn, promise[c] = "pending"
               PROVE  FALSE
    BY DEF ConnectAnswered
  <2> DEFINE h == <<c, 1>>
             g == <<c, 2>>
  <2>1. h \in Hdl /\ g \in Hdl /\ Peer(h) = g /\ h[1] = c
    BY DEF Hdl, Peer
  <2>2. /\ sock[h] = "open"
        /\ sock[g] = "backlog" \/ wire[g] # <<>> \/ c \in broken
    BY DEF IInv, PromisesInv
  <2> QED BY <2>1, <2>2 DEF Quiet
<1> QED BY <1>1, Invariance, PTL
=============================================================================
