---------------------------- MODULE BrokerProofs ----------------------------
(***************************************************************************)
(* Proofs about Broker, for any number of connections, ports and actors    *)
(* and any amount of traffic: what is written leaves in order and          *)
(* complete, what arrives is handed to the broker in order, and a          *)
(* published actor has a doorman that accepts.                             *)
(*                                                                         *)
(* The broker goes through its cache in a recursive function; what it      *)
(* computes is shown by taking the least position at which a claim fails.  *)
(***************************************************************************)
EXTENDS Broker, SequenceTheorems, WellFoundedInduction, TLAPS

Stages == {"none", "unassigned", "accepting", "attached", "detached"}

(* The stages before the broker knows a connection                         *)
Early == {"none", "unassigned", "accepting"}

Progress == {"idle", "pending", "ready", "failed"}

ScribeT ==
  [st : Stages, launched : BOOLEAN, flag : {"exactly", "at_most", "at_least"},
   size : Nat, op : {"idle", "exactly", "some", "collect"}, rd : Progress,
   cap : Nat, rbuf : Seq(Nat), msg : BOOLEAN, wr : Progress, wr_buf : Seq(Nat),
   wr_offline : Seq(Nat), flushed : Nat, written : Nat, shut : BOOLEAN,
   broken : BOOLEAN, net : Seq(Nat), sent : Nat, out : Seq(Nat), seen : Seq(Nat)]

DoormanT ==
  [st : Stages, acc : Progress, conn : Conns \cup {None}, msg : BOOLEAN, failed : BOOLEAN]

MessageT ==
  [kind : {"data"}, c : Conns, bytes : Seq(Nat)] \cup [kind : {"closed", "accepted"}, c : Conns]

BrokerT ==
  [alive : BOOLEAN, awaiting : BOOLEAN, cache : Seq(MessageT), crashed : BOOLEAN,
   conn : [Conns -> ScribeT], door : [Ports -> DoormanT],
   published : [Ports -> Actors \cup {None}]]

TaskT ==
  [op : {"connect"}, p : Conns, whom : {None}]
    \cup [op : {"publish", "unpublish", "close"}, p : Ports, whom : Actors \cup {None}]

(* Bytes read from the socket and not handed to the broker yet             *)
Reading(s) == IF s.rd # "idle" THEN s.rbuf ELSE <<>>

(* Unless the connection is broken, the bytes written are those that left, *)
(* those of the write in progress and the buffered ones, in this order;    *)
(* bytes that were flushed have left or a write is in progress.            *)
InFlight(s) == IF s.wr = "pending" THEN s.wr_buf ELSE <<>>

OutputOK(s) ==
  /\ s.flushed <= s.written
  /\ s.wr = "failed" => s.broken
  /\ ~s.broken => s.out \o InFlight(s) \o s.wr_offline = Bytes(s.written)
  /\ ~s.broken /\ Len(s.out) < s.flushed => s.wr # "idle"

(* A scribe that was not launched does not read.                           *)
Started(s) == ~s.launched => s.rd = "idle"

(* Nothing arrives before the broker knows the connection.                 *)
Untouched(s) == s.rd = "idle" /\ s.seen = <<>> /\ s.net = <<>> /\ s.sent = 0

AllSkipped(q, c) == Skipped(q, c)[Len(q)]

(* What arrived on c has been seen, is in the cache, is being read or is   *)
(* still in the socket, in this order.                                     *)
InputOK(x, c) ==
  LET s == x.conn[c]
  IN /\ s.st = "attached" =>
          s.seen \o AllSkipped(x.cache, c) \o Reading(s) \o s.net = Bytes(s.sent)
     /\ s.st \in Early => Untouched(s) /\ AllSkipped(x.cache, c) = <<>>

ConnsInv(x) == \A c \in Conns : OutputOK(x.conn[c]) /\ Started(x.conn[c]) /\ InputOK(x, c)

(* Only a broker that awaits a response has a cache.                       *)
CacheInv(x) ==
  /\ ~x.awaiting => x.cache = <<>>
  /\ \A i \in 1 .. Len(x.cache) :
       x.cache[i].kind = "data" => x.conn[x.cache[i].c].st \notin Early

(* A completed accept has a connection of its own that nobody knows yet;   *)
(* the doorman of a published actor accepts or its acceptor failed.        *)
DoorsInv(x) ==
  /\ \A p \in Ports :
       LET d == x.door[p]
       IN /\ d.acc = "ready" => d.conn \in Conns /\ x.conn[d.conn].st = "accepting"
          /\ x.alive /\ x.published[p] # None =>
               /\ d.st = "attached" \/ d.failed
               /\ d.acc \in {"idle", "failed"} => d.failed
  /\ \A p, q \in Ports :
       p # q /\ x.door[p].acc = "ready" /\ x.door[q].acc = "ready" => x.door[p].conn # x.door[q].conn

(* The connection of a posted connect waits for it alone.                  *)
TasksInv ==
  /\ \A i \in 1 .. Len(posted) :
       posted[i].op = "connect" => w.conn[posted[i].p].st = "unassigned"
  /\ \A i, j \in 1 .. Len(posted) :
       i # j /\ posted[i].op = "connect" /\ posted[j].op = "connect" => posted[i].p # posted[j].p

IInv ==
  /\ w \in BrokerT /\ posted \in Seq(TaskT)
  /\ ConnsInv(w) /\ CacheInv(w) /\ DoorsInv(w) /\ TasksInv

(* What the broker does with connections it knows: it hands nothing over,  *)
(* may start to read, may write and may give connections up; a broker that *)
(* ends gives everything up.                                               *)
CalmScribe(s, t) ==
  /\ t \in ScribeT
  /\ t.seen = s.seen /\ t.net = s.net /\ t.sent = s.sent /\ t.broken = s.broken
  /\ t.st = s.st \/ (s.st = "attached" /\ t.st = "detached")
  /\ s.launched => t.launched
  /\ s.st # "attached" => t.rd = s.rd
  /\ Started(s) => Started(t) /\ Reading(t) = Reading(s)
  /\ OutputOK(s) => OutputOK(t)

ClosedDoor(d, e) ==
  /\ d.st = "attached" /\ e.st = "detached" /\ e.acc = Abort(d.acc)
  /\ e.conn = d.conn /\ e.failed = d.failed

Calm(x, y) ==
  /\ y \in BrokerT
  /\ \A c \in Conns : CalmScribe(x.conn[c], y.conn[c])
  /\ \A p \in Ports : y.door[p] = x.door[p] \/ (~y.alive /\ ClosedDoor(x.door[p], y.door[p]))
  /\ y.published = x.published /\ y.crashed = x.crashed
  /\ y.alive => x.alive
  /\ \/ y.cache = x.cache /\ y.alive = x.alive /\ (x.awaiting => y.awaiting)
     \/ y.cache = <<>> /\ ~y.alive /\ \A c \in Conns : y.conn[c].st # "attached"
-----------------------------------------------------------------------------
(* Sequences of bytes                                                      *)

(* The first n bytes                                                       *)
LEMMA BytesFacts ==
  ASSUME NEW n \in Nat
  PROVE  /\ Bytes(n) \in Seq(Nat) /\ Len(Bytes(n)) = n
         /\ Bytes(n + 1) = Append(Bytes(n), n + 1)
         /\ Bytes(0) = <<>>
<1>1. /\ Bytes(n) \in Seq(Nat) /\ Len(Bytes(n)) = n
      /\ Bytes(n + 1) \in Seq(Nat) /\ Len(Bytes(n + 1)) = n + 1
  BY DEF Bytes
<1>2. Append(Bytes(n), n + 1) \in Seq(Nat) /\ Len(Append(Bytes(n), n + 1)) = n + 1
  BY <1>1
<1>3. \A i \in 1 .. n + 1 : Bytes(n + 1)[i] = Append(Bytes(n), n + 1)[i]
  BY <1>1 DEF Bytes
<1>4. Bytes(n + 1) = Append(Bytes(n), n + 1)
  BY <1>1, <1>2, <1>3, SeqEqual
<1>5. Bytes(0) = <<>>
  BY DEF Bytes
<1> QED BY <1>1, <1>4, <1>5

(* Appending to a concatenation                                            *)
LEMMA AppendLast ==
  ASSUME NEW q \in Seq(Nat), NEW r \in Seq(Nat), NEW e \in Nat
  PROVE  q \o Append(r, e) = Append(q \o r, e)
<1>1. q \o Append(r, e) \in Seq(Nat) /\ Append(q \o r, e) \in Seq(Nat)
  OBVIOUS
<1>2. Len(q \o Append(r, e)) = Len(q) + Len(r) + 1 /\ Len(Append(q \o r, e)) = Len(q) + Len(r) + 1
  OBVIOUS
<1>3. \A i \in 1 .. Len(q) + Len(r) + 1 : (q \o Append(r, e))[i] = Append(q \o r, e)[i]
  OBVIOUS
<1> QED BY <1>1, <1>2, <1>3, SeqEqual

(* Concatenation of bytes is associative.                                  *)
LEMMA BytesAssociative ==
  ASSUME NEW a \in Seq(Nat), NEW b \in Seq(Nat), NEW d \in Seq(Nat)
  PROVE  (a \o b) \o d = a \o (b \o d)
<1>1. (a \o b) \o d \in Seq(Nat) /\ a \o (b \o d) \in Seq(Nat)
  OBVIOUS
<1>2. Len((a \o b) \o d) = Len(a) + Len(b) + Len(d) /\ Len(a \o (b \o d)) = Len(a) + Len(b) + Len(d)
  OBVIOUS
<1>3. \A i \in 1 .. Len(a) + Len(b) + Len(d) : ((a \o b) \o d)[i] = (a \o (b \o d))[i]
  OBVIOUS
<1> QED BY <1>1, <1>2, <1>3, SeqEqual

(* A queue of bytes of which the first n go to another one                 *)
LEMMA SplitQueue ==
  ASSUME NEW S, NEW q \in Seq(S), NEW n \in 0 .. Len(q)
  PROVE  /\ SubSeq(q, 1, n) \in Seq(S) /\ SubSeq(q, n + 1, Len(q)) \in Seq(S)
         /\ SubSeq(q, 1, n) \o SubSeq(q, n + 1, Len(q)) = q
<1>1. Len(q) \in Nat /\ 1 \in 1 .. Len(q) + 1 /\ n \in 1 - 1 .. Len(q) /\ Len(q) \in n .. Len(q)
  OBVIOUS
<1>2. SubSeq(q, 1, n) \o SubSeq(q, n + 1, Len(q)) = SubSeq(q, 1, Len(q))
  BY <1>1, ConcatAdjacentSubSeq
<1>3. SubSeq(q, 1, Len(q)) = q
  BY SubSeqFull
<1>4. SubSeq(q, 1, n) \in Seq(S) /\ SubSeq(q, n + 1, Len(q)) \in Seq(S)
  OBVIOUS
<1> QED BY <1>2, <1>3, <1>4

(* A non-empty set of natural numbers has a least element.                 *)
LEMMA LeastExists ==
  ASSUME NEW T \in SUBSET Nat, T # {}
  PROVE  \E x \in T : \A y \in T : x <= y
<1>1. PICK x \in T : \A y \in T : ~ (<<y, x>> \in OpToRel(<, Nat))
  BY NatLessThanWellFounded, WFMin
<1>2. ASSUME NEW y \in T PROVE x <= y
  <2>1. x \in Nat /\ y \in Nat
    OBVIOUS
  <2>2. ~ (y < x)
    BY <1>1, <2>1 DEF OpToRel
  <2> QED BY <2>1, <2>2
<1> QED BY <1>2
-----------------------------------------------------------------------------
(* What the operators do to one connection                                 *)

(* A calm change of one connection is a calm change of the broker.         *)
LEMMA OneScribe ==
  ASSUME NEW x \in BrokerT, NEW c \in Conns, NEW t, CalmScribe(x.conn[c], t)
  PROVE  Calm(x, [x EXCEPT !.conn = [x.conn EXCEPT ![c] = t]])
<1> DEFINE f == [x.conn EXCEPT ![c] = t]
           y == [x EXCEPT !.conn = f]
<1>1. x.conn \in [Conns -> ScribeT] /\ t \in ScribeT
  BY DEF BrokerT, CalmScribe
<1>2. f \in [Conns -> ScribeT] /\ f[c] = t /\ \A d \in Conns : d # c => f[d] = x.conn[d]
  BY <1>1
<1> HIDE DEF f
<1>3. /\ y \in BrokerT /\ y.conn = f /\ y.door = x.door /\ y.published = x.published
      /\ y.crashed = x.crashed /\ y.alive = x.alive /\ y.cache = x.cache
      /\ y.awaiting = x.awaiting
  BY <1>2 DEF BrokerT
<1>4. \A d \in Conns : CalmScribe(x.conn[d], f[d])
  <2> SUFFICES ASSUME NEW d \in Conns PROVE CalmScribe(x.conn[d], f[d])
    OBVIOUS
  <2>1. CASE d = c
    BY <1>2, <2>1
  <2>2. CASE d # c
    BY <1>1, <1>2, <2>2 DEF CalmScribe
  <2> QED BY <2>1, <2>2
<1> HIDE DEF y
<1>5. Calm(x, y)
  BY <1>3, <1>4 DEF Calm
<1> QED BY <1>5 DEF y, f

(* Doing nothing is calm.                                                  *)
LEMMA CalmRefl ==
  ASSUME NEW x \in BrokerT
  PROVE  Calm(x, x)
<1>1. \A c \in Conns : CalmScribe(x.conn[c], x.conn[c])
  BY DEF BrokerT, CalmScribe
<1> QED BY <1>1 DEF Calm

(* Two calm changes are one.                                               *)
LEMMA CalmTrans ==
  ASSUME NEW x, NEW y, NEW z, Calm(x, y), Calm(y, z)
  PROVE  Calm(x, z)
<1>1. \A c \in Conns : CalmScribe(x.conn[c], z.conn[c])
  BY DEF Calm, CalmScribe
<1>2. \A p \in Ports : z.door[p] = x.door[p] \/ (~z.alive /\ ClosedDoor(x.door[p], z.door[p]))
  BY DEF Calm, ClosedDoor
<1>3. \/ z.cache = x.cache /\ z.alive = x.alive /\ (x.awaiting => z.awaiting)
      \/ z.cache = <<>> /\ ~z.alive /\ \A c \in Conns : z.conn[c].st # "attached"
  BY DEF Calm, CalmScribe
<1> QED BY <1>1, <1>2, <1>3 DEF Calm

(* What left and what is on its way, when no write is in progress, when    *)
(* one takes all of the buffer, and after a byte was added to the buffer   *)
LEMMA StreamFacts ==
  ASSUME NEW s \in ScribeT
  PROVE  /\ s.out \in Seq(Nat) /\ s.wr_offline \in Seq(Nat) /\ s.written \in Nat /\ s.flushed \in Nat
         /\ s.out \o InFlight(s) \in Seq(Nat)
         /\ s.wr # "pending" => s.out \o InFlight(s) = s.out
         /\ s.wr # "pending" /\ s.wr_offline = <<>> => s.out \o InFlight(s) \o s.wr_offline = s.out
<1>1. /\ s.out \in Seq(Nat) /\ s.wr_offline \in Seq(Nat) /\ s.wr_buf \in Seq(Nat)
      /\ s.written \in Nat /\ s.flushed \in Nat
  BY DEF ScribeT
<1>2. s.out \o <<>> = s.out
  BY <1>1, ConcatEmptySeq
<1>3. s.out \o InFlight(s) \in Seq(Nat)
  BY <1>1 DEF InFlight
<1>4. s.wr # "pending" => s.out \o InFlight(s) = s.out
  BY <1>2 DEF InFlight
<1> QED BY <1>1, <1>2, <1>3, <1>4

(* Everything written has left when nothing is buffered or on its way.     *)
LEMMA AllOut ==
  ASSUME NEW s \in ScribeT, OutputOK(s), ~s.broken, s.wr # "pending", s.wr_offline = <<>>
  PROVE  s.out = Bytes(s.written) /\ ~ (Len(s.out) < s.written) /\ ~ (Len(s.out) < s.flushed)
<1>1. s.out = Bytes(s.written)
  BY StreamFacts DEF OutputOK
<1>2. Len(s.out) = s.written /\ s.written \in Nat /\ s.flushed \in Nat
  BY <1>1, StreamFacts, BytesFacts
<1>3. s.flushed <= s.written
  BY DEF OutputOK
<1> QED BY <1>1, <1>2, <1>3

(* A write takes all of the buffer.                                        *)
LEMMA AllTaken ==
  ASSUME NEW s \in ScribeT, NEW t \in ScribeT, OutputOK(s), s.wr # "pending",
         t.out = s.out, t.written = s.written, t.broken = s.broken, t.flushed <= t.written,
         t.wr = "pending", t.wr_buf = s.wr_offline, t.wr_offline = <<>>
  PROVE  OutputOK(t)
<1>1. s.out \in Seq(Nat) /\ s.wr_offline \in Seq(Nat) /\ s.out \o InFlight(s) = s.out
  BY StreamFacts
<1>2. ~s.broken => s.out \o s.wr_offline = Bytes(s.written)
  BY <1>1 DEF OutputOK
<1>3. InFlight(t) = s.wr_offline
  BY DEF InFlight
<1>4. s.out \o s.wr_offline \in Seq(Nat)
  BY <1>1
<1>5. (s.out \o s.wr_offline) \o <<>> = s.out \o s.wr_offline
  BY <1>4, ConcatEmptySeq
<1>6. ~t.broken => t.out \o InFlight(t) \o t.wr_offline = Bytes(t.written)
  BY <1>2, <1>3, <1>5
<1> QED BY <1>6 DEF OutputOK

(* stream::write buffers the next byte.                                    *)
LEMMA WriteCalm ==
  ASSUME NEW x \in BrokerT, NEW c \in Conns
  PROVE  Calm(x, write(x, c))
<1> DEFINE s == x.conn[c]
           k == s.written + 1
           o == Append(s.wr_offline, k)
           t == [s EXCEPT !.wr_offline = o, !.written = k]
<1>1. s \in ScribeT /\ x.conn \in [Conns -> ScribeT]
  BY DEF BrokerT
<1>2. write(x, c) = [x EXCEPT !.conn = [x.conn EXCEPT ![c] = t]]
  BY <1>1 DEF write, BrokerT, ScribeT
<1> HIDE DEF s
<1>3. s.written \in Nat /\ s.wr_offline \in Seq(Nat) /\ k \in Nat
  <2>1. s.written \in Nat /\ s.wr_offline \in Seq(Nat)
    BY <1>1 DEF ScribeT
  <2> QED BY <2>1
<1> HIDE DEF k
<1>4. o \in Seq(Nat)
  BY <1>3
<1> HIDE DEF o
<1>5. t \in ScribeT
  BY <1>1, <1>3, <1>4 DEF ScribeT
<1>6. /\ t.wr_offline = o /\ t.written = k
      /\ t.seen = s.seen /\ t.net = s.net /\ t.sent = s.sent /\ t.st = s.st
      /\ t.launched = s.launched /\ t.rd = s.rd /\ t.rbuf = s.rbuf /\ t.wr = s.wr
      /\ t.wr_buf = s.wr_buf /\ t.flushed = s.flushed /\ t.broken = s.broken /\ t.out = s.out
  BY <1>1 DEF ScribeT
<1> HIDE DEF t
<1>7. OutputOK(s) => OutputOK(t)
  <2> SUFFICES ASSUME OutputOK(s) PROVE OutputOK(t)
    OBVIOUS
  <2> DEFINE left == s.out \o InFlight(s)
  <2>1. left \in Seq(Nat) /\ s.flushed \in Nat
    BY <1>1, StreamFacts
  <2>2. ~s.broken => left \o s.wr_offline = Bytes(s.written)
    BY DEF OutputOK
  <2>3. ~s.broken /\ Len(s.out) < s.flushed => s.wr # "idle"
    BY DEF OutputOK
  <2>4. s.flushed <= k
    BY <1>3, <2>1 DEF OutputOK, k
  <2> HIDE DEF left
  <2>5. left \o o = Append(left \o s.wr_offline, k)
    BY <1>3, <2>1, AppendLast DEF o
  <2>6. ~s.broken => left \o o = Bytes(k)
    BY <1>3, <2>2, <2>5, BytesFacts DEF k
  <2>7. InFlight(t) = InFlight(s)
    BY <1>6 DEF InFlight
  <2> QED BY <1>6, <2>3, <2>4, <2>6, <2>7 DEF OutputOK, left
<1>8. CalmScribe(s, t)
  BY <1>5, <1>6, <1>7 DEF CalmScribe, Started, Reading
<1>9. Calm(x, [x EXCEPT !.conn = [x.conn EXCEPT ![c] = t]])
  BY <1>8, OneScribe DEF s
<1> QED BY <1>2, <1>9

(* write_loop puts what is buffered on its way.                            *)
LEMMA WriteLoopCalm ==
  ASSUME NEW x \in BrokerT, NEW c \in Conns, x.conn[c].wr \in {"idle", "ready"}
  PROVE  Calm(x, write_loop(x, c))
<1> DEFINE s == x.conn[c]
           t1 == [s EXCEPT !.wr = "idle"]
           t2 == [s EXCEPT !.wr = "pending", !.wr_buf = s.wr_offline, !.wr_offline = <<>>]
<1>1. s \in ScribeT /\ x.conn \in [Conns -> ScribeT]
  BY DEF BrokerT
<1>2. CASE s.wr_offline = <<>>
  <2>1. write_loop(x, c) = [x EXCEPT !.conn = [x.conn EXCEPT ![c] = t1]]
    BY <1>1, <1>2 DEF write_loop, BrokerT, ScribeT
  <2> HIDE DEF s
  <2>2. t1 \in ScribeT
    BY <1>1 DEF ScribeT, Progress
  <2>3. /\ t1.wr_offline = s.wr_offline /\ t1.written = s.written
        /\ t1.seen = s.seen /\ t1.net = s.net /\ t1.sent = s.sent /\ t1.st = s.st
        /\ t1.launched = s.launched /\ t1.rd = s.rd /\ t1.rbuf = s.rbuf /\ t1.wr = "idle"
        /\ t1.flushed = s.flushed /\ t1.broken = s.broken /\ t1.out = s.out
    BY <1>1 DEF ScribeT
  <2> HIDE DEF t1
  <2>4. OutputOK(s) => OutputOK(t1)
    <3> SUFFICES ASSUME OutputOK(s) PROVE OutputOK(t1)
      OBVIOUS
    <3>1. s.wr # "pending"
      BY DEF s
    <3>2. ~s.broken => s.out = Bytes(s.written) /\ ~ (Len(s.out) < s.flushed)
      BY <1>1, <1>2, <3>1, AllOut
    <3>3. InFlight(t1) = <<>> /\ t1.out \o InFlight(t1) \o t1.wr_offline = t1.out
      BY <1>2, <2>2, <2>3, StreamFacts DEF InFlight
    <3>4. s.flushed <= s.written
      BY DEF OutputOK
    <3> QED BY <2>3, <3>2, <3>3, <3>4 DEF OutputOK
  <2>5. CalmScribe(s, t1)
    BY <2>2, <2>3, <2>4 DEF CalmScribe, Started, Reading
  <2>6. Calm(x, [x EXCEPT !.conn = [x.conn EXCEPT ![c] = t1]])
    BY <2>5, OneScribe DEF s
  <2> QED BY <2>1, <2>6
<1>3. CASE s.wr_offline # <<>>
  <2>1. write_loop(x, c) = [x EXCEPT !.conn = [x.conn EXCEPT ![c] = t2]]
    BY ZenonT(60), <1>1, <1>3 DEF write_loop, BrokerT, ScribeT
  <2> HIDE DEF s
  <2>2. s.wr_offline \in Seq(Nat) /\ s.out \in Seq(Nat)
    BY <1>1 DEF ScribeT
  <2>3. t2 \in ScribeT
    <3>1. <<>> \in Seq(Nat) /\ "pending" \in Progress
      BY DEF Progress
    <3> QED BY <1>1, <2>2, <3>1 DEF ScribeT
  <2>4. /\ t2.wr_offline = <<>> /\ t2.wr_buf = s.wr_offline /\ t2.written = s.written
        /\ t2.seen = s.seen /\ t2.net = s.net /\ t2.sent = s.sent /\ t2.st = s.st
        /\ t2.launched = s.launched /\ t2.rd = s.rd /\ t2.rbuf = s.rbuf /\ t2.wr = "pending"
        /\ t2.flushed = s.flushed /\ t2.broken = s.broken /\ t2.out = s.out
    BY <1>1 DEF ScribeT
  <2> HIDE DEF t2
  <2>5. OutputOK(s) => OutputOK(t2)
    <3> SUFFICES ASSUME OutputOK(s) PROVE OutputOK(t2)
      OBVIOUS
    <3>1. s.wr # "pending" /\ s.flushed <= s.written
      BY DEF s, OutputOK
    <3> QED BY <1>1, <2>3, <2>4, <3>1, AllTaken
  <2>6. CalmScribe(s, t2)
    BY <2>3, <2>4, <2>5 DEF CalmScribe, Started, Reading
  <2>7. Calm(x, [x EXCEPT !.conn = [x.conn EXCEPT ![c] = t2]])
    BY <2>6, OneScribe DEF s
  <2> QED BY <2>1, <2>7
<1> QED BY <1>2, <1>3

(* How write_loop starts a write                                           *)
LEMMA StartWrite ==
  ASSUME NEW x \in BrokerT, NEW c \in Conns, x.conn[c].wr_offline # <<>>
  PROVE  write_loop(x, c) =
           [x EXCEPT !.conn = [x.conn EXCEPT ![c] =
              [x.conn[c] EXCEPT !.wr = "pending", !.wr_buf = x.conn[c].wr_offline, !.wr_offline = <<>>]]]
<1>1. x.conn[c] \in ScribeT /\ x.conn \in [Conns -> ScribeT]
  BY DEF BrokerT
<1> QED BY ZenonT(60), <1>1 DEF write_loop, BrokerT, ScribeT

(* stream::flush: what is buffered is now due, and a write starts unless   *)
(* one is in progress.                                                     *)
LEMMA FlushCalm ==
  ASSUME NEW x \in BrokerT, NEW c \in Conns
  PROVE  Calm(x, flush(x, c))
<1> DEFINE s == x.conn[c]
           t == [s EXCEPT !.flushed = s.written]
           f == [x.conn EXCEPT ![c] = t]
           y == [x EXCEPT !.conn = f]
           v == [t EXCEPT !.wr = "pending", !.wr_buf = t.wr_offline, !.wr_offline = <<>>]
<1>1. s \in ScribeT /\ x.conn \in [Conns -> ScribeT] /\ x \in BrokerT
  BY DEF BrokerT
<1>2. flush(x, c) = IF s.wr_offline # <<>> /\ s.wr = "idle" THEN write_loop(y, c) ELSE y
  BY <1>1 DEF flush, BrokerT, ScribeT
<1>3. t \in ScribeT
  BY <1>1 DEF ScribeT
<1>4. /\ t.wr_offline = s.wr_offline /\ t.wr_buf = s.wr_buf /\ t.written = s.written
      /\ t.seen = s.seen /\ t.net = s.net /\ t.sent = s.sent /\ t.st = s.st
      /\ t.launched = s.launched /\ t.rd = s.rd /\ t.rbuf = s.rbuf /\ t.wr = s.wr
      /\ t.flushed = s.written /\ t.broken = s.broken /\ t.out = s.out
  BY <1>1 DEF ScribeT
<1> HIDE DEF t
<1>5. f \in [Conns -> ScribeT] /\ f[c] = t /\ [f EXCEPT ![c] = v] = [x.conn EXCEPT ![c] = v]
  BY <1>1, <1>3
<1>6. CASE s.wr_offline # <<>> /\ s.wr = "idle"
  <2> HIDE DEF f
  <2>1. y \in BrokerT /\ y.conn = f
    BY <1>1, <1>5 DEF BrokerT
  <2>2. [y EXCEPT !.conn = [x.conn EXCEPT ![c] = v]] = [x EXCEPT !.conn = [x.conn EXCEPT ![c] = v]]
    BY <1>1 DEF BrokerT
  <2> HIDE DEF y
  <2>3. write_loop(y, c) = [y EXCEPT !.conn = [f EXCEPT ![c] = v]]
    <3>1. y.conn[c] = t /\ t.wr_offline # <<>>
      BY <1>4, <1>5, <1>6, <2>1
    <3>2. write_loop(y, c) = [y EXCEPT !.conn = [y.conn EXCEPT ![c] =
             [y.conn[c] EXCEPT !.wr = "pending", !.wr_buf = y.conn[c].wr_offline, !.wr_offline = <<>>]]]
      BY <2>1, <3>1, StartWrite
    <3> QED BY <2>1, <3>1, <3>2
  <2>4. flush(x, c) = [x EXCEPT !.conn = [x.conn EXCEPT ![c] = v]]
    BY <1>2, <1>5, <1>6, <2>2, <2>3
  <2> HIDE DEF s
  <2>5. v \in ScribeT
    <3>1. t.wr_offline \in Seq(Nat) /\ <<>> \in Seq(Nat) /\ "pending" \in Progress
      BY <1>3 DEF ScribeT, Progress
    <3> QED BY <1>3, <3>1 DEF ScribeT
  <2>6. /\ v.wr_offline = <<>> /\ v.wr_buf = s.wr_offline /\ v.written = s.written
        /\ v.seen = s.seen /\ v.net = s.net /\ v.sent = s.sent /\ v.st = s.st
        /\ v.launched = s.launched /\ v.rd = s.rd /\ v.rbuf = s.rbuf /\ v.wr = "pending"
        /\ v.flushed = s.written /\ v.broken = s.broken /\ v.out = s.out
    BY <1>3, <1>4 DEF ScribeT
  <2> HIDE DEF v
  <2>7. OutputOK(s) => OutputOK(v)
    <3>1. v.flushed <= v.written /\ s.wr # "pending"
      <4>1. s.written \in Nat
        BY <1>1, StreamFacts
      <4> QED BY <1>6, <2>6, <4>1
    <3> QED BY <1>1, <2>5, <2>6, <3>1, AllTaken
  <2>8. CalmScribe(s, v)
    BY <2>5, <2>6, <2>7 DEF CalmScribe, Started, Reading
  <2>9. Calm(x, [x EXCEPT !.conn = [x.conn EXCEPT ![c] = v]])
    BY <2>8, OneScribe DEF s
  <2> QED BY <2>4, <2>9
<1>7. CASE ~ (s.wr_offline # <<>> /\ s.wr = "idle")
  <2>1. flush(x, c) = [x EXCEPT !.conn = [x.conn EXCEPT ![c] = t]]
    BY <1>2, <1>7
  <2> HIDE DEF s
  <2>2. OutputOK(s) => OutputOK(t)
    <3> SUFFICES ASSUME OutputOK(s) PROVE OutputOK(t)
      OBVIOUS
    <3>1. t.flushed <= t.written /\ InFlight(t) = InFlight(s)
      <4>1. s.written \in Nat
        BY <1>1, StreamFacts
      <4> QED BY <1>4, <4>1 DEF InFlight
    <3>2. ~s.broken /\ Len(s.out) < s.written => s.wr # "idle"
      <4>1. ~s.broken /\ s.wr = "idle" => ~ (Len(s.out) < s.written)
        BY <1>1, <1>7, AllOut
      <4> QED BY <4>1
    <3> QED BY <1>4, <3>1, <3>2 DEF OutputOK
  <2>3. CalmScribe(s, t)
    BY <1>3, <1>4, <2>2 DEF CalmScribe, Started, Reading
  <2>4. Calm(x, [x EXCEPT !.conn = [x.conn EXCEPT ![c] = t]])
    BY <2>3, OneScribe DEF s
  <2> QED BY <2>1, <2>4
<1> QED BY <1>6, <1>7

(* read_loop starts a read into an empty buffer.                           *)
LEMMA ReadLoopShape ==
  ASSUME NEW x \in BrokerT, NEW c \in Conns
  PROVE  \E t \in ScribeT :
           /\ read_loop(x, c) = [x EXCEPT !.conn = [x.conn EXCEPT ![c] = t]]
           /\ t.rd = "pending" /\ t.rbuf = <<>>
           /\ t.st = x.conn[c].st /\ t.launched = x.conn[c].launched
           /\ t.seen = x.conn[c].seen /\ t.net = x.conn[c].net /\ t.sent = x.conn[c].sent
           /\ t.broken = x.conn[c].broken
           /\ OutputOK(x.conn[c]) => OutputOK(t)
<1> DEFINE s == x.conn[c]
           T(op, cap) == [s EXCEPT !.op = op, !.rd = "pending", !.cap = cap, !.rbuf = <<>>]
           most == Larger(Len(s.rbuf), s.size + Larger(Extra, s.size \div 10))
<1>1. s \in ScribeT /\ x.conn \in [Conns -> ScribeT]
  BY DEF BrokerT
<1>2. s.size \in Nat /\ Len(s.rbuf) \in Nat /\ s.flag \in {"exactly", "at_most", "at_least"}
  BY SMTT(30), <1>1 DEF ScribeT
<1>3. most \in Nat
  <2>1. s.size \div 10 \in Nat
    BY <1>2
  <2>2. Larger(Extra, s.size \div 10) \in Nat
    BY <2>1, BrokerAssumption DEF Larger
  <2> QED BY <1>2, <2>2 DEF Larger
<1> HIDE DEF most
<1>4. \E op \in {"exactly", "some", "collect"}, cap \in Nat :
        read_loop(x, c) = [x EXCEPT !.conn = [x.conn EXCEPT ![c] = T(op, cap)]]
  <2> DEFINE Start(op, cap) == [x EXCEPT !.conn[c] = T(op, cap)]
  <2>1. ASSUME NEW op, NEW cap
        PROVE  Start(op, cap) = [x EXCEPT !.conn = [x.conn EXCEPT ![c] = T(op, cap)]]
    BY <1>1 DEF BrokerT
  <2>2. CASE s.flag = "exactly"
    <3>1. read_loop(x, c) = Start("exactly", s.size)
      BY <2>2 DEF read_loop
    <3> HIDE DEF Start, T
    <3> QED BY <1>2, <2>1, <3>1
  <2>3. CASE s.flag = "at_most"
    <3>1. read_loop(x, c) = Start("some", s.size)
      BY <2>3 DEF read_loop
    <3> HIDE DEF Start, T
    <3> QED BY <1>2, <2>1, <3>1
  <2>4. CASE s.flag = "at_least"
    <3>1. read_loop(x, c) = Start("collect", most)
      BY <2>4 DEF read_loop, most
    <3> HIDE DEF Start, T
    <3> QED BY <1>3, <2>1, <3>1
  <2> QED BY <1>2, <2>2, <2>3, <2>4
<1>5. PICK op \in {"exactly", "some", "collect"}, cap \in Nat :
        read_loop(x, c) = [x EXCEPT !.conn = [x.conn EXCEPT ![c] = T(op, cap)]]
  BY <1>4
<1> DEFINE t == T(op, cap)
<1> HIDE DEF s
<1>6. t \in ScribeT
  <2>1. <<>> \in Seq(Nat) /\ "pending" \in Progress
    BY DEF Progress
  <2> QED BY <1>1, <2>1 DEF ScribeT
<1>7. /\ t.rd = "pending" /\ t.rbuf = <<>> /\ t.st = s.st /\ t.launched = s.launched
      /\ t.seen = s.seen /\ t.net = s.net /\ t.sent = s.sent
  BY <1>1 DEF ScribeT
<1>8. /\ t.flushed = s.flushed /\ t.written = s.written /\ t.wr = s.wr /\ t.broken = s.broken
      /\ t.out = s.out /\ t.wr_buf = s.wr_buf /\ t.wr_offline = s.wr_offline
  BY <1>1 DEF ScribeT
<1>9. read_loop(x, c) = [x EXCEPT !.conn = [x.conn EXCEPT ![c] = t]]
  BY <1>5
<1> HIDE DEF t
<1>10. OutputOK(s) => OutputOK(t)
  BY <1>8 DEF OutputOK, InFlight
<1> QED BY <1>6, <1>7, <1>8, <1>9, <1>10 DEF s

(* configure_read of an attached connection changes the policy and, the    *)
(* first time, starts to read.                                             *)
LEMMA ConfigureCalm ==
  ASSUME NEW x \in BrokerT, NEW c \in Conns, NEW policy \in Policies, valid(x, c)
  PROVE  Calm(x, configure_read(x, c, policy))
<1> DEFINE s == x.conn[c]
           t == [s EXCEPT !.flag = policy.flag, !.size = policy.size, !.launched = TRUE]
           f == [x.conn EXCEPT ![c] = t]
           y == [x EXCEPT !.conn = f]
<1>1. s \in ScribeT /\ x.conn \in [Conns -> ScribeT] /\ s.st = "attached"
  BY DEF BrokerT, valid
<1>2. configure_read(x, c, policy) = IF s.launched THEN y ELSE read_loop(y, c)
  BY <1>1 DEF configure_read, BrokerT, ScribeT
<1>3. policy.flag \in {"exactly", "at_most", "at_least"} /\ policy.size \in Nat
  BY BrokerAssumption
<1>4. t \in ScribeT
  BY <1>1, <1>3 DEF ScribeT
<1>5. /\ t.st = s.st /\ t.launched /\ t.rd = s.rd /\ t.rbuf = s.rbuf
      /\ t.seen = s.seen /\ t.net = s.net /\ t.sent = s.sent
      /\ t.flushed = s.flushed /\ t.written = s.written /\ t.wr = s.wr /\ t.broken = s.broken
      /\ t.out = s.out /\ t.wr_buf = s.wr_buf /\ t.wr_offline = s.wr_offline
  BY <1>1 DEF ScribeT
<1> HIDE DEF t
<1>6. OutputOK(s) => OutputOK(t)
  BY <1>5 DEF OutputOK, InFlight
<1>7. f \in [Conns -> ScribeT] /\ f[c] = t /\ \A v : [f EXCEPT ![c] = v] = [x.conn EXCEPT ![c] = v]
  BY <1>1, <1>4
<1>8. CASE s.launched
  <2> HIDE DEF s
  <2>1. CalmScribe(s, t)
    BY <1>4, <1>5, <1>6, <1>8 DEF CalmScribe, Started, Reading
  <2>2. Calm(x, [x EXCEPT !.conn = [x.conn EXCEPT ![c] = t]])
    BY <2>1, OneScribe DEF s
  <2> QED BY <1>2, <1>8, <2>2
<1>9. CASE ~s.launched
  <2> HIDE DEF f
  <2>1. y \in BrokerT /\ y.conn = f
    BY <1>7 DEF BrokerT
  <2>2. \A g : [y EXCEPT !.conn = g] = [x EXCEPT !.conn = g]
    BY DEF BrokerT
  <2> HIDE DEF y
  <2>3. PICK v \in ScribeT :
          /\ read_loop(y, c) = [y EXCEPT !.conn = [f EXCEPT ![c] = v]]
          /\ v.rd = "pending" /\ v.rbuf = <<>> /\ v.st = t.st /\ v.launched = t.launched
          /\ v.seen = t.seen /\ v.net = t.net /\ v.sent = t.sent /\ v.broken = t.broken
          /\ OutputOK(t) => OutputOK(v)
    BY <1>7, <2>1, ReadLoopShape
  <2>4. configure_read(x, c, policy) = [x EXCEPT !.conn = [x.conn EXCEPT ![c] = v]]
    BY <1>2, <1>7, <1>9, <2>2, <2>3
  <2> HIDE DEF s
  <2>5. CalmScribe(s, v)
    BY <1>1, <1>5, <1>6, <1>9, <2>3 DEF CalmScribe, Started, Reading
  <2>6. Calm(x, [x EXCEPT !.conn = [x.conn EXCEPT ![c] = v]])
    BY <2>5, OneScribe DEF s
  <2> QED BY <2>4, <2>6
<1> QED BY <1>8, <1>9

(* Closing a socket neither starts nor ends a read.                        *)
LEMMA CloseScribe ==
  ASSUME NEW s \in ScribeT, s.st = "attached"
  PROVE  CalmScribe(s, [s EXCEPT !.st = "detached", !.shut = TRUE, !.rd = Abort(s.rd)])
<1> DEFINE t == [s EXCEPT !.st = "detached", !.shut = TRUE, !.rd = Abort(s.rd)]
<1>1. Abort(s.rd) \in Progress /\ (Abort(s.rd) = "idle" <=> s.rd = "idle")
  BY DEF Abort, ScribeT, Progress
<1>2. t \in ScribeT
  BY <1>1 DEF ScribeT, Stages
<1>3. /\ t.st = "detached" /\ t.launched = s.launched /\ t.rd = Abort(s.rd) /\ t.rbuf = s.rbuf
      /\ t.seen = s.seen /\ t.net = s.net /\ t.sent = s.sent
      /\ t.flushed = s.flushed /\ t.written = s.written /\ t.wr = s.wr /\ t.broken = s.broken
      /\ t.out = s.out /\ t.wr_buf = s.wr_buf /\ t.wr_offline = s.wr_offline
  BY DEF ScribeT
<1> HIDE DEF t
<1>4. OutputOK(s) => OutputOK(t)
  BY <1>3 DEF OutputOK, InFlight
<1>5. CalmScribe(s, t)
  BY <1>1, <1>2, <1>3, <1>4 DEF CalmScribe, Started, Reading
<1> QED BY <1>5 DEF t

(* The broker closes a connection.                                         *)
LEMMA CloseCalm ==
  ASSUME NEW x \in BrokerT, NEW c \in Conns, valid(x, c)
  PROVE  /\ Calm(x, close(x, c))
         /\ close(x, c).conn[c] =
              [x.conn[c] EXCEPT !.st = "detached", !.shut = TRUE, !.rd = Abort(x.conn[c].rd)]
<1> DEFINE t == [x.conn[c] EXCEPT !.st = "detached", !.shut = TRUE, !.rd = Abort(x.conn[c].rd)]
<1>1. x.conn[c] \in ScribeT /\ x.conn \in [Conns -> ScribeT] /\ x.conn[c].st = "attached"
  BY DEF BrokerT, valid
<1>2. close(x, c) = [x EXCEPT !.conn = [x.conn EXCEPT ![c] = t]]
  BY ZenonT(60), <1>1 DEF close, BrokerT, ScribeT
<1>3. CalmScribe(x.conn[c], t)
  BY <1>1, CloseScribe
<1> HIDE DEF t
<1>4. Calm(x, [x EXCEPT !.conn = [x.conn EXCEPT ![c] = t]])
  BY <1>3, OneScribe
<1>5. [x EXCEPT !.conn = [x.conn EXCEPT ![c] = t]].conn[c] = t
  BY <1>1 DEF BrokerT
<1> QED BY <1>2, <1>4, <1>5 DEF t

(* The doorman that close_port leaves                                      *)
LEMMA ClosePortShape ==
  ASSUME NEW x \in BrokerT, NEW p \in Ports, x.door[p].st = "attached"
  PROVE  LET e == [x.door[p] EXCEPT !.st = "detached", !.acc = Abort(x.door[p].acc)]
         IN /\ close_port(x, p) = [x EXCEPT !.door = [x.door EXCEPT ![p] = e]]
            /\ close_port(x, p).door[p] = e
            /\ e \in DoormanT /\ ClosedDoor(x.door[p], e)
<1> DEFINE d == x.door[p]
           e == [d EXCEPT !.st = "detached", !.acc = Abort(d.acc)]
<1>1. d \in DoormanT /\ x.door \in [Ports -> DoormanT]
  BY DEF BrokerT
<1>2. close_port(x, p) = [x EXCEPT !.door = [x.door EXCEPT ![p] = e]]
  BY <1>1 DEF close_port, BrokerT, DoormanT
<1>3. [x EXCEPT !.door = [x.door EXCEPT ![p] = e]].door[p] = e
  BY <1>1 DEF BrokerT
<1>4. d.st = "attached"
  OBVIOUS
<1> HIDE DEF d
<1>5. Abort(d.acc) \in Progress
  BY <1>1 DEF Abort, DoormanT, Progress
<1>6. e \in DoormanT /\ ClosedDoor(d, e)
  BY <1>1, <1>4, <1>5 DEF DoormanT, ClosedDoor, Stages
<1> QED BY <1>2, <1>3, <1>6 DEF d

(* cleanup: the broker ends and closes everything.                         *)
LEMMA CleanupCalm ==
  ASSUME NEW x \in BrokerT
  PROVE  Calm(x, cleanup(x))
<1> DEFINE f == [c \in Conns |-> IF valid(x, c) THEN close(x, c).conn[c] ELSE x.conn[c]]
           g == [p \in Ports |-> IF x.door[p].st = "attached" THEN close_port(x, p).door[p]
                                 ELSE x.door[p]]
           y == [[x EXCEPT !.conn = f, !.door = g]
                   EXCEPT !.alive = FALSE, !.awaiting = FALSE, !.cache = <<>>]
<1>1. cleanup(x) = y
  BY DEF cleanup, close_all, BrokerT
<1>2. ASSUME NEW c \in Conns
      PROVE  f[c] \in ScribeT /\ CalmScribe(x.conn[c], f[c]) /\ f[c].st # "attached"
  <2>1. x.conn[c] \in ScribeT
    BY DEF BrokerT
  <2>2. CASE valid(x, c)
    <3> DEFINE t == [x.conn[c] EXCEPT !.st = "detached", !.shut = TRUE, !.rd = Abort(x.conn[c].rd)]
    <3>1. f[c] = t
      BY <2>2, CloseCalm
    <3>2. CalmScribe(x.conn[c], t) /\ t.st = "detached"
      BY <2>1, <2>2, CloseScribe DEF valid, ScribeT
    <3> HIDE DEF f, t
    <3> QED BY <3>1, <3>2 DEF CalmScribe
  <2>3. CASE ~valid(x, c)
    BY <2>1, <2>3 DEF valid, CalmScribe
  <2> QED BY <2>2, <2>3
<1>3. ASSUME NEW p \in Ports
      PROVE  g[p] \in DoormanT /\ (g[p] = x.door[p] \/ ClosedDoor(x.door[p], g[p]))
  <2>1. CASE x.door[p].st = "attached"
    <3> DEFINE e == [x.door[p] EXCEPT !.st = "detached", !.acc = Abort(x.door[p].acc)]
    <3>1. g[p] = close_port(x, p).door[p]
      BY <2>1
    <3>2. close_port(x, p).door[p] = e /\ e \in DoormanT /\ ClosedDoor(x.door[p], e)
      BY <2>1, ClosePortShape
    <3> HIDE DEF g, e
    <3> QED BY <3>1, <3>2
  <2>2. CASE x.door[p].st # "attached"
    BY <2>2 DEF BrokerT
  <2> QED BY <2>1, <2>2
<1>4. f \in [Conns -> ScribeT] /\ g \in [Ports -> DoormanT]
  BY <1>2, <1>3
<1> HIDE DEF f, g
<1>5. /\ y \in BrokerT /\ y.conn = f /\ y.door = g /\ ~y.alive /\ y.cache = <<>>
      /\ y.published = x.published /\ y.crashed = x.crashed
  <2>1. <<>> \in Seq(MessageT)
    OBVIOUS
  <2> QED BY <1>4, <2>1 DEF BrokerT
<1> HIDE DEF y
<1>6. Calm(x, y)
  BY <1>2, <1>3, <1>5 DEF Calm
<1> QED BY <1>1, <1>6

(* What a handler of the broker does is calm.                              *)
LEMMA ReactCalm ==
  ASSUME NEW x \in BrokerT, NEW r \in Reactions, NEW c \in Conns
  PROVE  Calm(x, React(x, r, c))
<1>0. r \in {"none", "write", "flush", "close", "quit", "ask"}
  BY BrokerAssumption
<1>1. CASE r = "none"
  <2>1. React(x, r, c) = x
    BY <1>1 DEF React
  <2> QED BY <2>1, CalmRefl
<1>2. CASE r = "quit" \/ (r \in {"write", "flush", "close"} /\ ~valid(x, c))
  <2>1. React(x, r, c) = cleanup(x)
    BY <1>2 DEF React
  <2> QED BY <2>1, CleanupCalm
<1>3. CASE r = "ask"
  <2> DEFINE y == [x EXCEPT !.awaiting = TRUE]
  <2>1. React(x, r, c) = y
    BY <1>3 DEF React
  <2>2. /\ y \in BrokerT /\ y.conn = x.conn /\ y.door = x.door /\ y.published = x.published
        /\ y.crashed = x.crashed /\ y.alive = x.alive /\ y.cache = x.cache /\ y.awaiting
    BY DEF BrokerT
  <2> HIDE DEF y
  <2>3. Calm(x, y)
    <3>1. \A d \in Conns : CalmScribe(x.conn[d], y.conn[d])
      BY <2>2 DEF BrokerT, CalmScribe
    <3> QED BY <2>2, <3>1 DEF Calm
  <2> QED BY <2>1, <2>3
<1>4. CASE r = "write" /\ valid(x, c)
  <2>1. React(x, r, c) = write(x, c)
    BY <1>4 DEF React
  <2> QED BY <2>1, WriteCalm
<1>5. CASE r = "flush" /\ valid(x, c)
  <2>1. React(x, r, c) = flush(x, c)
    BY <1>5 DEF React
  <2> QED BY <2>1, FlushCalm
<1>6. CASE r = "close" /\ valid(x, c)
  <2>1. React(x, r, c) = close(x, c)
    BY <1>6 DEF React
  <2> QED BY <1>6, <2>1, CloseCalm
<1> QED BY <1>0, <1>1, <1>2, <1>3, <1>4, <1>5, <1>6

-----------------------------------------------------------------------------
(* Going through the cache: what the recursive functions compute           *)

(* A set that contains 0 and with each number the next one, up to n        *)
LEMMA CountUp ==
  ASSUME NEW n \in Nat, NEW T \in SUBSET (0 .. n), 0 \in T, \A i \in 1 .. n : i - 1 \in T => i \in T
  PROVE  T = 0 .. n
<1> DEFINE B == (0 .. n) \ T
<1>1. SUFFICES ASSUME B # {} PROVE FALSE
  OBVIOUS
<1>2. PICK i \in B : \A j \in B : i <= j
  <2>1. B \in SUBSET Nat
    OBVIOUS
  <2> HIDE DEF B
  <2> QED BY <1>1, <2>1, LeastExists
<1>3. i \in 0 .. n /\ i \notin T /\ i # 0
  BY <1>2
<1>4. i - 1 \in 0 .. n /\ i \in 1 .. n
  BY <1>3
<1>5. i - 1 \notin B
  BY <1>2, <1>4
<1> QED BY <1>3, <1>4, <1>5

StepBytes(b, m, c) == IF m.kind = "data" /\ m.c = c THEN b \o m.bytes ELSE b

StepReplay(y, m, policy) == IF y.alive THEN Handle(y, m, "none", policy) ELSE y

(* Skipped goes through the cache message by message.                      *)
LEMMA SkippedDef ==
  ASSUME NEW q, Len(q) \in Nat, NEW c
  PROVE  Skipped(q, c) = [i \in 0 .. Len(q) |->
                            IF i = 0 THEN <<>> ELSE StepBytes(Skipped(q, c)[i - 1], q[i], c)]
<1> DEFINE P(f) == f = [i \in 0 .. Len(q) |->
                          IF i = 0 THEN <<>>
                          ELSE IF q[i].kind = "data" /\ q[i].c = c THEN f[i - 1] \o q[i].bytes
                          ELSE f[i - 1]]
           Upto(f, n) == f = [i \in 0 .. n |-> IF i = 0 THEN <<>> ELSE StepBytes(f[i - 1], q[i], c)]
           T == {n \in 0 .. Len(q) : \E f : Upto(f, n)}
<1>1. Skipped(q, c) = CHOOSE f : P(f)
  BY DEF Skipped
<1>2. 0 \in T
  <2> DEFINE f == [i \in 0 .. 0 |-> <<>>]
  <2>1. Upto(f, 0)
    OBVIOUS
  <2> HIDE DEF f
  <2> QED BY <2>1
<1>3. ASSUME NEW n \in 1 .. Len(q), n - 1 \in T PROVE n \in T
  <2>1. PICK f : Upto(f, n - 1)
    BY <1>3
  <2> DEFINE g == [i \in 0 .. n |-> IF i < n THEN f[i] ELSE StepBytes(f[n - 1], q[n], c)]
  <2>2. \A i \in 0 .. n - 1 : g[i] = f[i]
    OBVIOUS
  <2>3. \A i \in 0 .. n - 1 : f[i] = IF i = 0 THEN <<>> ELSE StepBytes(f[i - 1], q[i], c)
    BY <2>1, Zenon
  <2>4. \A i \in 0 .. n : g[i] = IF i = 0 THEN <<>> ELSE StepBytes(g[i - 1], q[i], c)
    <3> SUFFICES ASSUME NEW i \in 0 .. n
                 PROVE  g[i] = IF i = 0 THEN <<>> ELSE StepBytes(g[i - 1], q[i], c)
      OBVIOUS
    <3>1. CASE i = n
      <4>1. g[n] = StepBytes(f[n - 1], q[n], c) /\ n - 1 \in 0 .. n - 1 /\ n # 0
        OBVIOUS
      <4>2. g[n - 1] = f[n - 1]
        BY <2>2, <4>1
      <4> HIDE DEF g
      <4> QED BY <3>1, <4>1, <4>2
    <3>2. CASE i \in 0 .. n - 1
      <4>1. i # 0 => i - 1 \in 0 .. n - 1
        BY <3>2
      <4> HIDE DEF g
      <4> QED BY <2>2, <2>3, <3>2, <4>1
    <3> QED BY <3>1, <3>2
  <2>5. g = [i \in 0 .. n |-> g[i]]
    OBVIOUS
  <2> HIDE DEF g
  <2>6. Upto(g, n)
    BY <2>4, <2>5
  <2> HIDE DEF Upto
  <2>7. \E h : Upto(h, n)
    BY <2>6, Zenon
  <2> QED BY <2>7
<1>4. T = 0 .. Len(q)
  <2>1. T \in SUBSET (0 .. Len(q))
    OBVIOUS
  <2> HIDE DEF T
  <2> QED BY <1>2, <1>3, <2>1, CountUp
<1>5. PICK f : Upto(f, Len(q))
  <2>1. Len(q) \in T
    BY <1>4
  <2> QED BY <2>1
<1>6. P(f)
  BY <1>5 DEF StepBytes
<1>7. P(CHOOSE g : P(g))
  <2>1. \E g : P(g)
    BY <1>6
  <2> HIDE DEF P
  <2> QED BY <2>1, Zenon
<1>8. P(Skipped(q, c))
  BY <1>1, <1>7
<1> QED BY <1>8 DEF StepBytes

(* Replay goes through the cache message by message.                       *)
LEMMA ReplayDef ==
  ASSUME NEW x, NEW q, Len(q) \in Nat, NEW policy
  PROVE  Replay(x, q, policy) =
           [i \in 0 .. Len(q) |->
              IF i = 0 THEN x ELSE StepReplay(Replay(x, q, policy)[i - 1], q[i], policy)]
<1> DEFINE P(f) == f = [i \in 0 .. Len(q) |->
                          IF i = 0 THEN x
                          ELSE IF f[i - 1].alive THEN Handle(f[i - 1], q[i], "none", policy)
                          ELSE f[i - 1]]
           Upto(f, n) == f = [i \in 0 .. n |-> IF i = 0 THEN x ELSE StepReplay(f[i - 1], q[i], policy)]
           T == {n \in 0 .. Len(q) : \E f : Upto(f, n)}
<1>1. Replay(x, q, policy) = CHOOSE f : P(f)
  BY DEF Replay
<1>2. 0 \in T
  <2> DEFINE f == [i \in 0 .. 0 |-> x]
  <2>1. Upto(f, 0)
    OBVIOUS
  <2> HIDE DEF f
  <2> QED BY <2>1
<1>3. ASSUME NEW n \in 1 .. Len(q), n - 1 \in T PROVE n \in T
  <2>1. PICK f : Upto(f, n - 1)
    BY <1>3
  <2> DEFINE g == [i \in 0 .. n |-> IF i < n THEN f[i] ELSE StepReplay(f[n - 1], q[n], policy)]
  <2>2. \A i \in 0 .. n - 1 : g[i] = f[i]
    OBVIOUS
  <2>3. \A i \in 0 .. n - 1 : f[i] = IF i = 0 THEN x ELSE StepReplay(f[i - 1], q[i], policy)
    BY <2>1, Zenon
  <2>4. \A i \in 0 .. n : g[i] = IF i = 0 THEN x ELSE StepReplay(g[i - 1], q[i], policy)
    <3> SUFFICES ASSUME NEW i \in 0 .. n
                 PROVE  g[i] = IF i = 0 THEN x ELSE StepReplay(g[i - 1], q[i], policy)
      OBVIOUS
    <3>1. CASE i = n
      <4>1. g[n] = StepReplay(f[n - 1], q[n], policy) /\ n - 1 \in 0 .. n - 1 /\ n # 0
        OBVIOUS
      <4>2. g[n - 1] = f[n - 1]
        BY <2>2, <4>1
      <4> HIDE DEF g
      <4> QED BY <3>1, <4>1, <4>2
    <3>2. CASE i \in 0 .. n - 1
      <4>1. i # 0 => i - 1 \in 0 .. n - 1
        BY <3>2
      <4> HIDE DEF g
      <4> QED BY <2>2, <2>3, <3>2, <4>1
    <3> QED BY <3>1, <3>2
  <2>5. g = [i \in 0 .. n |-> g[i]]
    OBVIOUS
  <2> HIDE DEF g
  <2>6. Upto(g, n)
    BY <2>4, <2>5
  <2> HIDE DEF Upto
  <2>7. \E h : Upto(h, n)
    BY <2>6, Zenon
  <2> QED BY <2>7
<1>4. T = 0 .. Len(q)
  <2>1. T \in SUBSET (0 .. Len(q))
    OBVIOUS
  <2> HIDE DEF T
  <2> QED BY <1>2, <1>3, <2>1, CountUp
<1>5. PICK f : Upto(f, Len(q))
  <2>1. Len(q) \in T
    BY <1>4
  <2> QED BY <2>1
<1>6. P(f)
  BY <1>5 DEF StepReplay
<1>7. P(CHOOSE g : P(g))
  <2>1. \E g : P(g)
    BY <1>6
  <2> HIDE DEF P
  <2> QED BY <2>1, Zenon
<1>8. P(Replay(x, q, policy))
  BY <1>1, <1>7
<1> QED BY <1>8 DEF StepReplay

(* The bytes for c in the first i messages of the cache                    *)
LEMMA SkippedSteps ==
  ASSUME NEW q \in Seq(MessageT), NEW c \in Conns
  PROVE  /\ Skipped(q, c)[0] = <<>>
         /\ \A i \in 1 .. Len(q) : Skipped(q, c)[i] = StepBytes(Skipped(q, c)[i - 1], q[i], c)
         /\ \A i \in 0 .. Len(q) : Skipped(q, c)[i] \in Seq(Nat)
         /\ AllSkipped(q, c) \in Seq(Nat)
<1> DEFINE b == Skipped(q, c)
           T == {i \in 0 .. Len(q) : b[i] \in Seq(Nat)}
<1>1. Len(q) \in Nat
  OBVIOUS
<1>2. b = [i \in 0 .. Len(q) |-> IF i = 0 THEN <<>> ELSE StepBytes(b[i - 1], q[i], c)]
  BY <1>1, SkippedDef
<1> HIDE DEF b
<1>3. /\ b[0] = <<>>
      /\ \A i \in 1 .. Len(q) : b[i] = StepBytes(b[i - 1], q[i], c)
  BY <1>1, <1>2
<1>4. 0 \in T
  <2>1. <<>> \in Seq(Nat)
    OBVIOUS
  <2>2. b[0] \in Seq(Nat)
    BY <1>3, <2>1
  <2> QED BY <1>1, <2>2
<1>5. ASSUME NEW i \in 1 .. Len(q), i - 1 \in T PROVE i \in T
  <2>1. b[i - 1] \in Seq(Nat) /\ q[i] \in MessageT
    BY <1>5
  <2>2. q[i].kind = "data" => q[i].bytes \in Seq(Nat)
    BY <2>1 DEF MessageT
  <2>3. StepBytes(b[i - 1], q[i], c) \in Seq(Nat)
    BY <2>1, <2>2 DEF StepBytes
  <2> QED BY <1>3, <2>3
<1>6. T = 0 .. Len(q)
  <2>1. T \in SUBSET (0 .. Len(q))
    OBVIOUS
  <2> HIDE DEF T
  <2> QED BY <1>1, <1>4, <1>5, <2>1, CountUp
<1>7. \A i \in 0 .. Len(q) : b[i] \in Seq(Nat)
  BY <1>6
<1>8. b[Len(q)] \in Seq(Nat)
  BY <1>1, <1>7
<1> QED BY <1>3, <1>7, <1>8 DEF b, AllSkipped

(* An empty cache has no bytes.                                            *)
LEMMA SkippedEmpty ==
  ASSUME NEW c \in Conns
  PROVE  AllSkipped(<<>>, c) = <<>>
<1>1. <<>> \in Seq(MessageT) /\ Len(<<>>) = 0
  OBVIOUS
<1> QED BY <1>1, SkippedSteps DEF AllSkipped

(* A message added to the cache adds its bytes.                            *)
LEMMA SkippedAppend ==
  ASSUME NEW q \in Seq(MessageT), NEW m \in MessageT, NEW c \in Conns
  PROVE  AllSkipped(Append(q, m), c) = StepBytes(AllSkipped(q, c), m, c)
<1> DEFINE r == Append(q, m)
           T == {i \in 0 .. Len(q) : Skipped(r, c)[i] = Skipped(q, c)[i]}
<1>1. r \in Seq(MessageT) /\ Len(r) = Len(q) + 1 /\ Len(q) \in Nat /\ r[Len(q) + 1] = m
      /\ \A i \in 1 .. Len(q) : r[i] = q[i]
  OBVIOUS
<1> HIDE DEF r
<1>2. /\ Skipped(r, c)[0] = <<>>
      /\ \A i \in 1 .. Len(q) + 1 : Skipped(r, c)[i] = StepBytes(Skipped(r, c)[i - 1], r[i], c)
  BY <1>1, SkippedSteps
<1>3. 0 \in T
  BY <1>1, <1>2, SkippedSteps
<1>4. ASSUME NEW i \in 1 .. Len(q), i - 1 \in T PROVE i \in T
  <2>1. Skipped(q, c)[i] = StepBytes(Skipped(q, c)[i - 1], q[i], c)
    BY SkippedSteps
  <2>2. Skipped(r, c)[i] = StepBytes(Skipped(r, c)[i - 1], q[i], c)
    <3>1. i \in 1 .. Len(q) + 1
      BY <1>1
    <3> QED BY <1>1, <1>2, <3>1
  <2> QED BY <1>1, <1>4, <2>1, <2>2
<1>5. T = 0 .. Len(q)
  <2>1. T \in SUBSET (0 .. Len(q))
    OBVIOUS
  <2> HIDE DEF T
  <2> QED BY <1>1, <1>3, <1>4, <2>1, CountUp
<1>6. Skipped(r, c)[Len(q)] = Skipped(q, c)[Len(q)]
  <2>1. Len(q) \in T
    BY <1>1, <1>5
  <2> QED BY <2>1
<1>7. Skipped(r, c)[Len(q) + 1] = StepBytes(Skipped(r, c)[Len(q)], m, c)
  <2>1. Len(q) + 1 \in 1 .. Len(q) + 1 /\ (Len(q) + 1) - 1 = Len(q)
    BY <1>1
  <2> QED BY <1>1, <1>2, <2>1
<1> QED BY <1>1, <1>6, <1>7 DEF AllSkipped, r

-----------------------------------------------------------------------------
(* Calm changes keep the invariant of the broker's state.                  *)
LEMMA CalmInv ==
  ASSUME NEW x \in BrokerT, NEW y, ConnsInv(x), CacheInv(x), DoorsInv(x), Calm(x, y)
  PROVE  /\ y \in BrokerT /\ ConnsInv(y) /\ CacheInv(y) /\ DoorsInv(y)
         /\ \A c \in Conns : x.conn[c].st \in Early => y.conn[c].st = x.conn[c].st
<1>1. y \in BrokerT /\ \A c \in Conns : CalmScribe(x.conn[c], y.conn[c])
  BY DEF Calm
<1>2. \A c \in Conns : x.conn[c].st \in Early => y.conn[c].st = x.conn[c].st
  BY <1>1 DEF CalmScribe, Early
<1>3. \A c \in Conns : y.conn[c].st \in Early => x.conn[c].st = y.conn[c].st
  BY <1>1 DEF CalmScribe, Early
<1>4. ASSUME NEW c \in Conns PROVE OutputOK(y.conn[c]) /\ Started(y.conn[c]) /\ InputOK(y, c)
  <2>1. CalmScribe(x.conn[c], y.conn[c])
    BY <1>1
  <2>2. OutputOK(x.conn[c]) /\ Started(x.conn[c]) /\ InputOK(x, c)
    BY DEF ConnsInv
  <2>3. OutputOK(y.conn[c]) /\ Started(y.conn[c]) /\ Reading(y.conn[c]) = Reading(x.conn[c])
    BY <2>1, <2>2 DEF CalmScribe
  <2>4. /\ y.conn[c].seen = x.conn[c].seen /\ y.conn[c].net = x.conn[c].net
        /\ y.conn[c].sent = x.conn[c].sent
        /\ x.conn[c].st # "attached" => y.conn[c].rd = x.conn[c].rd
        /\ y.conn[c].st = "attached" => x.conn[c].st = "attached"
    BY <2>1 DEF CalmScribe
  <2>5. ASSUME y.conn[c].st = "attached"
        PROVE  y.conn[c].seen \o AllSkipped(y.cache, c) \o Reading(y.conn[c]) \o y.conn[c].net
                 = Bytes(y.conn[c].sent)
    <3>1. y.cache = x.cache
      BY <2>5 DEF Calm
    <3> QED BY <2>2, <2>3, <2>4, <2>5, <3>1 DEF InputOK
  <2>6. ASSUME y.conn[c].st \in Early
        PROVE  Untouched(y.conn[c]) /\ AllSkipped(y.cache, c) = <<>>
    <3>1. x.conn[c].st \in Early /\ x.conn[c].st # "attached"
      BY <1>3, <2>6 DEF Early
    <3>2. Untouched(x.conn[c]) /\ AllSkipped(x.cache, c) = <<>>
      BY <2>2, <3>1 DEF InputOK
    <3>3. y.cache = x.cache \/ y.cache = <<>>
      BY DEF Calm
    <3>4. AllSkipped(y.cache, c) = <<>>
      BY <3>2, <3>3, SkippedEmpty
    <3> QED BY <2>4, <3>1, <3>2, <3>4 DEF Untouched
  <2> QED BY <2>3, <2>5, <2>6 DEF InputOK
<1>5. CacheInv(y)
  <2>1. CASE y.cache = x.cache /\ (x.awaiting => y.awaiting)
    <3>1. ~y.awaiting => y.cache = <<>>
      BY <2>1 DEF CacheInv
    <3>2. ASSUME NEW i \in 1 .. Len(y.cache), y.cache[i].kind = "data"
          PROVE  y.conn[y.cache[i].c].st \notin Early
      <4>1. x.cache[i] \in MessageT /\ i \in 1 .. Len(x.cache) /\ x.cache[i].kind = "data"
        BY <2>1, <3>2 DEF BrokerT
      <4>2. x.cache[i].c \in Conns
        BY <4>1 DEF MessageT
      <4>3. x.conn[x.cache[i].c].st \notin Early
        BY <4>1 DEF CacheInv
      <4> QED BY <1>3, <2>1, <4>2, <4>3
    <3> QED BY <3>1, <3>2 DEF CacheInv
  <2>2. CASE y.cache = <<>>
    BY <2>2 DEF CacheInv
  <2> QED BY <2>1, <2>2 DEF Calm
<1>6. DoorsInv(y)
  <2>1. \A p \in Ports : /\ y.door[p].acc = "ready" => x.door[p].acc = "ready"
                         /\ y.door[p].conn = x.door[p].conn
                         /\ y.alive => y.door[p] = x.door[p]
    BY DEF Calm, ClosedDoor, Abort
  <2>2. y.published = x.published /\ (y.alive => x.alive)
    BY DEF Calm
  <2>3. ASSUME NEW p \in Ports, y.door[p].acc = "ready"
        PROVE  y.door[p].conn \in Conns /\ y.conn[y.door[p].conn].st = "accepting"
    <3>1. x.door[p].acc = "ready" /\ x.door[p].conn = y.door[p].conn
      BY <2>1, <2>3
    <3>2. x.door[p].conn \in Conns /\ x.conn[x.door[p].conn].st = "accepting"
      BY <3>1 DEF DoorsInv
    <3> QED BY <1>2, <3>1, <3>2 DEF Early
  <2>4. ASSUME NEW p \in Ports, y.alive, y.published[p] # None
        PROVE  /\ y.door[p].st = "attached" \/ y.door[p].failed
               /\ y.door[p].acc \in {"idle", "failed"} => y.door[p].failed
    BY <2>1, <2>2, <2>4 DEF DoorsInv
  <2>5. ASSUME NEW p \in Ports, NEW q \in Ports, p # q,
               y.door[p].acc = "ready", y.door[q].acc = "ready"
        PROVE  y.door[p].conn # y.door[q].conn
    BY <2>1, <2>5 DEF DoorsInv
  <2> QED BY <2>3, <2>4, <2>5 DEF DoorsInv
<1>7. ConnsInv(y)
  BY <1>4 DEF ConnsInv
<1> QED BY <1>1, <1>2, <1>5, <1>6, <1>7

(* A write or a flush gives no connection up.                              *)
LEMMA WriteFlushValid ==
  ASSUME NEW x \in BrokerT, NEW c \in Conns, valid(x, c)
  PROVE  valid(write(x, c), c) /\ valid(flush(x, c), c)
<1>1. x.conn[c] \in ScribeT /\ x.conn \in [Conns -> ScribeT]
  BY DEF BrokerT
<1>2. write(x, c).conn[c].st = x.conn[c].st
  BY <1>1 DEF write, BrokerT, ScribeT
<1>3. flush(x, c).conn[c].st = x.conn[c].st
  BY <1>1 DEF flush, write_loop, BrokerT, ScribeT
<1> QED BY <1>2, <1>3 DEF valid

(* The broker answers a new connection calmly.                             *)
LEMMA AcceptedCalm ==
  ASSUME NEW x \in BrokerT, NEW m \in MessageT, NEW r, NEW policy \in Policies, m.kind = "accepted"
  PROVE  Calm(x, Handle(x, m, r, policy))
<1>1. m.c \in Conns
  BY DEF MessageT
<1>2. CASE valid(x, m.c)
  <2> DEFINE y == write(x, m.c)
             z == flush(y, m.c)
  <2>1. Handle(x, m, r, policy) = configure_read(z, m.c, policy)
    BY <1>2 DEF Handle
  <2>2. Calm(x, y) /\ valid(y, m.c)
    BY <1>1, <1>2, WriteCalm, WriteFlushValid
  <2>3. y \in BrokerT
    BY <2>2 DEF Calm
  <2> HIDE DEF y
  <2>4. Calm(y, z) /\ valid(z, m.c)
    BY <1>1, <2>2, <2>3, FlushCalm, WriteFlushValid
  <2>5. z \in BrokerT
    BY <2>4 DEF Calm
  <2> HIDE DEF z
  <2>6. Calm(z, configure_read(z, m.c, policy))
    BY <1>1, <2>4, <2>5, ConfigureCalm
  <2>7. Calm(x, z)
    BY <2>2, <2>4, CalmTrans
  <2>8. Calm(x, configure_read(z, m.c, policy))
    BY <2>6, <2>7, CalmTrans
  <2> QED BY <2>1, <2>8
<1>3. CASE ~valid(x, m.c)
  <2>1. Handle(x, m, r, policy) = cleanup(x)
    BY <1>3 DEF Handle
  <2> QED BY <2>1, CleanupCalm
<1> QED BY <1>2, <1>3

(* The broker with another scribe                                          *)
WithScribe(x, c, t) == [x EXCEPT !.conn = [x.conn EXCEPT ![c] = t]]

(* It differs in that scribe only.                                         *)
LEMMA WithScribeFacts ==
  ASSUME NEW x \in BrokerT, NEW c \in Conns, NEW t \in ScribeT
  PROVE  /\ WithScribe(x, c, t) \in BrokerT
         /\ WithScribe(x, c, t).conn[c] = t
         /\ \A d \in Conns : d # c => WithScribe(x, c, t).conn[d] = x.conn[d]
         /\ WithScribe(x, c, t).door = x.door /\ WithScribe(x, c, t).published = x.published
         /\ WithScribe(x, c, t).crashed = x.crashed /\ WithScribe(x, c, t).alive = x.alive
         /\ WithScribe(x, c, t).cache = x.cache /\ WithScribe(x, c, t).awaiting = x.awaiting
<1> DEFINE f == [x.conn EXCEPT ![c] = t]
<1>1. f \in [Conns -> ScribeT] /\ f[c] = t /\ \A d \in Conns : d # c => f[d] = x.conn[d]
  BY DEF BrokerT
<1> HIDE DEF f
<1>2. WithScribe(x, c, t) = [x EXCEPT !.conn = f]
  BY DEF WithScribe, f
<1> QED BY <1>1, <1>2 DEF BrokerT

(* More bytes are handed to the broker.                                    *)
Saw(s, b) == [s EXCEPT !.seen = s.seen \o b]

(* Nothing else of the scribe changes.                                     *)
LEMMA SawFacts ==
  ASSUME NEW s \in ScribeT, NEW b \in Seq(Nat)
  PROVE  /\ Saw(s, b) \in ScribeT /\ Saw(s, b).seen = s.seen \o b
         /\ Saw(s, b).st = s.st /\ Saw(s, b).rd = s.rd /\ Saw(s, b).net = s.net
         /\ Saw(s, b).sent = s.sent /\ Saw(s, b).launched = s.launched
         /\ Reading(Saw(s, b)) = Reading(s)
         /\ Started(s) => Started(Saw(s, b))
         /\ OutputOK(s) => OutputOK(Saw(s, b))
<1> DEFINE t == Saw(s, b)
<1>1. s.seen \o b \in Seq(Nat)
  BY DEF ScribeT
<1>2. t \in ScribeT
  BY <1>1 DEF Saw, ScribeT
<1>3. /\ t.seen = s.seen \o b /\ t.st = s.st /\ t.rd = s.rd /\ t.net = s.net /\ t.sent = s.sent
      /\ t.launched = s.launched /\ t.rbuf = s.rbuf
  BY DEF Saw, ScribeT
<1>4. /\ t.flushed = s.flushed /\ t.written = s.written /\ t.wr = s.wr /\ t.broken = s.broken
      /\ t.out = s.out /\ t.wr_buf = s.wr_buf /\ t.wr_offline = s.wr_offline
  BY DEF Saw, ScribeT
<1> HIDE DEF t
<1>5. Reading(t) = Reading(s) /\ (Started(s) => Started(t))
  BY <1>3 DEF Reading, Started
<1>6. OutputOK(s) => OutputOK(t)
  BY <1>4 DEF OutputOK, InFlight
<1> QED BY <1>2, <1>3, <1>5, <1>6 DEF t

(* A data message hands over its bytes.                                    *)
LEMMA DataShape ==
  ASSUME NEW x \in BrokerT, NEW m \in MessageT, m.kind = "data", NEW r, NEW policy
  PROVE  /\ m.c \in Conns /\ m.bytes \in Seq(Nat)
         /\ Handle(x, m, r, policy) = React(WithScribe(x, m.c, Saw(x.conn[m.c], m.bytes)), r, m.c)
<1>1. m.c \in Conns /\ m.bytes \in Seq(Nat)
  BY DEF MessageT
<1>2. x.conn[m.c] \in ScribeT /\ x.conn \in [Conns -> ScribeT]
  BY <1>1 DEF BrokerT
<1>3. [x EXCEPT !.conn[m.c].seen = @ \o m.bytes] = WithScribe(x, m.c, Saw(x.conn[m.c], m.bytes))
  BY <1>1, <1>2 DEF WithScribe, Saw, BrokerT, ScribeT
<1>4. Handle(x, m, r, policy) = React([x EXCEPT !.conn[m.c].seen = @ \o m.bytes], r, m.c)
  BY DEF Handle
<1> QED BY <1>1, <1>3, <1>4

(* The broker y after the first i messages of the cache q, which it went   *)
(* through from x on                                                       *)
Going(x, q, y, i) ==
  /\ y \in BrokerT /\ y.cache = <<>>
  /\ \A c \in Conns :
       LET s == x.conn[c]
           t == y.conn[c]
       IN /\ OutputOK(t) /\ Started(t)
          /\ t.st = "attached" =>
               /\ y.alive /\ s.st = "attached" /\ t.seen = s.seen \o Skipped(q, c)[i]
               /\ Reading(t) = Reading(s) /\ t.net = s.net /\ t.sent = s.sent
          /\ s.st \in Early =>
               /\ t.st = s.st /\ t.rd = s.rd
               /\ t.seen = s.seen /\ t.net = s.net /\ t.sent = s.sent
          /\ t.st \in Early => s.st \in Early
  /\ \A p \in Ports : y.door[p] = x.door[p] \/ (~y.alive /\ ClosedDoor(x.door[p], y.door[p]))
  /\ y.published = x.published /\ y.crashed = x.crashed

(* The broker gets to the next message of the cache.                       *)
LEMMA ReplayStep ==
  ASSUME NEW x \in BrokerT, NEW q \in Seq(MessageT), NEW y, NEW i \in 1 .. Len(q),
         NEW policy \in Policies, Going(x, q, y, i - 1),
         q[i].kind = "data" => x.conn[q[i].c].st \notin Early
  PROVE  Going(x, q, StepReplay(y, q[i], policy), i)
<1> DEFINE m == q[i]
           z == StepReplay(y, m, policy)
<1>1. m \in MessageT /\ m.kind \in {"data", "closed", "accepted"} /\ y \in BrokerT /\ y.alive \in BOOLEAN
  BY DEF MessageT, Going, BrokerT
<1>2. \A c \in Conns : Skipped(q, c)[i] = StepBytes(Skipped(q, c)[i - 1], m, c)
  BY SkippedSteps
<1>3. \A c \in Conns : ~ (m.kind = "data" /\ m.c = c) => Skipped(q, c)[i] = Skipped(q, c)[i - 1]
  BY <1>2 DEF StepBytes
<1> HIDE DEF m
<1>4. CASE ~y.alive
  <2>1. z = y
    BY <1>4 DEF StepReplay
  <2>2. Going(x, q, y, i)
    BY <1>4 DEF Going
  <2> HIDE DEF z
  <2>3. Going(x, q, z, i)
    BY <2>1, <2>2
  <2> QED BY <2>3 DEF z, m
<1>5. CASE y.alive /\ m.kind = "closed"
  <2>1. z = y
    BY <1>5 DEF StepReplay, Handle, React
  <2>2. \A c \in Conns : Skipped(q, c)[i] = Skipped(q, c)[i - 1]
    BY <1>3, <1>5
  <2> HIDE DEF z
  <2>3. Going(x, q, z, i)
    BY ZenonT(60), <2>1, <2>2 DEF Going
  <2> QED BY <2>3 DEF z, m
<1>6. CASE y.alive /\ m.kind = "accepted"
  <2>1. z = Handle(y, m, "none", policy)
    BY <1>6 DEF StepReplay
  <2>2. Calm(y, z)
    BY <1>1, <1>6, <2>1, AcceptedCalm
  <2>3. \A c \in Conns : Skipped(q, c)[i] = Skipped(q, c)[i - 1]
    BY <1>3, <1>6
  <2> HIDE DEF z
  <2>4. z \in BrokerT /\ z.cache = <<>> /\ z.published = x.published /\ z.crashed = x.crashed
    BY <2>2 DEF Going, Calm
  <2>5. \A p \in Ports : z.door[p] = x.door[p] \/ (~z.alive /\ ClosedDoor(x.door[p], z.door[p]))
    BY <1>6, <2>2 DEF Going, Calm
  <2>6. ASSUME NEW c \in Conns, z.conn[c].st = "attached" PROVE z.alive
    BY <1>6, <2>2, <2>6 DEF Calm
  <2>7. \A c \in Conns : CalmScribe(y.conn[c], z.conn[c])
    BY <2>2 DEF Calm
  <2>8. ASSUME NEW c \in Conns
        PROVE  LET s == x.conn[c]
                   t == z.conn[c]
               IN /\ OutputOK(t) /\ Started(t)
                  /\ t.st = "attached" =>
                       /\ z.alive /\ s.st = "attached" /\ t.seen = s.seen \o Skipped(q, c)[i]
                       /\ Reading(t) = Reading(s) /\ t.net = s.net /\ t.sent = s.sent
                  /\ s.st \in Early =>
                       /\ t.st = s.st /\ t.rd = s.rd
                       /\ t.seen = s.seen /\ t.net = s.net /\ t.sent = s.sent
                  /\ t.st \in Early => s.st \in Early
    <3>1. CalmScribe(y.conn[c], z.conn[c])
      BY <2>7
    <3>2. /\ OutputOK(y.conn[c]) /\ Started(y.conn[c])
          /\ y.conn[c].st = "attached" =>
               /\ x.conn[c].st = "attached"
               /\ y.conn[c].seen = x.conn[c].seen \o Skipped(q, c)[i]
               /\ Reading(y.conn[c]) = Reading(x.conn[c]) /\ y.conn[c].net = x.conn[c].net
               /\ y.conn[c].sent = x.conn[c].sent
          /\ x.conn[c].st \in Early =>
               /\ y.conn[c].st = x.conn[c].st /\ y.conn[c].rd = x.conn[c].rd
               /\ y.conn[c].seen = x.conn[c].seen /\ y.conn[c].net = x.conn[c].net
               /\ y.conn[c].sent = x.conn[c].sent
          /\ y.conn[c].st \in Early => x.conn[c].st \in Early
      BY ZenonT(60), <2>3 DEF Going
    <3> QED BY <2>6, <3>1, <3>2 DEF CalmScribe, Early
  <2>9. Going(x, q, z, i)
    BY <2>4, <2>5, <2>8 DEF Going
  <2> QED BY <2>9 DEF z, m
<1>7. CASE y.alive /\ m.kind = "data"
  <2> DEFINE t == Saw(y.conn[m.c], m.bytes)
  <2>1. m.c \in Conns /\ m.bytes \in Seq(Nat) /\ z = WithScribe(y, m.c, t)
    <3>1. z = Handle(y, m, "none", policy)
      BY <1>7 DEF StepReplay
    <3>2. /\ m.c \in Conns /\ m.bytes \in Seq(Nat)
          /\ Handle(y, m, "none", policy) = React(WithScribe(y, m.c, t), "none", m.c)
      BY <1>1, <1>7, DataShape
    <3> QED BY <3>1, <3>2 DEF React
  <2>2. y.conn[m.c] \in ScribeT
    BY <1>1, <2>1 DEF BrokerT
  <2>3. /\ t \in ScribeT /\ t.seen = y.conn[m.c].seen \o m.bytes
        /\ t.st = y.conn[m.c].st /\ t.rd = y.conn[m.c].rd /\ t.net = y.conn[m.c].net
        /\ t.sent = y.conn[m.c].sent /\ Reading(t) = Reading(y.conn[m.c])
        /\ Started(y.conn[m.c]) => Started(t)
        /\ OutputOK(y.conn[m.c]) => OutputOK(t)
    BY <2>1, <2>2, SawFacts
  <2> HIDE DEF t
  <2>4. /\ z \in BrokerT /\ z.conn[m.c] = t /\ \A d \in Conns : d # m.c => z.conn[d] = y.conn[d]
        /\ z.door = y.door /\ z.published = y.published /\ z.crashed = y.crashed
        /\ z.alive = y.alive /\ z.cache = y.cache
    BY <1>1, <2>1, <2>3, WithScribeFacts
  <2>5. x.conn[m.c].st \notin Early
    BY <1>7 DEF m
  <2> HIDE DEF z
  <2>6. ASSUME NEW c \in Conns
        PROVE  /\ OutputOK(z.conn[c]) /\ Started(z.conn[c])
               /\ z.conn[c].st = "attached" =>
                       /\ z.alive /\ x.conn[c].st = "attached"
                       /\ z.conn[c].seen = x.conn[c].seen \o Skipped(q, c)[i]
                       /\ Reading(z.conn[c]) = Reading(x.conn[c]) /\ z.conn[c].net = x.conn[c].net
                       /\ z.conn[c].sent = x.conn[c].sent
               /\ x.conn[c].st \in Early =>
                       /\ z.conn[c].st = x.conn[c].st /\ z.conn[c].rd = x.conn[c].rd
                       /\ z.conn[c].seen = x.conn[c].seen /\ z.conn[c].net = x.conn[c].net
                       /\ z.conn[c].sent = x.conn[c].sent
               /\ z.conn[c].st \in Early => x.conn[c].st \in Early
    <3>1. /\ OutputOK(y.conn[c]) /\ Started(y.conn[c])
          /\ y.conn[c].st = "attached" =>
               /\ x.conn[c].st = "attached"
               /\ y.conn[c].seen = x.conn[c].seen \o Skipped(q, c)[i - 1]
               /\ Reading(y.conn[c]) = Reading(x.conn[c]) /\ y.conn[c].net = x.conn[c].net
               /\ y.conn[c].sent = x.conn[c].sent
          /\ x.conn[c].st \in Early =>
               /\ y.conn[c].st = x.conn[c].st /\ y.conn[c].rd = x.conn[c].rd
               /\ y.conn[c].seen = x.conn[c].seen /\ y.conn[c].net = x.conn[c].net
               /\ y.conn[c].sent = x.conn[c].sent
          /\ y.conn[c].st \in Early => x.conn[c].st \in Early
      BY DEF Going
    <3>2. CASE c # m.c
      <4>1. Skipped(q, c)[i] = Skipped(q, c)[i - 1] /\ z.conn[c] = y.conn[c]
        BY <1>3, <2>4, <3>2
      <4> QED BY <1>7, <2>4, <3>1, <4>1
    <3>3. CASE c = m.c
      <4>1. Skipped(q, c)[i] = Skipped(q, c)[i - 1] \o m.bytes
        BY <1>2, <1>7, <3>3 DEF StepBytes
      <4>2. Skipped(q, c)[i - 1] \in Seq(Nat)
        <5>1. i - 1 \in 0 .. Len(q)
          OBVIOUS
        <5> QED BY <5>1, SkippedSteps
      <4>3. x.conn[c].seen \in Seq(Nat)
        BY DEF BrokerT, ScribeT
      <4>4. (x.conn[c].seen \o Skipped(q, c)[i - 1]) \o m.bytes = x.conn[c].seen \o Skipped(q, c)[i]
        <5> DEFINE seen == x.conn[c].seen
                   skipped == Skipped(q, c)[i - 1]
                   bytes == m.bytes
        <5>1. seen \in Seq(Nat) /\ skipped \in Seq(Nat) /\ bytes \in Seq(Nat)
          BY <2>1, <4>2, <4>3
        <5> HIDE DEF seen, skipped, bytes
        <5>2. (seen \o skipped) \o bytes = seen \o (skipped \o bytes)
          BY <5>1, BytesAssociative
        <5> QED BY <4>1, <5>2 DEF seen, skipped, bytes
      <4>5. x.conn[c].st \notin Early /\ z.conn[c] = t
        BY <2>4, <2>5, <3>3
      <4> QED BY ZenonT(60), <1>7, <2>3, <2>4, <3>1, <3>3, <4>4, <4>5
    <3> QED BY <3>2, <3>3
  <2>7. Going(x, q, z, i)
    <3>1. z \in BrokerT /\ z.cache = <<>> /\ z.published = x.published /\ z.crashed = x.crashed
      BY <2>4 DEF Going
    <3>2. \A p \in Ports : z.door[p] = x.door[p] \/ (~z.alive /\ ClosedDoor(x.door[p], z.door[p]))
      BY <2>4 DEF Going
    <3> QED BY <2>6, <3>1, <3>2 DEF Going
  <2> QED BY <2>7 DEF z, m
<1> QED BY <1>1, <1>4, <1>5, <1>6, <1>7

-----------------------------------------------------------------------------
(* The part of the invariant about the broker's state, and steps that keep *)
(* it and the connections that wait for a posted connect                   *)
Safe(x) == x \in BrokerT /\ ConnsInv(x) /\ CacheInv(x) /\ DoorsInv(x)

Keeps(x, y) ==
  /\ Safe(y)
  /\ \A c \in Conns : x.conn[c].st = "unassigned" => y.conn[c].st = "unassigned"

(* Steps that keep it can follow each other.                               *)
LEMMA KeepsTrans ==
  ASSUME NEW x, NEW y, NEW z, Keeps(x, y), Keeps(y, z)
  PROVE  Keeps(x, z)
BY DEF Keeps

(* A calm change keeps the invariant.                                      *)
LEMMA CalmKeeps ==
  ASSUME NEW x, NEW y, Safe(x), Calm(x, y)
  PROVE  Keeps(x, y)
<1>1. /\ y \in BrokerT /\ ConnsInv(y) /\ CacheInv(y) /\ DoorsInv(y)
      /\ \A c \in Conns : x.conn[c].st \in Early => y.conn[c].st = x.conn[c].st
  BY CalmInv DEF Safe
<1> QED BY <1>1 DEF Keeps, Safe, Early

(* The broker that went through its cache                                  *)
LEMMA ReplayKeeps ==
  ASSUME NEW x, Safe(x), x.alive, NEW policy \in Policies
  PROVE  Keeps(x, Replay([x EXCEPT !.awaiting = FALSE, !.cache = <<>>], x.cache, policy)[Len(x.cache)])
<1> DEFINE q == x.cache
           x0 == [x EXCEPT !.awaiting = FALSE, !.cache = <<>>]
           run == Replay(x0, q, policy)
           n == Len(q)
           y == run[n]
           T == {i \in 0 .. n : Going(x0, q, run[i], i)}
<1>1. q \in Seq(MessageT) /\ n \in Nat
  BY DEF Safe, BrokerT
<1>2. /\ x0 \in BrokerT /\ x0.conn = x.conn /\ x0.door = x.door /\ x0.published = x.published
      /\ x0.crashed = x.crashed /\ x0.alive = x.alive /\ x0.cache = <<>>
  <2>1. <<>> \in Seq(MessageT)
    OBVIOUS
  <2> QED BY <2>1 DEF Safe, BrokerT
<1>3. run = [i \in 0 .. n |-> IF i = 0 THEN x0 ELSE StepReplay(run[i - 1], q[i], policy)]
  BY <1>1, ReplayDef
<1> HIDE DEF run, x0, q, n
<1>4. run[0] = x0 /\ \A i \in 1 .. n : run[i] = StepReplay(run[i - 1], q[i], policy)
  BY <1>1, <1>3
<1>5. \A c \in Conns : OutputOK(x.conn[c]) /\ Started(x.conn[c]) /\ InputOK(x, c)
  BY DEF Safe, ConnsInv
<1>6. \A i \in 1 .. n : q[i].kind = "data" => x.conn[q[i].c].st \notin Early
  BY DEF Safe, CacheInv, q, n
<1>7. 0 \in T
  <2>1. \A c \in Conns : Skipped(q, c)[0] = <<>> /\ x.conn[c].seen \in Seq(Nat)
    BY <1>1, SkippedSteps DEF Safe, BrokerT, ScribeT
  <2>2. \A c \in Conns : x.conn[c].seen = x.conn[c].seen \o Skipped(q, c)[0]
    BY <2>1, ConcatEmptySeq
  <2>3. Going(x0, q, x0, 0)
    BY <1>2, <1>5, <2>2 DEF Going
  <2> QED BY <1>1, <1>4, <2>3
<1>8. ASSUME NEW i \in 1 .. n, i - 1 \in T PROVE i \in T
  <2>1. Going(x0, q, run[i - 1], i - 1)
    BY <1>8
  <2>2. i \in 1 .. Len(q) /\ (q[i].kind = "data" => x0.conn[q[i].c].st \notin Early)
    BY <1>2, <1>6 DEF n
  <2>3. Going(x0, q, StepReplay(run[i - 1], q[i], policy), i)
    BY <1>1, <1>2, <2>1, <2>2, ReplayStep
  <2> QED BY <1>4, <2>3
<1>9. T = 0 .. n
  <2>1. T \in SUBSET (0 .. n)
    OBVIOUS
  <2> HIDE DEF T
  <2> QED BY <1>1, <1>7, <1>8, <2>1, CountUp
<1>10. Going(x0, q, y, n)
  <2>1. n \in T
    BY <1>1, <1>9
  <2> QED BY <2>1
<1> HIDE DEF y
<1>11. /\ y \in BrokerT /\ y.cache = <<>> /\ y.published = x.published
       /\ \A p \in Ports : y.door[p] = x.door[p] \/ (~y.alive /\ ClosedDoor(x.door[p], y.door[p]))
  BY <1>2, <1>10 DEF Going
<1>12. ASSUME NEW c \in Conns
       PROVE  /\ OutputOK(y.conn[c]) /\ Started(y.conn[c])
              /\ y.conn[c].st = "attached" =>
                   /\ x.conn[c].st = "attached" /\ y.conn[c].seen = x.conn[c].seen \o AllSkipped(q, c)
                   /\ Reading(y.conn[c]) = Reading(x.conn[c]) /\ y.conn[c].net = x.conn[c].net
                   /\ y.conn[c].sent = x.conn[c].sent
              /\ x.conn[c].st \in Early =>
                   /\ y.conn[c].st = x.conn[c].st /\ y.conn[c].rd = x.conn[c].rd
                   /\ y.conn[c].seen = x.conn[c].seen /\ y.conn[c].net = x.conn[c].net
                   /\ y.conn[c].sent = x.conn[c].sent
              /\ y.conn[c].st \in Early => x.conn[c].st \in Early
  BY <1>2, <1>10 DEF Going, AllSkipped, n
<1>13. ASSUME NEW c \in Conns PROVE InputOK(y, c)
  <2>1. AllSkipped(y.cache, c) = <<>>
    BY <1>11, SkippedEmpty
  <2>2. InputOK(x, c)
    BY <1>5
  <2>3. ASSUME y.conn[c].st = "attached"
        PROVE  y.conn[c].seen \o AllSkipped(y.cache, c) \o Reading(y.conn[c]) \o y.conn[c].net
                 = Bytes(y.conn[c].sent)
    <3>1. y.conn[c].seen \in Seq(Nat)
      BY <1>11 DEF BrokerT, ScribeT
    <3>2. y.conn[c].seen \o AllSkipped(y.cache, c) = y.conn[c].seen
      BY <2>1, <3>1, ConcatEmptySeq
    <3>3. x.conn[c].seen \o AllSkipped(q, c) \o Reading(x.conn[c]) \o x.conn[c].net
            = Bytes(x.conn[c].sent)
      BY <1>12, <2>2, <2>3 DEF InputOK, q
    <3> QED BY <1>12, <2>3, <3>2, <3>3
  <2>4. ASSUME y.conn[c].st \in Early PROVE Untouched(y.conn[c])
    <3>1. Untouched(x.conn[c])
      BY <1>12, <2>2, <2>4 DEF InputOK
    <3> QED BY <1>12, <2>4, <3>1 DEF Untouched
  <2> QED BY <2>1, <2>3, <2>4 DEF InputOK
<1>14. CacheInv(y)
  BY <1>11 DEF CacheInv
<1>15. DoorsInv(y)
  <2>1. \A p \in Ports : /\ y.door[p].acc = "ready" => x.door[p].acc = "ready"
                         /\ y.door[p].conn = x.door[p].conn
                         /\ y.alive => y.door[p] = x.door[p]
    BY <1>11 DEF ClosedDoor, Abort
  <2>2. DoorsInv(x)
    BY DEF Safe
  <2>3. ASSUME NEW p \in Ports, y.door[p].acc = "ready"
        PROVE  y.door[p].conn \in Conns /\ y.conn[y.door[p].conn].st = "accepting"
    <3>1. x.door[p].acc = "ready" /\ x.door[p].conn = y.door[p].conn
      BY <2>1, <2>3
    <3>2. x.door[p].conn \in Conns /\ x.conn[x.door[p].conn].st = "accepting"
      BY <2>2, <3>1 DEF DoorsInv
    <3> QED BY <1>12, <3>1, <3>2 DEF Early
  <2>4. ASSUME NEW p \in Ports, y.alive, y.published[p] # None
        PROVE  /\ y.door[p].st = "attached" \/ y.door[p].failed
               /\ y.door[p].acc \in {"idle", "failed"} => y.door[p].failed
    BY <1>11, <2>1, <2>2, <2>4 DEF DoorsInv
  <2>5. ASSUME NEW p \in Ports, NEW k \in Ports, p # k,
               y.door[p].acc = "ready", y.door[k].acc = "ready"
        PROVE  y.door[p].conn # y.door[k].conn
    BY <2>1, <2>2, <2>5 DEF DoorsInv
  <2> QED BY <2>3, <2>4, <2>5 DEF DoorsInv
<1>16. Safe(y)
  BY <1>11, <1>12, <1>13, <1>14, <1>15 DEF Safe, ConnsInv
<1>17. \A c \in Conns : x.conn[c].st = "unassigned" => y.conn[c].st = "unassigned"
  BY <1>12 DEF Early
<1>18. Keeps(x, y)
  BY <1>16, <1>17 DEF Keeps
<1> QED BY <1>18 DEF y, run, x0, n, q

(* A step that changes one scribe keeps the invariant if the scribe meets  *)
(* its part and no completed accept has a connection that is known now.    *)
LEMMA ScribeSafe ==
  ASSUME NEW x, Safe(x), NEW c \in Conns, NEW t \in ScribeT, OutputOK(t), Started(t),
         t.st = "attached" => t.seen \o AllSkipped(x.cache, c) \o Reading(t) \o t.net = Bytes(t.sent),
         t.st \in Early => x.conn[c].st \in Early /\ Untouched(t),
         t.st # "accepting" => \A p \in Ports : x.door[p].acc = "ready" => x.door[p].conn # c
  PROVE  Safe(WithScribe(x, c, t))
<1> DEFINE y == WithScribe(x, c, t)
<1>1. x \in BrokerT /\ ConnsInv(x) /\ CacheInv(x) /\ DoorsInv(x)
  BY DEF Safe
<1>2. /\ y \in BrokerT /\ y.conn[c] = t /\ \A d \in Conns : d # c => y.conn[d] = x.conn[d]
      /\ y.door = x.door /\ y.published = x.published /\ y.alive = x.alive
      /\ y.cache = x.cache /\ y.awaiting = x.awaiting
  BY <1>1, WithScribeFacts
<1> HIDE DEF y
<1>3. ASSUME NEW d \in Conns PROVE OutputOK(y.conn[d]) /\ Started(y.conn[d]) /\ InputOK(y, d)
  <2>1. OutputOK(x.conn[d]) /\ Started(x.conn[d]) /\ InputOK(x, d)
    BY <1>1 DEF ConnsInv
  <2>2. CASE d = c
    <3>1. x.conn[c].st \in Early => AllSkipped(x.cache, c) = <<>>
      BY <2>1, <2>2 DEF InputOK
    <3> QED BY <1>2, <2>2, <3>1 DEF InputOK
  <2>3. CASE d # c
    BY <1>2, <2>1, <2>3 DEF InputOK
  <2> QED BY <2>2, <2>3
<1>4. \A d \in Conns : y.conn[d].st \in Early => x.conn[d].st \in Early
  BY <1>2
<1>5. CacheInv(y)
  <2>1. ASSUME NEW i \in 1 .. Len(y.cache), y.cache[i].kind = "data"
        PROVE  y.conn[y.cache[i].c].st \notin Early
    <3>1. x.cache[i] \in MessageT /\ i \in 1 .. Len(x.cache) /\ x.cache[i].kind = "data"
      BY <1>1, <1>2, <2>1 DEF BrokerT
    <3>2. x.cache[i].c \in Conns
      BY <3>1 DEF MessageT
    <3>3. x.conn[x.cache[i].c].st \notin Early
      BY <1>1, <3>1 DEF CacheInv
    <3> QED BY <1>2, <1>4, <3>2, <3>3
  <2> QED BY <1>1, <1>2, <2>1 DEF CacheInv
<1>6. DoorsInv(y)
  <2>1. ASSUME NEW p \in Ports, y.door[p].acc = "ready"
        PROVE  y.door[p].conn \in Conns /\ y.conn[y.door[p].conn].st = "accepting"
    <3>1. x.door[p].conn \in Conns /\ x.conn[x.door[p].conn].st = "accepting"
      BY <1>1, <1>2, <2>1 DEF DoorsInv
    <3>2. x.door[p].conn = c => t.st = "accepting"
      BY <1>2, <2>1
    <3> QED BY <1>2, <3>1, <3>2
  <2> QED BY <1>1, <1>2, <2>1 DEF DoorsInv
<1>7. Safe(y)
  BY <1>2, <1>3, <1>5, <1>6 DEF Safe, ConnsInv
<1> QED BY <1>7 DEF y

(* A completed accept has a connection that is being accepted.             *)
LEMMA NoSuchAccept ==
  ASSUME NEW x, Safe(x), NEW c \in Conns, x.conn[c].st # "accepting"
  PROVE  \A p \in Ports : x.door[p].acc = "ready" => x.door[p].conn # c
BY DEF Safe, DoorsInv

(* A change of a scribe that leaves its input alone                        *)
LEMMA SameKeeps ==
  ASSUME NEW x, Safe(x), NEW c \in Conns, NEW t \in ScribeT, OutputOK(t), Started(t),
         t.st = x.conn[c].st, t.seen = x.conn[c].seen, t.net = x.conn[c].net, t.sent = x.conn[c].sent,
         Reading(t) = Reading(x.conn[c]), x.conn[c].rd = "idle" => t.rd = "idle"
  PROVE  Keeps(x, WithScribe(x, c, t))
<1>1. InputOK(x, c) /\ x \in BrokerT
  BY DEF Safe, ConnsInv
<1>2. t.st = "attached" => t.seen \o AllSkipped(x.cache, c) \o Reading(t) \o t.net = Bytes(t.sent)
  BY <1>1 DEF InputOK
<1>3. t.st \in Early => x.conn[c].st \in Early /\ Untouched(t)
  BY <1>1 DEF InputOK, Untouched
<1>4. t.st # "accepting" => \A p \in Ports : x.door[p].acc = "ready" => x.door[p].conn # c
  BY NoSuchAccept
<1>5. Safe(WithScribe(x, c, t))
  BY <1>2, <1>3, <1>4, ScribeSafe
<1>6. /\ WithScribe(x, c, t).conn[c] = t
      /\ \A d \in Conns : d # c => WithScribe(x, c, t).conn[d] = x.conn[d]
  BY <1>1, WithScribeFacts
<1> QED BY <1>5, <1>6 DEF Keeps

(* A connection that is given up                                           *)
LEMMA GoneKeeps ==
  ASSUME NEW x, Safe(x), NEW c \in Conns, NEW t \in ScribeT, OutputOK(t), Started(t),
         t.st = "detached", x.conn[c].st \notin Early
  PROVE  Keeps(x, WithScribe(x, c, t))
<1>1. x \in BrokerT
  BY DEF Safe
<1>2. t.st # "attached" /\ t.st \notin Early /\ x.conn[c].st # "accepting" /\ x.conn[c].st # "unassigned"
  BY DEF Early
<1>3. Safe(WithScribe(x, c, t))
  BY <1>2, NoSuchAccept, ScribeSafe
<1>4. \A d \in Conns : d # c => WithScribe(x, c, t).conn[d] = x.conn[d]
  BY <1>1, WithScribeFacts
<1> QED BY <1>2, <1>3, <1>4 DEF Keeps

(* The broker with another doorman and another actor published there       *)
WithDoor(x, p, e, a) ==
  [x EXCEPT !.door = [x.door EXCEPT ![p] = e], !.published = [x.published EXCEPT ![p] = a]]

(* It differs at that port only.                                           *)
LEMMA WithDoorFacts ==
  ASSUME NEW x \in BrokerT, NEW p \in Ports, NEW e \in DoormanT, NEW a \in Actors \cup {None}
  PROVE  /\ WithDoor(x, p, e, a) \in BrokerT
         /\ WithDoor(x, p, e, a).door[p] = e /\ WithDoor(x, p, e, a).published[p] = a
         /\ \A q \in Ports : q # p => /\ WithDoor(x, p, e, a).door[q] = x.door[q]
                                      /\ WithDoor(x, p, e, a).published[q] = x.published[q]
         /\ WithDoor(x, p, e, a).conn = x.conn
         /\ WithDoor(x, p, e, a).crashed = x.crashed /\ WithDoor(x, p, e, a).alive = x.alive
         /\ WithDoor(x, p, e, a).cache = x.cache /\ WithDoor(x, p, e, a).awaiting = x.awaiting
<1> DEFINE f == [x.door EXCEPT ![p] = e]
           g == [x.published EXCEPT ![p] = a]
<1>1. f \in [Ports -> DoormanT] /\ f[p] = e /\ \A q \in Ports : q # p => f[q] = x.door[q]
  BY DEF BrokerT
<1>2. g \in [Ports -> Actors \cup {None}] /\ g[p] = a /\ \A q \in Ports : q # p => g[q] = x.published[q]
  BY DEF BrokerT
<1> HIDE DEF f, g
<1>3. WithDoor(x, p, e, a) = [x EXCEPT !.door = f, !.published = g]
  BY DEF WithDoor, f, g
<1> QED BY <1>1, <1>2, <1>3 DEF BrokerT

(* A step that changes one doorman keeps the invariant if the doorman      *)
(* meets its part.                                                         *)
LEMMA DoorKeeps ==
  ASSUME NEW x, Safe(x), NEW p \in Ports, NEW e \in DoormanT, NEW a \in Actors \cup {None},
         e.acc = "ready" => /\ e.conn \in Conns /\ x.conn[e.conn].st = "accepting"
                            /\ \A q \in Ports : q # p /\ x.door[q].acc = "ready" => x.door[q].conn # e.conn,
         x.alive /\ a # None => /\ e.st = "attached" \/ e.failed
                                /\ e.acc \in {"idle", "failed"} => e.failed
  PROVE  Keeps(x, WithDoor(x, p, e, a))
<1> DEFINE y == WithDoor(x, p, e, a)
<1>1. x \in BrokerT /\ ConnsInv(x) /\ CacheInv(x) /\ DoorsInv(x)
  BY DEF Safe
<1>2. /\ y \in BrokerT /\ y.door[p] = e /\ y.published[p] = a
      /\ \A q \in Ports : q # p => y.door[q] = x.door[q] /\ y.published[q] = x.published[q]
      /\ y.conn = x.conn /\ y.alive = x.alive /\ y.cache = x.cache /\ y.awaiting = x.awaiting
  BY <1>1, WithDoorFacts
<1> HIDE DEF y
<1>3. ConnsInv(y) /\ CacheInv(y)
  BY <1>1, <1>2 DEF ConnsInv, CacheInv, InputOK
<1>4. DoorsInv(y)
  <2>1. ASSUME NEW q \in Ports, y.door[q].acc = "ready"
        PROVE  y.door[q].conn \in Conns /\ y.conn[y.door[q].conn].st = "accepting"
    BY <1>1, <1>2, <2>1 DEF DoorsInv
  <2>2. ASSUME NEW q \in Ports, y.alive, y.published[q] # None
        PROVE  /\ y.door[q].st = "attached" \/ y.door[q].failed
               /\ y.door[q].acc \in {"idle", "failed"} => y.door[q].failed
    <3>1. CASE q = p
      BY <1>2, <2>2, <3>1
    <3>2. CASE q # p
      BY <1>1, <1>2, <2>2, <3>2 DEF DoorsInv
    <3> QED BY <3>1, <3>2
  <2>3. ASSUME NEW q \in Ports, NEW r \in Ports, q # r, y.door[q].acc = "ready", y.door[r].acc = "ready"
        PROVE  y.door[q].conn # y.door[r].conn
    <3>1. CASE q = p
      BY <1>2, <2>3, <3>1
    <3>2. CASE r = p
      BY <1>2, <2>3, <3>2
    <3>3. CASE q # p /\ r # p
      BY <1>1, <1>2, <2>3, <3>3 DEF DoorsInv
    <3> QED BY <3>1, <3>2, <3>3
  <2> QED BY <2>1, <2>2, <2>3 DEF DoorsInv
<1>5. Keeps(x, y)
  BY <1>2, <1>3, <1>4 DEF Keeps, Safe
<1> QED BY <1>5 DEF y

(* The program that crashes in a callback                                  *)
LEMMA CrashKeeps ==
  ASSUME NEW x, Safe(x)
  PROVE  Keeps(x, [x EXCEPT !.crashed = TRUE])
<1> DEFINE y == [x EXCEPT !.crashed = TRUE]
<1>1. /\ y \in BrokerT /\ y.conn = x.conn /\ y.door = x.door /\ y.published = x.published
      /\ y.alive = x.alive /\ y.cache = x.cache /\ y.awaiting = x.awaiting
  BY DEF Safe, BrokerT
<1> HIDE DEF y
<1>2. ConnsInv(y)
  BY <1>1 DEF Safe, ConnsInv, InputOK
<1>3. CacheInv(y)
  BY <1>1 DEF Safe, CacheInv
<1>4. DoorsInv(y)
  BY <1>1 DEF Safe, DoorsInv
<1>5. Keeps(x, y)
  BY <1>1, <1>2, <1>3, <1>4 DEF Keeps, Safe
<1> QED BY <1>5 DEF y

(* A message without bytes that is skipped                                 *)
LEMMA SkipKeeps ==
  ASSUME NEW x, Safe(x), x.awaiting, NEW m \in MessageT, m.kind # "data"
  PROVE  Keeps(x, [x EXCEPT !.cache = Append(x.cache, m)])
<1> DEFINE q == Append(x.cache, m)
           y == [x EXCEPT !.cache = q]
<1>1. x \in BrokerT /\ ConnsInv(x) /\ CacheInv(x) /\ DoorsInv(x) /\ x.cache \in Seq(MessageT)
  BY DEF Safe, BrokerT
<1>2. q \in Seq(MessageT) /\ \A i \in 1 .. Len(q) : (i \in 1 .. Len(x.cache) /\ q[i] = x.cache[i]) \/ q[i] = m
  BY <1>1
<1>3. \A c \in Conns : AllSkipped(q, c) = AllSkipped(x.cache, c)
  BY <1>1, SkippedAppend DEF StepBytes
<1> HIDE DEF q
<1>4. /\ y \in BrokerT /\ y.conn = x.conn /\ y.door = x.door /\ y.published = x.published
      /\ y.alive = x.alive /\ y.cache = q /\ y.awaiting = x.awaiting
  BY <1>1, <1>2 DEF BrokerT
<1> HIDE DEF y
<1>5. ConnsInv(y)
  BY <1>1, <1>3, <1>4 DEF ConnsInv, InputOK
<1>6. CacheInv(y)
  BY <1>1, <1>2, <1>4 DEF CacheInv
<1>7. DoorsInv(y)
  BY <1>1, <1>4 DEF DoorsInv
<1>8. Keeps(x, y)
  BY <1>4, <1>5, <1>6, <1>7 DEF Keeps, Safe
<1> QED BY <1>8 DEF y, q

-----------------------------------------------------------------------------
(* Reading: the broker while it has bytes that count as handed over, but   *)
(* are still in the buffer of the scribe                                   *)

Emptied(x, c) == WithScribe(x, c, [x.conn[c] EXCEPT !.rbuf = <<>>])

(* A scribe with an empty buffer                                           *)
LEMMA EmptyFacts ==
  ASSUME NEW s \in ScribeT
  PROVE  LET t == [s EXCEPT !.rbuf = <<>>]
         IN /\ t \in ScribeT /\ Reading(t) = <<>>
            /\ t.st = s.st /\ t.seen = s.seen /\ t.net = s.net /\ t.sent = s.sent /\ t.rd = s.rd
            /\ t.launched = s.launched /\ t.broken = s.broken
            /\ Started(t) = Started(s) /\ OutputOK(t) = OutputOK(s)
<1> DEFINE t == [s EXCEPT !.rbuf = <<>>]
<1>1. <<>> \in Seq(Nat)
  OBVIOUS
<1>2. t \in ScribeT
  BY <1>1 DEF ScribeT
<1>3. /\ t.rbuf = <<>> /\ t.st = s.st /\ t.rd = s.rd /\ t.launched = s.launched
      /\ t.seen = s.seen /\ t.net = s.net /\ t.sent = s.sent
  BY DEF ScribeT
<1>4. /\ t.flushed = s.flushed /\ t.written = s.written /\ t.wr = s.wr /\ t.broken = s.broken
      /\ t.out = s.out /\ t.wr_buf = s.wr_buf /\ t.wr_offline = s.wr_offline
  BY DEF ScribeT
<1> HIDE DEF t
<1>5. OutputOK(t) = OutputOK(s)
  BY <1>4 DEF OutputOK, InFlight
<1>6. Started(t) = Started(s) /\ Reading(t) = <<>>
  BY <1>3 DEF Started, Reading
<1> QED BY <1>2, <1>3, <1>4, <1>5, <1>6 DEF t

(* Calm changes do not depend on what is in the buffer.                    *)
LEMMA EmptiedCalm ==
  ASSUME NEW x \in BrokerT, NEW y, NEW c \in Conns, Calm(x, y)
  PROVE  Calm(Emptied(x, c), Emptied(y, c))
<1> DEFINE s == [x.conn[c] EXCEPT !.rbuf = <<>>]
           t == [y.conn[c] EXCEPT !.rbuf = <<>>]
           x1 == Emptied(x, c)
           y1 == Emptied(y, c)
<1>1. y \in BrokerT /\ x.conn[c] \in ScribeT /\ y.conn[c] \in ScribeT
  BY DEF Calm, BrokerT
<1>2. /\ s \in ScribeT /\ Reading(s) = <<>>
      /\ s.st = x.conn[c].st /\ s.seen = x.conn[c].seen /\ s.net = x.conn[c].net
      /\ s.sent = x.conn[c].sent /\ s.rd = x.conn[c].rd /\ s.launched = x.conn[c].launched
      /\ s.broken = x.conn[c].broken
      /\ Started(s) = Started(x.conn[c]) /\ OutputOK(s) = OutputOK(x.conn[c])
  BY <1>1, EmptyFacts
<1>3. /\ t \in ScribeT /\ Reading(t) = <<>>
      /\ t.st = y.conn[c].st /\ t.seen = y.conn[c].seen /\ t.net = y.conn[c].net
      /\ t.sent = y.conn[c].sent /\ t.rd = y.conn[c].rd /\ t.launched = y.conn[c].launched
      /\ t.broken = y.conn[c].broken
      /\ Started(t) = Started(y.conn[c]) /\ OutputOK(t) = OutputOK(y.conn[c])
  BY <1>1, EmptyFacts
<1>4. x1 = WithScribe(x, c, s) /\ y1 = WithScribe(y, c, t)
  BY DEF Emptied
<1> HIDE DEF s, t, x1, y1
<1>5. /\ x1.conn[c] = s /\ \A d \in Conns : d # c => x1.conn[d] = x.conn[d]
      /\ x1.door = x.door /\ x1.published = x.published /\ x1.crashed = x.crashed
      /\ x1.alive = x.alive /\ x1.cache = x.cache /\ x1.awaiting = x.awaiting
  BY <1>2, <1>4, WithScribeFacts
<1>6. /\ y1 \in BrokerT /\ y1.conn[c] = t /\ \A d \in Conns : d # c => y1.conn[d] = y.conn[d]
      /\ y1.door = y.door /\ y1.published = y.published /\ y1.crashed = y.crashed
      /\ y1.alive = y.alive /\ y1.cache = y.cache /\ y1.awaiting = y.awaiting
  <2>1. t \in ScribeT /\ y \in BrokerT /\ y1 = WithScribe(y, c, t)
    BY <1>1, <1>3, <1>4
  <2> QED BY <2>1, WithScribeFacts
<1>7. \A d \in Conns : CalmScribe(x.conn[d], y.conn[d])
  BY DEF Calm
<1>8. CalmScribe(s, t)
  <2>1. CalmScribe(x.conn[c], y.conn[c])
    BY <1>7
  <2> QED BY <1>2, <1>3, <2>1 DEF CalmScribe
<1>9. \A d \in Conns : CalmScribe(x1.conn[d], y1.conn[d])
  <2> SUFFICES ASSUME NEW d \in Conns PROVE CalmScribe(x1.conn[d], y1.conn[d])
    OBVIOUS
  <2>1. CASE d = c
    BY <1>5, <1>6, <1>8, <2>1
  <2>2. CASE d # c
    BY <1>5, <1>6, <1>7, <2>2
  <2> QED BY <2>1, <2>2
<1>10. \A p \in Ports : y1.door[p] = x1.door[p] \/ (~y1.alive /\ ClosedDoor(x1.door[p], y1.door[p]))
  BY <1>5, <1>6 DEF Calm
<1>11. \A d \in Conns : y1.conn[d].st = y.conn[d].st
  BY <1>3, <1>6
<1>12. \/ y1.cache = x1.cache /\ y1.alive = x1.alive /\ (x1.awaiting => y1.awaiting)
       \/ y1.cache = <<>> /\ ~y1.alive /\ \A d \in Conns : y1.conn[d].st # "attached"
  BY <1>5, <1>6, <1>11 DEF Calm
<1>13. y1.published = x1.published /\ y1.crashed = x1.crashed /\ (y1.alive => x1.alive)
  BY <1>5, <1>6 DEF Calm
<1>14. Calm(x1, y1)
  BY <1>6, <1>9, <1>10, <1>12, <1>13 DEF Calm
<1> QED BY <1>14 DEF x1, y1

(* The next read begins when everything in the buffer is handed over.      *)
LEMMA NextRead ==
  ASSUME NEW x, NEW y \in BrokerT, NEW c \in Conns, Keeps(x, Emptied(y, c)),
         y.conn[c].launched, y.conn[c].st \notin Early
  PROVE  Keeps(x, read_loop(y, c))
<1> DEFINE s == [y.conn[c] EXCEPT !.rbuf = <<>>]
           y1 == Emptied(y, c)
<1>1. y.conn[c] \in ScribeT
  BY DEF BrokerT
<1>2. /\ s \in ScribeT /\ Reading(s) = <<>>
      /\ s.st = y.conn[c].st /\ s.seen = y.conn[c].seen /\ s.net = y.conn[c].net
      /\ s.sent = y.conn[c].sent /\ OutputOK(s) = OutputOK(y.conn[c])
  BY <1>1, EmptyFacts
<1>3. y1 = WithScribe(y, c, s)
  BY DEF Emptied
<1> HIDE DEF s
<1>4. y1.conn[c] = s /\ y1.cache = y.cache /\ y1.door = y.door
  BY <1>2, <1>3, WithScribeFacts
<1>5. Safe(y1)
  BY DEF Keeps
<1>6. PICK t \in ScribeT :
        /\ read_loop(y, c) = [y EXCEPT !.conn = [y.conn EXCEPT ![c] = t]]
        /\ t.rd = "pending" /\ t.rbuf = <<>>
        /\ t.st = y.conn[c].st /\ t.launched = y.conn[c].launched
        /\ t.seen = y.conn[c].seen /\ t.net = y.conn[c].net /\ t.sent = y.conn[c].sent
        /\ OutputOK(y.conn[c]) => OutputOK(t)
  BY ReadLoopShape
<1>7. WithScribe(y1, c, t) = read_loop(y, c)
  <2>1. WithScribe(y1, c, t) = [y EXCEPT !.conn = [[y.conn EXCEPT ![c] = s] EXCEPT ![c] = t]]
    BY <1>3 DEF WithScribe, BrokerT
  <2>2. [[y.conn EXCEPT ![c] = s] EXCEPT ![c] = t] = [y.conn EXCEPT ![c] = t]
    BY DEF BrokerT
  <2> QED BY <1>6, <2>1, <2>2
<1> HIDE DEF y1
<1>8. OutputOK(t) /\ Started(t) /\ Reading(t) = <<>>
  <2>1. OutputOK(s)
    BY <1>4, <1>5 DEF Safe, ConnsInv
  <2> QED BY <1>2, <1>6, <2>1 DEF Started, Reading
<1>9. Safe(WithScribe(y1, c, t))
  <2>1. InputOK(y1, c)
    BY <1>5 DEF Safe, ConnsInv
  <2>2. t.st = "attached" => t.seen \o AllSkipped(y1.cache, c) \o Reading(t) \o t.net = Bytes(t.sent)
    BY <1>2, <1>4, <1>6, <1>8, <2>1 DEF InputOK
  <2>3. t.st \notin Early /\ t.st # "accepting" /\ y1.conn[c].st # "accepting"
    BY <1>2, <1>4, <1>6 DEF Early
  <2>4. \A p \in Ports : y1.door[p].acc = "ready" => y1.door[p].conn # c
    BY <1>5, <2>3, NoSuchAccept
  <2> QED BY <1>5, <1>8, <2>2, <2>3, <2>4, ScribeSafe
<1>10. /\ WithScribe(y1, c, t).conn[c] = t
       /\ \A d \in Conns : d # c => WithScribe(y1, c, t).conn[d] = y1.conn[d]
  BY <1>5, WithScribeFacts DEF Safe
<1>11. Keeps(y1, WithScribe(y1, c, t))
  BY <1>2, <1>4, <1>6, <1>9, <1>10 DEF Keeps
<1>12. Keeps(x, WithScribe(y1, c, t))
  BY <1>11, KeepsTrans DEF y1
<1> QED BY <1>7, <1>12

(* The broker skips the data that was read.                                *)
LEMMA SkipData ==
  ASSUME NEW x, Safe(x), NEW c \in Conns, x.conn[c].rd = "ready", x.conn[c].launched,
         x.conn[c].st = "attached", x.awaiting,
         NEW m \in MessageT, m.kind = "data", m.c = c, m.bytes = x.conn[c].rbuf
  PROVE  LET y == [[x EXCEPT !.cache = Append(x.cache, m)] EXCEPT !.conn[c].msg = FALSE]
         IN /\ y \in BrokerT /\ Keeps(x, Emptied(y, c)) /\ y.crashed = x.crashed
            /\ y.conn[c].launched /\ y.conn[c].st = "attached"
<1> DEFINE y == [[x EXCEPT !.cache = Append(x.cache, m)] EXCEPT !.conn[c].msg = FALSE]
           s == x.conn[c]
           v == [s EXCEPT !.msg = FALSE]
           t == [v EXCEPT !.rbuf = <<>>]
           q == Append(x.cache, m)
           x1 == [x EXCEPT !.cache = q]
           z == Emptied(y, c)
<1>1. /\ x \in BrokerT /\ ConnsInv(x) /\ CacheInv(x) /\ DoorsInv(x) /\ x.cache \in Seq(MessageT)
      /\ s \in ScribeT
  BY DEF Safe, BrokerT
<1>2. q \in Seq(MessageT) /\ \A i \in 1 .. Len(q) : (i \in 1 .. Len(x.cache) /\ q[i] = x.cache[i]) \/ q[i] = m
  BY <1>1
<1>3. AllSkipped(q, c) = AllSkipped(x.cache, c) \o s.rbuf
  BY <1>1, SkippedAppend DEF StepBytes
<1>4. \A d \in Conns : d # c => AllSkipped(q, d) = AllSkipped(x.cache, d)
  BY <1>1, SkippedAppend DEF StepBytes
<1> HIDE DEF q
<1>5. /\ x1 \in BrokerT /\ x1.conn = x.conn /\ x1.door = x.door /\ x1.published = x.published
      /\ x1.alive = x.alive /\ x1.cache = q /\ x1.awaiting = x.awaiting
      /\ x1.crashed = x.crashed
  BY <1>1, <1>2 DEF BrokerT
<1>6. y = [x1 EXCEPT !.conn[c].msg = FALSE]
  BY DEF q
<1> HIDE DEF x1
<1> HIDE DEF y
<1>7. y = WithScribe(x1, c, v)
  BY <1>5, <1>6 DEF WithScribe, BrokerT, ScribeT
<1> HIDE DEF s
<1>8. /\ v \in ScribeT /\ v.st = s.st /\ v.launched = s.launched /\ v.rd = s.rd
      /\ v.seen = s.seen /\ v.net = s.net /\ v.sent = s.sent
  BY <1>1 DEF ScribeT
<1>9. OutputOK(v) = OutputOK(s)
  <2>1. /\ v.flushed = s.flushed /\ v.written = s.written /\ v.wr = s.wr /\ v.broken = s.broken
        /\ v.out = s.out /\ v.wr_buf = s.wr_buf /\ v.wr_offline = s.wr_offline
    BY <1>1 DEF ScribeT
  <2> HIDE DEF v
  <2> QED BY <2>1 DEF OutputOK, InFlight
<1> HIDE DEF v
<1>10. /\ t \in ScribeT /\ Reading(t) = <<>> /\ t.st = s.st /\ t.launched = s.launched
       /\ t.seen = s.seen /\ t.net = s.net /\ t.sent = s.sent
       /\ OutputOK(t) = OutputOK(s)
  BY <1>8, <1>9, EmptyFacts
<1> HIDE DEF t
<1>11. y \in BrokerT /\ y.conn[c] = v /\ z = WithScribe(y, c, t)
  <2>1. x1 \in BrokerT /\ v \in ScribeT
    BY <1>5, <1>8
  <2>2. WithScribe(x1, c, v) \in BrokerT /\ WithScribe(x1, c, v).conn[c] = v
    BY <2>1, WithScribeFacts
  <2> QED BY <1>7, <2>2 DEF Emptied, t
<1> HIDE DEF z
<1>12. /\ \A d \in Conns : d # c => y.conn[d] = x.conn[d]
       /\ y.door = x.door /\ y.published = x.published
       /\ y.alive = x.alive /\ y.cache = q /\ y.awaiting = x.awaiting
       /\ y.crashed = x.crashed
  <2> DEFINE u == WithScribe(x1, c, v)
  <2>1. x1 \in BrokerT /\ v \in ScribeT
    BY <1>5, <1>8
  <2>2. /\ \A d \in Conns : d # c => u.conn[d] = x1.conn[d]
        /\ u.door = x1.door /\ u.published = x1.published
        /\ u.alive = x1.alive /\ u.cache = x1.cache /\ u.awaiting = x1.awaiting
        /\ u.crashed = x1.crashed
    BY <2>1, WithScribeFacts
  <2> HIDE DEF u
  <2>3. y = u
    BY <1>7 DEF u
  <2> QED BY ZenonT(60), <1>5, <2>2, <2>3
<1>13. /\ z \in BrokerT /\ z.conn[c] = t /\ \A d \in Conns : d # c => z.conn[d] = y.conn[d]
       /\ z.door = y.door /\ z.published = y.published
       /\ z.alive = y.alive /\ z.cache = y.cache /\ z.awaiting = y.awaiting
  <2> DEFINE u == WithScribe(y, c, t)
  <2>1. y \in BrokerT /\ t \in ScribeT
    BY <1>10, <1>11
  <2>2. /\ u \in BrokerT /\ u.conn[c] = t /\ \A d \in Conns : d # c => u.conn[d] = y.conn[d]
        /\ u.door = y.door /\ u.published = y.published
        /\ u.alive = y.alive /\ u.cache = y.cache /\ u.awaiting = y.awaiting
    BY <2>1, WithScribeFacts
  <2> HIDE DEF u
  <2>3. z = u
    BY <1>11 DEF u
  <2> QED BY <2>2, <2>3
<1>14. s.st = "attached" /\ s.rd = "ready" /\ s.launched
  BY DEF s
<1>15. ASSUME NEW d \in Conns PROVE OutputOK(z.conn[d]) /\ Started(z.conn[d]) /\ InputOK(z, d)
  <2>1. OutputOK(x.conn[d]) /\ Started(x.conn[d]) /\ InputOK(x, d)
    BY <1>1 DEF ConnsInv
  <2>2. CASE d # c
    BY ZenonT(60), <1>4, <1>12, <1>13, <2>1, <2>2 DEF InputOK
  <2>3. CASE d = c
    <3>1. s.seen \o AllSkipped(x.cache, c) \o s.rbuf \o s.net = Bytes(s.sent)
      BY <1>14, <2>1, <2>3 DEF InputOK, Reading, s
    <3> DEFINE a == s.seen
               b == AllSkipped(x.cache, c)
               e == s.rbuf
    <3>2. a \in Seq(Nat) /\ b \in Seq(Nat) /\ e \in Seq(Nat)
      BY <1>1, SkippedSteps DEF ScribeT
    <3>0. t.seen = a /\ AllSkipped(z.cache, c) = b \o e /\ (a \o b) \o e \o t.net = Bytes(t.sent)
      BY <1>3, <1>10, <1>12, <1>13, <3>1
    <3> HIDE DEF a, b, e
    <3>3. (a \o b) \o e = a \o (b \o e)
      BY <3>2, BytesAssociative
    <3>4. a \o (b \o e) \in Seq(Nat)
      BY <3>2
    <3>5. (a \o (b \o e)) \o <<>> = a \o (b \o e)
      BY <3>4, ConcatEmptySeq
    <3>6. t.seen \o AllSkipped(z.cache, c) \o Reading(t) \o t.net = Bytes(t.sent)
      BY <1>10, <3>0, <3>3, <3>5
    <3> QED BY <1>10, <1>13, <1>14, <2>1, <2>3, <3>6 DEF InputOK, Started, Early, s
  <2> QED BY <2>2, <2>3
<1>16. CacheInv(z)
  <2>1. z.awaiting
    BY <1>12, <1>13
  <2>2. ASSUME NEW i \in 1 .. Len(z.cache), z.cache[i].kind = "data"
        PROVE  z.conn[z.cache[i].c].st \notin Early
    <3>1. z.cache = q
      BY <1>12, <1>13
    <3>2. CASE q[i] = m
      BY <1>10, <1>13, <1>14, <3>1, <3>2 DEF Early
    <3>3. CASE i \in 1 .. Len(x.cache) /\ q[i] = x.cache[i]
      <4>1. x.cache[i] \in MessageT /\ x.cache[i].kind = "data"
        BY <1>1, <2>2, <3>1, <3>3
      <4>2. x.cache[i].c \in Conns
        BY <4>1 DEF MessageT
      <4>3. x.conn[x.cache[i].c].st \notin Early
        BY <1>1, <3>3, <4>1 DEF CacheInv
      <4> QED BY <1>10, <1>12, <1>13, <1>14, <3>1, <3>3, <4>2, <4>3 DEF Early
    <3> QED BY <1>2, <2>2, <3>1, <3>2, <3>3
  <2> QED BY <2>1, <2>2 DEF CacheInv
<1>17. \A d \in Conns : z.conn[d].st = x.conn[d].st
  BY <1>10, <1>12, <1>13 DEF s
<1>18. DoorsInv(z)
  <2>1. z.door = x.door /\ z.alive = x.alive /\ z.published = x.published
    BY <1>12, <1>13
  <2> QED BY <1>1, <1>17, <2>1 DEF DoorsInv
<1>19. Keeps(x, z)
  BY <1>13, <1>15, <1>16, <1>17, <1>18 DEF Keeps, Safe, ConnsInv
<1> QED BY <1>8, <1>11, <1>12, <1>14, <1>19 DEF y, z

(* The broker is handed the data that was read, and reacts.                *)
LEMMA HandData ==
  ASSUME NEW x, Safe(x), NEW c \in Conns, x.conn[c].rd = "ready", x.conn[c].launched,
         x.conn[c].st = "attached", ~x.awaiting, NEW r \in Reactions,
         NEW m \in MessageT, m.kind = "data", m.c = c, m.bytes = x.conn[c].rbuf, NEW y,
         y = flush(Handle(x, m, r, None), c)
  PROVE  /\ y \in BrokerT /\ Keeps(x, Emptied(y, c)) /\ y.crashed = x.crashed
         /\ y.conn[c].launched /\ y.conn[c].st \notin Early
<1> DEFINE s == x.conn[c]
           v == Saw(s, s.rbuf)
           t == [v EXCEPT !.rbuf = <<>>]
           x2 == WithScribe(x, c, v)
           y2 == React(x2, r, c)
           z == Emptied(x2, c)
<1>1. /\ x \in BrokerT /\ ConnsInv(x) /\ CacheInv(x) /\ DoorsInv(x) /\ s \in ScribeT
      /\ s.rbuf \in Seq(Nat) /\ s.seen \in Seq(Nat)
  BY DEF Safe, BrokerT, ScribeT
<1>2. y = flush(y2, c)
  <2>1. Handle(x, m, r, None) = React(WithScribe(x, m.c, Saw(x.conn[m.c], m.bytes)), r, m.c)
    BY <1>1, DataShape
  <2> QED BY <2>1
<1>3. s.st = "attached" /\ s.rd = "ready" /\ s.launched
  OBVIOUS
<1> HIDE DEF y2
<1>4. /\ v \in ScribeT /\ v.seen = s.seen \o s.rbuf /\ v.st = s.st /\ v.net = s.net
      /\ v.sent = s.sent /\ v.launched = s.launched /\ (OutputOK(s) => OutputOK(v))
      /\ Started(s) => Started(v)
  <2> HIDE DEF s
  <2> QED BY <1>1, SawFacts
<1> HIDE DEF v
<1>5. /\ t \in ScribeT /\ Reading(t) = <<>> /\ t.st = v.st /\ t.launched = v.launched
      /\ t.seen = v.seen /\ t.net = v.net /\ t.sent = v.sent
      /\ OutputOK(t) = OutputOK(v) /\ Started(t) = Started(v)
  BY <1>4, EmptyFacts
<1>6. /\ x2 \in BrokerT /\ x2.conn[c] = v /\ x2.crashed = x.crashed
  BY <1>1, <1>4, WithScribeFacts
<1>7. z = WithScribe(x, c, t)
  <2>1. z = [x EXCEPT !.conn = [[x.conn EXCEPT ![c] = v] EXCEPT ![c] = t]]
    BY <1>1, <1>6 DEF Emptied, WithScribe, BrokerT
  <2>2. [[x.conn EXCEPT ![c] = v] EXCEPT ![c] = t] = [x.conn EXCEPT ![c] = t]
    BY <1>1 DEF BrokerT
  <2> QED BY <2>1, <2>2 DEF WithScribe
<1> HIDE DEF t
<1>8. OutputOK(t) /\ Started(t)
  BY <1>1, <1>4, <1>5 DEF ConnsInv
<1>9. t.seen \o AllSkipped(x.cache, c) \o Reading(t) \o t.net = Bytes(t.sent)
  <2>1. x.cache = <<>> /\ InputOK(x, c)
    BY <1>1 DEF CacheInv, ConnsInv
  <2>2. AllSkipped(x.cache, c) = <<>>
    BY <2>1, SkippedEmpty
  <2>3. s.seen \o <<>> \o s.rbuf \o s.net = Bytes(s.sent)
    BY <1>3, <2>1, <2>2 DEF InputOK, Reading
  <2>4. s.seen \o <<>> = s.seen
    BY <1>1, ConcatEmptySeq
  <2>5. s.seen \o s.rbuf \in Seq(Nat)
    BY <1>1
  <2>6. (s.seen \o s.rbuf) \o <<>> = s.seen \o s.rbuf
    BY <2>5, ConcatEmptySeq
  <2> QED BY ZenonT(60), <1>4, <1>5, <2>2, <2>3, <2>4, <2>6
<1>10. Keeps(x, z)
  <2>1. t.st = "attached" /\ t.st \notin Early /\ t.st # "accepting" /\ s.st # "accepting"
    BY <1>3, <1>4, <1>5 DEF Early
  <2>2. \A p \in Ports : x.door[p].acc = "ready" => x.door[p].conn # c
    BY <2>1, NoSuchAccept
  <2>3. Safe(WithScribe(x, c, t))
    BY <1>5, <1>8, <1>9, <2>1, <2>2, ScribeSafe
  <2>4. \A d \in Conns : d # c => WithScribe(x, c, t).conn[d] = x.conn[d]
    BY <1>1, <1>5, WithScribeFacts
  <2> QED BY <1>3, <1>7, <2>3, <2>4 DEF Keeps
<1> HIDE DEF x2
<1>11. Calm(x2, y2)
  BY <1>6, ReactCalm DEF y2
<1>12. y2 \in BrokerT
  BY <1>11 DEF Calm
<1>13. Calm(y2, y)
  BY <1>2, <1>12, FlushCalm
<1>14. Calm(x2, y)
  BY <1>11, <1>13, CalmTrans
<1>15. Calm(z, Emptied(y, c))
  BY <1>6, <1>14, EmptiedCalm
<1> HIDE DEF z
<1>16. Keeps(z, Emptied(y, c))
  BY <1>10, <1>15, CalmKeeps DEF Keeps
<1>17. Keeps(x, Emptied(y, c))
  BY <1>10, <1>16, KeepsTrans
<1>18. y \in BrokerT /\ y.crashed = x.crashed
  BY <1>6, <1>14 DEF Calm
<1>19. CalmScribe(v, y.conn[c])
  BY <1>6, <1>14 DEF Calm
<1>20. y.conn[c].launched /\ y.conn[c].st \notin Early
  BY <1>3, <1>4, <1>19 DEF CalmScribe, Early
<1> QED BY <1>17, <1>18, <1>20

-----------------------------------------------------------------------------
(* Callbacks                                                               *)

(* A connection with a read in progress is known and was launched.         *)
LEMMA ReadingKnown ==
  ASSUME NEW x, Safe(x), NEW c \in Conns, x.conn[c].rd # "idle"
  PROVE  /\ x.conn[c].st \notin Early /\ x.conn[c].launched /\ x.conn[c] \in ScribeT
         /\ OutputOK(x.conn[c]) /\ Started(x.conn[c])
<1>1. x.conn[c] \in ScribeT /\ InputOK(x, c) /\ Started(x.conn[c]) /\ OutputOK(x.conn[c])
  BY DEF Safe, BrokerT, ConnsInv
<1> QED BY <1>1 DEF InputOK, Untouched, Started

(* The broker is handed what was read, or skips it, or the scribe is not   *)
(* the broker's any more; then the next read starts.                       *)
LEMMA ReadKeeps ==
  ASSUME NEW x, Safe(x), ~x.crashed, NEW c \in Conns, x.conn[c].rd = "ready", NEW r \in Reactions
  PROVE  LET y == consume(x, c, r)
         IN Keeps(x, IF y.crashed THEN y ELSE read_loop(y, c))
<1> DEFINE y == consume(x, c, r)
           s == x.conn[c]
           m == [kind |-> "data", c |-> c, bytes |-> s.rbuf]
<1>1. /\ x \in BrokerT /\ s \in ScribeT /\ s.st \notin Early /\ s.launched
      /\ OutputOK(s) /\ Started(s)
  BY ReadingKnown DEF Safe
<1>2. m \in MessageT /\ m.kind = "data" /\ m.c = c /\ m.bytes = s.rbuf
  BY <1>1 DEF MessageT, ScribeT
<1>3. CASE ~valid(x, c)
  <2> DEFINE t == [s EXCEPT !.rbuf = <<>>]
  <2>1. y = x
    BY <1>3 DEF consume
  <2>2. s.st = "detached"
    BY <1>1, <1>3 DEF ScribeT, Stages, Early, valid
  <2>3. t \in ScribeT /\ t.st = s.st /\ OutputOK(t) = OutputOK(s) /\ Started(t) = Started(s)
    <3> HIDE DEF s
    <3> QED BY <1>1, EmptyFacts
  <2> HIDE DEF t
  <2>4. Keeps(x, WithScribe(x, c, t))
    BY <1>1, <2>2, <2>3, GoneKeeps
  <2>5. Keeps(x, Emptied(x, c))
    BY <2>4 DEF Emptied, t
  <2>6. Keeps(x, read_loop(x, c))
    BY <1>1, <2>5, NextRead
  <2> QED BY <2>1, <2>6
<1>4. CASE valid(x, c) /\ ~s.msg
  <2>1. y = [x EXCEPT !.crashed = TRUE]
    BY <1>4 DEF consume
  <2>2. y.crashed
    BY <1>1, <2>1 DEF BrokerT
  <2> QED BY <2>1, <2>2, CrashKeeps
<1>5. CASE valid(x, c) /\ s.msg /\ x.awaiting
  <2> DEFINE z == [[x EXCEPT !.cache = Append(x.cache, m)] EXCEPT !.conn[c].msg = FALSE]
  <2>1. y = z
    BY <1>5 DEF consume, invoke_message
  <2> HIDE DEF m, y
  <2>2. /\ z \in BrokerT /\ Keeps(x, Emptied(z, c)) /\ z.crashed = x.crashed
        /\ z.conn[c].launched /\ z.conn[c].st = "attached"
    BY <1>1, <1>2, <1>5, SkipData DEF valid
  <2> HIDE DEF z
  <2>3. Keeps(x, read_loop(z, c))
    BY <2>2, NextRead DEF Early
  <2> QED BY <2>1, <2>2, <2>3 DEF y
<1>6. CASE valid(x, c) /\ s.msg /\ ~x.awaiting
  <2> DEFINE z == flush(Handle(x, m, r, None), c)
  <2>1. y = z
    BY <1>6 DEF consume, invoke_message
  <2> HIDE DEF m, y
  <2>2. /\ z \in BrokerT /\ Keeps(x, Emptied(z, c)) /\ z.crashed = x.crashed
        /\ z.conn[c].launched /\ z.conn[c].st \notin Early
    BY <1>1, <1>2, <1>6, HandData DEF valid
  <2> HIDE DEF z
  <2>3. Keeps(x, read_loop(z, c))
    BY <2>2, NextRead
  <2> QED BY <2>1, <2>2, <2>3 DEF y
<1> QED BY <1>3, <1>4, <1>5, <1>6

(* A scribe whose read ends                                                *)
LEMMA StopReadFacts ==
  ASSUME NEW s \in ScribeT, OutputOK(s)
  PROVE  LET t == [s EXCEPT !.rd = "idle"]
         IN t \in ScribeT /\ OutputOK(t) /\ Started(t) /\ t.st = s.st /\ t.rd = "idle"
<1> DEFINE t == [s EXCEPT !.rd = "idle"]
<1>1. t \in ScribeT
  BY DEF ScribeT, Progress
<1>2. /\ t.rd = "idle" /\ t.st = s.st
      /\ t.flushed = s.flushed /\ t.written = s.written /\ t.wr = s.wr /\ t.broken = s.broken
      /\ t.out = s.out /\ t.wr_buf = s.wr_buf /\ t.wr_offline = s.wr_offline
  BY DEF ScribeT
<1> HIDE DEF t
<1>3. OutputOK(t)
  BY <1>2 DEF OutputOK, InFlight
<1> QED BY <1>1, <1>2, <1>3 DEF t, Started

(* A scribe that is detached                                               *)
LEMMA DetachFacts ==
  ASSUME NEW s \in ScribeT, OutputOK(s), Started(s)
  PROVE  LET t == [s EXCEPT !.st = "detached"]
         IN t \in ScribeT /\ OutputOK(t) /\ Started(t) /\ t.st = "detached" /\ t.broken = s.broken
<1> DEFINE t == [s EXCEPT !.st = "detached"]
<1>1. t \in ScribeT
  BY DEF ScribeT, Stages
<1>2. /\ t.rd = s.rd /\ t.st = "detached" /\ t.launched = s.launched
      /\ t.flushed = s.flushed /\ t.written = s.written /\ t.wr = s.wr /\ t.broken = s.broken
      /\ t.out = s.out /\ t.wr_buf = s.wr_buf /\ t.wr_offline = s.wr_offline
  BY DEF ScribeT
<1> HIDE DEF t
<1>3. OutputOK(t)
  BY <1>2 DEF OutputOK, InFlight
<1> QED BY <1>1, <1>2, <1>3 DEF t, Started

(* The broker is told that a connection was closed.                        *)
LEMMA ToldKeeps ==
  ASSUME NEW x, Safe(x), NEW c \in Conns, NEW r \in Reactions
  PROVE  LET y == invoke_message(x, [kind |-> "closed", c |-> c], r, None)
         IN Keeps(x, y) /\ y.conn[c].broken = x.conn[c].broken
<1> DEFINE m == [kind |-> "closed", c |-> c]
           y == invoke_message(x, m, r, None)
<1>1. x \in BrokerT /\ m \in MessageT /\ m.kind = "closed"
  BY DEF Safe, MessageT
<1> HIDE DEF m
<1>2. CASE x.awaiting
  <2> DEFINE z == [x EXCEPT !.cache = Append(x.cache, m)]
  <2>1. y = z
    BY <1>2 DEF invoke_message
  <2>2. Keeps(x, z)
    BY <1>1, <1>2, SkipKeeps
  <2>3. z.conn = x.conn
    BY <1>1 DEF BrokerT
  <2> HIDE DEF z, y
  <2>4. Keeps(x, y) /\ y.conn[c].broken = x.conn[c].broken
    BY <2>1, <2>2, <2>3
  <2> QED BY <2>4 DEF y, m
<1>3. CASE ~x.awaiting
  <2>1. y = React(x, IF r = "quit" THEN r ELSE "none", m.c)
    BY <1>1, <1>3 DEF invoke_message, Handle
  <2> HIDE DEF y
  <2>2. y = x \/ y = cleanup(x)
    BY <2>1 DEF React
  <2>3. Calm(x, y)
    BY <1>1, <2>2, CalmRefl, CleanupCalm
  <2>4. Keeps(x, y) /\ y.conn[c].broken = x.conn[c].broken
    BY <2>3, CalmKeeps DEF Calm, CalmScribe
  <2> QED BY <2>4 DEF y, m
<1> QED BY <1>2, <1>3

(* A failed operation detaches the scribe.                                 *)
LEMMA FailureKeeps ==
  ASSUME NEW x, Safe(x), NEW c \in Conns, NEW r \in Reactions
  PROVE  /\ Keeps(x, io_failure(x, c, r))
         /\ x.conn[c].broken => io_failure(x, c, r).conn[c].broken
<1> DEFINE s == x.conn[c]
           t == [s EXCEPT !.st = "detached"]
           x1 == WithScribe(x, c, t)
           y == io_failure(x, c, r)
           z == invoke_message(x1, [kind |-> "closed", c |-> c], r, None)
<1>1. x \in BrokerT /\ s \in ScribeT /\ OutputOK(s) /\ Started(s)
  BY DEF Safe, BrokerT, ConnsInv
<1>2. CASE ~valid(x, c)
  <2>1. y = x
    BY <1>2 DEF io_failure
  <2>2. Keeps(x, x)
    BY DEF Keeps
  <2> QED BY <2>1, <2>2
<1>3. CASE valid(x, c)
  <2>1. s.st = "attached"
    BY <1>3 DEF valid
  <2>2. [x EXCEPT !.conn[c].st = "detached"] = x1
    BY <1>1 DEF WithScribe, BrokerT
  <2>3. y = z
    BY <1>3, <2>2 DEF io_failure
  <2> HIDE DEF s, y
  <2>4. t \in ScribeT /\ OutputOK(t) /\ Started(t) /\ t.st = "detached" /\ t.broken = s.broken
    BY <1>1, DetachFacts
  <2> HIDE DEF t
  <2>5. Keeps(x, x1)
    BY <2>1, <2>4, GoneKeeps DEF s, Early
  <2>6. x1 \in BrokerT /\ x1.conn[c] = t
    BY <1>1, <2>4, WithScribeFacts
  <2> HIDE DEF x1
  <2>7. Keeps(x1, z) /\ z.conn[c].broken = x1.conn[c].broken
    BY <2>5, ToldKeeps DEF Keeps
  <2> HIDE DEF z
  <2>8. Keeps(x, z) /\ z.conn[c].broken = s.broken
    BY <2>4, <2>5, <2>6, <2>7, KeepsTrans
  <2> QED BY <2>3, <2>8 DEF y, s
<1> QED BY <1>2, <1>3

(* read_loop's callback after an error                                     *)
LEMMA ReadFailedKeeps ==
  ASSUME NEW x, Safe(x), NEW c \in Conns, x.conn[c].rd = "failed", NEW r \in Reactions
  PROVE  Keeps(x, io_failure([x EXCEPT !.conn[c].rd = "idle"], c, r))
<1> DEFINE s == x.conn[c]
           t == [s EXCEPT !.rd = "idle"]
           v == [t EXCEPT !.st = "detached"]
           x1 == WithScribe(x, c, t)
           x2 == WithScribe(x, c, v)
           y == io_failure(x1, c, r)
           z == invoke_message(x2, [kind |-> "closed", c |-> c], r, None)
<1>1. x \in BrokerT /\ s \in ScribeT /\ s.st \notin Early /\ OutputOK(s)
  BY ReadingKnown DEF Safe
<1>2. [x EXCEPT !.conn[c].rd = "idle"] = x1
  BY <1>1 DEF WithScribe, BrokerT
<1>3. s.st = "attached" \/ s.st = "detached"
  BY <1>1 DEF ScribeT, Stages, Early
<1> HIDE DEF s
<1>4. t \in ScribeT /\ OutputOK(t) /\ Started(t) /\ t.st = s.st
  BY <1>1, StopReadFacts
<1> HIDE DEF t
<1>5. v \in ScribeT /\ OutputOK(v) /\ Started(v) /\ v.st = "detached"
  BY <1>4, DetachFacts
<1>6. x1 \in BrokerT /\ x1.conn[c] = t
  BY <1>1, <1>4, WithScribeFacts
<1>7. CASE s.st = "detached"
  <2>1. Keeps(x, x1)
    BY <1>1, <1>4, <1>7, GoneKeeps DEF s
  <2>2. y = x1
    BY <1>4, <1>6, <1>7 DEF io_failure, valid
  <2> HIDE DEF x1, y
  <2>3. Keeps(x, y)
    BY <2>1, <2>2
  <2> QED BY <1>2, <2>3 DEF y
<1>8. CASE s.st = "attached"
  <2>1. [x1 EXCEPT !.conn[c].st = "detached"] = x2
    <3>1. [x1 EXCEPT !.conn[c].st = "detached"] = [x1 EXCEPT !.conn = [x1.conn EXCEPT ![c] = v]]
      BY <1>6 DEF BrokerT
    <3>2. [x1 EXCEPT !.conn = [x1.conn EXCEPT ![c] = v]]
            = [x EXCEPT !.conn = [[x.conn EXCEPT ![c] = t] EXCEPT ![c] = v]]
      BY <1>1 DEF WithScribe, BrokerT
    <3>3. [[x.conn EXCEPT ![c] = t] EXCEPT ![c] = v] = [x.conn EXCEPT ![c] = v]
      BY <1>1 DEF BrokerT
    <3> QED BY <3>1, <3>2, <3>3 DEF WithScribe
  <2>2. y = z
    BY <1>4, <1>6, <1>8, <2>1 DEF io_failure, valid
  <2> HIDE DEF v
  <2>3. Keeps(x, x2)
    BY <1>1, <1>5, GoneKeeps DEF s
  <2> HIDE DEF x1, x2, y
  <2>4. Keeps(x2, z)
    BY <2>3, ToldKeeps DEF Keeps
  <2>5. Keeps(x, y)
    BY <2>2, <2>3, <2>4, KeepsTrans
  <2> QED BY <1>2, <2>5 DEF y
<1> QED BY <1>3, <1>7, <1>8

(* write_loop's callback after an error                                    *)
LEMMA WriteFailedKeeps ==
  ASSUME NEW x, Safe(x), NEW c \in Conns, x.conn[c].wr = "failed", NEW r \in Reactions
  PROVE  Keeps(x, [io_failure(x, c, r) EXCEPT !.conn[c].wr = "idle"])
<1> DEFINE y == io_failure(x, c, r)
           s == y.conn[c]
           t == [s EXCEPT !.wr = "idle"]
<1>1. x.conn[c].broken
  BY DEF Safe, ConnsInv, OutputOK
<1>2. Keeps(x, y) /\ y.conn[c].broken
  BY <1>1, FailureKeeps
<1> HIDE DEF y
<1>3. y \in BrokerT /\ s \in ScribeT /\ OutputOK(s) /\ Started(s) /\ s.broken
  BY <1>2 DEF Keeps, Safe, BrokerT, ConnsInv
<1>4. [y EXCEPT !.conn[c].wr = "idle"] = WithScribe(y, c, t)
  BY <1>3 DEF WithScribe, BrokerT
<1> HIDE DEF s
<1>5. t \in ScribeT
  BY <1>3 DEF ScribeT, Progress
<1>6. /\ t.st = s.st /\ t.seen = s.seen /\ t.net = s.net /\ t.sent = s.sent /\ t.rd = s.rd
      /\ t.rbuf = s.rbuf /\ t.launched = s.launched /\ t.wr = "idle"
      /\ t.broken = s.broken /\ t.flushed = s.flushed /\ t.written = s.written
  BY <1>3 DEF ScribeT
<1> HIDE DEF t
<1>7. OutputOK(t) /\ Started(t) /\ Reading(t) = Reading(s)
  BY <1>3, <1>6 DEF OutputOK, Started, Reading
<1>8. Keeps(y, WithScribe(y, c, t))
  BY <1>2, <1>5, <1>6, <1>7, SameKeeps DEF s, Keeps
<1>9. Keeps(x, WithScribe(y, c, t))
  BY <1>2, <1>8, KeepsTrans
<1> QED BY <1>4, <1>9 DEF y

(* A scribe that the broker gets                                           *)
LEMMA AttachFacts ==
  ASSUME NEW s \in ScribeT, OutputOK(s), Started(s)
  PROVE  LET t == [s EXCEPT !.st = "attached"]
         IN /\ t \in ScribeT /\ t.st = "attached" /\ t.seen = s.seen /\ t.net = s.net
            /\ t.sent = s.sent /\ t.rd = s.rd /\ OutputOK(t) /\ Started(t)
<1> DEFINE t == [s EXCEPT !.st = "attached"]
<1>1. t \in ScribeT
  BY DEF ScribeT, Stages
<1>2. /\ t.rd = s.rd /\ t.st = "attached" /\ t.launched = s.launched
      /\ t.seen = s.seen /\ t.net = s.net /\ t.sent = s.sent
      /\ t.flushed = s.flushed /\ t.written = s.written /\ t.wr = s.wr /\ t.broken = s.broken
      /\ t.out = s.out /\ t.wr_buf = s.wr_buf /\ t.wr_offline = s.wr_offline
  BY DEF ScribeT
<1> HIDE DEF t
<1>3. OutputOK(t) /\ Started(t)
  BY <1>2 DEF OutputOK, InFlight, Started
<1> QED BY <1>1, <1>2, <1>3 DEF t

(* The broker gets a connection on which nothing has arrived.              *)
LEMMA AttachKeeps ==
  ASSUME NEW x, Safe(x), NEW c \in Conns, NEW t \in ScribeT, OutputOK(t), Started(t),
         t.st = "attached", x.conn[c].st \in Early,
         t.seen = x.conn[c].seen, t.net = x.conn[c].net, t.sent = x.conn[c].sent, t.rd = x.conn[c].rd,
         \A p \in Ports : x.door[p].acc = "ready" => x.door[p].conn # c
  PROVE  /\ Safe(WithScribe(x, c, t))
         /\ \A d \in Conns : d # c => WithScribe(x, c, t).conn[d] = x.conn[d]
         /\ x.conn[c].st # "unassigned" => Keeps(x, WithScribe(x, c, t))
<1>1. x \in BrokerT /\ InputOK(x, c)
  BY DEF Safe, ConnsInv
<1>2. Untouched(x.conn[c]) /\ AllSkipped(x.cache, c) = <<>>
  BY <1>1 DEF InputOK
<1>3. /\ t.seen = <<>> /\ t.net = <<>> /\ t.sent = 0 /\ Reading(t) = <<>>
      /\ AllSkipped(x.cache, c) = <<>> /\ Bytes(0) = <<>>
  BY <1>2, BytesFacts DEF Untouched, Reading
<1>4. <<>> \o <<>> = <<>>
  OBVIOUS
<1>5. t.seen \o AllSkipped(x.cache, c) \o Reading(t) \o t.net = Bytes(t.sent)
  BY <1>3, <1>4
<1>6. t.st \notin Early
  BY DEF Early
<1>7. Safe(WithScribe(x, c, t))
  BY <1>5, <1>6, ScribeSafe
<1>8. \A d \in Conns : d # c => WithScribe(x, c, t).conn[d] = x.conn[d]
  BY <1>1, WithScribeFacts
<1>9. x.conn[c].st # "unassigned" => Keeps(x, WithScribe(x, c, t))
  BY <1>7, <1>8 DEF Keeps
<1> QED BY <1>7, <1>8, <1>9

(* Another doorman, and the same actor published there                     *)
LEMMA OnlyDoor ==
  ASSUME NEW x \in BrokerT, NEW p \in Ports, NEW e
  PROVE  [x EXCEPT !.door = [x.door EXCEPT ![p] = e]] = WithDoor(x, p, e, x.published[p])
<1> DEFINE f == [x.door EXCEPT ![p] = e]
<1>1. [x.published EXCEPT ![p] = x.published[p]] = x.published
  BY DEF BrokerT
<1> HIDE DEF f
<1>2. [x EXCEPT !.door = f, !.published = x.published] = [x EXCEPT !.door = f]
  BY DEF BrokerT
<1> QED BY <1>1, <1>2 DEF WithDoor, f

(* A change of a doorman that leaves its work alone                        *)
LEMMA DoorSame ==
  ASSUME NEW x, Safe(x), NEW p \in Ports, NEW e \in DoormanT,
         e.acc = x.door[p].acc, e.st = x.door[p].st, e.conn = x.door[p].conn,
         e.failed = x.door[p].failed
  PROVE  Keeps(x, WithDoor(x, p, e, x.published[p]))
<1>1. x.published[p] \in Actors \cup {None}
  BY DEF Safe, BrokerT
<1>2. e.acc = "ready" => /\ e.conn \in Conns /\ x.conn[e.conn].st = "accepting"
                         /\ \A q \in Ports : q # p /\ x.door[q].acc = "ready" => x.door[q].conn # e.conn
  BY DEF Safe, DoorsInv
<1>3. x.alive /\ x.published[p] # None => /\ e.st = "attached" \/ e.failed
                                          /\ e.acc \in {"idle", "failed"} => e.failed
  BY DEF Safe, DoorsInv
<1> QED BY <1>1, <1>2, <1>3, DoorKeeps

(* The message object of a doorman                                         *)
LEMMA DoorMsgKeeps ==
  ASSUME NEW x, Safe(x), NEW p \in Ports, NEW b \in BOOLEAN
  PROVE  Keeps(x, [x EXCEPT !.door[p].msg = b])
<1> DEFINE d == x.door[p]
           e == [d EXCEPT !.msg = b]
<1>1. x \in BrokerT /\ d \in DoormanT /\ x.published[p] \in Actors \cup {None}
  BY DEF Safe, BrokerT
<1>2. [x EXCEPT !.door[p].msg = b] = WithDoor(x, p, e, x.published[p])
  <2>1. [x EXCEPT !.door[p].msg = b] = [x EXCEPT !.door = [x.door EXCEPT ![p] = e]]
    BY <1>1 DEF BrokerT
  <2> HIDE DEF e
  <2> QED BY <1>1, <2>1, OnlyDoor
<1>3. e \in DoormanT /\ e.acc = d.acc /\ e.st = d.st /\ e.conn = d.conn /\ e.failed = d.failed
  BY <1>1 DEF DoormanT
<1> HIDE DEF e
<1>4. e \in DoormanT
  BY <1>3
<1>5. Keeps(x, WithDoor(x, p, e, x.published[p]))
  BY <1>3, <1>4, DoorSame
<1> QED BY <1>2, <1>5

(* accept_loop's callback: the doorman accepts the next connection, the    *)
(* broker gets to know the one that was accepted.                          *)
LEMMA AcceptKeeps ==
  ASSUME NEW x, Safe(x), NEW p \in Ports, NEW policy \in Policies,
         x.door[p].acc = "ready", x.door[p].st = "attached"
  PROVE  LET d == x.door[p]
             x2 == [x EXCEPT !.conn[d.conn].st = "attached", !.door[p].conn = None,
                             !.door[p].acc = "pending"]
             m == [kind |-> "accepted", c |-> d.conn]
         IN Keeps(x, [invoke_message(x2, m, "none", policy) EXCEPT !.door[p].msg = ~x.awaiting])
<1> DEFINE d == x.door[p]
           c == d.conn
           s == x.conn[c]
           t == [s EXCEPT !.st = "attached"]
           e == [d EXCEPT !.conn = None, !.acc = "pending"]
           x1 == WithDoor(x, p, e, x.published[p])
           x2 == WithScribe(x1, c, t)
           m == [kind |-> "accepted", c |-> c]
           y == invoke_message(x2, m, "none", policy)
<1>1. /\ x \in BrokerT /\ d \in DoormanT /\ d.st = "attached" /\ x.published[p] \in Actors \cup {None}
      /\ c \in Conns /\ s.st = "accepting" /\ s \in ScribeT
  BY DEF Safe, DoorsInv, BrokerT
<1>2. \A q \in Ports : q # p /\ x.door[q].acc = "ready" => x.door[q].conn # c
  BY DEF Safe, DoorsInv
<1>3. m \in MessageT /\ m.kind = "accepted"
  BY <1>1 DEF MessageT
<1>4. [x EXCEPT !.conn[c].st = "attached", !.door[p].conn = None, !.door[p].acc = "pending"] = x2
  <2>1. [x EXCEPT !.conn[c].st = "attached", !.door[p].conn = None, !.door[p].acc = "pending"]
          = [x EXCEPT !.conn = [x.conn EXCEPT ![c] = t], !.door = [x.door EXCEPT ![p] = e]]
    BY ZenonT(60), <1>1 DEF BrokerT, DoormanT, ScribeT
  <2>2. x1.conn = x.conn
    BY <1>1 DEF WithDoor, BrokerT
  <2>3. x2 = [x EXCEPT !.conn = [x.conn EXCEPT ![c] = t], !.door = [x.door EXCEPT ![p] = e],
                       !.published = [x.published EXCEPT ![p] = x.published[p]]]
    BY <1>1, <2>2 DEF WithDoor, WithScribe, BrokerT
  <2>4. [x.published EXCEPT ![p] = x.published[p]] = x.published
    BY <1>1 DEF BrokerT
  <2> DEFINE f == [x.conn EXCEPT ![c] = t]
             g == [x.door EXCEPT ![p] = e]
  <2> HIDE DEF f, g
  <2>5. [x EXCEPT !.conn = f, !.door = g, !.published = x.published] = [x EXCEPT !.conn = f, !.door = g]
    BY <1>1 DEF BrokerT
  <2> QED BY <2>1, <2>3, <2>4, <2>5 DEF f, g
<1> HIDE DEF m, t, e
<1>5. e \in DoormanT /\ e.acc = "pending" /\ e.st = "attached"
  BY <1>1 DEF DoormanT, Progress, e
<1>6. /\ t \in ScribeT /\ t.st = "attached" /\ t.seen = s.seen /\ t.net = s.net /\ t.sent = s.sent
      /\ t.rd = s.rd /\ OutputOK(t) /\ Started(t)
  <2>1. s \in ScribeT /\ OutputOK(s) /\ Started(s)
    BY <1>1 DEF Safe, ConnsInv
  <2> HIDE DEF s
  <2> QED BY <2>1, AttachFacts DEF t
<1>7. Keeps(x, x1)
  BY <1>1, <1>5, DoorKeeps
<1>8. /\ x1 \in BrokerT /\ x1.conn = x.conn /\ x1.cache = x.cache /\ x1.awaiting = x.awaiting
      /\ x1.door[p] = e /\ \A q \in Ports : q # p => x1.door[q] = x.door[q]
  BY <1>1, <1>5, WithDoorFacts
<1> HIDE DEF x1
<1>9. Safe(x1) /\ x1.conn[c] = s
  BY <1>7, <1>8 DEF Keeps
<1>10. \A q \in Ports : x1.door[q].acc = "ready" => x1.door[q].conn # c
  BY <1>2, <1>5, <1>8
<1> HIDE DEF s, d, c
<1>11. Keeps(x1, x2)
  BY <1>1, <1>6, <1>9, <1>10, AttachKeeps DEF Early
<1>12. x2 \in BrokerT /\ x2.awaiting = x.awaiting
  BY <1>1, <1>6, <1>8, WithScribeFacts
<1> HIDE DEF x2
<1>13. Keeps(x, x2)
  BY <1>7, <1>11, KeepsTrans
<1>14. Keeps(x2, y)
  <2>1. CASE x2.awaiting
    <3> DEFINE z == [x2 EXCEPT !.cache = Append(x2.cache, m)]
    <3>1. y = z
      BY <2>1 DEF invoke_message
    <3>2. Safe(x2)
      BY <1>13 DEF Keeps
    <3>3. m \in MessageT /\ m.kind # "data"
      BY <1>3
    <3>4. Keeps(x2, z)
      BY <2>1, <3>2, <3>3, SkipKeeps
    <3> HIDE DEF y, z
    <3> QED BY <3>1, <3>4
  <2>2. CASE ~x2.awaiting
    <3>1. y = Handle(x2, m, "none", policy)
      BY <2>2 DEF invoke_message
    <3> QED BY <1>3, <1>12, <1>13, <3>1, AcceptedCalm, CalmKeeps DEF Keeps
  <2> QED BY <2>1, <2>2
<1> HIDE DEF y
<1>15. Keeps(x, y)
  BY <1>13, <1>14, KeepsTrans
<1> DEFINE b == ~x.awaiting
<1>16. b \in BOOLEAN /\ Safe(y)
  BY <1>1, <1>15 DEF BrokerT, Keeps
<1> HIDE DEF b
<1>17. Keeps(y, [y EXCEPT !.door[p].msg = b])
  BY <1>16, DoorMsgKeeps
<1>18. Keeps(x, [y EXCEPT !.door[p].msg = b])
  BY <1>15, <1>17, KeepsTrans
<1> QED BY <1>4, <1>18 DEF y, m, c, d, b

-----------------------------------------------------------------------------
(* The network                                                             *)

(* A byte of the peer arrives.                                             *)
LEMMA PeerSendsKeeps ==
  ASSUME NEW x, Safe(x), NEW c \in Conns, x.conn[c].st = "attached"
  PROVE  Keeps(x, [x EXCEPT !.conn[c].net = Append(@, x.conn[c].sent + 1), !.conn[c].sent = @ + 1])
<1> DEFINE s == x.conn[c]
           k == s.sent + 1
           n == Append(s.net, k)
           t == [s EXCEPT !.net = n, !.sent = k]
           a == s.seen \o AllSkipped(x.cache, c) \o Reading(s)
<1>1. /\ x \in BrokerT /\ s \in ScribeT /\ OutputOK(s) /\ Started(s) /\ InputOK(x, c)
      /\ s.st = "attached" /\ x.cache \in Seq(MessageT)
  BY DEF Safe, BrokerT, ConnsInv
<1>2. [x EXCEPT !.conn[c].net = Append(@, x.conn[c].sent + 1), !.conn[c].sent = @ + 1]
        = WithScribe(x, c, t)
  BY <1>1 DEF WithScribe, BrokerT, ScribeT
<1>3. a \o s.net = Bytes(s.sent)
  BY <1>1 DEF InputOK
<1> HIDE DEF s
<1>4. s.sent \in Nat /\ s.net \in Seq(Nat) /\ s.seen \in Seq(Nat) /\ Reading(s) \in Seq(Nat)
  <2>1. s.rbuf \in Seq(Nat) /\ <<>> \in Seq(Nat)
    BY <1>1 DEF ScribeT
  <2> QED BY <1>1, <2>1 DEF ScribeT, Reading
<1>5. k \in Nat
  BY <1>4
<1>6. a \in Seq(Nat)
  <2>1. AllSkipped(x.cache, c) \in Seq(Nat)
    BY <1>1, SkippedSteps
  <2> QED BY <1>4, <2>1
<1>7. Bytes(k) = Append(Bytes(s.sent), k)
  BY <1>4, BytesFacts
<1> HIDE DEF k
<1>8. n \in Seq(Nat)
  BY <1>4, <1>5
<1>9. a \o n = Bytes(k)
  <2> HIDE DEF a
  <2>1. a \o n = Append(a \o s.net, k)
    BY <1>4, <1>5, <1>6, AppendLast
  <2> QED BY <1>3, <1>7, <2>1
<1> HIDE DEF n
<1>10. t \in ScribeT
  BY <1>1, <1>5, <1>8 DEF ScribeT
<1>11. /\ t.net = n /\ t.sent = k /\ t.st = s.st /\ t.seen = s.seen /\ t.rd = s.rd /\ t.rbuf = s.rbuf
       /\ t.launched = s.launched
  BY <1>1 DEF ScribeT
<1>12. OutputOK(t)
  <2>1. /\ t.flushed = s.flushed /\ t.written = s.written /\ t.wr = s.wr /\ t.broken = s.broken
        /\ t.out = s.out /\ t.wr_buf = s.wr_buf /\ t.wr_offline = s.wr_offline
    BY <1>1 DEF ScribeT
  <2> HIDE DEF t
  <2> QED BY <1>1, <2>1 DEF OutputOK, InFlight
<1> HIDE DEF t
<1>13. Started(t) /\ Reading(t) = Reading(s)
  BY <1>1, <1>11 DEF Started, Reading
<1>14. t.seen \o AllSkipped(x.cache, c) \o Reading(t) \o t.net = Bytes(t.sent)
  BY <1>9, <1>11, <1>13
<1>15. t.st = "attached" /\ t.st \notin Early /\ s.st # "accepting"
  BY <1>1, <1>11 DEF Early
<1>16. \A p \in Ports : x.door[p].acc = "ready" => x.door[p].conn # c
  BY <1>15, NoSuchAccept DEF s
<1>17. Safe(WithScribe(x, c, t))
  BY <1>10, <1>12, <1>13, <1>14, <1>15, <1>16, ScribeSafe
<1>18. \A d \in Conns : d # c => WithScribe(x, c, t).conn[d] = x.conn[d]
  BY <1>1, <1>10, WithScribeFacts
<1>19. Keeps(x, WithScribe(x, c, t))
  BY <1>1, <1>17, <1>18 DEF Keeps, s
<1> QED BY <1>2, <1>19

(* A read completes with the first n bytes that wait in the socket.        *)
LEMMA ReadDoneKeeps ==
  ASSUME NEW x, Safe(x), NEW c \in Conns, x.conn[c].rd = "pending", NEW n \in 1 .. Len(x.conn[c].net)
  PROVE  Keeps(x, [x EXCEPT !.conn[c].rd = "ready",
                            !.conn[c].rbuf = @ \o SubSeq(x.conn[c].net, 1, n),
                            !.conn[c].net = SubSeq(x.conn[c].net, n + 1, Len(x.conn[c].net))])
<1> DEFINE s == x.conn[c]
           first == SubSeq(s.net, 1, n)
           rest == SubSeq(s.net, n + 1, Len(s.net))
           all == s.rbuf \o first
           t == [s EXCEPT !.rd = "ready", !.rbuf = all, !.net = rest]
           a == s.seen \o AllSkipped(x.cache, c)
<1>1. /\ x \in BrokerT /\ s \in ScribeT /\ OutputOK(s) /\ Started(s) /\ InputOK(x, c)
      /\ s.rd = "pending" /\ s.st \notin Early /\ s.launched /\ x.cache \in Seq(MessageT)
  BY ReadingKnown DEF Safe, BrokerT, ConnsInv
<1>2. [x EXCEPT !.conn[c].rd = "ready", !.conn[c].rbuf = @ \o SubSeq(x.conn[c].net, 1, n),
                !.conn[c].net = SubSeq(x.conn[c].net, n + 1, Len(x.conn[c].net))]
        = WithScribe(x, c, t)
  BY ZenonT(60), <1>1 DEF WithScribe, BrokerT, ScribeT
<1>3. s.st = "attached" => a \o s.rbuf \o s.net = Bytes(s.sent)
  BY <1>1 DEF InputOK, Reading
<1>4. n \in 0 .. Len(s.net)
  <2>1. n \in 1 .. Len(s.net) /\ s.net \in Seq(Nat)
    BY <1>1 DEF ScribeT
  <2> QED BY <2>1
<1> HIDE DEF s
<1>5. s.net \in Seq(Nat) /\ s.seen \in Seq(Nat) /\ s.rbuf \in Seq(Nat)
  BY <1>1 DEF ScribeT
<1>6. first \in Seq(Nat) /\ rest \in Seq(Nat) /\ first \o rest = s.net
  BY <1>4, <1>5, SplitQueue
<1> HIDE DEF first, rest
<1>7. a \in Seq(Nat)
  <2>1. AllSkipped(x.cache, c) \in Seq(Nat)
    BY <1>1, SkippedSteps
  <2> QED BY <1>5, <2>1
<1>8. all \in Seq(Nat)
  BY <1>5, <1>6
<1>9. a \o all \o rest = a \o s.rbuf \o s.net
  <2> DEFINE b == s.rbuf
  <2>1. b \in Seq(Nat)
    BY <1>5
  <2> HIDE DEF a, b
  <2>2. (a \o b) \o first = a \o (b \o first)
    BY <1>6, <1>7, <2>1, BytesAssociative
  <2>3. a \o b \in Seq(Nat)
    BY <1>7, <2>1
  <2> DEFINE e == a \o b
  <2> HIDE DEF e
  <2>4. (e \o first) \o rest = e \o (first \o rest)
    BY <1>6, <2>3, BytesAssociative DEF e
  <2> QED BY <1>6, <2>2, <2>4 DEF b, e
<1> HIDE DEF all
<1>10. t \in ScribeT
  <2>1. "ready" \in Progress
    BY DEF Progress
  <2> QED BY <1>1, <1>6, <1>8, <2>1 DEF ScribeT
<1>11. /\ t.net = rest /\ t.sent = s.sent /\ t.st = s.st /\ t.seen = s.seen /\ t.rd = "ready"
       /\ t.rbuf = all /\ t.launched = s.launched
  BY <1>1 DEF ScribeT
<1>12. OutputOK(t)
  <2>1. /\ t.flushed = s.flushed /\ t.written = s.written /\ t.wr = s.wr /\ t.broken = s.broken
        /\ t.out = s.out /\ t.wr_buf = s.wr_buf /\ t.wr_offline = s.wr_offline
    BY <1>1 DEF ScribeT
  <2> HIDE DEF t
  <2> QED BY <1>1, <2>1 DEF OutputOK, InFlight
<1> HIDE DEF t
<1>13. Started(t) /\ Reading(t) = all
  BY <1>1, <1>11 DEF Started, Reading
<1>14. t.st = "attached" => t.seen \o AllSkipped(x.cache, c) \o Reading(t) \o t.net = Bytes(t.sent)
  BY <1>3, <1>9, <1>11, <1>13
<1>15. t.st \notin Early /\ s.st # "accepting" /\ s.st # "unassigned"
  BY <1>1, <1>11 DEF Early
<1>16. \A p \in Ports : x.door[p].acc = "ready" => x.door[p].conn # c
  BY <1>15, NoSuchAccept DEF s
<1>17. Safe(WithScribe(x, c, t))
  BY <1>10, <1>12, <1>13, <1>14, <1>15, <1>16, ScribeSafe
<1>18. \A d \in Conns : d # c => WithScribe(x, c, t).conn[d] = x.conn[d]
  BY <1>1, <1>10, WithScribeFacts
<1>19. Keeps(x, WithScribe(x, c, t))
  BY <1>15, <1>17, <1>18 DEF Keeps, s
<1> QED BY <1>2, <1>19

(* A change of rd that leaves the read in progress                         *)
LEMMA ReadGoesOn ==
  ASSUME NEW x, Safe(x), NEW c \in Conns, x.conn[c].rd # "idle", NEW op \in Progress, op # "idle"
  PROVE  Keeps(x, [x EXCEPT !.conn[c].rd = op])
<1> DEFINE s == x.conn[c]
           t == [s EXCEPT !.rd = op]
<1>1. x \in BrokerT /\ s \in ScribeT /\ OutputOK(s) /\ Started(s) /\ s.rd # "idle"
  BY DEF Safe, BrokerT, ConnsInv
<1>2. [x EXCEPT !.conn[c].rd = op] = WithScribe(x, c, t)
  BY <1>1 DEF WithScribe, BrokerT
<1> HIDE DEF s
<1>3. t \in ScribeT
  BY <1>1 DEF ScribeT
<1>4. /\ t.net = s.net /\ t.sent = s.sent /\ t.st = s.st /\ t.seen = s.seen /\ t.rd = op
      /\ t.rbuf = s.rbuf /\ t.launched = s.launched
  BY <1>1 DEF ScribeT
<1>5. OutputOK(t)
  <2>1. /\ t.flushed = s.flushed /\ t.written = s.written /\ t.wr = s.wr /\ t.broken = s.broken
        /\ t.out = s.out /\ t.wr_buf = s.wr_buf /\ t.wr_offline = s.wr_offline
    BY <1>1 DEF ScribeT
  <2> HIDE DEF t
  <2> QED BY <1>1, <2>1 DEF OutputOK, InFlight
<1> HIDE DEF t
<1>6. Started(t) /\ Reading(t) = Reading(s)
  BY <1>1, <1>4 DEF Started, Reading
<1>7. Keeps(x, WithScribe(x, c, t))
  BY <1>1, <1>3, <1>4, <1>5, <1>6, SameKeeps DEF s
<1> QED BY <1>2, <1>7

(* What is on its way has left.                                            *)
LEMMA WriteDoneKeeps ==
  ASSUME NEW x, Safe(x), NEW c \in Conns, x.conn[c].wr = "pending"
  PROVE  Keeps(x, [x EXCEPT !.conn[c].wr = "ready", !.conn[c].out = @ \o x.conn[c].wr_buf])
<1> DEFINE s == x.conn[c]
           o == s.out \o s.wr_buf
           t == [s EXCEPT !.wr = "ready", !.out = o]
<1>1. x \in BrokerT /\ s \in ScribeT /\ OutputOK(s) /\ Started(s) /\ s.wr = "pending"
  BY DEF Safe, BrokerT, ConnsInv
<1>2. [x EXCEPT !.conn[c].wr = "ready", !.conn[c].out = @ \o x.conn[c].wr_buf] = WithScribe(x, c, t)
  BY <1>1 DEF WithScribe, BrokerT, ScribeT
<1> HIDE DEF s
<1>3. o \in Seq(Nat) /\ "ready" \in Progress
  <2>1. s.out \in Seq(Nat) /\ s.wr_buf \in Seq(Nat)
    BY <1>1 DEF ScribeT
  <2> QED BY <2>1 DEF Progress
<1>4. o = s.out \o InFlight(s)
  BY <1>1 DEF InFlight
<1> HIDE DEF o
<1>5. t \in ScribeT
  BY <1>1, <1>3 DEF ScribeT
<1>6. /\ t.net = s.net /\ t.sent = s.sent /\ t.st = s.st /\ t.seen = s.seen /\ t.rd = s.rd
      /\ t.rbuf = s.rbuf /\ t.launched = s.launched
  BY <1>1 DEF ScribeT
<1>7. /\ t.flushed = s.flushed /\ t.written = s.written /\ t.wr = "ready" /\ t.broken = s.broken
      /\ t.out = o /\ t.wr_offline = s.wr_offline
  BY <1>1 DEF ScribeT
<1> HIDE DEF t
<1>8. t.out \o InFlight(t) = o
  BY <1>5, <1>7, StreamFacts
<1>9. OutputOK(t)
  BY <1>1, <1>4, <1>7, <1>8 DEF OutputOK
<1>10. Started(t) /\ Reading(t) = Reading(s)
  BY <1>1, <1>6 DEF Started, Reading
<1>11. Keeps(x, WithScribe(x, c, t))
  BY <1>5, <1>6, <1>9, <1>10, SameKeeps DEF s
<1> QED BY <1>2, <1>11

(* A connection breaks.                                                    *)
LEMMA BreakKeeps ==
  ASSUME NEW x, Safe(x), NEW c \in Conns
  PROVE  Keeps(x, [x EXCEPT !.conn[c].broken = TRUE])
<1> DEFINE s == x.conn[c]
           t == [s EXCEPT !.broken = TRUE]
<1>1. x \in BrokerT /\ s \in ScribeT /\ OutputOK(s) /\ Started(s)
  BY DEF Safe, BrokerT, ConnsInv
<1>2. [x EXCEPT !.conn[c].broken = TRUE] = WithScribe(x, c, t)
  BY <1>1 DEF WithScribe, BrokerT
<1> HIDE DEF s
<1>3. t \in ScribeT
  BY <1>1 DEF ScribeT
<1>4. /\ t.net = s.net /\ t.sent = s.sent /\ t.st = s.st /\ t.seen = s.seen /\ t.rd = s.rd
      /\ t.rbuf = s.rbuf /\ t.launched = s.launched
      /\ t.flushed = s.flushed /\ t.written = s.written /\ t.broken
  BY <1>1 DEF ScribeT
<1> HIDE DEF t
<1>5. OutputOK(t) /\ Started(t) /\ Reading(t) = Reading(s)
  BY <1>1, <1>4 DEF OutputOK, Started, Reading
<1>6. Keeps(x, WithScribe(x, c, t))
  BY <1>3, <1>4, <1>5, SameKeeps DEF s
<1> QED BY <1>2, <1>6

(* A write on a broken connection fails.                                   *)
LEMMA WriteBreaks ==
  ASSUME NEW x, Safe(x), NEW c \in Conns, x.conn[c].broken
  PROVE  Keeps(x, [x EXCEPT !.conn[c].wr = "failed"])
<1> DEFINE s == x.conn[c]
           t == [s EXCEPT !.wr = "failed"]
<1>1. x \in BrokerT /\ s \in ScribeT /\ OutputOK(s) /\ Started(s) /\ s.broken
  BY DEF Safe, BrokerT, ConnsInv
<1>2. [x EXCEPT !.conn[c].wr = "failed"] = WithScribe(x, c, t)
  BY <1>1 DEF WithScribe, BrokerT
<1> HIDE DEF s
<1>3. t \in ScribeT
  BY <1>1 DEF ScribeT, Progress
<1>4. /\ t.net = s.net /\ t.sent = s.sent /\ t.st = s.st /\ t.seen = s.seen /\ t.rd = s.rd
      /\ t.rbuf = s.rbuf /\ t.launched = s.launched
      /\ t.flushed = s.flushed /\ t.written = s.written /\ t.broken = s.broken
  BY <1>1 DEF ScribeT
<1> HIDE DEF t
<1>5. OutputOK(t) /\ Started(t) /\ Reading(t) = Reading(s)
  BY <1>1, <1>4 DEF OutputOK, Started, Reading
<1>6. Keeps(x, WithScribe(x, c, t))
  BY <1>3, <1>4, <1>5, SameKeeps DEF s
<1> QED BY <1>2, <1>6

-----------------------------------------------------------------------------
(* Ports and connections on their way to the broker                        *)

(* A failed accept detaches the doorman.                                   *)
LEMMA AcceptFailedKeeps ==
  ASSUME NEW x, Safe(x), NEW p \in Ports, x.door[p].acc = "failed"
  PROVE  Keeps(x, [x EXCEPT !.door[p].acc = "idle", !.door[p].st = "detached"])
<1> DEFINE e == [x.door[p] EXCEPT !.acc = "idle", !.st = "detached"]
           a == x.published[p]
<1>1. x \in BrokerT /\ x.door[p] \in DoormanT /\ a \in Actors \cup {None}
  BY DEF Safe, BrokerT
<1>2. [x EXCEPT !.door[p].acc = "idle", !.door[p].st = "detached"]
        = [x EXCEPT !.door = [x.door EXCEPT ![p] = e]]
  BY <1>1 DEF BrokerT, DoormanT
<1>3. e \in DoormanT /\ e.acc = "idle" /\ e.failed = x.door[p].failed
  BY <1>1 DEF DoormanT, Stages, Progress
<1>4. x.alive /\ a # None => x.door[p].failed
  BY DEF Safe, DoorsInv
<1> HIDE DEF e, a
<1>5. Keeps(x, WithDoor(x, p, e, a))
  BY <1>1, <1>3, <1>4, DoorKeeps
<1> QED BY <1>1, <1>2, <1>5, OnlyDoor DEF a

(* An acceptor fails.                                                      *)
LEMMA AcceptorBreaksKeeps ==
  ASSUME NEW x, Safe(x), NEW p \in Ports
  PROVE  Keeps(x, [x EXCEPT !.door[p].acc = "failed", !.door[p].failed = TRUE])
<1> DEFINE e == [x.door[p] EXCEPT !.acc = "failed", !.failed = TRUE]
           a == x.published[p]
<1>1. x \in BrokerT /\ x.door[p] \in DoormanT /\ a \in Actors \cup {None}
  BY DEF Safe, BrokerT
<1>2. [x EXCEPT !.door[p].acc = "failed", !.door[p].failed = TRUE]
        = [x EXCEPT !.door = [x.door EXCEPT ![p] = e]]
  BY <1>1 DEF BrokerT, DoormanT
<1>3. e \in DoormanT /\ e.acc = "failed" /\ e.failed
  BY <1>1 DEF DoormanT, Progress
<1> HIDE DEF e, a
<1>4. Keeps(x, WithDoor(x, p, e, a))
  BY <1>1, <1>3, DoorKeeps
<1> QED BY <1>1, <1>2, <1>4, OnlyDoor DEF a

(* The middleman actor binds a port: its doorman is not published yet or   *)
(* failed before.                                                          *)
LEMMA PutKeeps ==
  ASSUME NEW x, Safe(x), NEW p \in Ports, x.door[p].st = "none"
  PROVE  Keeps(x, [x EXCEPT !.door[p].st = "unassigned"])
<1> DEFINE e == [x.door[p] EXCEPT !.st = "unassigned"]
           a == x.published[p]
<1>1. x \in BrokerT /\ x.door[p] \in DoormanT /\ a \in Actors \cup {None}
  BY DEF Safe, BrokerT
<1>2. [x EXCEPT !.door[p].st = "unassigned"] = [x EXCEPT !.door = [x.door EXCEPT ![p] = e]]
  BY <1>1 DEF BrokerT, DoormanT
<1>3. e \in DoormanT /\ e.acc = x.door[p].acc /\ e.failed = x.door[p].failed /\ e.conn = x.door[p].conn
  BY <1>1 DEF DoormanT, Stages
<1>4. x.alive /\ a # None => x.door[p].failed
  BY DEF Safe, DoorsInv
<1> HIDE DEF e
<1>5. e.acc = "ready" => /\ e.conn \in Conns /\ x.conn[e.conn].st = "accepting"
                         /\ \A q \in Ports : q # p /\ x.door[q].acc = "ready" => x.door[q].conn # e.conn
  BY <1>3 DEF Safe, DoorsInv
<1> HIDE DEF a
<1>6. Keeps(x, WithDoor(x, p, e, a))
  BY <1>1, <1>3, <1>4, <1>5, DoorKeeps
<1> QED BY <1>1, <1>2, <1>6, OnlyDoor DEF a

(* The broker publishes an actor: its doorman accepts.                     *)
LEMMA PublishKeeps ==
  ASSUME NEW x, Safe(x), NEW p \in Ports, NEW whom \in Actors \cup {None}
  PROVE  Keeps(x, publish(x, p, whom))
<1> DEFINE e == [x.door[p] EXCEPT !.st = "attached", !.acc = "pending"]
<1>1. x \in BrokerT /\ x.door[p] \in DoormanT
  BY DEF Safe, BrokerT
<1>2. CASE whom = None
  <2>1. publish(x, p, whom) = x
    BY <1>2 DEF publish
  <2> QED BY <2>1 DEF Keeps
<1>3. CASE whom # None
  <2>1. publish(x, p, whom) = WithDoor(x, p, e, whom)
    BY <1>1, <1>3 DEF publish, WithDoor, BrokerT, DoormanT
  <2>2. e \in DoormanT /\ e.acc = "pending" /\ e.st = "attached"
    BY <1>1 DEF DoormanT, Stages, Progress
  <2> HIDE DEF e
  <2>3. Keeps(x, WithDoor(x, p, e, whom))
    BY <2>2, DoorKeeps
  <2> QED BY <2>1, <2>3
<1> QED BY <1>2, <1>3

(* The doorman goes, and nothing is published there any more.              *)
LEMMA WithdrawKeeps ==
  ASSUME NEW x, Safe(x), NEW p \in Ports
  PROVE  Keeps(x, [(IF x.door[p].st = "attached" THEN close_port(x, p) ELSE x)
                     EXCEPT !.published[p] = None])
<1> DEFINE d == x.door[p]
           e == IF d.st = "attached" THEN [d EXCEPT !.st = "detached", !.acc = Abort(d.acc)] ELSE d
           y == [(IF x.door[p].st = "attached" THEN close_port(x, p) ELSE x) EXCEPT !.published[p] = None]
<1>1. x \in BrokerT /\ d \in DoormanT /\ x.door \in [Ports -> DoormanT]
  BY DEF Safe, BrokerT
<1>2. y = WithDoor(x, p, e, None)
  <2>1. CASE d.st = "attached"
    <3> DEFINE f == [d EXCEPT !.st = "detached", !.acc = Abort(d.acc)]
    <3>1. close_port(x, p) = [x EXCEPT !.door = [x.door EXCEPT ![p] = f]]
      BY <1>1, <2>1, ClosePortShape
    <3>2. y = [[x EXCEPT !.door = [x.door EXCEPT ![p] = f]] EXCEPT !.published[p] = None]
      BY <2>1, <3>1
    <3> HIDE DEF f, y
    <3>3. y = WithDoor(x, p, f, None)
      BY <1>1, <3>2 DEF WithDoor, BrokerT
    <3> QED BY <2>1, <3>3 DEF f
  <2>2. CASE d.st # "attached"
    <3>1. y = [x EXCEPT !.published[p] = None]
      BY <2>2
    <3>2. [x.door EXCEPT ![p] = x.door[p]] = x.door
      BY <1>1
    <3> HIDE DEF y
    <3>3. y = WithDoor(x, p, x.door[p], None)
      BY <1>1, <3>1, <3>2 DEF WithDoor, BrokerT
    <3> QED BY <2>2, <3>3
  <2> QED BY <2>1, <2>2
<1> HIDE DEF y
<1>3. e \in DoormanT /\ (e.acc = "ready" => d.acc = "ready") /\ e.conn = d.conn
  <2>1. CASE d.st = "attached"
    <3> HIDE DEF d
    <3>1. Abort(d.acc) \in Progress /\ (Abort(d.acc) = "ready" => d.acc = "ready")
      BY <1>1 DEF Abort, DoormanT, Progress
    <3> QED BY <1>1, <2>1, <3>1 DEF DoormanT, Stages
  <2>2. CASE d.st # "attached"
    BY <1>1, <2>2
  <2> QED BY <2>1, <2>2
<1> HIDE DEF e
<1>4. e.acc = "ready" => /\ e.conn \in Conns /\ x.conn[e.conn].st = "accepting"
                         /\ \A q \in Ports : q # p /\ x.door[q].acc = "ready" => x.door[q].conn # e.conn
  BY <1>3 DEF Safe, DoorsInv
<1>5. Keeps(x, WithDoor(x, p, e, None))
  BY <1>3, <1>4, DoorKeeps
<1> QED BY <1>2, <1>5 DEF y

(* A connection goes from one early stage to another one.                  *)
LEMMA EarlySafe ==
  ASSUME NEW x, Safe(x), NEW c \in Conns, x.conn[c].st = "none", NEW stage \in Early
  PROVE  /\ [x.conn[c] EXCEPT !.st = stage] \in ScribeT
         /\ [x.conn[c] EXCEPT !.st = stage].st = stage
         /\ Keeps(x, WithScribe(x, c, [x.conn[c] EXCEPT !.st = stage]))
<1> DEFINE s == x.conn[c]
           t == [s EXCEPT !.st = stage]
<1>1. x \in BrokerT /\ s \in ScribeT /\ OutputOK(s) /\ Started(s) /\ InputOK(x, c) /\ s.st = "none"
  BY DEF Safe, BrokerT, ConnsInv
<1>2. Untouched(s)
  BY <1>1 DEF InputOK, Early
<1>3. stage \in Stages
  BY DEF Stages, Early
<1> HIDE DEF s
<1>4. t \in ScribeT
  BY <1>1, <1>3 DEF ScribeT
<1>5. /\ t.net = s.net /\ t.sent = s.sent /\ t.st = stage /\ t.seen = s.seen /\ t.rd = s.rd
      /\ t.launched = s.launched
  BY <1>1 DEF ScribeT
<1>6. OutputOK(t)
  <2>1. /\ t.flushed = s.flushed /\ t.written = s.written /\ t.wr = s.wr /\ t.broken = s.broken
        /\ t.out = s.out /\ t.wr_buf = s.wr_buf /\ t.wr_offline = s.wr_offline
    BY <1>1 DEF ScribeT
  <2> HIDE DEF t
  <2> QED BY <1>1, <2>1 DEF OutputOK, InFlight
<1> HIDE DEF t
<1>7. Started(t) /\ Untouched(t)
  BY <1>1, <1>2, <1>5 DEF Started, Untouched
<1>8. t.st # "attached" /\ s.st \in Early
  BY <1>1, <1>5 DEF Early
<1>9. \A p \in Ports : x.door[p].acc = "ready" => x.door[p].conn # c
  BY <1>1, NoSuchAccept DEF s
<1>10. Safe(WithScribe(x, c, t))
  BY <1>4, <1>6, <1>7, <1>8, <1>9, ScribeSafe DEF s
<1>11. \A d \in Conns : d # c => WithScribe(x, c, t).conn[d] = x.conn[d]
  BY <1>1, <1>4, WithScribeFacts
<1>12. Keeps(x, WithScribe(x, c, t))
  BY <1>1, <1>10, <1>11 DEF Keeps, s
<1> QED BY <1>4, <1>5, <1>12 DEF t, s

(* A peer connects: the accept completes with a connection of its own.     *)
LEMMA PeerConnectsKeeps ==
  ASSUME NEW x, Safe(x), NEW p \in Ports, x.door[p].acc = "pending", x.door[p].st = "attached",
         NEW c \in Conns, x.conn[c].st = "none"
  PROVE  Keeps(x, [x EXCEPT !.door[p].acc = "ready", !.door[p].conn = c, !.conn[c].st = "accepting"])
<1> DEFINE d == x.door[p]
           t == [x.conn[c] EXCEPT !.st = "accepting"]
           e == [d EXCEPT !.acc = "ready", !.conn = c]
           a == x.published[p]
           x1 == WithScribe(x, c, t)
           y == [x EXCEPT !.door[p].acc = "ready", !.door[p].conn = c, !.conn[c].st = "accepting"]
<1>1. x \in BrokerT /\ d \in DoormanT /\ a \in Actors \cup {None} /\ d.st = "attached"
  BY DEF Safe, BrokerT
<1>2. t \in ScribeT /\ t.st = "accepting" /\ Keeps(x, x1)
  <2> DEFINE stage == "accepting"
             v == [x.conn[c] EXCEPT !.st = stage]
  <2>1. stage \in Early
    BY DEF Early
  <2> HIDE DEF stage
  <2>2. v \in ScribeT /\ v.st = stage /\ Keeps(x, WithScribe(x, c, v))
    BY <2>1, EarlySafe
  <2> QED BY <2>2 DEF stage
<1>3. y = [x1 EXCEPT !.door = [x1.door EXCEPT ![p] = e]]
  <2>1. y = [x EXCEPT !.door = [x.door EXCEPT ![p] = e], !.conn = [x.conn EXCEPT ![c] = t]]
    BY <1>1 DEF BrokerT, DoormanT, ScribeT
  <2>2. x1.door = x.door
    BY <1>1, <1>2, WithScribeFacts
  <2> HIDE DEF y
  <2> DEFINE f == [x.conn EXCEPT ![c] = t]
             g == [x.door EXCEPT ![p] = e]
  <2>3. [x1 EXCEPT !.door = g] = [[x EXCEPT !.conn = f] EXCEPT !.door = g]
    BY DEF WithScribe
  <2> HIDE DEF f, g
  <2>4. [[x EXCEPT !.conn = f] EXCEPT !.door = g] = [x EXCEPT !.door = g, !.conn = f]
    BY <1>1 DEF BrokerT
  <2> QED BY <2>1, <2>2, <2>3, <2>4 DEF f, g
<1> HIDE DEF y
<1>4. e \in DoormanT /\ e.acc = "ready" /\ e.conn = c /\ e.st = "attached"
  BY <1>1 DEF DoormanT, Progress
<1>5. x1 \in BrokerT /\ x1.conn[c] = t /\ x1.door = x.door /\ x1.published = x.published
  BY <1>1, <1>2, WithScribeFacts
<1>6. \A q \in Ports : x1.door[q].acc = "ready" => x1.door[q].conn # c
  BY <1>5, NoSuchAccept
<1> HIDE DEF x1, e, t
<1>7. Safe(x1) /\ x1.conn[e.conn].st = "accepting" /\ a = x1.published[p]
  BY <1>2, <1>4, <1>5 DEF Keeps
<1> HIDE DEF a
<1>8. Keeps(x1, WithDoor(x1, p, e, a))
  BY <1>1, <1>4, <1>6, <1>7, DoorKeeps
<1>9. y = WithDoor(x1, p, e, a)
  BY <1>3, <1>5, <1>7, OnlyDoor
<1>10. Keeps(x, y)
  BY <1>2, <1>8, <1>9, KeepsTrans
<1> QED BY <1>10 DEF y

(* The broker gets a connection that the middleman actor opened.           *)
LEMMA ConnectKeeps ==
  ASSUME NEW x, Safe(x), NEW c \in Conns, x.conn[c].st = "unassigned", NEW policy \in Policies
  PROVE  /\ Safe(connect(x, c, policy))
         /\ \A d \in Conns : d # c /\ x.conn[d].st = "unassigned"
                               => connect(x, c, policy).conn[d].st = "unassigned"
<1> DEFINE s == x.conn[c]
           t == [s EXCEPT !.st = "attached"]
           x1 == WithScribe(x, c, t)
           y == configure_read(x1, c, policy)
<1>1. x \in BrokerT /\ s \in ScribeT /\ OutputOK(s) /\ Started(s) /\ s.st = "unassigned"
  BY DEF Safe, BrokerT, ConnsInv
<1>2. connect(x, c, policy) = y
  <2>1. [x EXCEPT !.conn[c].st = "attached"] = x1
    BY <1>1 DEF WithScribe, BrokerT
  <2> QED BY <2>1 DEF connect
<1> HIDE DEF s
<1>3. /\ t \in ScribeT /\ t.st = "attached" /\ t.seen = s.seen /\ t.net = s.net
      /\ t.sent = s.sent /\ t.rd = s.rd /\ OutputOK(t) /\ Started(t)
  BY <1>1, AttachFacts
<1> HIDE DEF t
<1>4. \A p \in Ports : x.door[p].acc = "ready" => x.door[p].conn # c
  BY <1>1, NoSuchAccept DEF s
<1>5. s.st \in Early
  BY <1>1 DEF Early
<1>6. Safe(x1) /\ \A d \in Conns : d # c => x1.conn[d] = x.conn[d]
  BY <1>3, <1>4, <1>5, AttachKeeps DEF s
<1>7. x1 \in BrokerT /\ valid(x1, c)
  BY <1>1, <1>3, WithScribeFacts DEF valid
<1> HIDE DEF x1
<1>8. Keeps(x1, y)
  BY <1>6, <1>7, ConfigureCalm, CalmKeeps
<1> HIDE DEF y
<1>9. Safe(y) /\ \A d \in Conns : d # c /\ x.conn[d].st = "unassigned" => y.conn[d].st = "unassigned"
  BY <1>6, <1>8 DEF Keeps
<1> QED BY <1>2, <1>9

-----------------------------------------------------------------------------
(* The inductive invariant                                                 *)

(* What a task is about                                                    *)
LEMMA TaskFacts ==
  ASSUME NEW t \in TaskT
  PROVE  /\ t.op \in {"connect", "publish", "unpublish", "close"}
         /\ t.op = "connect" => t.p \in Conns
         /\ t.op # "connect" => t.p \in Ports /\ t.whom \in Actors \cup {None}
BY DEF TaskT

(* A step that posts nothing                                               *)
LEMMA StepInv ==
  ASSUME IInv, Keeps(w, w'), posted' = posted
  PROVE  IInv'
<1>1. Safe(w') /\ posted \in Seq(TaskT) /\ TasksInv
  BY DEF Keeps, IInv
<1>2. ASSUME NEW i \in 1 .. Len(posted), posted[i].op = "connect"
      PROVE  w'.conn[posted[i].p].st = "unassigned"
  <2>1. posted[i].p \in Conns
    BY <1>1, <1>2, TaskFacts
  <2>2. w.conn[posted[i].p].st = "unassigned"
    BY <1>1, <1>2 DEF TasksInv
  <2> QED BY <2>1, <2>2 DEF Keeps
<1>3. TasksInv'
  BY <1>1, <1>2 DEF TasksInv
<1> QED BY <1>1, <1>3 DEF IInv, Safe

(* A step that posts a task: a connect if the connection waits for it      *)
LEMMA PostInv ==
  ASSUME IInv, Keeps(w, w'), NEW t \in TaskT, posted' = Append(posted, t),
         t.op = "connect" => w.conn[t.p].st # "unassigned" /\ w'.conn[t.p].st = "unassigned"
  PROVE  IInv'
<1>1. Safe(w') /\ posted \in Seq(TaskT) /\ TasksInv
  BY DEF Keeps, IInv
<1>2. /\ posted' \in Seq(TaskT)
      /\ \A i \in 1 .. Len(posted') : \/ i \in 1 .. Len(posted) /\ posted'[i] = posted[i]
                                      \/ i = Len(posted) + 1 /\ posted'[i] = t
  BY <1>1
<1>3. ASSUME NEW i \in 1 .. Len(posted'), posted'[i].op = "connect"
      PROVE  /\ w'.conn[posted'[i].p].st = "unassigned"
             /\ i \in 1 .. Len(posted) => w.conn[posted'[i].p].st = "unassigned"
  <2>1. CASE i \in 1 .. Len(posted) /\ posted'[i] = posted[i]
    <3>1. posted[i].p \in Conns
      BY <1>1, <1>3, <2>1, TaskFacts
    <3>2. w.conn[posted[i].p].st = "unassigned"
      BY <1>1, <1>3, <2>1 DEF TasksInv
    <3> QED BY <2>1, <3>1, <3>2 DEF Keeps
  <2>2. CASE i = Len(posted) + 1 /\ posted'[i] = t
    <3>1. i \notin 1 .. Len(posted)
      BY <1>1, <2>2
    <3> QED BY <1>3, <2>2, <3>1
  <2> QED BY <1>2, <2>1, <2>2
<1>4. ASSUME NEW i \in 1 .. Len(posted'), NEW j \in 1 .. Len(posted'), i # j,
             posted'[i].op = "connect", posted'[j].op = "connect"
      PROVE  posted'[i].p # posted'[j].p
  <2>1. CASE i \in 1 .. Len(posted) /\ j \in 1 .. Len(posted)
    <3>1. posted'[i] = posted[i] /\ posted'[j] = posted[j]
      BY <1>1, <1>2, <2>1
    <3> QED BY <1>1, <1>4, <2>1, <3>1 DEF TasksInv
  <2>2. CASE i \in 1 .. Len(posted) /\ j \notin 1 .. Len(posted)
    <3>1. posted'[j] = t /\ w.conn[posted'[i].p].st = "unassigned"
      BY <1>2, <1>3, <1>4, <2>2
    <3> QED BY <1>4, <3>1
  <2>3. CASE i \notin 1 .. Len(posted) /\ j \in 1 .. Len(posted)
    <3>1. posted'[i] = t /\ w.conn[posted'[j].p].st = "unassigned"
      BY <1>2, <1>3, <1>4, <2>3
    <3> QED BY <1>4, <3>1
  <2>4. CASE i \notin 1 .. Len(posted) /\ j \notin 1 .. Len(posted)
    BY <1>2, <1>4, <2>4
  <2> QED BY <2>1, <2>2, <2>3, <2>4
<1>5. TasksInv'
  BY <1>3, <1>4 DEF TasksInv
<1> QED BY <1>1, <1>2, <1>5 DEF IInv, Safe

(* The invariant holds initially.                                          *)
LEMMA InitInv ==
  ASSUME Init
  PROVE  IInv
<1>1. NewScribe \in ScribeT
  <2>1. <<>> \in Seq(Nat)
    OBVIOUS
  <2> QED BY <2>1 DEF NewScribe, ScribeT, Stages, Progress
<1>2. NewDoorman \in DoormanT
  BY DEF NewDoorman, DoormanT, Stages, Progress
<1>3. <<>> \in Seq(MessageT) /\ <<>> \in Seq(TaskT)
  OBVIOUS
<1>4. w \in BrokerT /\ posted \in Seq(TaskT)
  <2> DEFINE f == [c \in Conns |-> NewScribe]
             g == [p \in Ports |-> NewDoorman]
             h == [p \in Ports |-> None]
  <2>1. f \in [Conns -> ScribeT] /\ g \in [Ports -> DoormanT] /\ h \in [Ports -> Actors \cup {None}]
    BY <1>1, <1>2
  <2> HIDE DEF f, g, h
  <2>2. w = [alive |-> TRUE, awaiting |-> FALSE, cache |-> <<>>, crashed |-> FALSE,
             conn |-> f, door |-> g, published |-> h]
    BY DEF Init, f, g, h
  <2>3. posted = <<>>
    BY DEF Init
  <2> QED BY <1>3, <2>1, <2>2, <2>3 DEF BrokerT
<1>5. /\ \A c \in Conns : w.conn[c] = NewScribe
      /\ \A p \in Ports : w.door[p] = NewDoorman /\ w.published[p] = None
      /\ w.cache = <<>> /\ posted = <<>>
  BY DEF Init
<1>6. OutputOK(NewScribe) /\ Started(NewScribe) /\ Untouched(NewScribe)
  <2>1. Bytes(0) = <<>> /\ Len(<<>>) = 0
    BY BytesFacts
  <2> QED BY <2>1 DEF NewScribe, OutputOK, InFlight, Started, Untouched
<1>7. NewScribe.st = "none"
  BY DEF NewScribe
<1>8. ConnsInv(w)
  <2>1. \A c \in Conns : AllSkipped(w.cache, c) = <<>>
    BY <1>5, SkippedEmpty
  <2> QED BY <1>5, <1>6, <1>7, <2>1 DEF ConnsInv, InputOK
<1>9. CacheInv(w)
  BY <1>5 DEF CacheInv
<1>10. DoorsInv(w)
  BY <1>5 DEF DoorsInv, NewDoorman
<1>11. TasksInv
  BY <1>5 DEF TasksInv
<1> QED BY <1>4, <1>8, <1>9, <1>10, <1>11 DEF IInv

(* The first task is run and leaves the others waiting.                    *)
LEMMA TailInv ==
  ASSUME IInv, posted # <<>>, posted' = Tail(posted), Safe(w'),
         \A c \in Conns :
           (w.conn[c].st = "unassigned" /\ (Head(posted).op = "connect" => c # Head(posted).p))
             => w'.conn[c].st = "unassigned"
  PROVE  IInv'
<1>1. posted \in Seq(TaskT) /\ TasksInv
  BY DEF IInv
<1>2. /\ posted' \in Seq(TaskT) /\ Head(posted) = posted[1]
      /\ \A i \in 1 .. Len(posted') :
           i + 1 \in 1 .. Len(posted) /\ 1 \in 1 .. Len(posted) /\ posted'[i] = posted[i + 1] /\ i + 1 # 1
  BY <1>1
<1>3. ASSUME NEW i \in 1 .. Len(posted'), posted'[i].op = "connect"
      PROVE  w'.conn[posted'[i].p].st = "unassigned"
  <2>1. posted'[i].p \in Conns
    BY <1>2, <1>3, TaskFacts
  <2>2. w.conn[posted'[i].p].st = "unassigned"
    BY <1>1, <1>2, <1>3 DEF TasksInv
  <2>3. Head(posted).op = "connect" => posted'[i].p # Head(posted).p
    BY <1>1, <1>2, <1>3 DEF TasksInv
  <2> QED BY <2>1, <2>2, <2>3
<1>4. ASSUME NEW i \in 1 .. Len(posted'), NEW j \in 1 .. Len(posted'), i # j,
             posted'[i].op = "connect", posted'[j].op = "connect"
      PROVE  posted'[i].p # posted'[j].p
  <2>1. i + 1 # j + 1
    BY <1>2, <1>4
  <2> QED BY <1>1, <1>2, <1>4, <2>1 DEF TasksInv
<1>5. TasksInv'
  BY <1>3, <1>4 DEF TasksInv
<1> QED BY <1>2, <1>5 DEF IInv, Safe

(* The broker runs a task of the middleman actor.                          *)
LEMMA RunPostedInv ==
  ASSUME IInv, NEW policy \in Policies, RunPosted(policy)
  PROVE  IInv'
<1> DEFINE t == Head(posted)
<1>1. Safe(w) /\ posted \in Seq(TaskT) /\ posted # <<>> /\ posted' = Tail(posted) /\ TasksInv
  BY DEF IInv, Safe, RunPosted
<1>2. t \in TaskT /\ (t.op = "connect" => w.conn[t.p].st = "unassigned")
  <2>1. t = posted[1] /\ 1 \in 1 .. Len(posted) /\ t \in TaskT
    BY <1>1
  <2> QED BY <1>1, <2>1 DEF TasksInv
<1>3. w' = CASE ~w.alive -> w
             [] w.alive /\ t.op = "publish" -> publish(w, t.p, t.whom)
             [] w.alive /\ t.op = "connect" -> connect(w, t.p, policy)
             [] w.alive /\ t.op = "unpublish" -> unpublish(w, t.p, t.whom)
             [] w.alive /\ t.op = "close" -> close_acceptor(w, t.p)
  BY DEF RunPosted
<1>4. /\ t.op \in {"connect", "publish", "unpublish", "close"}
      /\ t.op = "connect" => t.p \in Conns
      /\ t.op # "connect" => t.p \in Ports /\ t.whom \in Actors \cup {None}
  BY <1>2, TaskFacts
<1> HIDE DEF t
<1>5. CASE ~w.alive
  <2>1. w' = w
    BY <1>3, <1>5
  <2> QED BY <1>1, <2>1, TailInv
<1>6. CASE w.alive /\ t.op = "publish"
  <2>1. w' = publish(w, t.p, t.whom)
    BY <1>3, <1>6
  <2>2. Keeps(w, w')
    BY <1>1, <1>4, <1>6, <2>1, PublishKeeps
  <2> QED BY <1>1, <2>2, TailInv DEF Keeps
<1>7. CASE w.alive /\ t.op = "connect"
  <2>1. w' = connect(w, t.p, policy)
    BY <1>3, <1>7
  <2>2. /\ Safe(w')
        /\ \A d \in Conns : d # t.p /\ w.conn[d].st = "unassigned" => w'.conn[d].st = "unassigned"
    BY <1>1, <1>2, <1>4, <1>7, <2>1, ConnectKeeps
  <2> QED BY <1>1, <1>7, <2>2, TailInv DEF t
<1>8. CASE w.alive /\ t.op = "unpublish"
  <2>1. w' = unpublish(w, t.p, t.whom)
    BY <1>3, <1>8
  <2>2. Keeps(w, w')
    <3>1. CASE t.whom = None \/ w.published[t.p] # t.whom
      BY <1>1, <2>1, <3>1 DEF unpublish, Keeps
    <3>2. CASE ~ (t.whom = None \/ w.published[t.p] # t.whom)
      BY <1>1, <1>4, <1>8, <2>1, <3>2, WithdrawKeeps DEF unpublish
    <3> QED BY <3>1, <3>2
  <2> QED BY <1>1, <2>2, TailInv DEF Keeps
<1>9. CASE w.alive /\ t.op = "close"
  <2>1. w' = close_acceptor(w, t.p)
    BY <1>3, <1>9
  <2>2. Keeps(w, w')
    BY <1>1, <1>4, <1>9, <2>1, WithdrawKeeps DEF close_acceptor
  <2> QED BY <1>1, <2>2, TailInv DEF Keeps
<1> QED BY <1>4, <1>5, <1>6, <1>7, <1>8, <1>9

(* Every step keeps the invariant.                                         *)
LEMMA NextInv ==
  ASSUME IInv, [Next]_vars
  PROVE  IInv'
<1>1. Safe(w) /\ w \in BrokerT
  BY DEF IInv, Safe
<1>2. SUFFICES ASSUME Next PROVE IInv'
  <2>1. CASE UNCHANGED vars
    <3>1. w' = w /\ posted' = posted
      BY <2>1 DEF vars
    <3>2. Keeps(w, w')
      BY <1>1, <3>1 DEF Keeps
    <3> QED BY <3>1, <3>2, StepInv
  <2> QED BY <2>1
<1>3. ASSUME NEW c \in Conns, NEW r \in Reactions, ReadCallback(c, r) PROVE IInv'
  <2> DEFINE s == w.conn[c]
             done == s.op # "collect" \/ Len(s.rbuf) >= s.size
             y == consume(w, c, r)
  <2>1. /\ ~w.crashed /\ s.rd = "ready" /\ posted' = posted
        /\ w' = CASE ~done -> [w EXCEPT !.conn[c].rd = "pending"]
                  [] done /\ y.crashed -> y
                  [] done /\ ~y.crashed -> read_loop(y, c)
    BY <1>3 DEF ReadCallback, Running
  <2> HIDE DEF done
  <2>2. Keeps(w, IF y.crashed THEN y ELSE read_loop(y, c))
    BY <1>1, <2>1, ReadKeeps
  <2> HIDE DEF y
  <2>3. Keeps(w, w')
    <3>1. CASE ~done
      <4> DEFINE op == "pending"
      <4>1. w' = [w EXCEPT !.conn[c].rd = op] /\ op \in Progress /\ op # "idle"
        BY <2>1, <3>1 DEF Progress
      <4> HIDE DEF op
      <4> QED BY <1>1, <2>1, <4>1, ReadGoesOn
    <3>2. CASE done
      <4>1. w' = IF y.crashed THEN y ELSE read_loop(y, c)
        BY <2>1, <3>2
      <4> QED BY <2>2, <4>1
    <3> QED BY <3>1, <3>2
  <2> QED BY <2>1, <2>3, StepInv
<1>4. ASSUME NEW c \in Conns, NEW r \in Reactions, ReadFailed(c, r) PROVE IInv'
  <2>1. /\ w.conn[c].rd = "failed" /\ posted' = posted
        /\ w' = io_failure([w EXCEPT !.conn[c].rd = "idle"], c, r)
    BY <1>4 DEF ReadFailed
  <2>2. Keeps(w, w')
    BY <1>1, <2>1, ReadFailedKeeps
  <2> QED BY <2>1, <2>2, StepInv
<1>5. ASSUME NEW c \in Conns, NEW r \in Reactions, WriteFailed(c, r) PROVE IInv'
  <2>1. /\ w.conn[c].wr = "failed" /\ posted' = posted
        /\ w' = [io_failure(w, c, r) EXCEPT !.conn[c].wr = "idle"]
    BY <1>5 DEF WriteFailed
  <2>2. Keeps(w, w')
    BY <1>1, <2>1, WriteFailedKeeps
  <2> QED BY <2>1, <2>2, StepInv
<1>6. ASSUME NEW c \in Conns, WriteCallback(c) PROVE IInv'
  <2>1. w.conn[c].wr = "ready" /\ posted' = posted /\ w' = write_loop(w, c)
    BY <1>6 DEF WriteCallback
  <2>2. Calm(w, w')
    BY <1>1, <2>1, WriteLoopCalm
  <2>3. Keeps(w, w')
    BY <1>1, <2>2, CalmKeeps
  <2> QED BY <2>1, <2>3, StepInv
<1>7. ASSUME NEW c \in Conns, Connect(c) PROVE IInv'
  <2> DEFINE t == [op |-> "connect", p |-> c, whom |-> None]
             stage == "unassigned"
  <2>1. /\ w.conn[c].st = "none" /\ posted' = Append(posted, t)
        /\ w' = [w EXCEPT !.conn[c].st = stage]
    BY <1>7 DEF Connect, Post
  <2>2. t \in TaskT /\ t.op = "connect" /\ t.p = c /\ stage \in Early /\ stage = "unassigned"
    BY DEF TaskT, Early
  <2> HIDE DEF t, stage
  <2> DEFINE v == [w.conn[c] EXCEPT !.st = stage]
  <2>3. v \in ScribeT /\ v.st = stage /\ Keeps(w, WithScribe(w, c, v))
    BY <1>1, <2>1, <2>2, EarlySafe
  <2>4. w' = WithScribe(w, c, v)
    BY <1>1, <2>1 DEF WithScribe, BrokerT
  <2> HIDE DEF v
  <2>5. w'.conn[c].st = "unassigned"
    BY <1>1, <2>2, <2>3, <2>4, WithScribeFacts
  <2>6. Keeps(w, w')
    BY <2>3, <2>4
  <2> QED BY <2>1, <2>2, <2>5, <2>6, PostInv
<1>8. ASSUME NEW c \in Conns, PeerSends(c) PROVE IInv'
  <2>1. /\ w.conn[c].st = "attached" /\ posted' = posted
        /\ w' = [w EXCEPT !.conn[c].net = Append(@, w.conn[c].sent + 1), !.conn[c].sent = @ + 1]
    BY <1>8 DEF PeerSends
  <2>2. Keeps(w, w')
    BY <1>1, <2>1, PeerSendsKeeps
  <2> QED BY <2>1, <2>2, StepInv
<1>9. ASSUME NEW c \in Conns, ReadDone(c) PROVE IInv'
  <2>1. w.conn[c].rd = "pending" /\ posted' = posted
    BY <1>9 DEF ReadDone
  <2>2. PICK n \in 1 .. Len(w.conn[c].net) :
          w' = [w EXCEPT !.conn[c].rd = "ready",
                         !.conn[c].rbuf = @ \o SubSeq(w.conn[c].net, 1, n),
                         !.conn[c].net = SubSeq(w.conn[c].net, n + 1, Len(w.conn[c].net))]
    BY <1>9 DEF ReadDone
  <2>3. Keeps(w, w')
    BY <1>1, <2>1, <2>2, ReadDoneKeeps
  <2> QED BY <2>1, <2>3, StepInv
<1>10. ASSUME NEW c \in Conns, WriteDone(c) PROVE IInv'
  <2>1. /\ w.conn[c].wr = "pending" /\ posted' = posted
        /\ w' = [w EXCEPT !.conn[c].wr = "ready", !.conn[c].out = @ \o w.conn[c].wr_buf]
    BY <1>10 DEF WriteDone
  <2>2. Keeps(w, w')
    BY <1>1, <2>1, WriteDoneKeeps
  <2> QED BY <2>1, <2>2, StepInv
<1>11. ASSUME NEW c \in Conns, ConnectionBreaks(c) PROVE IInv'
  <2>1. posted' = posted /\ w' = [w EXCEPT !.conn[c].broken = TRUE]
    BY <1>11 DEF ConnectionBreaks
  <2>2. Keeps(w, w')
    BY <1>1, <2>1, BreakKeeps
  <2> QED BY <2>1, <2>2, StepInv
<1>12. ASSUME NEW c \in Conns, OperationFails(c) PROVE IInv'
  <2> DEFINE op == "failed"
  <2>1. /\ posted' = posted
        /\ \/ w.conn[c].rd = "pending" /\ w' = [w EXCEPT !.conn[c].rd = op]
           \/ w.conn[c].broken /\ w' = [w EXCEPT !.conn[c].wr = "failed"]
    BY <1>12 DEF OperationFails
  <2>2. op \in Progress /\ op # "idle"
    BY DEF Progress
  <2> HIDE DEF op
  <2>3. CASE w.conn[c].rd = "pending" /\ w' = [w EXCEPT !.conn[c].rd = op]
    <3>1. Keeps(w, w')
      BY <1>1, <2>2, <2>3, ReadGoesOn
    <3> QED BY <2>1, <3>1, StepInv
  <2>4. CASE w.conn[c].broken /\ w' = [w EXCEPT !.conn[c].wr = "failed"]
    <3>1. Keeps(w, w')
      BY <1>1, <2>4, WriteBreaks
    <3> QED BY <2>1, <3>1, StepInv
  <2> QED BY <2>1, <2>3, <2>4
<1>13. ASSUME NEW p \in Ports, NEW policy \in Policies, AcceptCallback(p, policy) PROVE IInv'
  <2> DEFINE d == w.door[p]
             x2 == [w EXCEPT !.conn[d.conn].st = "attached", !.door[p].conn = None,
                             !.door[p].acc = "pending"]
             m == [kind |-> "accepted", c |-> d.conn]
             y == [invoke_message(x2, m, "none", policy) EXCEPT !.door[p].msg = ~w.awaiting]
  <2>1. /\ d.acc = "ready" /\ posted' = posted
        /\ w' = IF d.st # "attached" \/ ~d.msg THEN [w EXCEPT !.crashed = TRUE] ELSE y
    BY <1>13 DEF AcceptCallback
  <2>2. CASE d.st # "attached" \/ ~d.msg
    <3>1. Keeps(w, w')
      BY <1>1, <2>1, <2>2, CrashKeeps
    <3> QED BY <2>1, <3>1, StepInv
  <2>3. CASE ~ (d.st # "attached" \/ ~d.msg)
    <3>1. Keeps(w, y)
      BY <1>1, <2>1, <2>3, AcceptKeeps
    <3> HIDE DEF y
    <3>2. Keeps(w, w')
      BY <2>1, <2>3, <3>1
    <3> QED BY <2>1, <3>2, StepInv
  <2> QED BY <2>2, <2>3
<1>14. ASSUME NEW p \in Ports, AcceptFailed(p) PROVE IInv'
  <2>1. /\ w.door[p].acc = "failed" /\ posted' = posted
        /\ w' = [w EXCEPT !.door[p].acc = "idle", !.door[p].st = "detached"]
    BY <1>14 DEF AcceptFailed
  <2>2. Keeps(w, w')
    BY <1>1, <2>1, AcceptFailedKeeps
  <2> QED BY <2>1, <2>2, StepInv
<1>15. ASSUME NEW p \in Ports, PeerConnects(p) PROVE IInv'
  <2>1. w.door[p].acc = "pending" /\ w.door[p].st = "attached" /\ posted' = posted
    BY <1>15 DEF PeerConnects
  <2>2. PICK c \in Conns :
          /\ w.conn[c].st = "none"
          /\ w' = [w EXCEPT !.door[p].acc = "ready", !.door[p].conn = c, !.conn[c].st = "accepting"]
    BY <1>15 DEF PeerConnects
  <2>3. Keeps(w, w')
    BY <1>1, <2>1, <2>2, PeerConnectsKeeps
  <2> QED BY <2>1, <2>3, StepInv
<1>16. ASSUME NEW p \in Ports, AcceptorBreaks(p) PROVE IInv'
  <2>1. posted' = posted /\ w' = [w EXCEPT !.door[p].acc = "failed", !.door[p].failed = TRUE]
    BY <1>16 DEF AcceptorBreaks
  <2>2. Keeps(w, w')
    BY <1>1, <2>1, AcceptorBreaksKeeps
  <2> QED BY <2>1, <2>2, StepInv
<1>17. ASSUME NEW p \in Ports, NEW a \in Actors \cup {None}, put(p, a) PROVE IInv'
  <2> DEFINE t == [op |-> "publish", p |-> p, whom |-> a]
  <2>1. /\ w.door[p].st = "none" /\ posted' = Append(posted, t)
        /\ w' = [w EXCEPT !.door[p].st = "unassigned"]
    BY <1>17 DEF put, Post
  <2>2. t \in TaskT /\ t.op # "connect"
    BY DEF TaskT
  <2> HIDE DEF t
  <2>3. Keeps(w, w')
    BY <1>1, <2>1, PutKeeps
  <2> QED BY <2>1, <2>2, <2>3, PostInv
<1>18. ASSUME NEW p \in Ports, NEW a \in Actors, NEW op \in {"unpublish", "close"}, Forward(op, p, a)
       PROVE  IInv'
  <2> DEFINE t == [op |-> op, p |-> p, whom |-> a]
  <2>1. posted' = Append(posted, t) /\ w' = w
    BY <1>18 DEF Forward, Post
  <2>2. t \in TaskT /\ t.op # "connect"
    BY DEF TaskT
  <2> HIDE DEF t
  <2>3. Keeps(w, w')
    BY <1>1, <2>1 DEF Keeps
  <2> QED BY <2>1, <2>2, <2>3, PostInv
<1>19. ASSUME NEW c \in Conns, NEW r \in Reactions, Command(r, c) PROVE IInv'
  <2>1. posted' = posted /\ w' = React(w, r, c)
    BY <1>19 DEF Command
  <2>2. Keeps(w, w')
    BY <1>1, <2>1, ReactCalm, CalmKeeps
  <2> QED BY <2>1, <2>2, StepInv
<1>20. ASSUME NEW c \in Conns, NEW policy \in Policies, Reconfigure(c, policy) PROVE IInv'
  <2>1. posted' = posted /\ w' = configure_read(w, c, policy) /\ valid(w, c)
    BY <1>20 DEF Reconfigure
  <2>2. Keeps(w, w')
    BY <1>1, <2>1, ConfigureCalm, CalmKeeps
  <2> QED BY <2>1, <2>2, StepInv
<1>21. ASSUME NEW policy \in Policies, Respond(policy) PROVE IInv'
  <2>1. /\ posted' = posted /\ w.alive
        /\ w' = Replay([w EXCEPT !.awaiting = FALSE, !.cache = <<>>], w.cache, policy)[Len(w.cache)]
    BY <1>21 DEF Respond
  <2>2. Keeps(w, w')
    BY <1>1, <2>1, ReplayKeeps
  <2> QED BY <2>1, <2>2, StepInv
<1>22. ASSUME NEW policy \in Policies, RunPosted(policy) PROVE IInv'
  BY <1>22, RunPostedInv
<1>23. ASSUME Stop PROVE IInv'
  <2>1. posted' = posted /\ (w' = cleanup(w) \/ w' = w)
    BY <1>23 DEF Stop
  <2>2. Calm(w, w')
    BY <1>1, <2>1, CleanupCalm, CalmRefl
  <2>3. Keeps(w, w')
    BY <1>1, <2>2, CalmKeeps
  <2> QED BY <2>1, <2>3, StepInv
<1> QED BY <1>2, <1>3, <1>4, <1>5, <1>6, <1>7, <1>8, <1>9, <1>10, <1>11, <1>12, <1>13, <1>14, <1>15,
           <1>16, <1>17, <1>18, <1>19, <1>20, <1>21, <1>22, <1>23 DEF Next, Callback

-----------------------------------------------------------------------------
(* The invariant holds in every reachable state.                           *)
THEOREM Invariance == Spec => []IInv
<1>1. IInv /\ [Next]_vars => IInv'
  BY NextInv
<1> QED BY <1>1, InitInv, PTL DEF Spec

(* The first part of the bytes from 1 to n are the bytes up to its length. *)
LEMMA BytesPrefix ==
  ASSUME NEW a \in Seq(Nat), NEW b \in Seq(Nat), NEW n \in Nat, a \o b = Bytes(n)
  PROVE  a = Bytes(Len(a))
<1>1. /\ Len(a \o b) = Len(a) + Len(b) /\ Len(a) \in Nat /\ Len(b) \in Nat
      /\ \A i \in 1 .. Len(a) : (a \o b)[i] = a[i]
  BY ConcatProperties, LenProperties
<1>2. Len(Bytes(n)) = n /\ \A i \in 1 .. n : Bytes(n)[i] = i
  BY DEF Bytes
<1>3. Len(a) <= n
  BY <1>1, <1>2
<1>4. ASSUME NEW i \in 1 .. Len(a) PROVE a[i] = i
  BY <1>1, <1>2, <1>3, <1>4
<1>5. a = [i \in 1 .. Len(a) |-> a[i]]
  BY LenProperties
<1> QED BY <1>4, <1>5 DEF Bytes

(* What a broker writes leaves in order and once: stream::write, flush and *)
(* write_loop between them lose and repeat nothing that was flushed, and   *)
(* nothing at all while the scribe is in the broker or a write goes on.    *)
THEOREM WritesDeliveredThm == Spec => []WritesDelivered
<1>1. IInv => WritesDelivered
  <2> SUFFICES ASSUME IInv, NEW c \in Conns, ~w.conn[c].broken
               PROVE  /\ w.conn[c].out \o InFlight(w.conn[c]) \o w.conn[c].wr_offline
                           = Bytes(w.conn[c].written)
                      /\ w.conn[c].wr = "idle" =>
                           /\ w.conn[c].flushed <= Len(w.conn[c].out)
                           /\ w.conn[c].out = Bytes(Len(w.conn[c].out))
                      /\ Len(w.conn[c].out) < w.conn[c].flushed => w.conn[c].wr # "idle"
    BY DEF WritesDelivered, InFlight
  <2> DEFINE s == w.conn[c]
  <2>1. s \in ScribeT /\ OutputOK(s)
    BY DEF IInv, ConnsInv, BrokerT
  <2>2. /\ s.out \in Seq(Nat) /\ s.wr_offline \in Seq(Nat) /\ s.flushed \in Nat /\ s.written \in Nat
        /\ s.wr # "pending" => s.out \o InFlight(s) = s.out
    BY <2>1, StreamFacts
  <2>3. ASSUME s.wr = "idle"
        PROVE  s.flushed <= Len(s.out) /\ s.out = Bytes(Len(s.out))
    <3>1. s.out \o s.wr_offline = Bytes(s.written)
      BY <2>1, <2>2, <2>3 DEF OutputOK
    <3>2. s.flushed <= Len(s.out)
      BY <2>1, <2>2, <2>3 DEF OutputOK
    <3> HIDE DEF s
    <3>3. s.out = Bytes(Len(s.out))
      BY <2>2, <3>1, BytesPrefix
    <3> QED BY <3>2, <3>3
  <2> QED BY <2>1, <2>3 DEF OutputOK
<1> QED BY <1>1, Invariance, PTL

(* Every byte that arrives on an attached connection is handed to the      *)
(* broker once and in order: scribe::consume, stream::read_loop and the    *)
(* broker's cache of skipped messages neither lose nor reorder bytes.      *)
THEOREM InputInOrderThm == Spec => []InputInOrder
<1>1. IInv => InputInOrder
  <2> SUFFICES ASSUME IInv, NEW c \in Conns, valid(w, c)
               PROVE  w.conn[c].seen \o AllSkipped(w.cache, c) \o Reading(w.conn[c]) \o w.conn[c].net
                        = Bytes(w.conn[c].sent)
    BY DEF InputInOrder, AllSkipped, Reading
  <2> QED BY DEF IInv, ConnsInv, InputOK, valid
<1> QED BY <1>1, Invariance, PTL

(* The port of a published actor has a doorman that accepts connections,   *)
(* unless its acceptor failed: publish, unpublish, close and the accept    *)
(* loop agree on the ports in use.                                         *)
THEOREM PublishedServedThm == Spec => []PublishedServed
<1>1. IInv => PublishedServed
  BY DEF IInv, DoorsInv, PublishedServed
<1> QED BY <1>1, Invariance, PTL
=============================================================================
