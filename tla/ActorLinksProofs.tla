-------------------------- MODULE ActorLinksProofs --------------------------
(***************************************************************************)
(* Proofs about ActorLinks, for any number of actors and threads: links    *)
(* are bidirectional, down messages are accounted for, and the mutexes of  *)
(* abstract_actor do what the code of the linking operations relies on.    *)
(*                                                                         *)
(* The module first establishes what prepending, removing the first match, *)
(* removing every match, appending and taking the head do to the members   *)
(* and to the counts of a list.  The invariance proofs use only that.      *)
(***************************************************************************)
EXTENDS ActorLinks, FiniteSetTheorems, TLAPS

(* The program points at which a thread holds the mutex of self.           *)
Holding == {"backlink", "refuse", "attach", "remove_backlink"}

(* What each thread is about: a call of an actor is about itself, a thread *)
(* from outside never cleans up, and linking concerns two different        *)
(* actors.                                                                 *)
CallsInv ==
  \A t \in Thread :
    /\ pc[t] \in Holding \cup {"link", "unlink"} =>
         self[t] \in Actor /\ (t \in Actor => self[t] = t)
    /\ pc[t] \in Holding \cup {"link"} =>
         other[t] \in Actor /\ other[t] # self[t]
    /\ t \in Outside => pc[t] \notin {"cleanup", "notify"}

(* The mutexes: mtx_ of x is held by the thread that is at such a point on *)
(* behalf of x, and x is alive then, since cleanup takes the mutex too.    *)
LocksInv ==
  \A t \in Thread :
    /\ \A x \in Actor : mtx_[x] = t <=> pc[t] \in Holding /\ self[t] = x
    /\ pc[t] \in Holding => ~ exited(self[t])
    /\ pc[t] = "refuse" => exited(other[t])

(* How far the end of an actor has come: it closes its mailbox, publishes  *)
(* its exit reason and takes its list, and then works on the list.         *)
EndsInv ==
  \A x \in Actor :
    /\ open[x] <=> pc[x] \notin {"cleanup", "notify"}
    /\ exited(x) <=> pc[x] = "notify"
    /\ exited(x) => attachables[x] = <<>>
    /\ ~ exited(x) => todo[x] = <<>>

(* y has the link to x already, and a thread is about to add x's own.      *)
Attaching(x, y) ==
  \E t \in Thread : pc[t] = "attach" /\ self[t] = x /\ other[t] = y

(* e occurs at most once in the list.                                      *)
Once(list, e) == \A i, j \in DOMAIN list : list[i] = e /\ list[j] = e => i = j

(* Links are bidirectional whether or not the mailbox is open, and from    *)
(* the moment the other side has its link.                                 *)
Mutual ==
  \A x, y \in Actor :
    x # y /\ (HasLink(x, y) \/ Attaching(x, y)) =>
      \/ HasLink(y, x)
      \/ OtherSideFollows(x, y)
      \/ exited(y) /\ (open[x] => WillHear(x, y))

(* Nobody is linked twice to the same actor, so that removing the first    *)
(* match removes the link.                                                 *)
LinkedOnce == \A x, y \in Actor : Once(attachables[x], make_link(y))

(* While the other side is being told, this side has no link.              *)
OwnLinkAbsent ==
  \A t \in Thread :
    pc[t] \in {"attach", "remove_backlink"} => ~ HasLink(self[t], other[t])

LinksInv == Mutual /\ LinkedOnce /\ OwnLinkAbsent

(* Down messages name their source.                                        *)
LettersInv ==
  \A x \in Actor : \A i \in DOMAIN mailbox[x] :
    mailbox[x][i].type = "down" => mailbox[x][i].source \in Actor

IInv == TypeOK /\ CallsInv /\ LocksInv /\ EndsInv /\ LinksInv /\ LettersInv
          /\ DownsAccounted
-----------------------------------------------------------------------------
(* Lists.                                                                  *)

(* r consists of the elements of s at the positions f[1], f[2], ...        *)
Selects(f, r, s) ==
  /\ f \in [DOMAIN r -> DOMAIN s]
  /\ \A k, l \in DOMAIN r : f[k] = f[l] => k = l
  /\ \A k \in DOMAIN r : r[k] = s[f[k]]

Kept(f, r, i) == \E k \in DOMAIN r : f[k] = i

(* The sets whose sizes Count takes are finite.                            *)
LEMMA CountFinite ==
  ASSUME NEW A, NEW s \in Seq(A), NEW S
  PROVE  /\ IsFiniteSet({i \in DOMAIN s : s[i] \in S})
         /\ Count(s, S) \in Nat
<1>1. IsFiniteSet(DOMAIN s)
  <2>1. DOMAIN s = 1 .. Len(s) /\ Len(s) \in Nat
    OBVIOUS
  <2> QED BY <2>1, FS_Interval
<1>2. IsFiniteSet({i \in DOMAIN s : s[i] \in S})
  <2>1. {i \in DOMAIN s : s[i] \in S} \in SUBSET DOMAIN s
    OBVIOUS
  <2> QED BY <1>1, <2>1, FS_Subset
<1> QED BY <1>2, FS_CardinalityType DEF Count

(* The elements of a selection are the selected elements, as many times.   *)
LEMMA SelectedCount ==
  ASSUME NEW A, NEW s \in Seq(A), NEW r \in Seq(A), NEW f, Selects(f, r, s), NEW S
  PROVE  Cardinality({i \in DOMAIN s : s[i] \in S /\ Kept(f, r, i)}) = Count(r, S)
<1> DEFINE P == {k \in DOMAIN r : r[k] \in S}
           Q == {i \in DOMAIN s : s[i] \in S /\ Kept(f, r, i)}
           g == [k \in P |-> f[k]]
<1>1. g \in [P -> Q]
  BY DEF Selects, Kept
<1>2. ASSUME NEW k \in P, NEW l \in P, g[k] = g[l]
      PROVE  k = l
  BY <1>2 DEF Selects
<1>3. ASSUME NEW i \in Q
      PROVE  \E k \in P : g[k] = i
  BY DEF Selects, Kept
<1>4. g \in Bijection(P, Q)
  <2> HIDE DEF P, Q, g
  <2> QED BY <1>1, <1>2, <1>3 DEF Bijection, Injection, Surjection, IsInjective
<1>5. ExistsBijection(P, Q)
  BY <1>4 DEF ExistsBijection
<1>6. IsFiniteSet(P) /\ Count(r, S) = Cardinality(P)
  BY CountFinite DEF Count
<1> HIDE DEF P, Q
<1>7. Cardinality(Q) = Cardinality(P)
  BY <1>5, <1>6, FS_Bijection
<1> QED BY <1>6, <1>7 DEF Q

(* A selection that drops no element of S has as many of them.             *)
LEMMA CountKept ==
  ASSUME NEW A, NEW s \in Seq(A), NEW r \in Seq(A), NEW f, Selects(f, r, s), NEW S,
         \A i \in DOMAIN s : s[i] \in S => Kept(f, r, i)
  PROVE  Count(r, S) = Count(s, S)
<1>1. {i \in DOMAIN s : s[i] \in S /\ Kept(f, r, i)} = {i \in DOMAIN s : s[i] \in S}
  OBVIOUS
<1>2. Cardinality({i \in DOMAIN s : s[i] \in S /\ Kept(f, r, i)}) = Count(r, S)
  BY SelectedCount
<1> QED BY <1>1, <1>2 DEF Count

(* One that drops exactly one of them has one fewer.                       *)
LEMMA CountDropped ==
  ASSUME NEW A, NEW s \in Seq(A), NEW r \in Seq(A), NEW f, Selects(f, r, s), NEW S,
         NEW d \in DOMAIN s, s[d] \in S, ~ Kept(f, r, d),
         \A i \in DOMAIN s \ {d} : s[i] \in S => Kept(f, r, i)
  PROVE  Count(s, S) = Count(r, S) + 1
<1> DEFINE Q == {i \in DOMAIN s : s[i] \in S /\ Kept(f, r, i)}
           T == {i \in DOMAIN s : s[i] \in S}
<1>1. Q = T \ {d} /\ d \in T
  OBVIOUS
<1>2. Cardinality(Q) = Count(r, S)
  BY SelectedCount
<1>3. IsFiniteSet(T) /\ Cardinality(T) = Count(s, S) /\ Count(s, S) \in Nat
  BY CountFinite DEF Count
<1> HIDE DEF Q, T
<1>4. Cardinality(Q) = Cardinality(T) - 1
  BY <1>1, <1>3, FS_RemoveElement
<1>5. Count(r, S) \in Nat
  BY CountFinite
<1> QED BY <1>2, <1>3, <1>4, <1>5

(* What a selection contains, and contains once.                           *)
LEMMA SelectedMembers ==
  ASSUME NEW A, NEW s \in Seq(A), NEW r \in Seq(A), NEW f, Selects(f, r, s), NEW e
  PROVE  /\ Contains(r, e) => Contains(s, e)
         /\ Once(s, e) => Once(r, e)
         /\ (\A i \in DOMAIN s : s[i] = e => Kept(f, r, i)) =>
              (Contains(s, e) => Contains(r, e))
<1>1. DOMAIN s = 1 .. Len(s) /\ DOMAIN r = 1 .. Len(r)
  OBVIOUS
<1>2. ASSUME Contains(r, e) PROVE Contains(s, e)
  <2>1. PICK k \in DOMAIN r : r[k] = e
    BY <1>1, <1>2 DEF Contains
  <2>2. f[k] \in DOMAIN s /\ s[f[k]] = e
    BY <2>1 DEF Selects
  <2> QED BY <1>1, <2>2 DEF Contains
<1>3. ASSUME Once(s, e) PROVE Once(r, e)
  <2> SUFFICES ASSUME NEW k \in DOMAIN r, NEW l \in DOMAIN r, r[k] = e, r[l] = e
               PROVE  k = l
    BY DEF Once
  <2>1. /\ f[k] \in DOMAIN s /\ s[f[k]] = e
        /\ f[l] \in DOMAIN s /\ s[f[l]] = e
    BY DEF Selects
  <2>2. f[k] = f[l]
    BY <1>3, <2>1 DEF Once
  <2> QED BY <2>2 DEF Selects
<1>4. ASSUME \A i \in DOMAIN s : s[i] = e => Kept(f, r, i), Contains(s, e)
      PROVE  Contains(r, e)
  <2>1. PICK i \in DOMAIN s : s[i] = e
    BY <1>1, <1>4 DEF Contains
  <2>2. PICK k \in DOMAIN r : f[k] = i
    BY <1>4, <2>1 DEF Kept
  <2>3. r[k] = e
    BY <2>1, <2>2 DEF Selects
  <2> QED BY <1>1, <2>3 DEF Contains
<1> QED BY <1>2, <1>3, <1>4

(* Adding at the front, which attach_impl does.                            *)
LEMMA PrependFacts ==
  ASSUME NEW A, NEW s \in Seq(A), NEW a \in A
  PROVE  /\ <<a>> \o s \in Seq(A)
         /\ \A e : Contains(<<a>> \o s, e) <=> (e = a \/ Contains(s, e))
         /\ \A e : Once(s, e) /\ (e = a => ~ Contains(s, e)) => Once(<<a>> \o s, e)
         /\ \A S : Count(<<a>> \o s, S) = Count(s, S) + (IF a \in S THEN 1 ELSE 0)
<1> DEFINE r == <<a>> \o s
           f == [k \in DOMAIN s |-> k + 1]
<1>1. /\ r \in Seq(A) /\ Len(r) = Len(s) + 1 /\ Len(s) \in Nat
      /\ DOMAIN s = 1 .. Len(s) /\ DOMAIN r = 1 .. Len(s) + 1
      /\ r[1] = a /\ \A k \in 1 .. Len(s) : r[k + 1] = s[k]
  OBVIOUS
<1> HIDE DEF r
<1>2. Selects(f, s, r)
  <2>1. f \in [DOMAIN s -> DOMAIN r]
    BY <1>1
  <2>2. ASSUME NEW k \in DOMAIN s, NEW l \in DOMAIN s, f[k] = f[l] PROVE k = l
    BY <1>1, <2>2
  <2>3. ASSUME NEW k \in DOMAIN s PROVE s[k] = r[f[k]]
    BY <1>1
  <2> QED BY <2>1, <2>2, <2>3 DEF Selects
<1>3. /\ ~ Kept(f, s, 1)
      /\ \A i \in DOMAIN r \ {1} : Kept(f, s, i)
  <2>1. ASSUME NEW k \in DOMAIN s PROVE f[k] # 1
    BY <1>1
  <2>2. ASSUME NEW i \in DOMAIN r \ {1} PROVE i - 1 \in DOMAIN s /\ f[i - 1] = i
    BY <1>1
  <2> HIDE DEF f
  <2> QED BY <2>1, <2>2 DEF Kept
<1> HIDE DEF f
<1>4. ASSUME NEW S PROVE Count(r, S) = Count(s, S) + (IF a \in S THEN 1 ELSE 0)
  <2>1. CASE a \in S
    <3>1. 1 \in DOMAIN r /\ r[1] \in S
      BY <1>1, <2>1
    <3>2. Count(r, S) = Count(s, S) + 1
      BY <1>1, <1>2, <1>3, <3>1, CountDropped
    <3> QED BY <2>1, <3>2
  <2>2. CASE a \notin S
    <3>1. \A i \in DOMAIN r : r[i] \in S => Kept(f, s, i)
      BY <1>1, <1>3, <2>2
    <3>2. Count(s, S) = Count(r, S)
      BY <1>1, <1>2, <3>1, CountKept
    <3>3. Count(s, S) \in Nat
      BY CountFinite
    <3> QED BY <2>2, <3>2, <3>3
  <2> QED BY <2>1, <2>2
<1>5. ASSUME NEW e PROVE Contains(r, e) <=> (e = a \/ Contains(s, e))
  <2>1. Contains(s, e) => Contains(r, e)
    BY <1>1, <1>2, SelectedMembers
  <2>2. Contains(r, a)
    <3>1. 1 \in 1 .. Len(r)
      BY <1>1
    <3> QED BY <1>1, <3>1 DEF Contains
  <2>3. ASSUME e # a, Contains(r, e) PROVE Contains(s, e)
    <3>1. \A i \in DOMAIN r : r[i] = e => Kept(f, s, i)
      BY <1>1, <1>3, <2>3
    <3> QED BY <1>1, <1>2, <2>3, <3>1, SelectedMembers
  <2> QED BY <2>1, <2>2, <2>3
<1>6. ASSUME NEW e, Once(s, e), e = a => ~ Contains(s, e) PROVE Once(r, e)
  <2> SUFFICES ASSUME NEW k \in DOMAIN r, NEW l \in DOMAIN r, r[k] = e, r[l] = e
               PROVE  k = l
    BY DEF Once
  <2>1. CASE k # 1 /\ l # 1
    <3>1. /\ k - 1 \in DOMAIN s /\ s[k - 1] = e
          /\ l - 1 \in DOMAIN s /\ s[l - 1] = e
      BY <1>1, <2>1
    <3>2. k - 1 = l - 1
      BY <1>6, <3>1 DEF Once
    <3> QED BY <1>1, <3>2
  <2>2. ASSUME NEW i \in DOMAIN r, r[i] = e, i # 1 PROVE e # a
    <3>1. i - 1 \in 1 .. Len(s) /\ s[i - 1] = e
      BY <1>1, <2>2
    <3> QED BY <1>6, <3>1 DEF Contains
  <2> QED BY <1>1, <2>1, <2>2
<1> QED BY <1>1, <1>4, <1>5, <1>6 DEF r

(* Adding at the end, which enqueue does.                                  *)
LEMMA AppendFacts ==
  ASSUME NEW A, NEW s \in Seq(A), NEW a \in A
  PROVE  /\ Append(s, a) \in Seq(A)
         /\ \A S : Count(Append(s, a), S) = Count(s, S) + (IF a \in S THEN 1 ELSE 0)
<1> DEFINE r == Append(s, a)
           f == [k \in DOMAIN s |-> k]
           n == Len(s) + 1
<1>1. /\ r \in Seq(A) /\ Len(s) \in Nat
      /\ DOMAIN s = 1 .. Len(s) /\ DOMAIN r = 1 .. n
      /\ r[n] = a /\ \A k \in 1 .. Len(s) : r[k] = s[k]
  OBVIOUS
<1> HIDE DEF r
<1>2. Selects(f, s, r)
  BY <1>1 DEF Selects
<1>3. /\ ~ Kept(f, s, n)
      /\ \A i \in DOMAIN r \ {n} : Kept(f, s, i)
  BY <1>1 DEF Kept
<1> HIDE DEF f
<1>4. ASSUME NEW S PROVE Count(r, S) = Count(s, S) + (IF a \in S THEN 1 ELSE 0)
  <2>1. CASE a \in S
    <3>1. n \in DOMAIN r /\ r[n] \in S
      BY <1>1, <2>1
    <3>2. Count(r, S) = Count(s, S) + 1
      <4> HIDE DEF n
      <4> QED BY <1>1, <1>2, <1>3, <3>1, CountDropped
    <3> QED BY <2>1, <3>2
  <2>2. CASE a \notin S
    <3>1. \A i \in DOMAIN r : r[i] \in S => Kept(f, s, i)
      BY <1>1, <1>3, <2>2
    <3>2. Count(s, S) = Count(r, S)
      BY <1>1, <1>2, <3>1, CountKept
    <3>3. Count(s, S) \in Nat
      BY CountFinite
    <3> QED BY <2>2, <3>2, <3>3
  <2> QED BY <2>1, <2>2
<1> QED BY <1>1, <1>4 DEF r

(* Taking the head.                                                        *)
LEMMA TailFacts ==
  ASSUME NEW A, NEW s \in Seq(A), s # <<>>
  PROVE  /\ Tail(s) \in Seq(A) /\ Head(s) \in A
         /\ \A e : Contains(s, e) => e = Head(s) \/ Contains(Tail(s), e)
         /\ \A S : Count(s, S) = Count(Tail(s), S) + (IF Head(s) \in S THEN 1 ELSE 0)
<1>1. Tail(s) \in Seq(A) /\ Head(s) \in A /\ s = <<Head(s)>> \o Tail(s)
  OBVIOUS
<1>2. PICK h, t : h = Head(s) /\ t = Tail(s)
  OBVIOUS
<1>3. h \in A /\ t \in Seq(A) /\ s = <<h>> \o t
  BY <1>1, <1>2
<1>4. /\ \A e : Contains(<<h>> \o t, e) <=> (e = h \/ Contains(t, e))
      /\ \A S : Count(<<h>> \o t, S) = Count(t, S) + (IF h \in S THEN 1 ELSE 0)
  BY <1>3, PrependFacts
<1>5. ASSUME NEW e PROVE Contains(s, e) => e = Head(s) \/ Contains(Tail(s), e)
  BY <1>2, <1>3, <1>4
<1>6. ASSUME NEW S
      PROVE  Count(s, S) = Count(Tail(s), S) + (IF Head(s) \in S THEN 1 ELSE 0)
  BY <1>2, <1>3, <1>4
<1> QED BY <1>1, <1>5, <1>6

(* The elements of a concatenation.                                        *)
LEMMA ConcatFacts ==
  ASSUME NEW A, NEW u \in Seq(A), NEW v \in Seq(A)
  PROVE  /\ u \o v \in Seq(A) /\ Len(u \o v) = Len(u) + Len(v)
         /\ DOMAIN (u \o v) = 1 .. Len(u \o v)
         /\ \A k \in 1 .. Len(u) + Len(v) :
              (u \o v)[k] = IF k <= Len(u) THEN u[k] ELSE v[k - Len(u)]
  OBVIOUS

(* Removing the first match of a, which is the only one.                   *)
LEMMA RemoveFacts ==
  ASSUME NEW A, NEW s \in Seq(A), NEW a \in A, Once(s, a)
  PROVE  /\ RemoveFirst(s, a) \in Seq(A)
         /\ \A e : Contains(RemoveFirst(s, a), e) <=> (e # a /\ Contains(s, e))
         /\ \A e : Once(s, e) => Once(RemoveFirst(s, a), e)
         /\ \A S : a \notin S => Count(RemoveFirst(s, a), S) = Count(s, S)
<1>1. CASE ~ Contains(s, a)
  <2>1. RemoveFirst(s, a) = s
    BY <1>1 DEF RemoveFirst, Contains
  <2> QED BY <1>1, <2>1
<1>2. CASE Contains(s, a)
  <2>1. PICK d \in DOMAIN s : s[d] = a
    BY <1>2 DEF Contains
  <2> DEFINE r == SubSeq(s, 1, d - 1) \o SubSeq(s, d + 1, Len(s))
             f == [k \in DOMAIN r |-> IF k < d THEN k ELSE k + 1]
  <2>2. RemoveFirst(s, a) = r
    <3>1. {i \in 1 .. Len(s) : s[i] = a} = {d}
      BY <1>2, <2>1 DEF Once
    <3>2. Min({d}) = d
      BY <2>1 DEF Min
    <3>3. SelectInSeq(s, LAMBDA v : v = a) = d
      BY <3>1, <3>2 DEF SelectInSeq
    <3> QED BY <1>2, <3>3 DEF RemoveFirst, RemoveAt, Contains
  <2>3. /\ r \in Seq(A) /\ DOMAIN r = 1 .. Len(s) - 1
        /\ d \in 1 .. Len(s) /\ Len(s) \in Nat /\ DOMAIN s = 1 .. Len(s)
        /\ \A k \in 1 .. Len(s) - 1 : r[k] = IF k < d THEN s[k] ELSE s[k + 1]
        /\ DOMAIN r = 1 .. Len(r)
    <3>1. d \in 1 .. Len(s) /\ Len(s) \in Nat /\ DOMAIN s = 1 .. Len(s)
      BY <2>1
    <3> DEFINE u == SubSeq(s, 1, d - 1)
               v == SubSeq(s, d + 1, Len(s))
    <3>2. /\ u \in Seq(A) /\ Len(u) = d - 1
          /\ \A k \in 1 .. d - 1 : u[k] = s[k]
      BY <3>1
    <3>3. /\ v \in Seq(A) /\ Len(v) = Len(s) - d
          /\ \A k \in 1 .. Len(s) - d : v[k] = s[d + k]
      BY <3>1
    <3> HIDE DEF u, v
    <3>4. /\ u \o v \in Seq(A) /\ Len(u \o v) = Len(s) - 1
          /\ DOMAIN (u \o v) = 1 .. Len(u \o v)
          /\ \A k \in 1 .. Len(s) - 1 :
               (u \o v)[k] = IF k < d THEN u[k] ELSE v[k - (d - 1)]
      <4>1. /\ u \o v \in Seq(A) /\ Len(u \o v) = Len(u) + Len(v)
            /\ DOMAIN (u \o v) = 1 .. Len(u \o v)
            /\ \A k \in 1 .. Len(u) + Len(v) :
                 (u \o v)[k] = IF k <= Len(u) THEN u[k] ELSE v[k - Len(u)]
        BY <3>2, <3>3, ConcatFacts, Zenon
      <4>2. Len(u) + Len(v) = Len(s) - 1 /\ \A k \in Nat : k <= Len(u) <=> k < d
        BY <3>1, <3>2, <3>3
      <4>3. \A k \in 1 .. Len(s) - 1 : k \in Nat
        BY <3>1
      <4> QED BY <3>2, <4>1, <4>2, <4>3
    <3>5. ASSUME NEW k \in 1 .. Len(s) - 1
          PROVE  (u \o v)[k] = IF k < d THEN s[k] ELSE s[k + 1]
      <4>1. CASE k < d
        <5>1. k \in 1 .. d - 1
          BY <3>1, <4>1
        <5> QED BY <3>2, <3>4, <4>1, <5>1
      <4>2. CASE ~ (k < d)
        <5>1. k - (d - 1) \in 1 .. Len(s) - d /\ d + (k - (d - 1)) = k + 1
          BY <3>1, <4>2
        <5> QED BY <3>3, <3>4, <4>2, <5>1
      <4> QED BY <4>1, <4>2
    <3> QED BY <3>1, <3>4, <3>5 DEF u, v
  <2> HIDE DEF r
  <2>4. Selects(f, r, s)
    <3>1. f \in [DOMAIN r -> DOMAIN s]
      BY <2>3
    <3>2. ASSUME NEW k \in DOMAIN r, NEW l \in DOMAIN r, f[k] = f[l] PROVE k = l
      BY <2>3, <3>2
    <3>3. ASSUME NEW k \in DOMAIN r PROVE r[k] = s[f[k]]
      BY <2>3
    <3> QED BY <3>1, <3>2, <3>3 DEF Selects
  <2>5. \A i \in DOMAIN s \ {d} : Kept(f, r, i)
    <3> SUFFICES ASSUME NEW i \in DOMAIN s \ {d} PROVE \E k \in DOMAIN r : f[k] = i
      BY DEF Kept
    <3>1. CASE i < d
      BY <2>3, <3>1
    <3>2. CASE i > d
      <4>1. i - 1 \in DOMAIN r /\ f[i - 1] = i
        BY <2>3, <3>2
      <4> QED BY <4>1
    <3> QED BY <2>3, <3>1, <3>2
  <2>6. ~ Contains(r, a)
    <3>1. ASSUME NEW k \in DOMAIN r PROVE f[k] \in DOMAIN s /\ f[k] # d
      BY <2>3
    <3>2. ASSUME NEW k \in DOMAIN r PROVE r[k] # a
      <4>1. r[k] = s[f[k]]
        BY <2>4 DEF Selects
      <4> QED BY <2>1, <3>1, <4>1 DEF Once
    <3> QED BY <2>3, <3>2 DEF Contains
  <2> HIDE DEF f
  <2>7. ASSUME NEW e PROVE Contains(r, e) <=> (e # a /\ Contains(s, e))
    <3>1. e # a => \A i \in DOMAIN s : s[i] = e => Kept(f, r, i)
      BY <2>1, <2>5
    <3> QED BY <2>3, <2>4, <2>6, <3>1, SelectedMembers
  <2>8. ASSUME NEW e, Once(s, e) PROVE Once(r, e)
    BY <2>3, <2>4, <2>8, SelectedMembers
  <2>9. ASSUME NEW S, a \notin S PROVE Count(r, S) = Count(s, S)
    <3>1. \A i \in DOMAIN s : s[i] \in S => Kept(f, r, i)
      BY <2>1, <2>5, <2>9
    <3> QED BY <2>3, <2>4, <3>1, CountKept
  <2> QED BY <2>2, <2>3, <2>7, <2>8, <2>9
<1> QED BY <1>1, <1>2

(* A finite set of positions has an increasing enumeration: its inverse    *)
(* takes each position to the number of positions up to it.                *)
LEMMA EnumerationExists ==
  ASSUME NEW K \in SUBSET Nat, IsFiniteSet(K)
  PROVE  \E f \in [1 .. Cardinality(K) -> K] :
           \A i, j \in 1 .. Cardinality(K) : i < j => f[i] < f[j]
<1> DEFINE n == Cardinality(K)
           Upto(i) == {j \in K : j <= i}
           rank == [i \in K |-> Cardinality(Upto(i))]
<1>1. n \in Nat
  BY FS_CardinalityType
<1>2. ASSUME NEW i \in K
      PROVE  /\ IsFiniteSet(Upto(i)) /\ Cardinality(Upto(i)) \in Nat
             /\ Cardinality(Upto(i)) \in 1 .. n
  <2>1. Upto(i) \in SUBSET K
    OBVIOUS
  <2>2. IsFiniteSet(Upto(i)) /\ Cardinality(Upto(i)) <= n
    <3> HIDE DEF Upto
    <3> QED BY <2>1, FS_Subset
  <2>3. Upto(i) # {}
    OBVIOUS
  <2> HIDE DEF Upto
  <2>4. Cardinality(Upto(i)) \in Nat /\ Cardinality(Upto(i)) # 0
    BY <2>2, <2>3, FS_CardinalityType, FS_EmptySet
  <2> QED BY <1>1, <2>2, <2>4
<1>3. ASSUME NEW i \in K, NEW j \in K, i < j
      PROVE  rank[i] < rank[j]
  <2>1. Upto(i) \in SUBSET Upto(j) /\ Upto(i) # Upto(j)
    <3>1. i \in Nat /\ j \in Nat /\ j \in Upto(j) /\ j \notin Upto(i)
      BY <1>3
    <3>2. ASSUME NEW k \in Upto(i) PROVE k \in Upto(j)
      <4>1. k \in K /\ k \in Nat /\ k <= i
        OBVIOUS
      <4>2. k <= j
        BY <1>3, <3>1, <4>1
      <4> QED BY <4>1, <4>2
    <3> QED BY <3>1, <3>2
  <2>2. /\ Cardinality(Upto(i)) <= Cardinality(Upto(j))
        /\ Cardinality(Upto(i)) # Cardinality(Upto(j))
    <3>1. IsFiniteSet(Upto(j))
      BY <1>2
    <3> HIDE DEF Upto
    <3> QED BY <2>1, <3>1, FS_Subset
  <2>3. Cardinality(Upto(i)) \in Nat /\ Cardinality(Upto(j)) \in Nat
    BY <1>2
  <2>4. rank[i] = Cardinality(Upto(i)) /\ rank[j] = Cardinality(Upto(j))
    OBVIOUS
  <2> HIDE DEF Upto, rank
  <2> QED BY <2>2, <2>3, <2>4
<1>4. rank \in [K -> 1 .. n]
  BY <1>2
<1> HIDE DEF rank, Upto
<1>5. rank \in Injection(K, 1 .. n)
  <2>1. ASSUME NEW i \in K, NEW j \in K, rank[i] = rank[j] PROVE i = j
    <3>1. rank[i] \in Nat /\ rank[j] \in Nat
      BY <1>1, <1>4
    <3>2. ~ (i < j) /\ ~ (j < i)
      BY <1>3, <2>1, <3>1
    <3> QED BY <3>2
  <2> QED BY <1>4, <2>1 DEF Injection, IsInjective
<1>6. IsFiniteSet(1 .. n) /\ Cardinality(1 .. n) = n
  BY <1>1, FS_Interval
<1>7. rank \in Surjection(K, 1 .. n)
  BY <1>5, <1>6, FS_Injection
<1>8. \A k \in 1 .. n : \E i \in K : rank[i] = k
  BY <1>7 DEF Surjection
<1> DEFINE f == [k \in 1 .. n |-> CHOOSE i \in K : rank[i] = k]
<1>9. \A k \in 1 .. n : f[k] \in K /\ rank[f[k]] = k
  BY <1>8
<1>10. f \in [1 .. n -> K]
  BY <1>9
<1> HIDE DEF f
<1>11. ASSUME NEW k \in 1 .. n, NEW l \in 1 .. n, k < l
       PROVE  f[k] < f[l]
  <2>1. /\ f[k] \in K /\ rank[f[k]] = k /\ f[k] \in Nat /\ k \in Nat
        /\ f[l] \in K /\ rank[f[l]] = l /\ f[l] \in Nat /\ l \in Nat
    <3>1. f[k] \in K /\ rank[f[k]] = k /\ f[l] \in K /\ rank[f[l]] = l
      BY <1>9
    <3>2. k \in Nat /\ l \in Nat
      BY <1>1
    <3> QED BY <3>1, <3>2
  <2>2. ~ (f[l] < f[k])
    BY <1>3, <1>11, <2>1
  <2>3. f[k] # f[l]
    BY <1>11, <2>1
  <2> QED BY <2>1, <2>2, <2>3
<1> QED BY <1>10, <1>11

(* Increasing enumerates: every position once.                             *)
LEMMA IncreasingFacts ==
  ASSUME NEW K \in SUBSET Nat, IsFiniteSet(K)
  PROVE  LET n == Cardinality(K)
             f == Increasing(K)
         IN  /\ n \in Nat /\ f \in [1 .. n -> K]
             /\ \A i, j \in 1 .. n : f[i] = f[j] => i = j
             /\ \A d \in K : \E i \in 1 .. n : f[i] = d
<1> DEFINE n == Cardinality(K)
           f == Increasing(K)
<1>1. n \in Nat
  BY FS_CardinalityType
<1>2. /\ f \in [1 .. n -> K]
      /\ \A i, j \in 1 .. n : i < j => f[i] < f[j]
  BY EnumerationExists DEF Increasing
<1> HIDE DEF f
<1>3. ASSUME NEW i \in 1 .. n, NEW j \in 1 .. n, f[i] = f[j] PROVE i = j
  <2>1. f[i] \in Nat /\ f[j] \in Nat /\ i \in Nat /\ j \in Nat
    <3>1. f[i] \in K /\ f[j] \in K
      BY <1>2
    <3>2. i \in Nat /\ j \in Nat
      BY <1>1
    <3> QED BY <3>1, <3>2
  <2>2. ~ (i < j) /\ ~ (j < i)
    BY <1>2, <1>3, <2>1
  <2> QED BY <2>1, <2>2
<1>4. f \in Injection(1 .. n, K)
  BY <1>2, <1>3 DEF Injection, IsInjective
<1>5. Cardinality(1 .. n) = Cardinality(K)
  BY <1>1, FS_Interval
<1>6. f \in Surjection(1 .. n, K)
  BY <1>4, <1>5, FS_Injection
<1> QED BY <1>1, <1>2, <1>3, <1>6 DEF Surjection, f

(* Removing every match, which detach does.                                *)
LEMMA DetachFacts ==
  ASSUME NEW A, NEW s \in Seq(A), NEW a
  PROVE  /\ detach(s, a) \in Seq(A)
         /\ \A e : e # a => (Contains(detach(s, a), e) <=> Contains(s, e))
         /\ \A e : Once(s, e) => Once(detach(s, a), e)
         /\ \A S : a \notin S => Count(detach(s, a), S) = Count(s, S)
         /\ Count(detach(s, a), {a}) = 0
         /\ Len(s) - Len(detach(s, a)) = Count(s, {a})
<1> DEFINE K == {i \in DOMAIN s : s[i] # a}
           n == Cardinality(K)
           f == Increasing(K)
           r == [k \in 1 .. n |-> s[f[k]]]
<1>1. Len(s) \in Nat /\ DOMAIN s = 1 .. Len(s)
  OBVIOUS
<1>2. K \in SUBSET Nat /\ IsFiniteSet(K)
  <2>1. IsFiniteSet(DOMAIN s) /\ K \in SUBSET DOMAIN s
    BY <1>1, FS_Interval
  <2>2. IsFiniteSet(K)
    <3> HIDE DEF K
    <3> QED BY <2>1, FS_Subset
  <2> QED BY <1>1, <2>2
<1>3. /\ n \in Nat /\ f \in [1 .. n -> K]
      /\ \A i, j \in 1 .. n : f[i] = f[j] => i = j
      /\ \A d \in K : \E i \in 1 .. n : f[i] = d
  <2> HIDE DEF K
  <2> QED BY <1>2, IncreasingFacts
<1>4. detach(s, a) = r
  BY DEF detach
<1> HIDE DEF f, n
<1>5. /\ r \in Seq(A) /\ DOMAIN r = 1 .. n /\ Len(r) = n
      /\ \A k \in 1 .. n : r[k] = s[f[k]] /\ f[k] \in DOMAIN s /\ s[f[k]] # a
  <2>1. \A k \in 1 .. n : f[k] \in DOMAIN s /\ s[f[k]] # a
    BY <1>3
  <2>2. r \in [1 .. n -> A]
    BY <2>1
  <2>3. r \in Seq(A)
    BY <1>3, <2>2
  <2>4. DOMAIN r = 1 .. n
    OBVIOUS
  <2>5. Len(r) = n
    BY <1>3, <2>3, <2>4
  <2> QED BY <2>1, <2>3, <2>4, <2>5
<1> HIDE DEF r
<1>6. Selects(f, r, s)
  BY <1>3, <1>5 DEF Selects
<1>7. \A i \in DOMAIN s : s[i] # a => Kept(f, r, i)
  BY <1>3, <1>5 DEF Kept
<1>8. ASSUME NEW e PROVE /\ e # a => (Contains(r, e) <=> Contains(s, e))
                         /\ Once(s, e) => Once(r, e)
  BY <1>5, <1>6, <1>7, SelectedMembers
<1>9. ASSUME NEW S, a \notin S PROVE Count(r, S) = Count(s, S)
  <2>1. \A i \in DOMAIN s : s[i] \in S => Kept(f, r, i)
    BY <1>7, <1>9
  <2> QED BY <1>5, <1>6, <2>1, CountKept
<1>10. Count(r, {a}) = 0
  <2>1. {k \in DOMAIN r : r[k] \in {a}} = {}
    BY <1>5
  <2> QED BY <2>1, FS_EmptySet DEF Count
<1>11. Len(s) - Len(r) = Count(s, {a})
  <2> DEFINE M == {i \in DOMAIN s : s[i] \in {a}}
  <2>1. K = DOMAIN s \ M /\ DOMAIN s \cap M = M
    OBVIOUS
  <2>2. IsFiniteSet(DOMAIN s) /\ Cardinality(DOMAIN s) = Len(s)
    BY <1>1, FS_Interval
  <2>3. Cardinality(M) = Count(s, {a}) /\ Count(s, {a}) \in Nat
    <3>1. Count(s, {a}) \in Nat
      BY CountFinite
    <3> QED BY <3>1 DEF Count
  <2> HIDE DEF K, M
  <2>4. Cardinality(DOMAIN s \ M) = Cardinality(DOMAIN s) - Cardinality(DOMAIN s \cap M)
    BY <2>2, FS_Difference
  <2>5. n = Len(s) - Count(s, {a})
    BY <2>1, <2>2, <2>3, <2>4 DEF n
  <2> QED BY <1>1, <1>3, <1>5, <2>3, <2>5
<1> QED BY <1>4, <1>5, <1>8, <1>9, <1>10, <1>11
-----------------------------------------------------------------------------
(* The control part of the type invariant.                                 *)
CtrlOK ==
  /\ exit_reason_ \in [Actor -> Reasons \cup {"not_exited"}]
  /\ mtx_ \in [Actor -> Thread \cup {None}]
  /\ open \in [Actor -> BOOLEAN]
  /\ planned \in [Actor -> Reasons \cup {"not_exited"}]
  /\ pc \in [Thread -> {"idle", "link", "backlink", "refuse", "attach",
                        "unlink", "remove_backlink", "cleanup", "notify"}]
  /\ self \in [Thread -> Actor \cup {None}]
  /\ other \in [Thread -> Actor \cup {None}]
  /\ \A x \in Actor : ~ open[x] => planned[x] \in Reasons

(* The types of the control variables follow from the type invariant.      *)
LEMMA CtrlTypes == TypeOK => CtrlOK
  BY DEF TypeOK, CtrlOK

(* A call of an actor is about itself.                                     *)
LEMMA CallsInvPreserved ==
  ASSUME CtrlOK, CallsInv, [Next]_vars
  PROVE  CallsInv'
<1> USE LinksAssumption
    DEF LinksAssumption, CtrlOK, CallsInv, Holding, Thread, callVars, Goto,
        Return, Enter, UserCalls, MayLink
<1>1. CASE UNCHANGED vars
  BY <1>1 DEF vars
<1>2. ASSUME NEW t \in Thread, NEW x \in Actor, NEW y \in Actor, LinkTo(t, x, y)
      PROVE  CallsInv'
  BY <1>2 DEF LinkTo
<1>3. ASSUME NEW t \in Thread, EstablishLink(t)
      PROVE  CallsInv'
  BY <1>3 DEF EstablishLink
<1>4. ASSUME NEW t \in Thread, EstablishBacklink(t)
      PROVE  CallsInv'
  BY <1>4 DEF EstablishBacklink
<1>5. ASSUME NEW t \in Thread, RefuseBacklink(t)
      PROVE  CallsInv'
  BY <1>5 DEF RefuseBacklink
<1>6. ASSUME NEW t \in Thread, AttachLink(t)
      PROVE  CallsInv'
  BY <1>6 DEF AttachLink
<1>7. ASSUME NEW t \in Thread, NEW x \in Actor, NEW y \in Actor, UnlinkFrom(t, x, y)
      PROVE  CallsInv'
  BY <1>7 DEF UnlinkFrom
<1>8. ASSUME NEW t \in Thread, RemoveLink(t)
      PROVE  CallsInv'
  BY <1>8 DEF RemoveLink
<1>9. ASSUME NEW t \in Thread, RemoveBacklink(t)
      PROVE  CallsInv'
  BY <1>9 DEF RemoveBacklink
<1>10. ASSUME NEW x \in Actor, NEW y \in Actor, Monitor(x, y)
      PROVE  CallsInv'
  BY <1>10 DEF Monitor
<1>11. ASSUME NEW x \in Actor, NEW y \in Actor, Demonitor(x, y)
      PROVE  CallsInv'
  BY <1>11 DEF Demonitor
<1>12. ASSUME NEW t \in Thread, NEW x \in Actor, NEW r \in Reason, SendExit(t, x, r)
      PROVE  CallsInv'
  BY <1>12 DEF SendExit
<1>13. ASSUME NEW x \in Actor, NEW r \in Reason, Quit(x, r)
      PROVE  CallsInv'
  BY <1>13 DEF Quit
<1>14. ASSUME NEW x \in Actor, Receive(x)
      PROVE  CallsInv'
  BY <1>14 DEF Receive
<1>15. ASSUME NEW x \in Actor, CloseMailbox(x)
      PROVE  CallsInv'
  BY <1>15 DEF CloseMailbox
<1>16. ASSUME NEW x \in Actor, Cleanup(x)
      PROVE  CallsInv'
  BY <1>16 DEF Cleanup
<1>17. ASSUME NEW x \in Actor, Notify(x)
      PROVE  CallsInv'
  BY <1>17 DEF Notify
<1> QED
  BY <1>1, <1>2, <1>3, <1>4, <1>5, <1>6, <1>7, <1>8, <1>9, <1>10, <1>11, <1>12, <1>13, <1>14,
     <1>15, <1>16, <1>17
  DEF Next, UserCode, Continue, Run

(* Nothing is in an empty list, and nothing is left of it.                 *)
LEMMA EmptyList ==
  /\ \A e : ~ Contains(<<>>, e) /\ RemoveFirst(<<>>, e) = <<>> /\ detach(<<>>, e) = <<>>
  /\ \A S : Count(<<>>, S) = 0
<1>1. Len(<<>>) = 0 /\ \A e : ~ Contains(<<>>, e)
  BY DEF Contains
<1>2. ASSUME NEW e PROVE RemoveFirst(<<>>, e) = <<>>
  BY DEF RemoveFirst
<1>3. ASSUME NEW S PROVE Count(<<>>, S) = 0
  <2>1. {i \in DOMAIN <<>> : <<>>[i] \in S} = {}
    OBVIOUS
  <2> QED BY <2>1, FS_EmptySet DEF Count
<1>4. ASSUME NEW e PROVE detach(<<>>, e) = <<>>
  <2>1. <<>> \in Seq({})
    OBVIOUS
  <2>2. /\ detach(<<>>, e) \in Seq({})
        /\ Len(<<>>) - Len(detach(<<>>, e)) = Count(<<>>, {e})
    BY <2>1, DetachFacts
  <2>3. Len(detach(<<>>, e)) = 0
    <3>1. Len(detach(<<>>, e)) \in Nat
      BY <2>2
    <3> QED BY <1>1, <1>3, <2>2, <3>1
  <2> QED BY <2>2, <2>3
<1> QED BY <1>1, <1>2, <1>3, <1>4

(* An actor that has a link is alive.                                      *)
LEMMA LinkedIsAlive ==
  ASSUME EndsInv, NEW x \in Actor, NEW y, HasLink(x, y)
  PROVE  ~ exited(x)
  BY EmptyList DEF EndsInv, HasLink

(* The mutex of an actor is held exactly by who works on its behalf.       *)
LEMMA LocksInvPreserved ==
  ASSUME CtrlOK, CallsInv, LocksInv, EndsInv, [Next]_vars
  PROVE  LocksInv'
<1> USE LinksAssumption
    DEF LinksAssumption, CtrlOK, CallsInv, LocksInv, EndsInv, Holding, Thread,
        Reasons, exited, callVars, Goto, Return, Enter, UserCalls, MayLink, Lock, Unlock, Free
<1>1. CASE UNCHANGED vars
  BY <1>1 DEF vars
<1>2. ASSUME NEW t \in Thread, NEW x \in Actor, NEW y \in Actor, LinkTo(t, x, y)
      PROVE  LocksInv'
  BY <1>2 DEF LinkTo
<1>3. ASSUME NEW t \in Thread, EstablishLink(t)
      PROVE  LocksInv'
  BY <1>3 DEF EstablishLink
<1>4. ASSUME NEW t \in Thread, EstablishBacklink(t)
      PROVE  LocksInv'
  BY <1>4 DEF EstablishBacklink
<1>5. ASSUME NEW t \in Thread, RefuseBacklink(t)
      PROVE  LocksInv'
  BY <1>5 DEF RefuseBacklink
<1>6. ASSUME NEW t \in Thread, AttachLink(t)
      PROVE  LocksInv'
  BY <1>6 DEF AttachLink
<1>7. ASSUME NEW t \in Thread, NEW x \in Actor, NEW y \in Actor, UnlinkFrom(t, x, y)
      PROVE  LocksInv'
  BY <1>7 DEF UnlinkFrom
<1>8. ASSUME NEW t \in Thread, RemoveLink(t)
      PROVE  LocksInv'
  <2>1. self[t] \in Actor /\ (HasLink(self[t], other[t]) => ~ exited(self[t]))
    BY <1>8, LinkedIsAlive DEF RemoveLink
  <2> QED BY <1>8, <2>1 DEF RemoveLink
<1>9. ASSUME NEW t \in Thread, RemoveBacklink(t)
      PROVE  LocksInv'
  BY <1>9 DEF RemoveBacklink
<1>10. ASSUME NEW x \in Actor, NEW y \in Actor, Monitor(x, y)
      PROVE  LocksInv'
  BY <1>10 DEF Monitor
<1>11. ASSUME NEW x \in Actor, NEW y \in Actor, Demonitor(x, y)
      PROVE  LocksInv'
  BY <1>11 DEF Demonitor
<1>12. ASSUME NEW t \in Thread, NEW x \in Actor, NEW r \in Reason, SendExit(t, x, r)
      PROVE  LocksInv'
  BY <1>12 DEF SendExit
<1>13. ASSUME NEW x \in Actor, NEW r \in Reason, Quit(x, r)
      PROVE  LocksInv'
  BY <1>13 DEF Quit
<1>14. ASSUME NEW x \in Actor, Receive(x)
      PROVE  LocksInv'
  BY <1>14 DEF Receive
<1>15. ASSUME NEW x \in Actor, CloseMailbox(x)
      PROVE  LocksInv'
  BY <1>15 DEF CloseMailbox
<1>16. ASSUME NEW x \in Actor, Cleanup(x)
      PROVE  LocksInv'
  BY <1>16 DEF Cleanup
<1>17. ASSUME NEW x \in Actor, Notify(x)
      PROVE  LocksInv'
  BY <1>17 DEF Notify
<1> QED
  BY <1>1, <1>2, <1>3, <1>4, <1>5, <1>6, <1>7, <1>8, <1>9, <1>10, <1>11, <1>12, <1>13, <1>14,
     <1>15, <1>16, <1>17
  DEF Next, UserCode, Continue, Run

(* Closing, publishing and notifying happen in this order.                 *)
LEMMA EndsInvPreserved ==
  ASSUME TypeOK, CallsInv, LocksInv, EndsInv, [Next]_vars
  PROVE  EndsInv'
<1> USE LinksAssumption
    DEF LinksAssumption, CtrlOK, CallsInv, LocksInv, EndsInv, Holding, Thread,
        Reasons, exited, callVars, Goto, Return, Enter, UserCalls, MayLink, Lock, Unlock, Free
<1>0. CtrlOK /\ attachables \in [Actor -> Seq(Attachable)] /\ todo \in [Actor -> Seq(Attachable)]
  BY CtrlTypes DEF TypeOK
<1>1. CASE UNCHANGED vars
  BY <1>1 DEF vars
<1>2. ASSUME NEW t \in Thread, NEW x \in Actor, NEW y \in Actor, LinkTo(t, x, y)
      PROVE  EndsInv'
  BY <1>2, <1>0 DEF LinkTo
<1>3. ASSUME NEW t \in Thread, EstablishLink(t)
      PROVE  EndsInv'
  BY <1>3, <1>0 DEF EstablishLink
<1>4. ASSUME NEW t \in Thread, EstablishBacklink(t)
      PROVE  EndsInv'
  BY <1>4, <1>0 DEF EstablishBacklink
<1>5. ASSUME NEW t \in Thread, RefuseBacklink(t)
      PROVE  EndsInv'
  BY <1>5, <1>0 DEF RefuseBacklink
<1>6. ASSUME NEW t \in Thread, AttachLink(t)
      PROVE  EndsInv'
  BY <1>6, <1>0 DEF AttachLink
<1>7. ASSUME NEW t \in Thread, NEW x \in Actor, NEW y \in Actor, UnlinkFrom(t, x, y)
      PROVE  EndsInv'
  BY <1>7, <1>0 DEF UnlinkFrom
<1>8. ASSUME NEW t \in Thread, RemoveLink(t)
      PROVE  EndsInv'
  <2>1. self[t] \in Actor /\ (HasLink(self[t], other[t]) => ~ exited(self[t]))
    BY <1>8, LinkedIsAlive DEF RemoveLink
  <2> QED BY <1>8, <1>0, <2>1 DEF RemoveLink
<1>9. ASSUME NEW t \in Thread, RemoveBacklink(t)
      PROVE  EndsInv'
  <2>1. attachables[other[t]] = <<>> => BacklinkRemoved(attachables[other[t]], self[t]) = <<>>
    BY EmptyList DEF BacklinkRemoved
  <2> QED BY <1>9, <1>0, <2>1 DEF RemoveBacklink
<1>10. ASSUME NEW x \in Actor, NEW y \in Actor, Monitor(x, y)
      PROVE  EndsInv'
  BY <1>10, <1>0 DEF Monitor, RefusesAttach
<1>11. ASSUME NEW x \in Actor, NEW y \in Actor, Demonitor(x, y)
      PROVE  EndsInv'
  <2>1. attachables[y] = <<>> => detach(attachables[y], make_monitor(x)) = <<>>
    BY EmptyList
  <2> QED BY <1>11, <1>0, <2>1 DEF Demonitor
<1>12. ASSUME NEW t \in Thread, NEW x \in Actor, NEW r \in Reason, SendExit(t, x, r)
      PROVE  EndsInv'
  BY <1>12, <1>0 DEF SendExit
<1>13. ASSUME NEW x \in Actor, NEW r \in Reason, Quit(x, r)
      PROVE  EndsInv'
  BY <1>13, <1>0 DEF Quit
<1>14. ASSUME NEW x \in Actor, Receive(x)
      PROVE  EndsInv'
  BY <1>14, <1>0 DEF Receive
<1>15. ASSUME NEW x \in Actor, CloseMailbox(x)
      PROVE  EndsInv'
  BY <1>15, <1>0 DEF CloseMailbox
<1>16. ASSUME NEW x \in Actor, Cleanup(x)
      PROVE  EndsInv'
  <2>1. planned[x] \in Reasons /\ planned[x] # "not_exited"
    BY <1>16, <1>0 DEF Cleanup
  <2>2. /\ pc' = [pc EXCEPT ![x] = "notify"] /\ open' = open
        /\ exit_reason_' = [exit_reason_ EXCEPT ![x] = planned[x]]
        /\ todo' = [todo EXCEPT ![x] = attachables[x]]
        /\ attachables' = [attachables EXCEPT ![x] = <<>>]
    BY <1>16 DEF Cleanup
  <2>3. ASSUME NEW u \in Actor
        PROVE  /\ open'[u] <=> pc'[u] \notin {"cleanup", "notify"}
               /\ exit_reason_'[u] # "not_exited" <=> pc'[u] = "notify"
               /\ exit_reason_'[u] # "not_exited" => attachables'[u] = <<>>
               /\ exit_reason_'[u] = "not_exited" => todo'[u] = <<>>
    BY <1>16, <1>0, <2>1, <2>2 DEF Cleanup
  <2> QED BY <2>3
<1>17. ASSUME NEW x \in Actor, Notify(x)
      PROVE  EndsInv'
  BY <1>17, <1>0 DEF Notify, RestOf
<1> QED
  BY <1>1, <1>2, <1>3, <1>4, <1>5, <1>6, <1>7, <1>8, <1>9, <1>10, <1>11, <1>12, <1>13, <1>14,
     <1>15, <1>16, <1>17
  DEF Next, UserCode, Continue, Run

(* The data part of the type invariant.                                    *)
DataOK ==
  /\ attachables \in [Actor -> Seq(Attachable)]
  /\ mailbox \in [Actor -> Seq(Letter)]
  /\ todo \in [Actor -> Seq(Attachable)]
  /\ calls \in 0 .. MaxCalls
  /\ owed \in [Actor -> [Actor -> Nat]]

(* The type invariant is the control part and the data part.               *)
LEMMA TypeParts == TypeOK <=> CtrlOK /\ DataOK
  BY DEF TypeOK, CtrlOK, DataOK

(* The message that an actor takes is a letter.                            *)
LEMMA HeadLetter ==
  ASSUME DataOK, NEW x \in Actor, mailbox[x] # <<>>
  PROVE  /\ Head(mailbox[x]) \in Letter
         /\ Head(mailbox[x]).type \in {"exit", "down"}
         /\ Head(mailbox[x]).source \in Actor \cup {None}
         /\ Head(mailbox[x]).reason \in Reasons
<1>1. mailbox[x] \in Seq(Letter)
  BY DEF DataOK
<1>2. Head(mailbox[x]) \in Letter
  BY <1>1
<1> QED BY <1>2 DEF Letter

(* The control part is preserved.                                          *)
LEMMA CtrlOKPreserved ==
  ASSUME CtrlOK, DataOK, CallsInv, EndsInv, [Next]_vars
  PROVE  CtrlOK'
<1> USE LinksAssumption
    DEF LinksAssumption, CtrlOK, CallsInv, EndsInv, Holding, Thread, Reasons, callVars,
        Goto, Return, Enter, UserCalls, MayLink, Lock, Unlock, Free
<1>1. CASE UNCHANGED vars
  BY <1>1 DEF vars
<1>2. ASSUME NEW t \in Thread, NEW x \in Actor, NEW y \in Actor, LinkTo(t, x, y)
      PROVE  CtrlOK'
  BY <1>2 DEF LinkTo
<1>3. ASSUME NEW t \in Thread, EstablishLink(t)
      PROVE  CtrlOK'
  BY <1>3 DEF EstablishLink
<1>4. ASSUME NEW t \in Thread, EstablishBacklink(t)
      PROVE  CtrlOK'
  BY <1>4 DEF EstablishBacklink
<1>5. ASSUME NEW t \in Thread, RefuseBacklink(t)
      PROVE  CtrlOK'
  BY <1>5 DEF RefuseBacklink
<1>6. ASSUME NEW t \in Thread, AttachLink(t)
      PROVE  CtrlOK'
  BY <1>6 DEF AttachLink
<1>7. ASSUME NEW t \in Thread, NEW x \in Actor, NEW y \in Actor, UnlinkFrom(t, x, y)
      PROVE  CtrlOK'
  BY <1>7 DEF UnlinkFrom
<1>8. ASSUME NEW t \in Thread, RemoveLink(t)
      PROVE  CtrlOK'
  BY <1>8 DEF RemoveLink
<1>9. ASSUME NEW t \in Thread, RemoveBacklink(t)
      PROVE  CtrlOK'
  BY <1>9 DEF RemoveBacklink
<1>10. ASSUME NEW x \in Actor, NEW y \in Actor, Monitor(x, y)
      PROVE  CtrlOK'
  BY <1>10 DEF Monitor
<1>11. ASSUME NEW x \in Actor, NEW y \in Actor, Demonitor(x, y)
      PROVE  CtrlOK'
  BY <1>11 DEF Demonitor
<1>12. ASSUME NEW t \in Thread, NEW x \in Actor, NEW r \in Reason, SendExit(t, x, r)
      PROVE  CtrlOK'
  BY <1>12 DEF SendExit
<1>13. ASSUME NEW x \in Actor, NEW r \in Reason, Quit(x, r)
      PROVE  CtrlOK'
  BY <1>13 DEF Quit
<1>14. ASSUME NEW x \in Actor, Receive(x)
      PROVE  CtrlOK'
  <2>1. /\ Head(mailbox[x]).source \in Actor \cup {None}
        /\ Head(mailbox[x]).reason \in Reasons
    BY <1>14, HeadLetter DEF Receive
  <2> QED BY <1>14, <2>1 DEF Receive
<1>15. ASSUME NEW x \in Actor, CloseMailbox(x)
      PROVE  CtrlOK'
  BY <1>15 DEF CloseMailbox, DefaultedReason
<1>16. ASSUME NEW x \in Actor, Cleanup(x)
      PROVE  CtrlOK'
  BY <1>16 DEF Cleanup
<1>17. ASSUME NEW x \in Actor, Notify(x)
      PROVE  CtrlOK'
  BY <1>17 DEF Notify
<1> QED
  BY <1>1, <1>2, <1>3, <1>4, <1>5, <1>6, <1>7, <1>8, <1>9, <1>10, <1>11, <1>12, <1>13, <1>14,
     <1>15, <1>16, <1>17
  DEF Next, UserCode, Continue, Run

(* Posting a letter adds it to one mailbox or leaves all as they are.      *)
LEMMA PostType ==
  ASSUME DataOK, NEW x \in Actor, NEW m \in Letter, Post(x, m)
  PROVE  mailbox' \in [Actor -> Seq(Letter)]
<1>1. mailbox[x] \in Seq(Letter) /\ Append(mailbox[x], m) \in Seq(Letter)
  BY DEF DataOK
<1> QED BY <1>1 DEF DataOK, Post

(* What a terminated actor sends is a letter.                              *)
LEMMA LastLetter ==
  ASSUME CtrlOK, NEW y \in Actor, exited(y)
  PROVE  \A k \in {"exit", "down"} : [type |-> k, source |-> y, reason |-> exit_reason_[y]] \in Letter
  BY DEF CtrlOK, exited, Letter

(* Links and monitors are attachables.                                     *)
LEMMA MakeAttachable ==
  ASSUME NEW x \in Actor
  PROVE  make_link(x) \in Attachable /\ make_monitor(x) \in Attachable
  BY DEF make_link, make_monitor, Attachable

(* DownsAccounted without its case distinction: the list of a terminated   *)
(* actor is empty.                                                         *)
Accounted ==
  \A x, y \in Actor :
    open[x] =>
      owed[x][y] = Count(attachables[y], {make_monitor(x)})
                     + Count(todo[y], {make_monitor(x)})
                     + Count(mailbox[x], DownFrom(y))

(* An exited actor has no attachables left, so that Accounted says what    *)
(* DownsAccounted says.                                                    *)
LEMMA AccountedIsDowns ==
  ASSUME DataOK, EndsInv
  PROVE  DownsAccounted <=> Accounted
<1> SUFFICES ASSUME NEW x \in Actor, NEW y \in Actor
             PROVE  (IF exited(y) THEN 0 ELSE Count(attachables[y], {make_monitor(x)}))
                       = Count(attachables[y], {make_monitor(x)})
  BY DEF DownsAccounted, Accounted
<1> QED BY EmptyList DEF EndsInv

(* The counts are natural numbers.                                         *)
LEMMA CountTypes ==
  ASSUME DataOK, NEW x \in Actor, NEW y \in Actor
  PROVE  /\ Count(attachables[y], {make_monitor(x)}) \in Nat
         /\ Count(todo[y], {make_monitor(x)}) \in Nat
         /\ Count(mailbox[x], DownFrom(y)) \in Nat
         /\ owed[x][y] \in Nat
<1>1. /\ attachables[y] \in Seq(Attachable) /\ todo[y] \in Seq(Attachable)
      /\ mailbox[x] \in Seq(Letter)
  BY DEF DataOK
<1>2. owed[x][y] \in Nat
  BY DEF DataOK
<1> QED BY <1>1, <1>2, CountFinite

(* Two words that differ make different attachables and letters.           *)
LEMMA Kinds ==
  ASSUME NEW x, NEW y
  PROVE  /\ make_link(x) # make_monitor(y)
         /\ make_link(x) = make_link(y) => x = y
         /\ make_monitor(x) = make_monitor(y) => x = y
  BY DEF make_link, make_monitor

(* A down message that is taken was owed.                                  *)
LEMMA DownWasOwed ==
  ASSUME DataOK, Accounted, LettersInv, NEW x \in Actor, open[x],
         mailbox[x] # <<>>, Head(mailbox[x]).type = "down"
  PROVE  /\ Head(mailbox[x]).source \in Actor
         /\ owed[x][Head(mailbox[x]).source] - 1 \in Nat
<1>1. mailbox[x] \in Seq(Letter)
  BY DEF DataOK
<1>2. PICK m : m = Head(mailbox[x])
  OBVIOUS
<1>3. m.source \in Actor
  <2>1. 1 \in DOMAIN mailbox[x] /\ mailbox[x][1] = Head(mailbox[x])
    BY <1>1
  <2> QED BY <1>2, <2>1 DEF LettersInv
<1>4. PICK y \in Actor : y = m.source
  BY <1>3
<1>5. m \in DownFrom(y)
  <2>1. m \in Letter /\ m.type = "down"
    BY <1>2, HeadLetter
  <2> QED BY <1>4, <2>1 DEF DownFrom, Letter
<1>6. Count(mailbox[x], DownFrom(y)) = Count(Tail(mailbox[x]), DownFrom(y)) + 1
  BY <1>1, <1>2, <1>5, TailFacts
<1>7. Count(Tail(mailbox[x]), DownFrom(y)) \in Nat
  <2>1. Tail(mailbox[x]) \in Seq(Letter)
    BY <1>1
  <2> QED BY <2>1, CountFinite
<1>8. owed[x][y] = Count(attachables[y], {make_monitor(x)})
                     + Count(todo[y], {make_monitor(x)})
                     + Count(mailbox[x], DownFrom(y))
  BY DEF Accounted
<1>9. owed[x][y] - 1 \in Nat
  <2>1. /\ Count(attachables[y], {make_monitor(x)}) \in Nat
        /\ Count(todo[y], {make_monitor(x)}) \in Nat
    BY CountTypes
  <2> QED BY <1>6, <1>7, <1>8, <2>1
<1> QED BY <1>2, <1>4, <1>9

(* The monitors that demonitor removes were owed a message each.           *)
LEMMA DetachedWereOwed ==
  ASSUME DataOK, Accounted, NEW x \in Actor, NEW y \in Actor, open[x]
  PROVE  LET kept == detach(attachables[y], make_monitor(x))
         IN  owed[x][y] - (Len(attachables[y]) - Len(kept)) \in Nat
<1>1. attachables[y] \in Seq(Attachable)
  BY DEF DataOK
<1>2. Len(attachables[y]) - Len(detach(attachables[y], make_monitor(x)))
        = Count(attachables[y], {make_monitor(x)})
  BY <1>1, DetachFacts
<1>3. owed[x][y] = Count(attachables[y], {make_monitor(x)})
                     + Count(todo[y], {make_monitor(x)})
                     + Count(mailbox[x], DownFrom(y))
  BY DEF Accounted
<1>4. /\ Count(attachables[y], {make_monitor(x)}) \in Nat
      /\ Count(todo[y], {make_monitor(x)}) \in Nat
      /\ Count(mailbox[x], DownFrom(y)) \in Nat
  BY CountTypes
<1>5. owed[x][y] - Count(attachables[y], {make_monitor(x)}) \in Nat
  BY <1>3, <1>4
<1> QED BY <1>2, <1>5

(* The data part is preserved.                                             *)
LEMMA DataOKPreserved ==
  ASSUME CtrlOK, DataOK, CallsInv, LocksInv, EndsInv, LinksInv, LettersInv, Accounted, [Next]_vars
  PROVE  DataOK'
<1> USE LinksAssumption DEF LinksAssumption, DataOK
<1>1. CASE UNCHANGED vars
  BY <1>1 DEF vars
<1>2. ASSUME NEW t \in Thread, NEW x \in Actor, NEW y \in Actor, LinkTo(t, x, y)
      PROVE  DataOK'
  BY <1>2 DEF LinkTo, UserCalls
<1>3. ASSUME NEW t \in Thread, EstablishLink(t)
      PROVE  DataOK'
  <2>1. self[t] \in Actor /\ other[t] \in Actor /\ other[t] # self[t]
    BY <1>3 DEF EstablishLink, CallsInv, Holding
  <2>2. mailbox' \in [Actor -> Seq(Letter)]
    BY <1>3, <2>1, LastLetter, PostType DEF EstablishLink, exit_msg
  <2> QED BY <1>3, <2>2 DEF EstablishLink
<1>4. ASSUME NEW t \in Thread, EstablishBacklink(t)
      PROVE  DataOK'
  <2>1. self[t] \in Actor /\ other[t] \in Actor /\ other[t] # self[t]
    BY <1>4 DEF EstablishBacklink, CallsInv, Holding
  <2>2. <<make_link(self[t])>> \o attachables[other[t]] \in Seq(Attachable)
    BY <2>1, MakeAttachable, PrependFacts
  <2>3. attachables' \in [Actor -> Seq(Attachable)]
    <3>1. \/ UNCHANGED attachables
          \/ attachables' = [attachables EXCEPT
                               ![other[t]] = <<make_link(self[t])>> \o attachables[other[t]]]
      BY <1>4 DEF EstablishBacklink
    <3> QED BY <2>1, <2>2, <3>1
  <2> QED BY <1>4, <2>3 DEF EstablishBacklink
<1>5. ASSUME NEW t \in Thread, RefuseBacklink(t)
      PROVE  DataOK'
  <2>1. self[t] \in Actor /\ other[t] \in Actor /\ other[t] # self[t]
    BY <1>5 DEF RefuseBacklink, CallsInv, Holding
  <2>2. exited(other[t])
    BY <1>5 DEF RefuseBacklink, LocksInv
  <2>3. mailbox' \in [Actor -> Seq(Letter)]
    BY <1>5, <2>1, <2>2, LastLetter, PostType DEF RefuseBacklink, exit_msg
  <2> QED BY <1>5, <2>3 DEF RefuseBacklink
<1>6. ASSUME NEW t \in Thread, AttachLink(t)
      PROVE  DataOK'
  <2>1. self[t] \in Actor /\ other[t] \in Actor /\ other[t] # self[t]
    BY <1>6 DEF AttachLink, CallsInv, Holding
  <2>2. <<make_link(other[t])>> \o attachables[self[t]] \in Seq(Attachable)
    BY <2>1, MakeAttachable, PrependFacts
  <2> QED BY <1>6, <2>1, <2>2 DEF AttachLink
<1>7. ASSUME NEW t \in Thread, NEW x \in Actor, NEW y \in Actor, UnlinkFrom(t, x, y)
      PROVE  DataOK'
  BY <1>7 DEF UnlinkFrom, UserCalls
<1>8. ASSUME NEW t \in Thread, RemoveLink(t)
      PROVE  DataOK'
  <2>1. CASE other[t] \in {None, self[t]} \/ ~ HasLink(self[t], other[t])
    BY <1>8, <2>1 DEF RemoveLink
  <2>2. CASE ~ (other[t] \in {None, self[t]} \/ ~ HasLink(self[t], other[t]))
    <3>1. self[t] \in Actor /\ other[t] \in Actor
      BY <1>8, <2>2 DEF RemoveLink, CallsInv, CtrlOK
    <3>2. RemoveFirst(attachables[self[t]], make_link(other[t])) \in Seq(Attachable)
      BY <3>1, MakeAttachable, RemoveFacts DEF LinksInv, LinkedOnce
    <3>3. attachables' = [attachables EXCEPT
                            ![self[t]] = RemoveFirst(attachables[self[t]], make_link(other[t]))]
      BY <1>8, <2>2 DEF RemoveLink
    <3>4. attachables' \in [Actor -> Seq(Attachable)]
      BY <3>1, <3>2, <3>3
    <3> QED BY <1>8, <3>4 DEF RemoveLink
  <2> QED BY <2>1, <2>2
<1>9. ASSUME NEW t \in Thread, RemoveBacklink(t)
      PROVE  DataOK'
  <2>1. self[t] \in Actor /\ other[t] \in Actor /\ other[t] # self[t]
    BY <1>9 DEF RemoveBacklink, CallsInv, Holding
  <2>2. RemoveFirst(attachables[other[t]], make_link(self[t])) \in Seq(Attachable)
    BY <2>1, MakeAttachable, RemoveFacts DEF LinksInv, LinkedOnce
  <2> QED BY <1>9, <2>1, <2>2 DEF RemoveBacklink, BacklinkRemoved
<1>10. ASSUME NEW x \in Actor, NEW y \in Actor, Monitor(x, y)
      PROVE  DataOK'
  <2>1. attachables' \in [Actor -> Seq(Attachable)]
    <3>1. <<make_monitor(x)>> \o attachables[y] \in Seq(Attachable)
      BY MakeAttachable, PrependFacts
    <3> QED BY <1>10, <3>1 DEF Monitor
  <2>2. mailbox' \in [Actor -> Seq(Letter)]
    <3>1. CASE RefusesAttach(y)
      <4>1. Post(x, [type |-> "down", source |-> y, reason |-> exit_reason_[y]])
        BY <1>10, <3>1 DEF Monitor, actor_exited, make_monitor
      <4> QED BY <3>1, <4>1, LastLetter, PostType DEF RefusesAttach
    <3> QED BY <1>10, <3>1 DEF Monitor
  <2>3. owed' \in [Actor -> [Actor -> Nat]]
    BY <1>10 DEF Monitor
  <2>4. calls' \in 0 .. MaxCalls
    BY <1>10 DEF Monitor, UserCalls
  <2> QED BY <1>10, <2>1, <2>2, <2>3, <2>4 DEF Monitor
<1>11. ASSUME NEW x \in Actor, NEW y \in Actor, Demonitor(x, y)
      PROVE  DataOK'
  <2>1. detach(attachables[y], make_monitor(x)) \in Seq(Attachable)
    BY DetachFacts
  <2>2. open[x]
    BY <1>11 DEF Demonitor, UserCalls, EndsInv
  <2>3. owed[x][y] - (Len(attachables[y]) - Len(detach(attachables[y], make_monitor(x)))) \in Nat
    BY <2>2, DetachedWereOwed
  <2>4. owed' \in [Actor -> [Actor -> Nat]]
    BY <1>11, <2>3 DEF Demonitor
  <2>5. calls' \in 0 .. MaxCalls
    BY <1>11 DEF Demonitor, UserCalls
  <2> QED BY <1>11, <2>1, <2>4, <2>5 DEF Demonitor
<1>12. ASSUME NEW t \in Thread, NEW x \in Actor, NEW r \in Reason, SendExit(t, x, r)
      PROVE  DataOK'
  <2>1. [type |-> "exit", source |-> IF t \in Actor THEN t ELSE None, reason |-> r] \in Letter
    BY DEF Letter
  <2>2. mailbox' \in [Actor -> Seq(Letter)]
    BY <1>12, <2>1, PostType DEF SendExit
  <2> QED BY <1>12, <2>2 DEF SendExit, UserCalls
<1>13. ASSUME NEW x \in Actor, NEW r \in Reason, Quit(x, r)
      PROVE  DataOK'
  BY <1>13 DEF Quit, UserCalls
<1>14. ASSUME NEW x \in Actor, Receive(x)
      PROVE  DataOK'
  <2>1. Tail(mailbox[x]) \in Seq(Letter)
    BY <1>14 DEF Receive
  <2>2. owed' \in [Actor -> [Actor -> Nat]]
    <3>1. CASE Head(mailbox[x]).type = "down"
      <4>1. /\ Head(mailbox[x]).source \in Actor
            /\ owed[x][Head(mailbox[x]).source] - 1 \in Nat
        BY <1>14, <3>1, DownWasOwed DEF Receive
      <4>2. PICK y \in Actor : y = Head(mailbox[x]).source
        BY <4>1
      <4>3. owed' = [owed EXCEPT ![x][y] = owed[x][y] - 1]
        BY <1>14, <3>1, <4>2 DEF Receive
      <4> QED BY <4>1, <4>2, <4>3
    <3> QED BY <1>14, <3>1 DEF Receive
  <2> QED BY <1>14, <2>1, <2>2 DEF Receive
<1>15. ASSUME NEW x \in Actor, CloseMailbox(x)
      PROVE  DataOK'
  BY <1>15 DEF CloseMailbox
<1>16. ASSUME NEW x \in Actor, Cleanup(x)
      PROVE  DataOK'
  BY <1>16 DEF Cleanup
<1>17. ASSUME NEW x \in Actor, Notify(x)
      PROVE  DataOK'
  <2>1. todo[x] \in Seq(Attachable) /\ Tail(todo[x]) \in Seq(Attachable) /\ Head(todo[x]) \in Attachable
    BY <1>17 DEF Notify
  <2>2. exited(x)
    BY <1>17 DEF Notify, EndsInv
  <2>3. mailbox' \in [Actor -> Seq(Letter)]
    <3>1. PICK k \in {"exit", "down"} :
            Post(Head(todo[x]).observer, [type |-> k, source |-> x, reason |-> exit_reason_[x]])
      BY <1>17 DEF Notify, actor_exited
    <3>2. Head(todo[x]).observer \in Actor
      BY <2>1 DEF Attachable
    <3> QED BY <2>2, <3>1, <3>2, LastLetter, PostType
  <2> QED BY <1>17, <2>1, <2>3 DEF Notify, RestOf
<1> QED
  BY <1>1, <1>2, <1>3, <1>4, <1>5, <1>6, <1>7, <1>8, <1>9, <1>10, <1>11, <1>12, <1>13, <1>14,
     <1>15, <1>16, <1>17
  DEF Next, UserCode, Continue, Run

(* What cleanup works on are attachables.                                  *)
LEMMA HeadAttachable ==
  ASSUME DataOK, NEW x \in Actor, todo[x] # <<>>
  PROVE  /\ todo[x] \in Seq(Attachable) /\ Head(todo[x]) \in Attachable
         /\ Head(todo[x]).observer \in Actor
         /\ Head(todo[x]).type \in {"link", "monitor"}
<1>1. todo[x] \in Seq(Attachable)
  BY DEF DataOK
<1>2. Head(todo[x]) \in Attachable
  BY <1>1
<1> QED BY <1>1, <1>2 DEF Attachable

(* Letters that name their source when they have to keep LettersInv.       *)
LEMMA PostLetters ==
  ASSUME DataOK, LettersInv, NEW x \in Actor, NEW m \in Letter, Post(x, m),
         m.type = "down" => m.source \in Actor
  PROVE  LettersInv'
<1> SUFFICES ASSUME NEW u \in Actor, NEW i \in DOMAIN mailbox'[u],
                    mailbox'[u][i].type = "down"
             PROVE  mailbox'[u][i].source \in Actor
  BY DEF LettersInv
<1>1. CASE u = x /\ open[x]
  <2>1. mailbox[x] \in Seq(Letter) /\ mailbox'[u] = Append(mailbox[x], m)
    BY <1>1 DEF Post, DataOK
  <2>2. \/ i \in DOMAIN mailbox[x] /\ mailbox'[u][i] = mailbox[x][i]
        \/ mailbox'[u][i] = m
    BY <2>1
  <2> QED BY <2>2 DEF LettersInv
<1>2. CASE ~ (u = x /\ open[x])
  <2>1. mailbox'[u] = mailbox[u]
    BY <1>2 DEF Post, DataOK
  <2> QED BY <2>1 DEF LettersInv
<1> QED BY <1>1, <1>2

(* Letters keep naming their source.                                       *)
LEMMA LettersInvPreserved ==
  ASSUME CtrlOK, DataOK, CallsInv, LocksInv, EndsInv, LettersInv, [Next]_vars
  PROVE  LettersInv'
<1> USE LinksAssumption DEF LinksAssumption
<1>1. CASE UNCHANGED vars
  BY <1>1 DEF vars, LettersInv
<1>2. ASSUME NEW t \in Thread, NEW x \in Actor, NEW y \in Actor, LinkTo(t, x, y)
      PROVE  LettersInv'
  BY <1>2 DEF LinkTo, LettersInv
<1>3. ASSUME NEW t \in Thread, EstablishLink(t)
      PROVE  LettersInv'
  <2>1. self[t] \in Actor /\ other[t] \in Actor
    BY <1>3 DEF EstablishLink, CallsInv, Holding
  <2>2. CASE exited(self[t])
    <3>1. Post(other[t], exit_msg(self[t])) /\ exit_msg(self[t]) \in Letter
      BY <1>3, <2>1, <2>2, LastLetter DEF EstablishLink, exit_msg
    <3>2. exit_msg(self[t]).type = "exit"
      BY DEF exit_msg
    <3> QED BY <2>1, <3>1, <3>2, PostLetters
  <2>3. CASE ~ exited(self[t])
    BY <1>3, <2>3 DEF EstablishLink, LettersInv
  <2> QED BY <2>2, <2>3
<1>4. ASSUME NEW t \in Thread, EstablishBacklink(t)
      PROVE  LettersInv'
  BY <1>4 DEF EstablishBacklink, LettersInv
<1>5. ASSUME NEW t \in Thread, RefuseBacklink(t)
      PROVE  LettersInv'
  <2>1. self[t] \in Actor /\ other[t] \in Actor
    BY <1>5 DEF RefuseBacklink, CallsInv, Holding
  <2>2. Post(self[t], exit_msg(other[t])) /\ exit_msg(other[t]) \in Letter
    BY <1>5, <2>1, LastLetter DEF RefuseBacklink, LocksInv, exit_msg
  <2>3. exit_msg(other[t]).type = "exit"
    BY DEF exit_msg
  <2> QED BY <2>1, <2>2, <2>3, PostLetters
<1>6. ASSUME NEW t \in Thread, AttachLink(t)
      PROVE  LettersInv'
  BY <1>6 DEF AttachLink, LettersInv
<1>7. ASSUME NEW t \in Thread, NEW x \in Actor, NEW y \in Actor, UnlinkFrom(t, x, y)
      PROVE  LettersInv'
  BY <1>7 DEF UnlinkFrom, LettersInv
<1>8. ASSUME NEW t \in Thread, RemoveLink(t)
      PROVE  LettersInv'
  BY <1>8 DEF RemoveLink, LettersInv
<1>9. ASSUME NEW t \in Thread, RemoveBacklink(t)
      PROVE  LettersInv'
  BY <1>9 DEF RemoveBacklink, LettersInv
<1>10. ASSUME NEW x \in Actor, NEW y \in Actor, Monitor(x, y)
      PROVE  LettersInv'
  <2>1. CASE RefusesAttach(y)
    <3> DEFINE m == [type |-> "down", source |-> y, reason |-> exit_reason_[y]]
    <3>1. Post(x, m)
      BY <1>10, <2>1 DEF Monitor, actor_exited, make_monitor
    <3>2. m \in Letter /\ m.source \in Actor
      BY <2>1, LastLetter DEF RefusesAttach
    <3> HIDE DEF m
    <3> QED BY <3>1, <3>2, PostLetters
  <2>2. CASE ~ RefusesAttach(y)
    BY <1>10, <2>2 DEF Monitor, LettersInv
  <2> QED BY <2>1, <2>2
<1>11. ASSUME NEW x \in Actor, NEW y \in Actor, Demonitor(x, y)
      PROVE  LettersInv'
  BY <1>11 DEF Demonitor, LettersInv
<1>12. ASSUME NEW t \in Thread, NEW x \in Actor, NEW r \in Reason, SendExit(t, x, r)
      PROVE  LettersInv'
  <2> DEFINE m == [type |-> "exit", source |-> IF t \in Actor THEN t ELSE None, reason |-> r]
  <2>1. m \in Letter /\ m.type = "exit"
    BY DEF Letter
  <2>2. Post(x, m)
    BY <1>12 DEF SendExit
  <2> HIDE DEF m
  <2> QED BY <2>1, <2>2, PostLetters
<1>13. ASSUME NEW x \in Actor, NEW r \in Reason, Quit(x, r)
      PROVE  LettersInv'
  BY <1>13 DEF Quit, LettersInv
<1>14. ASSUME NEW x \in Actor, Receive(x)
      PROVE  LettersInv'
  <2>1. mailbox[x] \in Seq(Letter) /\ mailbox[x] # <<>>
    BY <1>14 DEF Receive, DataOK
  <2>2. mailbox' = [mailbox EXCEPT ![x] = Tail(mailbox[x])]
    BY <1>14 DEF Receive
  <2> SUFFICES ASSUME NEW u \in Actor, NEW i \in DOMAIN mailbox'[u],
                      mailbox'[u][i].type = "down"
               PROVE  mailbox'[u][i].source \in Actor
    BY DEF LettersInv
  <2>3. CASE u = x
    <3>1. mailbox'[x] = Tail(mailbox[x])
      BY <2>2 DEF DataOK
    <3>2. i + 1 \in DOMAIN mailbox[x] /\ mailbox'[x][i] = mailbox[x][i + 1]
      BY <2>1, <2>3, <3>1
    <3> QED BY <2>3, <3>2 DEF LettersInv
  <2>4. CASE u # x
    BY <2>2, <2>4 DEF LettersInv, DataOK
  <2> QED BY <2>3, <2>4
<1>15. ASSUME NEW x \in Actor, CloseMailbox(x)
      PROVE  LettersInv'
  BY <1>15 DEF CloseMailbox, LettersInv, DataOK
<1>16. ASSUME NEW x \in Actor, Cleanup(x)
      PROVE  LettersInv'
  BY <1>16 DEF Cleanup, LettersInv
<1>17. ASSUME NEW x \in Actor, Notify(x)
      PROVE  LettersInv'
  <2>1. Head(todo[x]).observer \in Actor
    BY <1>17, HeadAttachable DEF Notify
  <2>2. PICK k \in {"exit", "down"} :
          Post(Head(todo[x]).observer, [type |-> k, source |-> x, reason |-> exit_reason_[x]])
    BY <1>17 DEF Notify, actor_exited
  <2> DEFINE m == [type |-> k, source |-> x, reason |-> exit_reason_[x]]
  <2>3. m \in Letter /\ m.source \in Actor
    BY <1>17, LastLetter DEF Notify, EndsInv
  <2> QED BY <2>1, <2>2, <2>3, PostLetters
<1> QED
  BY <1>1, <1>2, <1>3, <1>4, <1>5, <1>6, <1>7, <1>8, <1>9, <1>10, <1>11, <1>12, <1>13, <1>14,
     <1>15, <1>16, <1>17
  DEF Next, UserCode, Continue, Run

(* The accounts stay balanced if monitors only move from the list of an    *)
(* actor to its clean-up and no down message comes or goes.                *)
LEMMA SameAccount ==
  ASSUME DataOK, Accounted, owed' = owed,
         \A u \in Actor : open'[u] => open[u],
         \A u, v \in Actor : open'[u] =>
           /\ Count(attachables'[v], {make_monitor(u)}) + Count(todo'[v], {make_monitor(u)})
                = Count(attachables[v], {make_monitor(u)}) + Count(todo[v], {make_monitor(u)})
           /\ Count(mailbox'[u], DownFrom(v)) = Count(mailbox[u], DownFrom(v))
  PROVE  Accounted'
<1> SUFFICES ASSUME NEW u \in Actor, NEW v \in Actor, open'[u]
             PROVE  owed'[u][v] = Count(attachables'[v], {make_monitor(u)})
                                    + Count(todo'[v], {make_monitor(u)})
                                    + Count(mailbox'[u], DownFrom(v))
  BY DEF Accounted
<1>1. owed[u][v] = Count(attachables[v], {make_monitor(u)})
                     + Count(todo[v], {make_monitor(u)})
                     + Count(mailbox[u], DownFrom(v))
  BY DEF Accounted
<1> QED BY <1>1

(* What a letter adds to the counts.                                       *)
LEMMA PostCounts ==
  ASSUME DataOK, NEW x \in Actor, NEW m \in Letter, Post(x, m),
         NEW u \in Actor, NEW S
  PROVE  /\ ~ (u = x /\ m \in S) => Count(mailbox'[u], S) = Count(mailbox[u], S)
         /\ u = x /\ m \in S /\ open[x] => Count(mailbox'[u], S) = Count(mailbox[u], S) + 1
<1>1. CASE u = x /\ open[x]
  <2>1. mailbox[x] \in Seq(Letter) /\ mailbox'[u] = Append(mailbox[x], m)
    BY <1>1 DEF Post, DataOK
  <2>2. Count(Append(mailbox[x], m), S) = Count(mailbox[x], S) + (IF m \in S THEN 1 ELSE 0)
    BY <2>1, AppendFacts
  <2>3. Count(mailbox[x], S) \in Nat
    BY <2>1, CountFinite
  <2> QED BY <1>1, <2>1, <2>2, <2>3
<1>2. CASE ~ (u = x /\ open[x])
  <2>1. mailbox'[u] = mailbox[u]
    BY <1>2 DEF Post, DataOK
  <2> QED BY <1>2, <2>1
<1> QED BY <1>1, <1>2

(* Exit messages do not matter to the accounts.                            *)
LEMMA PostExit ==
  ASSUME DataOK, NEW x \in Actor, NEW m \in Letter, Post(x, m), m.type = "exit"
  PROVE  \A u, v \in Actor : Count(mailbox'[u], DownFrom(v)) = Count(mailbox[u], DownFrom(v))
<1> SUFFICES ASSUME NEW u \in Actor, NEW v \in Actor
             PROVE  Count(mailbox'[u], DownFrom(v)) = Count(mailbox[u], DownFrom(v))
  OBVIOUS
<1>1. m \notin DownFrom(v)
  BY DEF DownFrom
<1> QED BY <1>1, PostCounts

(* Neither do links.                                                       *)
LEMMA MonitorsKept ==
  ASSUME DataOK, Accounted, NEW y \in Actor, NEW list,
         attachables' = [attachables EXCEPT ![y] = list],
         \A u \in Actor : Count(list, {make_monitor(u)}) = Count(attachables[y], {make_monitor(u)}),
         UNCHANGED <<owed, open, mailbox, todo>>
  PROVE  Accounted'
<1>1. ASSUME NEW u \in Actor, NEW v \in Actor
      PROVE  Count(attachables'[v], {make_monitor(u)}) = Count(attachables[v], {make_monitor(u)})
  BY DEF DataOK
<1> QED BY <1>1, SameAccount

(* Attaching a link changes the number of no monitor.                      *)
LEMMA LinkPrependedCount ==
  ASSUME DataOK, NEW x \in Actor, NEW y \in Actor, NEW u
  PROVE  Count(<<make_link(y)>> \o attachables[x], {make_monitor(u)})
           = Count(attachables[x], {make_monitor(u)})
<1>1. attachables[x] \in Seq(Attachable) /\ make_link(y) \in Attachable
  BY MakeAttachable DEF DataOK
<1>2. make_link(y) \notin {make_monitor(u)}
  BY Kinds
<1>3. Count(<<make_link(y)>> \o attachables[x], {make_monitor(u)})
        = Count(attachables[x], {make_monitor(u)}) + 0
  BY <1>1, <1>2, PrependFacts
<1>4. Count(attachables[x], {make_monitor(u)}) \in Nat
  BY <1>1, CountFinite
<1> QED BY <1>3, <1>4

(* Removing a link changes the number of no monitor.                       *)
LEMMA LinkRemovedCount ==
  ASSUME DataOK, LinksInv, NEW x \in Actor, NEW y \in Actor, NEW u
  PROVE  Count(RemoveFirst(attachables[x], make_link(y)), {make_monitor(u)})
           = Count(attachables[x], {make_monitor(u)})
<1>1. /\ attachables[x] \in Seq(Attachable) /\ make_link(y) \in Attachable
      /\ Once(attachables[x], make_link(y))
  BY MakeAttachable DEF DataOK, LinksInv, LinkedOnce
<1>2. make_link(y) \notin {make_monitor(u)}
  BY Kinds
<1> QED BY <1>1, <1>2, RemoveFacts

(* monitor: one message more is owed, and it waits in the list of the      *)
(* target or has been sent.                                                *)
LEMMA MonitorAccounted ==
  ASSUME CtrlOK, DataOK, EndsInv, Accounted, NEW x \in Actor, NEW y \in Actor, Monitor(x, y)
  PROVE  Accounted'
<1>1. /\ open[x] /\ UNCHANGED <<open, todo>>
      /\ owed' = [owed EXCEPT ![x][y] = owed[x][y] + 1]
  BY DEF Monitor, UserCalls, EndsInv
<1> SUFFICES ASSUME NEW u \in Actor, NEW v \in Actor, open'[u]
             PROVE  owed'[u][v] = Count(attachables'[v], {make_monitor(u)})
                                    + Count(todo'[v], {make_monitor(u)})
                                    + Count(mailbox'[u], DownFrom(v))
  BY DEF Accounted
<1>2. /\ owed[u][v] = Count(attachables[v], {make_monitor(u)})
                        + Count(todo[v], {make_monitor(u)})
                        + Count(mailbox[u], DownFrom(v))
      /\ Count(attachables[v], {make_monitor(u)}) \in Nat
      /\ Count(todo[v], {make_monitor(u)}) \in Nat
      /\ Count(mailbox[u], DownFrom(v)) \in Nat
  BY <1>1, CountTypes DEF Accounted
<1>3. owed'[u][v] = owed[u][v] + (IF u = x /\ v = y THEN 1 ELSE 0)
  <2>1. CASE u = x /\ v = y
    BY <1>1, <2>1 DEF DataOK
  <2>2. CASE ~ (u = x /\ v = y)
    <3>1. owed'[u][v] = owed[u][v]
      BY <1>1, <2>2 DEF DataOK
    <3>2. owed[u][v] \in Nat
      BY CountTypes
    <3> QED BY <2>2, <3>1, <3>2
  <2> QED BY <2>1, <2>2
<1>4. CASE RefusesAttach(y)
  <2> DEFINE m == [type |-> "down", source |-> y, reason |-> exit_reason_[y]]
  <2>1. Post(x, m) /\ attachables' = attachables
    BY <1>4 DEF Monitor, actor_exited, make_monitor
  <2>2. m \in Letter
    BY <1>4, LastLetter DEF RefusesAttach
  <2>3. m \in DownFrom(v) <=> v = y
    BY <2>2 DEF DownFrom, Letter
  <2> HIDE DEF m
  <2>4. Count(mailbox'[u], DownFrom(v))
          = Count(mailbox[u], DownFrom(v)) + (IF u = x /\ v = y THEN 1 ELSE 0)
    BY <1>1, <1>2, <2>1, <2>2, <2>3, PostCounts
  <2> QED BY <1>1, <1>2, <1>3, <2>1, <2>4
<1>5. CASE ~ RefusesAttach(y)
  <2>1. /\ attachables' = [attachables EXCEPT ![y] = <<make_monitor(x)>> \o attachables[y]]
        /\ mailbox' = mailbox
    BY <1>5 DEF Monitor
  <2>2. Count(<<make_monitor(x)>> \o attachables[y], {make_monitor(u)})
          = Count(attachables[y], {make_monitor(u)}) + (IF u = x THEN 1 ELSE 0)
    <3>1. attachables[y] \in Seq(Attachable) /\ make_monitor(x) \in Attachable
      BY MakeAttachable DEF DataOK
    <3>2. make_monitor(x) \in {make_monitor(u)} <=> u = x
      BY Kinds
    <3> QED BY <3>1, <3>2, PrependFacts
  <2>3. Count(attachables'[v], {make_monitor(u)})
          = Count(attachables[v], {make_monitor(u)}) + (IF u = x /\ v = y THEN 1 ELSE 0)
    <3>1. attachables'[v] = IF v = y THEN <<make_monitor(x)>> \o attachables[y]
                                     ELSE attachables[v]
      BY <2>1 DEF DataOK
    <3>2. CASE v = y
      BY <2>2, <3>1, <3>2
    <3>3. CASE v # y
      BY <1>2, <3>1, <3>3
    <3> QED BY <3>2, <3>3
  <2> QED BY <1>1, <1>2, <1>3, <2>1, <2>3
<1> QED BY <1>4, <1>5

(* demonitor: what is removed is no longer owed.                           *)
LEMMA DemonitorAccounted ==
  ASSUME CtrlOK, DataOK, EndsInv, Accounted, NEW x \in Actor, NEW y \in Actor, Demonitor(x, y)
  PROVE  Accounted'
<1> DEFINE kept == detach(attachables[y], make_monitor(x))
           n == Len(attachables[y]) - Len(kept)
<1>1. /\ UNCHANGED <<open, todo, mailbox>>
      /\ owed' = [owed EXCEPT ![x][y] = owed[x][y] - n]
      /\ attachables' = [attachables EXCEPT ![y] = kept]
  BY DEF Demonitor
<1>2. attachables[y] \in Seq(Attachable)
  BY DEF DataOK
<1>3. /\ n = Count(attachables[y], {make_monitor(x)})
      /\ Count(kept, {make_monitor(x)}) = 0
  BY <1>2, DetachFacts
<1>4. ASSUME NEW u \in Actor, u # x
      PROVE  Count(kept, {make_monitor(u)}) = Count(attachables[y], {make_monitor(u)})
  <2>1. make_monitor(x) \notin {make_monitor(u)}
    BY <1>4, Kinds
  <2>2. \A S : make_monitor(x) \notin S =>
          Count(detach(attachables[y], make_monitor(x)), S) = Count(attachables[y], S)
    BY <1>2, DetachFacts
  <2> QED BY <2>1, <2>2
<1> HIDE DEF kept, n
<1> SUFFICES ASSUME NEW u \in Actor, NEW v \in Actor, open'[u]
             PROVE  owed'[u][v] = Count(attachables'[v], {make_monitor(u)})
                                    + Count(todo'[v], {make_monitor(u)})
                                    + Count(mailbox'[u], DownFrom(v))
  BY DEF Accounted
<1>5. /\ owed[u][v] = Count(attachables[v], {make_monitor(u)})
                        + Count(todo[v], {make_monitor(u)})
                        + Count(mailbox[u], DownFrom(v))
      /\ Count(attachables[v], {make_monitor(u)}) \in Nat
      /\ Count(todo[v], {make_monitor(u)}) \in Nat
      /\ Count(mailbox[u], DownFrom(v)) \in Nat
  BY <1>1, CountTypes DEF Accounted
<1>6. CASE u = x /\ v = y
  <2>1. owed'[u][v] = owed[u][v] - n /\ attachables'[v] = kept
    BY <1>1, <1>6 DEF DataOK
  <2> QED BY <1>1, <1>3, <1>5, <1>6, <2>1
<1>7. CASE u # x \/ v # y
  <2>1. owed'[u][v] = owed[u][v]
    BY <1>1, <1>7 DEF DataOK
  <2>2. Count(attachables'[v], {make_monitor(u)}) = Count(attachables[v], {make_monitor(u)})
    BY <1>1, <1>4, <1>7 DEF DataOK
  <2> QED BY <1>1, <1>5, <2>1, <2>2
<1> QED BY <1>6, <1>7

(* A down message that is taken is no longer owed.                         *)
LEMMA ReceiveAccounted ==
  ASSUME CtrlOK, DataOK, LettersInv, Accounted, NEW x \in Actor, Receive(x)
  PROVE  Accounted'
<1>1. /\ mailbox[x] \in Seq(Letter) /\ mailbox[x] # <<>> /\ open[x]
      /\ UNCHANGED <<open, todo, attachables>>
      /\ mailbox' = [mailbox EXCEPT ![x] = Tail(mailbox[x])]
  BY DEF Receive, DataOK
<1>2. PICK m : m = Head(mailbox[x])
  OBVIOUS
<1>3. m \in Letter
  BY <1>1, <1>2
<1> SUFFICES ASSUME NEW u \in Actor, NEW v \in Actor, open'[u]
             PROVE  owed'[u][v] = Count(attachables'[v], {make_monitor(u)})
                                    + Count(todo'[v], {make_monitor(u)})
                                    + Count(mailbox'[u], DownFrom(v))
  BY DEF Accounted
<1>4. /\ owed[u][v] = Count(attachables[v], {make_monitor(u)})
                        + Count(todo[v], {make_monitor(u)})
                        + Count(mailbox[u], DownFrom(v))
      /\ Count(attachables[v], {make_monitor(u)}) \in Nat
      /\ Count(todo[v], {make_monitor(u)}) \in Nat
      /\ Count(mailbox[u], DownFrom(v)) \in Nat
  BY <1>1, CountTypes DEF Accounted
<1>5. /\ Count(mailbox[x], DownFrom(v))
           = Count(Tail(mailbox[x]), DownFrom(v)) + (IF m \in DownFrom(v) THEN 1 ELSE 0)
      /\ Count(Tail(mailbox[x]), DownFrom(v)) \in Nat
  <2>1. Tail(mailbox[x]) \in Seq(Letter)
    BY <1>1
  <2> QED BY <1>1, <1>2, <2>1, TailFacts, CountFinite
<1>6. mailbox'[u] = IF u = x THEN Tail(mailbox[x]) ELSE mailbox[u]
  BY <1>1 DEF DataOK
<1>7. m \in DownFrom(v) <=> m.type = "down" /\ m.source = v
  BY <1>3 DEF DownFrom, Letter
<1>8. owed'[u][v] = IF u = x /\ m \in DownFrom(v) THEN owed[u][v] - 1 ELSE owed[u][v]
  <2>1. CASE m.type = "down"
    <3>1. PICK y \in Actor : y = m.source
      BY <1>1, <1>2, <2>1, DownWasOwed
    <3>2. owed' = [owed EXCEPT ![x][y] = owed[x][y] - 1]
      BY <1>2, <2>1, <3>1 DEF Receive
    <3> QED BY <1>7, <2>1, <3>1, <3>2 DEF DataOK
  <2>2. CASE m.type # "down"
    <3>1. owed' = owed
      BY <1>2, <2>2 DEF Receive
    <3> QED BY <1>7, <2>2, <3>1
  <2> QED BY <2>1, <2>2
<1>9. CASE u = x /\ m \in DownFrom(v)
  <2>1. /\ owed'[u][v] = owed[u][v] - 1
        /\ Count(mailbox[u], DownFrom(v)) = Count(mailbox'[u], DownFrom(v)) + 1
        /\ Count(mailbox'[u], DownFrom(v)) \in Nat
    BY <1>5, <1>6, <1>8, <1>9
  <2> QED BY <1>1, <1>4, <2>1
<1>10. CASE ~ (u = x /\ m \in DownFrom(v))
  <2>1. /\ owed'[u][v] = owed[u][v]
        /\ Count(mailbox'[u], DownFrom(v)) = Count(mailbox[u], DownFrom(v))
    BY <1>5, <1>6, <1>8, <1>10
  <2> QED BY <1>1, <1>4, <2>1
<1> QED BY <1>9, <1>10

(* One turn of cleanup's loop turns a monitor into its message.            *)
LEMMA NotifyAccounted ==
  ASSUME CtrlOK, DataOK, EndsInv, Accounted, NEW x \in Actor, Notify(x)
  PROVE  Accounted'
<1>1. /\ todo[x] # <<>> /\ UNCHANGED <<owed, open, attachables>>
      /\ todo' = [todo EXCEPT ![x] = Tail(todo[x])] /\ exited(x)
  BY DEF Notify, RestOf, EndsInv
<1>2. PICK a : a = Head(todo[x])
  OBVIOUS
<1>3. /\ todo[x] \in Seq(Attachable) /\ a \in Attachable
      /\ a.observer \in Actor /\ a.type \in {"link", "monitor"}
  BY <1>1, <1>2, HeadAttachable
<1> DEFINE m == [type |-> IF a.type = "monitor" THEN "down" ELSE "exit",
                 source |-> x, reason |-> exit_reason_[x]]
<1>4. Post(a.observer, m)
  BY <1>2 DEF Notify, actor_exited
<1>5. m \in Letter
  BY <1>1, LastLetter
<1> SUFFICES ASSUME NEW u \in Actor, NEW v \in Actor, open'[u]
             PROVE  owed'[u][v] = Count(attachables'[v], {make_monitor(u)})
                                    + Count(todo'[v], {make_monitor(u)})
                                    + Count(mailbox'[u], DownFrom(v))
  BY DEF Accounted
<1>6. /\ owed[u][v] = Count(attachables[v], {make_monitor(u)})
                        + Count(todo[v], {make_monitor(u)})
                        + Count(mailbox[u], DownFrom(v))
      /\ Count(attachables[v], {make_monitor(u)}) \in Nat
      /\ Count(todo[v], {make_monitor(u)}) \in Nat
      /\ Count(mailbox[u], DownFrom(v)) \in Nat
  BY <1>1, CountTypes DEF Accounted
<1>7. /\ a \in {make_monitor(u)} <=> a.type = "monitor" /\ a.observer = u
      /\ m \in DownFrom(v) <=> a.type = "monitor" /\ v = x
  BY <1>3, <1>5 DEF make_monitor, Attachable, DownFrom, Letter
<1> HIDE DEF m
<1>8. /\ Count(todo[x], {make_monitor(u)})
           = Count(Tail(todo[x]), {make_monitor(u)}) + (IF a \in {make_monitor(u)} THEN 1 ELSE 0)
      /\ Count(Tail(todo[x]), {make_monitor(u)}) \in Nat
  <2>1. Tail(todo[x]) \in Seq(Attachable)
    BY <1>1, <1>3
  <2>2. \A S : Count(todo[x], S) = Count(Tail(todo[x]), S) + (IF Head(todo[x]) \in S THEN 1 ELSE 0)
    BY <1>1, <1>3, TailFacts
  <2>3. Count(Tail(todo[x]), {make_monitor(u)}) \in Nat
    BY <2>1, CountFinite
  <2> QED BY <1>2, <2>2, <2>3
<1>9. todo'[v] = IF v = x THEN Tail(todo[x]) ELSE todo[v]
  BY <1>1 DEF DataOK
<1>10. /\ ~ (u = a.observer /\ m \in DownFrom(v)) =>
            Count(mailbox'[u], DownFrom(v)) = Count(mailbox[u], DownFrom(v))
       /\ u = a.observer /\ m \in DownFrom(v) =>
            Count(mailbox'[u], DownFrom(v)) = Count(mailbox[u], DownFrom(v)) + 1
  BY <1>1, <1>3, <1>4, <1>5, PostCounts
<1>11. CASE v = x /\ a.type = "monitor" /\ a.observer = u
  <2>1. /\ Count(todo[v], {make_monitor(u)}) = Count(todo'[v], {make_monitor(u)}) + 1
        /\ Count(todo'[v], {make_monitor(u)}) \in Nat
        /\ Count(mailbox'[u], DownFrom(v)) = Count(mailbox[u], DownFrom(v)) + 1
    BY <1>7, <1>8, <1>9, <1>10, <1>11
  <2> QED BY <1>1, <1>6, <2>1
<1>12. CASE ~ (v = x /\ a.type = "monitor" /\ a.observer = u)
  <2>1. /\ Count(todo'[v], {make_monitor(u)}) = Count(todo[v], {make_monitor(u)})
        /\ Count(mailbox'[u], DownFrom(v)) = Count(mailbox[u], DownFrom(v))
    BY <1>7, <1>8, <1>9, <1>10, <1>12
  <2> QED BY <1>1, <1>6, <2>1
<1> QED BY <1>11, <1>12

(* The accounts stay balanced.                                             *)
LEMMA AccountedPreserved ==
  ASSUME CtrlOK, DataOK, CallsInv, LocksInv, EndsInv, LinksInv, LettersInv, Accounted, [Next]_vars
  PROVE  Accounted'
<1> USE LinksAssumption DEF LinksAssumption
<1>1. CASE UNCHANGED vars
  BY <1>1 DEF vars, Accounted
<1>2. ASSUME NEW t \in Thread, NEW x \in Actor, NEW y \in Actor, LinkTo(t, x, y)
      PROVE  Accounted'
  BY <1>2 DEF LinkTo, Accounted
<1>3. ASSUME NEW t \in Thread, EstablishLink(t)
      PROVE  Accounted'
  <2>1. self[t] \in Actor /\ other[t] \in Actor
    BY <1>3 DEF EstablishLink, CallsInv, Holding
  <2>2. CASE exited(self[t])
    <3>1. Post(other[t], exit_msg(self[t])) /\ exit_msg(self[t]) \in Letter
      BY <1>3, <2>1, <2>2, LastLetter DEF EstablishLink, exit_msg
    <3>2. exit_msg(self[t]).type = "exit"
      BY DEF exit_msg
    <3>3. \A u, v \in Actor : Count(mailbox'[u], DownFrom(v)) = Count(mailbox[u], DownFrom(v))
      BY <2>1, <3>1, <3>2, PostExit
    <3>4. UNCHANGED <<owed, open, attachables, todo>>
      BY <1>3 DEF EstablishLink
    <3> QED BY <3>3, <3>4, SameAccount
  <2>3. CASE ~ exited(self[t])
    BY <1>3, <2>3 DEF EstablishLink, Accounted
  <2> QED BY <2>2, <2>3
<1>4. ASSUME NEW t \in Thread, EstablishBacklink(t)
      PROVE  Accounted'
  <2>1. self[t] \in Actor /\ other[t] \in Actor
    BY <1>4 DEF EstablishBacklink, CallsInv, Holding
  <2>2. CASE UNCHANGED attachables
    BY <1>4, <2>2 DEF EstablishBacklink, Accounted
  <2>3. CASE attachables' = [attachables EXCEPT ![other[t]] =
                               <<make_link(self[t])>> \o attachables[other[t]]]
    <3>1. ASSUME NEW u \in Actor
          PROVE  Count(<<make_link(self[t])>> \o attachables[other[t]], {make_monitor(u)})
                   = Count(attachables[other[t]], {make_monitor(u)})
      BY <2>1, LinkPrependedCount
    <3>2. UNCHANGED <<owed, open, mailbox, todo>>
      BY <1>4 DEF EstablishBacklink
    <3> QED BY <2>1, <2>3, <3>1, <3>2, MonitorsKept
  <2> QED BY <1>4, <2>2, <2>3 DEF EstablishBacklink
<1>5. ASSUME NEW t \in Thread, RefuseBacklink(t)
      PROVE  Accounted'
  <2>1. self[t] \in Actor /\ other[t] \in Actor
    BY <1>5 DEF RefuseBacklink, CallsInv, Holding
  <2>2. Post(self[t], exit_msg(other[t])) /\ exit_msg(other[t]) \in Letter
    BY <1>5, <2>1, LastLetter DEF RefuseBacklink, LocksInv, exit_msg
  <2>3. exit_msg(other[t]).type = "exit"
    BY DEF exit_msg
  <2>4. \A u, v \in Actor : Count(mailbox'[u], DownFrom(v)) = Count(mailbox[u], DownFrom(v))
    BY <2>1, <2>2, <2>3, PostExit
  <2>5. UNCHANGED <<owed, open, attachables, todo>>
    BY <1>5 DEF RefuseBacklink
  <2> QED BY <2>4, <2>5, SameAccount
<1>6. ASSUME NEW t \in Thread, AttachLink(t)
      PROVE  Accounted'
  <2>1. self[t] \in Actor /\ other[t] \in Actor
    BY <1>6 DEF AttachLink, CallsInv, Holding
  <2>2. ASSUME NEW u \in Actor
        PROVE  Count(<<make_link(other[t])>> \o attachables[self[t]], {make_monitor(u)})
                 = Count(attachables[self[t]], {make_monitor(u)})
    BY <2>1, LinkPrependedCount
  <2>3. /\ UNCHANGED <<owed, open, mailbox, todo>>
        /\ attachables' = [attachables EXCEPT ![self[t]] =
                             <<make_link(other[t])>> \o attachables[self[t]]]
    BY <1>6 DEF AttachLink
  <2> QED BY <2>1, <2>2, <2>3, MonitorsKept
<1>7. ASSUME NEW t \in Thread, NEW x \in Actor, NEW y \in Actor, UnlinkFrom(t, x, y)
      PROVE  Accounted'
  BY <1>7 DEF UnlinkFrom, Accounted
<1>8. ASSUME NEW t \in Thread, RemoveLink(t)
      PROVE  Accounted'
  <2>1. CASE other[t] \in {None, self[t]} \/ ~ HasLink(self[t], other[t])
    BY <1>8, <2>1 DEF RemoveLink, Accounted
  <2>2. CASE ~ (other[t] \in {None, self[t]} \/ ~ HasLink(self[t], other[t]))
    <3>1. self[t] \in Actor /\ other[t] \in Actor
      BY <1>8, <2>2 DEF RemoveLink, CallsInv, CtrlOK
    <3>2. ASSUME NEW u \in Actor
          PROVE  Count(RemoveFirst(attachables[self[t]], make_link(other[t])), {make_monitor(u)})
                   = Count(attachables[self[t]], {make_monitor(u)})
      BY <3>1, LinkRemovedCount
    <3>3. /\ UNCHANGED <<owed, open, mailbox, todo>>
          /\ attachables' = [attachables EXCEPT ![self[t]] =
                               RemoveFirst(attachables[self[t]], make_link(other[t]))]
      BY <1>8, <2>2 DEF RemoveLink
    <3> QED BY <3>1, <3>2, <3>3, MonitorsKept
  <2> QED BY <2>1, <2>2
<1>9. ASSUME NEW t \in Thread, RemoveBacklink(t)
      PROVE  Accounted'
  <2>1. self[t] \in Actor /\ other[t] \in Actor
    BY <1>9 DEF RemoveBacklink, CallsInv, Holding
  <2>2. ASSUME NEW u \in Actor
        PROVE  Count(RemoveFirst(attachables[other[t]], make_link(self[t])), {make_monitor(u)})
                 = Count(attachables[other[t]], {make_monitor(u)})
    BY <2>1, LinkRemovedCount
  <2>3. /\ UNCHANGED <<owed, open, mailbox, todo>>
        /\ attachables' = [attachables EXCEPT ![other[t]] =
                             RemoveFirst(attachables[other[t]], make_link(self[t]))]
    BY <1>9 DEF RemoveBacklink, BacklinkRemoved
  <2> QED BY <2>1, <2>2, <2>3, MonitorsKept
<1>10. ASSUME NEW x \in Actor, NEW y \in Actor, Monitor(x, y)
      PROVE  Accounted'
  BY <1>10, MonitorAccounted
<1>11. ASSUME NEW x \in Actor, NEW y \in Actor, Demonitor(x, y)
      PROVE  Accounted'
  BY <1>11, DemonitorAccounted
<1>12. ASSUME NEW t \in Thread, NEW x \in Actor, NEW r \in Reason, SendExit(t, x, r)
      PROVE  Accounted'
  <2> DEFINE m == [type |-> "exit", source |-> IF t \in Actor THEN t ELSE None, reason |-> r]
  <2>1. m \in Letter /\ m.type = "exit"
    BY DEF Letter
  <2>2. Post(x, m) /\ UNCHANGED <<owed, open, attachables, todo>>
    BY <1>12 DEF SendExit
  <2> HIDE DEF m
  <2>3. \A u, v \in Actor : Count(mailbox'[u], DownFrom(v)) = Count(mailbox[u], DownFrom(v))
    BY <2>1, <2>2, PostExit
  <2> QED BY <2>2, <2>3, SameAccount
<1>13. ASSUME NEW x \in Actor, NEW r \in Reason, Quit(x, r)
      PROVE  Accounted'
  BY <1>13 DEF Quit, Accounted
<1>14. ASSUME NEW x \in Actor, Receive(x)
      PROVE  Accounted'
  BY <1>14, ReceiveAccounted
<1>15. ASSUME NEW x \in Actor, CloseMailbox(x)
      PROVE  Accounted'
  <2>1. /\ UNCHANGED <<owed, attachables, todo>>
        /\ \A u \in Actor : open'[u] => open[u] /\ mailbox'[u] = mailbox[u]
    BY <1>15 DEF CloseMailbox, DataOK, CtrlOK
  <2> QED BY <2>1, SameAccount
<1>16. ASSUME NEW x \in Actor, Cleanup(x)
      PROVE  Accounted'
  <2>1. /\ todo[x] = <<>> /\ attachables'[x] = <<>> /\ todo'[x] = attachables[x]
        /\ \A v \in Actor \ {x} : attachables'[v] = attachables[v] /\ todo'[v] = todo[v]
        /\ UNCHANGED <<owed, open, mailbox>>
    BY <1>16 DEF Cleanup, DataOK, EndsInv
  <2>2. ASSUME NEW u \in Actor, NEW v \in Actor
        PROVE  Count(attachables'[v], {make_monitor(u)}) + Count(todo'[v], {make_monitor(u)})
                 = Count(attachables[v], {make_monitor(u)}) + Count(todo[v], {make_monitor(u)})
    <3>1. CASE v = x
      <4>1. Count(<<>>, {make_monitor(u)}) = 0
        BY EmptyList
      <4>2. Count(attachables[x], {make_monitor(u)}) \in Nat
        BY CountTypes
      <4> QED BY <2>1, <3>1, <4>1, <4>2
    <3> QED BY <2>1, <3>1
  <2> QED BY <2>1, <2>2, SameAccount
<1>17. ASSUME NEW x \in Actor, Notify(x)
      PROVE  Accounted'
  BY <1>17, NotifyAccounted
<1> QED
  BY <1>1, <1>2, <1>3, <1>4, <1>5, <1>6, <1>7, <1>8, <1>9, <1>10, <1>11, <1>12, <1>13, <1>14,
     <1>15, <1>16, <1>17
  DEF Next, UserCode, Continue, Run

-----------------------------------------------------------------------------
(* Links stay bidirectional.                                               *)

(* A message in q tells that y has ended.                                  *)
Informed(q, y) == \E i \in DOMAIN q : q[i].type = "exit" /\ q[i].source = y

(* WillHear in terms of the lists, before and after a step.                *)
LEMMA WillHearIs ==
  ASSUME NEW x, NEW y
  PROVE  /\ WillHear(x, y) <=> \/ Contains(todo[y], make_link(x))
                               \/ Informed(mailbox[x], y)
                               \/ pc[x] = "unlink" /\ other[x] = y
         /\ WillHear(x, y)' <=> \/ Contains(todo'[y], make_link(x))
                                \/ Informed(mailbox'[x], y)
                                \/ pc'[x] = "unlink" /\ other'[x] = y
  BY DEF WillHear, Informed

(* Posting a letter loses none, and delivers it if the mailbox is open.    *)
LEMMA PostInforms ==
  ASSUME DataOK, NEW x \in Actor, NEW m \in Letter, Post(x, m)
  PROVE  /\ \A u \in Actor : \A v : Informed(mailbox[u], v) => Informed(mailbox'[u], v)
         /\ open[x] /\ m.type = "exit" => Informed(mailbox'[x], m.source)
<1>1. CASE open[x]
  <2>1. /\ mailbox[x] \in Seq(Letter) /\ mailbox'[x] = Append(mailbox[x], m)
        /\ \A u \in Actor \ {x} : mailbox'[u] = mailbox[u]
    BY <1>1 DEF Post, DataOK
  <2>2. /\ Len(mailbox[x]) + 1 \in DOMAIN mailbox'[x]
        /\ mailbox'[x][Len(mailbox[x]) + 1] = m
        /\ \A i \in DOMAIN mailbox[x] : i \in DOMAIN mailbox'[x] /\ mailbox'[x][i] = mailbox[x][i]
    BY <2>1
  <2>3. ASSUME NEW v, Informed(mailbox[x], v) PROVE Informed(mailbox'[x], v)
    <3>1. PICK i \in DOMAIN mailbox[x] : mailbox[x][i].type = "exit" /\ mailbox[x][i].source = v
      BY <2>3 DEF Informed
    <3>2. i \in DOMAIN mailbox'[x] /\ mailbox'[x][i] = mailbox[x][i]
      BY <2>2
    <3> QED BY <3>1, <3>2 DEF Informed
  <2>4. m.type = "exit" => Informed(mailbox'[x], m.source)
    BY <2>2, Zenon DEF Informed
  <2> QED BY <2>1, <2>3, <2>4
<1>2. CASE ~ open[x]
  BY <1>2 DEF Post
<1> QED BY <1>1, <1>2

(* Taking a letter loses only that one.                                    *)
LEMMA TailInforms ==
  ASSUME NEW q \in Seq(Letter), q # <<>>, NEW y, Informed(q, y)
  PROVE  \/ Head(q).type = "exit" /\ Head(q).source = y
         \/ Informed(Tail(q), y)
<1>1. PICK i \in DOMAIN q : q[i].type = "exit" /\ q[i].source = y
  BY DEF Informed
<1>2. CASE i = 1
  BY <1>1, <1>2
<1>3. CASE i # 1
  <2>1. i - 1 \in DOMAIN Tail(q) /\ Tail(q)[i - 1] = q[i]
    BY <1>3
  <2> QED BY <1>1, <2>1 DEF Informed
<1> QED BY <1>2, <1>3

(* What the operations on lists do to the links.                           *)
LEMMA LinkAdded ==
  ASSUME DataOK, LinkedOnce, NEW x \in Actor, NEW y \in Actor, ~ HasLink(x, y),
         attachables' = [attachables EXCEPT ![x] = <<make_link(y)>> \o attachables[x]]
  PROVE  /\ LinkedOnce'
         /\ \A u, v \in Actor : HasLink(u, v)' <=> HasLink(u, v) \/ (u = x /\ v = y)
<1> DEFINE list == <<make_link(y)>> \o attachables[x]
<1>1. /\ attachables[x] \in Seq(Attachable) /\ make_link(y) \in Attachable
  BY MakeAttachable DEF DataOK
<1>2. /\ \A e : Contains(list, e) <=> e = make_link(y) \/ Contains(attachables[x], e)
      /\ \A e : Once(attachables[x], e) /\ (e = make_link(y) => ~ Contains(attachables[x], e))
                  => Once(list, e)
  BY <1>1, PrependFacts
<1>3. \A u \in Actor : attachables'[u] = IF u = x THEN list ELSE attachables[u]
  BY DEF DataOK
<1> HIDE DEF list
<1>4. ASSUME NEW u \in Actor, NEW v \in Actor
      PROVE  /\ HasLink(u, v)' <=> HasLink(u, v) \/ (u = x /\ v = y)
             /\ Once(attachables'[u], make_link(v))
  <2>1. make_link(v) = make_link(y) <=> v = y
    BY Kinds
  <2>2. CASE u = x
    BY <1>2, <1>3, <2>1, <2>2 DEF HasLink, LinkedOnce
  <2>3. CASE u # x
    BY <1>3, <2>3 DEF HasLink, LinkedOnce
  <2> QED BY <2>2, <2>3
<1> QED BY <1>4 DEF LinkedOnce

(* Detaching a link removes exactly that link.                             *)
LEMMA LinkRemoved ==
  ASSUME DataOK, LinkedOnce, NEW x \in Actor, NEW y \in Actor,
         attachables' = [attachables EXCEPT ![x] = RemoveFirst(attachables[x], make_link(y))]
  PROVE  /\ LinkedOnce'
         /\ \A u, v \in Actor : HasLink(u, v)' <=> HasLink(u, v) /\ ~ (u = x /\ v = y)
<1> DEFINE list == RemoveFirst(attachables[x], make_link(y))
<1>1. /\ attachables[x] \in Seq(Attachable) /\ make_link(y) \in Attachable
      /\ Once(attachables[x], make_link(y))
  BY MakeAttachable DEF DataOK, LinkedOnce
<1>2. /\ \A e : Contains(list, e) <=> e # make_link(y) /\ Contains(attachables[x], e)
      /\ \A e : Once(attachables[x], e) => Once(list, e)
  BY <1>1, RemoveFacts
<1>3. \A u \in Actor : attachables'[u] = IF u = x THEN list ELSE attachables[u]
  BY DEF DataOK
<1> HIDE DEF list
<1>4. ASSUME NEW u \in Actor, NEW v \in Actor
      PROVE  /\ HasLink(u, v)' <=> HasLink(u, v) /\ ~ (u = x /\ v = y)
             /\ Once(attachables'[u], make_link(v))
  <2>1. make_link(v) = make_link(y) <=> v = y
    BY Kinds
  <2>2. CASE u = x
    BY <1>2, <1>3, <2>1, <2>2 DEF HasLink, LinkedOnce
  <2>3. CASE u # x
    BY <1>3, <2>3 DEF HasLink, LinkedOnce
  <2> QED BY <2>2, <2>3
<1> QED BY <1>4 DEF LinkedOnce

(* Attaching or detaching a monitor leaves the links alone.                *)
LEMMA LinksKept ==
  ASSUME DataOK, LinkedOnce, NEW x \in Actor, NEW y \in Actor,
         \/ attachables' = [attachables EXCEPT ![y] = <<make_monitor(x)>> \o attachables[y]]
         \/ attachables' = [attachables EXCEPT ![y] = detach(attachables[y], make_monitor(x))]
  PROVE  /\ LinkedOnce'
         /\ \A u, v \in Actor : HasLink(u, v)' <=> HasLink(u, v)
<1>1. attachables[y] \in Seq(Attachable) /\ make_monitor(x) \in Attachable
  BY MakeAttachable DEF DataOK
<1>2. PICK list : /\ attachables' = [attachables EXCEPT ![y] = list]
                  /\ \/ list = <<make_monitor(x)>> \o attachables[y]
                     \/ list = detach(attachables[y], make_monitor(x))
  OBVIOUS
<1>3. \A e : e # make_monitor(x) =>
        /\ Contains(list, e) <=> Contains(attachables[y], e)
        /\ Once(attachables[y], e) => Once(list, e)
  <2>1. CASE list = <<make_monitor(x)>> \o attachables[y]
    BY <1>1, <2>1, PrependFacts
  <2>2. CASE list = detach(attachables[y], make_monitor(x))
    BY <1>1, <2>2, DetachFacts
  <2> QED BY <1>2, <2>1, <2>2
<1>4. \A u \in Actor : attachables'[u] = IF u = y THEN list ELSE attachables[u]
  BY <1>2 DEF DataOK
<1>5. ASSUME NEW u \in Actor, NEW v \in Actor
      PROVE  /\ HasLink(u, v)' <=> HasLink(u, v)
             /\ Once(attachables'[u], make_link(v))
  <2>1. make_link(v) # make_monitor(x)
    BY Kinds
  <2>2. CASE u = y
    BY <1>3, <1>4, <2>1, <2>2 DEF HasLink, LinkedOnce
  <2>3. CASE u # y
    BY <1>4, <2>3 DEF HasLink, LinkedOnce
  <2> QED BY <2>2, <2>3
<1> QED BY <1>5 DEF LinkedOnce

(* Only t takes a step.                                                    *)
OthersStay(t) ==
  \A w \in Thread \ {t} : pc'[w] = pc[w] /\ self'[w] = self[w] /\ other'[w] = other[w]

(* The links under construction are the same if t takes no part in one.    *)
LEMMA CallsFrame ==
  ASSUME NEW t \in Thread, OthersStay(t), NEW u, NEW v,
         pc[t] \notin {"attach", "remove_backlink"},
         pc'[t] \notin {"attach", "remove_backlink"}
  PROVE  /\ Attaching(u, v)' <=> Attaching(u, v)
         /\ OtherSideFollows(u, v)' <=> OtherSideFollows(u, v)
<1>1. ASSUME NEW w \in Thread, NEW l \in {"attach", "remove_backlink"}
      PROVE  (pc'[w] = l /\ self'[w] = u /\ other'[w] = v)
               <=> (pc[w] = l /\ self[w] = u /\ other[w] = v)
  BY DEF OthersStay
<1>2. Attaching(u, v)' <=> Attaching(u, v)
  BY <1>1 DEF Attaching
<1>3. OtherSideFollows(u, v)' <=> OtherSideFollows(u, v)
  BY DEF OthersStay, OtherSideFollows
<1> QED BY <1>2, <1>3

(* A step that changes no link and makes nobody miss an exit message.      *)
LEMMA QuietStep ==
  ASSUME CtrlOK, LinksInv, NEW t \in Thread, OthersStay(t),
         pc[t] \notin {"attach", "remove_backlink"},
         pc'[t] \notin {"attach", "remove_backlink"},
         LinkedOnce', \A u, v \in Actor : HasLink(u, v)' <=> HasLink(u, v),
         exit_reason_' = exit_reason_,
         \A u \in Actor : open'[u] => open[u],
         CallsInv,
         \A u, v \in Actor : u # v /\ open'[u] /\ (HasLink(u, v) \/ Attaching(u, v)) /\ WillHear(u, v)
            => WillHear(u, v)'
  PROVE  LinksInv'
<1>1. Mutual'
  <2> SUFFICES ASSUME NEW u \in Actor, NEW v \in Actor, u # v,
                      HasLink(u, v)' \/ Attaching(u, v)'
               PROVE  \/ HasLink(v, u)'
                      \/ OtherSideFollows(u, v)'
                      \/ exited(v)' /\ (open'[u] => WillHear(u, v)')
    BY DEF Mutual
  <2>1. HasLink(u, v) \/ Attaching(u, v)
    BY CallsFrame
  <2>2. \/ HasLink(v, u) \/ OtherSideFollows(u, v)
        \/ exited(v) /\ (open[u] => WillHear(u, v))
    BY <2>1 DEF LinksInv, Mutual
  <2>3. HasLink(v, u)' <=> HasLink(v, u)
    OBVIOUS
  <2>4. OtherSideFollows(u, v)' <=> OtherSideFollows(u, v)
    BY CallsFrame
  <2>5. exited(v)' <=> exited(v)
    BY DEF exited
  <2> QED BY <2>1, <2>2, <2>3, <2>4, <2>5
<1>2. OwnLinkAbsent'
  <2> SUFFICES ASSUME NEW w \in Thread, pc'[w] \in {"attach", "remove_backlink"}
               PROVE  ~ Contains(attachables'[self'[w]], make_link(other'[w]))
    BY DEF OwnLinkAbsent, HasLink
  <2>1. w # t /\ pc[w] = pc'[w] /\ self'[w] = self[w] /\ other'[w] = other[w]
    BY DEF OthersStay
  <2>2. self[w] \in Actor /\ other[w] \in Actor
    BY <2>1 DEF CallsInv, Holding
  <2>3. PICK u \in Actor, v \in Actor : u = self[w] /\ v = other[w]
    BY <2>2
  <2>4. ~ HasLink(u, v)
    BY <2>1, <2>3 DEF LinksInv, OwnLinkAbsent
  <2>5. ~ HasLink(u, v)'
    BY <2>4
  <2> QED BY <2>1, <2>3, <2>5 DEF HasLink
<1> QED BY <1>1, <1>2 DEF LinksInv

(* Nobody hears less of the end of others if mail is kept.                 *)
LEMMA HearsFrame ==
  ASSUME NEW t \in Thread, OthersStay(t), pc[t] # "unlink",
         NEW u \in Actor, NEW v \in Actor,
         Contains(todo[v], make_link(u)) => Contains(todo'[v], make_link(u)),
         Informed(mailbox[u], v) => Informed(mailbox'[u], v), WillHear(u, v)
  PROVE  WillHear(u, v)'
<1>1. u \in Thread
  BY DEF Thread
<1>2. pc[u] = "unlink" => pc'[u] = pc[u] /\ other'[u] = other[u]
  BY <1>1 DEF OthersStay
<1> QED BY <1>2, WillHearIs

(* A free mutex: nobody works on behalf of the actor.                      *)
LEMMA NobodyHolds ==
  ASSUME LocksInv, NEW x \in Actor, Free(x), NEW w \in Thread, pc[w] \in Holding
  PROVE  self[w] # x
<1>1. w # None
  BY LinksAssumption DEF LinksAssumption, Thread
<1> QED BY <1>1 DEF LocksInv, Free

(* Mutual exclusion.                                                       *)
LEMMA OneHolds ==
  ASSUME LocksInv, CallsInv, NEW t \in Thread, NEW w \in Thread,
         pc[t] \in Holding, pc[w] \in Holding, self[t] = self[w]
  PROVE  t = w
<1>1. self[t] \in Actor
  BY DEF CallsInv
<1> QED BY <1>1 DEF LocksInv

(* The two actors of a call that is under way.                             *)
LEMMA CallParties ==
  ASSUME CallsInv, NEW t \in Thread, pc[t] \in Holding \cup {"link"}
  PROVE  self[t] \in Actor /\ other[t] \in Actor /\ other[t] # self[t]
  BY DEF CallsInv

(* establish_backlink adds the link of the other side, whose mutex it      *)
(* takes: no link of this side can exist, since it would be one-sided.     *)
LEMMA BacklinkAddedInv ==
  ASSUME CtrlOK, DataOK, CallsInv, LocksInv, LinksInv,
         NEW t \in Thread, NEW x \in Actor, NEW y \in Actor,
         x = self[t], y = other[t], x # y,
         pc[t] = "backlink", Free(y), ~ exited(y), ~ HasLink(y, x),
         attachables' = [attachables EXCEPT ![y] = <<make_link(x)>> \o attachables[y]],
         pc' = [pc EXCEPT ![t] = "attach"],
         UNCHANGED <<self, other, todo, mailbox, open, exit_reason_>>
  PROVE  LinksInv'
<1>1. /\ LinkedOnce'
      /\ \A u, v \in Actor : HasLink(u, v)' <=> HasLink(u, v) \/ (u = y /\ v = x)
  BY LinkAdded DEF LinksInv
<1>2. OthersStay(t) /\ pc'[t] = "attach" /\ self'[t] = x /\ other'[t] = y
  BY DEF OthersStay, CtrlOK
<1>3. ~ HasLink(x, y)
  <2>1. ~ OtherSideFollows(x, y)
    BY NobodyHolds DEF OtherSideFollows, Holding
  <2> QED BY <2>1 DEF LinksInv, Mutual
<1>4. Mutual'
  <2> SUFFICES ASSUME NEW u \in Actor, NEW v \in Actor, u # v,
                      HasLink(u, v)' \/ Attaching(u, v)'
               PROVE  \/ HasLink(v, u)'
                      \/ OtherSideFollows(u, v)'
                      \/ exited(v)' /\ (open'[u] => WillHear(u, v)')
    BY DEF Mutual
  <2>1. CASE u = y /\ v = x
    <3>1. OtherSideFollows(u, v)'
      BY <1>2, <2>1 DEF OtherSideFollows
    <3> QED BY <3>1
  <2>2. CASE u = x /\ v = y
    BY <1>1, <2>2
  <2>3. CASE ~ (u = y /\ v = x) /\ ~ (u = x /\ v = y)
    <3>1. HasLink(u, v) \/ Attaching(u, v)
      <4>1. Attaching(u, v)' => Attaching(u, v)
        BY <1>2, <2>3 DEF Attaching, OthersStay
      <4> QED BY <1>1, <2>3, <4>1
    <3>2. \/ HasLink(v, u) \/ OtherSideFollows(u, v)
          \/ exited(v) /\ (open[u] => WillHear(u, v))
      BY <3>1 DEF LinksInv, Mutual
    <3>3. HasLink(v, u) => HasLink(v, u)'
      BY <1>1
    <3>4. OtherSideFollows(u, v) => OtherSideFollows(u, v)'
      BY <1>2 DEF OtherSideFollows, OthersStay
    <3>5. exited(v)' <=> exited(v)
      BY DEF exited
    <3>6. WillHear(u, v) => WillHear(u, v)'
      BY <1>2, HearsFrame
    <3> QED BY <3>2, <3>3, <3>4, <3>5, <3>6
  <2> QED BY <2>1, <2>2, <2>3
<1>5. OwnLinkAbsent'
  <2> SUFFICES ASSUME NEW w \in Thread, pc'[w] \in {"attach", "remove_backlink"}
               PROVE  ~ Contains(attachables'[self'[w]], make_link(other'[w]))
    BY DEF OwnLinkAbsent, HasLink
  <2>1. CASE w = t
    BY <1>1, <1>2, <1>3, <2>1 DEF HasLink
  <2>2. CASE w # t
    <3>1. pc[w] = pc'[w] /\ self'[w] = self[w] /\ other'[w] = other[w]
      BY <1>2, <2>2 DEF OthersStay
    <3>2. self[w] \in Actor /\ other[w] \in Actor /\ self[w] # y
      BY <3>1, CallParties, NobodyHolds DEF Holding
    <3>3. PICK a \in Actor, b \in Actor : a = self[w] /\ b = other[w]
      BY <3>2
    <3>4. ~ HasLink(a, b)
      BY <3>1, <3>3 DEF LinksInv, OwnLinkAbsent
    <3>5. ~ HasLink(a, b)'
      BY <1>1, <3>2, <3>3, <3>4
    <3> QED BY <3>1, <3>3, <3>5 DEF HasLink
  <2> QED BY <2>1, <2>2
<1> QED BY <1>1, <1>4, <1>5 DEF LinksInv

(* establish_link adds its own link: what held of the link under           *)
(* construction holds of the link.                                         *)
LEMMA LinkAttachedInv ==
  ASSUME CtrlOK, DataOK, CallsInv, LocksInv, LinksInv,
         NEW t \in Thread, NEW x \in Actor, NEW y \in Actor,
         x = self[t], y = other[t], x # y, pc[t] = "attach", ~ HasLink(x, y),
         attachables' = [attachables EXCEPT ![x] = <<make_link(y)>> \o attachables[x]],
         OthersStay(t), pc'[t] = "idle",
         UNCHANGED <<todo, mailbox, open, exit_reason_>>
  PROVE  LinksInv'
<1>1. LinkedOnce
  BY DEF LinksInv
<1>2. /\ LinkedOnce'
      /\ \A u, v \in Actor : HasLink(u, v)' <=> HasLink(u, v) \/ (u = x /\ v = y)
  BY <1>1, LinkAdded DEF LinkedOnce
<1>3. Mutual'
  <2> SUFFICES ASSUME NEW u \in Actor, NEW v \in Actor, u # v,
                      HasLink(u, v)' \/ Attaching(u, v)'
               PROVE  \/ HasLink(v, u)'
                      \/ OtherSideFollows(u, v)'
                      \/ exited(v)' /\ (open'[u] => WillHear(u, v)')
    BY DEF Mutual
  <2>1. HasLink(u, v) \/ Attaching(u, v)
    <3>1. Attaching(u, v)' => Attaching(u, v)
      BY DEF Attaching, OthersStay
    <3>2. Attaching(x, y)
      BY DEF Attaching
    <3> QED BY <1>2, <3>1, <3>2
  <2>2. \/ HasLink(v, u) \/ OtherSideFollows(u, v)
        \/ exited(v) /\ (open[u] => WillHear(u, v))
    BY <2>1 DEF LinksInv, Mutual
  <2>3. HasLink(v, u) => HasLink(v, u)'
    BY <1>2
  <2>4. OtherSideFollows(u, v) => OtherSideFollows(u, v)' \/ HasLink(v, u)'
    <3>1. CASE u = y /\ v = x
      BY <1>2, <3>1
    <3>2. CASE ~ (u = y /\ v = x)
      BY <3>2 DEF OtherSideFollows, OthersStay
    <3> QED BY <3>1, <3>2
  <2>5. exited(v)' <=> exited(v)
    BY DEF exited
  <2>6. WillHear(u, v) => WillHear(u, v)'
    BY HearsFrame
  <2> QED BY <2>2, <2>3, <2>4, <2>5, <2>6
<1>4. OwnLinkAbsent'
  <2> SUFFICES ASSUME NEW w \in Thread, pc'[w] \in {"attach", "remove_backlink"}
               PROVE  ~ Contains(attachables'[self'[w]], make_link(other'[w]))
    BY DEF OwnLinkAbsent, HasLink
  <2>1. w # t /\ pc[w] = pc'[w] /\ self'[w] = self[w] /\ other'[w] = other[w]
    BY DEF OthersStay
  <2>2. self[w] \in Actor /\ other[w] \in Actor /\ self[w] # x
    BY <2>1, CallParties, OneHolds DEF Holding
  <2>3. PICK a \in Actor, b \in Actor : a = self[w] /\ b = other[w]
    BY <2>2
  <2>4. ~ HasLink(a, b)
    BY <2>1, <2>3 DEF LinksInv, OwnLinkAbsent
  <2>5. ~ HasLink(a, b)'
    BY <1>2, <2>2, <2>3, <2>4
  <2> QED BY <2>1, <2>3, <2>5 DEF HasLink
<1> QED BY <1>2, <1>3, <1>4 DEF LinksInv

(* remove_link takes its own link away and has yet to tell the other side. *)
LEMMA LinkRemovedInv ==
  ASSUME CtrlOK, DataOK, CallsInv, LocksInv, LinksInv,
         NEW t \in Thread, NEW x \in Actor, NEW y \in Actor,
         x = self[t], y = other[t], x # y, pc[t] = "unlink", Free(x),
         attachables' = [attachables EXCEPT ![x] = RemoveFirst(attachables[x], make_link(y))],
         pc' = [pc EXCEPT ![t] = "remove_backlink"],
         UNCHANGED <<self, other, todo, mailbox, open, exit_reason_>>
  PROVE  LinksInv'
<1>1. /\ LinkedOnce'
      /\ \A u, v \in Actor : HasLink(u, v)' <=> HasLink(u, v) /\ ~ (u = x /\ v = y)
  BY LinkRemoved DEF LinksInv
<1>2. OthersStay(t) /\ pc'[t] = "remove_backlink" /\ self'[t] = x /\ other'[t] = y
  BY DEF OthersStay, CtrlOK
<1>3. Mutual'
  <2> SUFFICES ASSUME NEW u \in Actor, NEW v \in Actor, u # v,
                      HasLink(u, v)' \/ Attaching(u, v)'
               PROVE  \/ HasLink(v, u)'
                      \/ OtherSideFollows(u, v)'
                      \/ exited(v)' /\ (open'[u] => WillHear(u, v)')
    BY DEF Mutual
  <2>1. Attaching(u, v)' => Attaching(u, v) /\ u # x
    BY <1>2, NobodyHolds DEF Attaching, OthersStay, Holding
  <2>2. (HasLink(u, v) \/ Attaching(u, v)) /\ ~ (u = x /\ v = y)
    BY <1>1, <2>1
  <2>3. \/ HasLink(v, u) \/ OtherSideFollows(u, v)
        \/ exited(v) /\ (open[u] => WillHear(u, v))
    BY <2>2 DEF LinksInv, Mutual
  <2>4. HasLink(v, u) => HasLink(v, u)' \/ OtherSideFollows(u, v)'
    BY <1>1, <1>2 DEF OtherSideFollows
  <2>5. OtherSideFollows(u, v) => OtherSideFollows(u, v)'
    BY <1>2 DEF OtherSideFollows, OthersStay
  <2>6. exited(v)' <=> exited(v)
    BY DEF exited
  <2>7. WillHear(u, v) => WillHear(u, v)'
    <3>1. pc[u] = "unlink" /\ other[u] = v => u # t
      BY <2>2 DEF CallsInv
    <3>2. u # t => pc'[u] = pc[u] /\ other'[u] = other[u]
      BY <1>2 DEF OthersStay, Thread
    <3> QED BY <3>1, <3>2, WillHearIs
  <2> QED BY <2>3, <2>4, <2>5, <2>6, <2>7
<1>4. OwnLinkAbsent'
  <2> SUFFICES ASSUME NEW w \in Thread, pc'[w] \in {"attach", "remove_backlink"}
               PROVE  ~ Contains(attachables'[self'[w]], make_link(other'[w]))
    BY DEF OwnLinkAbsent, HasLink
  <2>1. CASE w = t
    BY <1>1, <1>2, <2>1 DEF HasLink
  <2>2. CASE w # t
    <3>1. pc[w] = pc'[w] /\ self'[w] = self[w] /\ other'[w] = other[w]
      BY <1>2, <2>2 DEF OthersStay
    <3>2. PICK a \in Actor, b \in Actor : a = self[w] /\ b = other[w]
      BY <3>1, CallParties DEF Holding
    <3>3. ~ HasLink(a, b)
      BY <3>1, <3>2 DEF LinksInv, OwnLinkAbsent
    <3>4. ~ HasLink(a, b)'
      BY <1>1, <3>3
    <3> QED BY <3>1, <3>2, <3>4 DEF HasLink
  <2> QED BY <2>1, <2>2
<1> QED BY <1>1, <1>3, <1>4 DEF LinksInv

(* remove_backlink takes the link of the other side away.                  *)
LEMMA BacklinkRemovedInv ==
  ASSUME CtrlOK, DataOK, CallsInv, LocksInv, LinksInv,
         NEW t \in Thread, NEW x \in Actor, NEW y \in Actor,
         x = self[t], y = other[t], x # y, pc[t] = "remove_backlink", Free(y),
         attachables' = [attachables EXCEPT ![y] = RemoveFirst(attachables[y], make_link(x))],
         OthersStay(t), pc'[t] = "idle",
         UNCHANGED <<todo, mailbox, open, exit_reason_>>
  PROVE  LinksInv'
<1>1. /\ LinkedOnce'
      /\ \A u, v \in Actor : HasLink(u, v)' <=> HasLink(u, v) /\ ~ (u = y /\ v = x)
  BY LinkRemoved DEF LinksInv
<1>2. ~ HasLink(x, y) /\ ~ Attaching(x, y) /\ ~ Attaching(y, x)
  <2>1. ~ HasLink(x, y)
    BY DEF LinksInv, OwnLinkAbsent
  <2>2. ~ Attaching(x, y)
    BY OneHolds DEF Attaching, Holding
  <2>3. ~ Attaching(y, x)
    BY NobodyHolds DEF Attaching, Holding
  <2> QED BY <2>1, <2>2, <2>3
<1>3. Mutual'
  <2> SUFFICES ASSUME NEW u \in Actor, NEW v \in Actor, u # v,
                      HasLink(u, v)' \/ Attaching(u, v)'
               PROVE  \/ HasLink(v, u)'
                      \/ OtherSideFollows(u, v)'
                      \/ exited(v)' /\ (open'[u] => WillHear(u, v)')
    BY DEF Mutual
  <2>1. Attaching(u, v)' => Attaching(u, v)
    BY DEF Attaching, OthersStay
  <2>2. (HasLink(u, v) \/ Attaching(u, v)) /\ ~ (u = y /\ v = x) /\ ~ (u = x /\ v = y)
    BY <1>1, <1>2, <2>1
  <2>3. \/ HasLink(v, u) \/ OtherSideFollows(u, v)
        \/ exited(v) /\ (open[u] => WillHear(u, v))
    BY <2>2 DEF LinksInv, Mutual
  <2>4. HasLink(v, u) => HasLink(v, u)'
    BY <1>1, <2>2
  <2>5. OtherSideFollows(u, v) => OtherSideFollows(u, v)'
    BY <2>2 DEF OtherSideFollows, OthersStay
  <2>6. exited(v)' <=> exited(v)
    BY DEF exited
  <2>7. WillHear(u, v) => WillHear(u, v)'
    BY HearsFrame
  <2> QED BY <2>3, <2>4, <2>5, <2>6, <2>7
<1>4. OwnLinkAbsent'
  <2> SUFFICES ASSUME NEW w \in Thread, pc'[w] \in {"attach", "remove_backlink"}
               PROVE  ~ Contains(attachables'[self'[w]], make_link(other'[w]))
    BY DEF OwnLinkAbsent, HasLink
  <2>1. w # t /\ pc[w] = pc'[w] /\ self'[w] = self[w] /\ other'[w] = other[w]
    BY DEF OthersStay
  <2>2. PICK a \in Actor, b \in Actor : a = self[w] /\ b = other[w]
    BY <2>1, CallParties DEF Holding
  <2>3. ~ HasLink(a, b)
    BY <2>1, <2>2 DEF LinksInv, OwnLinkAbsent
  <2>4. ~ HasLink(a, b)'
    BY <1>1, <2>3
  <2> QED BY <2>1, <2>2, <2>4 DEF HasLink
<1> QED BY <1>1, <1>3, <1>4 DEF LinksInv

(* cleanup takes the whole list: everybody who is linked will hear.        *)
LEMMA CleanupInv ==
  ASSUME CtrlOK, DataOK, CallsInv, LocksInv, EndsInv, LinksInv, NEW x \in Actor, Cleanup(x)
  PROVE  LinksInv'
<1>1. /\ pc[x] = "cleanup" /\ Free(x) /\ UNCHANGED <<mailbox, open, self, other>>
      /\ exit_reason_' = [exit_reason_ EXCEPT ![x] = planned[x]]
      /\ pc' = [pc EXCEPT ![x] = "notify"]
      /\ todo' = [todo EXCEPT ![x] = attachables[x]]
      /\ attachables' = [attachables EXCEPT ![x] = <<>>]
  BY DEF Cleanup, Goto
<1>2. /\ x \in Thread /\ OthersStay(x) /\ pc'[x] = "notify"
      /\ todo'[x] = attachables[x] /\ attachables'[x] = <<>>
      /\ \A u \in Actor \ {x} : /\ todo'[u] = todo[u] /\ attachables'[u] = attachables[u]
                                /\ exit_reason_'[u] = exit_reason_[u]
  BY <1>1 DEF OthersStay, CtrlOK, DataOK, Thread
<1>3. ~ exited(x) /\ exited(x)'
  BY <1>1 DEF EndsInv, CtrlOK, exited, Reasons
<1>4. \A u, v \in Actor : HasLink(u, v)' <=> HasLink(u, v) /\ u # x
  BY <1>2, EmptyList DEF HasLink
<1>5. LinkedOnce'
  <2> SUFFICES ASSUME NEW u \in Actor, NEW v \in Actor
               PROVE  Once(attachables'[u], make_link(v))
    BY DEF LinkedOnce
  <2>1. CASE u = x
    BY <1>2, <2>1 DEF Once
  <2>2. CASE u # x
    BY <1>2, <2>2 DEF LinksInv, LinkedOnce
  <2> QED BY <2>1, <2>2
<1>6. \A v : ~ Attaching(x, v)
  BY <1>1, NobodyHolds DEF Attaching, Holding
<1>7. ASSUME NEW u, NEW v
      PROVE  /\ Attaching(u, v)' <=> Attaching(u, v)
             /\ OtherSideFollows(u, v)' <=> OtherSideFollows(u, v)
  BY <1>1, <1>2, CallsFrame
<1>8. Mutual'
  <2> SUFFICES ASSUME NEW u \in Actor, NEW v \in Actor, u # v,
                      HasLink(u, v)' \/ Attaching(u, v)'
               PROVE  \/ HasLink(v, u)'
                      \/ OtherSideFollows(u, v)'
                      \/ exited(v)' /\ (open'[u] => WillHear(u, v)')
    BY DEF Mutual
  <2>1. (HasLink(u, v) \/ Attaching(u, v)) /\ u # x
    BY <1>4, <1>6, <1>7
  <2>2. \/ HasLink(v, u) \/ OtherSideFollows(u, v)
        \/ exited(v) /\ (open[u] => WillHear(u, v))
    BY <2>1 DEF LinksInv, Mutual
  <2>3. CASE v = x
    <3>1. HasLink(x, u) => WillHear(u, x)'
      BY <1>2, WillHearIs DEF HasLink
    <3> QED BY <1>3, <1>7, <2>2, <2>3, <3>1
  <2>4. CASE v # x
    <3>1. HasLink(v, u) => HasLink(v, u)'
      BY <1>4, <2>4
    <3>2. exited(v)' <=> exited(v)
      BY <1>2, <2>4 DEF exited
    <3>3. WillHear(u, v) => WillHear(u, v)'
      BY <1>1, <1>2, <2>4, HearsFrame
    <3> QED BY <1>1, <1>7, <2>2, <3>1, <3>2, <3>3
  <2> QED BY <2>3, <2>4
<1>9. OwnLinkAbsent'
  <2> SUFFICES ASSUME NEW w \in Thread, pc'[w] \in {"attach", "remove_backlink"}
               PROVE  ~ Contains(attachables'[self'[w]], make_link(other'[w]))
    BY DEF OwnLinkAbsent, HasLink
  <2>1. pc[w] = pc'[w] /\ self'[w] = self[w] /\ other'[w] = other[w]
    BY <1>1, <1>2 DEF OthersStay
  <2>2. PICK a \in Actor, b \in Actor : a = self[w] /\ b = other[w]
    BY <2>1, CallParties DEF Holding
  <2>3. ~ HasLink(a, b)
    BY <2>1, <2>2 DEF LinksInv, OwnLinkAbsent
  <2>4. ~ HasLink(a, b)'
    BY <1>4, <2>3
  <2> QED BY <2>1, <2>2, <2>4 DEF HasLink
<1> QED BY <1>5, <1>8, <1>9 DEF LinksInv

(* Every step keeps links bidirectional.                                   *)
LEMMA LinksInvPreserved ==
  ASSUME CtrlOK, DataOK, CallsInv, LocksInv, EndsInv, LinksInv, [Next]_vars
  PROVE  LinksInv'
<1> USE LinksAssumption DEF LinksAssumption
<1>1. CASE UNCHANGED vars
  BY <1>1
  DEF vars, callVars, LinksInv, Mutual, LinkedOnce, OwnLinkAbsent, HasLink, Attaching,
      OtherSideFollows, WillHear, exited
<1>2. ASSUME NEW t \in Thread, NEW x \in Actor, NEW y \in Actor, LinkTo(t, x, y)
      PROVE  LinksInv'
  <2>1. OthersStay(t) /\ pc[t] = "idle" /\ pc'[t] \notin {"attach", "remove_backlink"}
    BY <1>2 DEF OthersStay, CtrlOK, LinkTo, Enter, UserCalls
  <2>2. /\ attachables' = attachables /\ todo' = todo /\ exit_reason_' = exit_reason_
        /\ open' = open
    BY <1>2 DEF LinkTo
  <2>3. LinkedOnce' /\ \A u, v \in Actor : HasLink(u, v)' <=> HasLink(u, v)
    BY <2>2 DEF LinksInv, LinkedOnce, HasLink
  <2>4. mailbox' = mailbox
    BY <1>2 DEF LinkTo
  <2>5. \A u, v \in Actor : WillHear(u, v) => WillHear(u, v)'
    BY <2>1, <2>2, <2>4, HearsFrame
  <2> QED BY <2>1, <2>2, <2>3, <2>5, QuietStep
<1>3. ASSUME NEW t \in Thread, EstablishLink(t)
      PROVE  LinksInv'
  <2>0. self[t] \in Actor /\ other[t] \in Actor
    BY <1>3, CallParties DEF EstablishLink
  <2>1. OthersStay(t) /\ pc[t] = "link" /\ pc'[t] \notin {"attach", "remove_backlink"}
    BY <1>3 DEF OthersStay, CtrlOK, EstablishLink, Goto, Return
  <2>2. /\ attachables' = attachables /\ todo' = todo /\ exit_reason_' = exit_reason_
        /\ open' = open
    BY <1>3 DEF EstablishLink
  <2>3. LinkedOnce' /\ \A u, v \in Actor : HasLink(u, v)' <=> HasLink(u, v)
    BY <2>2 DEF LinksInv, LinkedOnce, HasLink
  <2>4. \A u \in Actor : \A v : Informed(mailbox[u], v) => Informed(mailbox'[u], v)
    <3>1. CASE exited(self[t])
      <4>1. Post(other[t], exit_msg(self[t])) /\ exit_msg(self[t]) \in Letter
        BY <1>3, <2>0, <3>1, LastLetter DEF EstablishLink, exit_msg
      <4> QED BY <2>0, <4>1, PostInforms
    <3>2. CASE ~ exited(self[t])
      BY <1>3, <3>2 DEF EstablishLink
    <3> QED BY <3>1, <3>2
  <2>5. \A u, v \in Actor : WillHear(u, v) => WillHear(u, v)'
    BY <2>1, <2>2, <2>4, HearsFrame
  <2> QED BY <2>1, <2>2, <2>3, <2>5, QuietStep
<1>4. ASSUME NEW t \in Thread, EstablishBacklink(t)
      PROVE  LinksInv'
  <2>0. self[t] \in Actor /\ other[t] \in Actor /\ other[t] # self[t]
    BY <1>4, CallParties DEF EstablishBacklink, Holding
  <2>1. CASE exited(other[t]) \/ AlreadyLinked(other[t], self[t])
    <3>1. OthersStay(t) /\ pc[t] = "backlink" /\ pc'[t] \notin {"attach", "remove_backlink"}
      BY <1>4, <2>1 DEF OthersStay, CtrlOK, EstablishBacklink, Goto, Return
    <3>2. /\ attachables' = attachables /\ todo' = todo /\ exit_reason_' = exit_reason_
          /\ open' = open /\ mailbox' = mailbox
      BY <1>4, <2>1 DEF EstablishBacklink
    <3>3. LinkedOnce' /\ \A u, v \in Actor : HasLink(u, v)' <=> HasLink(u, v)
      BY <3>2 DEF LinksInv, LinkedOnce, HasLink
    <3>4. \A u, v \in Actor : WillHear(u, v) => WillHear(u, v)'
      BY <3>1, <3>2, HearsFrame
    <3> QED BY <3>1, <3>2, <3>3, <3>4, QuietStep
  <2>2. CASE ~ (exited(other[t]) \/ AlreadyLinked(other[t], self[t]))
    <3>1. PICK x \in Actor, y \in Actor : x = self[t] /\ y = other[t]
      BY <2>0
    <3>2. /\ pc[t] = "backlink" /\ Free(y) /\ ~ exited(y) /\ ~ HasLink(y, x)
          /\ attachables' = [attachables EXCEPT ![y] = <<make_link(x)>> \o attachables[y]]
          /\ pc' = [pc EXCEPT ![t] = "attach"]
          /\ UNCHANGED <<self, other, todo, mailbox, open, exit_reason_>>
      BY <1>4, <2>2, <3>1 DEF EstablishBacklink, AlreadyLinked, Goto
    <3> QED BY <2>0, <3>1, <3>2, BacklinkAddedInv
  <2> QED BY <2>1, <2>2
<1>5. ASSUME NEW t \in Thread, RefuseBacklink(t)
      PROVE  LinksInv'
  <2>0. self[t] \in Actor /\ other[t] \in Actor
    BY <1>5, CallParties DEF RefuseBacklink, Holding
  <2>1. OthersStay(t) /\ pc[t] = "refuse" /\ pc'[t] \notin {"attach", "remove_backlink"}
    BY <1>5 DEF OthersStay, CtrlOK, RefuseBacklink, Return
  <2>2. /\ attachables' = attachables /\ todo' = todo /\ exit_reason_' = exit_reason_
        /\ open' = open
    BY <1>5 DEF RefuseBacklink
  <2>3. LinkedOnce' /\ \A u, v \in Actor : HasLink(u, v)' <=> HasLink(u, v)
    BY <2>2 DEF LinksInv, LinkedOnce, HasLink
  <2>4. \A u \in Actor : \A v : Informed(mailbox[u], v) => Informed(mailbox'[u], v)
    <3>1. Post(self[t], exit_msg(other[t])) /\ exit_msg(other[t]) \in Letter
      BY <1>5, <2>0, LastLetter DEF RefuseBacklink, LocksInv, exit_msg
    <3> QED BY <2>0, <3>1, PostInforms
  <2>5. \A u, v \in Actor : WillHear(u, v) => WillHear(u, v)'
    BY <2>1, <2>2, <2>4, HearsFrame
  <2> QED BY <2>1, <2>2, <2>3, <2>5, QuietStep
<1>6. ASSUME NEW t \in Thread, AttachLink(t)
      PROVE  LinksInv'
  <2>1. PICK x \in Actor, y \in Actor : x = self[t] /\ y = other[t] /\ x # y
    BY <1>6, CallParties DEF AttachLink, Holding
  <2>2. /\ pc[t] = "attach" /\ OthersStay(t) /\ pc'[t] = "idle"
        /\ attachables' = [attachables EXCEPT ![x] = <<make_link(y)>> \o attachables[x]]
        /\ UNCHANGED <<todo, mailbox, open, exit_reason_>>
    BY <1>6, <2>1 DEF AttachLink, Return, OthersStay, CtrlOK
  <2>3. ~ HasLink(x, y)
    BY <2>1, <2>2 DEF LinksInv, OwnLinkAbsent
  <2> QED BY <2>1, <2>2, <2>3, LinkAttachedInv
<1>7. ASSUME NEW t \in Thread, NEW x \in Actor, NEW y \in Actor, UnlinkFrom(t, x, y)
      PROVE  LinksInv'
  <2>1. OthersStay(t) /\ pc[t] = "idle" /\ pc'[t] \notin {"attach", "remove_backlink"}
    BY <1>7 DEF OthersStay, CtrlOK, UnlinkFrom, Enter, UserCalls
  <2>2. /\ attachables' = attachables /\ todo' = todo /\ exit_reason_' = exit_reason_
        /\ open' = open
    BY <1>7 DEF UnlinkFrom
  <2>3. LinkedOnce' /\ \A u, v \in Actor : HasLink(u, v)' <=> HasLink(u, v)
    BY <2>2 DEF LinksInv, LinkedOnce, HasLink
  <2>4. mailbox' = mailbox
    BY <1>7 DEF UnlinkFrom
  <2>5. \A u, v \in Actor : WillHear(u, v) => WillHear(u, v)'
    BY <2>1, <2>2, <2>4, HearsFrame
  <2> QED BY <2>1, <2>2, <2>3, <2>5, QuietStep
<1>8. ASSUME NEW t \in Thread, RemoveLink(t)
      PROVE  LinksInv'
  <2>1. CASE other[t] \in {None, self[t]} \/ ~ HasLink(self[t], other[t])
    <3>1. OthersStay(t) /\ pc[t] = "unlink" /\ pc'[t] \notin {"attach", "remove_backlink"}
      BY <1>8, <2>1 DEF OthersStay, CtrlOK, RemoveLink, Return
    <3>2. /\ attachables' = attachables /\ todo' = todo /\ exit_reason_' = exit_reason_
          /\ open' = open /\ mailbox' = mailbox
      BY <1>8, <2>1 DEF RemoveLink
    <3>3. LinkedOnce' /\ \A u, v \in Actor : HasLink(u, v)' <=> HasLink(u, v)
      BY <3>2 DEF LinksInv, LinkedOnce, HasLink
    <3>4. ASSUME NEW u \in Actor, NEW v \in Actor, u # v,
                 HasLink(u, v) \/ Attaching(u, v), WillHear(u, v)
          PROVE  WillHear(u, v)'
      <4>1. pc[u] = "unlink" /\ other[u] = v => u # t
        <5> SUFFICES ASSUME u = t, other[u] = v PROVE FALSE
          OBVIOUS
        <5>1. self[t] = u /\ other[t] = v
          BY <3>1 DEF CallsInv
        <5>2. v # None
          OBVIOUS
        <5>3. ~ HasLink(u, v) /\ Free(u)
          BY <1>8, <2>1, <3>4, <5>1, <5>2 DEF RemoveLink
        <5>4. ~ Attaching(u, v)
          BY <5>3, NobodyHolds DEF Attaching, Holding
        <5> QED BY <3>4, <5>3, <5>4
      <4>2. u # t => pc'[u] = pc[u] /\ other'[u] = other[u]
        BY <3>1 DEF OthersStay, Thread
      <4> QED BY <3>2, <3>4, <4>1, <4>2, WillHearIs
    <3> QED BY <3>1, <3>2, <3>3, <3>4, QuietStep
  <2>2. CASE ~ (other[t] \in {None, self[t]} \/ ~ HasLink(self[t], other[t]))
    <3>1. PICK x \in Actor, y \in Actor : x = self[t] /\ y = other[t] /\ x # y
      <4>1. self[t] \in Actor /\ other[t] \in Actor /\ self[t] # other[t]
        BY <1>8, <2>2 DEF RemoveLink, CallsInv, CtrlOK
      <4> QED BY <4>1
    <3>2. /\ pc[t] = "unlink" /\ Free(x)
          /\ attachables' = [attachables EXCEPT ![x] = RemoveFirst(attachables[x], make_link(y))]
          /\ pc' = [pc EXCEPT ![t] = "remove_backlink"]
          /\ UNCHANGED <<self, other, todo, mailbox, open, exit_reason_>>
      BY <1>8, <2>2, <3>1 DEF RemoveLink, Lock, Free, Goto
    <3> QED BY <3>1, <3>2, LinkRemovedInv
  <2> QED BY <2>1, <2>2
<1>9. ASSUME NEW t \in Thread, RemoveBacklink(t)
      PROVE  LinksInv'
  <2>1. PICK x \in Actor, y \in Actor : x = self[t] /\ y = other[t] /\ x # y
    BY <1>9, CallParties DEF RemoveBacklink, Holding
  <2>2. /\ pc[t] = "remove_backlink" /\ OthersStay(t) /\ pc'[t] = "idle" /\ Free(y)
        /\ attachables' = [attachables EXCEPT ![y] = RemoveFirst(attachables[y], make_link(x))]
        /\ UNCHANGED <<todo, mailbox, open, exit_reason_>>
    BY <1>9, <2>1 DEF RemoveBacklink, BacklinkRemoved, Return, OthersStay, CtrlOK
  <2> QED BY <2>1, <2>2, BacklinkRemovedInv
<1>10. ASSUME NEW x \in Actor, NEW y \in Actor, Monitor(x, y)
      PROVE  LinksInv'
  <2>0. x \in Thread
    BY DEF Thread
  <2>1. OthersStay(x) /\ pc[x] = "idle" /\ pc'[x] \notin {"attach", "remove_backlink"}
    BY <1>10 DEF OthersStay, Monitor, UserCalls, callVars
  <2>2. todo' = todo /\ exit_reason_' = exit_reason_ /\ open' = open
    BY <1>10 DEF Monitor
  <2>3. LinkedOnce' /\ \A u, v \in Actor : HasLink(u, v)' <=> HasLink(u, v)
    <3>1. CASE attachables' = attachables
      BY <3>1 DEF LinksInv, LinkedOnce, HasLink
    <3>2. CASE attachables' = [attachables EXCEPT ![y] = <<make_monitor(x)>> \o attachables[y]]
      BY <3>2, LinksKept DEF LinksInv
    <3> QED BY <1>10, <3>1, <3>2 DEF Monitor
  <2>4. \A u \in Actor : \A v : Informed(mailbox[u], v) => Informed(mailbox'[u], v)
    <3>1. CASE RefusesAttach(y)
      <4> DEFINE m == [type |-> "down", source |-> y, reason |-> exit_reason_[y]]
      <4>1. Post(x, m) /\ m \in Letter
        BY <1>10, <3>1, LastLetter DEF Monitor, actor_exited, make_monitor, RefusesAttach
      <4> HIDE DEF m
      <4> QED BY <4>1, PostInforms
    <3>2. CASE ~ RefusesAttach(y)
      BY <1>10, <3>2 DEF Monitor
    <3> QED BY <3>1, <3>2
  <2>5. \A u, v \in Actor : WillHear(u, v) => WillHear(u, v)'
    BY <2>0, <2>1, <2>2, <2>4, HearsFrame
  <2> QED BY <2>0, <2>1, <2>2, <2>3, <2>5, QuietStep
<1>11. ASSUME NEW x \in Actor, NEW y \in Actor, Demonitor(x, y)
      PROVE  LinksInv'
  <2>0. x \in Thread
    BY DEF Thread
  <2>1. OthersStay(x) /\ pc[x] = "idle" /\ pc'[x] \notin {"attach", "remove_backlink"}
    BY <1>11 DEF OthersStay, Demonitor, UserCalls, callVars
  <2>2. /\ todo' = todo /\ exit_reason_' = exit_reason_ /\ open' = open /\ mailbox' = mailbox
        /\ attachables' = [attachables EXCEPT ![y] = detach(attachables[y], make_monitor(x))]
    BY <1>11 DEF Demonitor
  <2>3. LinkedOnce' /\ \A u, v \in Actor : HasLink(u, v)' <=> HasLink(u, v)
    BY <2>2, LinksKept DEF LinksInv
  <2>4. \A u, v \in Actor : WillHear(u, v) => WillHear(u, v)'
    BY <2>0, <2>1, <2>2, HearsFrame
  <2> QED BY <2>0, <2>1, <2>2, <2>3, <2>4, QuietStep
<1>12. ASSUME NEW t \in Thread, NEW x \in Actor, NEW r \in Reason, SendExit(t, x, r)
      PROVE  LinksInv'
  <2>1. OthersStay(t) /\ pc[t] = "idle" /\ pc'[t] \notin {"attach", "remove_backlink"}
    BY <1>12 DEF OthersStay, SendExit, UserCalls, callVars
  <2>2. /\ attachables' = attachables /\ todo' = todo /\ exit_reason_' = exit_reason_
        /\ open' = open
    BY <1>12 DEF SendExit
  <2>3. LinkedOnce' /\ \A u, v \in Actor : HasLink(u, v)' <=> HasLink(u, v)
    BY <2>2 DEF LinksInv, LinkedOnce, HasLink
  <2>4. \A u \in Actor : \A v : Informed(mailbox[u], v) => Informed(mailbox'[u], v)
    <3> DEFINE m == [type |-> "exit", source |-> IF t \in Actor THEN t ELSE None, reason |-> r]
    <3>1. m \in Letter /\ Post(x, m)
      BY <1>12 DEF SendExit, Letter
    <3> HIDE DEF m
    <3> QED BY <3>1, PostInforms
  <2>5. \A u, v \in Actor : WillHear(u, v) => WillHear(u, v)'
    BY <2>1, <2>2, <2>4, HearsFrame
  <2> QED BY <2>1, <2>2, <2>3, <2>5, QuietStep
<1>13. ASSUME NEW x \in Actor, NEW r \in Reason, Quit(x, r)
      PROVE  LinksInv'
  <2>0. x \in Thread
    BY DEF Thread
  <2>1. OthersStay(x) /\ pc[x] = "idle" /\ pc'[x] \notin {"attach", "remove_backlink"}
    BY <1>13 DEF OthersStay, CtrlOK, Quit, UserCalls, callVars
  <2>2. /\ attachables' = attachables /\ todo' = todo /\ exit_reason_' = exit_reason_
        /\ open' = open
    BY <1>13 DEF Quit
  <2>3. LinkedOnce' /\ \A u, v \in Actor : HasLink(u, v)' <=> HasLink(u, v)
    BY <2>2 DEF LinksInv, LinkedOnce, HasLink
  <2>4. mailbox' = mailbox
    BY <1>13 DEF Quit
  <2>5. \A u, v \in Actor : WillHear(u, v) => WillHear(u, v)'
    BY <2>0, <2>1, <2>2, <2>4, HearsFrame
  <2> QED BY <2>0, <2>1, <2>2, <2>3, <2>5, QuietStep
<1>14. ASSUME NEW x \in Actor, Receive(x)
      PROVE  LinksInv'
  <2>0. x \in Thread
    BY DEF Thread
  <2>1. OthersStay(x) /\ pc[x] = "idle" /\ pc'[x] \notin {"attach", "remove_backlink"}
    BY <1>14 DEF OthersStay, CtrlOK, Receive, Enter, callVars
  <2>2. /\ attachables' = attachables /\ todo' = todo /\ exit_reason_' = exit_reason_
        /\ open' = open
    BY <1>14 DEF Receive
  <2>3. LinkedOnce' /\ \A u, v \in Actor : HasLink(u, v)' <=> HasLink(u, v)
    BY <2>2 DEF LinksInv, LinkedOnce, HasLink
  <2>4. /\ mailbox[x] \in Seq(Letter) /\ mailbox[x] # <<>> /\ mailbox'[x] = Tail(mailbox[x])
        /\ \A u \in Actor \ {x} : mailbox'[u] = mailbox[u]
    BY <1>14 DEF Receive, DataOK
  <2>5. ASSUME NEW u \in Actor, NEW v \in Actor, WillHear(u, v)
        PROVE  WillHear(u, v)'
    <3>1. CASE u = x /\ Head(mailbox[x]).type = "exit" /\ Head(mailbox[x]).source = v
      <4>1. pc'[x] = "unlink" /\ other'[x] = v
        BY <1>14, <2>0, <3>1 DEF Receive, Enter, CtrlOK
      <4> QED BY <3>1, <4>1, WillHearIs
    <3>2. CASE ~ (u = x /\ Head(mailbox[x]).type = "exit" /\ Head(mailbox[x]).source = v)
      <4>1. Informed(mailbox[u], v) => Informed(mailbox'[u], v)
        BY <2>4, <3>2, TailInforms
      <4> QED BY <2>0, <2>1, <2>2, <2>5, <4>1, HearsFrame
    <3> QED BY <3>1, <3>2
  <2> QED BY <2>0, <2>1, <2>2, <2>3, <2>5, QuietStep
<1>15. ASSUME NEW x \in Actor, CloseMailbox(x)
      PROVE  LinksInv'
  <2>0. x \in Thread
    BY DEF Thread
  <2>1. OthersStay(x) /\ pc[x] = "idle" /\ pc'[x] \notin {"attach", "remove_backlink"}
    BY <1>15 DEF OthersStay, CtrlOK, CloseMailbox, Goto
  <2>2. /\ attachables' = attachables /\ todo' = todo /\ exit_reason_' = exit_reason_
        /\ \A u \in Actor : open'[u] => open[u] /\ mailbox'[u] = mailbox[u]
    BY <1>15 DEF CloseMailbox, DataOK, CtrlOK
  <2>3. LinkedOnce' /\ \A u, v \in Actor : HasLink(u, v)' <=> HasLink(u, v)
    BY <2>2 DEF LinksInv, LinkedOnce, HasLink
  <2>4. \A u, v \in Actor : open'[u] /\ WillHear(u, v) => WillHear(u, v)'
    BY <2>0, <2>1, <2>2, HearsFrame
  <2> QED BY <2>0, <2>1, <2>2, <2>3, <2>4, QuietStep
<1>16. ASSUME NEW x \in Actor, Cleanup(x)
      PROVE  LinksInv'
  BY <1>16, CleanupInv
<1>17. ASSUME NEW x \in Actor, Notify(x)
      PROVE  LinksInv'
  <2>0. x \in Thread
    BY DEF Thread
  <2>1. OthersStay(x) /\ pc[x] = "notify" /\ pc'[x] \notin {"attach", "remove_backlink"}
    BY <1>17 DEF OthersStay, Notify, callVars
  <2>2. /\ attachables' = attachables /\ exit_reason_' = exit_reason_ /\ open' = open
        /\ todo[x] # <<>> /\ exited(x)
        /\ todo'[x] = Tail(todo[x]) /\ \A v \in Actor \ {x} : todo'[v] = todo[v]
    BY <1>17 DEF Notify, RestOf, DataOK, EndsInv
  <2>3. LinkedOnce' /\ \A u, v \in Actor : HasLink(u, v)' <=> HasLink(u, v)
    BY <2>2 DEF LinksInv, LinkedOnce, HasLink
  <2>4. PICK a : a = Head(todo[x])
    OBVIOUS
  <2>5. todo[x] \in Seq(Attachable) /\ a.observer \in Actor
    BY <2>2, <2>4, HeadAttachable
  <2> DEFINE m == [type |-> IF a.type = "monitor" THEN "down" ELSE "exit",
                   source |-> x, reason |-> exit_reason_[x]]
  <2>6. Post(a.observer, m) /\ m \in Letter
    BY <1>17, <2>2, <2>4, LastLetter DEF Notify, actor_exited
  <2>7. /\ \A u \in Actor : \A v : Informed(mailbox[u], v) => Informed(mailbox'[u], v)
        /\ open[a.observer] /\ m.type = "exit" => Informed(mailbox'[a.observer], m.source)
    <3> HIDE DEF m
    <3> QED BY <2>5, <2>6, PostInforms
  <2>8. ASSUME NEW u \in Actor, NEW v \in Actor, open'[u], WillHear(u, v)
        PROVE  WillHear(u, v)'
    <3>1. CASE v = x /\ a = make_link(u)
      <4>1. Informed(mailbox'[u], v)
        BY <2>2, <2>7, <2>8, <3>1 DEF make_link
      <4> QED BY <4>1, WillHearIs
    <3>2. CASE ~ (v = x /\ a = make_link(u))
      <4>1. Contains(todo[v], make_link(u)) => Contains(todo'[v], make_link(u))
        BY <2>2, <2>4, <2>5, <3>2, TailFacts
      <4>2. Informed(mailbox[u], v) => Informed(mailbox'[u], v)
        BY <2>7
      <4> QED BY <2>0, <2>1, <2>8, <4>1, <4>2, HearsFrame
    <3> QED BY <3>1, <3>2
  <2> QED BY <2>0, <2>1, <2>2, <2>3, <2>8, QuietStep
<1> QED
  BY <1>1, <1>2, <1>3, <1>4, <1>5, <1>6, <1>7, <1>8, <1>9, <1>10, <1>11, <1>12, <1>13, <1>14,
     <1>15, <1>16, <1>17
  DEF Next, UserCode, Continue, Run

-----------------------------------------------------------------------------
(* The theorems.                                                           *)

(* The inductive invariant holds at the start.                             *)
LEMMA InitIInv == Init => IInv
<1> SUFFICES ASSUME Init PROVE IInv
  OBVIOUS
<1> USE LinksAssumption DEF LinksAssumption, Init
<1>1. TypeOK
  <2>1. <<>> \in Seq(Attachable) /\ <<>> \in Seq(Letter)
    OBVIOUS
  <2> QED BY <2>1 DEF TypeOK
<1>2. CallsInv /\ LocksInv /\ EndsInv
  BY DEF CallsInv, LocksInv, EndsInv, Holding, Thread, exited
<1>3. LinksInv
  <2>1. \A u, v \in Actor : ~ HasLink(u, v)
    BY EmptyList DEF HasLink
  <2>2. \A u, v \in Actor : ~ Attaching(u, v)
    BY DEF Attaching
  <2>3. LinkedOnce
    BY DEF LinkedOnce, Once
  <2> QED BY <2>1, <2>2, <2>3 DEF LinksInv, Mutual, OwnLinkAbsent
<1>4. LettersInv
  BY DEF LettersInv
<1>5. DownsAccounted
  BY EmptyList DEF DownsAccounted, exited
<1> QED BY <1>1, <1>2, <1>3, <1>4, <1>5 DEF IInv

(* Every step preserves the inductive invariant.                           *)
LEMMA NextIInv == IInv /\ [Next]_vars => IInv'
<1> SUFFICES ASSUME IInv, [Next]_vars PROVE IInv'
  OBVIOUS
<1>1. CtrlOK /\ DataOK /\ CallsInv /\ LocksInv /\ EndsInv /\ LinksInv /\ LettersInv
  BY TypeParts DEF IInv
<1>2. Accounted
  BY <1>1, AccountedIsDowns DEF IInv
<1>3. CallsInv' /\ LocksInv'
  BY <1>1, CallsInvPreserved, LocksInvPreserved
<1>4. EndsInv'
  BY <1>1, EndsInvPreserved DEF IInv
<1>5. CtrlOK'
  BY <1>1, CtrlOKPreserved
<1>6. DataOK' /\ Accounted'
  BY <1>1, <1>2, DataOKPreserved, AccountedPreserved
<1>7. LinksInv' /\ LettersInv'
  BY <1>1, LinksInvPreserved, LettersInvPreserved
<1>8. TypeOK'
  BY <1>5, <1>6 DEF TypeOK, CtrlOK, DataOK
<1>9. DownsAccounted'
  <2> SUFFICES ASSUME NEW x \in Actor, NEW y \in Actor, open'[x]
               PROVE  owed'[x][y] =
                        (IF exit_reason_'[y] # "not_exited" THEN 0
                         ELSE Count(attachables'[y], {make_monitor(x)}))
                        + Count(todo'[y], {make_monitor(x)})
                        + Count(mailbox'[x], DownFrom(y))
    BY DEF DownsAccounted, exited
  <2>1. owed'[x][y] = Count(attachables'[y], {make_monitor(x)})
                        + Count(todo'[y], {make_monitor(x)})
                        + Count(mailbox'[x], DownFrom(y))
    BY <1>6 DEF Accounted
  <2>2. exit_reason_'[y] # "not_exited" => Count(attachables'[y], {make_monitor(x)}) = 0
    BY <1>4, EmptyList DEF EndsInv, exited
  <2> QED BY <2>1, <2>2
<1> QED BY <1>3, <1>4, <1>7, <1>8, <1>9 DEF IInv

(* The inductive invariant holds in every reachable state of any number of *)
(* actors and threads that link, unlink, monitor, kill and end.            *)
THEOREM Invariance == Spec => []IInv
  BY InitIInv, NextIInv, PTL DEF Spec

(* The mutexes of abstract_actor exclude each other and cleanup: no two    *)
(* threads are inside establish_link_impl or remove_link_impl of one actor *)
(* at once, and that actor is not terminated meanwhile.                    *)
THEOREM LinkingExcludes ==
  Spec => [](\A t, w \in Thread :
               pc[t] \in Holding =>
                 /\ ~ exited(self[t])
                 /\ pc[w] \in Holding /\ self[w] = self[t] => w = t)
<1>1. IInv => \A t, w \in Thread :
                pc[t] \in Holding =>
                  /\ ~ exited(self[t])
                  /\ pc[w] \in Holding /\ self[w] = self[t] => w = t
  BY OneHolds DEF IInv, LocksInv
<1> QED BY <1>1, Invariance, PTL

(* Links are bidirectional: no order of link_to, unlink_from and the end   *)
(* of actors leaves a one-sided link that nobody will report.              *)
THEOREM LinksStayBidirectional == Spec => []LinksBidirectional
<1>1. IInv => LinksBidirectional
  BY DEF IInv, LinksInv, Mutual, LinksBidirectional
<1> QED BY <1>1, Invariance, PTL

(* An actor is owed exactly the down messages that wait for it: monitor,   *)
(* demonitor and the end of the target may interleave in any way.          *)
THEOREM DownsStayAccounted == Spec => []DownsAccounted
<1>1. IInv => DownsAccounted
  BY DEF IInv
<1> QED BY <1>1, Invariance, PTL

(* establish_backlink never finds a one-sided link in the way: an actor    *)
(* that adds its own link has none to that partner yet, so a link is in a  *)
(* list at most once and removing the first match removes it.              *)
THEOREM LinkedAtMostOnce ==
  Spec => [](LinkedOnce /\ OwnLinkAbsent)
<1>1. IInv => LinkedOnce /\ OwnLinkAbsent
  BY DEF IInv, LinksInv
<1> QED BY <1>1, Invariance, PTL
=============================================================================
