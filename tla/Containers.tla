------------------------------- MODULE Containers -------------------------------
(* The library's own containers: limited_vector, intrusive_partitioned_list *)
(* (the cache a blocking actor keeps skipped messages in) and the stack of  *)
(* behaviors. Vectors are arrays with a size, lists are nodes with prev and *)
(* next pointers, and dereferencing a deleted node is recorded in `fault`.  *)
(* Then two loops over containers: events passed along a chain of hooks,    *)
(* and the receive family over the mailbox.                                 *)
EXTENDS Integers, Sequences, SequencesExt, FiniteSetsExt, Folds

-------------------------------------------------------------------------------
(* limited_vector: positions count from 1, unused cells keep old values. *)
Contents(v) == SubSeq(v.data, 1, v.size)
max_size(v) == Len(v.data)
empty_vector(max) == [size |-> 0, data |-> [i \in 1 .. max |-> 0]]
resize(v, s) == [v EXCEPT !.size = s]
full(v) == v.size = max_size(v)
capacity(v) == max_size(v) - v.size

Steps(n) == [i \in 1 .. n |-> i]
Copy(data, xs, pos) ==
  FoldLeft(LAMBDA d, i : [d EXCEPT ![pos + i - 1] = xs[i]], data, Steps(Len(xs)))

(* std::copy_backward on cells pos .. last: back to front, so that cells    *)
(* move out of the way before they are overwritten.                         *)
CopyBackward(data, pos, last, n) ==
  FoldLeft(LAMBDA d, i : [d EXCEPT ![last + n + 1 - i] = d[last + 1 - i]],
           data, Steps(last - pos + 1))

vector_of(max, xs) ==
  [size |-> Len(xs), data |-> Copy(empty_vector(max).data, xs, 1)]
assign(v, other) ==
  LET sized == resize(v, other.size)
  IN [sized EXCEPT !.data = Copy(sized.data, Contents(other), 1)]
assign_n(v, n, x) == [resize(v, n) EXCEPT !.data = Copy(v.data, [i \in 1 .. n |-> x], 1)]
push_back(v, x) == [size |-> v.size + 1, data |-> [v.data EXCEPT ![v.size + 1] = x]]
pop_back(v) == resize(v, v.size - 1)
rbegin_to_rend(v) == Reverse(Contents(v))
front(v) == v.data[1]
back(v) == v.data[v.size]

insert(v, pos, xs) ==
  LET n == Len(xs)
      moved == IF pos = v.size + 1 THEN v.data ELSE CopyBackward(v.data, pos, v.size, n)
  IN IF v.size + n > max_size(v) THEN [v |-> v, thrown |-> TRUE]
     ELSE [v |-> [size |-> v.size + n, data |-> Copy(moved, xs, pos)], thrown |-> FALSE]
-------------------------------------------------------------------------------
(* intrusive_partitioned_list: first partition head .. separator, second    *)
(* separator .. tail.                                                       *)
Sentinels == {"head", "sep", "tail"}
partitioned_list(Elems) ==
  LET P == Sentinels \cup Elems
      none == [p \in P |-> "null"]
  IN [next |-> [none EXCEPT !["head"] = "sep", !["sep"] = "tail"],
      prev |-> [none EXCEPT !["sep"] = "head", !["tail"] = "sep"],
      deleted |-> {}, fault |-> FALSE]

Deref(l, p) == [l EXCEPT !.fault = @ \/ p \in l.deleted]
SetNext(l, p, q) == [Deref(l, p) EXCEPT !.next[p] = q]
SetPrev(l, p, q) == [Deref(l, p) EXCEPT !.prev[p] = q]
Connect(l, p, q) == SetPrev(SetNext(l, p, q), q, p)
Delete(l, p) == [Deref(l, p) EXCEPT !.deleted = @ \cup {p}]

first_begin(l) == l.next["head"]
second_begin(l) == l.next["sep"]
first_empty(l) == first_begin(l) = "sep"
second_empty(l) == second_begin(l) = "tail"

(* Inserts val in front of pos. *)
list_insert(l, pos, val) == Connect(Connect(l, l.prev[pos], val), val, pos)
push_first_back(l, val) == list_insert(l, "sep", val)
push_second_back(l, val) == list_insert(l, "tail", val)
take(l, p) == Connect(l, l.prev[p], l.next[p])
erase(l, p) == Delete(take(l, p), p)

RECURSIVE Walk(_, _, _)
Walk(l, from, to) == IF from = to THEN <<>> ELSE <<from>> \o Walk(l, l.next[from], to)
First(l) == Walk(l, first_begin(l), "sep")
Second(l) == Walk(l, second_begin(l), "tail")

RECURSIVE clear(_, _)
clear(l, seen) ==
  IF ~first_empty(l) THEN clear(erase(l, first_begin(l)), Append(seen, first_begin(l)))
  ELSE IF ~second_empty(l) THEN clear(erase(l, second_begin(l)), Append(seen, second_begin(l)))
  ELSE [list |-> l, seen |-> seen]

RECURSIVE CountUpTo(_, _, _, _)
CountUpTo(l, from, to, max) ==
  IF from = to \/ max = 0 THEN 0 ELSE 1 + CountUpTo(l, l.next[from], to, max - 1)
count(l, max) ==
  LET r1 == CountUpTo(l, first_begin(l), "sep", max)
  IN r1 + CountUpTo(l, second_begin(l), "tail", max - r1)

(* What invoke_message makes of an element: the result, whether the element *)
(* was moved away (forwarded), and the handlers of a receive nested in it.  *)
Outcome(result, moved, nested) == [result |-> result, moved |-> moved, nested |-> nested]
NotNested == <<>>

(* move_on of invoke: `first_valid` says whether the element is in the list *)
(* again.                                                                   *)
MoveOn(at, l, first_valid) ==
  [prev |-> IF first_valid THEN at.first ELSE at.prev, first |-> at.next, next |-> l.next[at.next]]

Unlink(l, at) == Connect(l, at.prev, at.next)
Reintegrate(l, at) == SetPrev(SetNext(l, at.prev, at.first), at.next, at.first)

RECURSIVE InvokeFrom(_, _, _, _)
(* invoke: the element is unlinked before its handler runs, since that may  *)
(* receive from the same list, and put back if the handler skipped it.      *)
invoke(l, first, last, h) ==
  InvokeFrom(l, [prev |-> l.prev[first], first |-> first, next |-> l.next[first]], last, h)
InvokeFrom(l, at, last, h) ==
  LET e == at.first
      o == h[e]
      ran == IF o.nested = NotNested THEN Unlink(l, at)
             ELSE LET m == Unlink(l, at) IN invoke(m, second_begin(m), last, o.nested).list
      gone == IF o.moved THEN ran ELSE Delete(ran, e)
      put == Reintegrate(ran, at)
  IN IF e = last THEN [list |-> l, found |-> FALSE]
     ELSE CASE o.result = "success" -> [list |-> gone, found |-> TRUE]
            [] o.result = "dropped" \/ o.moved ->
                 InvokeFrom(Deref(gone, at.next), MoveOn(at, gone, FALSE), last, h)
            [] OTHER -> InvokeFrom(Deref(put, at.next), MoveOn(at, put, TRUE), last, h)
-------------------------------------------------------------------------------
(* behavior_stack: behaviors popped while one of them runs are kept in      *)
(* erased until cleanup.                                                    *)
empty_stack == [elements |-> <<>>, erased |-> <<>>]
stack_push_back(s, b) == [s EXCEPT !.elements = Append(@, b)]
stack_pop_back(s) ==
  IF s.elements = <<>> THEN s
  ELSE [elements |-> Front(s.elements), erased |-> Append(s.erased, Last(s.elements))]
stack_clear(s) ==
  IF s.elements = <<>> THEN s
  ELSE [elements |-> <<>>, erased |-> s.erased \o s.elements]
cleanup(s) == [s EXCEPT !.erased = <<>>]

(* The become family; the behaviors of quit are cleared. *)
become(s, bhvr, keep) == stack_push_back(IF keep THEN s ELSE stack_pop_back(s), bhvr)
unbecome(s) == stack_pop_back(s)
stack_apply(s, op) ==
  CASE op = "unbecome" -> unbecome(s)
    [] op = "quit" -> stack_clear(s)
    [] OTHER -> become(s, op, op = "keep")
-------------------------------------------------------------------------------
(* limited_vector behaves as a bounded sequence: insert moves what is behind *)
(* the position and keeps order, or throws and changes nothing when the     *)
(* elements do not fit; copies have the contents of the original.           *)
VectorLaws(max, xs, ys, pos) ==
  LET v == vector_of(max, xs)
      r == insert(v, pos, ys)
  IN /\ r.thrown <=> Len(xs) + Len(ys) > max
     /\ Contents(r.v) = IF r.thrown THEN xs
                        ELSE SubSeq(xs, 1, pos - 1) \o ys \o SubSeq(xs, pos, Len(xs))
     /\ Contents(assign(r.v, v)) = xs
     /\ capacity(r.v) = max - r.v.size
     /\ ~full(v) => Contents(pop_back(push_back(v, 7))) = xs /\ back(push_back(v, 7)) = 7
     /\ Len(ys) <= max => Contents(assign_n(r.v, Len(ys), 5)) = [i \in 1 .. Len(ys) |-> 5]
     /\ xs # <<>> => front(v) = xs[1] /\ rbegin_to_rend(v)[1] = back(v)

(* What a receive with handlers h leaves of the messages done \o s, of which *)
(* it skipped done.                                                         *)
RECURSIVE AfterReceive(_, _, _)
AfterReceive(done, s, h) ==
  IF s = <<>> THEN done
  ELSE LET o == h[Head(s)]
       IN CASE o.result = "success" ->
                 IF o.nested = NotNested THEN done \o Tail(s)
                 ELSE AfterReceive(<<>>, done \o Tail(s), o.nested)
            [] o.result = "dropped" \/ o.moved -> AfterReceive(done, Tail(s), h)
            [] OTHER -> AfterReceive(Append(done, Head(s)), Tail(s), h)

(* The list keeps its two partitions apart and in order, and a receive takes *)
(* out what its handlers consumed, nested receives included, without        *)
(* touching a deleted node.                                                 *)
ListKept(Elems, xs, ys, h) ==
  LET l0 == FoldLeft(push_first_back, partitioned_list(Elems), xs)
      l == FoldLeft(push_second_back, l0, ys)
      r == invoke(l, second_begin(l), "tail", h)
      c == clear(r.list, <<>>)
  IN /\ First(l) = xs /\ Second(l) = ys
     /\ \A max \in 0 .. 4 : count(l, max) = Min({max, Len(xs \o ys)})
     /\ r.found <=> \E i \in DOMAIN ys : h[ys[i]].result = "success"
     /\ First(r.list) = xs /\ Second(r.list) = AfterReceive(<<>>, ys, h)
     /\ c.seen = xs \o AfterReceive(<<>>, ys, h)
     /\ ~c.list.fault

(* The behavior a handler runs in outlives every become, unbecome and quit  *)
(* of that handler.                                                         *)
RunningBehaviorKept(ops) ==
  LET s == FoldLeft(stack_apply, stack_push_back(empty_stack, "running"), ops)
      Keeps == Cardinality({i \in DOMAIN ops : ops[i] = "keep"})
  IN /\ "running" \in ToSet(s.elements \o s.erased)
     /\ Len(s.elements) <= 1 + Keeps
     /\ ToSet(cleanup(s).elements) = ToSet(s.elements)
-------------------------------------------------------------------------------
(***************************************************************************)
(* Hooks of the I/O layer: a chain of objects, the newest first, each      *)
(* with callbacks per event.  cb maps an event to what the override of the *)
(* hook does, "last" if it does not call the next hook; an event outside   *)
(* its domain has the default callback.                                    *)
(***************************************************************************)

event_type ==
  {"message_received", "message_sent", "message_forwarded", "message_sending_failed",
   "message_forwarding_failed", "actor_published", "new_remote_actor",
   "new_connection_established", "new_route_added", "connection_lost", "route_lost",
   "invalid_message_received", "before_shutdown"}

hook(name, cb) == [name |-> name, cb |-> cb]
shutdown_hook(name) == hook(name, [e \in {"before_shutdown"} |-> "calls next"])

add_hook(hooks, h) == <<h>> \o hooks
has_hook(hooks) == hooks # <<>>

(* The names of the hooks whose overrides run, in order *)
RECURSIVE dispatch(_, _)
call_next(next, e) == IF has_hook(next) THEN dispatch(next, e) ELSE <<>>
default_cb(next, e) == call_next(next, e)
dispatch(hs, e) ==
  LET h == Head(hs)
  IN  IF e \notin DOMAIN h.cb THEN default_cb(Tail(hs), e)
      ELSE <<h.name>> \o (IF h.cb[e] = "last" THEN <<>> ELSE call_next(Tail(hs), e))
notify(hooks, e) == IF has_hook(hooks) THEN dispatch(hooks, e) ELSE <<>>

RECURSIVE AddAll(_, _)
AddAll(hooks, hs) == IF hs = <<>> THEN hooks ELSE AddAll(add_hook(hooks, Head(hs)), Tail(hs))

(* Of the hooks added in the order hs, the ones that override the event    *)
(* run, the newest first, except for those older than one that keeps it;   *)
(* a shutdown callback never keeps it, and other events pass them by.      *)
EventsPassOn(hs, e) ==
  LET ran == notify(AddAll(<<>>, hs), e)
      runs == {i \in DOMAIN hs : /\ e \in DOMAIN hs[i].cb
                                 /\ \A j \in i + 1 .. Len(hs) : e \in DOMAIN hs[j].cb => hs[j].cb[e] # "last"}
  IN  /\ {ran[k] : k \in DOMAIN ran} = {hs[i].name : i \in runs}
      /\ \A k, l \in DOMAIN ran : k < l => \E i, j \in runs : i > j /\ hs[i].name = ran[k] /\ hs[j].name = ran[l]
-------------------------------------------------------------------------------
(***************************************************************************)
(* The receive family of blocking actors as loops over dequeue.  A state   *)
(* has the messages in the mailbox, those received, and what the handlers  *)
(* changed: calls counts evaluations of a statement, at is the variable of *)
(* receive_for.  A behavior is the set of kinds that it accepts.  A loop   *)
(* that runs out of messages blocks.                                       *)
(***************************************************************************)

Message(kind, mid) == [kind |-> kind, mid |-> mid]
Start(box) == [box |-> box, got |-> <<>>, at |-> 0, calls |-> 0, blocked |-> FALSE]

(* Responses are taken by their id only, other messages by the behavior *)
Matches(m, bhvr, mid) == m.mid = mid /\ (mid # 0 \/ m.kind \in bhvr)

dequeue(s, bhvr, mid) ==
  LET hits == {i \in DOMAIN s.box : Matches(s.box[i], bhvr, mid)}
      first == CHOOSE i \in hits : \A j \in hits : i <= j
  IN  IF s.blocked \/ hits = {} THEN [s EXCEPT !.blocked = TRUE]
      ELSE [s EXCEPT !.box = SubSeq(@, 1, first - 1) \o SubSeq(@, first + 1, Len(@)),
                     !.got = Append(@, s.box[first])]

receive(s, bhvr) == dequeue(s, bhvr, 0)
await(s, bhvr, mid) == dequeue(s, bhvr, mid)

RECURSIVE receive_loop(_, _)
receive_loop(s, bhvr) == IF s.blocked THEN s ELSE receive_loop(receive(s, bhvr), bhvr)

(* for (; begin != end; ++begin), begin being a reference *)
RECURSIVE receive_for(_, _, _)
receive_for(s, end, bhvr) ==
  IF s.blocked \/ s.at = end THEN s
  ELSE LET r == receive(s, bhvr)
       IN  receive_for([r EXCEPT !.at = IF r.blocked THEN @ ELSE @ + 1], end, bhvr)

(* A statement is true for its first n evaluations *)
Evaluated(s) == [s EXCEPT !.calls = @ + 1]
RECURSIVE receive_while(_, _, _)
receive_while(s, n, bhvr) ==
  IF s.blocked \/ s.calls >= n THEN Evaluated(s) ELSE receive_while(receive(Evaluated(s), bhvr), n, bhvr)

(* do { dequeue } while (! stmt()), where stmt is false n times *)
RECURSIVE do_receive_until(_, _, _)
do_receive_until(s, n, bhvr) ==
  LET r == receive(s, bhvr)
  IN  IF r.blocked \/ r.calls >= n THEN Evaluated(r) ELSE do_receive_until(Evaluated(r), n, bhvr)

(* Every loop receives the first messages that its behavior accepts, in    *)
(* the order they came in, as many as its condition asks for; a pending    *)
(* response and the messages it skips stay in order; and await passes by   *)
(* all of them.                                                            *)
LoopsReceive(box, n, bhvr) ==
  LET ordinary(m) == m.mid = 0 /\ m.kind \in bhvr
      all == SelectSeq(box, ordinary)
      Took(s, k) == /\ s.blocked <=> Len(all) < k
                    /\ s.got = SubSeq(all, 1, IF Len(all) < k THEN Len(all) ELSE k)
                    /\ SelectSeq(s.box, LAMBDA m : ~ordinary(m)) = SelectSeq(box, LAMBDA m : ~ordinary(m))
      answer == await(Start(box), bhvr, 1)
  IN  /\ receive_loop(Start(box), bhvr).got = all
      /\ Took(receive_while(Start(box), n, bhvr), n)
      /\ Took(do_receive_until(Start(box), n, bhvr), n + 1)
      /\ Took(receive_for(Start(box), n, bhvr), n)
      /\ ~answer.blocked => answer.got[1].mid = 1 /\ SelectSeq(answer.box, ordinary) = all
      /\ answer.blocked => \A i \in DOMAIN box : box[i].mid # 1
===============================================================================
