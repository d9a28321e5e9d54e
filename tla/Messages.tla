------------------------------- MODULE Messages -------------------------------
(***************************************************************************)
(* Messages as objects that share their data: tuple_vals and the builder's *)
(* dynamic_msg_data own elements, decorated_tuple and concatenated_tuple   *)
(* are views of other data, and writers are expected to copy data that     *)
(* somebody else holds (message_data::cow_ptr).  Each message object may   *)
(* belong to another actor, hence to another thread.                       *)
(***************************************************************************)
EXTENDS Patterns

CONSTANTS Msgs,        \* message objects
          MaxNodes,    \* bound: message_data objects alive at the same time
          MaxSize,     \* bound: elements of a message, parts of a concatenation
          Inputs,      \* element sequences given to make_message and append
          Handlers,    \* behaviors with one unary case, for extract
          WriteShared  \* whether views and concatenations whose data is
                       \* shared are written to, too

ASSUME MessagesAssumption ==
  MaxNodes \in Nat \ {0} /\ MaxSize \in Nat \ {0} /\ WriteShared \in BOOLEAN

VARIABLES heap,      \* message_data objects, with their type token
          vals,      \* message::vals_, 0 for the empty message
          builder,   \* message_builder::data_, 0 once moved to a message
          content,   \* what the owner of a message expects to read
          drafted    \* what the owner of the builder has appended
vars == <<heap, vals, builder, content, drafted>>

Nodes == 1 .. MaxNodes
Free == [kind |-> "free"]
tuple_vals(elems) ==
  [kind |-> "tuple", elems |-> elems, type_token |-> make_type_token(Types(elems))]

(* A view of the objects a step works on *)
State == [heap |-> heap, vals |-> vals, builder |-> builder]

RECURSIVE size(_, _)
size(h, n) ==
  CASE n = 0 -> 0
    [] n # 0 /\ h[n].kind = "tuple" -> Len(h[n].elems)
    [] n # 0 /\ h[n].kind = "decorated" -> Len(h[n].mapping)
    [] n # 0 /\ h[n].kind = "concat" ->
         FoldLeft(LAMBDA acc, k : acc + size(h, k), 0, h[n].parts)

(* concatenated_tuple::select: the part and the position in it *)
RECURSIVE select(_, _, _)
select(h, parts, pos) ==
  IF pos > size(h, Head(parts)) THEN select(h, Tail(parts), pos - size(h, Head(parts)))
  ELSE <<Head(parts), pos>>

(* the objects and positions that lead to an element, its owner last *)
RECURSIVE path(_, _, _)
path(h, n, pos) ==
  <<<<n, pos>>>> \o
  CASE h[n].kind = "tuple" -> <<>>
    [] h[n].kind = "decorated" -> path(h, h[n].inner, h[n].mapping[pos])
    [] h[n].kind = "concat" -> LET s == select(h, h[n].parts, pos) IN path(h, s[1], s[2])
owner(h, n, pos) == Last(path(h, n, pos))
at(h, n, pos) == LET o == owner(h, n, pos) IN h[o[1]].elems[o[2]]
Elements(h, n) == [i \in 1 .. size(h, n) |-> at(h, n, i)]

(* message_data::equals, on names and then values *)
equals(h, n, k) ==
  \/ n = k
  \/ /\ size(h, n) = size(h, k)
     /\ \A i \in 1 .. size(h, n) : int_types_by_size(at(h, n, i).type) = int_types_by_size(at(h, k, i).type)
     /\ \A i \in 1 .. size(h, n) : at(h, n, i).val = at(h, k, i).val

Children(node) == CASE node.kind = "decorated" -> <<node.inner>>
                    [] node.kind = "concat" -> node.parts
                    [] OTHER -> <<>>
(* the live objects, from those that message objects hold down *)
RECURSIVE Discover(_, _, _)
Discover(h, todo, found) ==
  CASE todo = <<>> -> found
    [] todo # <<>> /\ Head(todo) \in ToSet(found) \cup {0} -> Discover(h, Tail(todo), found)
    [] OTHER -> Discover(h, Tail(todo) \o Children(h[Head(todo)]), Append(found, Head(todo)))
LiveSeq(s) ==
  Discover(s.heap, <<s.builder>> \o [i \in DOMAIN SetToSeq(Msgs) |-> s.vals[SetToSeq(Msgs)[i]]], <<>>)
(* dead objects are freed; addresses mean nothing, so live ones are renumbered *)
Sweep(s) ==
  LET live == LiveSeq(s)
      name == [n \in ToSet(live) \cup {0} |->
                 IF n = 0 THEN 0 ELSE CHOOSE i \in DOMAIN live : live[i] = n]
      Rename(node) == CASE node.kind = "decorated" -> [node EXCEPT !.inner = name[@]]
                        [] node.kind = "concat" ->
                             [node EXCEPT !.parts = [i \in DOMAIN @ |-> name[@[i]]]]
                        [] OTHER -> node
  IN  [heap |-> [n \in Nodes |-> IF n <= Len(live) THEN Rename(s.heap[live[n]]) ELSE Free],
       vals |-> [m \in Msgs |-> name[s.vals[m]]], builder |-> name[s.builder]]
Unused(s) == {n \in Nodes : s.heap[n] = Free}
NewNode(s) == CHOOSE n \in Unused(s) : \A k \in Unused(s) : n <= k

(* ref_counted::unique *)
refs(s, n) == Cardinality({m \in Msgs : s.vals[m] = n}) + (IF s.builder = n THEN 1 ELSE 0)
  + FoldSet(LAMBDA k, acc : acc + Cardinality({i \in DOMAIN Children(s.heap[k]) :
                                                  Children(s.heap[k])[i] = n}), 0, ToSet(LiveSeq(s)))

(* mutant: data counts as unshared unless another message object holds it *)
UnsharedByMessages(s, n) == Cardinality({m \in Msgs : s.vals[m] = n}) <= 1
unique(s, n) == refs(s, n) = 1

(* cow_ptr::get_unshared on behalf of one holder: copies owned elements,   *)
(* while the copy of a view refers to the same data                        *)
NeedsCopy(s, n) == ~unique(s, n)
Copied(s, n) == [s EXCEPT !.heap[NewNode(s)] = s.heap[n]]
UnshareMessage(s, m) ==
  IF NeedsCopy(s, s.vals[m]) THEN [Copied(s, s.vals[m]) EXCEPT !.vals[m] = NewNode(s)] ELSE s
UnshareInner(s, n) ==
  IF NeedsCopy(s, s.heap[n].inner)
  THEN [Copied(s, s.heap[n].inner) EXCEPT !.heap[n].inner = NewNode(s)] ELSE s
UnshareBuilder(s) ==
  IF NeedsCopy(s, s.builder) THEN [Copied(s, s.builder) EXCEPT !.builder = NewNode(s)] ELSE s

(* mutable_at of the three kinds; select hands out a plain pointer *)
RECURSIVE mutable_at(_, _, _, _)
mutable_at(s, n, pos, x) ==
  CASE s.heap[n].kind = "tuple" -> [s EXCEPT !.heap[n].elems[pos].val = x]
    [] s.heap[n].kind = "decorated" ->
         LET t == UnshareInner(s, n) IN mutable_at(t, t.heap[n].inner, t.heap[n].mapping[pos], x)
    [] s.heap[n].kind = "concat" ->
         LET p == select(s.heap, s.heap[n].parts, pos) IN mutable_at(s, p[1], p[2], x)

(* decorated_tuple::make on behalf of message m: a view of a view refers   *)
(* to the data below.  The constructor reads the types of the elements     *)
(* through its own, not constant cow_ptr; the data has another holder, so  *)
(* that copies it.  Without an element there is nothing to read.           *)
decorated_make(s, m, n, mapping) ==
  LET below == IF s.heap[n].kind = "decorated" THEN s.heap[n].inner ELSE n
      direct == [i \in DOMAIN mapping |-> IF s.heap[n].kind = "decorated"
                                          THEN s.heap[n].mapping[mapping[i]] ELSE mapping[i]]
      t == IF mapping = <<>> THEN s ELSE Copied(s, below)
      view == [kind |-> "decorated", mapping |-> direct,
               inner |-> IF mapping = <<>> THEN below ELSE NewNode(s),
               type_token |-> make_type_token([i \in DOMAIN direct |-> at(s.heap, below, direct[i]).type])]
  IN  [t EXCEPT !.heap[NewNode(t)] = view, !.vals[m] = NewNode(t)]

(* concatenated_tuple: takes over the parts of other concatenations and,   *)
(* as it asks each part for its size, copies them all                      *)
PartsOf(s, nodes) ==
  FlattenSeq([i \in DOMAIN nodes |->
    IF s.heap[nodes[i]].kind = "concat" THEN s.heap[nodes[i]].parts ELSE <<nodes[i]>>])
concatenated_make(s, m, nodes) ==
  LET parts == PartsOf(s, nodes)
      all == FlattenSeq([i \in DOMAIN parts |-> Elements(s.heap, parts[i])])
      copies == FoldLeft(LAMBDA acc, k : [state |-> Copied(acc.state, k),
                                          parts |-> Append(acc.parts, NewNode(acc.state))],
                         [state |-> s, parts |-> <<>>], parts)
      t == copies.state
  IN  [t EXCEPT !.vals[m] = NewNode(t), !.heap[NewNode(t)] =
         [kind |-> "concat", parts |-> copies.parts, type_token |-> make_type_token(Types(all))]]

(* message objects m gets data d (0: none) and reads as `expected` *)
Become(s) == LET t == Sweep(s) IN heap' = t.heap /\ vals' = t.vals /\ builder' = t.builder
Assign(m, n, expected) ==
  /\ Become([State EXCEPT !.vals[m] = n])
  /\ content' = [content EXCEPT ![m] = expected] /\ UNCHANGED drafted
Room(n) == Cardinality(Unused(State)) >= n

make_message(m, elems) ==
  /\ Room(1)
  /\ Become([State EXCEPT !.heap[NewNode(State)] = tuple_vals(elems), !.vals[m] = NewNode(State)])
  /\ content' = [content EXCEPT ![m] = elems] /\ UNCHANGED drafted
copy(m, src) == m # src /\ Assign(m, vals[src], content[src])

(* slice, and drop, drop_right, take and take_right, which are slices but  *)
(* for the results *this and message{} at their limits                     *)
View(m, src, mapping, expected) ==
  /\ Room(2)
  /\ Become(decorated_make(State, m, vals[src], mapping))
  /\ content' = [content EXCEPT ![m] = expected] /\ UNCHANGED drafted
Range_(m, src, first, n, expected) ==
  IF n = 0 THEN Assign(m, 0, <<>>)
  ELSE View(m, src, [i \in 1 .. n |-> first + i - 1], expected)
slice(m, src, pos, n) ==
  LET s == Len(content[src])
      len == IF s - pos < n THEN s - pos ELSE n
  IN  IF pos >= s THEN Assign(m, 0, <<>>)
      ELSE View(m, src, [i \in 1 .. len |-> pos + i], SubSeq(content[src], pos + 1, pos + len))
drop(m, src, n) ==
  LET s == size(heap, vals[src])
  IN  /\ vals[src] # 0
      /\ IF n = 0 THEN Assign(m, vals[src], content[src])
         ELSE Range_(m, src, n + 1, IF n >= s THEN 0 ELSE s - n,
                   SubSeq(content[src], n + 1, Len(content[src])))
drop_right(m, src, n) ==
  LET s == size(heap, vals[src])
  IN  /\ vals[src] # 0
      /\ IF n = 0 THEN Assign(m, vals[src], content[src])
         ELSE Range_(m, src, 1, IF n >= s THEN 0 ELSE s - n, SubSeq(content[src], 1, Len(content[src]) - n))
take(m, src, n) ==
  LET s == size(heap, vals[src])
  IN  IF n >= s THEN Assign(m, vals[src], content[src]) ELSE drop_right(m, src, s - n)
take_right(m, src, n) ==
  LET s == size(heap, vals[src])
  IN  IF n >= s THEN Assign(m, vals[src], content[src]) ELSE drop(m, src, s - n)

concat(m, a, b) ==
  LET nodes == SelectSeq(<<vals[a], vals[b]>>, LAMBDA n : n # 0)
  IN  /\ Len(content[a]) + Len(content[b]) <= MaxSize
      /\ CASE nodes = <<>> -> Assign(m, 0, <<>>)
           [] Len(nodes) = 1 -> Assign(m, nodes[1], content[a] \o content[b])
           [] OTHER ->
                /\ Len(PartsOf(State, nodes)) <= MaxSize /\ Room(1 + Len(PartsOf(State, nodes)))
                /\ Become(concatenated_make(State, m, nodes))
                /\ content' = [content EXCEPT ![m] = content[a] \o content[b]] /\ UNCHANGED drafted

(* message::extract: removes slices the handler answers, longest first,    *)
(* and goes on behind the last one; yields the positions that are left     *)
RECURSIVE extract_impl(_, _, _, _, _)
extract_impl(elems, kept, i, n, handler) ==
  LET slots == SubSeq(kept, i, i + n - 1)
      part == [j \in DOMAIN slots |-> elems[slots[j]]]
  IN  CASE i > Len(kept) -> kept
        [] i <= Len(kept) /\ n = 0 -> extract_impl(elems, kept, i + 1, Len(kept) - i, handler)
        [] i <= Len(kept) /\ n > 0 /\ invoke(handler, part).res = none ->
             extract_impl(elems, kept, i, n - 1, handler)
        [] OTHER -> LET rest == SubSeq(kept, 1, i - 1) \o SubSeq(kept, i + n, Len(kept))
                    IN  extract_impl(elems, rest, i, Len(rest) - i + 1, handler)
extract(m, src, handler) ==
  LET elems == Elements(heap, vals[src])
      kept == extract_impl(elems, [i \in DOMAIN elems |-> i], 1, Len(elems), handler)
      expected == SelectSeq(content[src], LAMBDA e : invoke(handler, <<e>>).res = none)
  IN  CASE Len(kept) = Len(elems) -> Assign(m, vals[src], expected)
        [] kept = <<>> /\ elems # <<>> -> Assign(m, 0, expected)
        [] OTHER -> View(m, src, kept, expected)

(* nobody else holds a part of the way to the element *)
SoleHolder(m, pos) ==
  \A i \in DOMAIN path(heap, vals[m], pos) : refs(State, path(heap, vals[m], pos)[i][1]) = 1
ThroughConcat(m, pos) ==
  \E i \in DOMAIN path(heap, vals[m], pos) : heap[path(heap, vals[m], pos)[i][1]].kind = "concat"
Written(m, pos, x) == content' = [content EXCEPT ![m][pos].val = x]

(* get_as_mutable<T>(pos) = x *)
get_as_mutable(m, pos, x) ==
  LET s == UnshareMessage(State, m)
  IN  /\ pos <= size(heap, vals[m]) /\ Room(2)
      /\ WriteShared \/ ~ThroughConcat(m, pos) \/ SoleHolder(m, pos)
      /\ Become(mutable_at(s, s.vals[m], pos, x)) /\ Written(m, pos, x) /\ UNCHANGED drafted

(* A handler that takes its argument by mutable reference: invoke of a     *)
(* match case unshares the message and collects the elements' addresses    *)
InvokeManipulator(m, pos, x) ==
  LET s == UnshareMessage(State, m)
      o == owner(s.heap, s.vals[m], pos)
  IN  /\ pos <= size(heap, vals[m]) /\ Room(1)
      /\ WriteShared \/ heap[vals[m]].kind = "tuple" \/ SoleHolder(m, pos)
      /\ Become([s EXCEPT !.heap[o[1]].elems[o[2]].val = x])
      /\ Written(m, pos, x) /\ UNCHANGED drafted

Append_(elems) ==
  LET s == UnshareBuilder(State)
      b == s.builder
  IN  /\ builder # 0 /\ Room(1) /\ Len(drafted) + Len(elems) <= MaxSize
      /\ Become([s EXCEPT !.heap[b].elems = @ \o elems,
                          !.heap[b].type_token = FoldLeft(LAMBDA t, e :
                             add_to_type_token(t, type_nr(e.type)), @, elems)])
      /\ drafted' = drafted \o elems /\ UNCHANGED content
clear ==
  LET s == UnshareBuilder(State)
  IN  /\ builder # 0 /\ Room(1)
      /\ Become([s EXCEPT !.heap[s.builder] = tuple_vals(<<>>)])
      /\ drafted' = <<>> /\ UNCHANGED content
to_message(m) == builder # 0 /\ Assign(m, builder, drafted)
move_to_message(m) ==
  /\ builder # 0 /\ Become([State EXCEPT !.vals[m] = builder, !.builder = 0])
  /\ content' = [content EXCEPT ![m] = drafted] /\ drafted' = <<>>
init ==
  /\ builder = 0 /\ Room(1)
  /\ Become([State EXCEPT !.heap[NewNode(State)] = tuple_vals(<<>>), !.builder = NewNode(State)])
  /\ UNCHANGED <<content, drafted>>

Init == /\ heap = [n \in Nodes |-> IF n = 1 THEN tuple_vals(<<>>) ELSE Free]
        /\ vals = [m \in Msgs |-> 0] /\ builder = 1
        /\ content = [m \in Msgs |-> <<>>] /\ drafted = <<>>

Next ==
  \/ \E m \in Msgs, elems \in Inputs : make_message(m, elems)
  \/ \E m, src \in Msgs : copy(m, src)
  \/ \E m, src \in Msgs : \E n \in 0 .. MaxSize :
       \/ drop(m, src, n) \/ drop_right(m, src, n) \/ take(m, src, n) \/ take_right(m, src, n)
       \/ \E pos \in 0 .. MaxSize : slice(m, src, pos, n)
  \/ \E m, a, b \in Msgs : concat(m, a, b)
  \/ \E m, src \in Msgs, h \in Handlers : extract(m, src, h)
  \/ \E m \in Msgs, pos \in 1 .. MaxSize, x \in {1} :
       vals[m] # 0 /\ (get_as_mutable(m, pos, x) \/ InvokeManipulator(m, pos, x))
  \/ \E elems \in Inputs : Append_(elems)
  \/ clear \/ init
  \/ \E m \in Msgs : to_message(m) \/ move_to_message(m)
Spec == Init /\ [][Next]_vars
-------------------------------------------------------------------------------
(* Messages are values: whatever is sliced, concatenated, extracted,       *)
(* copied and written, a message and a builder read as their owner left    *)
(* them, with the token of their types, and compare equal when they are.   *)
ValueSemantics ==
  /\ \A m \in Msgs : /\ Elements(heap, vals[m]) = content[m]
                     /\ vals[m] # 0 => heap[vals[m]].type_token = make_type_token(Types(content[m]))
  /\ builder # 0 => Elements(heap, builder) = drafted
  /\ \A m, k \in Msgs : equals(heap, vals[m], vals[k]) <=> content[m] = content[k]
===============================================================================
