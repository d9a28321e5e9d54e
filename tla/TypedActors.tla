----------------------------- MODULE TypedActors -----------------------------
(***************************************************************************)
(* The compile-time algorithms of type_list.hpp and int_list.hpp, which    *)
(* decide which handlers a typed actor accepts and how a pattern binds     *)
(* its arguments, and the static checks of typed actors made of them:      *)
(* which set of handlers may implement a list of signatures (ctm.hpp,      *)
(* typed_behavior), which handle may be assigned to which (typed_actor),   *)
(* what a message's reply is (deduce_output_type) and whether its sender   *)
(* accepts it (sender_signature_checker).                                  *)
(*                                                                         *)
(* A type_list is a sequence; operators keep the names and the recursion   *)
(* of the templates, including their results for arguments outside of the  *)
(* list (void, unit_t, -1).  A metafunction is a function on types, a      *)
(* predicate the set of the types that satisfy it.                         *)
(***************************************************************************)
EXTENDS Integers, Sequences, FiniteSets, SequencesExt

unit_t == "unit"
void == "void"

tl_head(l) == IF l = <<>> THEN void ELSE Head(l)
tl_tail(l) == IF l = <<>> THEN <<>> ELSE Tail(l)
tl_size(l) == Len(l)
tl_back(l) == IF l = <<>> THEN unit_t ELSE Last(l)
tl_empty(l) == l = <<>>

RECURSIVE tl_slice_impl(_, _, _, _, _)
tl_slice_impl(left, remaining, pad, l, ts) ==
  CASE left > 0 -> tl_slice_impl(left - 1, remaining, pad, tl_tail(l), ts)
    [] left = 0 /\ remaining > 0 ->
         tl_slice_impl(0, remaining - 1, pad, tl_tail(l),
                       Append(ts, IF tl_empty(l) THEN pad ELSE tl_head(l)))
    [] left = 0 /\ remaining = 0 -> ts

tl_slice_(l, first, last, pad) ==
  IF first = 0 /\ last = tl_size(l) THEN l
  ELSE tl_slice_impl(first, last - first, pad, l, <<>>)

tl_slice(l, first, last) ==
  tl_slice_(l, IF first > last THEN last ELSE first, last, unit_t)

(* mutant: drops n elements instead of keeping n *)
RightDrops(l, n) == tl_slice(l, IF tl_size(l) > n THEN n ELSE 0, tl_size(l))

tl_right(l, n) == tl_slice(l, IF tl_size(l) > n THEN tl_size(l) - n ELSE 0, tl_size(l))

tl_zip_impl(a, b, fun) == [i \in 1 .. Len(a) |-> fun[a[i], b[i]]]

tl_zip(a, b, fun) ==
  LET n == IF tl_size(a) < tl_size(b) THEN tl_size(a) ELSE tl_size(b)
  IN  tl_zip_impl(tl_slice(a, 0, n), tl_slice(b, 0, n), fun)

tl_zip_right(a, b, fun, n) == tl_zip_impl(tl_right(a, n), tl_right(b, n), fun)

tl_zip_all(a, b, fun) ==
  LET n == IF tl_size(a) > tl_size(b) THEN tl_size(a) ELSE tl_size(b)
  IN  tl_zip_impl(tl_slice_(a, 0, n, unit_t), tl_slice_(b, 0, n, unit_t), fun)

tl_unzip(l) == [first |-> [i \in 1 .. Len(l) |-> l[i][1]],
                second |-> [i \in 1 .. Len(l) |-> l[i][2]]]

RECURSIVE tl_reverse_impl(_, _)
tl_reverse_impl(l, e) ==
  IF tl_empty(l) THEN e ELSE tl_reverse_impl(tl_tail(l), <<tl_head(l)>> \o e)
tl_reverse(l) == tl_reverse_impl(l, <<>>)

tl_find_if(l, pred) ==
  LET RECURSIVE tl_find_impl(_, _)
      tl_find_impl(m, pos) == CASE tl_empty(m) -> -1
                                [] ~tl_empty(m) /\ tl_head(m) \in pred -> pos
                                [] OTHER -> tl_find_impl(tl_tail(m), pos + 1)
  IN  tl_find_impl(l, 0)
tl_find(l, what) == tl_find_if(l, {what})

tl_forall(l, pred) == \A i \in DOMAIN l : l[i] \in pred
tl_binary_forall(a, b, pred) ==
  tl_size(a) = tl_size(b) /\ \A i \in DOMAIN a : <<a[i], b[i]>> \in pred
tl_exists(l, pred) == \E i \in DOMAIN l : l[i] \in pred
tl_count(l, pred) == Cardinality({i \in DOMAIN l : l[i] \in pred})
tl_count_not(l, pred) == Cardinality({i \in DOMAIN l : l[i] \notin pred})

tl_concat(a, b) == a \o b
tl_push_back(l, what) == Append(l, what)
tl_push_front(l, what) == <<what>> \o l
tl_map(l, fun) == [i \in DOMAIN l |-> fun[l[i]]]
tl_map_conditional(l, trait, res, fun) ==
  [i \in DOMAIN l |-> IF (l[i] \in trait) = res THEN fun[l[i]] ELSE l[i]]
tl_pop_back(l) == IF tl_empty(l) THEN l ELSE tl_slice(l, 0, tl_size(l) - 1)
tl_at(l, n) == IF n < tl_size(l) THEN l[n + 1] ELSE unit_t
tl_prepend(l, what) == <<what>> \o l

tl_filter(l, pred) == SelectSeq(l, LAMBDA x : x \in pred)
tl_filter_not(l, pred) == SelectSeq(l, LAMBDA x : x \notin pred)
(* both remove the elements equal to `what`, which is what tl_distinct needs *)
tl_filter_type(l, what) == SelectSeq(l, LAMBDA x : x # what)
tl_filter_not_type(l, what) == SelectSeq(l, LAMBDA x : x # what)

RECURSIVE tl_distinct(_)
tl_distinct(l) ==
  IF tl_empty(l) THEN l
  ELSE tl_concat(<<tl_head(l)>>, tl_distinct(tl_filter_type(tl_tail(l), tl_head(l))))
tl_is_distinct(l) == tl_size(l) = tl_size(tl_distinct(l))

RECURSIVE tl_pad_right(_, _, _)
tl_pad_right(l, n, fill) ==
  IF tl_size(l) < n THEN tl_pad_right(tl_push_back(l, fill), n, fill)
  ELSE tl_slice(l, 0, n)

RECURSIVE tl_pad_left(_, _, _)
tl_pad_left(l, n, fill) ==
  IF tl_size(l) < n THEN tl_pad_left(tl_push_front(l, fill), n, fill) ELSE l

RECURSIVE tl_trim(_, _)
tl_trim(l, what) ==
  IF tl_empty(l) \/ tl_back(l) # what THEN l ELSE tl_trim(tl_pop_back(l), what)

tl_group_by(l, pred) ==
  LET Step(out, x) ==
        LET last == tl_back(out)
        IN  CASE tl_empty(out) -> <<<<x>>>>
              [] ~tl_empty(out) /\ <<x, tl_back(last)>> \in pred ->
                   tl_concat(tl_pop_back(out), <<Append(last, x)>>)
              [] OTHER -> tl_concat(tl_pop_back(out), <<last, <<x>>>>)
  IN  FoldLeft(Step, <<>>, l)

tlf_is_subset(a, b) == tl_forall(a, {x \in ToSet(a) : tl_find(b, x) >= 0})
tl_equal(a, b) == tlf_is_subset(a, b) /\ tlf_is_subset(b, a)

RECURSIVE tl_replicate(_, _)
tl_replicate(n, x) == IF n = 0 THEN <<>> ELSE tl_push_front(tl_replicate(n - 1, x), x)

(* int_list.hpp: positions of a list, as the patterns use them *)
il_indices(l) == [i \in DOMAIN l |-> i - 1]
RECURSIVE il_right_impl(_, _, _)
il_right_impl(n, size, l) ==
  IF l = <<>> \/ n = size THEN l ELSE il_right_impl(n, size - 1, Tail(l))
il_right(l, n) == il_right_impl(IF n > Len(l) THEN Len(l) ELSE n, Len(l), l)
RECURSIVE il_take_impl(_, _, _)
il_take_impl(n, rs, l) == IF n = 0 THEN rs ELSE il_take_impl(n - 1, Append(rs, Head(l)), Tail(l))
il_take(l, n) == il_take_impl(n, <<>>, l)
------------------------------------------------------------------------------
SmallerOf(m, n) == IF m < n THEN m ELSE n

(* The recursive templates compute what they are used for: slices are the  *)
(* elements at their positions, padded past the end; distinct keeps the    *)
(* first of equal elements in order; groups are maximal runs and           *)
(* concatenate to the list; trim undoes padding; the positions of a suffix *)
(* are the last ones.                                                      *)
ListLaws(a, b, n) ==
  LET Element(i) == IF i <= Len(a) THEN a[i] ELSE unit_t
      types == ToSet(a \o b) \cup {unit_t}
      is_same == {<<x, x>> : x \in types}
      Pair == [x, y \in types |-> <<x, y>>]
      groups == tl_group_by(a, is_same)
      distinct == tl_distinct(a)
  IN
  /\ \A i \in 0 .. n : tl_slice(a, i, n) = [j \in 1 .. n - i |-> Element(i + j)]
  /\ \A x \in ToSet(a) : tl_filter_not_type(a, x) = tl_filter_not(a, {x})
  /\ \A x \in ToSet(a) :
       LET mapped == tl_map_conditional(a, {x}, TRUE, [y \in types |-> unit_t])
       IN  /\ tl_count(a, {x}) = tl_size(tl_filter(a, {x})) /\ tl_count(mapped, {unit_t}) = tl_count(a, {x})
           /\ tl_count_not(a, {x}) = tl_size(tl_filter_not(mapped, {unit_t}))
           /\ tl_exists(b, {x}) <=> tl_find(b, x) >= 0
  /\ tl_binary_forall(a, b, is_same) <=> a = b
  /\ tl_slice(tl_prepend(a, unit_t), 1, Len(a) + 1) = a
  /\ tl_slice(a, n + 1, n) = <<>> /\ tl_at(a, n) = Element(n + 1)
  /\ tl_right(a, n) = SubSeq(a, Len(a) - SmallerOf(n, Len(a)) + 1, Len(a))
  /\ tl_zip(a, b, Pair) = [i \in 1 .. SmallerOf(Len(a), Len(b)) |-> <<a[i], b[i]>>]
  /\ tl_trim(tl_unzip(tl_zip_all(a, b, Pair)).first, unit_t) = a
  /\ tl_zip_right(a, a, Pair, n) = tl_right(tl_zip(a, a, Pair), n)
  /\ tl_reverse(a) = Reverse(a) /\ tl_reverse(a \o b) = tl_reverse(b) \o tl_reverse(a)
  /\ ToSet(distinct) = ToSet(a) /\ tl_size(distinct) = Cardinality(ToSet(a))
  /\ \A x, y \in ToSet(a) : tl_find(distinct, x) < tl_find(distinct, y)
                              <=> tl_find(a, x) < tl_find(a, y)
  /\ FlattenSeq(groups) = a
  /\ \A i \in DOMAIN groups : /\ Cardinality(ToSet(groups[i])) = 1
                              /\ i > 1 => groups[i - 1][1] # groups[i][1]
  /\ tl_pad_right(a, n, unit_t) = tl_slice(a, 0, n)
  /\ tl_right(tl_pad_left(a, n, unit_t), Len(a)) = a
  /\ tl_equal(a, b) <=> ToSet(a) = ToSet(b)
  /\ il_right(il_indices(a), n) = [j \in 1 .. SmallerOf(n, Len(a)) |->
                                     Len(a) - SmallerOf(n, Len(a)) + j - 1]
  /\ n <= Len(a) => il_take(a, n) = SubSeq(a, 1, n)
------------------------------------------------------------------------------

(* A type is a tuple that starts with its name; void as a result *)
plain(name) == <<name>>
void_t == plain("void")

(* typed_mpi: input types, output types, and the types of with_either *)
Mpi(in, left, right) == [in |-> in, left |-> left, right |-> right]
replies_to(in, out) == Mpi(in, out, <<>>)
reacts_to(in) == Mpi(in, <<void_t>>, <<>>)

(* What a handler may return: plain types, or a wrapper with the types the *)
(* response will have                                                      *)
Promise(ts) == <<"typed_response_promise", ts>>
Continue(ts) == <<"typed_continue_helper", ts>>
Delegated(ts) == <<"delegated", ts>>
EitherOr(l, r) == <<"either_or_t", l, r>>
skip_message_t == <<"skip_message_t">>

(* deduce_mpi: a handler's signature from its arguments and its result, a  *)
(* type list here: the elements of a tuple are not converted.              *)
implicit_conversions(t) ==
  CASE t[1] \in {"const char*", "char*", "char[]"} -> plain("string")
    [] t[1] \in {"const char16_t*", "char16_t*", "char16_t[]"} -> plain("u16string")
    [] t[1] \in {"const char32_t*", "char32_t*", "char32_t[]"} -> plain("u32string")
    [] t[1] \in {"abstract_actor*", "scoped_actor"} -> plain("actor")
    [] OTHER -> t
lifted_result_type(result) ==
  IF Len(result) = 1 THEN <<implicit_conversions(result[1])>> ELSE result
deduce_mpi(args, result) ==
  IF Len(result) = 1 /\ result[1][1] = "either_or_t"
  THEN Mpi(args, result[1][2], result[1][3])
  ELSE Mpi(args, lifted_result_type(result), <<>>)

is_hidden_msg_handler(m) == m \in {reacts_to(<<plain("exit_msg")>>), reacts_to(<<plain("down_msg")>>)}

(* ctm_cmp: the handler y implements the signature x *)
ctm_cmp(x, y) ==
  /\ x.in = y.in
  /\ \/ x.left = y.left /\ (x.right = y.right \/ y.right = <<>>)
     \/ y.right = <<>> /\
        \/ x.right = <<>> /\ y.left \in {<<Continue(x.left)>>, <<Promise(x.left)>>,
                                          <<Delegated(x.left)>>}
        \/ y.left = <<skip_message_t>>
        \/ y.left \in {<<Promise(EitherOr(x.left, x.right))>>,
                       <<Delegated(EitherOr(x.left, x.right))>>}
        \/ y.left = x.right

(* mutant: a signature no handler matches is passed over *)
CtmIgnoresMissing(xs, ys, pos) ==
  CASE xs = <<>> -> IF ys = <<>> THEN -1 ELSE -2
    [] xs # <<>> /\ tl_exists(ys, {y \in ToSet(ys) : \E i \in DOMAIN xs : ctm_cmp(xs[i], y)}) -> -1
    [] OTHER -> pos

(* ctm_impl: -1 if handlers ys implement signatures xs, otherwise -2 or    *)
(* the position of the first signature without a handler                   *)
RECURSIVE ctm_impl(_, _, _)
ctm_impl(xs, ys, pos) ==
  LET next == tl_filter_not(ys, {y \in ToSet(ys) : ctm_cmp(xs[1], y)})
  IN  CASE xs = <<>> -> IF ys = <<>> THEN -1 ELSE IF tl_size(xs) < tl_size(ys) THEN -2 ELSE -3
        [] xs # <<>> /\ tl_size(next) = tl_size(ys) -> pos
        [] OTHER -> ctm_impl(Tail(xs), next, pos + 1)
ctm(xs, ys) == ctm_impl(xs, ys, 0)

(* typed_behavior::set compiles *)
set(signatures, handlers) ==
  ctm(signatures, tl_filter_not(handlers, {h \in ToSet(handlers) : is_hidden_msg_handler(h)})) = -1

(* typed_actor's converting constructor and assignment *)
Assignable(signatures, other) == tlf_is_subset(signatures, other)

(* no signature has that input *)
unsupported == [opt1 |-> <<>>, opt2 |-> <<>>, delegated_type |-> <<>>]

(* deduce_output_type: what the first signature with that input replies *)
deduce_output_type(signatures, in) ==
  LET pos == tl_find_if(signatures, {x \in ToSet(signatures) : x.in = in})
      s == tl_at(signatures, pos)
  IN  IF pos = -1 THEN unsupported
      ELSE [opt1 |-> s.left, opt2 |-> s.right,
            delegated_type |-> IF s.right = <<>> THEN Delegated(s.left)
                               ELSE Delegated(EitherOr(s.left, s.right))]

(* type_checker: which functors a typed response handle takes for a reply, *)
(* each given by its arguments; one functor is compared with opt1 alone    *)
CheckOne(output, args) == output = args \/ (output = <<void_t>> /\ args = <<>>)
type_checker(out, fs) ==
  CheckOne(out.opt1, fs[1]) /\ (Len(fs) = 2 => CheckOne(out.opt2, fs[2]))

(* then and await of a typed response_handle compile; the second output is *)
(* never none_t, so await takes two functors for any reply                 *)
then(out, fs) == Len(fs) \in {1, 2} /\ type_checker(out, fs)
is_either_or_handle(out) == TRUE
await(out, fs) == Len(fs) \in (IF is_either_or_handle(out) THEN {1, 2} ELSE {1}) /\ type_checker(out, fs)

(* sender_signature_checker: replies, and the replies to them, in turn, up *)
(* to a void result; the template is instantiated once per argument list,  *)
(* so types seen before need no further look                               *)
RECURSIVE sender_signature_checker(_, _, _, _)
sender_signature_checker(orig, dest, args, seen) ==
  \/ args \in {<<void_t>>, <<>>} \/ <<orig, dest, args>> \in seen
  \/ LET out == deduce_output_type(dest, args)
         now == seen \cup {<<orig, dest, args>>}
     IN  /\ out # unsupported
         /\ sender_signature_checker(dest, orig, out.opt1, now)
         /\ sender_signature_checker(dest, orig, out.opt2, now)
------------------------------------------------------------------------------
Implements(x, y) ==
  \/ y.left = <<skip_message_t>>
  \/ \E ts \in {x.left, x.right} : ts # <<>> /\ (y.left = ts \/ y.left \in
        {<<Promise(ts)>>, <<Continue(ts)>>, <<Delegated(ts)>>})
  \/ y.left \in {<<Promise(EitherOr(x.left, x.right))>>,
                 <<Delegated(EitherOr(x.left, x.right))>>}

(* When typed_behavior accepts a set of handlers, every message of the     *)
(* interface has a handler whose result the interface announces, and every *)
(* handler but those of exit and down messages belongs to a message of the *)
(* interface.  Handlers in another order are accepted alike.               *)
CtmSound(signatures, handlers) ==
  /\ set(signatures, handlers) =>
       /\ \A i \in DOMAIN signatures : \E j \in DOMAIN handlers :
            handlers[j].in = signatures[i].in /\ Implements(signatures[i], handlers[j])
       /\ \A j \in DOMAIN handlers : is_hidden_msg_handler(handlers[j]) \/
            deduce_output_type(signatures, handlers[j].in) # unsupported
  /\ set(signatures, handlers) <=> set(signatures, Reverse(handlers))

(* A handle that may be assigned from another one never promises a message *)
(* or a reply the other one does not know, if inputs are distinct.         *)
HandlesNarrow(signatures, other) ==
  Assignable(signatures, other) /\ tl_is_distinct(tl_map(other, [x \in ToSet(other) |-> x.in])) =>
    \A i \in DOMAIN signatures :
       deduce_output_type(signatures, signatures[i].in)
         = deduce_output_type(other, signatures[i].in)

(* Functors that a typed handle accepts take every reply of the actor: one *)
(* is enough for a message with one kind of reply, and for with_either     *)
(* each kind has a functor once there are two.                             *)
RepliesHandled(signatures, fs) ==
  \A i \in DOMAIN signatures :
    LET out == deduce_output_type(signatures, signatures[i].in)
        Takes(reply) == \E j \in DOMAIN fs : fs[j] = reply \/ (reply = <<void_t>> /\ fs[j] = <<>>)
    IN  /\ then(out, fs) => Takes(out.opt1)
        /\ Len(fs) = 2 /\ then(out, fs) => Takes(out.opt2)
        /\ await(out, fs) <=> then(out, fs)
==============================================================================
