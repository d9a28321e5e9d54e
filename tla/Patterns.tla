------------------------------- MODULE Patterns -------------------------------
(***************************************************************************)
(* How a behavior finds the handler of a message: type numbers and type    *)
(* tokens (type_nr.hpp), the wildcard matching of try_match.cpp, match     *)
(* cases with their guards and projections (match_case.hpp,                *)
(* match_case_builder.hpp, on.hpp) and behaviors (behavior_impl).          *)
(* A message is a sequence of [type, val]; a pattern is a sequence of      *)
(* meta elements [type, v], where v is an atom constant or none.           *)
(***************************************************************************)
EXTENDS TypedActors

(* optional<T>: an empty sequence or one with the value *)
none == <<>>
some(x) == <<x>>

(* the builtin types, sorted by uniform name *)
sorted_builtin_types ==
  <<"actor", "actorvec", "addr", "addrvec", "atom", "channel", "charbuf", "down",
    "duration", "exit", "group", "group_down", "i16", "i32", "i64", "i8", "ldouble",
    "message", "message_id", "node", "str", "strmap", "strset", "strvec",
    "sync_exited", "sync_timeout", "timeout", "u16", "u16_str", "u32", "u32_str",
    "u64", "u8", "unit", "bool", "double", "float">>

(* C++ integer types by size and sign, as on a 64 bit platform *)
int_types_by_size(t) ==
  CASE t \in {"char", "signed char"} -> "i8"
    [] t = "unsigned char" -> "u8"
    [] t \in {"long", "long long"} -> "i64"
    [] t \in {"unsigned long", "unsigned long long"} -> "u64"
    [] OTHER -> t

(* mutant: integers are looked up by their own name *)
ExactTypeNr(t) == tl_find(sorted_builtin_types, t) + 1

(* 0 for a user-defined type *)
type_nr(t) == tl_find(sorted_builtin_types, int_types_by_size(t)) + 1

(* A token is a 32 bit word that starts as 0xFFFFFFFF and takes six bits   *)
(* per element: the last five numbers and two bits of the one before.      *)
EmptyToken == <<3, 63, 63, 63, 63, 63>>
add_to_type_token(token, nr) == <<token[2] % 4, token[3], token[4], token[5], token[6], nr>>
make_type_token(types) ==
  FoldLeft(LAMBDA token, t : add_to_type_token(token, type_nr(t)), EmptyToken, types)

anything == [type |-> "anything", v |-> none]
Types(elements) == [i \in DOMAIN elements |-> elements[i].type]
is_wildcard(me) == me = anything

(* message_data::match_element: numbers decide, run-time types those of 0 *)
match_type(t, u) == type_nr(t) = type_nr(u) /\ (type_nr(t) = 0 => t = u)
match_element(me, e) ==
  match_type(me.type, e.type) /\ (me.v # none => me.v = some(e.val))

(* set_commit_rollback: data[i] is the position stored in slot i *)
commit(st) == [st EXCEPT !.fallback = st.pos]
rollback(st) == [st EXCEPT !.pos = st.fallback]
store(st, p) == [st EXCEPT !.pos = @ + 1,
                           !.data = [i \in 1 .. (IF st.pos < Len(st.data) THEN Len(st.data) ELSE st.pos + 1)
                                        |-> IF i = st.pos + 1 THEN p ELSE st.data[i]]]

RECURSIVE submatch(_, _, _, _), scan(_, _, _, _)
submatch(msg, p, pattern, st) ==
  CASE p > Len(msg) -> [st EXCEPT !.ok = \A i \in DOMAIN pattern : is_wildcard(pattern[i])]
    [] p <= Len(msg) /\ pattern = <<>> -> [st EXCEPT !.ok = FALSE]
    [] p <= Len(msg) /\ pattern = <<anything>> -> [st EXCEPT !.ok = TRUE]
    [] p <= Len(msg) /\ Len(pattern) > 1 /\ is_wildcard(Head(pattern)) ->
         scan(msg, p, Tail(pattern), commit(st))
    [] OTHER -> IF match_element(Head(pattern), msg[p])
                THEN submatch(msg, p + 1, Tail(pattern), store(st, p))
                ELSE [st EXCEPT !.ok = FALSE]
scan(msg, p, pattern, st) ==
  LET r == submatch(msg, p, pattern, st)
  IN  CASE p > Len(msg) -> [st EXCEPT !.ok = FALSE]
        [] p <= Len(msg) /\ r.ok -> r
        [] OTHER -> scan(msg, p + 1, pattern, rollback(r))

try_match(msg, pattern) ==
  submatch(msg, 1, pattern, [ok |-> FALSE, pos |-> 0, fallback |-> 0, data |-> <<>>])

(* Guards and projections map a value to an optional value; `unit` passes  *)
(* the element on.  on(...) has one for each element of the pattern.       *)
unit == [x \in {} |-> x]
Project(g, x) == IF g = unit THEN some(x) ELSE IF x \in DOMAIN g THEN some(g[x]) ELSE none
guarded(value) == [x \in {value} |-> value]

filtered_pattern(pattern) == tl_filter_not(pattern, {anything})
(* make_guards: those of the wildcards are dropped, the others keep their order *)
make_guards(pattern, fs) ==
  LET kept == SelectSeq([i \in DOMAIN fs |-> i], LAMBDA i : ~is_wildcard(pattern[i]))
  IN  [j \in DOMAIN kept |-> fs[kept[j]]]
pattern_has_wildcard(pattern) == tl_exists(pattern, {anything})

(* What a handler returned, as an optional message; skip is none *)
optional_message_visitor(r) ==
  CASE r.kind \in {"none", "skip"} -> none
    [] r.kind = "optional_skip" -> IF r.val = none THEN some(<<>>) ELSE none
    [] r.kind \in {"void", "promise"} -> some(<<>>)
    [] r.kind = "id" -> some(<<"MESSAGE_ID", r.val>>)
    [] r.kind \in {"value", "either_or", "tuple"} -> some(r.val)

Case(kind, pattern, guards, nargs, result) ==
  [kind |-> kind, pattern |-> pattern, guards |-> guards, nargs |-> nargs, result |-> result,
   has_wildcard |-> kind = "catch_all" \/ pattern_has_wildcard(pattern),
   type_token |-> make_type_token(Types(pattern))]
trivial_match_case(args, result) == Case("trivial", args, <<>>, Len(args), result)
catch_all_match_case(result) == Case("catch_all", <<>>, <<>>, 0, result)
(* on(...) >> f: with arg_match the arguments of f extend the pattern *)
advanced_match_case(pattern, guards, uses_arg_match, fargs, result) ==
  LET full == IF uses_arg_match THEN pattern \o fargs ELSE pattern
  IN  Case("advanced", full,
           tl_pad_right(make_guards(pattern, guards), tl_size(filtered_pattern(full)), unit), Len(fargs), result)

(* the values of the matched elements after projection, left then right *)
prepare_invoke(c, msg) ==
  LET st == try_match(msg, c.pattern)
      n == tl_size(filtered_pattern(c.pattern))
      value(i) == IF c.guards = <<>> THEN some(msg[st.data[i]].val)
                  ELSE Project(c.guards[i], msg[st.data[i]].val)
      lefts == il_take([i \in 1 .. n |-> i], n - c.nargs)
      rights == il_right([i \in 1 .. n |-> i], c.nargs)
  IN  IF ~st.ok \/ \E i \in ToSet(lefts \o rights) : value(i) = none THEN none
      ELSE some([j \in DOMAIN rights |-> value(rights[j])[1]])

no_match == [matched |-> FALSE, res |-> none, args |-> <<>>]
invoke_case(c, msg) ==
  IF c.kind = "catch_all"
  THEN [matched |-> TRUE, res |-> optional_message_visitor(c.result), args |-> <<>>]
  ELSE LET args == prepare_invoke(c, msg)
       IN  IF args = none THEN no_match
           ELSE [matched |-> TRUE, res |-> optional_message_visitor(c.result), args |-> args[1]]

(* behavior_impl: the first case that passes its token and matches decides *)
RECURSIVE invoke_impl(_, _)
invoke_impl(cases, msg) ==
  LET c == Head(cases)
      r == invoke_case(c, msg)
  IN  CASE cases = <<>> -> no_match
        [] cases # <<>> /\ (c.has_wildcard \/ c.type_token = make_type_token(Types(msg)))
             /\ r.matched -> r
        [] OTHER -> invoke_impl(Tail(cases), msg)

(* `after` is none or the duration of the timeout definition in last place *)
make_behavior(cases, after) == [kind |-> "default", cases |-> cases, timeout |-> after]
(* the second behavior's timeout overrides the first one's *)
or_else(f, s) == [kind |-> "combinator", first |-> f, second |-> s, timeout |-> s.timeout]
RECURSIVE invoke(_, _)
invoke(b, msg) ==
  IF b.kind = "default" THEN invoke_impl(b.cases, msg)
  ELSE LET r == invoke(b.first, msg) IN IF r.res # none THEN r ELSE invoke(b.second, msg)
-------------------------------------------------------------------------------
(* Where the elements of a pattern other than wildcards may sit in msg     *)
(* from position p on: next to each other unless a wildcard is between     *)
(* them, and up to the end unless the pattern ends with one; an element    *)
(* fits one of the same type and, for an atom constant, the same value.    *)
Fits(me, e) == /\ int_types_by_size(me.type) = int_types_by_size(e.type)
               /\ me.v # none => me.v = some(e.val)
RECURSIVE LayoutsFrom(_, _, _, _)
LayoutsFrom(msg, pattern, p, skips) ==
  CASE pattern = <<>> -> IF skips \/ p > Len(msg) THEN {<<>>} ELSE {}
    [] pattern # <<>> /\ is_wildcard(Head(pattern)) -> LayoutsFrom(msg, Tail(pattern), p, TRUE)
    [] OTHER -> UNION {{<<i>> \o f : f \in LayoutsFrom(msg, Tail(pattern), i + 1, FALSE)} :
                         i \in {i \in p .. Len(msg) : /\ skips \/ i = p
                                                    /\ Fits(Head(pattern), msg[i])}}
Layouts(msg, pattern) == LayoutsFrom(msg, pattern, 1, FALSE)

(* try_match succeeds exactly when the pattern can be laid over the        *)
(* message, and stores the leftmost such layout; with one wildcard before  *)
(* the last element it never writes past the tuple that holds the result.  *)
MatchAgrees(msg, pattern) ==
  LET st == try_match(msg, pattern)
      k == tl_size(filtered_pattern(pattern))
      layouts == Layouts(msg, pattern)
  IN  /\ st.ok <=> layouts # {}
      /\ st.ok => /\ SubSeq(st.data, 1, k) \in layouts
                  /\ \A f \in layouts, i \in 1 .. k : st.data[i] <= f[i]
      /\ Cardinality({i \in DOMAIN pattern : i < Len(pattern) /\ is_wildcard(pattern[i])}) <= 1
           => Len(st.data) <= k

(* A behavior answers with its first case that accepts the message: the    *)
(* comparison of tokens, which forgets all but the last elements, never    *)
(* passes over a case that would match and never lets a wrong one match.   *)
(* Cutting the cases in two behaviors joined by or_else makes a difference *)
(* only for a message that the first one skips.                            *)
FirstCaseWins(cases, msg) ==
  LET Accepts(c) ==
        \/ c.kind = "catch_all"
        \/ \E f \in Layouts(msg, c.pattern) :
             /\ \A g \in Layouts(msg, c.pattern), i \in DOMAIN f : f[i] <= g[i]
             /\ c.guards # <<>> => \A i \in DOMAIN f : Project(c.guards[i], msg[f[i]].val) # none
      hits == {i \in DOMAIN cases : Accepts(cases[i])}
      r == invoke(make_behavior(cases, none), msg)
  IN  /\ IF hits = {} THEN r = no_match
         ELSE \E i \in hits : (\A j \in hits : i <= j) /\ r = invoke_case(cases[i], msg)
      /\ \A k \in DOMAIN cases :
           LET f == make_behavior(SubSeq(cases, 1, k), none)
               s == make_behavior(SubSeq(cases, k + 1, Len(cases)), some(1))
               skipped == invoke(f, msg).matched /\ invoke(f, msg).res = none
           IN  /\ or_else(f, s).timeout = some(1)
               /\ invoke(or_else(f, s), msg) = IF skipped THEN invoke(s, msg) ELSE r
===============================================================================
