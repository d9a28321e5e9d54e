---------------------------- MODULE Serialization ----------------------------
(***************************************************************************)
(* What the type informations write and read: the processing of builtin    *)
(* types (uniform_type_info_map.cpp), the policies for announced types     *)
(* (default_uniform_type_info.hpp), the lookup of types by name, and the   *)
(* two formats, binary (binary_serializer.cpp, binary_deserializer.cpp)    *)
(* and string (string_serialization.cpp).                                  *)
(* A type is [k, args] and has its value's shape; a sink collects events.  *)
(* Characters of strings are "c", a quote "q" and a backslash "b".         *)
(***************************************************************************)
EXTENDS Patterns

CONSTANT Here   \* host and process id of this node

T(k, args) == [k |-> k, args |-> args, name |-> k]
Struct(name, members) == [k |-> "struct", args |-> members, name |-> name]
MessageType == T("message", <<>>)
Ints == {"u8", "u16", "u32", "u64", "i32", "i64"}
WideStrings == {"u16_str", "u32_str"}
Primitives == Ints \cup WideStrings \cup {"bool", "str", "atom"}
WideChar(k) == IF k = "u16_str" THEN "u16" ELSE "u32"

(* serializer: the calls a type's serialize makes *)
Value(k, v) == [op |-> "value", k |-> k, v |-> v]
Raw(v) == [op |-> "raw", k |-> "raw", v |-> v]
Begin(type) == [op |-> "begin", k |-> "object", v |-> type]
End == [op |-> "end", k |-> "object", v |-> <<>>]
BeginSeq(n) == [op |-> "begin_seq", k |-> "seq", v |-> n]
EndSeq == [op |-> "end_seq", k |-> "seq", v |-> <<>>]

(* what process makes of the builtin types; id 0 is the invalid address *)
ZeroHost == "00"
invalid_addr == [id |-> 0, host |-> ZeroHost, pid |-> 0]
invalid_node == [host |-> ZeroHost, pid |-> 0]
invalid_group == [module |-> <<>>, id |-> <<>>]
write_node(n) == <<Raw(n.host), Value("u32", n.pid)>>
write_addr(a) == <<Value("u32", a.id)>> \o write_node([host |-> a.host, pid |-> a.pid])
write_group(g) == <<Value("str", g.module)>> \o
                  (IF g = invalid_group THEN <<>> ELSE <<Value("str", g.id)>>)
write_channel(c) ==
  CASE c = none -> <<Value("u8", 0)>>
    [] c # none /\ c[1] = "actor" -> <<Value("u8", 1)>> \o write_addr(c[2])
    [] c # none /\ c[1] = "group" -> <<Value("u8", 2)>> \o write_group(c[2])
time_unit == [invalid |-> 0, seconds |-> 1, milliseconds |-> 1000, microseconds |-> 1000000]
(* the messages of brokers: handles are numbers, a buffer follows its size *)
IoMessages == {"new_connection_msg", "new_data_msg", "connection_closed_msg", "acceptor_closed_msg"}
write_handle(h) == <<Value("i64", h)>>
write_buf(buf) == <<Value("u32", Len(buf))>> \o [i \in DOMAIN buf |-> Raw(buf[i])]
io_write(t, v) ==
  CASE t.k = "new_connection_msg" -> write_handle(v.source) \o write_handle(v.handle)
    [] t.k = "new_data_msg" -> write_handle(v.handle) \o write_buf(v.buf)
    [] OTHER -> write_handle(v.handle)
process_write(t, v) ==
  CASE t.k \in Primitives -> <<Value(t.k, v)>>
    [] t.k \in {"unit", "sync_timeout"} -> <<>>
    [] t.k \in {"addr", "actor"} -> write_addr(v)
    [] t.k = "node" -> write_node(v)
    [] t.k \in {"down", "exit", "sync_exited"} -> write_addr(v.source) \o <<Value("u32", v.reason)>>
    [] t.k = "group" -> write_group(v)
    [] t.k = "group_down" -> write_group(v.source)
    [] t.k = "channel" -> write_channel(v)
    [] t.k = "duration" -> <<Value("u32", time_unit[v.unit]), Value("u64", v.count)>>
    [] t.k = "message_id" -> <<Value("u64", v)>>
    [] t.k = "timeout" -> <<Value("u32", v)>>
    [] t.k \in IoMessages -> io_write(t, v)

(* the type information of a whole message *)
TupleType(types) == [k |-> "tuple", args |-> types, name |-> "@<>"]

RECURSIVE serialize(_, _)
Concat(types, vs) == FlattenSeq([i \in DOMAIN vs |-> serialize(types[i], vs[i])])
(* default_serialize_policy and the members of an announced type: lists and *)
(* maps share code, an enum is its underlying integer, an empty class and a *)
(* typed handle have an information of their own                            *)
simpl(t, v) ==
  CASE t.k \in {"list", "map"} ->
         LET elem == IF t.k = "list" THEN t.args[1] ELSE T("pair", t.args)
         IN  <<BeginSeq(Len(v))>> \o Concat([i \in DOMAIN v |-> elem], v) \o <<EndSeq>>
    [] t.k = "pair" -> Concat(t.args, v)
    [] t.k = "opt" -> IF v = none THEN <<Value("u8", 0)>>
                      ELSE <<Value("u8", 1)>> \o serialize(t.args[1], v[1])
member_write(t, v) == CASE t.k = "enum" -> serialize(t.args[1], v) [] t.k = "empty" -> <<>>
typed_actor_write(v) == process_write(T("actor", <<>>), v)
message_write(v) ==
  LET types == [i \in DOMAIN v |-> v[i].type]
  IN  <<Begin(TupleType(types))>> \o Concat(types, [i \in DOMAIN v |-> v[i].val]) \o <<End>>
serialize(t, v) ==
  CASE t.k \in {"list", "map", "pair", "opt"} -> simpl(t, v)
    [] t.k \in {"enum", "empty"} -> member_write(t, v)
    [] t.k \in {"struct", "tuple"} -> Concat(t.args, v)
    [] t.k = "typed_actor" -> typed_actor_write(v)
    [] t.k = "message" -> message_write(v)
    [] OTHER -> process_write(t, v)

(* binary_serializer: integers of fixed width, strings after their size *)
Unit(w, v) == [w |-> w, v |-> v]
IsChar(u, ch) == u.w = "char" /\ u.v = ch
write_string(s) == <<Unit("u32", Len(s))>> \o [i \in DOMAIN s |-> Unit("char", s[i])]
binary_write(e) ==
  CASE e.op = "value" /\ e.k \in Ints -> <<Unit(e.k, e.v)>>
    [] e.op = "value" /\ e.k = "bool" -> <<Unit("u8", IF e.v THEN 1 ELSE 0)>>
    [] e.op = "value" /\ e.k = "atom" -> <<Unit("u64", e.v)>>
    [] e.op = "value" /\ e.k = "str" -> write_string(e.v)
    [] e.op = "value" /\ e.k \in WideStrings ->
         <<Unit("u32", Len(e.v))>> \o [i \in DOMAIN e.v |-> Unit(WideChar(e.k), e.v[i])]
    [] e.op = "raw" -> <<Unit("raw", e.v)>>
    [] e.op = "begin" -> LET nr == type_nr(e.v.name)
                         IN  <<Unit("u16", nr)>> \o
                             (IF nr # 0 THEN <<>> ELSE <<Unit("u32", 1), Unit("name", e.v)>>)
    [] e.op = "begin_seq" -> <<Unit("u32", e.v)>>
    [] e.op \in {"end", "end_seq"} -> <<>>

(* string_serializer: punctuation depends on what was written before *)
isbuiltin(type) == type.k \in {"str", "atom"}
escape(s) == FlattenSeq([i \in DOMAIN s |-> IF s[i] = "q" THEN <<"b", "q">> ELSE <<s[i]>>])
Text(s) == [i \in DOMAIN s |-> Unit("char", s[i])]
pt_writer(k, v) ==
  CASE k \in Ints -> <<Unit("number", v)>>
    [] k = "bool" -> <<Unit("word", v)>>
    [] k = "str" -> Text(<<"q">> \o escape(v) \o <<"q">>)
    [] k = "atom" -> Text(<<"a">>) \o <<Unit("word", v)>> \o Text(<<"a">>)
    [] k \in WideStrings -> <<>>
clear(st) ==
  CASE st.after_value -> [st EXCEPT !.out = Append(@, Unit("char", ",")), !.after_value = FALSE]
    [] ~st.after_value /\ st.just_opened ->
         [st EXCEPT !.just_opened = FALSE,
                    !.out = IF st.open # <<>> /\ ~isbuiltin(Last(st.open))
                            THEN Append(@, Unit("char", "(")) ELSE @]
    [] OTHER -> st
string_write(st, e) ==
  LET c == clear(st)
  IN CASE e.op = "begin" ->
         LET o == [c EXCEPT !.open = Append(@, e.v)]
         IN  IF isbuiltin(e.v) \/ e.v.k = "message" THEN o
             ELSE [o EXCEPT !.out = Append(@, Unit("name", e.v)), !.just_opened = TRUE]
    [] e.op = "end" ->
         [st EXCEPT !.just_opened = FALSE, !.after_value = TRUE, !.open = SubSeq(@, 1, Len(@) - 1),
                    !.out = IF isbuiltin(Last(st.open)) \/ Last(st.open).k = "message" THEN @
                            ELSE Append(@, Unit("char", ")"))]
    [] e.op = "begin_seq" -> [c EXCEPT !.out = Append(@, Unit("char", "{"))]
    [] e.op = "end_seq" -> [st EXCEPT !.out = Append(@, Unit("char", "}")), !.after_value = TRUE]
    [] e.op = "value" -> [c EXCEPT !.out = @ \o pt_writer(e.k, e.v), !.after_value = TRUE]
    [] e.op = "raw" -> [c EXCEPT !.out = Append(@, Unit("word", e.v)), !.after_value = TRUE]

ToBinary(t, v) == FlattenSeq([i \in DOMAIN serialize(t, v) |-> binary_write(serialize(t, v)[i])])
to_string(t, v) ==
  FoldLeft(string_write, [out |-> <<>>, after_value |-> FALSE, just_opened |-> FALSE, open |-> <<>>],
           <<Begin(t)>> \o serialize(t, v) \o <<End>>).out
------------------------------------------------------------------------------
(* Readers yield [ok, val, src]; ok is FALSE after an exception.  A source *)
(* is [fmt, in, open]: the rest of the input and the open objects, with    *)
(* whether a parenthesis followed their name.                              *)
Fail(src) == [ok |-> FALSE, val |-> none, src |-> src]
Read(val, src) == [ok |-> TRUE, val |-> val, src |-> src]
Then(r, Next(_, _)) == IF r.ok THEN Next(r.val, r.src) ELSE r
Advance(src, n) == [src EXCEPT !.in = SubSeq(@, n + 1, Len(@))]

RECURSIVE skip_space_and_comma(_)
skip_space_and_comma(src) ==
  IF src.in # <<>> /\ IsChar(Head(src.in), ",") THEN skip_space_and_comma(Advance(src, 1)) ELSE src
consume(src0, ch) ==
  LET src == skip_space_and_comma(src0)
  IN  IF src.in # <<>> /\ IsChar(Head(src.in), ch) THEN Read(none, Advance(src, 1)) ELSE Fail(src)

(* range_check and the width of what is read *)
read_int(src, w) ==
  IF src.in # <<>> /\ Head(src.in).w = w THEN Read(Head(src.in).v, Advance(src, 1)) ELSE Fail(src)
(* mutant: the size read from the input is believed *)
ReadUnchecked(src, n, w) ==
  LET have == IF n > Len(src.in) THEN Len(src.in) ELSE n
  IN  Read([i \in 1 .. have |-> src.in[i].v], Advance(src, have))
read_chars(src, n, w) ==
  IF n > Len(src.in) \/ \E i \in 1 .. n : src.in[i].w # w THEN Fail(src)
  ELSE Read([i \in 1 .. n |-> src.in[i].v], Advance(src, n))

binary_read(src, k) ==
  CASE k \in Ints \cup {"raw"} -> read_int(src, k)
    [] k = "bool" -> Then(read_int(src, "u8"), LAMBDA v, s : Read(v # 0, s))
    [] k = "atom" -> read_int(src, "u64")
    [] k = "str" -> Then(read_int(src, "u32"), LAMBDA n, s : read_chars(s, n, "char"))
    [] k \in WideStrings -> Then(read_int(src, "u32"), LAMBDA n, s : read_chars(s, n, WideChar(k)))

(* string_deserializer::read_value: a quoted value ends at the first quote *)
(* without a backslash before it                                           *)
integrity_check(src) ==
  src.open # <<>> /\ (Last(src.open).paren \/ isbuiltin(Last(src.open).type))
RECURSIVE unescape(_)
unescape(s) ==
  CASE Len(s) < 2 -> s
    [] Len(s) >= 2 /\ s[1] = "b" /\ s[2] = "q" -> <<"q">> \o unescape(SubSeq(s, 3, Len(s)))
    [] OTHER -> <<s[1]>> \o unescape(Tail(s))
read_quoted(src) ==
  LET IsQuote(i) == IsChar(src.in[i], "q")
      ends == {i \in 2 .. Len(src.in) : IsQuote(i) /\ ~IsChar(src.in[i - 1], "b")}
  IN  IF src.in = <<>> \/ ~IsQuote(1) \/ ends = {} THEN Fail(src)
      ELSE LET last == CHOOSE i \in ends : \A j \in ends : i <= j
           IN  Read(unescape([i \in 1 .. last - 2 |-> src.in[i + 1].v]), Advance(src, last))
(* from_string_reader: what >> makes of an unquoted value; a stream that   *)
(* was not told boolalpha takes neither of the words for TRUE              *)
from_string_reader(src, k) ==
  Then(read_int(src, IF k \in Ints THEN "number" ELSE "word"), LAMBDA v, s :
    Read(IF k = "bool" THEN FALSE ELSE v, s))
(* the separator that the objects of these types have in front of a value *)
separator(src, k) ==
  LET top == IF src.open = <<>> THEN "none" ELSE Last(src.open).type.k
  IN  CASE k = "raw" /\ top \in {"actor", "addr"} -> "@"
        [] k # "raw" /\ top = "node" -> ":"
        [] OTHER -> ","
separated(src, ch) == IF ch = "," THEN Read(none, skip_space_and_comma(src)) ELSE consume(src, ch)
string_read(src0, k) ==
  IF ~integrity_check(src0) \/ k \in WideStrings THEN Fail(src0)
  ELSE Then(separated(src0, separator(src0, k)), LAMBDA w, src :
         CASE k = "str" -> read_quoted(src)
           [] k = "atom" ->
                Then(consume(src, "a"), LAMBDA x, s : Then(read_int(s, "word"),
                  LAMBDA v, s2 : Then(consume(s2, "a"), LAMBDA y, s3 : Read(v, s3))))
           [] OTHER -> from_string_reader(src, k))
read_value(src, k) == IF src.fmt = "binary" THEN binary_read(src, k) ELSE string_read(src, k)
RECURSIVE read_values(_, _)
read_values(src, ks) ==
  IF ks = <<>> THEN Read(<<>>, src)
  ELSE Then(read_value(src, Head(ks)), LAMBDA v, s :
         Then(read_values(s, Tail(ks)), LAMBDA vs, s2 : Read(<<v>> \o vs, s2)))

binary_begin_sequence(src) == read_int(src, "u32")
(* a number for builtin types, otherwise the length of a name and the name *)
binary_begin_object(src) ==
  Then(read_int(src, "u16"), LAMBDA nr, s :
    IF nr # 0 THEN Read(T(sorted_builtin_types[nr], <<>>), s)
    ELSE Then(read_int(s, "u32"), LAMBDA n, s2 : read_int(s2, "name")))

(* begin_sequence: the string format counts commas up to the next brace *)
begin_sequence(src) ==
  IF src.fmt = "binary" THEN binary_begin_sequence(src)
  ELSE IF ~integrity_check(src) THEN Fail(src)
  ELSE Then(consume(src, "{"), LAMBDA x, s :
         LET braces == {i \in DOMAIN s.in : IsChar(s.in[i], "}")} \cup {Len(s.in) + 1}
             brace == CHOOSE i \in braces : \A j \in braces : i <= j
         IN  Read(1 + Cardinality({i \in 1 .. brace - 1 : IsChar(s.in[i], ",")}), s))
end_sequence(src) == IF src.fmt = "binary" THEN Read(none, src) ELSE consume(src, "}")

(* by_type_nr and by_uniform_name: user types have to be announced here; a *)
(* tuple's name is known to everyone but its elements may be null          *)
Known(type, announced) == type_nr(type.name) # 0 \/ type.name = "@<>" \/ type.name \in announced
begin_object(src, announced) ==
  LET r == IF src.fmt = "binary" THEN binary_begin_object(src)
           ELSE LET s == skip_space_and_comma(src)
                IN  CASE s.in = <<>> -> Fail(s)
                      [] s.in # <<>> /\ IsChar(Head(s.in), "q") -> Read(T("str", <<>>), s)
                      [] s.in # <<>> /\ IsChar(Head(s.in), "a") -> Read(T("atom", <<>>), s)
                      [] s.in # <<>> /\ Head(s.in).w = "number" -> Read(T("i32", <<>>), s)
                      [] OTHER -> read_int(s, "name")
  IN  Then(r, LAMBDA type, s :
        IF ~Known(type, announced) THEN Fail(s)
        ELSE LET p == consume(s, "(")
             IN  Read(type, [p.src EXCEPT !.open = Append(@, [type |-> type, paren |-> p.ok])]))
end_object(src) ==
  LET closed == [src EXCEPT !.open = SubSeq(@, 1, Len(@) - 1)]
  IN  IF src.fmt = "string" /\ Last(src.open).paren
      THEN Then(consume(src, ")"), LAMBDA x, s : Read(none, [closed EXCEPT !.in = s.in]))
      ELSE Read(none, closed)

read_node(src) ==
  Then(read_values(src, <<"raw", "u32">>), LAMBDA n, s : Read([host |-> n[1], pid |-> n[2]], s))
(* actor_namespace::read.  A local actor is in the registry since it was   *)
(* written and did not end in between; a remote one gets a proxy, but none *)
(* from the string reader's backend: its null pointer is dereferenced      *)
read_addr(src) ==
  Then(read_values(src, <<"u32", "raw", "u32">>), LAMBDA vs, s :
    LET addr == [id |-> vs[1], host |-> vs[2], pid |-> vs[3]]
        IsHere == addr.host = Here.host /\ addr.pid = Here.pid
    IN  IF addr.id = 0 /\ addr.pid = 0 THEN Read(invalid_addr, s)
        ELSE IF ~IsHere /\ src.fmt = "string" THEN Fail(s) ELSE Read(addr, s))
read_group(src) ==
  Then(read_value(src, "str"), LAMBDA module, s :
    IF module = <<>> THEN Read(invalid_group, s)
    ELSE Then(read_value(s, "str"), LAMBDA id, s2 : Read([module |-> module, id |-> id], s2)))
read_channel(src) ==
  Then(read_value(src, "u8"), LAMBDA flag, s :
    CASE flag = 0 -> Read(none, s)
      [] flag = 1 -> Then(read_addr(s), LAMBDA a, s2 : Read(<<"actor", a>>, s2))
      [] flag = 2 -> Then(read_group(s), LAMBDA g, s2 : Read(<<"group", g>>, s2))
      [] OTHER -> Fail(s))
unit_of(n) == CHOOSE u \in DOMAIN time_unit :
                time_unit[u] = IF \E w \in DOMAIN time_unit : time_unit[w] = n THEN n ELSE 0
read_duration(src) ==
  Then(read_values(src, <<"u32", "u64">>), LAMBDA d, s : Read([unit |-> unit_of(d[1]), count |-> d[2]], s))
read_handle(src) == read_value(src, "i64")
read_buf(src) == Then(read_value(src, "u32"), LAMBDA n, s : read_chars(s, n, "raw"))
io_read(t, src) ==
  Then(read_handle(src), LAMBDA h, s :
    CASE t.k = "new_connection_msg" ->
           Then(read_handle(s), LAMBDA c, s2 : Read([source |-> h, handle |-> c], s2))
      [] t.k = "new_data_msg" ->
           Then(read_buf(s), LAMBDA b, s2 : Read([handle |-> h, buf |-> b], s2))
      [] OTHER -> Read([handle |-> h], s))
process_read(t, src) ==
  CASE t.k \in Primitives -> read_value(src, t.k)
    [] t.k \in {"unit", "sync_timeout"} -> Read(<<>>, src)
    [] t.k \in {"addr", "actor"} -> read_addr(src)
    [] t.k = "node" -> read_node(src)
    [] t.k \in {"down", "exit", "sync_exited"} -> Then(read_addr(src), LAMBDA a, s :
         Then(read_value(s, "u32"), LAMBDA r, s2 : Read([source |-> a, reason |-> r], s2)))
    [] t.k = "group" -> read_group(src)
    [] t.k = "group_down" -> Then(read_group(src), LAMBDA g, s : Read([source |-> g], s))
    [] t.k = "channel" -> read_channel(src)
    [] t.k = "duration" -> read_duration(src)
    [] t.k = "message_id" -> read_value(src, "u64")
    [] t.k = "timeout" -> read_value(src, "u32")
    [] t.k \in IoMessages -> io_read(t, src)

RECURSIVE deserialize(_, _, _), read_each(_, _, _)
read_each(types, src, announced) ==
  IF types = <<>> THEN Read(<<>>, src)
  ELSE Then(deserialize(Head(types), src, announced), LAMBDA v, s :
         Then(read_each(Tail(types), s, announced), LAMBDA vs, s2 : Read(<<v>> \o vs, s2)))
dimpl(t, src, announced) ==
  CASE t.k \in {"list", "map"} ->
         LET elem == IF t.k = "list" THEN t.args[1] ELSE T("pair", t.args)
         IN  Then(begin_sequence(src), LAMBDA n, s :
               Then(read_each([i \in 1 .. n |-> elem], s, announced), LAMBDA vs, s2 :
                 Then(end_sequence(s2), LAMBDA x, s3 : Read(vs, s3))))
    [] t.k = "pair" -> read_each(t.args, src, announced)
    [] t.k = "opt" -> Then(read_value(src, "u8"), LAMBDA flag, s :
         IF flag = 0 THEN Read(none, s)
         ELSE Then(deserialize(t.args[1], s, announced), LAMBDA v, s2 : Read(some(v), s2)))
member_read(t, src, announced) ==
  CASE t.k = "enum" -> deserialize(t.args[1], src, announced) [] t.k = "empty" -> Read(<<>>, src)
tuple_read(t, src, announced) ==
  IF \E i \in DOMAIN t.args : ~Known(t.args[i], announced) THEN Fail(src)
  ELSE Then(read_each(t.args, src, announced), LAMBDA vs, s :
         Read([i \in DOMAIN vs |-> [type |-> t.args[i], val |-> vs[i]]], s))
message_read(src, announced) ==
  Then(begin_object(src, announced), LAMBDA type, s :
    Then(deserialize(type, s, announced), LAMBDA msg, s2 :
      Then(end_object(s2), LAMBDA x, s3 : Read(msg, s3))))
deserialize(t, src, announced) ==
  CASE t.k \in {"list", "map", "pair", "opt"} -> dimpl(t, src, announced)
    [] t.k \in {"enum", "empty"} -> member_read(t, src, announced)
    [] t.k = "struct" -> read_each(t.args, src, announced)
    [] t.k = "typed_actor" -> process_read(T("actor", <<>>), src)
    [] t.k = "tuple" -> tuple_read(t, src, announced)
    [] t.k = "message" -> message_read(src, announced)
    [] OTHER -> process_read(t, src)

Source(fmt, input) == [fmt |-> fmt, in |-> input, open |-> <<>>]
from_string_impl(input, announced) ==
  Then(begin_object(Source("string", input), announced),
       LAMBDA type, s : deserialize(type, s, announced))
------------------------------------------------------------------------------
(* What one node writes another one reads back, completely and nothing     *)
(* less: the value, with the whole input consumed; and no proper part of   *)
(* the input passes for it.                                                *)
RoundTrip(t, v, announced) ==
  LET bytes == ToBinary(t, v)
      r == deserialize(t, Source("binary", bytes), announced)
  IN  /\ r.ok /\ r.val = v /\ r.src.in = <<>>
      /\ \A n \in 0 .. Len(bytes) - 1 :
           ~deserialize(t, Source("binary", SubSeq(bytes, 1, n)), announced).ok

(* from_string reads a message that to_string printed, except that every   *)
(* boolean comes back FALSE; for elements of types that have a name in the *)
(* string format, as long as no string has a backslash and no element      *)
(* refers to an actor of another node.                                     *)
StringRoundTrip(t, v, announced) ==
  LET r == from_string_impl(to_string(t, v), announced)
      Kept(e) == IF e.type.k = "bool" THEN [e EXCEPT !.val = FALSE] ELSE e
  IN  r.ok /\ r.val = [i \in DOMAIN v |-> Kept(v[i])]
==============================================================================
