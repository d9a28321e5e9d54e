------------------------------- MODULE Encodings -------------------------------
(* How values are written, and read back: atoms (10 characters in a 64 bit  *)
(* integer), floating-point numbers (pack754), time units and node ids with *)
(* the operators comparable<> derives from compare; the types a name stands *)
(* for; and the options a command line stands for.                          *)
EXTENDS Integers, Sequences, SequencesExt, FiniteSets

CONSTANTS Builtin,     \* names of the builtin types, ascending
          Tuples       \* names of the form "@<>+..."

-------------------------------------------------------------------------------
(* Atoms. A 64 bit value is a digit of 4 bits followed by ten of 6 bits,    *)
(* the most significant first; characters are ASCII codes.                  *)
encoding_table(c) ==
  CASE c \in 48 .. 57 -> c - 47
    [] c \in 65 .. 90 -> c - 54
    [] c = 95 -> 37
    [] c \in 97 .. 122 -> c - 59
    [] OTHER -> 0
decoding_table(d) ==
  CASE d = 0 -> 32
    [] d \in 1 .. 10 -> d + 47
    [] d \in 11 .. 36 -> d + 54
    [] d = 37 -> 95
    [] OTHER -> d + 59
next_interim(x, c) ==
  <<x[2] % 16>> \o SubSeq(x, 3, 11) \o <<encoding_table(IF c <= 127 THEN c ELSE 0)>>
Marker == [i \in 1 .. 11 |-> IF i = 11 THEN 15 ELSE 0]
atom(str) == FoldLeft(next_interim, Marker, str)

(* to_string: the characters behind the leading 0xF. *)
atom_to_string(x) ==
  FoldLeft(LAMBDA st, d : IF st.read_chars THEN [st EXCEPT !.result = Append(@, decoding_table(d))]
                          ELSE [st EXCEPT !.read_chars = d = 15],
           [read_chars |-> x[1] = 15, result |-> <<>>], Tail(x)).result
-------------------------------------------------------------------------------
(* pack754 and unpack754 for sb bits of significand and eb of exponent; a   *)
(* number is [neg, n, d], the fraction n / d.                               *)
Half(f) == [f EXCEPT !.d = 2 * @]
Twice(f) == [f EXCEPT !.n = 2 * @]
ieee_754_trait(sb, eb) == [sb |-> sb, eb |-> eb, bias |-> 2 ^ (eb - 1) - 1, bits |-> sb + eb + 1]

RECURSIVE Normalize(_, _)
Normalize(f, shift) ==
  IF f.n >= 2 * f.d THEN Normalize(Half(f), shift + 1)
  ELSE IF f.n < f.d THEN Normalize(Twice(f), shift - 1)
  ELSE [f |-> f, shift |-> shift]

(* fnorm * (2 ^ sb + 0.5), truncated *)
Significand(f, sb) == ((f.n - f.d) * (2 ^ (sb + 1) + 1)) \div (2 * f.d)
pack754(tr, f) ==
  IF f.n = 0 THEN 0
  ELSE LET norm == Normalize(f, 0)
           exp == (norm.shift + tr.bias) % 2 ^ tr.bits
       IN (IF f.neg THEN 2 ^ (tr.bits - 1) ELSE 0)
          + ((exp * 2 ^ tr.sb) % 2 ^ tr.bits) + Significand(norm.f, tr.sb)

RECURSIVE Shifted(_, _)
Shifted(f, shift) ==
  IF shift > 0 THEN Shifted(Twice(f), shift - 1)
  ELSE IF shift < 0 THEN Shifted(Half(f), shift + 1) ELSE f
unpack754(tr, i) ==
  IF i = 0 THEN [neg |-> FALSE, n |-> 0, d |-> 1]
  ELSE Shifted([neg |-> (i \div 2 ^ (tr.bits - 1)) % 2 = 1,
                n |-> (i % 2 ^ tr.sb) + 2 ^ tr.sb, d |-> 2 ^ tr.sb],
               ((i \div 2 ^ tr.sb) % 2 ^ tr.eb) - tr.bias)
SameNumber(f, g) == f.n * g.d = g.n * f.d /\ (f.n # 0 => f.neg = g.neg)
-------------------------------------------------------------------------------
(* duration: an STL duration is [num, den, count], a number of num/den s. *)
ratio_to_time_unit(num, den) ==
  CASE den = 1 /\ num \in {1, 60} -> "seconds"
    [] num = 1 /\ den = 1000 -> "milliseconds"
    [] num = 1 /\ den = 1000000 -> "microseconds"
    [] OTHER -> "invalid"
rd(d) == d.count * d.num
duration(d) ==
  IF d.count < 0 THEN [thrown |-> TRUE]
  ELSE [thrown |-> FALSE, unit |-> ratio_to_time_unit(d.num, d.den), count |-> rd(d)]

(* operator+= on a time point in microseconds. *)
AddDuration(at, d) ==
  at + CASE d.unit = "seconds" -> d.count * 1000000
         [] d.unit = "milliseconds" -> d.count * 1000
         [] d.unit = "microseconds" -> d.count
         [] d.unit = "invalid" -> 0
-------------------------------------------------------------------------------
(* node_id: <<>> is the invalid id, <<[host, pid]>> a valid one; a host is a *)
(* sequence of bytes.                                                       *)
hex_value(c) ==
  CASE c \in 97 .. 102 -> c - 97 + 10
    [] c \in 65 .. 70 -> c - 65 + 10
    [] c \in 48 .. 57 -> c - 48
    [] OTHER -> 0
(* node_id::data from the hexadecimal text of a host of `size` bytes. *)
data_from_hash(pid, hash, size) ==
  [pid |-> pid, host |->
     IF Len(hash) # 2 * size THEN [i \in 1 .. size |-> 0]
     ELSE [i \in 1 .. size |-> 16 * hex_value(hash[2 * i - 1]) + hex_value(hash[2 * i])]]
HexDigit(d) == IF d < 10 THEN d + 48 ELSE d - 10 + 97
host_to_string(host) ==
  FlattenSeq([i \in DOMAIN host |-> <<HexDigit(host[i] \div 16), HexDigit(host[i] % 16)>>])

RECURSIVE strncmp(_, _)
strncmp(a, b) ==
  CASE a = <<>> -> 0
    [] a # <<>> /\ Head(a) # Head(b) -> Head(a) - Head(b)
    [] OTHER -> IF Head(a) = 0 THEN 0 ELSE strncmp(Tail(a), Tail(b))
compare(x, y) ==
  IF x = <<>> \/ y = <<>> THEN Len(x) - Len(y)
  ELSE LET tmp == strncmp(x[1].host, y[1].host)
       IN IF tmp # 0 THEN tmp ELSE x[1].pid - y[1].pid
compare_invalid(x) == IF x = <<>> THEN 0 ELSE 1

(* comparable<Subclass, T>, both argument orders. *)
Lt(x, y) == compare(x, y) < 0
Gt(x, y) == compare(x, y) > 0
Le(x, y) == compare(x, y) <= 0
Ge(x, y) == compare(x, y) >= 0
Eq(x, y) == compare(x, y) = 0
InvalidLt(x) == compare_invalid(x) > 0
InvalidLe(x) == compare_invalid(x) >= 0

(* hash<node_id>: the process id and the leading bytes (here: byte) of  *)
(* the host.                                                                *)
hash(x) == IF x = <<>> THEN <<>> ELSE <<x[1].pid, Head(x[1].host)>>
-------------------------------------------------------------------------------
(* An atom prints as the text it was made from, up to its limit of ten      *)
(* characters, and an invalid character as a blank; so different texts make *)
(* different atoms.                                                         *)
AtomsPrint(str) ==
  atom_to_string(atom(str)) =
    [i \in DOMAIN str |-> IF encoding_table(str[i]) = 0 THEN 32 ELSE str[i]]

(* Packing loses nothing of a normal number; only the sign of zero is lost. *)
FloatsSurvive(tr, f) == SameNumber(unpack754(tr, pack754(tr, f)), f)

(* A timeout made from an STL duration delays by that duration.             *)
DurationsExact(d) ==
  LET r == duration(d)
  IN r.thrown \/ AddDuration(0, r) * d.den = d.count * d.num * 1000000

(* Node ids without zero bytes are totally ordered with the invalid id      *)
(* smallest, equal ids have equal hashes, and a printed host reads back.    *)
NodesOrdered(x, y, z) ==
  /\ Eq(x, y) <=> x = y
  /\ Lt(x, y) <=> Gt(y, x)
  /\ Ge(x, y) <=> ~Lt(x, y)
  /\ Le(x, y) /\ Le(y, z) => Le(x, z)
  /\ Le(x, y) \/ Le(y, x)
  /\ InvalidLt(x) <=> Lt(<<>>, x)
  /\ InvalidLe(x) <=> Le(<<>>, x)
  /\ Eq(x, y) => hash(x) = hash(y)
  /\ x # <<>> => data_from_hash(x[1].pid, host_to_string(x[1].host), Len(x[1].host)) = x[1]
-------------------------------------------------------------------------------
(* uniform_type_info_map: the types a program announced, sorted by name and *)
(* searched by bisection. An entry is [name, rtti]; names are numbers, in   *)
(* the order of the strings they stand for.                                 *)
NoRtti == <<>>
Entry(name, rtti) == [name |-> name, rtti |-> rtti]
builtin_types == [i \in DOMAIN Builtin |-> Entry(Builtin[i], NoRtti)]

(* std::lower_bound on positions lo .. hi - 1. *)
RECURSIVE lower_bound(_, _, _, _)
lower_bound(c, name, lo, hi) ==
  IF lo = hi THEN lo
  ELSE LET mid == lo + (hi - lo) \div 2
       IN IF c[mid].name < name THEN lower_bound(c, name, mid + 1, hi)
          ELSE lower_bound(c, name, lo, mid)
LowerBound(c, name) == lower_bound(c, name, 1, Len(c) + 1)

find_name(c, name) ==
  LET i == LowerBound(c, name)
  IN IF i <= Len(c) /\ c[i].name = name THEN <<c[i]>> ELSE <<>>

(* insert: an entry whose name is known is dropped, whatever its type.      *)
insert(user_types, e) ==
  LET i == LowerBound(user_types, e.name)
  IN CASE i > Len(user_types) -> [types |-> Append(user_types, e), result |-> e]
       [] i <= Len(user_types) /\ user_types[i].name = e.name ->
            [types |-> user_types, result |-> user_types[i]]
       [] OTHER -> [types |-> InsertAt(user_types, i, e), result |-> e]

announce(user_types, e) == insert(user_types, e).types

by_type_nr(nr) == builtin_types[nr]
find_rtti(user_types, ti) ==
  LET hits == SelectSeq(user_types, LAMBDA u : u.rtti = <<ti>>)
  IN IF hits = <<>> THEN <<>> ELSE <<hits[1]>>
by_rtti(user_types, ti) == find_rtti(user_types, ti)

(* by_uniform_name also adds the tuple types it is asked for. *)
by_uniform_name(user_types, name) ==
  LET b == find_name(builtin_types, name)
      u == IF b # <<>> THEN b ELSE find_name(user_types, name)
  IN IF u = <<>> /\ name \in Tuples
     THEN LET r == insert(user_types, Entry(name, NoRtti))
          IN [result |-> <<r.result>>, types |-> r.types]
     ELSE [result |-> u, types |-> user_types]
get_all(user_types) == builtin_types \o user_types
-------------------------------------------------------------------------------
(* After any announcements the map is sorted, knows every announced name    *)
(* under its first type and each of these types by its own, and what a      *)
(* tuple lookup adds leaves the rest findable.                              *)
TypesFound(announcements, tuple) ==
  LET before == FoldLeft(announce, <<>>, announcements)
      looked == by_uniform_name(before, tuple)
      types == looked.types
      FirstOf(name) == SelectSeq(announcements, LAMBDA e : e.name = name)[1]
  IN /\ \A i, j \in DOMAIN types : i < j => types[i].name < types[j].name
     /\ looked.result # <<>> <=> tuple \in Tuples \cup ToSet(Builtin)
                                           \cup {announcements[i].name : i \in DOMAIN announcements}
     /\ \A i \in DOMAIN announcements :
          LET name == announcements[i].name
              r == by_uniform_name(types, name)
          IN /\ r.types = types
             /\ name \notin ToSet(Builtin) => r.result = <<FirstOf(name)>>
             /\ name \in ToSet(Builtin) => r.result = <<Entry(name, NoRtti)>>
             /\ by_rtti(types, FirstOf(name).rtti[1]) # <<>>
     /\ \A nr \in DOMAIN Builtin :
          by_uniform_name(types, Builtin[nr]).result = <<by_type_nr(nr)>>
     /\ Len(get_all(types)) = Len(Builtin) + Len(types)
-------------------------------------------------------------------------------
(* message::extract_opts: command line options taken out of a message of    *)
(* strings. An option is [long, shorts, takes]; an argument is one of       *)
(*   positional v        v                 Short(x)       -x                *)
(*   ShortValue(x, v)    -xv               Long(n)        --n               *)
(*   LongValue(n, v)     --n=v                                              *)
(* and the value "bad" is one that from_string rejects.                     *)

Arg(form, name, value) == [form |-> form, name |-> name, value |-> value]
positional(v) == Arg("positional", "", v)
Short(x) == Arg("short", x, "")
ShortValue(x, v) == Arg("short_value", x, v)
Long(n) == Arg("long", n, "")
LongValue(n, v) == Arg("long_value", n, v)
IsShort(arg) == arg.form \in {"short", "short_value"}

cli_arg(long, shorts, takes) == [long |-> long, shorts |-> shorts, takes |-> takes]
HelpOption == cli_arg("help", {"h", "?"}, FALSE)
IsHelp(opt) == opt.long = "help" \/ opt.shorts \cap {"h", "?"} # {}
with_help(xs) == IF \E i \in DOMAIN xs : IsHelp(xs[i]) THEN xs ELSE Append(xs, HelpOption)

(* shorts and longs: a later option replaces one with the same name. *)
Find(xs, named) ==
  LET hits == {i \in DOMAIN xs : xs[i] \in named}
  IN IF hits = {} THEN <<>> ELSE <<xs[CHOOSE i \in hits : \A j \in hits : j <= i]>>
shorts(xs, name) == Find(xs, {o \in ToSet(xs) : name \in o.shorts})
longs(xs, name) == Find(xs, {o \in ToSet(xs) : name = o.long})

(* What a handler makes of its arguments: whether they are extracted, and   *)
(* the options, values and error recorded so far.                           *)
Skip(st) == [matched |-> FALSE, st |-> st]
SkipWith(st, error) == [matched |-> FALSE, st |-> [st EXCEPT !.error = error]]
insert_opt_name(st, opt) == [matched |-> TRUE, st |-> [st EXCEPT !.opts = @ \cup {opt.long}]]

(* fun(value), then insert_opt_name. *)
StoreValue(st, opt, value) ==
  IF value = "bad" THEN SkipWith(st, "invalid value")
  ELSE insert_opt_name([st EXCEPT !.values = Append(@, <<opt.long, value>>)], opt)

(* The handler for one argument. A flag ignores a value that follows it.    *)
one_argument(xs, st, arg) ==
  LET s == IF IsShort(arg) THEN shorts(xs, arg.name) ELSE <<>>
      l == IF arg.form \in {"long", "long_value"} THEN longs(xs, arg.name) ELSE <<>>
  IN CASE arg.form = "positional" -> Skip(st)
       [] s # <<>> /\ s[1].takes ->
            IF arg.form = "short_value" THEN StoreValue(st, s[1], arg.value) ELSE Skip(st)
       [] s # <<>> /\ ~s[1].takes -> insert_opt_name(st, s[1])
       [] l # <<>> /\ l[1].takes ->
            IF arg.form = "long" THEN SkipWith(st, "missing argument")
            ELSE StoreValue(st, l[1], arg.value)
       [] l # <<>> /\ ~l[1].takes -> insert_opt_name(st, l[1])
       [] OTHER -> SkipWith(st, "unknown option")

(* The handler for an option and its value in two arguments. *)
two_arguments(xs, st, arg1, arg2) ==
  LET s == shorts(xs, arg1.name)
  IN CASE ~IsShort(arg1) -> Skip(st)
       [] IsShort(arg1) /\ s = <<>> -> SkipWith(st, "unknown option")
       [] IsShort(arg1) /\ s # <<>> ->
            IF ~s[1].takes \/ arg1.form = "short_value" THEN Skip(st)
            ELSE StoreValue(st, s[1], arg2.value)

(* extract: at each position the slice of two before the slice of one; no   *)
(* handler takes a longer one.                                              *)
RECURSIVE extract_from(_, _, _, _)
extract_from(xs, args, i, st) ==
  IF i > Len(args) THEN [remainder |-> args, st |-> st]
  ELSE LET two == IF i < Len(args) THEN two_arguments(xs, st, args[i], args[i + 1]) ELSE Skip(st)
           one == one_argument(xs, two.st, args[i])
           Without(n) == SubSeq(args, 1, i - 1) \o SubSeq(args, i + n, Len(args))
       IN CASE two.matched -> extract_from(xs, Without(2), i, two.st)
            [] ~two.matched /\ one.matched -> extract_from(xs, Without(1), i, one.st)
            [] OTHER -> extract_from(xs, args, i + 1, one.st)
extract_opts(xs, args) ==
  extract_from(with_help(xs), args, 1, [opts |-> {}, values |-> <<>>, error |-> ""])
-------------------------------------------------------------------------------
IsDashed(arg) == arg.form # "positional"

(* Nothing is lost, invented or read twice: what is left is a part of the   *)
(* arguments in their order, every other argument set an option or was the  *)
(* value of one, and if no error is reported then all options were taken,   *)
(* except a last one that misses its value.                                 *)
OptionsAccounted(xs, args) ==
  LET r == extract_opts(xs, args)
      left == r.remainder
      dashed == {i \in DOMAIN left : IsDashed(left[i])}
  IN /\ \E keep \in SUBSET DOMAIN args :
          left = FoldLeft(LAMBDA acc, i : IF i \in keep THEN Append(acc, args[i]) ELSE acc,
                          <<>>, [i \in DOMAIN args |-> i])
     /\ \A i \in DOMAIN r.st.values : r.st.values[i][1] \in r.st.opts /\ r.st.values[i][2] # "bad"
     /\ Len(args) - Len(left) >= Cardinality(r.st.opts)
     /\ Len(args) - Len(left) <= 2 * Len(r.st.values)
          + Cardinality({i \in DOMAIN args : IsDashed(args[i])})
     /\ r.st.error = "" => dashed \subseteq {Len(left)} /\ \A i \in dashed : left[i].form = "short"
     /\ r.st.error # "" => left # <<>>
===============================================================================
