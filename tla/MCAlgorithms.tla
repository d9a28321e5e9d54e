----------------------------- MODULE MCAlgorithms -----------------------------
(* Messages in action, and the pure algorithms on samples of their inputs: *)
(* `part` says which, `sample` is the input.                               *)
EXTENDS Messages, MemoryCache

Here == [host |-> "h", pid |-> 3]
S == INSTANCE Serialization
K == INSTANCE Containers
Builtin == <<2, 4, 6>>
Tuples == {5, 9}
E == INSTANCE Encodings
ThisNode == "here"
Object == (8 :> [id |-> 1, node |-> "here", kind |-> "local_actor", signatures |-> {}] @@
           16 :> [id |-> 1, node |-> "there", kind |-> "actor_proxy", signatures |-> {}] @@
           24 :> [id |-> 2, node |-> "here", kind |-> "typed", signatures |-> {"m", "n"}])
HD == INSTANCE Handles
HI == INSTANCE HandleInference
SD == INSTANCE Sending

CONSTANT Parts
VARIABLES part, sample

UpTo(X, n) == UNION {[1 .. k -> X] : k \in 0 .. n}

(* messages *)
Elem(t, v) == [type |-> t, val |-> v]
Meta(t) == [type |-> t, v |-> none]
Atom(v) == [type |-> "atom", v |-> some(v)]
Void == [kind |-> "void", val |-> none]
Answer(r) == [kind |-> "value", val |-> <<r>>]
MCInputs == {<<Elem("i32", 0), Elem("str", 0)>>}
MCHandlers == {make_behavior(<<trivial_match_case(<<Meta("i32")>>, Void)>>, none)}

(* typed interfaces *)
i32 == plain("i32")
str == plain("string")
atm == plain("atom")
Signatures == {replies_to(<<i32>>, <<str>>), Mpi(<<i32>>, <<str>>, <<atm>>),
               reacts_to(<<str>>), replies_to(<<str>>, <<i32>>)}
MsgHandlers ==
  {deduce_mpi(<<i32>>, <<r>>) : r \in {plain("const char*"), atm, void_t, Promise(<<str>>),
                                       EitherOr(<<str>>, <<atm>>)}}
  \cup {deduce_mpi(<<str>>, <<void_t>>), deduce_mpi(<<plain("exit_msg")>>, <<void_t>>)}

(* sending; functors and classes to spawn *)
SendSamples ==
  {<<own, [valid |-> v, sigs |-> sigs], xs, mp>> :
     own \in UpTo(Signatures, 2), v \in BOOLEAN, sigs \in UpTo(Signatures, 2), mp \in {"normal", "high"},
     xs \in {<<i32>>, <<plain("const char*")>>, <<str>>, <<atm>>, <<plain("atom_value")>>, <<i32, str>>}}
Interfaces == {{"a"}, {"a", "b"}, HI!minimal_client, HI!minimal_server}
Classes ==
  {HI!no_actor, HI!event_based_actor, HI!Class("broker", {}, FALSE), HI!Class("event_based_actor", {}, TRUE)}
  \cup {HI!Class(b, i, s) : b \in {"typed_event_based_actor", "typed_broker"}, i \in Interfaces, s \in BOOLEAN}
Results == {HI!void, HI!behavior, HI!other} \cup {HI!typed_behavior(i) : i \in Interfaces}

(* patterns and behaviors *)
MsgElems == {Elem("i32", 0), Elem("long", 0), Elem("atom", "a"), Elem("atom", "b")}
PatternElems == {anything, Meta("i32"), Meta("i64"), Atom("a")}
Long(e) == <<e>> \o [i \in 1 .. 5 |-> Elem("i32", i)]
LongPattern(p) == <<p>> \o [i \in 1 .. 5 |-> Meta("i32")]
Cases == {trivial_match_case(<<Meta("i32")>>, Answer("i32")),
          trivial_match_case(<<Atom("a"), Meta("i64")>>, Answer("a64")),
          trivial_match_case(LongPattern(Meta("user")), Answer("user")),
          trivial_match_case(LongPattern(Atom("b")), [kind |-> "skip", val |-> none]),
          advanced_match_case(<<Meta("atom")>>, <<guarded("b")>>, TRUE, <<Meta("i32")>>, Answer("b32")),
          advanced_match_case(<<anything, Meta("i64")>>, <<unit, unit>>, FALSE, <<Meta("i64")>>, Void),
          catch_all_match_case([kind |-> "optional_skip", val |-> none])}
BehaviorMsgs == UpTo(MsgElems, 2) \cup
  {Long(e) : e \in {Elem("user", 0), Elem("other", 0), Elem("atom", "b"), Elem("i32", 0)}}

(* values to serialize; containers are announced types *)
B(k) == S!T(k, <<>>)
Announced == {"point", "list", "opt", "map"}
Addr == [id |-> 7, host |-> Here.host, pid |-> Here.pid]
Remote == [id |-> 7, host |-> "g", pid |-> 3]
Group == [module |-> <<"c">>, id |-> <<>>]
Strs == UpTo({"c", "q"}, 2)
Prims == {<<B("u8"), 0>>, <<B("i32"), 5>>, <<B("bool"), TRUE>>, <<B("bool"), FALSE>>, <<B("atom"), 9>>,
          <<B("timeout"), 3>>, <<B("message_id"), 8>>}
         \cup {<<B("str"), s>> : s \in Strs}
System == {<<B("addr"), Addr>>, <<B("actor"), S!invalid_addr>>, <<B("group"), S!invalid_group>>,
           <<B("group"), Group>>, <<B("channel"), none>>, <<B("channel"), <<"actor", Addr>>>>,
           <<B("channel"), <<"group", S!invalid_group>>>>, <<B("unit"), <<>>>>,
           <<B("node"), [host |-> "h", pid |-> 0]>>, <<B("node"), S!invalid_node>>,
           <<B("duration"), [unit |-> "milliseconds", count |-> 4]>>,
           <<B("duration"), [unit |-> "invalid", count |-> 0]>>,
           <<B("down"), [source |-> Addr, reason |-> 1]>>, <<B("group_down"), [source |-> Group]>>}
Flat == Prims \cup System
Foreign == {<<B("addr"), Remote>>, <<B("channel"), <<"actor", Remote>>>>,
            <<B("exit"), [source |-> Remote, reason |-> 2]>>}
Containers ==
  UNION {{<<S!T("list", <<f[1]>>), l>> : l \in {<<>>, <<f[2]>>, <<f[2], f[2]>>}} : f \in Flat}
  \cup UNION {{<<S!T("opt", <<f[1]>>), o>> : o \in {none, some(f[2])}} : f \in Flat}
  \cup {<<S!Struct("point", <<B("i32"), B("str")>>), <<5, s>>>> : s \in Strs}
  \cup {<<S!T("map", <<B("str"), B("u8")>>), <<<<<<"c">>, 1>>, <<<<"q">>, 0>>>>>>,
        <<B("u16_str"), <<1, 2>>>>, <<B("u32_str"), <<1, 2>>>>,
        <<S!Struct("point", <<S!T("enum", <<B("u8")>>), B("empty"), B("typed_actor")>>), <<3, <<>>, Addr>>>>}
IoMsgs == {<<B("new_connection_msg"), [source |-> 1, handle |-> 2]>>,
           <<B("acceptor_closed_msg"), [handle |-> 2]>>}
          \cup {<<B("new_data_msg"), [handle |-> 2, buf |-> b]>> : b \in UpTo({"c"}, 2)}
MsgOf(fs) == <<S!MessageType, [i \in DOMAIN fs |-> Elem(fs[i][1], fs[i][2])]>>
Printable == {MsgOf(<<>>)} \cup {MsgOf(<<f>>) : f \in Flat} \cup {MsgOf(<<f, g>>) : f, g \in Prims}
Samples == Flat \cup Foreign \cup {MsgOf(<<f>>) : f \in Foreign} \cup IoMsgs \cup Containers \cup Printable \cup {MsgOf(<<f>>) : f \in Containers}

(* hooks, named by their place *)
Callbacks == {[e \in {"before_shutdown"} |-> "calls next"], [e \in {"route_lost"} |-> "calls next"],
              [e \in {"route_lost", "before_shutdown"} |-> "last"]}
HookLists == {[i \in DOMAIN l |-> K!hook(i, l[i])] : l \in UpTo(Callbacks, 4)}
             \cup {[i \in 1 .. n |-> K!shutdown_hook(i)] : n \in 1 .. 3}

(* mailboxes to receive from *)
Mailboxes == UpTo({K!Message("i32", 0), K!Message("str", 0), K!Message("str", 1)}, 4)

(* containers; a handler that received may not skip its own message *)
ListElems == {"a", "b", "c"}
Plain == {K!Outcome(r, m, K!NotNested) : r \in {"success", "skipped"}, m \in BOOLEAN}
         \cup {K!Outcome("dropped", FALSE, K!NotNested)}
Nested == {K!Outcome("success", FALSE, [e \in ListElems \cup {"tail"} |-> K!Outcome(
             IF e \in taken THEN "success" ELSE "skipped", FALSE, K!NotNested)])
           : taken \in SUBSET ListElems}
ListHandlers ==
  {[e \in ListElems \cup {"tail"} |-> IF e = "tail" THEN K!Outcome("dropped", FALSE, K!NotNested) ELSE h[e]]
   : h \in [ListElems -> Plain \cup Nested]}
ContainerSamples ==
  {<<"vector", [xs |-> xs, ys |-> ys, pos |-> pos]>>
     : xs \in UpTo({1, 2}, 3), ys \in UpTo({3, 4}, 2), pos \in 1 .. 4}
  \cup {<<"list", [xs |-> xs, ys |-> ys, h |-> h]>>
          : xs \in {<<>>, <<"x">>}, ys \in {<<"a", "b", "c">>, <<"a">>, <<>>}, h \in ListHandlers}
  \cup {<<"stack", ops>> : ops \in UpTo({"become", "keep", "unbecome", "quit"}, 4)}

(* encodings: texts are made of 0, E, _, z and an invalid character *)
Texts == UpTo({48, 69, 122, 33}, 3) \cup {<<69, 95>> \o t : t \in UpTo({69, 48}, 8)}
Trait == E!ieee_754_trait(4, 3)
Numbers == {[neg |-> neg, n |-> m * 2 ^ up, d |-> 16 * 2 ^ down]
            : neg \in BOOLEAN, m \in 16 .. 31, up \in 0 .. 3, down \in 0 .. 2}
           \cup {[neg |-> neg, n |-> 0, d |-> 1] : neg \in BOOLEAN}
Spans == {[num |-> p[1], den |-> p[2], count |-> c]
          : p \in {<<1, 1>>, <<60, 1>>, <<1, 1000>>, <<1, 1000000>>}, c \in {0 - 1, 0, 1, 17}}
NodeIds == {<<>>} \cup {<<[host |-> h, pid |-> p]>> : h \in [1 .. 2 -> {1, 170, 255}], p \in {0, 7}}
Announcements == UpTo({E!Entry(n, <<ti>>) : n \in {1, 3, 6, 9}, ti \in {"a", "b"}}, 3)
CliArgs == {E!positional("v"), E!positional("bad"), E!Short("x"), E!Short("f"), E!Short("?"),
            E!ShortValue("x", "v"), E!ShortValue("x", "bad"), E!ShortValue("f", "v"),
            E!Long("file"), E!Long("flag"), E!LongValue("file", "w"), E!LongValue("flag", "w"),
            E!Long("none")}
CliOptions == {<<E!cli_arg("file", {"x"}, TRUE), E!cli_arg("flag", {"f"}, FALSE)>>,
               <<E!cli_arg("help", {}, FALSE), E!cli_arg("file", {"x", "?"}, TRUE)>>}
EncodingSamples ==
  {<<"options", <<xs, args>>>> : xs \in CliOptions, args \in UpTo(CliArgs, 3)} \cup
  {<<"atom", t>> : t \in Texts} \cup {<<"float", f>> : f \in Numbers}
  \cup {<<"duration", d>> : d \in Spans}
  \cup {<<"nodes", <<x, y, z>>>> : x, y, z \in NodeIds}
  \cup {<<"types", <<a, t>>>> : a \in Announcements, t \in {2, 5, 7, 9}}
  \cup {<<"handles", <<h, g>>>> : h, g \in HD!Handles}
  \cup {<<"typed", <<a, b>>>> : a, b \in SUBSET {"m", "n", "o"}}

MCInit ==
  /\ Init /\ MemInit /\ part \in Parts
  /\ \/ part \in {"messages", "memory"} /\ sample = <<>>
     \/ part = "lists" /\ \E a, b \in UpTo({"x", "y"}, 3), n \in 0 .. 4 : sample = <<a, b, n>>
     \/ part = "containers" /\ \E x \in ContainerSamples : sample = x
     \/ part = "encodings" /\ \E x \in EncodingSamples : sample = x
     \/ part = "types" /\ \E s \in UpTo(Signatures, 2), h \in UpTo(MsgHandlers, 2) : sample = <<s, h>>
     \/ part = "sends" /\ \E x \in SendSamples : sample = x
     \/ part = "functors" /\ \E q \in Results, c \in Classes, ptr \in BOOLEAN : sample = <<q, HI!Arg(ptr, c)>>
     \/ part = "hooks" /\ \E hs \in HookLists, e \in K!event_type : sample = <<hs, e>>
     \/ part = "receives" /\ \E box \in Mailboxes, n \in 0 .. 3, a \in SUBSET {"i32", "str"} :
          sample = <<box, n, a>>
     \/ part = "patterns" /\ \E m \in UpTo(MsgElems, 3), p \in UpTo(PatternElems, 4) : sample = <<m, p>>
     \/ part = "behaviors" /\ \E m \in BehaviorMsgs, c \in UpTo(Cases, 2) : sample = <<m, c>>
     \/ part = "values" /\ \E x \in Samples : sample = x
MCNext ==
  \/ part = "messages" /\ Next /\ UNCHANGED <<memVars, part, sample>>
  \/ part = "memory" /\ MemNext /\ UNCHANGED <<vars, part, sample>>
MCSpec == MCInit /\ [][MCNext]_<<vars, memVars, part, sample>>
-------------------------------------------------------------------------------
(* ListLaws of TypedActors on all lists of two types; VectorLaws, ListKept  *)
(* and RunningBehaviorKept of Containers; StorageSafe of MemoryCache: the   *)
(* containers hold what their operations say, in order, and nothing that is *)
(* in use is deleted.                                                       *)
ListsLawful ==
  /\ StorageSafe
  /\ part = "lists" => ListLaws(sample[1], sample[2], sample[3])
  /\ part = "containers" =>
       LET x == sample[2]
       IN CASE sample[1] = "vector" ->
                 x.pos <= Len(x.xs) + 1 => K!VectorLaws(4, x.xs, x.ys, x.pos)
            [] sample[1] = "list" -> K!ListKept(ListElems \cup {"x"}, x.xs, x.ys, x.h)
            [] OTHER -> K!RunningBehaviorKept(x)

(* CtmSound, HandlesNarrow and RepliesHandled of TypedActors on interfaces *)
(* of up to two messages, SendsSound of Sending and HandlesInferred of     *)
(* HandleInference: what the static checks let through is handled, answered *)
(* and typed as its interface says.                                        *)
InterfacesSound ==
  /\ part = "sends" => SD!SendsSound(sample[1], sample[2], sample[3], sample[4])
  /\ part = "functors" => HI!HandlesInferred(sample[1], sample[2])
  /\ part = "types" => /\ CtmSound(sample[1], sample[2])
                    /\ HandlesNarrow(sample[1], sample[2])
                    /\ RepliesHandled(sample[1], tl_map(sample[2], [h \in ToSet(sample[2]) |-> h.left]))

(* MatchAgrees and FirstCaseWins of Patterns: a message goes to the first  *)
(* case whose pattern and guards it satisfies; EventsPassOn of Containers:  *)
(* an event runs the callbacks up to the first that keeps it; LoopsReceive  *)
(* of Containers: the receive loops take what their condition asks for.     *)
DispatchCorrect ==
  /\ part = "receives" => K!LoopsReceive(sample[1], sample[2], sample[3])
  /\ part = "hooks" => K!EventsPassOn(sample[1], sample[2])
  /\ part = "patterns" => MatchAgrees(sample[1], sample[2])
  /\ part = "behaviors" => FirstCaseWins(sample[2], sample[1])

(* RoundTrip and StringRoundTrip of Serialization, the laws of Encodings,   *)
(* and of Handles: what is written, packed, printed or converted can be     *)
(* read back, and names, options, ids and handles find what they denote.    *)
ValuesSurvive ==
  /\ part = "encodings" =>
       LET x == sample[2]
       IN CASE sample[1] = "atom" -> E!AtomsPrint(x)
            [] sample[1] = "options" -> E!OptionsAccounted(x[1], x[2])
            [] sample[1] = "float" -> E!FloatsSurvive(Trait, x)
            [] sample[1] = "duration" -> E!DurationsExact(x)
            [] sample[1] = "nodes" -> E!NodesOrdered(x[1], x[2], x[3])
            [] sample[1] = "types" -> E!TypesFound(x[1], x[2])
            [] sample[1] = "handles" -> HD!HandlesAgree(x[1], x[2])
            [] OTHER -> HD!NeverWidened(x[1], x[2], 24)
  /\ part = "values" =>
    /\ S!RoundTrip(sample[1], sample[2], Announced)
    /\ sample \in Printable => S!StringRoundTrip(sample[1], sample[2], Announced)
===============================================================================
