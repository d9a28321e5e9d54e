--------------------------- MODULE HandleInference ---------------------------
(***************************************************************************)
(* Which handle, implementation class and calling convention a spawn picks *)
(* for a functor or a class, by template specialization.  A functor is     *)
(* given by its result and its first argument.                             *)
(***************************************************************************)
EXTENDS Integers, Sequences, FiniteSets

(* results: void, behavior, typed_behavior of an interface, anything else  *)
void == [kind |-> "void", sigs |-> {}]
behavior == [kind |-> "behavior", sigs |-> {}]
typed_behavior(sigs) == [kind |-> "typed_behavior", sigs |-> sigs]
other == [kind |-> "other", sigs |-> {}]

(* classes; a stateful_actor is its base class with a state *)
Class(base, sigs, stateful) == [base |-> base, sigs |-> sigs, stateful |-> stateful]
event_based_actor == Class("event_based_actor", {}, FALSE)
typed_event_based_actor(sigs) == Class("typed_event_based_actor", sigs, FALSE)
typed_broker(sigs) == Class("typed_broker", sigs, FALSE)
no_actor == Class("no_actor", {}, FALSE)

(* first arguments: unit if there are none *)
Arg(ptr, class) == [ptr |-> ptr, class |-> class]
FirstArgValid(arg) == arg.class # no_actor

(* handles: actor has no static interface *)
actor == [typed |-> FALSE, sigs |-> {}]
typed_actor(sigs) == [typed |-> TRUE, sigs |-> sigs]
message_types(handle) == handle.sigs
-----------------------------------------------------------------------------
(* infer_handle_from_fun_impl: the primary template, and one operator per  *)
(* partial specialization with the set of what it gives                    *)
Trait(type, impl, bt, mode) ==
  [type |-> type, impl |-> impl, behavior_type |-> bt, mode |-> mode]
primary == Trait(actor, event_based_actor, behavior, "function")

for_void(res, arg) ==
  IF res = void /\ arg.ptr /\ FirstArgValid(arg)
  THEN {Trait(actor, arg.class, behavior, "function_with_selfptr")} ELSE {}
for_behavior(res, arg) ==
  IF res = behavior /\ arg.ptr /\ FirstArgValid(arg)
  THEN {Trait(actor, arg.class, behavior, "function_with_selfptr")} ELSE {}
for_typed_behavior(res, arg) ==
  IF res.kind = "typed_behavior" /\ ~FirstArgValid(arg)
  THEN {Trait(typed_actor(res.sigs), typed_event_based_actor(res.sigs), res, "function")} ELSE {}

(* any result, with a typed actor or broker as self, stateful or not *)
ForSelf(arg, base, stateful) ==
  IF arg.ptr /\ arg.class.base = base /\ arg.class.stateful = stateful
  THEN {Trait(typed_actor(arg.class.sigs), arg.class, typed_behavior(arg.class.sigs),
              "function_with_selfptr")}
  ELSE {}
for_typed_actor(arg) == ForSelf(arg, "typed_event_based_actor", FALSE)
for_stateful_typed_actor(arg) == ForSelf(arg, "typed_event_based_actor", TRUE)
for_typed_broker(arg) == ForSelf(arg, "typed_broker", FALSE)
for_stateful_typed_broker(arg) == ForSelf(arg, "typed_broker", TRUE)

(* those that match; two of them are ambiguous, as neither is more special *)
Specializations(res, arg) ==
  for_void(res, arg) \cup for_behavior(res, arg) \cup for_typed_behavior(res, arg)
  \cup for_typed_actor(arg) \cup for_stateful_typed_actor(arg)
  \cup for_typed_broker(arg) \cup for_stateful_typed_broker(arg)
infer_handle_from_fun(res, arg) ==
  LET ms == Specializations(res, arg)
  IN  IF ms = {} THEN {primary} ELSE IF Cardinality(ms) = 1 THEN ms ELSE {}

infer_handle_from_behavior(bt) == IF bt.kind = "typed_behavior" THEN typed_actor(bt.sigs) ELSE actor
behavior_type(class) ==
  IF class.base \in {"typed_event_based_actor", "typed_broker"} THEN typed_behavior(class.sigs) ELSE behavior
infer_handle_from_class(class) == infer_handle_from_behavior(behavior_type(class))

(* the deprecated inference for typed functors: sets, empty if undefined *)
infer_typed_actor_base(res, arg) ==
  IF arg.ptr /\ FirstArgValid(arg) THEN {arg.class}
  ELSE IF res.kind = "typed_behavior" THEN {typed_event_based_actor(res.sigs)} ELSE {}
infer_typed_actor_handle(res, arg) ==
  IF res.kind = "typed_behavior" THEN {typed_actor(res.sigs)}
  ELSE IF res = void /\ arg.ptr /\ arg.class.base = "typed_event_based_actor" /\ ~arg.class.stateful
       THEN {typed_actor(arg.class.sigs)} ELSE {}
actor_handle_from_signature_list(sigs) == typed_actor(sigs)
infer_typed_broker_base(res, arg) ==
  IF res.kind = "typed_behavior" THEN {typed_broker(res.sigs)}
  ELSE IF res = void /\ arg.ptr /\ arg.class.base = "typed_broker" /\ ~arg.class.stateful
       THEN {typed_broker(arg.class.sigs)} ELSE {}
-----------------------------------------------------------------------------
(* init_fun_factory: how the functor is called and what becomes of its     *)
(* result.  static_cast<Base*> fits if the argument is Base itself.        *)
make(res, arg) == [self |-> arg.ptr, behavior |-> res.kind \in {"behavior", "typed_behavior"}]
Callable(base, arg) == arg.ptr => arg.class = base

(* dyn_spawn_prepare_message: self goes in front in the mode that says so; *)
(* the functor then matches if it takes a self                             *)
dyn_spawn_prepare_message(mode) == mode = "function_with_selfptr"
DynMatches(trait, arg) == dyn_spawn_prepare_message(trait.mode) <=> arg.ptr

(* spawn_typed and its brokers: implementation and handle must both exist, *)
(* and the handle take a pointer to the implementation                     *)
spawn_typed_functor(res, arg) ==
  {[impl |-> i, type |-> h] :
     i \in {c \in infer_typed_actor_base(res, arg) : Callable(c, arg)},
     h \in infer_typed_actor_handle(res, arg)}
spawn_io_typed(res, arg) ==
  {[impl |-> i, type |-> h] :
     i \in {c \in infer_typed_broker_base(res, arg) : Callable(c, arg)},
     h \in infer_typed_actor_handle(res, arg)}
ConvertsTo(class, handle) == class.sigs # {} /\ handle.sigs \subseteq class.sigs

(* what a typed broker must handle to own a connection or a port *)
minimal_client == {"new_data_msg", "connection_closed_msg"}
minimal_server == minimal_client \cup {"new_connection_msg", "acceptor_closed_msg"}
add_tcp_scribe(class) == ConvertsTo(class, typed_actor(minimal_client))
add_tcp_doorman(class) == ConvertsTo(class, typed_actor(minimal_server))
-----------------------------------------------------------------------------
(* A functor that compiles runs in an actor of the class its self pointer  *)
(* names, behind a handle with exactly the interface of that class and     *)
(* published under its message types; announced functors are called like   *)
(* spawned ones; the deprecated spawns choose the same; and a broker that  *)
(* may open a port handles all that happens to it.  Functors that return   *)
(* the behavior of one interface with the self of another, or something    *)
(* that is no behavior, are left out.                                      *)
HandlesInferred(res, arg) ==
  LET mixed == \/ res = other
               \/ res.kind = "typed_behavior" /\ arg.ptr /\ arg.class.sigs # res.sigs
               \/ res.kind = "typed_behavior" /\ ~arg.ptr /\ FirstArgValid(arg)
      traits == {t \in infer_handle_from_fun(res, arg) : Callable(t.impl, arg)}
  IN  ~mixed =>
      /\ \A t \in traits :
           /\ t.type = infer_handle_from_class(t.impl)
           /\ message_types(t.type) = t.impl.sigs
           /\ arg.ptr => t.impl = arg.class
           /\ arg.ptr => DynMatches(t, arg)
           /\ res.kind = "typed_behavior" => t.type = infer_handle_from_behavior(res)
           /\ \A d \in spawn_typed_functor(res, arg) :
                ConvertsTo(d.impl, d.type) => d = [impl |-> t.impl, type |-> t.type]
           /\ \A d \in spawn_io_typed(res, arg) :
                ConvertsTo(d.impl, d.type) /\ arg.ptr => d = [impl |-> t.impl, type |-> t.type]
      /\ actor_handle_from_signature_list(arg.class.sigs).sigs = infer_handle_from_class(arg.class).sigs
      /\ add_tcp_doorman(arg.class) => add_tcp_scribe(arg.class)
=============================================================================
