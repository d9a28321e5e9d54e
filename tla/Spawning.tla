------------------------------ MODULE Spawning ------------------------------
(***************************************************************************)
(* The spawn function family: which implementation class and handle a      *)
(* spawn yields, what it asks of spawn_impl, and the life of the new actor *)
(* while spawn is still at work.  The child can be known to a group before *)
(* it is launched, and can be dead before its parent monitors or links it. *)
(***************************************************************************)
EXTENDS Integers, Sequences, FiniteSets

CONSTANTS Posts,      \* messages sent to the groups the child joins
          OptionSets, \* the spawn options to explore, sets of Flags
          GroupLists  \* the lists of groups to spawn into
-----------------------------------------------------------------------------
(* spawn_options: a set of flags *)
Flags == {"link", "monitor", "detach", "hide", "blocking_api", "priority_aware", "lazy_init"}
Options == OptionSets \cap SUBSET Flags
no_spawn_options == {}
has_detach_flag(os) == "detach" \in os
has_priority_aware_flag(os) == "priority_aware" \in os
has_hide_flag(os) == "hide" \in os
has_link_flag(os) == "link" \in os
has_monitor_flag(os) == "monitor" \in os
has_blocking_api_flag(os) == "blocking_api" \in os
has_lazy_init_flag(os) == "lazy_init" \in os
is_unbound(os) == ~has_monitor_flag(os) /\ ~has_link_flag(os)
make_unbound(os) == os \ {"link", "monitor"}

(* What spawn_impl is called with.  impl is [kind, stateful]; before lists *)
(* what the callback does to the actor before launch; after is evaluated   *)
(* by the parent when spawn_impl has returned.                             *)
spawn_class(impl, os, host, before, after) ==
  [impl |-> impl, functor |-> FALSE, os |-> os, host |-> host, before |-> before, after |-> after]
spawn_functor(impl, os, host, before, after) ==
  [impl |-> impl, functor |-> TRUE, os |-> os, host |-> host, before |-> before, after |-> after]

empty_before_launch_callback == <<>>
groups_subscriber(grps) == grps

(* spawn, spawn_in_groups and spawn_typed outside of actors *)
spawn(impl, os) == {spawn_class(impl, os, "none", empty_before_launch_callback, {}),
                    spawn_functor(impl, os, "none", empty_before_launch_callback, {})}
spawn_typed(impl, os) == spawn(impl, os)
spawn_in_groups_class(impl, os, grps) ==
  {spawn_class(impl, os, "none", groups_subscriber(grps), {})}
spawn_in_groups_functor(impl, os, grps) ==
  {spawn_functor(impl, os, "none", groups_subscriber(grps), {})}

(* the same as members of local_actor: the parent's host, and eval_opts *)
local_spawn(impl, os) ==
  {spawn_class(impl, make_unbound(os), "parent", empty_before_launch_callback, os),
   spawn_functor(impl, make_unbound(os), "parent", empty_before_launch_callback, os)}
local_spawn_typed(impl, os) == local_spawn(impl, os)
local_spawn_in_groups(impl, os, grps) ==
  {spawn_class(impl, make_unbound(os), "parent", groups_subscriber(grps), os)}
local_spawn_in_groups_functor(impl, os, grps) ==
  {spawn_functor(impl, make_unbound(os), "parent", groups_subscriber(grps), os)}

(* brokers; the versions with a connection or a port drop their options *)
spawn_io(impl, os) == {spawn_functor(impl, os, "none", empty_before_launch_callback, {})}
spawn_io_client(impl, os) == {spawn_functor(impl, no_spawn_options, "none", <<"scribe">>, {})}
spawn_io_server(impl, os) == {spawn_functor(impl, no_spawn_options, "none", <<"doorman">>, {})}
spawn_io_typed(impl, os) == spawn_io(impl, os)
spawn_io_client_typed(impl, os) == spawn_io_client(impl, os)
spawn_io_server_typed(impl, os) == spawn_io_server(impl, os)
broker_fork(impl) == {spawn_functor(impl, no_spawn_options, "none", <<"scribe">>, {})}
fork(impl) == {spawn_functor(impl, no_spawn_options, "none", <<"scribe">>, {})}

(* an announced type: launched without host, never lazy or hidden *)
make_spawn_fun(impl) ==
  {spawn_functor(impl, no_spawn_options, "none", empty_before_launch_callback, {})}
dyn_spawn_class(impl) ==
  {spawn_class(impl, no_spawn_options, "none", empty_before_launch_callback, {})}

(* the static assertions of spawn_impl and spawn_functor_impl *)
Compiles(c) ==
  LET blocking == c.impl.kind = "blocking"
  IN  /\ blocking => has_blocking_api_flag(c.os)
      /\ is_unbound(c.os)
      /\ c.functor => (blocking <=> has_blocking_api_flag(c.os))
(* every way to spawn an actor or a broker *)
Impls(kinds) == {[kind |-> k, stateful |-> s] : k \in kinds, s \in BOOLEAN}
Calls ==
  UNION {spawn(i, os) \cup spawn_typed(i, os) \cup local_spawn(i, os) \cup local_spawn_typed(i, os)
         \cup make_spawn_fun(i) \cup dyn_spawn_class(i) :
           i \in Impls({"event", "blocking"}), os \in Options}
  \cup UNION {spawn_in_groups_class(i, os, gs) \cup spawn_in_groups_functor(i, os, gs)
              \cup local_spawn_in_groups(i, os, gs) \cup local_spawn_in_groups_functor(i, os, gs) :
                i \in Impls({"event", "blocking"}), os \in Options, gs \in GroupLists}
  \cup UNION {spawn_io(i, os) \cup spawn_io_client(i, os) \cup spawn_io_server(i, os)
              \cup spawn_io_typed(i, os) \cup spawn_io_client_typed(i, os)
              \cup spawn_io_server_typed(i, os) \cup fork(i) \cup broker_fork(i) :
                i \in Impls({"broker"}), os \in Options}
-----------------------------------------------------------------------------
VARIABLES call, pc, child, mailbox, handled, due, heard

spawnVars == <<call, pc, child, mailbox, handled, due, heard>>

NewChild == [flags |-> {}, fac |-> FALSE, groups |-> {}, devices |-> {}, registered |-> FALSE,
             at |-> "nowhere", mode |-> "unborn", initialized |-> FALSE, observers |-> {},
             state |-> "raw", ended |-> "no"]

Init == /\ call \in {c \in Calls : Compiles(c)} /\ pc = "make"
        /\ child = NewChild /\ mailbox = <<>> /\ handled = <<>> /\ due = <<>>
        /\ heard = [w \in {"down", "exit"} |-> 0]

(* make_counted and the flags *)
spawn_impl ==
  /\ pc = "make" /\ pc' = "before"
  /\ child' = [child EXCEPT !.flags =
                 (IF has_priority_aware_flag(call.os) THEN {"priority_aware"} ELSE {})
                 \cup (IF has_detach_flag(call.os) \/ has_blocking_api_flag(call.os)
                       THEN {"detached"} ELSE {})]
  /\ UNCHANGED <<call, mailbox, handled, due, heard>>

(* before_launch_fun: its steps, and for functors the behavior factory *)
before_launch ==
  LET todo == {i \in DOMAIN call.before :
                 call.before[i] \notin child.groups \cup child.devices}
      next == call.before[CHOOSE i \in todo : \A j \in todo : i <= j]
  IN  /\ pc = "before"
      /\ IF todo # {}
         THEN /\ child' = IF next \in {"scribe", "doorman"}
                          THEN [child EXCEPT !.devices = @ \cup {next}]
                          ELSE [child EXCEPT !.groups = @ \cup {next}]
              /\ UNCHANGED pc
         ELSE child' = [child EXCEPT !.fac = call.functor] /\ pc' = "launch"
      /\ UNCHANGED <<call, mailbox, handled, due, heard>>

(* mutant: a lazy actor is not scheduled, whatever its mailbox holds *)
LaunchLazily(lazy, hide) ==
  IF "detached" \in child.flags
  THEN child' = [child EXCEPT !.registered = ~hide, !.at = "thread", !.mode = "ready"]
  ELSE child' = [child EXCEPT !.registered = ~hide, !.at = call.host,
                              !.mode = IF lazy THEN "blocked" ELSE "ready"]

(* local_actor::launch: a thread of its own, or scheduled unless lazy and  *)
(* the mailbox can be blocked                                              *)
launch(lazy, hide) ==
  IF "detached" \in child.flags
  THEN child' = [child EXCEPT !.registered = ~hide, !.at = "thread", !.mode = "ready"]
  ELSE child' = [child EXCEPT !.registered = ~hide, !.at = call.host,
                              !.mode = IF lazy /\ mailbox = <<>> THEN "blocked" ELSE "ready"]

(* abstract_broker::launch: the multiplexer runs it, starting with a message *)
launch_broker(hide) ==
  /\ child' = [child EXCEPT !.registered = ~hide, !.at = "multiplexer", !.mode = "ready"]
  /\ mailbox' = Append(mailbox, "sys")

Launch ==
  /\ pc = "launch" /\ pc' = "monitor"
  /\ IF call.impl.kind = "broker" THEN launch_broker(has_hide_flag(call.os))
     ELSE launch(has_lazy_init_flag(call.os), has_hide_flag(call.os)) /\ UNCHANGED mailbox
  /\ UNCHANGED <<call, handled, due, heard>>

(* eval_opts: monitor, then link_to; a dead actor answers at once *)
Observe(what) ==
  IF child.mode = "done" THEN heard' = [heard EXCEPT ![what] = @ + 1] /\ UNCHANGED child
  ELSE child' = [child EXCEPT !.observers = @ \cup {what}] /\ UNCHANGED heard
eval_opts ==
  /\ \/ /\ pc = "monitor" /\ pc' = "link"
        /\ IF has_monitor_flag(call.after) THEN Observe("down") ELSE UNCHANGED <<child, heard>>
     \/ /\ pc = "link" /\ pc' = "done"
        /\ IF has_link_flag(call.after) THEN Observe("exit") ELSE UNCHANGED <<child, heard>>
  /\ UNCHANGED <<call, mailbox, handled, due>>

(* A message to a group reaches the child once it has joined *)
Publish(g, m) ==
  /\ g \in child.groups /\ \A i \in DOMAIN due : due[i] # m
  /\ due' = Append(due, m) /\ mailbox' = Append(mailbox, m)
  /\ child' = IF child.mode = "blocked" THEN [child EXCEPT !.mode = "ready"] ELSE child
  /\ UNCHANGED <<call, pc, handled, heard>>
-----------------------------------------------------------------------------
(* cleanup: observers are told, groups left, messages dropped; on_exit has *)
(* destroyed the state                                                     *)
Cleanup(why) ==
  /\ child' = [child EXCEPT !.mode = "done", !.ended = why, !.groups = {}, !.observers = {},
                            !.registered = FALSE,
                            !.initialized = TRUE,
                            !.state = IF call.impl.stateful THEN "destroyed" ELSE @]
  /\ heard' = [w \in DOMAIN heard |-> heard[w] + IF w \in child.observers THEN 1 ELSE 0]
  /\ mailbox' = <<>>

(* make_behavior: the factory's behavior, or that of a derived class *)
make_behavior == call.functor => child.fac

(* first the state; an actor that ends up without behavior is done *)
initialize ==
  /\ child.mode = "ready" /\ ~child.initialized
  /\ call.impl.kind = "broker" => mailbox # <<>> /\ Head(mailbox) = "sys"
  /\ \/ ~make_behavior /\ Cleanup("no factory")
     \/ Cleanup("no behavior")
     \/ /\ make_behavior
        /\ child' = [child EXCEPT !.initialized = TRUE, !.fac = FALSE,
                                  !.state = IF call.impl.stateful THEN "constructed" ELSE @]
        /\ mailbox' = SelectSeq(mailbox, LAMBDA m : m # "sys")
        /\ UNCHANGED heard
  /\ UNCHANGED <<call, pc, handled, due>>

(* one message, after which the actor may quit; or nothing left to do *)
resume ==
  /\ child.mode = "ready" /\ child.initialized
  /\ \/ /\ mailbox # <<>> /\ handled' = Append(handled, Head(mailbox))
        /\ \/ mailbox' = Tail(mailbox) /\ UNCHANGED <<child, heard>>
           \/ Cleanup("quit")
     \/ /\ mailbox = <<>> /\ child' = [child EXCEPT !.mode = "blocked"]
        /\ UNCHANGED <<handled, heard, mailbox>>
  /\ UNCHANGED <<call, pc, due>>

Next == \/ spawn_impl \/ before_launch \/ Launch \/ eval_opts
        \/ (\E g \in child.groups, m \in Posts : Publish(g, m)) \/ initialize \/ resume
-----------------------------------------------------------------------------
(* Every option takes effect whatever happens while spawn is at work: the  *)
(* actor starts with its behavior factory, keeps and handles in order what *)
(* its groups sent before and after launch, never sleeps on mail, waits    *)
(* for mail if lazy, and is counted unless hidden.  A parent that asked to *)
(* monitor or link hears of the child's end exactly once, however early.   *)
SpawnHonoured ==
  /\ child.ended # "no factory"
  /\ child.mode # "done" =>
       handled \o SelectSeq(mailbox, LAMBDA m : m # "sys") = due
  /\ child.mode = "blocked" => mailbox = <<>>
  /\ (has_lazy_init_flag(call.os) /\ child.at \in {"none", "parent"} /\ due = <<>>)
        => ~child.initialized
  /\ child.mode # "unborn" => /\ child.registered <=> child.mode # "done" /\ ~has_hide_flag(call.os)
                              /\ call.impl.kind # "broker" =>
                                   (child.at = "thread" <=> "detached" \in child.flags)
                              /\ \A i \in DOMAIN call.before : child.mode # "done"
                                   => call.before[i] \in child.groups \cup child.devices
  /\ child.state = (IF ~call.impl.stateful \/ ~child.initialized THEN "raw"
                    ELSE IF child.mode = "done" THEN "destroyed" ELSE "constructed")
  /\ pc = "done" => \A w \in {<<"monitor", "down">>, <<"link", "exit">>} :
       heard[w[2]] + Cardinality(child.observers \cap {w[2]})
         = IF w[1] \in call.after THEN 1 ELSE 0
=============================================================================
