------------------------------ MODULE Directory ------------------------------
(***************************************************************************)
(* How a program finds what exists once: the singletons behind             *)
(* double-checked locks, the actors in the registry, the types of the      *)
(* spawn server, the groups of the local module, and the addresses of      *)
(* other nodes.  Each of the five has its own variables and its own        *)
(* next-state relation.                                                    *)
(***************************************************************************)
EXTENDS Integers, Sequences, FiniteSets

CONSTANTS Threads, Actors, Ids, Brokers, TypeNames, Factories,
          MaxGroups,      \* bound on the group objects made
          MaxAnnounced,   \* bound on the announced actor types
          Nodes,
          Listings        \* answers of a configuration server: sequences of [proto, works]

VARIABLES inst, mutex, calls, made, returned,
          entries, functor, dead, putting,
          funs, announced, answers,
          modules, instances, proxies, groups, getting, handles, adhoc,
          routes,       \* per node: "none", "indirect" or "direct"
          helper,       \* per node: "none", "waits" or how it ended
          reply,        \* per node: the answer on its way, if any
          connects,     \* connect_atom messages to the broker: <<node, address>>
          broker,       \* "up" or "down"
          enabled       \* enable_automatic_connections

spawnVars == <<funs, announced, answers>>
groupVars == <<modules, instances, proxies, groups, getting, handles, adhoc>>

Nobody == "nobody"
Singletons == {"registry", "scheduler", "group manager"}
-----------------------------------------------------------------------------
(* inst: who made the stored instance; mutex: its holder; calls: the calls *)
(* of lazy_get a thread is in, innermost first; made: instances built      *)
Init ==
  /\ inst = [s \in Singletons |-> Nobody] /\ mutex = [s \in Singletons |-> Nobody]
  /\ calls = [t \in Threads |-> <<>>] /\ made = [s \in Singletons |-> 0]
  /\ returned = {}
  /\ entries = [a \in Actors |-> "absent"] /\ functor = [a \in Actors |-> "none"]
  /\ dead = {} /\ putting = [t \in Threads |-> Nobody]
  /\ funs = [n \in TypeNames |-> Nobody] /\ announced = 0 /\ answers = {}
  /\ modules = {"local"} /\ instances = [i \in Ids |-> 0] /\ proxies = [b \in Brokers |-> 0]
  /\ groups = <<>> /\ getting = [t \in Threads |-> <<>>] /\ handles = {} /\ adhoc = 0
  /\ routes = [n \in Nodes |-> "none"] /\ helper = [n \in Nodes |-> "none"]
  /\ reply = [n \in Nodes |-> <<>>] /\ connects = {} /\ broker = "up" /\ enabled \in BOOLEAN

(* The singletons that a factory, or initialize, asks for first *)
Needs(s) == IF s = "scheduler" THEN <<"registry">> ELSE <<>>

Call(s) == [of |-> s, at |-> "load"]
Goto(t, at) == calls' = [calls EXCEPT ![t][1].at = at]
Return(t) ==
  /\ calls' = [calls EXCEPT ![t] = Tail(@)]
  /\ returned' = returned \cup {<<Head(calls[t]).of, inst'[Head(calls[t]).of]>>}

(* get_actor_registry and its siblings, set_scheduling_coordinator *)
get_singleton(t, s) ==
  /\ calls[t] = <<>> /\ calls' = [calls EXCEPT ![t] = <<Call(s)>>]
  /\ UNCHANGED <<inst, mutex, made, returned>>

(* lazy_get: the first load needs no lock *)
LoadAcquire(t) ==
  /\ calls[t] # <<>> /\ Head(calls[t]).at = "load" /\ UNCHANGED <<inst, mutex, made>>
  /\ IF inst[Head(calls[t]).of] # Nobody THEN Return(t) ELSE Goto(t, "lock") /\ UNCHANGED returned

LockAndLoad(t) ==
  LET s == Head(calls[t]).of
  IN  /\ calls[t] # <<>> /\ Head(calls[t]).at = "lock" /\ mutex[s] = Nobody
      /\ UNCHANGED <<inst, made>>
      /\ IF inst[s] # Nobody THEN Return(t) /\ UNCHANGED mutex
         ELSE /\ mutex' = [mutex EXCEPT ![s] = t] /\ UNCHANGED returned
              /\ calls' = [calls EXCEPT ![t] = (IF Needs(s) = <<>> THEN <<>> ELSE <<Call(Needs(s)[1])>>)
                                               \o <<[of |-> s, at |-> "make"]>> \o Tail(@)]

(* factory and initialize, still invisible to others *)
Make(t) ==
  /\ calls[t] # <<>> /\ Head(calls[t]).at = "make"
  /\ made' = [made EXCEPT ![Head(calls[t]).of] = @ + 1]
  /\ Goto(t, "store") /\ UNCHANGED <<inst, mutex, returned>>

StoreRelease(t) ==
  LET s == Head(calls[t]).of
  IN  /\ calls[t] # <<>> /\ Head(calls[t]).at = "store"
      /\ inst' = [inst EXCEPT ![s] = t] /\ mutex' = [mutex EXCEPT ![s] = Nobody]
      /\ Return(t) /\ UNCHANGED made

SingletonNext ==
  \E t \in Threads : \/ \E s \in Singletons : get_singleton(t, s)
                     \/ LoadAcquire(t) \/ LockAndLoad(t) \/ Make(t) \/ StoreRelease(t)

Waits(t, s) == calls[t] # <<>> /\ Head(calls[t]) = [of |-> s, at |-> "lock"]

(* Whatever the order of the calls, no singleton is made twice and all     *)
(* callers get the same one; a scheduler exists only with a registry,      *)
(* which the order of stop_singletons relies on; and no thread waits for   *)
(* a mutex of its own or of a thread that waits for one of its mutexes.    *)
SingletonsUnique ==
  /\ \A s \in Singletons : made[s] <= 1 /\ Cardinality({r \in returned : r[1] = s}) <= 1
  /\ inst["scheduler"] # Nobody => inst["registry"] # Nobody
  /\ \A t, u \in Threads, s, z \in Singletons :
       ~(Waits(t, s) /\ mutex[s] = u /\ (u = t \/ (Waits(u, z) /\ mutex[z] = t)))
-----------------------------------------------------------------------------
(* actor_registry::put: the entry first, the functor after the lock *)
put(t, a) ==
  /\ putting[t] = Nobody
  /\ IF entries[a] # "absent" THEN UNCHANGED <<entries, putting>>
     ELSE entries' = [entries EXCEPT ![a] = "known"] /\ putting' = [putting EXCEPT ![t] = a]
  /\ UNCHANGED <<functor, dead>>

(* attach_functor runs it at once if the actor has exited meanwhile *)
attach_functor(t) ==
  /\ putting[t] # Nobody
  /\ functor' = [functor EXCEPT ![putting[t]] = IF putting[t] \in dead THEN "runs" ELSE "attached"]
  /\ putting' = [putting EXCEPT ![t] = Nobody]
  /\ UNCHANGED <<entries, dead>>

(* cleanup of an actor takes what is attached to it, then runs it *)
cleanup(a) ==
  /\ a \notin dead /\ dead' = dead \cup {a}
  /\ functor' = [functor EXCEPT ![a] = IF @ = "attached" THEN "runs" ELSE @]
  /\ UNCHANGED <<entries, putting>>

erase(a) ==
  /\ functor[a] = "runs" /\ functor' = [functor EXCEPT ![a] = "ran"]
  /\ entries' = [entries EXCEPT ![a] = IF @ = "absent" THEN @ ELSE "exited"]
  /\ UNCHANGED <<dead, putting>>

(* a null pointer with a reason: unknown, or the one it exited with *)
get_entry(a) == IF entries[a] = "absent" THEN "unknown" ELSE entries[a]

RegistryNext ==
  \/ \E t \in Threads : attach_functor(t) \/ \E a \in Actors : put(t, a)
  \/ \E a \in Actors : cleanup(a) \/ erase(a)

(* An actor is reported as exited only after it has exited; and once it    *)
(* has, and nobody is in the middle of put or of the functors, the         *)
(* registry no longer holds it, although put attaches without its lock.    *)
RegistryTruthful ==
  \A a \in Actors :
    /\ get_entry(a) = "exited" => a \in dead
    /\ a \in dead /\ functor[a] # "runs" /\ (\A t \in Threads : putting[t] # a) => get_entry(a) # "known"
-----------------------------------------------------------------------------
(* announce_actor_type_server: a factory is named after the arguments that *)
(* it accepts                                                              *)
add(n, f) ==
  /\ announced < MaxAnnounced /\ announced' = announced + 1
  /\ funs' = IF funs[n] = Nobody THEN [funs EXCEPT ![n] = f] ELSE funs
  /\ UNCHANGED answers

spawn_type(n, args) ==
  /\ answers' = answers \cup {<<n, args, CASE funs[n] = Nobody -> "no such type"
                                          [] funs[n] = args -> "ok" [] OTHER -> "bad arguments">>}
  /\ UNCHANGED <<funs, announced>>

SpawnServerNext ==
  \E n \in TypeNames, f \in Factories : add(n, f) \/ spawn_type(n, f)

(* Once a name is announced, the same request gets the same answer for     *)
(* ever, whatever else is announced under that name.                       *)
TypesStable ==
  \A n \in TypeNames, f \in Factories : ~({<<n, f, "ok">>, <<n, f, "bad arguments">>} \subseteq answers)
-----------------------------------------------------------------------------
(* group_manager and local_group_module; a group object is a record, up    *)
(* says that its broker runs, 0 is no object                               *)
NewGroup(id) == [id |-> id, up |-> TRUE]
Stopped(os) == [o \in DOMAIN groups |-> IF o \in os THEN [groups[o] EXCEPT !.up = FALSE] ELSE groups[o]]

(* The upgradable lock is released between the look and the emplace *)
Look(t, table, key, found) ==
  /\ getting[t] = <<>>
  /\ IF found # 0
     THEN handles' = handles \cup {<<table, key, found>>} /\ UNCHANGED <<groups, getting>>
     ELSE /\ Len(groups) < MaxGroups
          /\ groups' = Append(groups, NewGroup(key))
          /\ getting' = [getting EXCEPT ![t] = <<[table |-> table, key |-> key, tmp |-> Len(groups) + 1]>>]
          /\ UNCHANGED handles
  /\ UNCHANGED <<modules, instances, proxies>>

get(t, id) == "local" \in modules /\ Look(t, "instances", id, instances[id]) /\ UNCHANGED adhoc
anonymous(t) ==
  /\ "local" \in modules /\ adhoc + 1 \in Ids /\ adhoc' = adhoc + 1
  /\ Look(t, "instances", adhoc + 1, instances[adhoc + 1])
deserialize(t, b) == "local" \in modules /\ Look(t, "proxies", b, proxies[b]) /\ UNCHANGED adhoc

(* someone might preempt us: then the new group is stopped, a proxy is not *)
Emplace(t) ==
  LET g == getting[t][1]
      old == IF g.table = "instances" THEN instances[g.key] ELSE proxies[g.key]
      kept == IF old = 0 THEN g.tmp ELSE old
  IN  /\ getting[t] # <<>>
      /\ IF g.table = "instances"
         THEN instances' = [instances EXCEPT ![g.key] = kept] /\ UNCHANGED proxies
         ELSE proxies' = [proxies EXCEPT ![g.key] = kept] /\ UNCHANGED instances
      /\ groups' = IF kept # g.tmp /\ g.table = "instances" THEN Stopped({g.tmp}) ELSE groups
      /\ handles' = handles \cup {<<g.table, g.key, kept>>}
      /\ getting' = [getting EXCEPT ![t] = <<>>]
      /\ UNCHANGED <<modules, adhoc>>

add_module(m) ==
  /\ m \notin modules /\ "local" \in modules /\ modules' = modules \cup {m}
  /\ UNCHANGED <<instances, proxies, groups, getting, handles, adhoc>>

(* group_manager::stop, once the actors are done: every module stops its   *)
(* groups and waits for their brokers                                      *)
stop ==
  /\ modules # {} /\ \A t \in Threads : getting[t] = <<>>
  /\ modules' = {} /\ handles' = {}
  /\ groups' = Stopped({instances[i] : i \in Ids} \cup {proxies[b] : b \in Brokers})
  /\ instances' = [i \in Ids |-> 0] /\ proxies' = [b \in Brokers |-> 0]
  /\ UNCHANGED <<getting, adhoc>>

GroupNext ==
  \/ \E t \in Threads : \/ \E i \in Ids : get(t, i)
                        \/ \E b \in Brokers : deserialize(t, b)
                        \/ anonymous(t) \/ Emplace(t)
  \/ add_module("custom") \/ stop

(* All handles of a name denote the same group, although two threads may   *)
(* create it at once; and a broker of a local group that runs belongs to   *)
(* the group that the name denotes, or to one that get still holds, so     *)
(* that stop leaves none running.                                          *)
GroupsUnique ==
  /\ \A g, h \in handles : g[1] = h[1] /\ g[2] = h[2] => g[3] = h[3]
  /\ \A o \in DOMAIN groups : groups[o].up /\ groups[o].id \in Ids =>
       instances[groups[o].id] = o \/ \E t \in Threads : getting[t] # <<>> /\ getting[t][1].tmp = o
-----------------------------------------------------------------------------
(* Automatic connections: a BASP broker that hears of a node through       *)
(* another one spawns a helper, which asks the configuration server of     *)
(* that node for its addresses and tries them in turn.                     *)
(* learned_new_node_indirectly, called when add_indirect was the first to  *)
(* add a route                                                             *)
learned_new_node_indirectly(n) ==
  /\ broker = "up" /\ routes[n] = "none"
  /\ routes' = [routes EXCEPT ![n] = "indirect"]
  /\ IF enabled THEN /\ helper' = [helper EXCEPT ![n] = "waits"]
                     /\ \E l \in Listings : reply' = [reply EXCEPT ![n] = <<l>>]
     ELSE UNCHANGED <<helper, reply>>
  /\ UNCHANGED <<connects, broker, enabled>>

(* The first address that is not an ethernet address and accepts *)
Reachable(l) == {i \in DOMAIN l : l[i].proto # "ethernet" /\ l[i].works}

(* the configuration: whatever it says, the helper is done *)
ReceiveConfig(n) ==
  LET good == Reachable(reply[n][1])
  IN  /\ helper[n] = "waits" /\ reply[n] # <<>>
      /\ helper' = [helper EXCEPT ![n] = "done"] /\ reply' = [reply EXCEPT ![n] = <<>>]
      /\ connects' = IF good = {} THEN connects
                     ELSE connects \cup {<<n, CHOOSE i \in good : \A j \in good : i <= j>>}
      /\ UNCHANGED <<routes, broker, enabled>>

(* the broker is down, or nothing was heard for ten minutes *)
HelperQuits(n) ==
  /\ helper[n] = "waits"
  /\ helper' = [helper EXCEPT ![n] = IF broker = "down" THEN "down" ELSE "timeout"]
  /\ UNCHANGED <<routes, reply, connects, broker, enabled>>

(* the broker's connect handler: the new connection becomes direct *)
Connected(n, i) ==
  /\ broker = "up" /\ <<n, i>> \in connects /\ connects' = connects \ {<<n, i>>}
  /\ routes' = [routes EXCEPT ![n] = "direct"]
  /\ UNCHANGED <<helper, reply, broker, enabled>>
BrokerDown == broker = "up" /\ broker' = "down" /\ UNCHANGED <<routes, helper, reply, connects, enabled>>

DialNext ==
  \/ \E n \in Nodes : \/ learned_new_node_indirectly(n) \/ ReceiveConfig(n) \/ HelperQuits(n)
                      \/ \E c \in connects : Connected(n, c[2])
  \/ BrokerDown

(* A node is dialled at most once, and only by a helper that got an        *)
(* answer: an answer that crosses with the timeout or the end of the       *)
(* broker dials nothing; and without a helper there is no direct route.    *)
DialledOnce ==
  \A n \in Nodes :
    /\ Cardinality({c \in connects : c[1] = n}) + (IF routes[n] = "direct" THEN 1 ELSE 0) <= 1
    /\ (routes[n] = "direct" \/ \E c \in connects : c[1] = n) => helper[n] = "done"
    /\ helper[n] \in {"timeout", "down"} => routes[n] = "indirect"
=============================================================================
