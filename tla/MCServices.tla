----------------------------- MODULE MCServices -----------------------------
(* The services built from actors, for TLC: a behaviour runs one of them,  *)
(* the variables of the others keep their initial values.                  *)
EXTENDS Integers, Sequences, TLC

CONSTANTS Threads, Workers, Messages, Policies, MaxAdmin,
          Proxies, Posts, Clients, Keys, Values, MaxRequests,
          Parts,          \* which of the services to run
          Greetings,
          Writers, Files, BadFile, MaxTime, Delays, MaxDelayed, MaxPrints,
          Users, MaxProxies, MaxLinkOps,
          Actors, Ids, Brokers, TypeNames, Factories, MaxGroups, MaxAnnounced,
          Cpus, ActorIds, Resolution, MaxClock, MaxSpent,
          Requests, Anonymous, Nodes,
          Owners, Fds, Ports, Tasks

VARIABLES part, flag, workers, reason, pos, policy, thr, live, watched, inbox,
          bounced, todo, crashed,
          subscribers, acquaintances, toBroker, toProxy, pend, moves, up,
          unmonitored, got, groupDown, overtaken, due,
          data, topics, monitored, alive, downs, updates, asked,
          timer, printer,
          call, pc, child, mailbox, handled, owed, heard,
          proxy, entry, hold, drop, posted, links, forwards, remote, exits, fault,
          inst, mutex, calls, made, returned,
          entries, functor, dead, putting,
          funs, announced, answers,
          modules, instances, proxies, groups, getting, handles, adhoc,
          clock, worker_states, jobs_, last_flush_, file_, spent,
          members, collectors, parts, results,
          routes, helper, reply, connects, broker, enabled,
          kind, bound, local, thrown, unassigned_sockets_, unassigned_acceptors_, native,
          scribes_, doormen_, ended, handles_sent, lost,
          loop, tid_, supervised, queue, order, ran

(* Members of the group: one actor of each node may join, or both actors   *)
(* of the same node, one of them twice                                     *)
MCMembers == [s \in Proxies \cup {"home"} |->
                {<<s, i>> : i \in IF s = "home" THEN {1} ELSE {1, 2}}]
MCJoins ==
  LET actors == UNION {MCMembers[s] : s \in DOMAIN MCMembers}
      p == CHOOSE s \in Proxies : TRUE
  IN  {[a \in actors |-> 2 - a[2]],
       [a \in actors |-> IF a[1] = p THEN a[2] ELSE 0]}

pool == <<flag, workers, reason, pos, policy, thr, live, watched, inbox, bounced,
          todo, crashed>>
group == <<subscribers, acquaintances, toBroker, toProxy, pend, moves, up,
           unmonitored, got, groupDown, overtaken, due>>
config == <<data, topics, monitored, alive, downs, updates, asked>>
utility == <<timer, printer>>
spawned == <<call, pc, child, mailbox, handled, owed, heard>>
proxied == <<proxy, entry, hold, drop, posted, links, forwards, remote, exits, fault>>
single == <<inst, mutex, calls, made, returned>>
registry == <<entries, functor, dead, putting>>
types == <<funs, announced, answers>>
named == <<modules, instances, proxies, groups, getting, handles, adhoc>>
directory == <<single, registry, types, named>>
profile == <<clock, worker_states, jobs_, last_flush_, file_, spent>>
split == <<members, collectors, parts, results>>
dialled == <<routes, helper, reply, connects, broker, enabled>>
sockets == <<kind, bound, local, thrown, unassigned_sockets_, unassigned_acceptors_,
             native, scribes_, doormen_, ended, handles_sent, lost>>
looped == <<loop, tid_, supervised, queue, order, ran>>
extra == <<profile, split, dialled, sockets, looped>>

MCOptionSets == {{}, {"monitor", "link"}, {"lazy_init", "monitor"}, {"hide", "lazy_init", "link"},
                 {"detach", "link", "priority_aware"}, {"blocking_api", "monitor"}, {"priority_aware", "hide"}}

P == INSTANCE ActorPool
G == INSTANCE Groups WITH Members <- MCMembers, Joins <- MCJoins
K == INSTANCE ConfigServer
U == INSTANCE UtilityActors

L == INSTANCE Spawning WITH Posts <- Greetings, due <- owed, OptionSets <- MCOptionSets,
                            GroupLists <- {<<"g1">>, <<"g1", "g2">>}

X == INSTANCE Proxies WITH owed <- forwards
F == INSTANCE Profiling
Address(proto, works) == [proto |-> proto, works |-> works]
MCListings == {<<>>, <<Address("ethernet", TRUE)>>,
               <<Address("ipv4", FALSE), Address("ethernet", TRUE), Address("ipv6", TRUE), Address("ipv4", TRUE)>>}
D == INSTANCE Directory WITH Listings <- MCListings
S == INSTANCE Sockets

Init == /\ part \in Parts /\ P!Init /\ G!Init /\ K!Init /\ U!Init /\ L!Init /\ X!Init /\ D!Init
        /\ F!Init /\ P!SplitInit /\ S!Init
        /\ part # "pool" => policy = CHOOSE x \in Policies : TRUE
        /\ part # "dialled" => enabled
        /\ part # "group" => moves = CHOOSE m \in MCJoins : TRUE
        /\ part # "spawn" => call = CHOOSE c \in L!Calls : L!Compiles(c)

Next ==
  /\ UNCHANGED part
  /\ \/ part = "pool" /\ P!Next /\ UNCHANGED <<group, config, utility, spawned, proxied, directory, extra>>
     \/ part = "group" /\ G!Next /\ UNCHANGED <<pool, config, utility, spawned, proxied, directory, extra>>
     \/ part = "config" /\ K!Next /\ UNCHANGED <<pool, group, utility, spawned, proxied, directory, extra>>
     \/ part = "timer" /\ U!TimerNext /\ UNCHANGED <<pool, group, config, printer, spawned, proxied, directory, extra>>
     \/ part = "printer" /\ U!PrinterNext /\ UNCHANGED <<pool, group, config, timer, spawned, proxied, directory, extra>>
     \/ part = "spawn" /\ L!Next /\ UNCHANGED <<pool, group, config, utility, proxied, directory, extra>>
     \/ part = "proxies" /\ X!Next /\ UNCHANGED <<pool, group, config, utility, spawned, directory, extra>>
     \/ /\ part = "singletons" /\ D!SingletonNext
        /\ UNCHANGED <<pool, group, config, utility, spawned, proxied, registry, types, named, extra>>
     \/ /\ part = "registry" /\ D!RegistryNext
        /\ UNCHANGED <<pool, group, config, utility, spawned, proxied, single, types, named, extra>>
     \/ /\ part = "types" /\ D!SpawnServerNext
        /\ UNCHANGED <<pool, group, config, utility, spawned, proxied, single, registry, named, extra>>
     \/ /\ part = "named" /\ D!GroupNext
        /\ UNCHANGED <<pool, group, config, utility, spawned, proxied, single, registry, types, extra>>
     \/ /\ part = "profiler" /\ F!Next
        /\ UNCHANGED <<pool, group, config, utility, spawned, proxied, directory, split, dialled, sockets, looped>>
     \/ /\ part = "split" /\ P!SplitNext
        /\ UNCHANGED <<pool, group, config, utility, spawned, proxied, directory, profile, dialled, sockets, looped>>
     \/ /\ part = "dialled" /\ D!DialNext
        /\ UNCHANGED <<pool, group, config, utility, spawned, proxied, directory, profile, split, sockets, looped>>
     \/ /\ part = "sockets" /\ S!SocketNext
        /\ UNCHANGED <<pool, group, config, utility, spawned, proxied, directory, profile, split, dialled, looped>>
     \/ /\ part = "loop" /\ S!LoopNext
        /\ UNCHANGED <<pool, group, config, utility, spawned, proxied, directory, profile, split, dialled, sockets>>

(* The threads in the pool keep running; nothing else needs to happen *)
Spec == Init /\ [][Next]_<<part, pool, group, config, utility, spawned, proxied, directory, extra>>
        /\ P!Fairness

(* Only the service that runs changes, so only its properties are          *)
(* evaluated.                                                              *)

(* A message to a pool reaches the workers its policy names, or bounces,   *)
(* whatever is added, removed or dies between filter and dispatch          *)
(* (ActorPool); a split request joins the results of its own parts.        *)
PoolDelivers == /\ part = "pool" => P!PoolDelivers
                /\ part = "split" => P!JoinsComplete
(* Every call of actor_pool::enqueue returns: the shared, upgraded and     *)
(* exclusive locks of its spinlock never wait for each other for ever.     *)
PoolReturns == P!PoolReturns
(* A post reaches every member, on whatever node, once (Groups), and all   *)
(* handles of a group name the same group object (Directory).              *)
GroupDelivers == /\ part = "group" => G!GroupDelivers
                 /\ part = "named" => D!GroupsUnique
(* Who knows, has or reaches whom: SubscriptionsInverse of ConfigServer,   *)
(* ProxiesSound of Proxies, SingletonsUnique, RegistryTruthful,            *)
(* TypesStable and DialledOnce of Directory, SocketsOwned and              *)
(* PostedInOrder of Sockets.                                               *)
DirectoryConsistent == /\ part = "config" => K!SubscriptionsInverse
                       /\ part = "proxies" => X!ProxiesSound
                       /\ part = "singletons" => D!SingletonsUnique
                       /\ part = "registry" => D!RegistryTruthful
                       /\ part = "types" => D!TypesStable
                       /\ part = "dialled" => D!DialledOnce
                       /\ part = "sockets" => S!SocketsOwned
                       /\ part = "loop" => S!PostedInOrder
(* Delayed messages arrive in the order of their due times, every finished *)
(* line is printed once to the sink of its writer (UtilityActors), and the *)
(* time workers spend is accounted once (Profiling).                       *)
OutputComplete == /\ part = "timer" => U!DelaysKept
                  /\ part = "printer" => U!OutputComplete
                  /\ part = "profiler" => F!TimeAccounted
(* A spawned actor is launched once, sees the messages of its groups, and  *)
(* its parent hears of its end, however early it comes (Spawning).         *)
SpawnHonoured == part = "spawn" => L!SpawnHonoured
=============================================================================
