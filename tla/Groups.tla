------------------------------- MODULE Groups -------------------------------
(***************************************************************************)
(* A local group, its broker, and its proxies on other nodes               *)
(* (group_manager.cpp).  The broker on the home node knows the proxies     *)
(* that have subscribers (acquaintances_); a proxy joins with its first    *)
(* subscriber and leaves with its last one, by messages it sends when it   *)
(* has released its lock.  Messages of one node reach the broker in order, *)
(* messages of different nodes in any order.                               *)
(***************************************************************************)
EXTENDS Integers, Sequences, FiniteSets, SequencesExt, TLC

CONSTANTS
  Proxies,    \* the nodes that hold a local_group_proxy
  Members,    \* Members[s]: the actors of site s, s \in Sites
  Posts,      \* messages sent to the group, each once
  Joins       \* bounds: functions from actors to how often each calls join

Home == "home"
Sites == Proxies \cup {Home}
AllMembers == UNION {Members[s] : s \in Sites}
SiteOf(a) == CHOOSE s \in Sites : a \in Members[s]

VARIABLES
  subscribers,    \* per site, subscribers_
  acquaintances,  \* acquaintances_ of the local_broker
  toBroker,       \* per site, its messages to the local_broker
  toProxy,        \* per proxy, the messages to its proxy_broker
  pend,           \* what an actor still has to tell the broker
  moves,
  up,             \* sites (for Home: its broker) that run
  unmonitored,    \* proxies whose broker_monitor_actor has quit
  got,            \* how often an actor got a message
  groupDown,      \* actors that were told that the group is down
  overtaken,      \* history: proxies whose join was sent before an older leave
  due             \* history: per message, who must get it

groupVars == <<subscribers, acquaintances, toBroker, toProxy, pend, moves, up,
               unmonitored, got, groupDown, overtaken, due>>

Init ==
  /\ subscribers = [s \in Sites |-> {}] /\ acquaintances = {}
  /\ toBroker = [s \in Sites |-> <<>>] /\ toProxy = [p \in Proxies |-> <<>>]
  /\ pend = [a \in AllMembers |-> "none"] /\ moves \in Joins
  /\ up = Sites /\ unmonitored = {} /\ groupDown = {} /\ overtaken = {}
  /\ got = [a \in AllMembers |-> [m \in Posts |-> 0]]
  /\ due = <<>>
------------------------------------------------------------------------------
Forget(a) == [m \in DOMAIN due |-> due[m] \ {a}]

add_subscriber(s, a) == [subscribers EXCEPT ![s] = @ \cup {a}]
erase_subscriber(s, a) == [subscribers EXCEPT ![s] = @ \ {a}]
Tells(a, what, now) == IF SiteOf(a) # Home /\ now THEN [pend EXCEPT ![a] = what] ELSE pend

(* local_actor::join and subscribe; a proxy must then join, outside of its lock *)
join(a) ==
  LET s == SiteOf(a)
  IN  /\ pend[a] = "none" /\ moves[a] > 0 /\ s \in up \cup {Home} /\ a \notin subscribers[s]
      /\ moves' = [moves EXCEPT ![a] = @ - 1]
      /\ subscribers' = add_subscriber(s, a)
      /\ pend' = Tells(a, "join", subscribers'[s] = {a})
      /\ UNCHANGED <<acquaintances, toBroker, toProxy, up, unmonitored, got, groupDown, overtaken,
                     due>>

unsubscribe(a) ==
  LET s == SiteOf(a)
  IN  /\ pend[a] = "none" /\ a \in subscribers[s] /\ s \in up \cup {Home}
      /\ subscribers' = erase_subscriber(s, a)
      /\ pend' = Tells(a, "leave", subscribers'[s] = {})
      /\ due' = Forget(a)
      /\ UNCHANGED <<acquaintances, toBroker, toProxy, up, unmonitored, got, groupDown,
                     overtaken>>

leave(a) == unsubscribe(a) /\ UNCHANGED moves
(* the subscription attached to an actor that exits *)
actor_exited(a) == unsubscribe(a) /\ moves' = [moves EXCEPT ![a] = 0]

ToBroker(s, kind, m) == [toBroker EXCEPT ![s] = Append(@, [kind |-> kind, m |-> m])]

(* anon_send(broker_, join_atom or leave_atom, proxy_broker_): the threads  *)
(* of two actors of one node send in any order                              *)
TellBroker(a) ==
  LET p == SiteOf(a)
      late == \E b \in Members[p] : pend[b] = "leave"
  IN
  /\ pend[a] # "none" /\ p \in up
  /\ toBroker' = ToBroker(p, pend[a], p)
  /\ pend' = [pend EXCEPT ![a] = "none"]
  /\ overtaken' = CASE pend[a] = "leave" -> overtaken
                     [] pend[a] = "join" /\ late -> overtaken \cup {p}
                     [] pend[a] = "join" /\ ~late -> overtaken \ {p}
  /\ UNCHANGED <<subscribers, acquaintances, toProxy, moves, up, unmonitored, got,
                 groupDown, due>>

send_all_subscribers(s, m) ==
  got' = [a \in AllMembers |-> IF a \in subscribers[s] THEN [got[a] EXCEPT ![m] = @ + 1]
                                                   ELSE got[a]]

Settled(p) ==
  /\ p \in acquaintances \cap up /\ Home \in up
  /\ \A i \in DOMAIN toBroker[p] : toBroker[p][i].kind # "leave"
  /\ \A i \in DOMAIN toBroker[Home] : toBroker[Home][i] # [kind |-> "down", m |-> p]
  /\ \A a \in Members[p] : pend[a] = "none"

DueAtSend(s) ==
  UNION {subscribers[p] : p \in {q \in Proxies : Settled(q)}}
  \cup IF s = Home \/ Home \in up THEN subscribers[Home] ELSE {}

(* mutant: the group's own enqueue leaves the subscribers to the broker *)
EnqueueBrokerOnly(s, m) ==
  toBroker' = ToBroker(s, IF s = Home THEN "post" ELSE "forward", m) /\ UNCHANGED got

(* local_group::enqueue and local_group_proxy::enqueue *)
enqueue(s, m) ==
  IF s = Home
  THEN send_all_subscribers(Home, m) /\ toBroker' = ToBroker(s, "post", m)
  ELSE toBroker' = ToBroker(s, "forward", m) /\ UNCHANGED got

Post(s, m) ==
  /\ s \in up \cup {Home} /\ m \notin DOMAIN due
  /\ enqueue(s, m)
  /\ due' = due @@ (m :> DueAtSend(s))
  /\ UNCHANGED <<subscribers, acquaintances, toProxy, pend, moves, up, unmonitored, groupDown,
                 overtaken>>

send_to_acquaintances(m) ==
  toProxy' = [p \in Proxies |-> IF p \in acquaintances \cap up THEN Append(toProxy[p], m)
                                                               ELSE toProxy[p]]

(* local_broker: one message of its behavior *)
local_broker(s) ==
  LET x == Head(toBroker[s])
  IN  /\ Home \in up /\ toBroker[s] # <<>>
      /\ toBroker' = [toBroker EXCEPT ![s] = Tail(@)]
      /\ CASE x.kind = "join" -> /\ acquaintances' = acquaintances \cup ({x.m} \cap up)
                                 /\ UNCHANGED <<toProxy, got>>
           [] x.kind \in {"leave", "down"} -> /\ acquaintances' = acquaintances \ {x.m}
                                              /\ UNCHANGED <<toProxy, got>>
           [] x.kind = "forward" -> /\ send_all_subscribers(Home, x.m)
                                    /\ send_to_acquaintances(x.m)
                                    /\ UNCHANGED acquaintances
           [] x.kind = "post" -> send_to_acquaintances(x.m) /\ UNCHANGED <<acquaintances, got>>
      /\ UNCHANGED <<subscribers, pend, moves, up, unmonitored, groupDown, overtaken, due>>

(* proxy_broker: everything it gets goes to the subscribers of its group *)
proxy_broker(p) ==
  /\ p \in up /\ toProxy[p] # <<>>
  /\ send_all_subscribers(p, Head(toProxy[p]))
  /\ toProxy' = [toProxy EXCEPT ![p] = Tail(@)]
  /\ UNCHANGED <<subscribers, acquaintances, toBroker, pend, moves, up, unmonitored,
                 groupDown, overtaken, due>>

(* A proxy's node is lost with the messages it has under way; the broker,  *)
(* which monitors the proxy_broker, gets a down message.                   *)
ProxyLost(p) ==
  /\ p \in up /\ up' = up \ {p}
  /\ toBroker' = [ToBroker(Home, "down", p) EXCEPT ![p] = <<>>]
  /\ toProxy' = [toProxy EXCEPT ![p] = <<>>]
  /\ due' = [m \in DOMAIN due |-> IF Contains(toBroker[p], [kind |-> "forward", m |-> m])
                                  THEN {} ELSE due[m] \ Members[p]]
  /\ UNCHANGED <<subscribers, acquaintances, pend, moves, unmonitored, got, groupDown, overtaken>>

(* The broker ends: what it has not forwarded is lost *)
BrokerDies ==
  /\ Home \in up /\ up' = up \ {Home}
  /\ acquaintances' = {} /\ toBroker' = [s \in Sites |-> <<>>]
  /\ due' = [m \in DOMAIN due |->
               {a \in due[m] : got[a][m] > 0 \/ (SiteOf(a) # Home
                                                   /\ Contains(toProxy[SiteOf(a)], m))}]
  /\ UNCHANGED <<subscribers, toProxy, pend, moves, unmonitored, got, groupDown, overtaken>>

broker_monitor_actor(p) ==
  /\ Home \notin up /\ p \in up \ unmonitored
  /\ unmonitored' = unmonitored \cup {p}
  /\ groupDown' = groupDown \cup subscribers[p]
  /\ UNCHANGED <<subscribers, acquaintances, toBroker, toProxy, pend, moves, up, got,
                 overtaken, due>>

Next ==
  \/ \E a \in AllMembers : join(a) \/ leave(a) \/ actor_exited(a) \/ TellBroker(a)
  \/ \E s \in Sites : local_broker(s) \/ \E m \in Posts : Post(s, m)
  \/ \E p \in Proxies : proxy_broker(p) \/ ProxyLost(p) \/ broker_monitor_actor(p)
  \/ BrokerDies
------------------------------------------------------------------------------
Idle == /\ \A a \in AllMembers : pend[a] = "none" \/ SiteOf(a) \notin up
        /\ Home \in up => \A s \in Sites : toBroker[s] = <<>>
        /\ \A p \in Proxies : toProxy[p] = <<>>

(* No actor gets a group message twice.  Once all messages are handled,    *)
(* every actor that was a member the broker knew of before a message was   *)
(* sent, and has not left, got it: through the group, through the broker's *)
(* forwarding, or through its proxy, whatever nodes were lost meanwhile.   *)
(* The broker knows only proxies with subscribers, and misses only one     *)
(* whose last leave was overtaken by the join of a new first subscriber.   *)
GroupDelivers ==
  /\ \A a \in AllMembers, m \in Posts : got[a][m] <= 1
  /\ Idle => /\ \A m \in DOMAIN due : \A a \in due[m] : got[a][m] = 1
             /\ Home \in up =>
                  LET used == {p \in Proxies \cap up : subscribers[p] # {}}
                  IN  acquaintances \subseteq used /\ used \ acquaintances \subseteq overtaken
==============================================================================
