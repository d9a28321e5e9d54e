---------------------------- MODULE ConfigServer ----------------------------
(* The configuration server actor_registry spawns: values by key, and the  *)
(* actors that subscribed to a key.                                        *)
EXTENDS Integers, FiniteSets, Sequences, TLC

CONSTANTS Clients, Keys, Values, MaxRequests   \* MaxRequests: bound on client messages

VARIABLES
  data,         \* kvstate::data: per key known so far, value and subscribers
  topics,  \* kvstate::subscribers: per actor known so far, its topics
  monitored,    \* actors the server monitors
  alive,
  downs,        \* down messages under way
  updates,      \* per client, the keys it was told about
  asked

None == "none"
Entry(k) == IF k \in DOMAIN data THEN data[k] ELSE [value |-> None, subs |-> {}]
Topics(c) == IF c \in DOMAIN topics THEN topics[c] ELSE {}
Put(f, x, v) == (x :> v) @@ f

Init ==
  /\ data = <<>> /\ topics = <<>> /\ monitored = {} /\ alive = Clients
  /\ downs = {} /\ updates = [c \in Clients |-> {}] /\ asked = 0

Request == asked < MaxRequests /\ asked' = asked + 1

(* put_atom: subscribers other than the sender are told when the value changes *)
put(c, k, v) ==
  LET e == Entry(k)
  IN  /\ Request
      /\ data' = Put(data, k, [e EXCEPT !.value = v])
      /\ updates' = [d \in Clients |-> IF e.value # v /\ d \in e.subs \ {c}
                                       THEN updates[d] \cup {k} ELSE updates[d]]
      /\ UNCHANGED <<topics, monitored, alive, downs>>

subscribe(c, k) ==
  /\ Request
  /\ data' = Put(data, k, [Entry(k) EXCEPT !.subs = @ \cup {c}])
  /\ topics' = Put(topics, c, Topics(c) \cup {k})
  /\ monitored' = IF c \in DOMAIN topics THEN monitored ELSE monitored \cup {c}
  /\ downs' = IF c \in DOMAIN topics \/ c \in alive THEN downs ELSE downs \cup {c}
  /\ UNCHANGED <<alive, updates>>

unsubscribe(c, k) ==
  /\ Request
  /\ topics' = Put(topics, c, Topics(c) \ {k})
  /\ data' = Put(data, k, [Entry(k) EXCEPT !.subs = @ \ {c}])
  /\ UNCHANGED <<monitored, alive, downs, updates>>

ClientDies(c) ==
  /\ c \in alive /\ alive' = alive \ {c}
  /\ downs' = IF c \in monitored THEN downs \cup {c} ELSE downs
  /\ UNCHANGED <<data, topics, monitored, updates, asked>>

down(c) ==
  /\ c \in downs /\ downs' = downs \ {c} /\ monitored' = monitored \ {c}
  /\ data' = [k \in DOMAIN data |-> IF k \in Topics(c) THEN [data[k] EXCEPT !.subs = @ \ {c}]
                                                       ELSE data[k]]
  /\ topics' = [d \in DOMAIN topics \ {c} |-> topics[d]]
  /\ UNCHANGED <<alive, updates, asked>>

Next ==
  \E c \in Clients :
    \/ \E k \in Keys : \/ \E v \in Values : put(c, k, v)
                       \/ subscribe(c, k) \/ unsubscribe(c, k)
    \/ ClientDies(c) \/ down(c)
------------------------------------------------------------------------------
(* The two maps stay inverse to each other through any order of            *)
(* subscriptions, cancellations and deaths, so that a down message takes   *)
(* an actor out of every key, and an actor the server monitors is          *)
(* forgotten once its down message was handled.                            *)
SubscriptionsInverse ==
  /\ \A c \in Clients, k \in Keys : c \in Entry(k).subs <=> k \in Topics(c)
  /\ \A c \in monitored : c \in alive \/ c \in downs
==============================================================================
