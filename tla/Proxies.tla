------------------------------- MODULE Proxies -------------------------------
(***************************************************************************)
(* The proxies of one remote actor on one node.  The thread of the broker  *)
(* finds them through weak anchors in its namespace and kills them; other  *)
(* threads hold, copy and drop references, and link to them.               *)
(***************************************************************************)
EXTENDS Integers, Sequences, FiniteSets

CONSTANTS Users,         \* threads of local actors
          MaxProxies,    \* bound on the proxies made one after the other
          MaxLinkOps     \* bound on the link operations

B == "broker"
Holders == Users \cup {B}
Instances == 1 .. MaxProxies
None == 0

VARIABLES proxy,     \* per instance its record
          entry,     \* the proxy_entry of the remote actor: an instance, or None
          hold,      \* references each thread holds: the instance, or None
          drop,      \* progress of deref: [at, of]
          posted,    \* instances whose functor waits in the broker's queue
          links,     \* <<user, instance>>: the user has a link to it
          owed,      \* link operations a user still has to forward
          remote,    \* link operations in the order in which both ends know them
          exits,     \* <<user, instance>>: the user was told that it exited
          fault      \* freed memory was used

(* actor_proxy and its anchor: rc counts references, own tells whether the *)
(* exit functor holds one                                                  *)
Unborn == [rc |-> 0, own |-> FALSE, anchored |-> FALSE, state |-> "unborn", manager |-> FALSE, exited |-> FALSE]
Idle == [at |-> "no", of |-> None]

Init ==
  /\ proxy = [i \in Instances |-> Unborn] /\ entry = None
  /\ hold = [t \in Holders |-> None] /\ drop = [t \in Holders |-> Idle]
  /\ posted = <<>> /\ links = {} /\ owed = [u \in Users |-> <<>>] /\ remote = <<>>
  /\ exits = {} /\ fault = FALSE

expired(i) == ~proxy[i].anchored
get_reference_count(i) == proxy[i].rc
-----------------------------------------------------------------------------
(* mutant: the exit functor does not keep the proxy alive *)
MakeWeakProxy == [Unborn EXCEPT !.rc = 1, !.anchored = TRUE, !.state = "live", !.manager = TRUE]

(* make_proxy: one reference for the caller, one in the exit functor *)
make_proxy ==
  [Unborn EXCEPT !.rc = 2, !.own = TRUE, !.anchored = TRUE, !.state = "live", !.manager = TRUE]

BrokerFree == hold[B] = None /\ drop[B] = Idle

(* anchor::get: a new reference, under the shared lock, if not expired *)
Acquired(i) == [proxy EXCEPT ![i].rc = @ + 1]

(* get_or_put, and get, which makes none and forgets an expired entry *)
get_or_put ==
  /\ BrokerFree
  /\ IF entry # None /\ ~expired(entry)
     THEN proxy' = Acquired(entry) /\ hold' = [hold EXCEPT ![B] = entry] /\ UNCHANGED entry
     ELSE \E i \in Instances :
            /\ proxy[i].state = "unborn" /\ \A j \in 1 .. i - 1 : proxy[j].state # "unborn"
            /\ proxy' = [proxy EXCEPT ![i] = make_proxy]
            /\ entry' = i /\ hold' = [hold EXCEPT ![B] = i]
  /\ UNCHANGED <<drop, posted, links, owed, remote, exits, fault>>
get ==
  /\ BrokerFree /\ entry # None
  /\ IF expired(entry) THEN entry' = None /\ UNCHANGED <<proxy, hold>>
     ELSE proxy' = Acquired(entry) /\ hold' = [hold EXCEPT ![B] = entry] /\ UNCHANGED entry
  /\ UNCHANGED <<drop, posted, links, owed, remote, exits, fault>>

(* A reference goes to another thread, with a message *)
Copy(t, u) ==
  /\ hold[t] # None /\ drop[t] = Idle /\ t # u /\ hold[u] = None /\ drop[u] = Idle
  /\ proxy' = Acquired(hold[t]) /\ hold' = [hold EXCEPT ![u] = hold[t]]
  /\ UNCHANGED <<entry, drop, posted, links, owed, remote, exits, fault>>
-----------------------------------------------------------------------------
(* ref_counted::deref: a look at the count, then the decrement; the one    *)
(* that makes it zero asks for deletion                                    *)
Deref(t) ==
  /\ hold[t] # None /\ drop[t] = Idle /\ (t \in Users => owed[t] = <<>>)
  /\ drop' = [drop EXCEPT ![t] = [at |-> "fetch_sub", of |-> hold[t]]]
  /\ hold' = [hold EXCEPT ![t] = None]
  /\ UNCHANGED <<proxy, entry, posted, links, owed, remote, exits, fault>>

(* request_deletion up to try_expire; both paths decrement once *)
request_deletion(t) ==
  LET i == drop[t].of
  IN  /\ drop[t].at = "fetch_sub"
      /\ proxy' = [proxy EXCEPT ![i].rc = @ - 1]
      /\ drop' = [drop EXCEPT ![t] = IF proxy[i].rc = 1 THEN [at |-> "try_expire", of |-> i] ELSE Idle]
      /\ fault' = (fault \/ proxy[i].state = "freed")
      /\ UNCHANGED <<entry, hold, posted, links, owed, remote, exits>>

(* try_expire looks again under the lock; then the proxy is deleted, whose *)
(* destructor tells the manager, if it still has one                       *)
try_expire(t) ==
  LET i == drop[t].of
  IN  /\ drop[t].at = "try_expire"
      /\ drop' = [drop EXCEPT ![t] = Idle]
      /\ fault' = (fault \/ proxy[i].state = "freed")
      /\ proxy' = IF get_reference_count(i) = 0
                  THEN [proxy EXCEPT ![i].anchored = FALSE, ![i].state = "freed"] ELSE proxy
      /\ UNCHANGED <<entry, hold, posted, links, owed, remote, exits>>
-----------------------------------------------------------------------------
(* kill_proxy: no manager any more, then cleanup: who is linked hears of   *)
(* it and the functor is posted with its reference                         *)
kill_proxy(i, p) == [p EXCEPT ![i].manager = FALSE, ![i].exited = TRUE, ![i].own = FALSE]

(* proxy_entry::reset, for erase, clear and the destructor: the broker     *)
(* holds a reference while it kills the proxy                              *)
reset ==
  IF entry = None \/ expired(entry)
  THEN entry' = None /\ UNCHANGED <<proxy, hold, posted, links, exits>>
  ELSE /\ entry' = None /\ hold' = [hold EXCEPT ![B] = entry]
       /\ proxy' = IF proxy[entry].exited THEN Acquired(entry) ELSE kill_proxy(entry, Acquired(entry))
       /\ posted' = IF ~proxy[entry].own THEN posted ELSE Append(posted, entry)
       /\ exits' = exits \cup {l \in links : l[2] = entry}
       /\ links' = {l \in links : l[2] # entry}
erase == BrokerFree /\ entry # None /\ reset /\ UNCHANGED <<drop, owed, remote, fault>>

(* the posted functor erases the entry of that actor, whatever it is now;  *)
(* afterwards its own reference goes                                       *)
RunPosted ==
  /\ BrokerFree /\ posted # <<>>
  /\ IF entry = None
     THEN /\ posted' = Tail(posted) /\ drop' = [drop EXCEPT ![B] = [at |-> "fetch_sub", of |-> Head(posted)]]
          /\ UNCHANGED <<proxy, entry, hold, links, owed, remote, exits, fault>>
     ELSE reset /\ UNCHANGED <<drop, owed, remote, fault>>
-----------------------------------------------------------------------------
(* link_impl: the local part, if it changes something; then forward_msg    *)
Changes(u, i, op) == IF op = "link" THEN <<u, i>> \notin links ELSE <<u, i>> \in links
link_impl(u, op) ==
  LET i == hold[u]
  IN  /\ i # None /\ drop[u] = Idle /\ owed[u] = <<>> /\ Changes(u, i, op) /\ Len(remote) < MaxLinkOps
      /\ fault' = (fault \/ proxy[i].state = "freed")
      /\ IF proxy[i].exited
         THEN exits' = exits \cup {l \in {<<u, i>>} : op = "link"} /\ UNCHANGED <<links, owed>>
         ELSE /\ links' = IF op = "link" THEN links \cup {<<u, i>>} ELSE links \ {<<u, i>>}
              /\ owed' = [owed EXCEPT ![u] = <<[op |-> op, by |-> u, of |-> i]>>] /\ UNCHANGED exits
      /\ UNCHANGED <<proxy, entry, hold, drop, posted, remote>>

(* forward_msg: to the manager, unless the proxy was killed meanwhile *)
forward_msg(u) ==
  LET f == Head(owed[u])
  IN  /\ owed[u] # <<>>
      /\ owed' = [owed EXCEPT ![u] = <<>>]
      /\ remote' = Append(remote, IF proxy[f.of].manager THEN f ELSE [f EXCEPT !.op = "lost"])
      /\ fault' = (fault \/ proxy[f.of].state = "freed")
      /\ UNCHANGED <<proxy, entry, hold, drop, posted, links, exits>>

(* the remote end, or the loss of its node, links and unlinks locally only *)
local_link_to(u) ==
  /\ BrokerFree /\ entry # None /\ ~expired(entry) /\ ~proxy[entry].exited
  /\ \E l \in {<<u, entry>>} : links' \in {links \cup {l}, links \ {l}} /\ links' # links
  /\ Len(remote) < MaxLinkOps
  /\ remote' = Append(remote, [op |-> "remote", by |-> u, of |-> entry])
  /\ UNCHANGED <<proxy, entry, hold, drop, posted, owed, exits, fault>>

Next ==
  \/ get_or_put \/ get \/ erase \/ RunPosted
  \/ \E t \in Holders : Deref(t) \/ request_deletion(t) \/ try_expire(t) \/ \E u \in Users : Copy(t, u)
  \/ \E u \in Users : \/ \E op \in {"link", "unlink"} : link_impl(u, op)
                      \/ forward_msg(u) \/ local_link_to(u)
-----------------------------------------------------------------------------
(* What the remote end was told of a link *)
About(u, i) == SelectSeq(remote, LAMBDA f : f.by = u /\ f.of = i)
Believes(u, i) == LET told == About(u, i) IN told # <<>> /\ told[Len(told)].op = "link"
OnlyLocal(u, i) == \A k \in DOMAIN About(u, i) : About(u, i)[k].op # "remote"

(* However get, deref and kill interleave, no thread touches a freed proxy *)
(* and the namespace never holds the anchor of one; a proxy is freed only  *)
(* when it was killed, so that everyone linked to it has heard; and as     *)
(* long as it lives the remote end was told of every link a local actor    *)
(* set or took back, unless the remote end changed that link itself.       *)
ProxiesSound ==
  /\ ~fault
  /\ entry # None => ~expired(entry)
  /\ \A i \in Instances :
       /\ proxy[i].state = "freed" => proxy[i].exited
       /\ proxy[i].exited => \A u \in Users : /\ <<u, i>> \notin links
                                              /\ Believes(u, i) /\ OnlyLocal(u, i) /\ owed[u] = <<>> => <<u, i>> \in exits
       /\ proxy[i].state = "live" /\ proxy[i].manager =>
            \A u \in Users : owed[u] = <<>> /\ OnlyLocal(u, i) => (<<u, i>> \in links <=> Believes(u, i))
=============================================================================
