------------------------------ MODULE ActorPool ------------------------------
(***************************************************************************)
(* actor_pool and the shared_spinlock that guards its workers.  Threads    *)
(* run actor_pool::enqueue concurrently: they take the lock shared, decide *)
(* what the message is (filter), and upgrade the lock to change the pool.  *)
(* An upgrade gives up the shared lock before it takes the exclusive one,  *)
(* so what filter saw may no longer hold when the pool is changed.         *)
(***************************************************************************)
EXTENDS Integers, Sequences, FiniteSets, SequencesExt

CONSTANTS
  Threads, Workers,
  Messages,   \* requests to the pool, each sent once
  Policies,   \* subset of {"round_robin", "broadcast", "random"}
  MaxAdmin,   \* bound: put, delete, get and exit messages sent to the pool
  Requests,   \* requests to a pool that splits and joins
  Anonymous   \* those of them without a sender

VARIABLES
  flag,      \* shared_spinlock::flag_
  workers,   \* workers_
  reason,    \* planned_reason_, "none" while the pool runs
  pos,       \* position of round_robin
  policy,
  thr,       \* what each thread is doing
  live,      \* workers that have not terminated
  watched,   \* workers the pool monitors
  inbox,     \* per worker, the requests it got
  bounced,   \* requests answered by the pool, or bounced by a dead worker
  todo,      \* requests and down messages not yet sent, admin messages left
  crashed,   \* workers_ was read outside of its bounds
  members,     \* split/join: workers in the pool
  collectors,  \* per request its split_join_collector
  parts,       \* parts on their way to workers
  results      \* results on their way to collectors

poolVars == <<flag, workers, reason, pos, policy, thr, live, watched, inbox,
              bounced, todo, crashed>>

Exclusive == -100       \* min_long()
Idle == [pc |-> "idle", op |-> "none", arg |-> 0, size |-> 0]

(* actor_pool::make monitors every worker; one worker is left outside *)
Init ==
  /\ flag = 0 /\ reason = "none" /\ pos = 0 /\ crashed = FALSE
  /\ policy \in Policies
  /\ workers = Tail(SetToSeq(Workers))
  /\ live = Workers /\ watched = ToSet(workers)
  /\ thr = [t \in Threads |-> Idle]
  /\ inbox = [x \in Workers |-> {}] /\ bounced = {}
  /\ todo = [send |-> Messages, down |-> {}, admin |-> MaxAdmin]
------------------------------------------------------------------------------
(* actor_pool::enqueue: lock_upgrade is lock_shared, which spins while the *)
(* flag is negative                                                        *)
lock_shared(t, op, arg) ==
  /\ thr[t].pc = "idle" /\ flag >= 0
  /\ flag' = flag + 1
  /\ thr' = [thr EXCEPT ![t] = [pc |-> "filter", op |-> op, arg |-> arg, size |-> 0]]

Enqueue(t) ==
  /\ \/ \E m \in todo.send : /\ lock_shared(t, "send", m)
                             /\ todo' = [todo EXCEPT !.send = @ \ {m}]
     \/ \E x \in todo.down : /\ lock_shared(t, "down", x)
                             /\ todo' = [todo EXCEPT !.down = @ \ {x}]
     \/ /\ todo.admin > 0 /\ todo' = [todo EXCEPT !.admin = @ - 1]
        /\ \/ lock_shared(t, "exit", 0) \/ lock_shared(t, "get", 0)
           \/ \E x \in Workers : \/ /\ x \notin watched
                                    /\ \A u \in Threads : thr[u].arg # x
                                    /\ lock_shared(t, "put", x)
                                 \/ x \in ToSet(workers) /\ lock_shared(t, "delete", x)
  /\ UNCHANGED <<workers, reason, pos, policy, live, watched, inbox, bounced, crashed>>

(* A worker terminates; the pool gets a down message if it monitors it *)
WorkerDies(x) ==
  /\ x \in live
  /\ live' = live \ {x}
  /\ todo' = IF x \in watched THEN [todo EXCEPT !.down = @ \cup {x}] ELSE todo
  /\ UNCHANGED <<flag, workers, reason, pos, policy, thr, watched, inbox, bounced,
                 crashed>>

(* The end of enqueue, with the shared lock held *)
Leave(t) == /\ thr' = [thr EXCEPT ![t] = Idle]
            /\ flag' = flag - 1

(* mutant: the upgrade waits for exclusive access with the shared lock held *)
UpgradeInPlace(t) ==
  /\ thr' = [thr EXCEPT ![t].pc = "upgrade", ![t].size = Len(workers)]
  /\ UNCHANGED flag

(* `size` is what random() saw of the vector when it computed its range *)
unlock_upgrade_and_lock(t) ==
  /\ thr' = [thr EXCEPT ![t].pc = "upgrade", ![t].size = Len(workers)]
  /\ flag' = flag - 1

(* Dispatching to worker x, which bounces the request when it is dead *)
Deliver(x, m) ==
  /\ inbox' = IF x \in live THEN [inbox EXCEPT ![x] = @ \cup {m}] ELSE inbox
  /\ bounced' = IF x \in live THEN bounced ELSE bounced \cup {m}

DeliverAt(i, m) ==
  IF i \in DOMAIN workers
  THEN Deliver(workers[i], m) /\ UNCHANGED crashed
  ELSE crashed' = TRUE /\ UNCHANGED <<inbox, bounced>>

(* mutant: the position is not taken modulo the number of workers *)
RoundRobinUnwrapped(t) ==
  /\ DeliverAt(pos + 1, thr[t].arg)
  /\ pos' = pos + 1 /\ Leave(t)

round_robin(t) ==
  /\ DeliverAt((pos % Len(workers)) + 1, thr[t].arg)
  /\ pos' = pos + 1 /\ Leave(t)

broadcast_dispatch(t) ==
  LET to == ToSet(workers)
  IN  /\ inbox' = [x \in Workers |-> IF x \in to \cap live
                                     THEN inbox[x] \cup {thr[t].arg} ELSE inbox[x]]
      /\ bounced' = IF to \subseteq live THEN bounced ELSE bounced \cup {thr[t].arg}
      /\ Leave(t) /\ UNCHANGED <<pos, crashed>>

Dispatch(t) ==
  \/ policy = "round_robin" /\ round_robin(t)
  \/ policy = "broadcast" /\ broadcast_dispatch(t)
  \/ policy = "random" /\ unlock_upgrade_and_lock(t)
                       /\ UNCHANGED <<pos, inbox, bounced, crashed>>

(* actor_pool::filter up to the upgrade.  Attaching a monitor to a worker  *)
(* that is dead already sends the pool a down message from within attach:  *)
(* its upgrade waits for the shared lock this very thread still holds.     *)
filter(t) ==
  LET op == thr[t].op
      answered == reason # "none" \/ (op = "send" /\ workers = <<>>)
      attachToDead == op = "put" /\ thr[t].arg \notin live
  IN
  /\ thr[t].pc = "filter"
  /\ \/ /\ answered \/ op = "get"
        /\ Leave(t)
        /\ bounced' = IF op = "send" THEN bounced \cup {thr[t].arg} ELSE bounced
        /\ UNCHANGED <<pos, watched, inbox, crashed>>
     \/ ~answered /\ op = "send" /\ Dispatch(t) /\ UNCHANGED watched
     \/ /\ ~answered /\ op \notin {"send", "get"}
        /\ IF attachToDead THEN thr' = [thr EXCEPT ![t].pc = "wedged"] /\ UNCHANGED flag
                           ELSE unlock_upgrade_and_lock(t)
        /\ watched' = IF op = "put" /\ ~attachToDead
                      THEN watched \cup {thr[t].arg} ELSE watched
        /\ UNCHANGED <<pos, inbox, bounced, crashed>>
  /\ UNCHANGED <<workers, reason, policy, live, todo>>

(* lock() spins until the flag is 0 *)
lock(t) ==
  /\ thr[t].pc = "upgrade" /\ flag = 0
  /\ flag' = Exclusive
  /\ thr' = [thr EXCEPT ![t].pc = "unique"]
  /\ UNCHANGED <<workers, reason, pos, policy, live, watched, inbox, bounced, todo,
                 crashed>>

(* The rest of filter, or of random(), under the exclusive lock, and       *)
(* unlock: the pool ends with an exit message or with its last worker.     *)
WithLock(t) ==
  LET op == thr[t].op
      left == CASE op = "exit" -> <<>>
                [] op = "put" -> Append(workers, thr[t].arg)
                [] op \in {"down", "delete"} -> RemoveFirst(workers, thr[t].arg)
                [] op = "send" -> workers
  IN  /\ thr[t].pc = "unique"
      /\ workers' = left
      /\ reason' = CASE op = "exit" -> "exit"
                     [] op = "down" /\ left = <<>> -> "out_of_workers"
                     [] OTHER -> reason
      /\ IF op = "send" THEN \E i \in 1 .. thr[t].size : DeliverAt(i, thr[t].arg)
                        ELSE UNCHANGED <<inbox, bounced, crashed>>
      /\ thr' = [thr EXCEPT ![t] = Idle] /\ flag' = 0
      /\ UNCHANGED <<pos, policy, live, watched, todo>>

Next ==
  /\ ~crashed
  /\ \/ \E t \in Threads : Enqueue(t) \/ filter(t) \/ lock(t) \/ WithLock(t)
     \/ \E x \in Workers : WorkerDies(x)

Fairness == \A t \in Threads : WF_poolVars(~crashed /\ (filter(t) \/ lock(t) \/ WithLock(t)))
------------------------------------------------------------------------------
Wedged == \E t \in Threads : thr[t].pc = "wedged"
InFlight(m) == m \in todo.send \/ \E t \in Threads : thr[t].op = "send" /\ thr[t].arg = m
Receivers(m) == {x \in Workers : m \in inbox[x]}

(* Whatever workers die, join or are removed while a request is dispatched,*)
(* once enqueue has returned the request is in some worker's mailbox or    *)
(* was answered, exactly one of them unless it is broadcast, and           *)
(* round_robin and broadcast never read a worker outside of the vector.    *)
PoolDelivers ==
  /\ crashed => policy = "random"
  /\ ~crashed => \A m \in Messages : InFlight(m) \/
       IF policy = "broadcast" THEN Receivers(m) # {} \/ m \in bounced
       ELSE Cardinality(Receivers(m)) = IF m \in bounced THEN 0 ELSE 1

(* Threads that upgrade their lock at the same time do not wait for each   *)
(* other: every call of enqueue returns (unless a thread waits for itself  *)
(* in a put of a dead worker, or random() read outside of the vector).     *)
PoolReturns ==
  \A t \in Threads :
     thr[t].pc # "idle" ~> thr[t].pc = "idle" \/ Wedged \/ crashed
------------------------------------------------------------------------------
(* The split/join policy, which needs the lock only to copy the workers: a *)
(* collector per request hands the parts of it to the workers and joins    *)
(* their results.  A part is <<request, worker>>.                          *)
NoCollector == [state |-> "none", workset_ |-> {}, awaited_results_ |-> 0, value_ |-> {}, answer |-> {}]
SplitInit ==
  /\ members = Workers /\ collectors = [r \in Requests |-> NoCollector]
  /\ parts = {} /\ results = {}

(* operator(): the workers are copied under the lock, then the collector   *)
(* gets the request; a message without a sender is dropped                 *)
split_join(r) ==
  /\ collectors[r].state = "none" /\ members # {} /\ UNCHANGED <<members, parts, results>>
  /\ collectors' = [collectors EXCEPT ![r] =
       IF r \in Anonymous THEN [@ EXCEPT !.state = "dropped"]
       ELSE [@ EXCEPT !.state = "spawned", !.workset_ = members, !.awaited_results_ = Cardinality(members)]]

(* nop_split: the whole request goes to every worker *)
nop_split(r, ws) == {<<r, w>> : w \in ws}

(* the first message of a collector is the request *)
Split(r) ==
  /\ collectors[r].state = "spawned"
  /\ parts' = parts \cup nop_split(r, collectors[r].workset_)
  /\ collectors' = [collectors EXCEPT ![r].state = "collects", ![r].workset_ = {}]
  /\ UNCHANGED <<members, results>>

(* the others are results; the last one makes the answer *)
Join(r, p) ==
  LET c == collectors[r]
      value == c.value_ \cup {p}
  IN  /\ c.state = "collects" /\ p \in results /\ p[1] = r /\ results' = results \ {p}
      /\ collectors' = [collectors EXCEPT ![r] =
           IF c.awaited_results_ = 1
           THEN [c EXCEPT !.state = "quit", !.awaited_results_ = 0, !.value_ = value, !.answer = value]
           ELSE [c EXCEPT !.awaited_results_ = @ - 1, !.value_ = value]]
      /\ UNCHANGED <<members, parts>>

(* A worker answers the sender of its part; members come and go *)
WorkerAnswers(p) ==
  /\ p \in parts /\ parts' = parts \ {p} /\ results' = results \cup {p} /\ UNCHANGED <<members, collectors>>
LeavePool(w) == w \in members /\ members' = members \ {w} /\ UNCHANGED <<collectors, parts, results>>

SplitNext ==
  \/ \E r \in Requests : split_join(r) \/ Split(r) \/ \E p \in results : Join(r, p)
  \/ \E p \in parts : WorkerAnswers(p)
  \/ \E w \in Workers : LeavePool(w)

(* An answer joins one result of each worker that was in the pool when the *)
(* request came, and nothing of another request, however results of        *)
(* different requests mix; and once all of them are joined it is given.    *)
JoinsComplete ==
  \A r \in Requests :
    LET c == collectors[r]
        open == {p \in parts \cup results : p[1] = r}
    IN  /\ \A p \in c.value_ : p[1] = r
        /\ c.state = "collects" => c.awaited_results_ = Cardinality(open) /\ open # {}
        /\ c.state = "quit" => c.answer # {} /\ c.answer = c.value_ /\ open = {}
==============================================================================
