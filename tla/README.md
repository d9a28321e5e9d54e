# Boost.Actor in TLA+

This directory holds TLA+ models of Boost.Actor (a variant of CAF): the
lock-free mailbox and the two ways an actor is executed, the scheduler and
shutdown, links and monitors, requests and timeouts, the network layer from
sockets to routing, the services built from actors, and the sequential
algorithms for types, patterns, messages and serialization. TLC checks them on
small instances; TLAPS proves the central facts about both kinds of actors, the
job queue, the scheduler with shutdown, links, the BASP brokers and the brokers
of the event loop for any number of senders, threads, workers, jobs, actors,
nodes and connections. `PROJECT.json` maps every definition to
the lines it models and lists runs, mutants, hazards and findings.

Paths below are relative to `src/libboost_actor_core/` (`core`) and
`src/libboost_actor_io/` (`io`).

## 1. The system

| Component | State | Operations | Talks to |
|---|---|---|---|
| Mailbox, `detail/single_reader_queue.hpp` | `stack_` (atomic, LIFO, or one of two dummies, or null), `head_` (fetched, FIFO), `cache_` (skipped) | `enqueue`, `try_pop`, `try_block`, `try_unblock`, `close`, `synchronized_enqueue`, `synchronized_await` | many senders, one reader |
| Actor, `src/local_actor.cpp`, `src/abstract_actor.cpp` | mailbox, behaviour stack, planned and published exit reason, pending responses, timeout id | `launch`, `enqueue`, `resume`, `quit`, `cleanup` | workers, senders, registry, attachables |
| Detached and blocking actors, timer | the same, a thread, `mtx_` and `cv_` | `await_data`, `dequeue`, `try_dequeue`, `receive` family | their mailbox |
| Links and monitors, `src/abstract_actor.cpp`, `src/default_attachable.cpp` | list of attachables and `mtx_` per actor | `attach`, `detach`, `link_to`, `unlink_from`, back-link operations, `cleanup` | other actors, under lock |
| Job queue, `detail/double_ended_queue.hpp` | linked list with dummy, two spin locks | `append`, `prepend`, `take_head`, `take_tail` | owner, thieves, everybody |
| Scheduler, `scheduler/*.hpp`, `policy/*.hpp` | workers with job queues, shutdown helper | `exec_later`, `enqueue`, `dequeue`, `try_steal`, `stop` | job queues, `resume` |
| Registry, `src/actor_registry.cpp` | id to actor or exit reason, named actors, running count with condition variable, key-value server | `put`, `erase`, `put_named`, `inc/dec_running`, `await_running_count_equal`, `subscribe` | actors' clean-up, shutdown |
| Singletons, `src/singletons.cpp` | one pointer and mutex each | `lazy_get`, `stop_singletons` | all of the above |
| Requests and timeouts, `message_id.hpp`, `local_actor.cpp` | request counter, pending responses, current timeout id | `sync_send`, response handling, `request_timeout`, promises | timer, mailbox |
| Spawning and sending, `spawn.hpp`, `send.hpp` | options, groups, behaviour factories | `spawn_*`, `send_*`, `delegate`, `forward` | registry, groups, scheduler |
| Actor pool, `src/actor_pool.cpp` | workers, planned reason, a spin lock with non-atomic upgrade | `enqueue` = `filter` + dispatch; split/join | its workers |
| Groups, `src/group_manager.cpp` | subscribers, brokers of remote groups, modules | `subscribe`, `send`, `get`, `stop` | actors, remote nodes |
| Timer and printer, `src/abstract_coordinator.cpp` | delayed messages by due time; lines per writer, sinks | `delayed_send`, `aout`, `redirect` | all actors |
| Namespace and proxies | node to proxies, anchors, reference counts | `get_or_put`, `erase`, `kill_proxy`, `try_expire` | BASP broker |
| BASP, `io/src/basp.cpp`, `basp_broker.cpp` | routing table, connection contexts, handshake callbacks | one handler per message type | proxies, registry, sockets |
| Brokers and multiplexer, `io` | scribes, doormen, write buffers, unassigned sockets, posted work | read, write and accept loops, `publish`, `close` | sockets, middleman |
| Messages, patterns, types | reference-counted data, views, type tokens, sorted type table | `cow_ptr`, `try_match`, `invoke`, serializers | everything that sends |

Actors interact only by `enqueue`, except for links and attachables, where one
actor's thread runs under another's mutex, and for data that messages share. The
hard behaviours are therefore:

* senders race the reader on `stack_`, whose value also says who may run the
  actor: a lost wake-up or a doubled one is invisible to a unit test;
* an actor closes its mailbox, bounces what is in it and publishes its exit
  reason in separate steps, while others still send, link and monitor;
* sleeping on a condition variable next to a lock-free queue, with a time limit
  that races a late message;
* two locks on one linked list whose nodes are freed while others walk it;
* mutexes of two actors taken in opposite order;
* shutdown, which takes down parts that detached threads, workers and the event
  loop still use;
* responses, bounces and timeouts for one request that cross each other;
* connections, nodes and proxies that vanish while handshakes, kill messages and
  posted work about them are under way;
* a lock whose upgrade gives it up in between (pool, groups);
* reference counts that tell a writer whether it may write in place.

## 2. Modules

| Module | Models | Notes |
|---|---|---|
| `SingleReaderQueue` | `single_reader_queue.hpp` | state and atomic operations of the queue. `stack_` is a sequence of messages and the mark below them: the empty dummy, the blocked dummy or null |
| `ActorMailbox` | `enqueue` of senders, `invoke_message`, cache, `cleanup` | one sender step per atomic access (load, compare-and-swap, retry, bounce); reader operations as sub-actions shared by the next two modules |
| `ScheduledActor` | `launch`, `resume`, `worker::run` for one actor | EXTENDS `ActorMailbox` |
| `DetachedActor` | the thread of a detached actor, of a blocking actor and of the timer | EXTENDS `ActorMailbox` |
| `ActorContract` | what both promise | abstract; `ScheduledActor` and `DetachedActor` refine it |
| `DoubleEndedQueue`, `JobDeque` | `double_ended_queue.hpp`; an atomic deque | one shared memory access per step, nodes are recycled; refines `JobDeque` |
| `ActorLinks` | attachables, links, monitors, exit and down messages | each critical section is a step |
| `Runtime` | workers with both policies, running count, named actors, detached threads, `shutdown` | composes scheduler, registry and singletons; job queues are atomic, which `DoubleEndedQueue` justifies, a resume is one step, which `ScheduledActor` justifies |
| `Requests` | `message_id`, pending responses, timeouts, cache, priorities, promises, migration | one event-based actor with its clients, its server and the timer |
| `Basp` | `basp.cpp`, `basp_broker.cpp`, the namespace | the brokers of all nodes and the connections between them |
| `Broker` | `abstract_broker`, scribes, doormen, stream and acceptor loops, middleman actor, `middleman::stop` | bytes are numbered; an asynchronous operation is pending, then ready or failed |
| `Sockets` | sockets on their way to a broker; posted and dispatched work of the event loop | descriptors are numbers and are given out again |
| `Proxies` | `actor_proxy`, anchors, `forwarding_actor_proxy`, `actor_namespace` | one remote actor, proxies made one after the other |
| `ActorPool` | `actor_pool`, `shared_spinlock`, `split_join` | |
| `Groups` | `local_group`, its broker and its proxies | |
| `ConfigServer` | the key-value actor of the registry | |
| `Directory` | `singletons`, `actor_registry::put`, the spawn server, `group_manager`, the connection helper of the BASP broker | five independent next-state relations |
| `UtilityActors` | timer and printer | |
| `Profiling` | `profiled_coordinator` | |
| `Spawning` | the spawn family and the first steps of the child | |
| `Sending` | the send family | operators: what a call checks and enqueues |
| `TypedActors`, `HandleInference` | `type_list.hpp`, `ctm.hpp`, `typed_actor_util.hpp`, `infer_handle.hpp` | a type list is a sequence |
| `Patterns` | `type_nr`, `try_match`, match cases, behaviours | |
| `Messages` | message data with reference counts, views and builders | |
| `Serialization`, `Encodings`, `Handles` | the formats, the type table, atoms, floats, durations, node ids, handles, `extract_opts` | |
| `Containers`, `MemoryCache` | `limited_vector`, the partitioned list, behaviour stack, hooks, receive loops; storages of objects | |
| `ActorMailboxProofs`, `ScheduledActorProofs`, `DetachedActorProofs` | theorems and lemmas about the mailbox and both kinds of actors, and that they keep `ActorContract` | TLAPS |
| `DoubleEndedQueueProofs`, `RuntimeProofs`, `ActorLinksProofs`, `BaspProofs`, `BrokerProofs` | theorems and lemmas about the job queue, the runtime, links and monitors, the BASP brokers, brokers with their scribes and doormen | TLAPS |
| `MC...` | instances for TLC | `MCServices` runs one of the services per behaviour, `MCAlgorithms` one sample per initial state |

**Mailbox and actors.** A message is a record of its sender, a number and
whether it is a request. `pc[p]`, `e[p]` are the program counter and the local
variable `e` of `enqueue` for sender `p`. A compare-and-swap succeeds if the
pointer loaded earlier equals the current top, which includes the case that the
memory of a consumed message was handed out again at the same address
(`Recycled`). What a handler does is chosen freely: answer, skip, drop, quit, or
throw with or without an attached handler that revives the actor. `replies`,
`bounces`, `arrivals`, `taken` and `lost` are history variables. In
`ScheduledActor` the scheduler is reduced to the number `jobs` of queue entries
that hold the actor; `wpc[w]` follows worker `w` through `resume`. In
`DetachedActor` `kind` selects the program of the thread, `mtx` and `signalled`
model the mutex and the condition variable, which may wake up spuriously.
Reading the empty optional at `local_actor.cpp:674` is undefined behaviour and
yields any value.

**Job queue.** A thread first takes its locks and then makes one access per
step; the locks are released with the last write. `Delete` frees a node, which
may be allocated again at once. The list is `Reachable(head_, next)`, the
smallest set with the dummy that is closed under `next`, which needs no
recursion.

**Links.** Threads are the actors themselves plus outside threads that hold
handles (`link_to` is public). `establish_link_impl` is `LinkTo`,
`EstablishLink`, `EstablishBacklink` and `AttachLink` or `RefuseBacklink`;
`mtx_[x]` stays locked in between. Mailboxes hold only exit and down messages.
`owed[x][y]` counts the down messages that `x` still has to get from `y`.
`detach` keeps the elements at the positions that do not match, in their order
(`Increasing` enumerates them), and `Count` is the size of a set of positions;
both can be reasoned about, which `SelectSeq` cannot.

**Runtime.** `policy` selects the queues: one per worker with stealing, or one
shared queue with a condition variable. `pc` is where `main` is: it uses the
actors, awaits their end or not, and then runs through `stop_singletons`.
`dec_running` is split where it notifies outside the step that decrements.
`coordinator::stop` sends its helper to the first worker of its set of live
ones, which is ordered by address: `StopWorker` takes any live worker.

**Requests.** The state of the actor is the record `s`; the operators that
transform it bear the names of the member functions. Timers fire at any time
after they were requested. Ids have `IdBits` bits below the three flags.
An actor is plain, priority-aware, or stateful with a serializable state; the code
keeps the last two in one bit.

**BASP.** A connection has a handle at each end; a handler of `basp_broker` is
one action, built from operators on the broker's state for the member functions
it calls. The wire is a FIFO sequence of headers and payloads; a connection may
be cut at any time, after which either end reads what is left and then sees it
closed. Work posted to the event loop is a step of its own.

**Broker.** `w` holds what the event loop's thread works on. A callback runs to
its end with everything the broker's handlers do in it. The bytes of a
connection are numbered, so that order and completeness can be read off.

**Services and algorithms.** `MCServices` instantiates eleven modules with
disjoint variables and chooses in `part` which of them runs: the state space is
the sum, not the product. `MCAlgorithms` evaluates the laws of the algorithms on
every sample of its sets and runs `Messages` and `MemoryCache` as state machines.
A law compares an operator that keeps the recursion of the code with a direct
definition (a set, a filter, an arithmetic formula).

Sequential consistency is assumed throughout. The atomics of the mailbox and of
the job queue use the default ordering, the spin locks acquire and release.

## 3. Runs

| Run | Instance | Shows |
|---|---|---|
| `scheduled_safety` | 2 senders, 2 workers, up to 3 messages, 2 per resume, symmetry | `OneOwner`, `NeverAbandoned`, `ArrivalOrder`, refinement of `ActorContract` |
| `scheduled_liveness` | 2 senders with 1 message each, 2 workers, throughput 1 | `MailSettles`: requests settle, mail is looked at |
| `detached` | 2 senders, up to 3 messages, all three kinds of thread, symmetry | `NoLostWakeup`, `AwaitDelivers`, refinement of `ActorContract` |
| `job_queue` | owner, 3 other threads, 3 jobs, 5 nodes, symmetry | `NodesSound` (no use after free, no leak, assertions), refinement of `JobDeque` |
| `links` | 2 actors, 1 outside thread, 4 calls in all, all exit reasons | `LinksBidirectional`, `DownsAccounted`, `ErrorsPropagate` |
| `basp` | 3 nodes, 3 connections, one fault: a cut or a dead actor | `RoutesBacked`, `ProxiesRouted`, `ConnectAnswered` |
| `runtime` | 2 workers, both policies, 2 actors, a utility and a detached thread, 2 sends | `JobsPlaced`, `WorkersSignalled`, `OutlivesUsers`, `AwaitExact`, `ShutdownCompletes` |
| `requests` | 2 clients, 2 requests, 2 messages, 2 timeouts, with and without priority awareness | `HandledOnce`, `AnswersAccounted`, `NoLostTimeout`, `CacheSettled` |
| `broker` | 1 connection, 1 port, 2 actors, 3 receive policies, one fault | `WritesDelivered`, `InputInOrder`, `PublishedServed`, `StopReturns` |
| `services` | 16 parts, see `Services.cfg` | `PoolDelivers`, `PoolReturns`, `GroupDelivers`, `DirectoryConsistent`, `OutputComplete`, `SpawnHonoured` |
| `algorithms` | 13 parts, about 76,000 samples | `ListsLawful`, `InterfacesSound`, `DispatchCorrect`, `ValuesSurvive`, `ValueSemantics` |

One run is expected to find a violation (see `findings`): `messages_shared`
lets handlers with mutable arguments match views that copies of a message share
(`WriteShared`), and finds that they write into the other copy, against the
comment at `match_case.hpp:211`. A fresh view is safe: its constructor copies
shared data. In `algorithms` such handlers match, and `get_as_mutable` writes
to, owned data and views nobody else holds a part of.

The properties of `services` and `algorithms` are conjunctions over their
parts, each defined and explained in the module of the part.

**Bounds.** A sender race needs two senders; a stale compare-and-swap needs a
message that comes and goes and one whose address is recycled, hence three
messages. Two workers are what it takes to run an actor twice or to steal, and a
throughput of two lets a resume end with and without mail. In the job queue at
most 1 + |Job| nodes are live, so five nodes for three jobs leave one that is
free to be recycled; three jobs give a list with a first, a middle and a last
node, and four threads can hold or wait for every lock at once. A link needs four
steps, so four calls allow two actors to link, unlink and link again while a
third thread interferes. Three nodes are the smallest network with an indirect
route, and dialling both neighbours turns it into a direct one; a second fault
would only repeat the purge of the first. Two requests of one actor give
responses out of order, nested waits and a chained request, whose inner handler
may have a timeout or refuse the response; two timeouts let an
old one cross a new one. One connection in each direction of use (much traffic,
or much opening and closing: `MCWorkloads`) suffices because servants share no
state but the broker's maps. Pools have three workers so that one can leave while
two remain; two threads upgrade the lock at once. A group has two subscribers on
a proxy, so that one leaves while the other joins. Every bound is a constant named
in its module (`Max...`) or a set in the cfg.

**Deadlock.** Checked for actors and the job queue; `Quiescent` is the one legal
end. It is switched off for `ActorLinks`, where the mutexes really can deadlock
(`Stuck`), and for the other modules, whose environments stop when their bounds
are used up; there liveness is stated where something has to happen
(`ShutdownCompletes`, `StopReturns`, `PoolReturns`, `AwaitExact`).

**Fairness.** Weak fairness of each thread's steps once it has begun something:
threads of the operating system are not starved, handlers are assumed to return,
mutexes are released after finitely many steps, and completed or failed socket
operations are reported. No fairness makes anybody send or call anything, and
none is assumed of spurious wake-ups, of peers, of which victim a thief picks or
of when `main` leaves. `ErrorsPropagate` exempts behaviours in which two threads
wait for each other's mutex.

## 4. Proofs

| Module | For every | Theorems |
|---|---|---|
| `ScheduledActorProofs` | set of senders and workers, bound on messages, throughput | `TypeCorrect`, `OwnerInvariant`, `ActorHasOneOwner` (`OneOwner`), `ActorNeverAbandoned` (`NeverAbandoned`), `ReaderAssertsHold`, `MessagesInArrivalOrder` (`ArrivalOrder`), `MailAccounted`, `ActorKeepsContract` (`ImplementsContract`) |
| `DetachedActorProofs` | set of senders, bound on messages, kind of thread | `TypeCorrect`, `ThreadInvariant`, `SleeperIsWoken` (`NoLostWakeup`), `AwaitNeverLies` (`AwaitDelivers`), `ReaderAssertsHold`, `MessagesInArrivalOrder`, `MailAccounted`, `ActorKeepsContract` (`ImplementsContract`) |
| `DoubleEndedQueueProofs` | set of threads and jobs, finite set of nodes | `Invariance`, `LocksExclude`, `NodesStaySound` (`NodesSound`), `NoJobLost` |
| `RuntimeProofs` | number of workers, finite sets of actors and threads, both policies | `Invariance`, `JobsInOnePlace` (`JobsPlaced`), `SleepersAreSignalled` (`WorkersSignalled`), `RunningCounted`, `SingletonsOutliveUsers` (`OutlivesUsers`), `AwaitIsNotEarly` (half of `AwaitExact`) |
| `ActorLinksProofs` | set of actors, outside threads and exit reasons, bound on calls | `Invariance`, `LinkingExcludes`, `LinksStayBidirectional` (`LinksBidirectional`), `DownsStayAccounted` (`DownsAccounted`), `LinkedAtMostOnce` |
| `BaspProofs` | sets of nodes, connections and actors, who dials whom, what is published, bounds on sends and faults | `Invariance`, `RoutesBackedThm` (`RoutesBacked`), `ProxiesRoutedThm` (`ProxiesRouted`), `ConnectAnsweredThm` (`ConnectAnswered`) |
| `BrokerProofs` | sets of connections, ports and actors, receive policies, reactions of the handlers, bounds on traffic, tasks and faults | `Invariance`, `WritesDeliveredThm` (`WritesDelivered`), `InputInOrderThm` (`InputInOrder`), `PublishedServedThm` (`PublishedServed`) |

A name in parentheses is the property of a run that the theorem states.
`ActorMailboxProofs` holds the lemmas that both kinds of actors share. Every
inductive invariant was checked by TLC on the instance of the run before it was
proved.

**Assumptions.** `QueueAssumption` (the dummies and null are different and are
not messages), the assumptions on reasons in `ActorMailbox`,
`ThroughputAssumption` (positive), `DetachedAssumption` (the thread is no
sender), `LinksAssumption` (actors and outside threads are different),
`DequeAssumption` (null is neither node nor job, memory is finite), and
`BaspAssumption` (actors live on nodes, a node publishes and spawns its own
actors, the iteration order of hops is injective), `BrokerAssumption` (invalid
handles are no actors, receive policies ask for at least one byte, the reactions
are those the model knows), and
`RuntimeAssumption`: there is a worker, the sets of actors and threads are
finite and disjoint where one variable holds members of several, and none of
them is one of the strings that mark "nobody". TLC evaluates all of them.

**Scheduled actors: `OwnerInv`.** `OneOwner` is not inductive: that a worker may
start the actor depends on nobody else being about to, which depends on what the
stack said when they looked. The strengthening says that the mark below the
stack and the owner determine each other: the blocked dummy means that nobody
owns the actor and no fetched message is left; null means that it is dead or its
only runner has closed it; otherwise there is exactly one owner: a queue entry, a
running worker, or the one sender whose push replaced the blocked dummy. Two
facts about local variables complete it: a worker about to compare-and-swap
expects neither the blocked dummy nor null (so `fetch_new_data`'s assertions
hold), and it has an empty `head_`. There is one lemma for steps of senders and
one for steps of workers (`SenderOwnerStep`, `WorkerOwnerStep`), each with one
case per action. `RunByOwnerInv` and `QueuedOwnerInv` state the invariant for an
actor that is being run or queued; every action ends in one of those two
situations, in the blocked one or in the dead one.

**Detached actors: `ThreadInv`.** The same idea for a thread that sleeps. The
mark determines where the thread can be (`MarkAndPc`), the program counter
determines which list is empty (`ListsAndPc`) and who has the mutex
(`MutexAndPc`), and a sleeper that does not see the blocked dummy has a sender
about to notify it (`WakeupComes`). The last is what `NoLostWakeup` needs between
the test of `blocked()` and the wait: the sender that replaced the dummy can
notify only once the thread has given up the mutex.

**Order and accounting.** Arrival order is inductive with `TypeOK` and the owner
or thread invariant: a push appends to the end of the order (`ReversePush`),
taking the head moves one message from one side to the other (`HeadMoves`), and
a fetch requires the empty `head_`. `MailInv` adds that arrivals are distinct and
have left their senders' hands, that the cache holds distinct messages that were
taken, and that only those were answered.

**Refinement.** `ActorContract` is implemented under the mapping that shows
`head \o Reverse(stack)` as the inbox, the set of skipped messages, and a mode
computed from mark and owner. `ModeFacts` says which mode is shown where;
`Contract...` are the steps of the contract under the mapping; `SenderRefines`
and a lemma per group of reader's actions show that each step is one of them or
invisible. A compare-and-swap that enqueues is `Accept`, also when it expected a
recycled pointer; a fetch is invisible; bouncing what was fetched is `Flush` and
closing the stack is `Die`.

**Job queue: `ListInv`.** Nodes are sound because of what each thread in the
middle of an operation knows about the list (`HalfDone`), which nodes it owns
(`OwnNodes`: created and not linked yet, or unlinked and not deleted), and that
`tail_` is the last node unless an operation on the tail is half done
(`TailIsLast`). `MutualExclusion` shows that nobody else is in such a place.
`ListShape` says that the reachable nodes are live and form a path, from which
the lemmas on `Reachable` derive what linking, unlinking and cutting do to it.
`NoJobLost` carries the values along.

**Runtime.** `PlacesInv` replaces the number of a job's places by exclusion (in
at most one position of one queue, with at most one worker, not both) and by
*somewhere exactly if due*; `JobsPlaced`, which counts, follows by a bijection.
`WorkersSignalled` is inductive with it. `CountInv` relates `running_` and the
count of detached threads to the sets they count, and `StopInv` what is already
gone at each point of `stop_singletons`. `AwaitIsNotEarly` is an action property.

**Links.** `LocksInv` says which thread holds which actor's mutex and that the
actor has not ended meanwhile; `EndsInv` how far the end of an actor has come.
`LinksBidirectional` speaks about open mailboxes only and is not inductive:
`Mutual` also covers an actor that has closed its mailbox but not published its
reason, and the moment between the partner's link and its own (`Attaching`).
Removing the first match must remove the only one (`LinkedOnce`), for which the
own link must be absent while the other side is told (`OwnLinkAbsent`). The
lemmas on lists say what prepending, appending, taking the head, removing the
first match and removing all matches do to membership and to counts;
`DetachFacts` rests on the existence of an increasing enumeration of a finite
set of positions, the inverse of the function that ranks them
(`EnumerationExists`).

**BASP.** A handler is a composition of operators from broker state to broker
state, which call each other as the member functions do. `Sound` is what each of
them preserves, one lemma per operator (`WriteSound` to `HandleSound`): the state
of one broker relative to the ends of the connections, the handles it cannot use
and those whose promise it still owes. Being the inverse of each other is not
enough for the two direct maps: a direct route must lead to the node at the other
end of its connection, which is why a handshake for a second connection to the
same node must be refused; `Allowed` says which handshakes can be on which wire,
so that a handler learns the sender's place from the datagram.
`ProxiesRouted` (`Reach` in the invariant) rests on three facts: `lookup` drops
hops up to a usable one and never that one, a direct route goes away only
together with the proxies of its node, and a node that turns from indirect to
direct stays reachable. A route through a lost hop is not cleaned up by the code
(section 5); `Stranded` is the set of nodes for which that excuse exists, and a
handler may use it only if it closes its handle (`Excused`). `PromisesInv` says
why an answer is still possible while `remote_actor` waits: the connection is in the backlog, or the server's handshake
is the first thing to be read on it, or it is lost. `InstallInv` carries a
broker's step over to sockets, wires and promises; each action has one lemma. The
run checks an instance of three connections in which each pair of nodes dials
once and one connection is cut; the theorems assume neither.

**Brokers.** A callback is a composition of operators on `w` that ends anywhere: a
handler may write, close, quit or be skipped in the middle of it. Most of what
they do is a `Calm` step: it hands no bytes over, may start to read or write, may
give up connections and doors, and if the broker ends gives up all of them. One
lemma per operator shows it calm or says which bytes it hands over, and `Keeps`
carries the invariant `Safe` over the composition. The three properties are
strengthened as follows.

* `OutputOK`: `flushed` never passes `written`, and a failed write marks the
  connection broken before its callback runs, so that the buffer in progress may
  be forgotten only then.
* `CacheInv`: only a broker that awaits a response has a cache, and it holds bytes
  of connections the broker knows.
* `InputOK`: nothing arrives, and nothing is in the cache, for a connection the
  broker does not know yet (`Early`); a scribe that was not launched does not
  read (`Started`), so that `configure_read` does not start a second read. When a
  scribe hands over what it read, the bytes are for a moment both in the buffer
  and with the broker; the lemmas speak of the scribe without them (`Emptied`),
  for which the broker's reaction is calm.
* `DoorsInv`: a completed accept holds a connection of its own that nobody else
  has, and `TasksInv`: so does every posted connect. Without them a second
  doorman or task could attach a connection that is already in use, and its
  bytes would start again. The doorman of a published actor accepts
  unless its acceptor failed.

`invoke_message_from_cache` (`Replay`) and the bytes in the cache (`Skipped`) are
recursive functions over positions of the cache, so the claim about the whole
cache is an induction. It is done without an induction scheme: among the
positions at which the claim fails there would be a least one (`LeastExists`),
and one step of the recursion contradicts it (`Going`, one case per kind of
message and per reaction).

**Only model-checked.**

* Liveness: `MailSettles`, `ErrorsPropagate`, `AwaitReturns`,
  `ShutdownCompletes`, `StopReturns`, `PoolReturns`. Fairness and ENABLED are out
  of the provers' reach.
* The refinement of `JobDeque` by `DoubleEndedQueue`: its mapping shows the list
  as a sequence, which is defined by recursion over the nodes. `NoJobLost` is the
  part of it that sets can express.
* `Requests` and the services, for which no inductive invariant has been proved
  (section 7).
* The algorithms: what a recursive operator computes for every input is out of
  the provers' reach. `TypedActors`, `Patterns`, `Serialization`, `Containers`,
  `Messages` and what extends them reach RECURSIVE operators.

## 5. What the models say about the code

Beyond the finding, modelling met behaviours that a reader of the code may want
to know. They are in the models as the code has them, and the properties are
stated so that they hold with them.

*Actors.* A request that meets the closed mailbox before the exit reason is
published is bounced with reason `normal` (`local_actor.cpp:945`). A request
whose handler throws is answered by nobody (`:943`). The unhandled exception of
a blocking actor dereferences an empty optional (`:674`). Opposite `link_to` or
`unlink_from` calls deadlock (`abstract_actor.cpp:160`). The handler that a chained
request is given is wrapped without its timeout (`local_actor.cpp:345-356`): a
timeout takes its pending entry and runs nothing (`:447-449`), a response that it
does not match is swallowed (`:351-354`), and in both cases the promise it holds is
never kept, so the client hears nothing. `HandledOnce` and `AnswersAccounted` count
such handlers apart. `demonitor` revokes
every earlier `monitor` (`:121`). The response to a high priority request has an
id that no pending entry equals (`local_actor.cpp:506`), and
`unhandled_sync_timeout` is never raised. A migrated actor's timeout is not armed
again. `is_priority_aware_flag` and `is_serializable_flag` are the same bit
(`abstract_actor.hpp:179`): a priority-aware actor that is asked to migrate throws
in `save_state`, although `local_actor.hpp:401` says that it is only called if the
actor is serializable, and a serializable actor has the priority-aware mailbox.

*Runtime.* `put_named` of a dead actor enters an invalid handle, for whose down
message `stop` waits for ever (`actor_registry.cpp:150`). The groups of
`group_manager` are reached through a raw module pointer that `stop` clears.
The profiler compares the length of a sample with the time of the last flush
(`profiled_coordinator.hpp:247`) and drops the time of job 0.

*Network.* A doorman that accepts after its broker closed it asks a null parent
(`asio_multiplexer.cpp:226`); a skipped data message leaves `scribe` without one.
`close` drops data that was not flushed, against `abstract_broker.hpp:182`
("Unwritten data will still be send"): `WritesDelivered` claims completeness while
the broker or a write in progress holds the buffers, and later of what was flushed
only. When a connection is lost `routing_table::erase` reports the lost node alone
(`basp_broker.cpp:157-159`): entries that are routed through it stay without a
usable hop, and so do the proxies behind them, which are told nothing, although
`basp.hpp:334-336`, `346-348` and `389-391` speak of purging what is no longer
reachable. `ProxiesRouted` allows this and nothing else. The erase that a dead
proxy's functor posts may meet a new proxy of the same actor and end it
(`basp_broker.cpp:98`). A
proxy that a dead remote actor leaves behind lives on while somebody holds it.
`middleman::stop` ends named brokers only. Sockets whose broker is gone stay
unassigned, and a handle may name a later socket with the same descriptor.

*Services.* A remote proxy tells the home node of its first and last subscriber
after it unlocked the list (`group_manager.cpp:261-267`, `276-281`), so that a join
can overtake the leave before it; the broker then forgets a proxy that has a
subscriber, and posts do not reach it. `GroupDelivers` exempts a proxy whose
messages crossed like that (`overtaken`) and no other. `actor_pool::random` draws
before the upgrade and may read outside of the vector; a `put` of a dead worker waits for its own lock. A worker that dies
leaves its split/join collector waiting. The configuration server sends
the set of subscribers with an update, not the value (`actor_registry.cpp:211`). The printer loses unfinished lines at exit.
`delayed_send` to an invalid handle ends in the timer.

*Algorithms.* `from_string` reads every boolean as false, because it expects a digit
where `to_string` wrote a word (`string_serialization.cpp:300-304`, `94-96`), and an
address of another node dereferences the null proxy of its dummy backend
(`string_serialization.cpp:65-70`, `actor_namespace.cpp:108`). `StringRoundTrip` is
stated accordingly. Besides the finding, `concatenated_tuple::mutable_at` (`:37-41`)
returns the element without unsharing the part it is in, so `get_as_mutable` on a
copied concatenation writes into the other copy too. `pack754` does not end for infinities. A nested receive followed by
a skip reaches an erased node of the partitioned list. `node_id::compare` uses
`strncmp` on binary data. `timed_sync_send` calls a member that does not exist.
Interfaces with an either/or reply are checked for the first alternative only.

## 6. Not modelled

`variant.hpp` does not compile on its own (it includes a missing header) and is
used by nothing. Logging, RIPEMD-160, hardware addresses and root ids, the
enumeration of network interfaces, name resolution and socket options are
platform code without state of this program's own. The test multiplexer is a
test double. `actor_companion` and `actor_widget` hand mail to a callback and
have no state. What `split`, `join`, handlers and projections compute is the
user's. Weak memory is not modelled, nor are wall-clock durations (a timer may
fire at any time) except in the timer and the profiler, which have a clock.
Strings are abstracted to a few kinds of characters, numbers in serialized data
to one event each. Examples, tests and the manual are used as documentation only.

## 7. Plan

The models are complete in breadth, and the core (actors, job queue, runtime,
links, BASP, brokers) is proved. What is left is to prove more about the rest:

1. `HandledOnce`, `AnswersAccounted`, `NoLostTimeout` and `CacheSettled` of
   `Requests`; `mark_arrived` and the partitions by priority need a form like
   `detach` instead of `SelectSeq`, and the flags of a message id need lemmas
   about division by powers of two;
2. inductive invariants of the small services: `SubscriptionsInverse`,
   `SocketsOwned`, `JoinsComplete`, `DialledOnce`, `StorageSafe`.
