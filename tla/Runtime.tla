------------------------------ MODULE Runtime ------------------------------
(***************************************************************************)
(* The runtime around the actors: the workers of the scheduler with either *)
(* policy, the count of running actors in the registry, named actors,      *)
(* detached threads, and shutdown, which takes all of it down.             *)
(*                                                                         *)
(* What a single actor does with its mailbox is the subject of             *)
(* ScheduledActor; here an actor is idle (blocked mailbox), ready (in a    *)
(* job queue or being resumed) or dead, and a call of resume is one step.  *)
(* The job queues are atomic, as DoubleEndedQueue shows they are.          *)
(***************************************************************************)
EXTENDS Naturals, Sequences, FiniteSets, SequencesExt

CONSTANTS
  Workers,         \* number of workers
  Policies,        \* policies to choose from: "stealing", "sharing"
  Actor, NoActor,  \* cooperatively scheduled actors, invalid_actor
  Hidden,          \* actors that are not counted as running
  Mortal,          \* actors that get an exit message before shutdown
  Names,           \* number of keys of the registry's named entries, 1 .. Names in iteration order
  Registers,       \* actors put_named may be called for
  Utility,         \* threads of the timer and the printer
  Thread,          \* threads of other detached actors
  MaxThroughput, MaxSends

ASSUME RuntimeAssumption ==
  /\ Workers \in Nat \ {0} /\ Policies \subseteq {"stealing", "sharing"}
  /\ NoActor \notin Actor /\ Hidden \subseteq Actor /\ Mortal \subseteq Actor
  /\ Names \in Nat /\ Registers \subseteq Actor
  /\ Utility \cap Thread = {} /\ (1 .. Workers) \cap (Utility \cup Thread) = {}
  /\ IsFiniteSet(Actor) /\ IsFiniteSet(Utility) /\ IsFiniteSet(Thread)
  /\ Actor \cap {"none", "shutdown_helper", "free"} = {} /\ NoActor # "free"
  /\ MaxThroughput \in Nat \ {0} /\ MaxSends \in Nat

VARIABLES
  policy, queue,          \* scheduling policy, job queue per worker (or shared)
  next_worker,            \* round-robin counter of the coordinator
  wstate, cur,            \* per worker: what it does, the job it resumes
  astate, mail,           \* per actor: state and mailbox
  running,                \* running_ of the registry
  notifying,              \* threads in dec_running between the two halves
  named,                  \* named_entries_
  thread, s_detached,     \* detached actors and the count of their threads
  detnotify,              \* threads in dec_detached_threads, likewise
  monitored, downs,       \* actors main monitors, down messages it has
  pc, idx,                \* what main does, position in named_entries_
  alive_workers, last_worker,  \* locals of coordinator::stop
  sends

sched == <<policy, queue, next_worker, wstate, cur>>
actors == <<astate, mail>>
registry == <<running, notifying, named>>
threads == <<thread, s_detached, detnotify>>
observer == <<monitored, downs>>
control == <<pc, idx, alive_workers, last_worker>>
vars == <<sched, actors, registry, threads, observer, control, sends>>

Worker == 1..Workers
Helper == "shutdown_helper"
NoJob == "none"
\* with work sharing, all workers use queue 1
QueueOf(w) == IF policy = "sharing" THEN 1 ELSE w

---------------------------------------------------------------------------
(* Scheduling policies *)

\* mutant: the condition variable is not signalled
WakeNobody(ws) == {ws}

\* condition_variable::notify_one; idle workers of the stealing policy poll
notify_one(ws) ==
  LET asleep == {w \in Worker : ws[w] = "wait"}
  IN IF asleep = {} THEN {ws} ELSE {[ws EXCEPT ![w] = "poll"] : w \in asleep}

\* external_enqueue, and resume_job_later of either policy
append(w, job) == queue' = [queue EXCEPT ![QueueOf(w)] = Append(@, job)]
\* internal_enqueue
prepend(w, job) == queue' = [queue EXCEPT ![QueueOf(w)] = <<job>> \o @]

\* central_enqueue
enqueue(job) ==
  /\ append(next_worker, job)
  /\ next_worker' = (next_worker % Workers) + 1
  /\ wstate' \in notify_one(wstate)

\* what a worker does that has nothing in its queue: it waits for a signal, or
\* it raids another one and polls again after a pause
AfterEmpty == IF policy = "sharing" THEN "wait" ELSE "raid"

\* work_sharing::dequeue and the own queue of work_stealing::dequeue
Dequeue(w) ==
  /\ wstate[w] = "poll"
  /\ LET q == queue[QueueOf(w)]
     IN IF q = <<>>
        THEN /\ wstate' = [wstate EXCEPT ![w] = AfterEmpty]
             /\ UNCHANGED <<queue, cur>>
        ELSE /\ queue' = [queue EXCEPT ![QueueOf(w)] = Tail(@)]
             /\ wstate' = [wstate EXCEPT ![w] = "resume"]
             /\ cur' = [cur EXCEPT ![w] = Head(q)]
  /\ UNCHANGED <<actors, registry, threads, observer, control, policy, next_worker, sends>>

\* one raid of work_stealing::dequeue; a single worker has no victim
try_steal(w) ==
  /\ wstate[w] = "raid"
  /\ IF Workers < 2 THEN wstate' = [wstate EXCEPT ![w] = "poll"] /\ UNCHANGED <<queue, cur>>
     ELSE \E v \in Worker \ {w} :
            IF queue[v] = <<>>
            THEN wstate' = [wstate EXCEPT ![w] = "poll"] /\ UNCHANGED <<queue, cur>>
            ELSE /\ queue' = [queue EXCEPT ![v] = Front(@)]
                 /\ cur' = [cur EXCEPT ![w] = Last(queue[v])]
                 /\ wstate' = [wstate EXCEPT ![w] = "resume"]
  /\ UNCHANGED <<actors, registry, threads, observer, control, policy, next_worker, sends>>

---------------------------------------------------------------------------
(* Workers: worker::run, one action per result of resume *)

Finish(w, ws) == cur' = [cur EXCEPT ![w] = NoJob] /\ wstate' \in ws

\* resume(max_throughput) takes the first messages; an exit message is fatal
Batch(a) ==
  SubSeq(mail[a], 1, IF Len(mail[a]) < MaxThroughput THEN Len(mail[a]) ELSE MaxThroughput)
Dies(a) == "exit" \in ToSet(Batch(a))
Rest(a) == SubSeq(mail[a], Len(Batch(a)) + 1, Len(mail[a]))

ResumeLater(w) ==
  /\ wstate[w] = "resume" /\ cur[w] \in Actor
  /\ LET a == cur[w]
     IN /\ ~Dies(a) /\ Rest(a) # <<>>
        /\ mail' = [mail EXCEPT ![a] = Rest(a)]
        /\ append(w, a)
        /\ Finish(w, notify_one([wstate EXCEPT ![w] = "poll"]))
  /\ UNCHANGED <<registry, threads, observer, control, policy, next_worker, astate, sends>>

AwaitMessage(w) ==
  /\ wstate[w] = "resume" /\ cur[w] \in Actor
  /\ LET a == cur[w]
     IN /\ ~Dies(a) /\ Rest(a) = <<>>
        /\ mail' = [mail EXCEPT ![a] = <<>>]
        /\ astate' = [astate EXCEPT ![a] = "idle"]
        /\ Finish(w, {[wstate EXCEPT ![w] = "poll"]})
  /\ UNCHANGED <<registry, threads, observer, control, policy, queue, next_worker, sends>>

\* mutant: waiters are notified only when one actor is left
NotifyAtOne(t, registered) ==
  /\ running' = IF registered THEN running - 1 ELSE running
  /\ notifying' = IF registered /\ running - 1 = 1 THEN notifying \cup {t} ELSE notifying

\* is_registered(false) and the first half of dec_running
dec_running(t, registered) ==
  /\ running' = IF registered THEN running - 1 ELSE running
  /\ notifying' = IF registered /\ running - 1 <= 1 THEN notifying \cup {t} ELSE notifying

\* the actor is done: cleanup fires its attachables and tells the registry
Done(w) ==
  /\ wstate[w] = "resume" /\ cur[w] \in Actor
  /\ LET a == cur[w]
     IN /\ Dies(a)
        /\ astate' = [astate EXCEPT ![a] = "dead"]
        /\ mail' = [mail EXCEPT ![a] = <<>>]
        /\ downs' = IF a \in monitored THEN downs + 1 ELSE downs
        /\ monitored' = monitored \ {a}
        /\ dec_running(w, a \notin Hidden)
        /\ Finish(w, {[wstate EXCEPT ![w] = IF w \in notifying' THEN "notify" ELSE "poll"]})
  /\ UNCHANGED <<threads, control, policy, queue, next_worker, named, sends>>

\* shutdown_helper::resume
ShutdownWorker(w) ==
  /\ wstate[w] = "resume" /\ cur[w] = Helper
  /\ last_worker' = w
  /\ Finish(w, {[wstate EXCEPT ![w] = "down"]})
  /\ UNCHANGED <<actors, registry, threads, observer, policy, queue, next_worker, pc, idx, alive_workers, sends>>

---------------------------------------------------------------------------
(* Condition variables of the registry and of the detached threads.  The   *)
(* waiter checks the count and starts to wait under the mutex; a notifier  *)
(* changes the count without it and then locks it to notify.               *)

Wake(p, from, to) == IF p = from THEN to ELSE p

\* second half of dec_running
NotifyRunning(t) ==
  /\ t \in notifying
  /\ notifying' = notifying \ {t}
  /\ pc' = Wake(pc, "wait_running", "await_running")
  /\ wstate' = IF t \in Worker THEN [wstate EXCEPT ![t] = "poll"] ELSE wstate
  /\ thread' = IF t \in DOMAIN thread THEN [thread EXCEPT ![t] = "exited"] ELSE thread
  /\ UNCHANGED <<actors, observer, policy, queue, next_worker, cur, running, named, s_detached, detnotify, idx, alive_workers, last_worker, sends>>

\* await_running_count_equal(0)
await_running_count_equal ==
  /\ pc = "await_running"
  /\ pc' = IF running = 0 THEN "stop_registry" ELSE "wait_running"
  /\ UNCHANGED <<sched, actors, registry, threads, observer, idx, alive_workers, last_worker, sends>>

\* the behaviour of a detached actor ends: cleanup in its own thread
ThreadDone(t) ==
  /\ thread[t] = "up"
  /\ t \in Utility => pc = "stop_actors"
  /\ dec_running(t, t \notin Utility)
  /\ thread' = [thread EXCEPT ![t] = IF t \in notifying' THEN "notify" ELSE "exited"]
  /\ UNCHANGED <<sched, actors, observer, control, named, s_detached, detnotify, sends>>

\* mutant: off by one in what counts as the last thread
LastThreadButOne(n) == n = 1

LastThread(n) == n = 0

\* the thread of a detached actor ends
dec_detached_threads(t) ==
  /\ thread[t] = "exited"
  /\ s_detached' = s_detached - 1
  /\ detnotify' = IF LastThread(s_detached - 1) THEN detnotify \cup {t} ELSE detnotify
  /\ thread' = [thread EXCEPT ![t] = "down"]
  /\ UNCHANGED <<sched, actors, registry, observer, control, sends>>

NotifyDetached(t) ==
  /\ t \in detnotify
  /\ detnotify' = detnotify \ {t}
  /\ pc' = Wake(pc, "wait_detached", "await_detached")
  /\ UNCHANGED <<sched, actors, registry, observer, thread, s_detached, idx, alive_workers, last_worker, sends>>

\* mutant: the singletons are disposed without waiting
DisposeAtOnce ==
  /\ pc = "await_detached" /\ pc' = "disposed"
  /\ UNCHANGED <<sched, actors, registry, threads, observer, idx, alive_workers, last_worker, sends>>

await_detached_threads ==
  /\ pc = "await_detached"
  /\ pc' = IF s_detached = 0 THEN "disposed" ELSE "wait_detached"
  /\ UNCHANGED <<sched, actors, registry, threads, observer, idx, alive_workers, last_worker, sends>>

---------------------------------------------------------------------------
(* Messages *)

\* mutant: every message schedules its receiver
Schedules(a) == astate[a] \in {"idle", "ready"}

\* enqueue_result::unblocked_reader
unblocked_reader(a) == astate[a] = "idle"

\* local_actor::enqueue without an execution unit
Post(a, m) ==
  IF astate[a] = "dead" THEN UNCHANGED <<actors, queue, next_worker, wstate>>
  ELSE /\ mail' = [mail EXCEPT ![a] = Append(@, m)]
       /\ IF unblocked_reader(a)
          THEN astate' = [astate EXCEPT ![a] = "ready"] /\ enqueue(a)
          ELSE UNCHANGED <<astate, queue, next_worker, wstate>>

\* main or a detached actor sends a message, or an exit message
Send(a, m) ==
  /\ sends < MaxSends /\ sends' = sends + 1
  /\ pc = "run" \/ \E t \in Thread : thread[t] = "up"
  /\ astate[a] # "none" /\ (m = "exit" => a \in Mortal)
  /\ Post(a, m)
  /\ UNCHANGED <<registry, threads, observer, control, policy, cur>>

\* an actor that is being resumed sends: the worker is the execution unit
SendInternal(w, a) ==
  /\ wstate[w] = "resume" /\ cur[w] \in Actor \ {a}
  /\ sends < MaxSends /\ sends' = sends + 1
  /\ astate[a] \in {"idle", "ready"}
  /\ mail' = [mail EXCEPT ![a] = Append(@, "msg")]
  /\ IF unblocked_reader(a)
     THEN astate' = [astate EXCEPT ![a] = "ready"] /\ prepend(w, a) /\ wstate' \in notify_one(wstate)
     ELSE UNCHANGED <<astate, queue, wstate>>
  /\ UNCHANGED <<registry, threads, observer, control, policy, next_worker, cur>>

inc_running(a) == IF a \in Hidden THEN running ELSE running + 1

\* local_actor::launch by main
Launch(a, lazy) ==
  /\ pc = "run" /\ astate[a] = "none"
  /\ running' = inc_running(a)
  /\ IF lazy THEN astate' = [astate EXCEPT ![a] = "idle"] /\ UNCHANGED <<queue, next_worker, wstate>>
     ELSE astate' = [astate EXCEPT ![a] = "ready"] /\ enqueue(a)
  /\ UNCHANGED <<threads, observer, control, policy, cur, mail, notifying, named, sends>>

\* actor_registry::put_named: for a dead actor the functor is called at once
\* and enters invalid_actor; emplace keeps whatever is there first
put_named(i, a) ==
  /\ pc = "run" /\ a \in Registers /\ astate[a] # "none"
  /\ named[i] = "free"
  /\ named' = [named EXCEPT ![i] = IF astate[a] = "dead" THEN NoActor ELSE a]
  /\ UNCHANGED <<sched, actors, threads, observer, control, running, notifying, sends>>

---------------------------------------------------------------------------
(* Shutdown *)

\* main calls await_all_actors_done, or shutdown at once
LeaveMain ==
  /\ pc = "run"
  /\ pc' \in {"await_running", "stop_registry"}
  /\ UNCHANGED <<sched, actors, registry, threads, observer, idx, alive_workers, last_worker, sends>>

\* actor_registry::stop: monitor and kill the next named actor, wait for it;
\* for invalid_actor monitor and send_exit do nothing
KillNamed ==
  /\ pc = "stop_registry" /\ idx \in 1 .. Names
  /\ LET a == named[idx]
     IN CASE a = "free" ->
               /\ idx' = idx + 1
               /\ UNCHANGED <<actors, observer, pc, queue, next_worker, wstate>>
          [] a = NoActor ->
               /\ pc' = "await_down"
               /\ UNCHANGED <<actors, observer, idx, queue, next_worker, wstate>>
          [] OTHER ->
               /\ pc' = "await_down" /\ UNCHANGED idx
               /\ downs' = IF astate[a] = "dead" THEN downs + 1 ELSE downs
               /\ monitored' = IF astate[a] = "dead" THEN monitored ELSE monitored \cup {a}
               /\ Post(a, "exit")
  /\ UNCHANGED <<registry, threads, policy, cur, alive_workers, last_worker, sends>>

ReceiveDown ==
  /\ pc = "await_down" /\ downs > 0
  /\ downs' = downs - 1 /\ idx' = idx + 1 /\ pc' = "stop_registry"
  /\ UNCHANGED <<sched, actors, registry, threads, monitored, alive_workers, last_worker, sends>>

\* coordinator::stop: hand the helper to the first worker that is still alive;
\* alive_workers is ordered by address, so that may be any of them
StopWorker ==
  /\ pc = "stop_workers" \/ (pc = "stop_registry" /\ idx \notin 1 .. Names)
  /\ IF alive_workers = {} THEN pc' = "stop_actors" /\ UNCHANGED <<queue, wstate>>
     ELSE /\ \E w \in alive_workers : append(w, Helper)
          /\ wstate' \in notify_one(wstate)
          /\ pc' = "await_worker"
  /\ UNCHANGED <<actors, registry, threads, observer, policy, next_worker, cur, idx, alive_workers, last_worker, sends>>

AwaitWorker ==
  /\ pc = "await_worker" /\ last_worker # 0
  /\ alive_workers' = alive_workers \ {last_worker}
  /\ last_worker' = 0 /\ pc' = "stop_workers"
  /\ UNCHANGED <<sched, actors, registry, threads, observer, idx, sends>>

\* foreach_resumable and foreach_central_resumable
foreach_resumable == UNION {ToSet(queue[w]) : w \in Worker}

\* stop_actors waits for timer and printer, then the workers are joined and
\* what is left in the queues is detached from the scheduler
JoinAndDrain ==
  /\ pc = "stop_actors" /\ \A t \in Utility : thread[t] # "up"
  /\ \A w \in Worker : wstate[w] = "down"
  /\ queue' = [w \in Worker |-> <<>>]
  /\ astate' = [a \in Actor |-> IF a \in foreach_resumable THEN "detached" ELSE astate[a]]
  /\ pc' = "await_detached"
  /\ UNCHANGED <<registry, threads, observer, policy, next_worker, wstate, cur, mail, idx, alive_workers, last_worker, sends>>

---------------------------------------------------------------------------
Init ==
  /\ policy \in Policies /\ queue = [w \in Worker |-> <<>>] /\ next_worker = 1
  /\ wstate = [w \in Worker |-> "poll"] /\ cur = [w \in Worker |-> NoJob]
  /\ astate = [a \in Actor |-> "none"] /\ mail = [a \in Actor |-> <<>>]
  /\ running = Cardinality(Thread) /\ notifying = {}
  /\ named = [i \in 1 .. Names |-> "free"]
  /\ thread = [t \in Utility \cup Thread |-> "up"]
  /\ s_detached = Cardinality(Utility \cup Thread) /\ detnotify = {}
  /\ monitored = {} /\ downs = 0 /\ pc = "run" /\ idx = 1
  /\ alive_workers = Worker /\ last_worker = 0 /\ sends = 0

\* what a thread of the runtime does once it is at it
WorkerStep(w) ==
  \/ Dequeue(w) \/ try_steal(w) \/ ResumeLater(w) \/ AwaitMessage(w) \/ Done(w)
  \/ ShutdownWorker(w) \/ NotifyRunning(w)
ThreadStep(t) == ThreadDone(t) \/ NotifyRunning(t) \/ dec_detached_threads(t) \/ NotifyDetached(t)
StopStep ==
  \/ await_running_count_equal \/ KillNamed \/ ReceiveDown \/ StopWorker \/ AwaitWorker
  \/ JoinAndDrain \/ await_detached_threads

Next ==
  \/ \E w \in Worker : WorkerStep(w) \/ \E a \in Actor : SendInternal(w, a)
  \/ \E t \in Utility \cup Thread : ThreadStep(t)
  \/ StopStep \/ LeaveMain
  \/ \E a \in Actor : Send(a, "msg") \/ Send(a, "exit") \/ Launch(a, TRUE) \/ Launch(a, FALSE)
  \/ \E a \in Actor, i \in 1 .. Names : put_named(i, a)

\* The operating system keeps running the threads, resume returns and the
\* behaviour of a detached actor ends.  Nothing is assumed of when main
\* leaves, of senders, or of which victim a thief picks.
Fairness ==
  /\ \A w \in Worker : WF_vars(WorkerStep(w))
  /\ \A t \in Utility \cup Thread : WF_vars(ThreadStep(t))
  /\ WF_vars(StopStep)

Spec == Init /\ [][Next]_vars /\ Fairness

---------------------------------------------------------------------------
(* Properties *)

\* how often a job is in a queue or in the hands of a worker
Occurrences(j) ==
  Cardinality({x \in UNION {{w} \X DOMAIN queue[w] : w \in Worker} : queue[x[1]][x[2]] = j})
    + Cardinality({w \in Worker : cur[w] = j})

\* Whatever is enqueued, prepended, stolen or resumed again: an actor with
\* mail is in exactly one place, where some worker will find it, an idle or
\* dead one in none, and there is never more than one shutdown helper.
JobsPlaced ==
  /\ \A a \in Actor : Occurrences(a) = IF astate[a] = "ready" THEN 1 ELSE 0
  /\ Occurrences(Helper) <= 1

\* Work sharing: no job waits for a worker that sleeps without a signal.
WorkersSignalled ==
  (\E w \in Worker : wstate[w] = "wait")
    => Len(queue[1]) <= Cardinality({w \in Worker : wstate[w] = "poll"})

\* The singletons are disposed when nobody uses them any more: no thread is
\* about to lock the mutex of the registry, and workers and detached actors
\* are gone.
OutlivesUsers ==
  pc = "disposed" => /\ notifying = {}
                     /\ \A w \in Worker : wstate[w] = "down"
                     /\ \A t \in DOMAIN thread : thread[t] = "down"

\* await_all_actors_done returns when the last counted actor is gone: the
\* decrement outside the mutex loses no wakeup ...
AwaitReturns ==
  (running = 0 /\ pc \in {"await_running", "wait_running"})
    ~> pc \notin {"await_running", "wait_running"}

\* ... and it does not return earlier: an actor counts from its launch on.
AwaitMeansDone ==
  [][(pc = "await_running" /\ pc' = "stop_registry") =>
       /\ \A a \in Actor \ Hidden : astate[a] \in {"none", "dead"}
       /\ \A t \in Thread : thread[t] # "up"]_vars

\* await_all_other_actors_done returns when, and only when, nobody runs.
AwaitExact == AwaitMeansDone /\ AwaitReturns

\* shutdown returns: named actors die, the helper reaches every worker
\* although jobs can be stolen, timer and printer stop, threads are awaited.
ShutdownCompletes == pc = "stop_registry" ~> pc = "disposed"

=============================================================================
