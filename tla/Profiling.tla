------------------------------ MODULE Profiling ------------------------------
(***************************************************************************)
(* The profiled coordinator: workers measure the jobs they resume and      *)
(* account the time to the job and to themselves; both accounts are        *)
(* written to a file from time to time and start again from zero.          *)
(***************************************************************************)
EXTENDS Integers, FiniteSets, Sequences, FiniteSetsExt, Functions

CONSTANTS Cpus,          \* the workers
          ActorIds,      \* ids of actors, positive; 0 stands for other jobs
          Resolution,
          MaxClock,      \* bound on the clock
          MaxSpent       \* a worker that spent that much starts no other job

VARIABLES clock,
          worker_states,   \* per worker: what it does, current, job, worker, last_flush
          jobs_, last_flush_,
          file_,           \* what the records for each worker or actor sum up to
          spent            \* the same without any accounting

Jobs == ActorIds \cup {0}
(* A measurement is <<runtime, usr + sys>> *)
Zero == <<0, 0>>
Plus(x, y) == <<x[1] + y[1], x[2] + y[2]>>

Accounts == {<<"worker", c>> : c \in Cpus} \cup {<<"actor", j>> : j \in Jobs}
Init ==
  /\ clock = 0
  /\ worker_states = [c \in Cpus |-> [at |-> "idle", current |-> 0, since |-> 0, delta |-> Zero,
                                      worker |-> Zero, last_flush |-> 0]]
  /\ jobs_ = <<>> /\ last_flush_ = 0
  /\ file_ = [a \in Accounts |-> Zero] /\ spent = [a \in Accounts |-> Zero]

Tick == clock < MaxClock /\ clock' = clock + 1 /\ UNCHANGED <<worker_states, jobs_, last_flush_, file_, spent>>

record(file, label, id, m) == [file EXCEPT ![<<label, id>>] = Plus(@, m)]
-----------------------------------------------------------------------------
(* before_resume; a job is with one worker *)
start_measuring(c, j) ==
  /\ worker_states[c].at = "idle" /\ spent[<<"worker", c>>][1] < MaxSpent
  /\ \A o \in Cpus : worker_states[o].at # "idle" => worker_states[o].current # j
  /\ worker_states' = [worker_states EXCEPT ![c].at = "resumes", ![c].current = j, ![c].since = clock]
  /\ UNCHANGED <<clock, jobs_, last_flush_, file_, spent>>

(* after_resume: what the clocks say, adjusted if the cpu time is larger;  *)
(* the worker's own account takes it                                       *)
stop_measuring(c) ==
  \E used \in {0, clock - worker_states[c].since + 1} :
    LET w == worker_states[c]
        runtime == clock - w.since
        delta == <<IF runtime < used THEN used ELSE runtime, used>>
    IN  /\ w.at = "resumes"
        /\ worker_states' = [worker_states EXCEPT ![c].at = "reports", ![c].since = clock, ![c].delta = delta,
                                                  ![c].worker = Plus(@, delta)]
        /\ spent' = [a \in Accounts |-> IF a \in {<<"worker", c>>, <<"actor", w.current>>}
                                        THEN Plus(spent[a], delta) ELSE spent[a]]
        /\ UNCHANGED <<clock, jobs_, last_flush_, file_>>

(* report, under the mutex of the jobs: it compares the length of the      *)
(* sample with that of the sample that was written last                    *)
report(c) ==
  LET w == worker_states[c]
      old == IF w.current \in DOMAIN jobs_ THEN jobs_[w.current] ELSE Zero
      jobs == [j \in DOMAIN jobs_ \cup {w.current} |-> IF j = w.current THEN Plus(old, w.delta) ELSE jobs_[j]]
  IN  /\ w.at = "reports"
      /\ worker_states' = [worker_states EXCEPT ![c].at = "flushes"]
      /\ IF w.delta[1] - last_flush_ >= Resolution
         THEN /\ last_flush_' = w.delta[1]
              /\ file_' = [a \in Accounts |-> IF a[1] = "actor" /\ a[2] \in DOMAIN jobs
                                              THEN Plus(file_[a], jobs[a[2]]) ELSE file_[a]]
              /\ jobs_' = [j \in DOMAIN jobs |-> Zero]
         ELSE jobs_' = jobs /\ UNCHANGED <<last_flush_, file_>>
      /\ UNCHANGED <<clock, spent>>

(* the end of stop_measuring: the worker's account *)
FlushWorker(c) ==
  LET w == worker_states[c]
  IN  /\ w.at = "flushes"
      /\ IF w.since - w.last_flush >= Resolution
         THEN /\ file_' = record(file_, "worker", c, w.worker)
              /\ worker_states' = [worker_states EXCEPT ![c].at = "resumed", ![c].last_flush = w.since,
                                                        ![c].worker = Zero]
         ELSE worker_states' = [worker_states EXCEPT ![c].at = "resumed"] /\ UNCHANGED file_
      /\ UNCHANGED <<clock, jobs_, last_flush_, spent>>

(* Nobody reads what an idle worker measured last *)
Idle(w) == [w EXCEPT !.at = "idle", !.current = 0, !.since = 0, !.delta = Zero]

(* after_completion, if the job is done; else it goes back to a queue *)
remove_job(c) ==
  LET j == worker_states[c].current
  IN  /\ worker_states[c].at = "resumed" /\ j \in DOMAIN jobs_
      /\ file_' = IF j # 0 THEN record(file_, "actor", j, jobs_[j]) ELSE file_
      /\ jobs_' = Restrict(jobs_, DOMAIN jobs_ \ {j})
      /\ worker_states' = [worker_states EXCEPT ![c] = Idle(@)]
      /\ UNCHANGED <<clock, last_flush_, spent>>
Requeue(c) ==
  /\ worker_states[c].at = "resumed"
  /\ worker_states' = [worker_states EXCEPT ![c] = Idle(@)]
  /\ UNCHANGED <<clock, jobs_, last_flush_, file_, spent>>

(* stop, after the workers are gone *)
stop ==
  /\ \A c \in Cpus : worker_states[c].at = "idle"
  /\ file_' = [a \in Accounts |-> IF a[1] = "worker" THEN Plus(file_[a], worker_states[a[2]].worker) ELSE file_[a]]
  /\ worker_states' = [c \in Cpus |-> [worker_states[c] EXCEPT !.at = "stopped"]]
  /\ UNCHANGED <<clock, jobs_, last_flush_, spent>>

Next ==
  \/ Tick \/ stop
  \/ \E c \in Cpus : \/ \E j \in Jobs : start_measuring(c, j)
                     \/ stop_measuring(c) \/ report(c) \/ FlushWorker(c) \/ remove_job(c) \/ Requeue(c)
-----------------------------------------------------------------------------
Held(a) ==
  IF a[1] = "worker" THEN IF worker_states[a[2]].at = "stopped" THEN Zero ELSE worker_states[a[2]].worker
  ELSE LET pending == {c \in Cpus : worker_states[c].at = "reports" /\ worker_states[c].current = a[2]}
           kept == IF a[2] \in DOMAIN jobs_ THEN jobs_[a[2]] ELSE Zero
       IN  IF pending = {} THEN kept ELSE Plus(kept, worker_states[CHOOSE c \in pending : TRUE].delta)

(* However workers flush their own accounts and those of others, no        *)
(* sample of a worker or of an actor is lost or counted twice: what the    *)
(* file says and what is still held add up to what was measured.  And no   *)
(* account shows more cpu time than runtime.                               *)
TimeAccounted ==
  /\ \A a \in Accounts \ {<<"actor", 0>>} : spent[a] = Plus(file_[a], Held(a))
  /\ \A a \in Accounts : file_[a][2] <= file_[a][1]
=============================================================================
