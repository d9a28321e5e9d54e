--------------------------- MODULE RuntimeProofs ---------------------------
(***************************************************************************)
(* Proofs about Runtime for any number of workers, actors and threads and  *)
(* for both scheduling policies: a job is in one place only, no worker     *)
(* sleeps over a job, the registry counts exactly who runs, and shutdown   *)
(* disposes the singletons only when nobody uses them.                     *)
(***************************************************************************)
EXTENDS Runtime, FiniteSetTheorems, TLAPS

-----------------------------------------------------------------------------
(* The inductive invariant.                                                 *)

Job == Actor \cup {Helper}
Detached == Utility \cup Thread

WorkerStates == {"poll", "wait", "raid", "resume", "notify", "down"}
ActorStates == {"none", "idle", "ready", "dead", "detached"}
ThreadStates == {"up", "notify", "exited", "down"}
MainStates == {"run", "await_running", "wait_running", "stop_registry", "await_down", "stop_workers",
               "await_worker", "stop_actors", "await_detached", "wait_detached", "disposed"}

(* The types of the variables.                                              *)
TypeOK ==
  /\ policy \in {"stealing", "sharing"}
  /\ queue \in [Worker -> Seq(Job)]
  /\ next_worker \in Worker
  /\ wstate \in [Worker -> WorkerStates]
  /\ cur \in [Worker -> Job \cup {NoJob}]
  /\ astate \in [Actor -> ActorStates]
  /\ mail \in [Actor -> Seq({"msg", "exit"})]
  /\ notifying \subseteq Worker \cup Detached
  /\ named \in [1 .. Names -> Actor \cup {NoActor, "free"}]
  /\ thread \in [Detached -> ThreadStates]
  /\ detnotify \subseteq Detached
  /\ monitored \subseteq Actor /\ downs \in Nat
  /\ pc \in MainStates /\ idx \in Nat
  /\ alive_workers \subseteq Worker /\ last_worker \in Worker \cup {0}
  /\ sends \in Nat

(* Where job j is, given the queues Q and the jobs C in the workers' hands. *)
(* None of this depends on positions in a queue, which shift when somebody  *)
(* takes a job out.                                                         *)
In(q, j) == \E i \in DOMAIN q : q[i] = j
Once(q, j) == \A i, k \in DOMAIN q : q[i] = j /\ q[k] = j => i = k

Somewhere(Q, C, j) == \E w \in Worker : In(Q[w], j) \/ C[w] = j

Exclusive(Q, C, j) ==
  \A w, v \in Worker :
    /\ Once(Q[w], j)
    /\ In(Q[w], j) /\ In(Q[v], j) => w = v
    /\ C[w] = j /\ C[v] = j => w = v
    /\ ~ (In(Q[w], j) /\ C[v] = j)

(* Who has to be somewhere: an actor that was made ready, and the shutdown  *)
(* helper while coordinator::stop waits for it.                             *)
Due(j) == IF j = Helper THEN pc = "await_worker" /\ last_worker = 0 ELSE astate[j] = "ready"

PlacesInv == \A j \in Job : Exclusive(queue, cur, j) /\ (Somewhere(queue, cur, j) <=> Due(j))

WorkersInv ==
  /\ \A w \in Worker : /\ wstate[w] = "resume" <=> cur[w] # NoJob
                       /\ wstate[w] = "notify" <=> w \in notifying
                       /\ wstate[w] = "wait" => policy = "sharing"
                       /\ wstate[w] = "raid" => policy = "stealing"
  /\ last_worker # 0 => pc = "await_worker"

(* What the two counters count.                                             *)
Counted == {a \in Actor \ Hidden : astate[a] \in {"idle", "ready", "detached"}}
UpThreads == {t \in Thread : thread[t] = "up"}
LiveThreads == {t \in Detached : thread[t] # "down"}

CountInv ==
  /\ running = Cardinality(Counted) + Cardinality(UpThreads)
  /\ s_detached = Cardinality(LiveThreads)
  /\ \A t \in Detached : thread[t] = "notify" <=> t \in notifying

StopInv ==
  /\ pc \in {"await_detached", "wait_detached", "disposed"} =>
       \A w \in Worker : wstate[w] = "down"
  /\ pc = "disposed" => s_detached = 0

IInv == TypeOK /\ PlacesInv /\ WorkersInv /\ CountInv /\ StopInv

-----------------------------------------------------------------------------
(* Jobs in a queue.                                                         *)

(* external_enqueue and resume_job_later add a job at the end ...           *)
LEMMA AppendPlaces ==
  ASSUME NEW S, NEW q \in Seq(S), NEW x \in S, NEW j
  PROVE  /\ Append(q, x) \in Seq(S)
         /\ In(Append(q, x), j) <=> In(q, j) \/ j = x
         /\ Once(q, j) /\ (j = x => ~ In(q, j)) => Once(Append(q, x), j)
<1>1. /\ Append(q, x) \in Seq(S) /\ Len(q) \in Nat /\ DOMAIN q = 1 .. Len(q)
      /\ DOMAIN Append(q, x) = 1 .. Len(q) + 1
      /\ \A i \in 1 .. Len(q) : Append(q, x)[i] = q[i]
      /\ Append(q, x)[Len(q) + 1] = x
  OBVIOUS
<1>2. \A i : i \in 1 .. Len(q) + 1 <=> i \in 1 .. Len(q) \/ i = Len(q) + 1
  BY <1>1
<1> QED BY <1>1, <1>2, Zenon DEF In, Once

(* ... internal_enqueue at the front ...                                    *)
LEMMA PrependPlaces ==
  ASSUME NEW S, NEW q \in Seq(S), NEW x \in S, NEW j
  PROVE  /\ <<x>> \o q \in Seq(S)
         /\ In(<<x>> \o q, j) <=> In(q, j) \/ j = x
         /\ Once(q, j) /\ (j = x => ~ In(q, j)) => Once(<<x>> \o q, j)
<1> DEFINE r == <<x>> \o q
<1>1. /\ r \in Seq(S) /\ Len(q) \in Nat /\ DOMAIN q = 1 .. Len(q) /\ DOMAIN r = 1 .. Len(q) + 1
      /\ r[1] = x
  OBVIOUS
<1>2. /\ \A i \in 1 .. Len(q) : i + 1 \in 1 .. Len(q) + 1 /\ r[i + 1] = q[i]
      /\ \A i \in 1 .. Len(q) + 1 : i = 1 \/ (i - 1 \in 1 .. Len(q) /\ r[i] = q[i - 1])
      /\ 1 \in 1 .. Len(q) + 1
  BY <1>1
<1>3. \A i, k \in 1 .. Len(q) + 1 : i - 1 = k - 1 => i = k
  BY <1>1
<1> HIDE DEF r
<1>4. In(r, j) <=> In(q, j) \/ j = x
  BY <1>1, <1>2 DEF In
<1>5. ASSUME Once(q, j), j = x => ~ In(q, j) PROVE Once(r, j)
  <2> SUFFICES ASSUME NEW i \in 1 .. Len(q) + 1, NEW k \in 1 .. Len(q) + 1, r[i] = j, r[k] = j
               PROVE  i = k
    BY <1>1 DEF Once
  <2>1. \A n \in 1 .. Len(q) + 1 : r[n] = j => (n = 1 /\ j = x) \/ (n - 1 \in 1 .. Len(q) /\ q[n - 1] = j)
    BY <1>1, <1>2
  <2>2. j = x => i = 1 /\ k = 1
    BY <1>1, <1>5, <2>1 DEF In
  <2>3. j # x => i - 1 = k - 1
    BY <1>1, <1>5, <2>1 DEF Once
  <2> QED BY <1>3, <2>2, <2>3
<1> QED BY <1>1, <1>4, <1>5 DEF r

(* ... and dequeue takes the first job out ...                              *)
LEMMA TailPlaces ==
  ASSUME NEW S, NEW q \in Seq(S), q # <<>>, NEW j, Once(q, j)
  PROVE  /\ Tail(q) \in Seq(S) /\ Head(q) \in S /\ In(q, Head(q))
         /\ In(Tail(q), j) <=> In(q, j) /\ j # Head(q)
         /\ Once(Tail(q), j)
<1> DEFINE r == Tail(q)
           n == Len(q)
<1>1. /\ r \in Seq(S) /\ n \in Nat \ {0} /\ DOMAIN q = 1 .. n /\ DOMAIN r = 1 .. n - 1
      /\ Head(q) = q[1] /\ q[1] \in S
  OBVIOUS
<1>2. /\ \A i \in 1 .. n - 1 : i + 1 \in 1 .. n /\ r[i] = q[i + 1] /\ i + 1 # 1
      /\ \A i \in 1 .. n : i = 1 \/ (i - 1 \in 1 .. n - 1 /\ q[i] = r[i - 1])
      /\ 1 \in 1 .. n
  BY <1>1
<1>3. \A i, k \in 1 .. n - 1 : i + 1 = k + 1 => i = k
  BY <1>1
<1> HIDE DEF r, n
<1>4. In(q, q[1])
  BY <1>1, <1>2 DEF In
<1>5. In(r, j) <=> In(q, j) /\ j # q[1]
  <2>1. ASSUME NEW i \in 1 .. n - 1, r[i] = j PROVE In(q, j) /\ j # q[1]
    <3>1. i + 1 \in 1 .. n /\ 1 \in 1 .. n /\ q[i + 1] = j /\ i + 1 # 1
      BY <1>2, <2>1
    <3> QED BY <1>1, <3>1, Zenon DEF In, Once
  <2>2. ASSUME NEW i \in 1 .. n, q[i] = j, j # q[1] PROVE In(r, j)
    <3>1. i - 1 \in 1 .. n - 1 /\ r[i - 1] = j
      BY <1>2, <2>2
    <3> QED BY <1>1, <3>1, Zenon DEF In
  <2> QED BY <1>1, <2>1, <2>2, Zenon DEF In
<1>6. Once(r, j)
  <2> SUFFICES ASSUME NEW i \in 1 .. n - 1, NEW k \in 1 .. n - 1, r[i] = j, r[k] = j
               PROVE  i = k
    BY <1>1, Zenon DEF Once
  <2>1. i + 1 \in 1 .. n /\ k + 1 \in 1 .. n /\ q[i + 1] = j /\ q[k + 1] = j
    BY <1>2
  <2>2. i + 1 = k + 1
    BY <1>1, <2>1, Zenon DEF Once
  <2> QED BY <1>3, <2>2
<1> QED BY <1>1, <1>4, <1>5, <1>6 DEF r

(* ... and try_steal the last one.                                          *)
LEMMA FrontPlaces ==
  ASSUME NEW S, NEW q \in Seq(S), q # <<>>, NEW j, Once(q, j)
  PROVE  /\ Front(q) \in Seq(S) /\ Last(q) \in S /\ In(q, Last(q))
         /\ In(Front(q), j) <=> In(q, j) /\ j # Last(q)
         /\ Once(Front(q), j)
<1> DEFINE r == Front(q)
           n == Len(q)
<1>1. /\ n \in Nat \ {0} /\ DOMAIN q = 1 .. n /\ Last(q) = q[n] /\ q[n] \in S
  BY DEF Last
<1>2. r \in Seq(S) /\ DOMAIN r = 1 .. n - 1 /\ \A i \in 1 .. n - 1 : r[i] = q[i]
  BY <1>1 DEF Front
<1>3. \A i : i \in 1 .. n <=> i \in 1 .. n - 1 \/ i = n
  BY <1>1
<1>4. n \notin 1 .. n - 1
  BY <1>1
<1> HIDE DEF r, n
<1>5. In(q, q[n])
  BY <1>1, <1>3 DEF In
<1>6. In(r, j) <=> In(q, j) /\ j # q[n]
  BY <1>1, <1>2, <1>3, <1>4, Zenon DEF In, Once
<1>7. Once(r, j)
  BY <1>1, <1>2, <1>3, Zenon DEF Once
<1> QED BY <1>1, <1>2, <1>5, <1>6, <1>7 DEF r

-----------------------------------------------------------------------------
(* Jobs in the scheduler: what the three moves of a job do to all of them.  *)

(* A job that is nowhere is put into a queue.                               *)
LEMMA PutPlaces ==
  ASSUME NEW Q \in [Worker -> Seq(Job)], NEW C, NEW v \in Worker, NEW x \in Job,
         ~ Somewhere(Q, C, x), NEW q, q \in {Append(Q[v], x), <<x>> \o Q[v]},
         NEW j \in Job, Exclusive(Q, C, j)
  PROVE  LET R == [Q EXCEPT ![v] = q]
         IN  /\ R \in [Worker -> Seq(Job)]
             /\ Exclusive(R, C, j)
             /\ Somewhere(R, C, j) <=> Somewhere(Q, C, j) \/ j = x
<1> DEFINE R == [Q EXCEPT ![v] = q]
<1>1. /\ q \in Seq(Job)
      /\ In(q, j) <=> In(Q[v], j) \/ j = x
      /\ Once(Q[v], j) /\ (j = x => ~ In(Q[v], j)) => Once(q, j)
  <2>1. Q[v] \in Seq(Job)
    OBVIOUS
  <2>2. CASE q = Append(Q[v], x)
    BY <2>1, <2>2, AppendPlaces
  <2>3. CASE q = <<x>> \o Q[v]
    BY <2>1, <2>3, PrependPlaces
  <2> QED BY <2>2, <2>3
<1>2. R \in [Worker -> Seq(Job)] /\ R[v] = q /\ \A w \in Worker : w # v => R[w] = Q[w]
  BY <1>1
<1> HIDE DEF R
<1>3. \A w \in Worker : ~ In(Q[w], x) /\ C[w] # x
  BY DEF Somewhere
<1>4. \A w \in Worker : In(R[w], j) <=> In(Q[w], j) \/ (w = v /\ j = x)
  BY <1>1, <1>2
<1>5. Somewhere(R, C, j) <=> Somewhere(Q, C, j) \/ j = x
  BY <1>4 DEF Somewhere
<1>6. \A w \in Worker : Once(R[w], j)
  BY <1>1, <1>2, <1>3 DEF Exclusive
<1>7. Exclusive(R, C, j)
  BY <1>3, <1>4, <1>6 DEF Exclusive
<1> QED BY <1>2, <1>5, <1>7 DEF R

(* A worker takes a job out of a queue.                                     *)
LEMMA TakePlaces ==
  ASSUME NEW Q \in [Worker -> Seq(Job)], NEW C \in [Worker -> Job \cup {NoJob}],
         NEW v \in Worker, Q[v] # <<>>, NEW w \in Worker, C[w] = NoJob, NEW q, NEW x,
         (q = Tail(Q[v]) /\ x = Head(Q[v])) \/ (q = Front(Q[v]) /\ x = Last(Q[v])),
         \A j \in Job : Exclusive(Q, C, j), NEW j \in Job
  PROVE  LET R == [Q EXCEPT ![v] = q]
             D == [C EXCEPT ![w] = x]
         IN  /\ R \in [Worker -> Seq(Job)] /\ D \in [Worker -> Job \cup {NoJob}] /\ x \in Job
             /\ Exclusive(R, D, j)
             /\ Somewhere(R, D, j) <=> Somewhere(Q, C, j)
<1> DEFINE R == [Q EXCEPT ![v] = q]
           D == [C EXCEPT ![w] = x]
<1>0. NoJob \notin Job
  BY RuntimeAssumption DEF RuntimeAssumption, NoJob, Job, Helper
<1>1. /\ q \in Seq(Job) /\ x \in Job /\ In(Q[v], x)
      /\ In(q, j) <=> In(Q[v], j) /\ j # x
      /\ Once(q, j)
  <2>1. Q[v] \in Seq(Job) /\ Once(Q[v], j)
    BY DEF Exclusive
  <2>2. CASE q = Tail(Q[v]) /\ x = Head(Q[v])
    BY <2>1, <2>2, TailPlaces
  <2>3. CASE q = Front(Q[v]) /\ x = Last(Q[v])
    BY <2>1, <2>3, FrontPlaces
  <2> QED BY <2>2, <2>3
<1>2. /\ R \in [Worker -> Seq(Job)] /\ R[v] = q /\ \A u \in Worker : u # v => R[u] = Q[u]
      /\ D \in [Worker -> Job \cup {NoJob}] /\ D[w] = x /\ \A u \in Worker : u # w => D[u] = C[u]
  BY <1>1
<1> HIDE DEF R, D
<1>3. \A u \in Worker : (In(Q[u], x) => u = v) /\ C[u] # x
  BY <1>1 DEF Exclusive
<1>4. ASSUME NEW u \in Worker
      PROVE  /\ In(R[u], j) <=> In(Q[u], j) /\ j # x
             /\ D[u] = j <=> C[u] = j \/ (u = w /\ j = x)
             /\ Once(R[u], j)
  <2>1. Once(Q[u], j)
    BY DEF Exclusive
  <2>2. u = v \/ u # v
    OBVIOUS
  <2> QED BY <1>0, <1>1, <1>2, <1>3, <2>1, <2>2, Zenon
<1>5. Somewhere(R, D, j) <=> Somewhere(Q, C, j)
  BY <1>1, <1>4 DEF Somewhere
<1>6. Exclusive(R, D, j)
  BY <1>3, <1>4 DEF Exclusive
<1> QED BY <1>1, <1>2, <1>5, <1>6 DEF R, D

(* A worker is done with a job.                                             *)
LEMMA DropPlaces ==
  ASSUME NEW Q, NEW C \in [Worker -> Job \cup {NoJob}], NEW w \in Worker, C[w] \in Job,
         NEW j \in Job, Exclusive(Q, C, j)
  PROVE  LET D == [C EXCEPT ![w] = NoJob]
         IN  /\ D \in [Worker -> Job \cup {NoJob}]
             /\ Exclusive(Q, D, j)
             /\ Somewhere(Q, D, j) <=> Somewhere(Q, C, j) /\ j # C[w]
<1> DEFINE D == [C EXCEPT ![w] = NoJob]
<1>0. NoJob \notin Job
  BY RuntimeAssumption DEF RuntimeAssumption, NoJob, Job, Helper
<1>1. /\ D \in [Worker -> Job \cup {NoJob}] /\ D[w] = NoJob
      /\ \A u \in Worker : u # w => D[u] = C[u]
  OBVIOUS
<1> HIDE DEF D
<1>2. \A u \in Worker : D[u] = j <=> C[u] = j /\ u # w
  BY <1>0, <1>1
<1>3. Exclusive(Q, D, j)
  BY <1>2 DEF Exclusive
<1>4. Somewhere(Q, D, j) <=> Somewhere(Q, C, j) /\ j # C[w]
  BY <1>2 DEF Somewhere, Exclusive
<1> QED BY <1>1, <1>3, <1>4 DEF D

(* A job with exclusive places has one occurrence or none.                  *)
LEMMA OccurrencesOf ==
  ASSUME NEW j, Exclusive(queue, cur, j)
  PROVE  Occurrences(j) = IF Somewhere(queue, cur, j) THEN 1 ELSE 0
<1> DEFINE P == {x \in UNION {{w} \X DOMAIN queue[w] : w \in Worker} : queue[x[1]][x[2]] = j}
           H == {w \in Worker : cur[w] = j}
<1>1. \A x : x \in P <=> \E w \in Worker : \E i \in DOMAIN queue[w] : x = <<w, i>> /\ queue[w][i] = j
  OBVIOUS
<1>2. Occurrences(j) = Cardinality(P) + Cardinality(H)
  BY DEF Occurrences
<1> HIDE DEF P
<1>3. CASE \E w \in Worker : In(queue[w], j)
  <2>0. PICK w \in Worker : In(queue[w], j)
    BY <1>3
  <2>1. PICK i \in DOMAIN queue[w] : queue[w][i] = j
    BY <2>0 DEF In
  <2>2. \A v \in Worker : In(queue[v], j) => v = w
    BY <2>0 DEF Exclusive
  <2>3. \A k \in DOMAIN queue[w] : queue[w][k] = j => k = i
    BY <2>1 DEF Exclusive, Once
  <2>4. \A x : x \in P <=> x = <<w, i>>
    BY <1>1, <2>1, <2>2, <2>3, Zenon DEF In
  <2>5. P = {<<w, i>>}
    BY <2>4
  <2>6. H = {}
    BY <1>3 DEF Exclusive
  <2>7. Cardinality(P) = 1 /\ Cardinality(H) = 0
    BY <2>5, <2>6, FS_EmptySet, FS_Singleton
  <2>8. Somewhere(queue, cur, j)
    BY <1>3 DEF Somewhere
  <2> QED BY <1>2, <2>7, <2>8
<1>4. CASE ~ \E w \in Worker : In(queue[w], j)
  <2>1. P = {}
    <3>1. \A x : x \notin P
      BY <1>1, <1>4, Zenon DEF In
    <3> QED BY <3>1
  <2>2. CASE \E w \in Worker : cur[w] = j
    <3>1. PICK w \in Worker : cur[w] = j
      BY <2>2
    <3>2. H = {w}
      BY <3>1 DEF Exclusive
    <3> QED BY <1>2, <2>1, <2>2, <3>2, FS_EmptySet, FS_Singleton DEF Somewhere
  <2>3. CASE ~ \E w \in Worker : cur[w] = j
    <3>1. H = {}
      BY <2>3
    <3> QED BY <1>2, <1>4, <2>1, <2>3, <3>1, FS_EmptySet DEF Somewhere
  <2> QED BY <2>2, <2>3
<1> QED BY <1>3, <1>4

-----------------------------------------------------------------------------
(* Workers.                                                                 *)

Polling(ws) == {w \in Worker : ws[w] = "poll"}

(* There are finitely many workers.                                         *)
LEMMA WorkersFinite ==
  /\ IsFiniteSet(Worker)
  /\ \A ws : IsFiniteSet(Polling(ws)) /\ Cardinality(Polling(ws)) \in Nat
<1>1. IsFiniteSet(Worker)
  BY FS_Interval, RuntimeAssumption DEF Worker, RuntimeAssumption
<1>2. \A ws : Polling(ws) \in SUBSET Worker
  BY DEF Polling
<1> QED BY <1>1, <1>2, FS_Subset, FS_CardinalityType

(* notify_one makes one waiting worker poll, if there is one.               *)
LEMMA NotifyOne ==
  ASSUME NEW ws \in [Worker -> WorkerStates], NEW ns \in notify_one(ws)
  PROVE  /\ ns \in [Worker -> WorkerStates]
         /\ \A w \in Worker : ns[w] = ws[w] \/ (ws[w] = "wait" /\ ns[w] = "poll")
         /\ Cardinality(Polling(ws)) <= Cardinality(Polling(ns))
         /\ (\E w \in Worker : ws[w] = "wait") =>
              Cardinality(Polling(ns)) = Cardinality(Polling(ws)) + 1
<1>1. CASE \E w \in Worker : ws[w] = "wait"
  <2>1. PICK u \in Worker : ws[u] = "wait" /\ ns = [ws EXCEPT ![u] = "poll"]
    BY <1>1 DEF notify_one
  <2>2. ns \in [Worker -> WorkerStates] /\ ns[u] = "poll" /\ \A w \in Worker : w # u => ns[w] = ws[w]
    BY <2>1 DEF WorkerStates
  <2>3. Polling(ns) = Polling(ws) \cup {u} /\ u \notin Polling(ws)
    BY <2>1, <2>2 DEF Polling
  <2>4. Cardinality(Polling(ns)) = Cardinality(Polling(ws)) + 1
    BY <2>3, WorkersFinite, FS_AddElement
  <2> QED BY <2>1, <2>2, <2>4, WorkersFinite
<1>2. CASE ~ \E w \in Worker : ws[w] = "wait"
  <2>1. ns = ws
    BY <1>2 DEF notify_one
  <2> QED BY <1>2, <2>1, WorkersFinite
<1> QED BY <1>1, <1>2

(* One worker goes elsewhere.                                               *)
LEMMA PollingMoves ==
  ASSUME NEW ws \in [Worker -> WorkerStates], NEW w \in Worker, NEW to \in WorkerStates
  PROVE  LET ns == [ws EXCEPT ![w] = to]
         IN  Cardinality(Polling(ns)) =
               IF ws[w] # "poll" /\ to = "poll" THEN Cardinality(Polling(ws)) + 1
               ELSE IF ws[w] = "poll" /\ to # "poll" THEN Cardinality(Polling(ws)) - 1
               ELSE Cardinality(Polling(ws))
<1> DEFINE ns == [ws EXCEPT ![w] = to]
<1>1. ns[w] = to /\ \A v \in Worker : v # w => ns[v] = ws[v]
  OBVIOUS
<1> HIDE DEF ns
<1>2. CASE to = "poll"
  <2>1. Polling(ns) = Polling(ws) \cup {w} /\ (w \in Polling(ws) <=> ws[w] = "poll")
    BY <1>1, <1>2 DEF Polling
  <2>2. Cardinality(Polling(ns)) = IF ws[w] = "poll" THEN Cardinality(Polling(ws))
                                   ELSE Cardinality(Polling(ws)) + 1
    BY <2>1, WorkersFinite, FS_AddElement
  <2> QED BY <1>2, <2>2 DEF ns
<1>3. CASE to # "poll"
  <2>1. Polling(ns) = Polling(ws) \ {w} /\ (w \in Polling(ws) <=> ws[w] = "poll")
    BY <1>1, <1>3 DEF Polling
  <2>2. Cardinality(Polling(ns)) = IF ws[w] = "poll" THEN Cardinality(Polling(ws)) - 1
                                   ELSE Cardinality(Polling(ws))
    <3>1. IsFiniteSet(Polling(ws))
      BY WorkersFinite
    <3>2. Cardinality(Polling(ws) \ {w}) = IF w \in Polling(ws) THEN Cardinality(Polling(ws)) - 1
                                           ELSE Cardinality(Polling(ws))
      BY <3>1, FS_RemoveElement
    <3> QED BY <2>1, <3>2
  <2> QED BY <1>3, <2>2 DEF ns
<1> QED BY <1>2, <1>3

-----------------------------------------------------------------------------
(* Type correctness.                                                        *)

(* What happens when a message schedules its receiver.                      *)
Schedule(a) == astate' = [astate EXCEPT ![a] = "ready"] /\ enqueue(a)

(* A message is accepted: nothing but the mailbox changes, or an idle actor *)
(* is put into a queue.                                                     *)
LEMMA PostCases ==
  ASSUME NEW a, NEW m, Post(a, m)
  PROVE  \/ UNCHANGED <<mail, astate, queue, next_worker, wstate>>
         \/ mail' = [mail EXCEPT ![a] = Append(@, m)] /\ UNCHANGED <<astate, queue, next_worker, wstate>>
         \/ mail' = [mail EXCEPT ![a] = Append(@, m)] /\ astate[a] = "idle" /\ Schedule(a)
BY DEF Post, unblocked_reader, Schedule, actors

(* QueueOf is a queue.                                                      *)
LEMMA QueueOfType == \A w \in Worker : 1 \in Worker /\ QueueOf(w) \in Worker
BY RuntimeAssumption DEF RuntimeAssumption, Worker, QueueOf

(* A queue with one more job is a queue.                                    *)
LEMMA QueueTypes ==
  ASSUME TypeOK, NEW w \in Worker, NEW x \in Job, append(w, x) \/ prepend(w, x)
  PROVE  queue' \in [Worker -> Seq(Job)]
<1>1. QueueOf(w) \in Worker /\ queue[QueueOf(w)] \in Seq(Job) /\ queue \in [Worker -> Seq(Job)]
  BY QueueOfType DEF TypeOK
<1>2. Append(queue[QueueOf(w)], x) \in Seq(Job) /\ <<x>> \o queue[QueueOf(w)] \in Seq(Job)
  BY <1>1, AppendPlaces, PrependPlaces
<1> QED BY <1>1, <1>2 DEF append, prepend

(* Scheduling an actor keeps the types.                                     *)
LEMMA ScheduleType ==
  ASSUME TypeOK, NEW a \in Actor, Schedule(a)
  PROVE  /\ queue' \in [Worker -> Seq(Job)] /\ next_worker' \in Worker
         /\ astate' \in [Actor -> ActorStates] /\ wstate' \in [Worker -> WorkerStates]
<1>1. next_worker' \in Worker
  BY RuntimeAssumption DEF Schedule, enqueue, TypeOK, Worker, RuntimeAssumption
<1>2. queue' \in [Worker -> Seq(Job)]
  BY QueueTypes DEF Schedule, enqueue, TypeOK, Job
<1>3. wstate' \in [Worker -> WorkerStates]
  BY NotifyOne DEF Schedule, enqueue, TypeOK
<1> QED BY <1>1, <1>2, <1>3 DEF Schedule, TypeOK, ActorStates

(* A step of a worker keeps the types.                                      *)
LEMMA WorkerType ==
  ASSUME TypeOK, NEW w \in Worker, WorkerStep(w) \/ \E a \in Actor : SendInternal(w, a)
  PROVE  TypeOK'
<1> USE DEF sched, actors, registry, threads, observer, control, WorkerStates, ActorStates
<1>0. QueueOf(w) \in Worker
  BY QueueOfType
<1>1. CASE Dequeue(w)
  <2>1. CASE queue[QueueOf(w)] = <<>>
    BY <1>1, <2>1 DEF Dequeue, AfterEmpty, TypeOK
  <2>2. CASE queue[QueueOf(w)] # <<>>
    <3>1. /\ queue[QueueOf(w)] \in Seq(Job)
          /\ Tail(queue[QueueOf(w)]) \in Seq(Job) /\ Head(queue[QueueOf(w)]) \in Job
      BY <1>0, <2>2 DEF TypeOK
    <3>2. /\ queue' = [queue EXCEPT ![QueueOf(w)] = Tail(queue[QueueOf(w)])]
          /\ wstate' = [wstate EXCEPT ![w] = "resume"]
          /\ cur' = [cur EXCEPT ![w] = Head(queue[QueueOf(w)])]
          /\ UNCHANGED <<actors, registry, threads, observer, control, policy, next_worker, sends>>
      BY <1>1, <2>2 DEF Dequeue
    <3>3. queue' \in [Worker -> Seq(Job)]
      BY <3>1, <3>2 DEF TypeOK
    <3>4. cur' \in [Worker -> Job \cup {NoJob}]
      BY <3>1, <3>2 DEF TypeOK
    <3> QED BY <3>2, <3>3, <3>4 DEF TypeOK
  <2> QED BY <2>1, <2>2
<1>2. CASE try_steal(w)
  <2>1. CASE UNCHANGED <<queue, cur>> /\ wstate' = [wstate EXCEPT ![w] = "poll"]
    BY <1>2, <2>1 DEF try_steal, TypeOK
  <2>2. ASSUME NEW v \in Worker, queue[v] # <<>>,
               queue' = [queue EXCEPT ![v] = Front(@)],
               cur' = [cur EXCEPT ![w] = Last(queue[v])],
               wstate' = [wstate EXCEPT ![w] = "resume"]
        PROVE  TypeOK'
    <3>1. queue[v] \in Seq(Job) /\ Len(queue[v]) \in Nat \ {0}
      BY <2>2 DEF TypeOK
    <3>2. Front(queue[v]) \in Seq(Job) /\ Last(queue[v]) \in Job
      BY <3>1 DEF Front, Last
    <3> QED BY <1>2, <2>2, <3>1, <3>2 DEF try_steal, TypeOK
  <2> QED BY <1>2, <2>1, <2>2 DEF try_steal
<1>3. ASSUME NEW a \in Actor PROVE Rest(a) \in Seq({"msg", "exit"})
  <2>1. mail[a] \in Seq({"msg", "exit"}) /\ Len(mail[a]) \in Nat
    BY DEF TypeOK
  <2>2. Batch(a) \in Seq({"msg", "exit"}) /\ Len(Batch(a)) \in Nat
    BY <2>1, RuntimeAssumption DEF Batch, RuntimeAssumption
  <2> QED BY <2>1, <2>2 DEF Rest
<1>4. CASE ResumeLater(w)
  <2>1. queue' \in [Worker -> Seq(Job)]
    BY <1>4, QueueTypes DEF ResumeLater, Job
  <2>2. wstate' \in [Worker -> WorkerStates]
    <3>1. [wstate EXCEPT ![w] = "poll"] \in [Worker -> WorkerStates]
      BY DEF TypeOK
    <3> QED BY <1>4, <3>1, NotifyOne DEF ResumeLater, Finish
  <2>3. mail' \in [Actor -> Seq({"msg", "exit"})]
    BY <1>3, <1>4 DEF ResumeLater, TypeOK
  <2> QED BY <1>4, <2>1, <2>2, <2>3 DEF ResumeLater, Finish, TypeOK
<1>5. CASE AwaitMessage(w)
  <2>1. mail' \in [Actor -> Seq({"msg", "exit"})] /\ astate' \in [Actor -> ActorStates]
    BY <1>5 DEF AwaitMessage, TypeOK
  <2> QED BY <1>5, <2>1 DEF AwaitMessage, Finish, TypeOK
<1>6. CASE Done(w)
  <2>1. notifying' \subseteq Worker \cup Detached
    BY <1>6 DEF Done, dec_running, TypeOK
  <2>2. wstate' \in [Worker -> WorkerStates]
    BY <1>6 DEF Done, Finish, TypeOK
  <2>3. downs' \in Nat /\ monitored' \subseteq Actor
    BY <1>6 DEF Done, TypeOK
  <2> QED BY <1>6, <2>1, <2>2, <2>3 DEF Done, Finish, TypeOK
<1>7. CASE ShutdownWorker(w)
  BY <1>7 DEF ShutdownWorker, Finish, TypeOK
<1>8. CASE NotifyRunning(w)
  BY <1>8 DEF NotifyRunning, Wake, TypeOK, MainStates, ThreadStates
<1>9. CASE \E a \in Actor : SendInternal(w, a)
  <2>1. PICK a \in Actor : SendInternal(w, a)
    BY <1>9
  <2>2. mail' \in [Actor -> Seq({"msg", "exit"})] /\ sends' \in Nat
    BY <2>1 DEF SendInternal, TypeOK
  <2>3. CASE astate[a] = "idle"
    <3>1. prepend(w, a) /\ wstate' \in notify_one(wstate) /\ astate' = [astate EXCEPT ![a] = "ready"]
      BY <2>1, <2>3 DEF SendInternal, unblocked_reader
    <3>2. queue' \in [Worker -> Seq(Job)]
      BY <3>1, QueueTypes DEF Job
    <3>3. wstate' \in [Worker -> WorkerStates]
      BY <3>1, NotifyOne DEF TypeOK
    <3> QED BY <2>1, <2>2, <3>1, <3>2, <3>3 DEF SendInternal, TypeOK
  <2>4. CASE astate[a] # "idle"
    BY <2>1, <2>2, <2>4 DEF SendInternal, unblocked_reader, TypeOK
  <2> QED BY <2>3, <2>4
<1> QED BY <1>1, <1>2, <1>4, <1>5, <1>6, <1>7, <1>8, <1>9 DEF WorkerStep

(* The steps of everybody but the workers.                                  *)
OtherStep ==
  \/ \E t \in Detached : ThreadStep(t)
  \/ StopStep \/ LeaveMain
  \/ \E a \in Actor : Send(a, "msg") \/ Send(a, "exit") \/ Launch(a, TRUE) \/ Launch(a, FALSE)
  \/ \E a \in Actor, i \in 1 .. Names : put_named(i, a)

(* So does a step of a detached actor's thread, of main, or of a sender.    *)
LEMMA OtherType ==
  ASSUME TypeOK, OtherStep
  PROVE  TypeOK'
<1> USE DEF sched, actors, registry, threads, observer, control, ActorStates
<1>1. CASE \E t \in Detached : ThreadStep(t)
  <2>1. PICK t \in Detached : ThreadStep(t)
    BY <1>1
  <2>2. CASE ThreadDone(t)
    BY <2>2 DEF ThreadDone, dec_running, TypeOK, ThreadStates
  <2>3. CASE NotifyRunning(t)
    BY <2>3 DEF NotifyRunning, Wake, TypeOK, MainStates, ThreadStates, WorkerStates
  <2>4. CASE dec_detached_threads(t)
    BY <2>4 DEF dec_detached_threads, TypeOK, ThreadStates
  <2>5. CASE NotifyDetached(t)
    BY <2>5 DEF NotifyDetached, Wake, TypeOK, MainStates
  <2> QED BY <2>1, <2>2, <2>3, <2>4, <2>5 DEF ThreadStep
<1>2. ASSUME NEW a \in Actor, NEW m \in {"msg", "exit"}, Post(a, m)
      PROVE  /\ mail' \in [Actor -> Seq({"msg", "exit"})] /\ astate' \in [Actor -> ActorStates]
             /\ queue' \in [Worker -> Seq(Job)] /\ next_worker' \in Worker
             /\ wstate' \in [Worker -> WorkerStates]
  <2>1. mail' \in [Actor -> Seq({"msg", "exit"})]
    <3>1. mail[a] \in Seq({"msg", "exit"})
      BY DEF TypeOK
    <3>2. Append(mail[a], m) \in Seq({"msg", "exit"})
      BY <3>1, AppendPlaces
    <3>3. UNCHANGED mail \/ mail' = [mail EXCEPT ![a] = Append(mail[a], m)]
      BY <1>2, PostCases
    <3> QED BY <3>2, <3>3 DEF TypeOK
  <2> QED BY <1>2, <2>1, PostCases, ScheduleType DEF TypeOK
<1>3. CASE await_running_count_equal \/ await_detached_threads \/ LeaveMain
  BY <1>3 DEF await_running_count_equal, await_detached_threads, LeaveMain, TypeOK, MainStates
<1>4. CASE KillNamed
  <2>1. CASE named[idx] \in {"free", NoActor}
    BY <1>4, <2>1 DEF KillNamed, TypeOK, MainStates
  <2>2. CASE named[idx] \notin {"free", NoActor}
    <3>1. named[idx] \in Actor
      BY <1>4, <2>2 DEF KillNamed, TypeOK
    <3>2. /\ Post(named[idx], "exit") /\ pc' = "await_down" /\ UNCHANGED idx
          /\ downs' \in {downs, downs + 1} /\ monitored' \subseteq monitored \cup {named[idx]}
          /\ UNCHANGED <<registry, threads, policy, cur, alive_workers, last_worker, sends>>
      BY <1>4, <2>2 DEF KillNamed
    <3> QED BY <1>2, <3>1, <3>2 DEF TypeOK, MainStates
  <2> QED BY <2>1, <2>2
<1>5. CASE ReceiveDown
  BY <1>5 DEF ReceiveDown, TypeOK, MainStates
<1>6. CASE StopWorker
  <2>1. CASE alive_workers = {}
    BY <1>6, <2>1 DEF StopWorker, TypeOK, MainStates
  <2>2. CASE alive_workers # {}
    <3>1. PICK w \in Worker : append(w, Helper)
      BY <1>6, <2>2 DEF StopWorker, TypeOK
    <3>2. queue' \in [Worker -> Seq(Job)]
      BY <3>1, QueueTypes DEF Job
    <3>3. wstate' \in [Worker -> WorkerStates]
      BY <1>6, <2>2, NotifyOne DEF StopWorker, TypeOK
    <3> QED BY <1>6, <2>2, <3>2, <3>3 DEF StopWorker, TypeOK, MainStates
  <2> QED BY <2>1, <2>2
<1>7. CASE AwaitWorker
  BY <1>7 DEF AwaitWorker, TypeOK, MainStates
<1>8. CASE JoinAndDrain
  BY <1>8 DEF JoinAndDrain, TypeOK, MainStates
<1>9. CASE \E a \in Actor : Send(a, "msg") \/ Send(a, "exit") \/ Launch(a, TRUE) \/ Launch(a, FALSE)
  <2>1. PICK a \in Actor : Send(a, "msg") \/ Send(a, "exit") \/ Launch(a, TRUE) \/ Launch(a, FALSE)
    BY <1>9
  <2>2. CASE Send(a, "msg") \/ Send(a, "exit")
    <3>1. sends' \in Nat /\ (Post(a, "msg") \/ Post(a, "exit"))
      BY <2>2 DEF Send, TypeOK
    <3> QED BY <1>2, <2>2, <3>1 DEF Send, TypeOK
  <2>3. CASE Launch(a, TRUE)
    BY <2>3 DEF Launch, TypeOK
  <2>4. CASE Launch(a, FALSE)
    <3>1. Schedule(a)
      BY <2>4 DEF Launch, Schedule
    <3> QED BY <2>4, <3>1, ScheduleType DEF Launch, TypeOK
  <2> QED BY <2>1, <2>2, <2>3, <2>4
<1>10. CASE \E a \in Actor, i \in 1 .. Names : put_named(i, a)
  BY <1>10 DEF put_named, TypeOK
<1> QED BY <1>1, <1>3, <1>4, <1>5, <1>6, <1>7, <1>8, <1>9, <1>10 DEF OtherStep, StopStep

-----------------------------------------------------------------------------
(* A job is in one place.                                                   *)

HelperDue == pc = "await_worker" /\ last_worker = 0

(* Due, for the two kinds of jobs.                                          *)
LEMMA DueCases ==
  /\ Helper \notin Actor /\ NoJob \notin Job
  /\ Due(Helper) <=> HelperDue
  /\ \A a \in Actor : a \in Job /\ (Due(a) <=> astate[a] = "ready")
BY RuntimeAssumption DEF RuntimeAssumption, Due, HelperDue, Helper, NoJob, Job

(* Nobody moves a job.                                                      *)
LEMMA PlacesFrame ==
  ASSUME PlacesInv, UNCHANGED <<queue, cur>>, HelperDue' <=> HelperDue,
         \A a \in Actor : astate'[a] = "ready" <=> astate[a] = "ready"
  PROVE  PlacesInv'
<1>1. \A j \in Job : Due(j)' <=> Due(j)
  BY DEF Due, HelperDue, Job
<1> QED BY <1>1 DEF PlacesInv

(* A worker gets a job from a queue, one way or the other.                  *)
LEMMA PlacesTake ==
  ASSUME TypeOK, PlacesInv, NEW w \in Worker, NEW v \in Worker, queue[v] # <<>>, cur[w] = NoJob,
         NEW q, NEW x,
         (q = Tail(queue[v]) /\ x = Head(queue[v])) \/ (q = Front(queue[v]) /\ x = Last(queue[v])),
         queue' = [queue EXCEPT ![v] = q], cur' = [cur EXCEPT ![w] = x],
         UNCHANGED <<astate, pc, last_worker>>
  PROVE  PlacesInv'
<1>1. \A j \in Job : Due(j)' <=> Due(j)
  BY DEF Due
<1>2. ASSUME NEW j \in Job
      PROVE  Exclusive(queue', cur', j) /\ (Somewhere(queue', cur', j) <=> Somewhere(queue, cur, j))
  BY TakePlaces DEF TypeOK, PlacesInv
<1> QED BY <1>1, <1>2 DEF PlacesInv

(* A job that was not due is put into a queue.                              *)
LEMMA PlacesPut ==
  ASSUME TypeOK, PlacesInv, NEW w \in Worker, NEW x \in Job, ~ Due(x),
         append(w, x) \/ prepend(w, x), UNCHANGED cur,
         \A j \in Job : Due(j)' <=> Due(j) \/ j = x
  PROVE  PlacesInv'
<1>1. QueueOf(w) \in Worker /\ queue \in [Worker -> Seq(Job)]
  BY QueueOfType DEF TypeOK
<1>2. PICK q : /\ q \in {Append(queue[QueueOf(w)], x), <<x>> \o queue[QueueOf(w)]}
               /\ queue' = [queue EXCEPT ![QueueOf(w)] = q]
  BY DEF append, prepend
<1>3. ~ Somewhere(queue, cur, x)
  BY DEF PlacesInv
<1>4. ASSUME NEW j \in Job
      PROVE  /\ Exclusive(queue', cur', j)
             /\ Somewhere(queue', cur', j) <=> Somewhere(queue, cur, j) \/ j = x
  <2>1. Exclusive(queue, cur, j)
    BY DEF PlacesInv
  <2> QED BY <1>1, <1>2, <1>3, <2>1, PutPlaces
<1> QED BY <1>4 DEF PlacesInv

(* An actor that was not ready is scheduled.                                *)
LEMMA PlacesSchedule ==
  ASSUME TypeOK, PlacesInv, NEW a \in Actor, astate[a] # "ready", NEW w \in Worker,
         append(w, a) \/ prepend(w, a), astate' = [astate EXCEPT ![a] = "ready"],
         UNCHANGED cur, HelperDue' <=> HelperDue
  PROVE  PlacesInv'
<1>1. \A j \in Job : Due(j)' <=> Due(j) \/ j = a
  <2> SUFFICES ASSUME NEW j \in Job PROVE Due(j)' <=> Due(j) \/ j = a
    OBVIOUS
  <2>1. CASE j = Helper
    BY <2>1, DueCases DEF Due, HelperDue
  <2>2. CASE j # Helper
    <3>1. j \in Actor
      BY <2>2 DEF Job
    <3>2. astate'[j] = "ready" <=> astate[j] = "ready" \/ j = a
      BY <3>1 DEF TypeOK
    <3> QED BY <2>2, <3>2 DEF Due
  <2> QED BY <2>1, <2>2
<1>2. a \in Job /\ ~ Due(a)
  BY DueCases
<1> QED BY <1>1, <1>2, PlacesPut

(* A worker is done with a job that is no longer due.                       *)
LEMMA PlacesDrop ==
  ASSUME TypeOK, PlacesInv, NEW w \in Worker, cur[w] \in Job, UNCHANGED queue,
         cur' = [cur EXCEPT ![w] = NoJob],
         \A j \in Job : Due(j)' <=> Due(j) /\ j # cur[w]
  PROVE  PlacesInv'
<1>1. ASSUME NEW j \in Job
      PROVE  /\ Exclusive(queue', cur', j)
             /\ Somewhere(queue', cur', j) <=> Somewhere(queue, cur, j) /\ j # cur[w]
  <2>1. Exclusive(queue, cur, j) /\ cur \in [Worker -> Job \cup {NoJob}]
    BY DEF PlacesInv, TypeOK
  <2> QED BY <2>1, DropPlaces
<1> QED BY <1>1 DEF PlacesInv

(* What a worker does with the jobs.                                        *)
LEMMA WorkerPlaces ==
  ASSUME TypeOK, PlacesInv, WorkersInv, NEW w \in Worker,
         WorkerStep(w) \/ \E a \in Actor : SendInternal(w, a)
  PROVE  PlacesInv'
<1> USE DEF sched, actors, registry, threads, observer, control
<1>0. QueueOf(w) \in Worker /\ (wstate[w] # "resume" => cur[w] = NoJob)
  BY QueueOfType DEF WorkersInv
<1>1. CASE Dequeue(w)
  <2>1. UNCHANGED <<astate, pc, last_worker>> /\ cur[w] = NoJob
    BY <1>0, <1>1 DEF Dequeue
  <2>2. CASE queue[QueueOf(w)] = <<>>
    BY <1>1, <2>1, <2>2, PlacesFrame DEF Dequeue, HelperDue
  <2>3. CASE queue[QueueOf(w)] # <<>>
    <3>1. /\ queue' = [queue EXCEPT ![QueueOf(w)] = Tail(queue[QueueOf(w)])]
          /\ cur' = [cur EXCEPT ![w] = Head(queue[QueueOf(w)])]
      BY <1>1, <2>3 DEF Dequeue
    <3> QED BY <1>0, <2>1, <2>3, <3>1, PlacesTake
  <2> QED BY <2>2, <2>3
<1>2. CASE try_steal(w)
  <2>1. UNCHANGED <<astate, pc, last_worker>> /\ cur[w] = NoJob
    BY <1>0, <1>2 DEF try_steal
  <2>2. CASE UNCHANGED <<queue, cur>>
    BY <2>1, <2>2, PlacesFrame DEF HelperDue
  <2>3. ASSUME NEW v \in Worker, queue[v] # <<>>,
               queue' = [queue EXCEPT ![v] = Front(queue[v])],
               cur' = [cur EXCEPT ![w] = Last(queue[v])]
        PROVE  PlacesInv'
    BY <2>1, <2>3, PlacesTake
  <2> QED BY <1>2, <2>2, <2>3 DEF try_steal
<1>3. CASE ResumeLater(w)
  <2>1. /\ cur[w] \in Actor /\ cur' = [cur EXCEPT ![w] = NoJob] /\ append(w, cur[w])
        /\ UNCHANGED <<astate, pc, last_worker>>
    BY <1>3 DEF ResumeLater, Finish
  <2>2. cur[w] \in Job /\ cur \in [Worker -> Job \cup {NoJob}] /\ queue \in [Worker -> Seq(Job)]
    BY <2>1 DEF Job, TypeOK
  <2>3. \A j \in Job : Due(j)' <=> Due(j)
    BY <2>1 DEF Due
  <2>4. ASSUME NEW j \in Job
        PROVE  /\ Exclusive(queue, cur', j)
               /\ Somewhere(queue, cur', j) <=> Somewhere(queue, cur, j) /\ j # cur[w]
    <3>1. Exclusive(queue, cur, j)
      BY DEF PlacesInv
    <3> QED BY <2>1, <2>2, <3>1, DropPlaces
  <2>5. PICK q : q = Append(queue[QueueOf(w)], cur[w]) /\ queue' = [queue EXCEPT ![QueueOf(w)] = q]
    BY <2>1 DEF append
  <2>6. ~ Somewhere(queue, cur', cur[w]) /\ Somewhere(queue, cur, cur[w])
    BY <2>2, <2>4 DEF Somewhere
  <2>7. ASSUME NEW j \in Job
        PROVE  /\ Exclusive(queue', cur', j)
               /\ Somewhere(queue', cur', j) <=> Somewhere(queue, cur', j) \/ j = cur[w]
    <3>1. Exclusive(queue, cur', j)
      BY <2>4
    <3> QED BY <1>0, <2>2, <2>5, <2>6, <3>1, PutPlaces
  <2> QED BY <2>3, <2>4, <2>6, <2>7 DEF PlacesInv
<1>4. CASE AwaitMessage(w) \/ Done(w)
  <2>1. PICK st \in {"idle", "dead"} :
          /\ cur[w] \in Actor /\ cur' = [cur EXCEPT ![w] = NoJob]
          /\ astate' = [astate EXCEPT ![cur[w]] = st]
          /\ UNCHANGED <<queue, pc, last_worker>>
    BY <1>4 DEF AwaitMessage, Done, Finish
  <2>2. \A j \in Job : Due(j)' <=> Due(j) /\ j # cur[w]
    <3> SUFFICES ASSUME NEW j \in Job PROVE Due(j)' <=> Due(j) /\ j # cur[w]
      OBVIOUS
    <3>1. CASE j = Helper
      BY <2>1, <3>1, DueCases DEF Due
    <3>2. CASE j # Helper
      <4>1. j \in Actor
        BY <3>2 DEF Job
      <4>2. astate'[j] = "ready" <=> astate[j] = "ready" /\ j # cur[w]
        BY <2>1, <4>1 DEF TypeOK
      <4> QED BY <3>2, <4>2 DEF Due
    <3> QED BY <3>1, <3>2
  <2> QED BY <2>1, <2>2, PlacesDrop DEF Job
<1>5. CASE ShutdownWorker(w)
  <2>1. /\ cur[w] = Helper /\ cur' = [cur EXCEPT ![w] = NoJob] /\ last_worker' = w
        /\ UNCHANGED <<queue, pc, astate>>
    BY <1>5 DEF ShutdownWorker, Finish
  <2>2. w # 0
    BY RuntimeAssumption DEF Worker, RuntimeAssumption
  <2>3. \A j \in Job : Due(j)' <=> Due(j) /\ j # cur[w]
    BY <2>1, <2>2 DEF Due
  <2> QED BY <2>1, <2>3, PlacesDrop DEF Job
<1>6. CASE NotifyRunning(w)
  <2>1. UNCHANGED <<queue, cur, astate, last_worker>> /\ (pc' = "await_worker" <=> pc = "await_worker")
    BY <1>6 DEF NotifyRunning, Wake
  <2> QED BY <2>1, PlacesFrame DEF HelperDue
<1>7. CASE \E a \in Actor : SendInternal(w, a)
  <2>1. PICK a \in Actor : SendInternal(w, a)
    BY <1>7
  <2>2. CASE astate[a] = "idle"
    <3>1. /\ prepend(w, a) /\ astate' = [astate EXCEPT ![a] = "ready"] /\ astate[a] # "ready"
          /\ UNCHANGED <<cur, pc, last_worker>>
      BY <2>1, <2>2 DEF SendInternal, unblocked_reader
    <3> QED BY <3>1, PlacesSchedule DEF HelperDue
  <2>3. CASE astate[a] # "idle"
    <3>1. UNCHANGED <<astate, queue, cur, pc, last_worker>>
      BY <2>1, <2>3 DEF SendInternal, unblocked_reader
    <3> QED BY <3>1, PlacesFrame DEF HelperDue
  <2> QED BY <2>2, <2>3
<1> QED BY <1>1, <1>2, <1>3, <1>4, <1>5, <1>6, <1>7 DEF WorkerStep

(* What a message does to the jobs.                                         *)
LEMMA PostPlaces ==
  ASSUME TypeOK, PlacesInv, NEW a \in Actor, NEW m, Post(a, m), UNCHANGED cur,
         HelperDue' <=> HelperDue
  PROVE  PlacesInv'
<1>1. CASE UNCHANGED <<astate, queue>>
  BY <1>1, PlacesFrame
<1>2. CASE astate[a] = "idle" /\ Schedule(a)
  <2>1. append(next_worker, a) /\ next_worker \in Worker /\ astate[a] # "ready"
    BY <1>2 DEF Schedule, enqueue, TypeOK
  <2> QED BY <1>2, <2>1, PlacesSchedule DEF Schedule
<1> QED BY <1>1, <1>2, PostCases

(* What main, the threads and the senders do to the jobs.                   *)
LEMMA OtherPlaces ==
  ASSUME TypeOK, PlacesInv, WorkersInv, OtherStep
  PROVE  PlacesInv'
<1> USE DEF sched, actors, registry, threads, observer, control
<1>1. CASE \E t \in Detached : ThreadStep(t)
  <2>1. UNCHANGED <<queue, cur, astate, last_worker>> /\ (pc' = "await_worker" <=> pc = "await_worker")
    BY <1>1 DEF ThreadStep, ThreadDone, NotifyRunning, dec_detached_threads, NotifyDetached, Wake
  <2> QED BY <2>1, PlacesFrame DEF HelperDue
<1>2. CASE await_running_count_equal \/ await_detached_threads \/ LeaveMain \/ ReceiveDown
           \/ \E a \in Actor, i \in 1 .. Names : put_named(i, a)
  <2>1. UNCHANGED <<queue, cur, astate, last_worker>> /\ (pc' = "await_worker" <=> pc = "await_worker")
    BY <1>2 DEF await_running_count_equal, await_detached_threads, LeaveMain, ReceiveDown, put_named
  <2> QED BY <2>1, PlacesFrame DEF HelperDue
<1>3. CASE KillNamed
  <2>1. UNCHANGED <<cur, last_worker>> /\ pc # "await_worker" /\ pc' # "await_worker"
    BY <1>3 DEF KillNamed
  <2>2. CASE named[idx] \in {"free", NoActor}
    <3>1. UNCHANGED <<queue, astate>>
      BY <1>3, <2>2 DEF KillNamed
    <3> QED BY <2>1, <3>1, PlacesFrame DEF HelperDue
  <2>3. CASE named[idx] \notin {"free", NoActor}
    <3>1. named[idx] \in Actor /\ Post(named[idx], "exit")
      BY <1>3, <2>3 DEF KillNamed, TypeOK
    <3> QED BY <2>1, <3>1, PostPlaces DEF HelperDue
  <2> QED BY <2>2, <2>3
<1>4. CASE StopWorker
  <2>1. pc # "await_worker" /\ UNCHANGED <<cur, astate, last_worker>>
    BY <1>4 DEF StopWorker
  <2>2. CASE alive_workers = {}
    BY <1>4, <2>1, <2>2, PlacesFrame DEF StopWorker, HelperDue
  <2>3. CASE alive_workers # {}
    <3>1. PICK w \in Worker : append(w, Helper)
      BY <1>4, <2>3 DEF StopWorker, TypeOK
    <3>2. pc' = "await_worker" /\ last_worker = 0
      BY <1>4, <2>1, <2>3 DEF StopWorker, WorkersInv
    <3>3. ~ Due(Helper) /\ \A j \in Job : Due(j)' <=> Due(j) \/ j = Helper
      BY <2>1, <3>2 DEF Due
    <3> QED BY <2>1, <3>1, <3>3, PlacesPut DEF Job
  <2> QED BY <2>2, <2>3
<1>5. CASE AwaitWorker
  <2>1. ~ HelperDue /\ ~ HelperDue' /\ UNCHANGED <<queue, cur, astate>>
    BY <1>5 DEF AwaitWorker, HelperDue
  <2> QED BY <2>1, PlacesFrame
<1>6. CASE JoinAndDrain
  <2>1. /\ queue' = [w \in Worker |-> <<>>] /\ UNCHANGED cur /\ \A w \in Worker : cur[w] = NoJob
        /\ astate' = [a \in Actor |-> IF a \in foreach_resumable THEN "detached" ELSE astate[a]]
        /\ pc = "stop_actors" /\ pc' = "await_detached"
    BY <1>6 DEF JoinAndDrain, WorkersInv
  <2>2. ASSUME NEW j \in Job
        PROVE  Exclusive(queue', cur', j) /\ ~ Somewhere(queue', cur', j)
    <3>1. \A w \in Worker : ~ In(queue'[w], j) /\ Once(queue'[w], j) /\ cur'[w] # j
      BY <2>1, DueCases DEF In, Once
    <3> QED BY <3>1 DEF Exclusive, Somewhere
  <2>3. ASSUME NEW j \in Job PROVE ~ Due(j)'
    <3>1. CASE j = Helper
      BY <2>1, <3>1 DEF Due
    <3>2. CASE j # Helper
      <4>1. j \in Actor
        BY <3>2 DEF Job
      <4>2. CASE j \in foreach_resumable
        BY <2>1, <3>2, <4>1, <4>2 DEF Due
      <4>3. CASE j \notin foreach_resumable
        <5>1. \A w \in Worker : ~ In(queue[w], j) /\ cur[w] # j
          BY <2>1, <4>3, DueCases DEF foreach_resumable, ToSet, In
        <5>2. astate[j] # "ready"
          BY <3>2, <5>1 DEF PlacesInv, Somewhere, Due
        <5> QED BY <2>1, <3>2, <4>1, <4>3, <5>2 DEF Due
      <4> QED BY <4>2, <4>3
    <3> QED BY <3>1, <3>2
  <2> QED BY <2>2, <2>3 DEF PlacesInv
<1>7. CASE \E a \in Actor : Send(a, "msg") \/ Send(a, "exit")
  <2>1. PICK a \in Actor : Send(a, "msg") \/ Send(a, "exit")
    BY <1>7
  <2>2. UNCHANGED <<cur, pc, last_worker>> /\ (Post(a, "msg") \/ Post(a, "exit"))
    BY <2>1 DEF Send
  <2> QED BY <2>2, PostPlaces DEF HelperDue
<1>8. CASE \E a \in Actor : Launch(a, TRUE) \/ Launch(a, FALSE)
  <2>1. PICK a \in Actor : Launch(a, TRUE) \/ Launch(a, FALSE)
    BY <1>8
  <2>2. UNCHANGED <<cur, pc, last_worker>> /\ astate[a] = "none"
    BY <2>1 DEF Launch
  <2>3. CASE Launch(a, TRUE)
    <3>1. astate' = [astate EXCEPT ![a] = "idle"] /\ UNCHANGED queue
      BY <2>3 DEF Launch
    <3>2. \A b \in Actor : astate'[b] = "ready" <=> astate[b] = "ready"
      BY <2>2, <3>1 DEF TypeOK
    <3> QED BY <2>2, <3>1, <3>2, PlacesFrame DEF HelperDue
  <2>4. CASE Launch(a, FALSE)
    <3>1. append(next_worker, a) /\ next_worker \in Worker /\ astate' = [astate EXCEPT ![a] = "ready"]
      BY <2>4 DEF Launch, enqueue, TypeOK
    <3> QED BY <2>2, <3>1, PlacesSchedule DEF HelperDue
  <2> QED BY <2>1, <2>3, <2>4
<1> QED BY <1>1, <1>2, <1>3, <1>4, <1>5, <1>6, <1>7, <1>8 DEF OtherStep, StopStep

-----------------------------------------------------------------------------
(* What the workers are doing.                                              *)

(* At most a signal reaches a worker.                                       *)
LEMMA WorkersFrame ==
  ASSUME TypeOK, WorkersInv, wstate' = wstate \/ wstate' \in notify_one(wstate),
         UNCHANGED <<cur, policy>>, \A w \in Worker : w \in notifying' <=> w \in notifying,
         last_worker' # 0 => pc' = "await_worker"
  PROVE  WorkersInv'
<1>1. \A w \in Worker : wstate'[w] = wstate[w] \/ (wstate[w] = "wait" /\ wstate'[w] = "poll")
  BY NotifyOne DEF TypeOK
<1> QED BY <1>1 DEF WorkersInv

(* One worker moves on, and at most a signal reaches another.               *)
LEMMA WorkersMove ==
  ASSUME TypeOK, WorkersInv, NEW w \in Worker, NEW to \in WorkerStates, NEW j \in Job \cup {NoJob},
         NEW ws, ws = [wstate EXCEPT ![w] = to], wstate' = ws \/ wstate' \in notify_one(ws),
         cur' = [cur EXCEPT ![w] = j], UNCHANGED policy,
         to = "resume" <=> j # NoJob, to = "notify" <=> w \in notifying',
         to = "wait" => policy = "sharing", to = "raid" => policy = "stealing",
         \A v \in Worker \ {w} : v \in notifying' <=> v \in notifying,
         last_worker' # 0 => pc' = "await_worker"
  PROVE  WorkersInv'
<1>1. /\ ws \in [Worker -> WorkerStates] /\ ws[w] = to /\ cur'[w] = j
      /\ \A v \in Worker : v # w => ws[v] = wstate[v] /\ cur'[v] = cur[v]
  BY DEF TypeOK
<1>2. \A v \in Worker : wstate'[v] = ws[v] \/ (ws[v] = "wait" /\ wstate'[v] = "poll")
  <2>1. ws \in [Worker -> WorkerStates]
    BY <1>1
  <2>2. CASE wstate' = ws
    BY <2>2
  <2>3. CASE wstate' \in notify_one(ws)
    BY <2>1, <2>3, NotifyOne
  <2> QED BY <2>2, <2>3
<1>3. ASSUME NEW v \in Worker
      PROVE  /\ wstate'[v] = "resume" <=> cur'[v] # NoJob
             /\ wstate'[v] = "notify" <=> v \in notifying'
             /\ wstate'[v] = "wait" => policy = "sharing"
             /\ wstate'[v] = "raid" => policy = "stealing"
  <2>1. CASE v = w
    BY <1>1, <1>2, <2>1
  <2>2. CASE v # w
    <3>1. /\ wstate[v] = "resume" <=> cur[v] # NoJob
          /\ wstate[v] = "notify" <=> v \in notifying
          /\ wstate[v] = "wait" => policy = "sharing"
          /\ wstate[v] = "raid" => policy = "stealing"
      BY DEF WorkersInv
    <3> QED BY <1>1, <1>2, <2>2, <3>1
  <2> QED BY <2>1, <2>2
<1> QED BY <1>3 DEF WorkersInv

(* Workers.                                                                 *)
LEMMA WorkerWorkers ==
  ASSUME TypeOK, PlacesInv, WorkersInv, TypeOK', NEW w \in Worker,
         WorkerStep(w) \/ \E a \in Actor : SendInternal(w, a)
  PROVE  WorkersInv'
<1> USE DEF sched, actors, registry, threads, observer, control, WorkerStates
<1>0. QueueOf(w) \in Worker /\ wstate \in [Worker -> WorkerStates] /\ cur \in [Worker -> Job \cup {NoJob}]
      /\ (last_worker # 0 => pc = "await_worker")
  BY QueueOfType DEF TypeOK, WorkersInv
<1>1. CASE Dequeue(w) \/ try_steal(w)
  <2>1. UNCHANGED <<policy, notifying, last_worker, pc>> /\ wstate[w] \in {"poll", "raid"}
    BY <1>1 DEF Dequeue, try_steal
  <2>2. w \notin notifying /\ cur[w] = NoJob
    BY <2>1 DEF WorkersInv
  <2>3. CASE wstate' = [wstate EXCEPT ![w] = "resume"]
    <3>1. PICK j \in Job : cur' = [cur EXCEPT ![w] = j]
      <4>1. PICK j : cur' = [cur EXCEPT ![w] = j] /\ j # NoJob
        <5>1. ASSUME wstate' = [wstate EXCEPT ![w] = AfterEmpty] \/ wstate' = [wstate EXCEPT ![w] = "poll"]
              PROVE  FALSE
          BY <1>0, <2>3, <5>1 DEF AfterEmpty
        <5>2. PICK v \in Worker : /\ queue[v] # <<>>
                                  /\ \/ cur' = [cur EXCEPT ![w] = Head(queue[v])]
                                     \/ cur' = [cur EXCEPT ![w] = Last(queue[v])]
          BY <1>0, <1>1, <5>1 DEF Dequeue, try_steal
        <5>3. queue[v] \in Seq(Job) /\ Len(queue[v]) \in Nat \ {0}
          BY <5>2 DEF TypeOK
        <5>4. Head(queue[v]) \in Job /\ Last(queue[v]) \in Job
          BY <5>2, <5>3 DEF Last
        <5>5. Head(queue[v]) # NoJob /\ Last(queue[v]) # NoJob
          BY <5>4, DueCases
        <5> QED BY <5>2, <5>5, Zenon
      <4>2. cur'[w] \in Job \cup {NoJob} /\ cur'[w] = j
        BY <1>0, <4>1 DEF TypeOK
      <4> QED BY <4>1, <4>2
    <3>2. j # NoJob
      BY DueCases
    <3> QED BY <1>0, <2>1, <2>2, <2>3, <3>1, <3>2, WorkersMove
  <2>4. CASE wstate' # [wstate EXCEPT ![w] = "resume"]
    <3>1. PICK to \in {"poll", "wait", "raid"} :
            /\ wstate' = [wstate EXCEPT ![w] = to] /\ UNCHANGED cur
            /\ to = "wait" => policy = "sharing"
            /\ to = "raid" => policy # "sharing"
      BY <1>1, <2>4 DEF Dequeue, try_steal, AfterEmpty
    <3>2. to = "raid" => policy = "stealing"
      BY <3>1 DEF TypeOK
    <3>3. cur' = [cur EXCEPT ![w] = NoJob]
      BY <1>0, <2>2, <3>1
    <3> QED BY <1>0, <2>1, <2>2, <3>1, <3>2, <3>3, WorkersMove
  <2> QED BY <2>3, <2>4
<1>2. CASE ResumeLater(w)
  <2>1. /\ UNCHANGED <<policy, notifying, last_worker, pc>> /\ wstate[w] = "resume"
        /\ cur' = [cur EXCEPT ![w] = NoJob] /\ wstate' \in notify_one([wstate EXCEPT ![w] = "poll"])
    BY <1>2 DEF ResumeLater, Finish
  <2>2. w \notin notifying
    BY <2>1 DEF WorkersInv
  <2> QED BY <1>0, <2>1, <2>2, WorkersMove
<1>3. CASE AwaitMessage(w)
  <2>1. /\ UNCHANGED <<policy, notifying, last_worker, pc>> /\ wstate[w] = "resume"
        /\ cur' = [cur EXCEPT ![w] = NoJob] /\ wstate' = [wstate EXCEPT ![w] = "poll"]
    BY <1>3 DEF AwaitMessage, Finish
  <2>2. w \notin notifying
    BY <2>1 DEF WorkersInv
  <2> QED BY <1>0, <2>1, <2>2, WorkersMove
<1>4. CASE Done(w)
  <2>1. /\ UNCHANGED <<policy, last_worker, pc>>
        /\ cur' = [cur EXCEPT ![w] = NoJob]
        /\ wstate' = [wstate EXCEPT ![w] = IF w \in notifying' THEN "notify" ELSE "poll"]
        /\ notifying' \in {notifying, notifying \cup {w}}
    BY <1>4 DEF Done, Finish, dec_running
  <2>2. PICK to \in {"notify", "poll"} : wstate' = [wstate EXCEPT ![w] = to] /\ (to = "notify" <=> w \in notifying')
    BY <2>1
  <2> QED BY <1>0, <2>1, <2>2, WorkersMove
<1>5. CASE ShutdownWorker(w)
  <2>1. /\ UNCHANGED <<policy, notifying, pc>> /\ wstate[w] = "resume" /\ cur[w] = Helper
        /\ cur' = [cur EXCEPT ![w] = NoJob] /\ wstate' = [wstate EXCEPT ![w] = "down"]
    BY <1>5 DEF ShutdownWorker, Finish
  <2>2. w \notin notifying
    BY <2>1 DEF WorkersInv
  <2>3. pc = "await_worker"
    BY <2>1 DEF PlacesInv, Somewhere, Due, Job
  <2> QED BY <1>0, <2>1, <2>2, <2>3, WorkersMove
<1>6. CASE NotifyRunning(w)
  <2>1. /\ UNCHANGED <<policy, cur, last_worker>> /\ w \in notifying /\ notifying' = notifying \ {w}
        /\ wstate' = [wstate EXCEPT ![w] = "poll"] /\ (pc = "await_worker" => pc' = "await_worker")
    BY <1>6 DEF NotifyRunning, Wake
  <2>2. cur[w] = NoJob
    BY <2>1 DEF WorkersInv
  <2>3. cur' = [cur EXCEPT ![w] = NoJob]
    BY <1>0, <2>1, <2>2
  <2> QED BY <1>0, <2>1, <2>3, WorkersMove
<1>7. CASE \E a \in Actor : SendInternal(w, a)
  <2>1. /\ UNCHANGED <<policy, cur, last_worker, pc, notifying>>
        /\ wstate' = wstate \/ wstate' \in notify_one(wstate)
    BY <1>7 DEF SendInternal
  <2> QED BY <1>0, <2>1, WorkersFrame
<1> QED BY <1>1, <1>2, <1>3, <1>4, <1>5, <1>6, <1>7 DEF WorkerStep

(* Everybody else.                                                          *)
LEMMA OtherWorkers ==
  ASSUME TypeOK, WorkersInv, OtherStep
  PROVE  WorkersInv'
<1> USE DEF sched, actors, registry, threads, observer, control
<1>0. last_worker # 0 => pc = "await_worker"
  BY DEF WorkersInv
<1>1. CASE \E t \in Detached : ThreadStep(t)
  <2>1. PICK t \in Detached : ThreadStep(t)
    BY <1>1
  <2>2. t \notin Worker
    BY RuntimeAssumption DEF RuntimeAssumption, Worker, Detached
  <2>3. /\ UNCHANGED <<policy, cur, last_worker, wstate>> /\ (pc = "await_worker" => pc' = "await_worker")
        /\ notifying' \in {notifying, notifying \cup {t}, notifying \ {t}}
    BY <2>1, <2>2 DEF ThreadStep, ThreadDone, dec_running, NotifyRunning, dec_detached_threads,
       NotifyDetached, Wake
  <2> QED BY <1>0, <2>2, <2>3, WorkersFrame
<1>2. ASSUME NEW a, NEW m, Post(a, m) PROVE wstate' = wstate \/ wstate' \in notify_one(wstate)
  BY <1>2, PostCases DEF Schedule, enqueue
<1>3. CASE KillNamed
  <2>1. UNCHANGED <<policy, cur, last_worker, notifying>> /\ pc # "await_worker"
    BY <1>3 DEF KillNamed
  <2>2. wstate' = wstate \/ wstate' \in notify_one(wstate)
    BY <1>2, <1>3 DEF KillNamed
  <2> QED BY <1>0, <2>1, <2>2, WorkersFrame
<1>4. CASE \E a \in Actor : Send(a, "msg") \/ Send(a, "exit")
  <2>1. /\ UNCHANGED <<policy, cur, last_worker, notifying, pc>>
        /\ \E a \in Actor : Post(a, "msg") \/ Post(a, "exit")
    BY <1>4 DEF Send
  <2> QED BY <1>0, <1>2, <2>1, WorkersFrame
<1>5. CASE StopWorker \/ \E a \in Actor : Launch(a, TRUE) \/ Launch(a, FALSE)
  <2>1. /\ UNCHANGED <<policy, cur, last_worker, notifying>> /\ (pc = "await_worker" => pc' = "await_worker")
        /\ wstate' = wstate \/ wstate' \in notify_one(wstate)
    BY <1>5 DEF StopWorker, Launch, enqueue
  <2> QED BY <1>0, <2>1, WorkersFrame
<1>6. CASE \/ await_running_count_equal \/ await_detached_threads \/ LeaveMain \/ ReceiveDown
           \/ AwaitWorker \/ JoinAndDrain
           \/ \E a \in Actor, i \in 1 .. Names : put_named(i, a)
  <2>1. /\ UNCHANGED <<policy, cur, wstate, notifying>>
        /\ last_worker' = 0 \/ (last_worker' = last_worker /\ (pc = "await_worker" => pc' = "await_worker"))
    BY <1>6 DEF await_running_count_equal, await_detached_threads, LeaveMain, ReceiveDown,
       AwaitWorker,
       JoinAndDrain, put_named
  <2> QED BY <1>0, <2>1, WorkersFrame
<1> QED BY <1>1, <1>3, <1>4, <1>5, <1>6 DEF OtherStep, StopStep

-----------------------------------------------------------------------------
(* Signals of the work sharing policy.                                      *)

(* The property, with the set of polling workers named.                     *)
LEMMA SignalledDef ==
  WorkersSignalled <=>
    ((\E w \in Worker : wstate[w] = "wait") => Len(queue[1]) <= Cardinality(Polling(wstate)))
BY DEF WorkersSignalled, Polling

(* A job more, and a signal.                                                *)
LEMMA SignalPut ==
  ASSUME TypeOK, WorkersInv, WorkersSignalled, NEW w \in Worker, NEW x \in Job,
         append(w, x) \/ prepend(w, x), NEW ws \in [Worker -> WorkerStates],
         wstate' \in notify_one(ws), \A v \in Worker : ws[v] = "wait" => wstate[v] = "wait",
         Cardinality(Polling(wstate)) <= Cardinality(Polling(ws))
  PROVE  WorkersSignalled'
<1> SUFFICES ASSUME NEW u \in Worker, wstate'[u] = "wait"
             PROVE  Len(queue'[1]) <= Cardinality(Polling(wstate'))
  BY DEF WorkersSignalled, Polling
<1>1. ws[u] = "wait"
  BY NotifyOne
<1>2. wstate[u] = "wait" /\ policy = "sharing" /\ QueueOf(w) = 1 /\ 1 \in Worker
  BY <1>1, QueueOfType DEF WorkersInv, QueueOf
<1>3. Len(queue[1]) <= Cardinality(Polling(wstate))
  BY <1>2, SignalledDef
<1>4. Cardinality(Polling(wstate')) = Cardinality(Polling(ws)) + 1
  BY <1>1, NotifyOne
<1>5. queue[1] \in Seq(Job) /\ Len(queue[1]) \in Nat
  BY <1>2 DEF TypeOK
<1>6. queue'[1] = Append(queue[1], x) \/ queue'[1] = <<x>> \o queue[1]
  BY <1>2 DEF append, prepend, TypeOK
<1>7. Len(queue'[1]) = Len(queue[1]) + 1
  BY <1>5, <1>6
<1> QED BY <1>3, <1>4, <1>5, <1>7, WorkersFinite

(* No job more, and nobody stops polling.                                   *)
LEMMA SignalFrame ==
  ASSUME WorkersSignalled, UNCHANGED queue,
         \A v \in Worker : wstate'[v] = "wait" => wstate[v] = "wait",
         Cardinality(Polling(wstate)) <= Cardinality(Polling(wstate')), TypeOK
  PROVE  WorkersSignalled'
<1> SUFFICES ASSUME NEW u \in Worker, wstate'[u] = "wait"
             PROVE  Len(queue'[1]) <= Cardinality(Polling(wstate'))
  BY DEF WorkersSignalled, Polling
<1>1. Len(queue[1]) <= Cardinality(Polling(wstate))
  BY SignalledDef
<1>2. Len(queue[1]) \in Nat
  <2>1. 1 \in Worker
    BY QueueOfType
  <2>2. queue[1] \in Seq(Job)
    BY <2>1 DEF TypeOK
  <2> QED BY <2>2
<1>3. /\ Cardinality(Polling(wstate)) \in Nat /\ Cardinality(Polling(wstate')) \in Nat
      /\ queue'[1] = queue[1]
  BY WorkersFinite
<1> QED BY <1>1, <1>2, <1>3

(* Nothing happens to jobs and workers.                                     *)
LEMMA SignalStutter ==
  ASSUME WorkersSignalled, UNCHANGED <<queue, wstate>>
  PROVE  WorkersSignalled'
BY DEF WorkersSignalled

(* Nobody waits.                                                            *)
LEMMA SignalIdle ==
  ASSUME \A v \in Worker : wstate'[v] # "wait"
  PROVE  WorkersSignalled'
BY DEF WorkersSignalled

(* A message, or no message, and a signal.                                  *)
LEMMA SignalPost ==
  ASSUME TypeOK, WorkersInv, WorkersSignalled, NEW a \in Actor,
         \/ UNCHANGED <<queue, wstate>>
         \/ enqueue(a)
  PROVE  WorkersSignalled'
<1>1. CASE UNCHANGED <<queue, wstate>>
  BY <1>1, SignalStutter
<1>2. CASE enqueue(a)
  <2>1. /\ append(next_worker, a) /\ next_worker \in Worker /\ wstate' \in notify_one(wstate)
        /\ wstate \in [Worker -> WorkerStates] /\ a \in Job
    BY <1>2 DEF enqueue, TypeOK, Job
  <2> QED BY <2>1, SignalPut, WorkersFinite
<1> QED BY <1>1, <1>2

(* Workers.                                                                 *)
LEMMA WorkerSignal ==
  ASSUME TypeOK, WorkersInv, WorkersSignalled, NEW w \in Worker,
         WorkerStep(w) \/ \E a \in Actor : SendInternal(w, a)
  PROVE  WorkersSignalled'
<1> USE DEF sched, actors, registry, threads, observer, control, WorkerStates
<1>0. wstate \in [Worker -> WorkerStates] /\ 1 \in Worker /\ queue \in [Worker -> Seq(Job)]
      /\ Cardinality(Polling(wstate)) \in Nat
  BY QueueOfType, WorkersFinite DEF TypeOK
<1>1. CASE Dequeue(w)
  <2>1. CASE policy # "sharing"
    <3>1. wstate' = [wstate EXCEPT ![w] = "raid"] \/ wstate' = [wstate EXCEPT ![w] = "resume"]
      BY <1>1, <2>1 DEF Dequeue, AfterEmpty
    <3>2. \A v \in Worker : wstate[v] # "wait"
      BY <2>1 DEF WorkersInv
    <3> QED BY <1>0, <3>1, <3>2, SignalIdle
  <2>2. CASE policy = "sharing" /\ queue[1] = <<>>
    <3>1. queue'[1] = <<>>
      BY <1>1, <2>2 DEF Dequeue, QueueOf
    <3>2. Len(queue'[1]) <= Cardinality(Polling(wstate'))
      <4>1. Len(queue'[1]) = 0 /\ Cardinality(Polling(wstate')) \in Nat
        BY <3>1, WorkersFinite
      <4> QED BY <4>1
    <3> QED BY <3>2 DEF WorkersSignalled, Polling
  <2>3. CASE policy = "sharing" /\ queue[1] # <<>>
    <3>1. /\ queue' = [queue EXCEPT ![1] = Tail(@)] /\ wstate' = [wstate EXCEPT ![w] = "resume"]
          /\ wstate[w] = "poll"
      BY <1>1, <2>3 DEF Dequeue, QueueOf
    <3>2. Cardinality(Polling(wstate')) = Cardinality(Polling(wstate)) - 1
      BY <1>0, <3>1, PollingMoves
    <3>3. queue[1] \in Seq(Job) /\ Len(queue'[1]) = Len(queue[1]) - 1 /\ Len(queue[1]) \in Nat
      BY <1>0, <2>3, <3>1
    <3>4. ASSUME NEW u \in Worker, wstate'[u] = "wait" PROVE Len(queue[1]) <= Cardinality(Polling(wstate))
      <4>1. wstate[u] = "wait"
        BY <1>0, <3>1, <3>4
      <4> QED BY <4>1, SignalledDef
    <3>5. ASSUME NEW u \in Worker, wstate'[u] = "wait" PROVE Len(queue'[1]) <= Cardinality(Polling(wstate'))
      BY <1>0, <3>2, <3>3, <3>4, <3>5
    <3> QED BY <3>5 DEF WorkersSignalled, Polling
  <2> QED BY <2>1, <2>2, <2>3
<1>2. CASE try_steal(w)
  <2>1. wstate[w] = "raid" /\ \E to \in {"poll", "resume"} : wstate' = [wstate EXCEPT ![w] = to]
    BY <1>2 DEF try_steal
  <2>2. \A v \in Worker : wstate[v] # "wait"
    BY <2>1 DEF WorkersInv
  <2> QED BY <1>0, <2>1, <2>2, SignalIdle
<1>3. CASE ResumeLater(w)
  <2>1. PICK ws : ws = [wstate EXCEPT ![w] = "poll"]
    OBVIOUS
  <2>2. /\ cur[w] \in Job /\ append(w, cur[w]) /\ wstate' \in notify_one(ws)
    BY <1>3, <2>1 DEF ResumeLater, Finish, Job
  <2>3. ws \in [Worker -> WorkerStates] /\ \A v \in Worker : ws[v] = "wait" => wstate[v] = "wait"
    BY <1>0, <2>1
  <2>4. Cardinality(Polling(wstate)) <= Cardinality(Polling(ws))
    <3>1. \/ Cardinality(Polling(ws)) = Cardinality(Polling(wstate)) + 1
          \/ Cardinality(Polling(ws)) = Cardinality(Polling(wstate))
      BY <1>0, <2>1, PollingMoves
    <3> QED BY <1>0, <3>1
  <2> QED BY <2>2, <2>3, <2>4, SignalPut
<1>4. CASE AwaitMessage(w) \/ Done(w) \/ ShutdownWorker(w) \/ NotifyRunning(w)
  <2>1. PICK to \in {"poll", "notify", "down"} : wstate' = [wstate EXCEPT ![w] = to]
    BY <1>4 DEF AwaitMessage, Done, ShutdownWorker, NotifyRunning, Finish
  <2>2. UNCHANGED queue /\ wstate[w] # "poll"
    BY <1>4 DEF AwaitMessage, Done, ShutdownWorker, NotifyRunning, WorkersInv
  <2>3. \A v \in Worker : wstate'[v] = "wait" => wstate[v] = "wait"
    BY <1>0, <2>1
  <2>4. Cardinality(Polling(wstate)) <= Cardinality(Polling(wstate'))
    <3>1. \/ Cardinality(Polling(wstate')) = Cardinality(Polling(wstate)) + 1
          \/ Cardinality(Polling(wstate')) = Cardinality(Polling(wstate))
      <4>1. PICK ns : ns = [wstate EXCEPT ![w] = to]
        OBVIOUS
      <4>2. Cardinality(Polling(ns)) =
              IF wstate[w] # "poll" /\ to = "poll" THEN Cardinality(Polling(wstate)) + 1
              ELSE IF wstate[w] = "poll" /\ to # "poll" THEN Cardinality(Polling(wstate)) - 1
              ELSE Cardinality(Polling(wstate))
        <5>1. to \in WorkerStates /\ wstate \in [Worker -> WorkerStates]
          BY <1>0
        <5> HIDE DEF WorkerStates
        <5> QED BY <4>1, <5>1, PollingMoves
      <4> QED BY <2>1, <2>2, <4>1, <4>2
    <3> QED BY <1>0, <3>1
  <2> QED BY <2>2, <2>3, <2>4, SignalFrame
<1>5. CASE \E a \in Actor : SendInternal(w, a)
  <2>1. PICK a \in Actor : SendInternal(w, a)
    BY <1>5
  <2>2. CASE UNCHANGED <<queue, wstate>>
    BY <2>2, SignalStutter
  <2>3. CASE prepend(w, a) /\ wstate' \in notify_one(wstate)
    BY <1>0, <2>3, SignalPut DEF Job
  <2> QED BY <2>1, <2>2, <2>3 DEF SendInternal
<1> QED BY <1>1, <1>2, <1>3, <1>4, <1>5 DEF WorkerStep

(* Everybody else.                                                          *)
LEMMA OtherSignal ==
  ASSUME TypeOK, WorkersInv, WorkersSignalled, OtherStep
  PROVE  WorkersSignalled'
<1> USE DEF sched, actors, registry, threads, observer, control
<1>1. CASE \E t \in Detached : ThreadStep(t)
  <2>1. PICK t \in Detached : ThreadStep(t)
    BY <1>1
  <2>2. t \notin Worker
    BY RuntimeAssumption DEF RuntimeAssumption, Worker, Detached
  <2>3. UNCHANGED <<queue, wstate>>
    BY <2>1, <2>2 DEF ThreadStep, ThreadDone, NotifyRunning, dec_detached_threads, NotifyDetached
  <2> QED BY <2>3, SignalStutter
<1>2. ASSUME NEW a \in Actor, NEW m, Post(a, m) PROVE WorkersSignalled'
  BY <1>2, PostCases, SignalPost DEF Schedule
<1>3. CASE KillNamed
  <2>1. CASE named[idx] \in {"free", NoActor}
    <3>1. UNCHANGED <<queue, wstate>>
      BY <1>3, <2>1 DEF KillNamed
    <3> QED BY <3>1, SignalStutter
  <2>2. CASE named[idx] \notin {"free", NoActor}
    <3>1. named[idx] \in Actor /\ Post(named[idx], "exit")
      BY <1>3, <2>2 DEF KillNamed, TypeOK
    <3> QED BY <1>2, <3>1
  <2> QED BY <2>1, <2>2
<1>4. CASE \E a \in Actor : Send(a, "msg") \/ Send(a, "exit")
  BY <1>2, <1>4 DEF Send
<1>5. CASE \E a \in Actor : Launch(a, TRUE) \/ Launch(a, FALSE)
  BY <1>5, SignalPost DEF Launch
<1>6. CASE StopWorker
  <2>1. CASE UNCHANGED <<queue, wstate>>
    BY <2>1, SignalStutter
  <2>2. ASSUME NEW w \in Worker, append(w, Helper), wstate' \in notify_one(wstate) PROVE WorkersSignalled'
    <3>1. wstate \in [Worker -> WorkerStates] /\ Helper \in Job
      BY DEF TypeOK, Job
    <3>2. Cardinality(Polling(wstate)) <= Cardinality(Polling(wstate))
      <4>1. Cardinality(Polling(wstate)) \in Nat
        BY WorkersFinite
      <4> QED BY <4>1
    <3> QED BY <2>2, <3>1, <3>2, SignalPut
  <2> QED BY <1>6, <2>1, <2>2 DEF StopWorker, TypeOK
<1>7. CASE JoinAndDrain
  BY <1>7, SignalIdle DEF JoinAndDrain
<1>8. CASE \/ await_running_count_equal \/ await_detached_threads \/ LeaveMain \/ ReceiveDown \/ AwaitWorker
           \/ \E a \in Actor, i \in 1 .. Names : put_named(i, a)
  <2>1. UNCHANGED <<queue, wstate>>
    BY <1>8 DEF await_running_count_equal, await_detached_threads, LeaveMain, ReceiveDown,
       AwaitWorker, put_named
  <2> QED BY <2>1, SignalStutter
<1> QED BY <1>1, <1>3, <1>4, <1>5, <1>6, <1>7, <1>8 DEF OtherStep, StopStep

-----------------------------------------------------------------------------
(* The counters.                                                            *)

(* Everything that is counted is finite.                                    *)
LEMMA CountsFinite ==
  /\ IsFiniteSet(Counted) /\ IsFiniteSet(UpThreads) /\ IsFiniteSet(LiveThreads)
  /\ Cardinality(Counted) \in Nat /\ Cardinality(UpThreads) \in Nat /\ Cardinality(LiveThreads) \in Nat
<1>1. IsFiniteSet(Actor) /\ IsFiniteSet(Thread) /\ IsFiniteSet(Detached)
  BY FS_Union, RuntimeAssumption DEF RuntimeAssumption, Detached
<1>2. Counted \in SUBSET Actor /\ UpThreads \in SUBSET Thread /\ LiveThreads \in SUBSET Detached
  BY DEF Counted, UpThreads, LiveThreads
<1> QED BY <1>1, <1>2, FS_Subset, FS_CardinalityType

(* Neither a counted actor nor a thread comes or goes.                      *)
LEMMA CountFrame ==
  ASSUME CountInv, UNCHANGED <<running, s_detached>>,
         \A a \in Actor \ Hidden : astate'[a] \in {"idle", "ready", "detached"}
                                   <=> astate[a] \in {"idle", "ready", "detached"},
         \A t \in Detached : /\ thread'[t] = "up" <=> thread[t] = "up"
                             /\ thread'[t] = "down" <=> thread[t] = "down"
                             /\ thread'[t] = "notify" <=> t \in notifying'
  PROVE  CountInv'
<1>1. Counted' = Counted
  BY DEF Counted
<1>2. UpThreads' = UpThreads /\ LiveThreads' = LiveThreads
  BY DEF UpThreads, LiveThreads, Detached
<1> QED BY <1>1, <1>2 DEF CountInv

(* The threads are left alone.                                              *)
LEMMA ThreadsFrame ==
  ASSUME CountInv, UNCHANGED <<thread, s_detached>>, \A t \in Detached : t \in notifying' <=> t \in notifying
  PROVE  /\ UpThreads' = UpThreads /\ LiveThreads' = LiveThreads /\ s_detached' = Cardinality(LiveThreads')
         /\ \A t \in Detached : thread'[t] = "notify" <=> t \in notifying'
BY DEF CountInv, UpThreads, LiveThreads

(* The actor a worker resumes is ready.                                     *)
LEMMA ResumedReady ==
  ASSUME PlacesInv, NEW w \in Worker, cur[w] \in Actor
  PROVE  astate[cur[w]] = "ready"
BY DueCases DEF PlacesInv, Somewhere

(* Workers.                                                                 *)
LEMMA WorkerCount ==
  ASSUME TypeOK, PlacesInv, CountInv, NEW w \in Worker,
         WorkerStep(w) \/ \E a \in Actor : SendInternal(w, a)
  PROVE  CountInv'
<1> USE DEF sched, actors, registry, threads, observer, control
<1>0. w \notin Detached /\ astate \in [Actor -> ActorStates] /\ thread \in [Detached -> ThreadStates]
      /\ \A t \in Detached : thread[t] = "notify" <=> t \in notifying
  BY RuntimeAssumption DEF RuntimeAssumption, Worker, Detached, TypeOK, CountInv
<1>1. CASE Dequeue(w) \/ try_steal(w) \/ ResumeLater(w) \/ ShutdownWorker(w)
  <2>1. UNCHANGED <<running, s_detached, astate, thread, notifying>>
    BY <1>1 DEF Dequeue, try_steal, ResumeLater, ShutdownWorker
  <2> QED BY <1>0, <2>1, CountFrame
<1>2. CASE AwaitMessage(w)
  <2>1. UNCHANGED <<running, s_detached, thread, notifying>> /\ cur[w] \in Actor
        /\ astate' = [astate EXCEPT ![cur[w]] = "idle"]
    BY <1>2 DEF AwaitMessage
  <2>2. astate[cur[w]] = "ready"
    BY <2>1, ResumedReady
  <2>3. \A a \in Actor : astate'[a] \in {"idle", "ready", "detached"} <=> astate[a] \in {"idle", "ready", "detached"}
    BY <1>0, <2>1, <2>2
  <2> QED BY <1>0, <2>1, <2>3, CountFrame
<1>3. CASE Done(w)
  <2>1. /\ cur[w] \in Actor /\ astate' = [astate EXCEPT ![cur[w]] = "dead"] /\ UNCHANGED <<thread, s_detached>>
        /\ notifying' \in {notifying, notifying \cup {w}}
        /\ running' = IF cur[w] \notin Hidden THEN running - 1 ELSE running
    BY <1>3 DEF Done, dec_running
  <2>2. astate[cur[w]] = "ready"
    BY <2>1, ResumedReady
  <2>3. /\ UpThreads' = UpThreads /\ s_detached' = Cardinality(LiveThreads')
        /\ \A t \in Detached : thread'[t] = "notify" <=> t \in notifying'
    BY <1>0, <2>1, ThreadsFrame
  <2>4. Counted' = Counted \ {cur[w]} /\ (cur[w] \in Counted <=> cur[w] \notin Hidden)
    BY <1>0, <2>1, <2>2 DEF Counted
  <2>5. Cardinality(Counted') = IF cur[w] \in Counted THEN Cardinality(Counted) - 1 ELSE Cardinality(Counted)
    BY <2>4, CountsFinite, FS_RemoveElement
  <2>6. running' = Cardinality(Counted') + Cardinality(UpThreads')
    BY <2>1, <2>3, <2>4, <2>5, CountsFinite DEF CountInv
  <2> QED BY <2>3, <2>6 DEF CountInv
<1>4. CASE NotifyRunning(w)
  <2>1. UNCHANGED <<running, s_detached, astate, thread>> /\ notifying' = notifying \ {w}
    BY <1>0, <1>4 DEF NotifyRunning, TypeOK
  <2> QED BY <1>0, <2>1, CountFrame
<1>5. CASE \E a \in Actor : SendInternal(w, a)
  <2>1. PICK a \in Actor : SendInternal(w, a)
    BY <1>5
  <2>2. /\ UNCHANGED <<running, s_detached, thread, notifying>>
        /\ UNCHANGED astate \/ (astate[a] = "idle" /\ astate' = [astate EXCEPT ![a] = "ready"])
    BY <2>1 DEF SendInternal, unblocked_reader
  <2>3. \A b \in Actor : astate'[b] \in {"idle", "ready", "detached"} <=> astate[b] \in {"idle", "ready", "detached"}
    BY <1>0, <2>2
  <2> QED BY <1>0, <2>2, <2>3, CountFrame
<1> QED BY <1>1, <1>2, <1>3, <1>4, <1>5 DEF WorkerStep

(* Threads of detached actors.                                              *)
LEMMA ThreadCount ==
  ASSUME TypeOK, CountInv, NEW t \in Detached, ThreadStep(t)
  PROVE  CountInv'
<1> USE DEF sched, actors, registry, threads, observer, control
<1>0. thread \in [Detached -> ThreadStates] /\ \A u \in Detached : thread[u] = "notify" <=> u \in notifying
  BY DEF TypeOK, CountInv
<1>1. CASE ThreadDone(t)
  <2>1. /\ thread[t] = "up" /\ UNCHANGED <<astate, s_detached>>
        /\ notifying' \in {notifying, notifying \cup {t}}
        /\ thread' = [thread EXCEPT ![t] = IF t \in notifying' THEN "notify" ELSE "exited"]
        /\ running' = IF t \notin Utility THEN running - 1 ELSE running
    BY <1>1 DEF ThreadDone, dec_running
  <2>2. \A u \in Detached : u # t => thread'[u] = thread[u]
    BY <1>0, <2>1
  <2>3. thread'[t] = IF t \in notifying' THEN "notify" ELSE "exited"
    BY <1>0, <2>1
  <2>4. Counted' = Counted
    BY <2>1 DEF Counted
  <2>5. LiveThreads' = LiveThreads
    BY <2>1, <2>2, <2>3 DEF LiveThreads
  <2>6. UpThreads' = UpThreads \ {t} /\ (t \in UpThreads <=> t \notin Utility)
    BY <2>1, <2>2, <2>3, RuntimeAssumption DEF UpThreads, Detached, RuntimeAssumption
  <2>7. Cardinality(UpThreads') = IF t \in UpThreads THEN Cardinality(UpThreads) - 1 ELSE Cardinality(UpThreads)
    BY <2>6, CountsFinite, FS_RemoveElement
  <2>8. running' = Cardinality(Counted') + Cardinality(UpThreads')
    BY <2>1, <2>4, <2>6, <2>7, CountsFinite DEF CountInv
  <2>9. \A u \in Detached : thread'[u] = "notify" <=> u \in notifying'
    BY <1>0, <2>1, <2>2, <2>3
  <2> QED BY <2>1, <2>5, <2>8, <2>9 DEF CountInv
<1>2. CASE NotifyRunning(t)
  <2>1. /\ UNCHANGED <<running, s_detached, astate>> /\ t \in notifying /\ notifying' = notifying \ {t}
        /\ thread' = [thread EXCEPT ![t] = "exited"]
    BY <1>0, <1>2 DEF NotifyRunning
  <2>2. thread'[t] = "exited" /\ thread[t] = "notify" /\ \A u \in Detached : u # t => thread'[u] = thread[u]
    BY <1>0, <2>1
  <2> QED BY <1>0, <2>1, <2>2, CountFrame
<1>3. CASE dec_detached_threads(t)
  <2>1. /\ UNCHANGED <<running, astate, notifying>> /\ thread[t] = "exited"
        /\ thread' = [thread EXCEPT ![t] = "down"] /\ s_detached' = s_detached - 1
    BY <1>3 DEF dec_detached_threads
  <2>2. thread'[t] = "down" /\ \A u \in Detached : u # t => thread'[u] = thread[u]
    BY <1>0, <2>1
  <2>3. Counted' = Counted
    BY <2>1 DEF Counted
  <2>4. UpThreads' = UpThreads
    BY <2>1, <2>2 DEF UpThreads, Detached
  <2>5. LiveThreads' = LiveThreads \ {t} /\ t \in LiveThreads
    BY <2>1, <2>2 DEF LiveThreads
  <2>6. s_detached' = Cardinality(LiveThreads')
    BY <2>1, <2>5, CountsFinite, FS_RemoveElement DEF CountInv
  <2>7. \A u \in Detached : thread'[u] = "notify" <=> u \in notifying'
    BY <1>0, <2>1, <2>2
  <2> QED BY <2>1, <2>3, <2>4, <2>6, <2>7 DEF CountInv
<1>4. CASE NotifyDetached(t)
  <2>1. UNCHANGED <<running, s_detached, astate, thread, notifying>>
    BY <1>4 DEF NotifyDetached
  <2> QED BY <1>0, <2>1, CountFrame
<1> QED BY <1>1, <1>2, <1>3, <1>4 DEF ThreadStep

(* Everybody else.                                                          *)
LEMMA OtherCount ==
  ASSUME TypeOK, PlacesInv, CountInv, OtherStep
  PROVE  CountInv'
<1> USE DEF sched, actors, registry, threads, observer, control
<1>0. /\ astate \in [Actor -> ActorStates] /\ \A t \in Detached : thread[t] = "notify" <=> t \in notifying
  BY DEF TypeOK, CountInv
<1>1. CASE \E t \in Detached : ThreadStep(t)
  BY <1>1, ThreadCount
<1>2. ASSUME NEW a \in Actor, NEW m, Post(a, m), UNCHANGED <<running, s_detached, thread, notifying>>
      PROVE  CountInv'
  <2>1. UNCHANGED astate \/ (astate[a] = "idle" /\ astate' = [astate EXCEPT ![a] = "ready"])
    BY <1>2, PostCases DEF Schedule
  <2>2. \A b \in Actor : astate'[b] \in {"idle", "ready", "detached"} <=> astate[b] \in {"idle", "ready", "detached"}
    BY <1>0, <2>1
  <2> QED BY <1>0, <1>2, <2>2, CountFrame
<1>3. CASE KillNamed
  <2>1. UNCHANGED <<running, s_detached, thread, notifying>>
    BY <1>3 DEF KillNamed
  <2>2. CASE named[idx] \in {"free", NoActor}
    <3>1. UNCHANGED astate
      BY <1>3, <2>2 DEF KillNamed
    <3> QED BY <1>0, <2>1, <3>1, CountFrame
  <2>3. CASE named[idx] \notin {"free", NoActor}
    <3>1. named[idx] \in Actor /\ Post(named[idx], "exit")
      BY <1>3, <2>3 DEF KillNamed, TypeOK
    <3> QED BY <1>2, <2>1, <3>1
  <2> QED BY <2>2, <2>3
<1>4. CASE \E a \in Actor : Send(a, "msg") \/ Send(a, "exit")
  BY <1>2, <1>4 DEF Send
<1>5. CASE \E a \in Actor : Launch(a, TRUE) \/ Launch(a, FALSE)
  <2>1. PICK a \in Actor, st \in {"idle", "ready"} :
          /\ astate[a] = "none" /\ astate' = [astate EXCEPT ![a] = st]
          /\ UNCHANGED <<thread, s_detached, notifying>>
          /\ running' = IF a \in Hidden THEN running ELSE running + 1
    BY <1>5 DEF Launch, inc_running
  <2>2. /\ UpThreads' = UpThreads /\ s_detached' = Cardinality(LiveThreads')
        /\ \A t \in Detached : thread'[t] = "notify" <=> t \in notifying'
    BY <2>1, ThreadsFrame
  <2>3. astate'[a] = st /\ \A b \in Actor : b # a => astate'[b] = astate[b]
    BY <1>0, <2>1
  <2>4. CASE a \in Hidden
    <3>1. Counted' = Counted
      BY <2>3, <2>4 DEF Counted
    <3> QED BY <2>1, <2>2, <2>4, <3>1 DEF CountInv
  <2>5. CASE a \notin Hidden
    <3>1. Counted' = Counted \cup {a} /\ a \notin Counted
      BY <2>1, <2>3, <2>5 DEF Counted
    <3>2. Cardinality(Counted') = Cardinality(Counted) + 1
      BY <3>1, CountsFinite, FS_AddElement
    <3>3. running' = Cardinality(Counted') + Cardinality(UpThreads')
      BY <2>1, <2>2, <2>5, <3>2, CountsFinite DEF CountInv
    <3> QED BY <2>2, <3>3 DEF CountInv
  <2> QED BY <2>4, <2>5
<1>6. CASE JoinAndDrain
  <2>1. /\ UNCHANGED <<running, s_detached, thread, notifying>>
        /\ astate' = [a \in Actor |-> IF a \in foreach_resumable THEN "detached" ELSE astate[a]]
    BY <1>6 DEF JoinAndDrain
  <2>2. ASSUME NEW a \in Actor, a \in foreach_resumable PROVE astate[a] = "ready"
    <3>1. PICK v \in Worker : In(queue[v], a)
      BY <2>2 DEF foreach_resumable, ToSet, In
    <3> QED BY <3>1, DueCases DEF PlacesInv, Somewhere
  <2>3. \A a \in Actor : astate'[a] \in {"idle", "ready", "detached"} <=> astate[a] \in {"idle", "ready", "detached"}
    BY <2>1, <2>2
  <2> QED BY <1>0, <2>1, <2>3, CountFrame
<1>7. CASE \/ await_running_count_equal \/ await_detached_threads \/ LeaveMain \/ ReceiveDown \/ AwaitWorker
           \/ StopWorker \/ \E a \in Actor, i \in 1 .. Names : put_named(i, a)
  <2>1. UNCHANGED <<running, s_detached, astate, thread, notifying>>
    BY <1>7 DEF await_running_count_equal, await_detached_threads, LeaveMain, ReceiveDown,
       AwaitWorker,
       StopWorker, put_named
  <2> QED BY <1>0, <2>1, CountFrame
<1> QED BY <1>1, <1>3, <1>4, <1>5, <1>6, <1>7 DEF OtherStep, StopStep

-----------------------------------------------------------------------------
(* Shutdown.                                                                *)

Stopping == {"await_detached", "wait_detached", "disposed"}

(* A worker that has been shut down does nothing any more.                  *)
LEMMA WorkerStop ==
  ASSUME TypeOK, WorkersInv, StopInv, NEW w \in Worker,
         WorkerStep(w) \/ \E a \in Actor : SendInternal(w, a)
  PROVE  StopInv'
<1>1. wstate[w] # "down"
  BY DEF WorkerStep, Dequeue, try_steal, ResumeLater, AwaitMessage, Done, ShutdownWorker,
     NotifyRunning,
     SendInternal, WorkersInv
<1>2. pc \notin Stopping
  BY <1>1 DEF StopInv, Stopping
<1>3. pc' = pc \/ pc' = "await_running"
  BY DEF WorkerStep, Dequeue, try_steal, ResumeLater, AwaitMessage, Done, ShutdownWorker,
     NotifyRunning,
     SendInternal, Wake, control
<1> QED BY <1>2, <1>3 DEF StopInv, Stopping

(* Nobody else wakes one up, and disposing waits for the last thread.       *)
LEMMA OtherStop ==
  ASSUME TypeOK, WorkersInv, CountInv, StopInv, OtherStep
  PROVE  StopInv'
<1> USE DEF sched, actors, registry, threads, observer, control
<1>1. CASE \E t \in Detached : ThreadStep(t)
  <2>1. PICK t \in Detached : ThreadStep(t)
    BY <1>1
  <2>2. UNCHANGED wstate
    <3>1. t \notin Worker
      BY RuntimeAssumption DEF RuntimeAssumption, Worker, Detached
    <3> QED BY <2>1, <3>1 DEF ThreadStep, ThreadDone, NotifyRunning, dec_detached_threads,
               NotifyDetached
  <2>3. CASE dec_detached_threads(t)
    <3>1. t \in LiveThreads /\ pc' = pc
      BY <2>3 DEF dec_detached_threads, LiveThreads
    <3>2. s_detached # 0
      BY <3>1, CountsFinite, FS_EmptySet DEF CountInv
    <3> QED BY <2>2, <3>1, <3>2 DEF StopInv
  <2>4. CASE ~ dec_detached_threads(t)
    <3>1. /\ UNCHANGED s_detached
          /\ \/ pc' = pc
             \/ pc' = "await_running"
             \/ pc = "wait_detached" /\ pc' = "await_detached"
      BY <2>1, <2>4 DEF ThreadStep, ThreadDone, NotifyRunning, NotifyDetached, Wake
    <3> QED BY <2>2, <3>1 DEF StopInv
  <2> QED BY <2>3, <2>4
<1>2. CASE JoinAndDrain
  BY <1>2 DEF JoinAndDrain, StopInv
<1>3. CASE await_detached_threads
  BY <1>3 DEF await_detached_threads, StopInv
<1>4. CASE (StopStep /\ ~ JoinAndDrain /\ ~ await_detached_threads) \/ LeaveMain
  <2>1. pc \notin Stopping /\ pc' \notin Stopping
    BY <1>4 DEF StopStep, await_running_count_equal, KillNamed, ReceiveDown, StopWorker,
       AwaitWorker, LeaveMain, Stopping
  <2> QED BY <2>1 DEF StopInv, Stopping
<1>5. CASE \/ \E a \in Actor : Send(a, "msg") \/ Send(a, "exit") \/ Launch(a, TRUE) \/ Launch(a, FALSE)
           \/ \E a \in Actor, i \in 1 .. Names : put_named(i, a)
  <2>1. /\ UNCHANGED <<pc, s_detached>>
        /\ wstate' = wstate \/ wstate' \in notify_one(wstate)
    <3>1. ASSUME NEW a, NEW m, Post(a, m) PROVE wstate' = wstate \/ wstate' \in notify_one(wstate)
      BY <3>1, PostCases DEF Schedule, enqueue
    <3> QED BY <1>5, <3>1 DEF Send, Launch, enqueue, put_named
  <2>2. \A w \in Worker : wstate[w] = "down" => wstate'[w] = "down"
    BY <2>1, NotifyOne DEF TypeOK
  <2> QED BY <2>1, <2>2 DEF StopInv
<1> QED BY <1>1, <1>2, <1>3, <1>4, <1>5 DEF OtherStep

-----------------------------------------------------------------------------
(* The theorems.                                                            *)

(* The invariant holds in every reachable state, with any number of         *)
(* workers, actors and threads and under both policies.                     *)
THEOREM Invariance == Spec => [](IInv /\ WorkersSignalled)
<1>1. Init => IInv /\ WorkersSignalled
  <2> SUFFICES ASSUME Init PROVE IInv /\ WorkersSignalled
    OBVIOUS
  <2>1. TypeOK
    BY RuntimeAssumption DEF Init, TypeOK, RuntimeAssumption, Worker, WorkerStates, ActorStates,
       ThreadStates,
       MainStates, Detached
  <2>2. PlacesInv
    <3>1. \A w \in Worker : queue[w] = <<>> /\ cur[w] = NoJob
      BY DEF Init
    <3>2. \A j \in Job : Exclusive(queue, cur, j) /\ ~ Somewhere(queue, cur, j)
      BY <3>1, DueCases DEF Exclusive, Somewhere, In, Once
    <3>3. \A j \in Job : ~ Due(j)
      BY DEF Init, Due, Job
    <3> QED BY <3>2, <3>3 DEF PlacesInv
  <2>3. WorkersInv /\ StopInv /\ WorkersSignalled
    BY DEF Init, WorkersInv, StopInv, WorkersSignalled
  <2>4. CountInv
    <3>1. Counted = {} /\ UpThreads = Thread /\ LiveThreads = Detached
      BY DEF Init, Counted, UpThreads, LiveThreads, Detached
    <3>2. Cardinality(Counted) = 0
      BY <3>1, FS_EmptySet
    <3>3. running = Cardinality(Counted) + Cardinality(UpThreads)
      BY <3>1, <3>2, CountsFinite DEF Init
    <3> QED BY <3>1, <3>3 DEF Init, CountInv, Detached
  <2> QED BY <2>1, <2>2, <2>3, <2>4 DEF IInv
<1>2. IInv /\ WorkersSignalled /\ [Next]_vars => (IInv /\ WorkersSignalled)'
  <2> SUFFICES ASSUME IInv, WorkersSignalled, [Next]_vars PROVE (IInv /\ WorkersSignalled)'
    OBVIOUS
  <2>1. TypeOK /\ PlacesInv /\ WorkersInv /\ CountInv /\ StopInv
    BY DEF IInv
  <2>2. ASSUME NEW w \in Worker, WorkerStep(w) \/ \E a \in Actor : SendInternal(w, a)
        PROVE  (IInv /\ WorkersSignalled)'
    <3>1. TypeOK' /\ PlacesInv' /\ CountInv' /\ StopInv' /\ WorkersSignalled'
      BY <2>1, <2>2, WorkerType, WorkerPlaces, WorkerCount, WorkerStop, WorkerSignal
    <3>2. WorkersInv'
      BY <2>1, <2>2, <3>1, WorkerWorkers
    <3> QED BY <3>1, <3>2 DEF IInv
  <2>3. CASE OtherStep
    BY <2>1, <2>3, OtherType, OtherPlaces, OtherWorkers, OtherCount, OtherStop, OtherSignal DEF IInv
  <2>4. CASE UNCHANGED vars
    BY <2>1, <2>4 DEF vars, sched, actors, registry, threads, observer, control, IInv, TypeOK,
       PlacesInv, Due,
       WorkersInv, CountInv, Counted, UpThreads, LiveThreads, StopInv, WorkersSignalled
  <2> QED BY <2>2, <2>3, <2>4 DEF Next, OtherStep, Detached
<1> QED BY <1>1, <1>2, PTL DEF Spec

(* An actor that has been scheduled, and the shutdown helper, are in one    *)
(* queue or with one worker and never in two places, whatever is stolen,    *)
(* prepended or put back; an actor that is idle or dead is in none.         *)
THEOREM JobsInOnePlace == Spec => []JobsPlaced
<1>1. IInv => JobsPlaced
  <2> SUFFICES ASSUME IInv PROVE JobsPlaced
    OBVIOUS
  <2>1. ASSUME NEW j \in Job PROVE Occurrences(j) = IF Due(j) THEN 1 ELSE 0
    <3>1. Exclusive(queue, cur, j) /\ (Somewhere(queue, cur, j) <=> Due(j))
      BY DEF IInv, PlacesInv
    <3> QED BY <3>1, OccurrencesOf
  <2>2. \A a \in Actor : Occurrences(a) = IF astate[a] = "ready" THEN 1 ELSE 0
    BY <2>1, DueCases
  <2>3. Occurrences(Helper) = 0 \/ Occurrences(Helper) = 1
    BY <2>1 DEF Job
  <2> QED BY <2>2, <2>3 DEF JobsPlaced
<1> QED BY <1>1, Invariance, PTL

(* With the work sharing policy no job waits for a worker that sleeps       *)
(* without a signal: there are as many workers on their way to the queue as *)
(* there are jobs, or nobody sleeps.                                        *)
THEOREM SleepersAreSignalled == Spec => []WorkersSignalled
BY Invariance, PTL

(* The counter of running actors counts what it should: the actors that     *)
(* were launched, are not hidden and have not died, and the detached actors *)
(* that have not ended.  It is never decremented below zero.                *)
THEOREM RunningCounted == Spec => [](running \in Nat /\ running = Cardinality(Counted) + Cardinality(UpThreads))
<1>1. IInv => running \in Nat /\ running = Cardinality(Counted) + Cardinality(UpThreads)
  BY CountsFinite DEF IInv, CountInv
<1> QED BY <1>1, Invariance, PTL

(* Singletons are disposed only when the workers and all threads of         *)
(* detached actors are gone and nobody is about to lock the registry's      *)
(* mutex.                                                                   *)
THEOREM SingletonsOutliveUsers == Spec => []OutlivesUsers
<1>1. IInv => OutlivesUsers
  <2> SUFFICES ASSUME IInv, pc = "disposed"
               PROVE  /\ notifying = {} /\ \A w \in Worker : wstate[w] = "down"
                      /\ \A t \in DOMAIN thread : thread[t] = "down"
    BY DEF OutlivesUsers
  <2>1. (\A w \in Worker : wstate[w] = "down") /\ s_detached = 0
    BY DEF IInv, StopInv
  <2>2. LiveThreads = {}
    BY <2>1, CountsFinite, FS_EmptySet DEF IInv, CountInv
  <2>3. \A t \in Detached : thread[t] = "down"
    BY <2>2 DEF LiveThreads
  <2>4. notifying = {}
    BY <2>1, <2>3 DEF IInv, TypeOK, WorkersInv, CountInv
  <2> QED BY <2>1, <2>3, <2>4 DEF IInv, TypeOK
<1> QED BY <1>1, Invariance, PTL

(* await_all_actors_done does not return early: when it finds the count at  *)
(* zero, every actor that counts is dead or was never launched and every    *)
(* detached actor has ended.                                                *)
THEOREM AwaitIsNotEarly == Spec => AwaitMeansDone
<1>1. IInv /\ [Next]_vars => [(pc = "await_running" /\ pc' = "stop_registry") =>
                                /\ \A a \in Actor \ Hidden : astate[a] \in {"none", "dead"}
                                /\ \A t \in Thread : thread[t] # "up"]_vars
  <2> SUFFICES ASSUME IInv, Next, pc = "await_running", pc' = "stop_registry"
               PROVE  /\ \A a \in Actor \ Hidden : astate[a] \in {"none", "dead"}
                      /\ \A t \in Thread : thread[t] # "up"
    OBVIOUS
  <2> USE DEF sched, actors, registry, threads, observer, control
  <2>1. await_running_count_equal
    <3>1. ASSUME NEW w \in Worker, WorkerStep(w) \/ \E a \in Actor : SendInternal(w, a) PROVE FALSE
      BY <3>1 DEF WorkerStep, Dequeue, try_steal, ResumeLater, AwaitMessage, Done,
         ShutdownWorker, NotifyRunning,
         SendInternal, Wake
    <3>2. ASSUME NEW t \in Detached, ThreadStep(t) PROVE FALSE
      BY <3>2 DEF ThreadStep, ThreadDone, NotifyRunning, dec_detached_threads, NotifyDetached, Wake
    <3>3. ASSUME \/ \E a \in Actor : Send(a, "msg") \/ Send(a, "exit") \/ Launch(a, TRUE) \/ Launch(a, FALSE)
                 \/ \E a \in Actor, i \in 1 .. Names : put_named(i, a)
          PROVE  FALSE
      BY <3>3 DEF Send, Launch, put_named
    <3>4. ASSUME StopStep \/ LeaveMain PROVE await_running_count_equal
      BY <3>4 DEF StopStep, LeaveMain, KillNamed, ReceiveDown, StopWorker, AwaitWorker,
         JoinAndDrain,
         await_detached_threads
    <3> QED BY <3>1, <3>2, <3>3, <3>4 DEF Next, Detached
  <2>2. running = 0
    BY <2>1 DEF await_running_count_equal
  <2>3. Cardinality(Counted) = 0 /\ Cardinality(UpThreads) = 0
    BY <2>2, CountsFinite DEF IInv, CountInv
  <2>4. Counted = {} /\ UpThreads = {}
    BY <2>3, CountsFinite, FS_EmptySet
  <2>5. \A a \in Actor : astate[a] \in ActorStates
    BY DEF IInv, TypeOK
  <2>6. \A a \in Actor \ Hidden : astate[a] \in {"none", "dead"}
    BY <2>4, <2>5 DEF Counted, ActorStates
  <2>7. \A t \in Thread : thread[t] # "up"
    BY <2>4 DEF UpThreads
  <2> QED BY <2>6, <2>7
<1> QED BY <1>1, Invariance, PTL DEF Spec, AwaitMeansDone
=============================================================================
