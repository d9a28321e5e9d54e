\* Actor pool, groups, configuration server, timer, printer, spawn, proxies
\* and the directories, one at a time.
SPECIFICATION Spec
CONSTANTS
  Parts = {"pool", "group", "config", "timer", "printer", "spawn", "proxies",
           "singletons", "registry", "types", "named", "profiler", "split", "dialled",
           "sockets", "loop"}
  Threads = {t1, t2}
  Workers = {w1, w2, w3}
  Messages = {m1, m2}
  Policies = {"round_robin", "broadcast", "random"}
  MaxAdmin = 1
  Proxies = {p1, p2}
  Posts = {g1}
  Clients = {c1, c2}
  Keys = {k1, k2}
  Values = {v1, v2}
  MaxRequests = 4
  Writers = {a1, a2}
  Files = {"f1", "f2", "bad"}
  BadFile = "bad"
  MaxTime = 3
  Delays = {0, 1, 2}
  MaxDelayed = 3
  MaxPrints = 3
  Greetings = {"hi", "ho"}
  Users = {u1}
  MaxProxies = 2
  MaxLinkOps = 3
  Actors = {x1, x2}
  Ids = {1, 2}
  Brokers = {b1}
  TypeNames = {n1, n2}
  Factories = {f1, f2}
  MaxGroups = 4
  MaxAnnounced = 3
  Cpus = {1, 2}
  ActorIds = {1}
  Resolution = 2
  MaxClock = 2
  MaxSpent = 1
  Requests = {r1, r2, r3}
  Anonymous = {r3}
  Nodes = {d1, d2}
  Owners = {o1, o2}
  Fds = {1, 2}
  Ports = {1, 2}
  Tasks = {"x", "y", "z"}
INVARIANTS PoolDelivers GroupDelivers DirectoryConsistent OutputComplete SpawnHonoured
PROPERTY PoolReturns
CHECK_DEADLOCK FALSE
