------------------------------ MODULE MemoryCache ------------------------------
(* detail::memory: objects live in the cells of reference-counted storages. *)
(* A thread hands out the cells of the storage its cache points to; any     *)
(* thread may destroy an object, which drops the object's reference to its  *)
(* storage in the two steps of ref_counted::deref.                          *)
EXTENDS Naturals, FiniteSets

CONSTANTS Threads,      \* threads that allocate and destroy
          Storages,     \* the storages that may be allocated
          dsize         \* cells of a storage

VARIABLES rc,           \* storage -> reference count, 0 once it is deleted
          pos_,          \* storage -> cells handed out
          cache,        \* thread -> the storage of its cache, or "null"
          objects,      \* <<storage, cell>> of the objects alive
          deref,        \* thread -> [st, checked] of the deref it is executing
          unalloc       \* storages not allocated yet

memVars == <<rc, pos_, cache, objects, deref, unalloc>>
Null == "null"
Idle == [st |-> Null, checked |-> FALSE]
Exited == "exited"

MemInit ==
  /\ rc = [s \in Storages |-> 0] /\ pos_ = [s \in Storages |-> 0]
  /\ cache = [t \in Threads |-> Null]
  /\ objects = {} /\ unalloc = Storages
  /\ deref = [t \in Threads |-> Idle]

MayCall(t) == deref[t] = Idle /\ cache[t] # Exited

has_next(s, p) == p < dsize

(* new_embedded_storage: the last cell takes the cache's reference along. *)
new_embedded_storage(t, s, fresh) ==
  LET refs == IF fresh THEN 1 ELSE rc[s]
  IN /\ objects' = objects \cup {<<s, pos_[s]>>}
     /\ pos_' = [pos_ EXCEPT ![s] = @ + 1]
     /\ IF has_next(s, pos_[s] + 1)
        THEN rc' = [rc EXCEPT ![s] = refs + 1] /\ cache' = [cache EXCEPT ![t] = s]
        ELSE rc' = [rc EXCEPT ![s] = refs] /\ cache' = [cache EXCEPT ![t] = Null]

(* memory::create, allocating the storage if the cache holds none. *)
Create(t) ==
  /\ MayCall(t)
  /\ \/ cache[t] # Null /\ new_embedded_storage(t, cache[t], FALSE) /\ UNCHANGED unalloc
     \/ /\ cache[t] = Null
        /\ \E s \in unalloc : /\ unalloc' = unalloc \ {s}
                              /\ new_embedded_storage(t, s, TRUE)
  /\ UNCHANGED deref

(* embedded::request_deletion: destroys the object, then its reference. *)
request_deletion(t) ==
  /\ MayCall(t)
  /\ \E o \in objects : /\ objects' = objects \ {o}
                        /\ deref' = [deref EXCEPT ![t] = [st |-> o[1], checked |-> FALSE]]
  /\ UNCHANGED <<rc, pos_, cache, unalloc>>

(* A thread ends: its cache map is destroyed. *)
ThreadExit(t) ==
  /\ MayCall(t)
  /\ deref' = [deref EXCEPT ![t] = [st |-> cache[t], checked |-> FALSE]]
  /\ cache' = [cache EXCEPT ![t] = Exited]
  /\ UNCHANGED <<rc, pos_, objects, unalloc>>

(* ref_counted::deref: a unique owner deletes without decrementing. *)
CheckUnique(t) ==
  /\ deref[t].st # Null /\ ~deref[t].checked
  /\ LET s == deref[t].st
     IN IF rc[s] = 1
        THEN rc' = [rc EXCEPT ![s] = 0] /\ deref' = [deref EXCEPT ![t] = Idle]
        ELSE deref' = [deref EXCEPT ![t].checked = TRUE] /\ UNCHANGED rc
  /\ UNCHANGED <<pos_, cache, objects, unalloc>>
FetchSub(t) ==
  /\ deref[t].checked
  /\ rc' = [rc EXCEPT ![deref[t].st] = @ - 1]
  /\ deref' = [deref EXCEPT ![t] = Idle]
  /\ UNCHANGED <<pos_, cache, objects, unalloc>>

MemNext ==
  \E t \in Threads : \/ Create(t) \/ request_deletion(t) \/ ThreadExit(t)
                     \/ CheckUnique(t) \/ FetchSub(t)
-------------------------------------------------------------------------------
(* A storage is deleted exactly when neither an object, nor a cache, nor a  *)
(* pending deref refers to it, and no cell beyond its last one is used.     *)
StorageSafe ==
  \A s \in Storages \ unalloc :
    /\ rc[s] = Cardinality({o \in objects : o[1] = s})
             + Cardinality({t \in Threads : cache[t] = s})
             + Cardinality({t \in Threads : deref[t].st = s})
    /\ pos_[s] <= dsize
===============================================================================
