----------------------------- MODULE ActorLinks -----------------------------
(***************************************************************************)
(* Links and monitors: the attachables of abstract_actor, guarded by mtx_, *)
(* the four linking operations, monitor and demonitor, and the part of     *)
(* filter_msg and cleanup that deals with exit and down messages.          *)
(*                                                                         *)
(* establish_link_impl and remove_link_impl call into the other actor      *)
(* while they hold their own mutex; each critical section on one mutex is  *)
(* a step, everything that happens after an unlock is another.  Mailboxes  *)
(* only matter as places where exit and down messages wait; an actor       *)
(* closes its own before it publishes its exit reason.                     *)
(***************************************************************************)
EXTENDS Naturals, Sequences, FiniteSets, SequencesExt

CONSTANTS Actor,     \* local actors; each is executed by a thread of its own
          Outside,   \* other threads that hold handles to the actors
          Linker,    \* the threads that call link_to and unlink_from
          Killer,    \* the threads that call send_exit
          TrapExit,  \* the actors with trap_exit(true)
          Reason,    \* exit reasons in use
          None,      \* invalid_actor_addr, or no thread
          MaxCalls   \* bound on the calls the threads make altogether

Reasons == {"normal", "error", "kill"}

ASSUME LinksAssumption ==
  /\ Actor \cap Outside = {}
  /\ None \notin Actor \cup Outside
  /\ Linker \subseteq Actor \cup Outside /\ Killer \subseteq Actor \cup Outside
  /\ TrapExit \subseteq Actor
  /\ Reason \subseteq Reasons
  /\ MaxCalls \in Nat

Thread == Actor \cup Outside

VARIABLES
  exit_reason_,     \* "not_exited" or a reason
  attachables,      \* the list behind attachables_head_, latest first
  mtx_,             \* the thread that holds the mutex of each actor
  mailbox,          \* exit and down messages that wait
  open,             \* is the mailbox not closed yet?
  planned,          \* planned_exit_reason_
  todo,             \* local variable head of cleanup
  pc, self, other,  \* what each thread does, to whom
  calls,            \* number of calls so far
  owed              \* down messages each actor is still owed by each other

callVars == <<pc, self, other>>
vars == <<exit_reason_, attachables, mtx_, mailbox, open, planned, todo,
          callVars, calls, owed>>

Attachable == [type : {"link", "monitor"}, observer : Actor]
Letter == [type : {"exit", "down"}, source : Actor \cup {None}, reason : Reasons]

make_link(x)    == [type |-> "link", observer |-> x]
make_monitor(x) == [type |-> "monitor", observer |-> x]

exited(x) == exit_reason_[x] # "not_exited"

HasLink(x, y) == Contains(attachables[x], make_link(y))

(* How many elements of a list or a mailbox are in S.                       *)
Count(list, S) == Cardinality({i \in DOMAIN list : list[i] \in S})

(* enqueue: the mailbox of a terminated actor discards the letter, which is *)
(* no request and so is not bounced.                                        *)
Post(x, letter) ==
  mailbox' = IF open[x] THEN [mailbox EXCEPT ![x] = Append(@, letter)]
                        ELSE mailbox

exit_msg(y) == [type |-> "exit", source |-> y, reason |-> exit_reason_[y]]

(* default_attachable::actor_exited                                         *)
actor_exited(y, a) ==
  Post(a.observer, [type |-> IF a.type = "monitor" THEN "down" ELSE "exit",
                    source |-> y, reason |-> exit_reason_[y]])

Goto(t, label) == pc' = [pc EXCEPT ![t] = label] /\ UNCHANGED <<self, other>>

Return(t) ==
  /\ pc' = [pc EXCEPT ![t] = "idle"]
  /\ self' = [self EXCEPT ![t] = None] /\ other' = [other EXCEPT ![t] = None]

Lock(t, x)   == mtx_[x] = None /\ mtx_' = [mtx_ EXCEPT ![x] = t]
Unlock(x)    == mtx_' = [mtx_ EXCEPT ![x] = None]
Free(x)      == mtx_[x] = None

(* User code of a thread makes a call, which takes one step or several.     *)
UserCalls(t) == pc[t] = "idle" /\ calls < MaxCalls /\ calls' = calls + 1

Enter(t, op, x, y) ==
  /\ pc' = [pc EXCEPT ![t] = op]
  /\ self' = [self EXCEPT ![t] = x] /\ other' = [other EXCEPT ![t] = y]

(* x.link_to and x.unlink_from are for x itself or anybody with a handle.   *)
MayLink(t, x) == t \in Linker /\ (t = x \/ t \in Outside)
-----------------------------------------------------------------------------
(* link_to                                                                  *)
LinkTo(t, x, y) ==
  /\ MayLink(t, x) /\ x # y
  /\ UserCalls(t) /\ Enter(t, "link", x, y)
  /\ UNCHANGED <<exit_reason_, attachables, mtx_, mailbox, open, planned,
                 todo, owed>>

(* establish_link_impl, up to the call of establish_backlink.               *)
EstablishLink(t) ==
  LET x == self[t] IN
  /\ pc[t] = "link"
  /\ IF exited(x)
     THEN Free(x) /\ Post(other[t], exit_msg(x)) /\ Return(t)
          /\ UNCHANGED mtx_
     ELSE Lock(t, x) /\ Goto(t, "backlink") /\ UNCHANGED mailbox
  /\ UNCHANGED <<exit_reason_, attachables, open, planned, todo, calls, owed>>

(* establish_backlink_impl of the other actor, its critical section.        *)
AlreadyLinked(x, y) == HasLink(x, y)

EstablishBacklink(t) ==
  LET x == self[t]
      y == other[t] IN
  /\ pc[t] = "backlink" /\ Free(y)
  /\ IF exited(y)
     THEN Goto(t, "refuse") /\ UNCHANGED <<attachables, mtx_>>
     ELSE IF AlreadyLinked(y, x)
     THEN Unlock(x) /\ Return(t) /\ UNCHANGED attachables
     ELSE /\ attachables' = [attachables EXCEPT ![y] = <<make_link(x)>> \o @]
          /\ Goto(t, "attach") /\ UNCHANGED mtx_
  /\ UNCHANGED <<exit_reason_, mailbox, open, planned, todo, calls, owed>>

(* The other actor is dead and says so, after releasing its mutex.          *)
RefuseBacklink(t) ==
  /\ pc[t] = "refuse"
  /\ Post(self[t], exit_msg(other[t]))
  /\ Unlock(self[t])
  /\ Return(t)
  /\ UNCHANGED <<exit_reason_, attachables, open, planned, todo, calls, owed>>

(* establish_backlink returned true.                                        *)
AttachLink(t) ==
  LET x == self[t] IN
  /\ pc[t] = "attach"
  /\ attachables' = [attachables EXCEPT ![x] = <<make_link(other[t])>> \o @]
  /\ Unlock(x)
  /\ Return(t)
  /\ UNCHANGED <<exit_reason_, mailbox, open, planned, todo, calls, owed>>

(* unlink_from                                                              *)
UnlinkFrom(t, x, y) ==
  /\ MayLink(t, x) /\ x # y
  /\ UserCalls(t) /\ Enter(t, "unlink", x, y)
  /\ UNCHANGED <<exit_reason_, attachables, mtx_, mailbox, open, planned,
                 todo, owed>>

(* remove_link_impl: only the first match goes.                             *)
RemoveLink(t) ==
  LET x == self[t] IN
  /\ pc[t] = "unlink"
  /\ IF other[t] \in {None, x} \/ ~ HasLink(x, other[t])
     THEN /\ other[t] \in {None, x} \/ Free(x)
          /\ Return(t) /\ UNCHANGED <<attachables, mtx_>>
     ELSE /\ Lock(t, x)
          /\ attachables' = [attachables EXCEPT ![x] =
                               RemoveFirst(@, make_link(other[t]))]
          /\ Goto(t, "remove_backlink")
  /\ UNCHANGED <<exit_reason_, mailbox, open, planned, todo, calls, owed>>

(* remove_backlink_impl                                                     *)
BacklinkKept(list, x) == list
BacklinkRemoved(list, x) == RemoveFirst(list, make_link(x))

RemoveBacklink(t) ==
  LET x == self[t]
      y == other[t] IN
  /\ pc[t] = "remove_backlink" /\ Free(y)
  /\ attachables' = [attachables EXCEPT ![y] = BacklinkRemoved(@, x)]
  /\ Unlock(x)
  /\ Return(t)
  /\ UNCHANGED <<exit_reason_, mailbox, open, planned, todo, calls, owed>>

-----------------------------------------------------------------------------
(* monitor: attach to y, or be told at once if y is dead.                   *)
RefusesAttachNever(y) == FALSE
RefusesAttach(y) == exited(y)

Monitor(x, y) ==
  /\ x # y /\ Free(y)
  /\ UserCalls(x)
  /\ IF RefusesAttach(y)
     THEN actor_exited(y, make_monitor(x)) /\ UNCHANGED attachables
     ELSE /\ attachables' = [attachables EXCEPT ![y] = <<make_monitor(x)>> \o @]
          /\ UNCHANGED mailbox
  /\ owed' = [owed EXCEPT ![x][y] = @ + 1]
  /\ UNCHANGED <<exit_reason_, mtx_, open, planned, todo, callVars>>

(* detach_impl without stop_on_hit removes every match; the others stay in  *)
(* their order.                                                             *)
Increasing(K) ==
  CHOOSE f \in [1 .. Cardinality(K) -> K] :
    \A i, j \in 1 .. Cardinality(K) : i < j => f[i] < f[j]

detach(list, what) ==
  LET kept == {i \in DOMAIN list : list[i] # what}
  IN  [k \in 1 .. Cardinality(kept) |-> list[Increasing(kept)[k]]]

(* demonitor                                                                *)
Demonitor(x, y) ==
  LET kept == detach(attachables[y], make_monitor(x)) IN
  /\ x # y /\ Free(y)
  /\ UserCalls(x)
  /\ attachables' = [attachables EXCEPT ![y] = kept]
  /\ owed' = [owed EXCEPT ![x][y] = @ - (Len(attachables[y]) - Len(kept))]
  /\ UNCHANGED <<exit_reason_, mtx_, mailbox, open, planned, todo, callVars>>

(* send_exit, or anon_send_exit from outside.                               *)
SendExit(t, x, r) ==
  /\ t \in Killer /\ UserCalls(t)
  /\ Post(x, [type |-> "exit", source |-> IF t \in Actor THEN t ELSE None,
              reason |-> r])
  /\ UNCHANGED <<exit_reason_, attachables, mtx_, open, planned, todo,
                 callVars, owed>>

(* filter_msg for a down message, which is an ordinary one, and for an exit *)
(* message: unlink_from(source) and then quit, unless the reason is normal  *)
(* or the actor traps exits; kill cannot be trapped.                        *)
FatalIfKill(x, r) == r = "kill"
Fatal(x, r) == r = "kill" \/ (x \notin TrapExit /\ r # "normal")

Receive(x) ==
  /\ pc[x] = "idle" /\ planned[x] = "not_exited"
  /\ open[x] /\ mailbox[x] # <<>>
  /\ mailbox' = [mailbox EXCEPT ![x] = Tail(@)]
  /\ LET m == Head(mailbox[x]) IN
       IF m.type = "down"
       THEN /\ owed' = [owed EXCEPT ![x][m.source] = @ - 1]
            /\ UNCHANGED <<callVars, planned>>
       ELSE /\ Enter(x, "unlink", x, m.source)
            /\ planned' = IF Fatal(x, m.reason)
                          THEN [planned EXCEPT ![x] = m.reason] ELSE planned
            /\ UNCHANGED owed
  /\ UNCHANGED <<exit_reason_, attachables, mtx_, open, todo, calls>>

(* quit                                                                     *)
Quit(x, r) ==
  /\ UserCalls(x)
  /\ planned[x] = "not_exited"
  /\ planned' = [planned EXCEPT ![x] = r]
  /\ UNCHANGED <<exit_reason_, attachables, mtx_, mailbox, open, todo,
                 callVars, owed>>

-----------------------------------------------------------------------------
(* actor_done: an exit reason is planned or no behavior is left, which      *)
(* counts as a normal exit.  cleanup first closes the mailbox.              *)
DefaultedReason(r) == IF r = "not_exited" THEN "normal" ELSE r

CloseMailbox(x) ==
  /\ pc[x] = "idle"
  /\ planned' = [planned EXCEPT ![x] = DefaultedReason(@)]
  /\ open' = [open EXCEPT ![x] = FALSE]
  /\ mailbox' = [mailbox EXCEPT ![x] = <<>>]
  /\ Goto(x, "cleanup")
  /\ UNCHANGED <<exit_reason_, attachables, mtx_, todo, calls, owed>>

(* abstract_actor::cleanup: publish the exit reason and take the list.      *)
Cleanup(x) ==
  /\ pc[x] = "cleanup" /\ Free(x)
  /\ exit_reason_' = [exit_reason_ EXCEPT ![x] = planned[x]]
  /\ todo' = [todo EXCEPT ![x] = attachables[x]]
  /\ attachables' = [attachables EXCEPT ![x] = <<>>]
  /\ Goto(x, "notify")
  /\ UNCHANGED <<mtx_, mailbox, open, planned, calls, owed>>

(* One turn of the loop that calls actor_exited.                            *)
RestOf(list) == Tail(list)

Notify(x) ==
  /\ pc[x] = "notify" /\ todo[x] # <<>>
  /\ actor_exited(x, Head(todo[x]))
  /\ todo' = [todo EXCEPT ![x] = RestOf(@)]
  /\ UNCHANGED <<exit_reason_, attachables, mtx_, open, planned, callVars,
                 calls, owed>>

-----------------------------------------------------------------------------
Init ==
  /\ exit_reason_ = [x \in Actor |-> "not_exited"]
  /\ attachables = [x \in Actor |-> <<>>]
  /\ mtx_ = [x \in Actor |-> None]
  /\ mailbox = [x \in Actor |-> <<>>]
  /\ open = [x \in Actor |-> TRUE]
  /\ planned = [x \in Actor |-> "not_exited"]
  /\ todo = [x \in Actor |-> <<>>]
  /\ pc = [t \in Thread |-> "idle"]
  /\ self = [t \in Thread |-> None] /\ other = [t \in Thread |-> None]
  /\ calls = 0
  /\ owed = [x \in Actor |-> [y \in Actor |-> 0]]

(* What a thread does on its own accord.                                    *)
UserCode(t) ==
  \/ \E x, y \in Actor : LinkTo(t, x, y) \/ UnlinkFrom(t, x, y)
  \/ \E x \in Actor, r \in Reason : SendExit(t, x, r)
  \/ t \in Actor /\ \E y \in Actor : Monitor(t, y) \/ Demonitor(t, y)
  \/ t \in Actor /\ \E r \in Reason : Quit(t, r)

(* What it does once it has begun something.                                *)
Continue(t) ==
  \/ EstablishLink(t) \/ EstablishBacklink(t)
  \/ RefuseBacklink(t) \/ AttachLink(t)
  \/ RemoveLink(t) \/ RemoveBacklink(t)

Run(x) == Receive(x) \/ Cleanup(x) \/ Notify(x)

Next ==
  \/ \E t \in Thread : UserCode(t) \/ Continue(t)
  \/ \E x \in Actor : Run(x) \/ CloseMailbox(x)

Spec == Init /\ [][Next]_vars

(* Threads that have begun an operation go on unless they wait for a mutex, *)
(* actors look at their mail, and one that has planned to exit does.        *)
FairSpec ==
  /\ Spec
  /\ \A t \in Thread : WF_vars(Continue(t))
  /\ \A x \in Actor : /\ WF_vars(Run(x))
                      /\ WF_vars(planned[x] # "not_exited" /\ CloseMailbox(x))
-----------------------------------------------------------------------------
(* Properties.                                                              *)

(* Type correctness; an actor that cleans up has a proper exit reason, as   *)
(* abstract_actor::cleanup asserts.                                         *)
TypeOK ==
  /\ exit_reason_ \in [Actor -> Reasons \cup {"not_exited"}]
  /\ attachables \in [Actor -> Seq(Attachable)]
  /\ mtx_ \in [Actor -> Thread \cup {None}]
  /\ mailbox \in [Actor -> Seq(Letter)]
  /\ open \in [Actor -> BOOLEAN]
  /\ planned \in [Actor -> Reasons \cup {"not_exited"}]
  /\ todo \in [Actor -> Seq(Attachable)]
  /\ pc \in [Thread -> {"idle", "link", "backlink", "refuse", "attach",
                        "unlink", "remove_backlink", "cleanup", "notify"}]
  /\ self \in [Thread -> Actor \cup {None}]
  /\ other \in [Thread -> Actor \cup {None}]
  /\ calls \in 0 .. MaxCalls
  /\ owed \in [Actor -> [Actor -> Nat]]
  /\ \A x \in Actor : ~ open[x] => planned[x] \in Reasons

(* x will hear of the end of y, or is just reacting to it.                  *)
WillHear(x, y) ==
  \/ Contains(todo[y], make_link(x))
  \/ \E i \in DOMAIN mailbox[x] :
       mailbox[x][i].type = "exit" /\ mailbox[x][i].source = y
  \/ pc[x] = "unlink" /\ other[x] = y

(* y is about to complete or to end its side of the link.                   *)
OtherSideFollows(x, y) ==
  \E t \in Thread :
    /\ pc[t] \in {"attach", "remove_backlink"}
    /\ self[t] = y /\ other[t] = x

(* Links are bidirectional: an actor that considers itself linked to        *)
(* another is in the other's list as well, so that the end of either is     *)
(* reported to the other, or the report is under way.  No order of linking, *)
(* unlinking and dying on both sides leaves a one-sided link.               *)
LinksBidirectional ==
  \A x, y \in Actor :
    x # y /\ open[x] /\ HasLink(x, y) =>
      \/ HasLink(y, x)
      \/ exited(y) /\ WillHear(x, y)
      \/ OtherSideFollows(x, y)

(* The down messages that report the end of y.                              *)
DownFrom(y) == [type : {"down"}, source : {y}, reason : Reasons]

(* "An actor will receive one down message for each time it called          *)
(* monitor": what it is owed waits at the live target, in the target's      *)
(* clean-up or in the mailbox, however monitoring races the target's end.   *)
DownsAccounted ==
  \A x, y \in Actor :
    open[x] =>
      owed[x][y] =
        (IF exited(y) THEN 0
         ELSE Count(attachables[y], {make_monitor(x)}))
        + Count(todo[y], {make_monitor(x)})
        + Count(mailbox[x], DownFrom(y))

(* Threads that hold the mutex of one actor and wait for that of another,   *)
(* round in a circle: actors that link to, or unlink from, each other at    *)
(* the same time.                                                           *)
Stuck ==
  \E S \in SUBSET Thread \ {{}} :
    \A t \in S : pc[t] \in {"backlink", "remove_backlink"} /\ mtx_[other[t]] \in S

(* The manual's promise about links: the end of an actor with a reason      *)
(* other than normal ends every actor that is linked to it at that time and *)
(* does not trap exits, whatever the partner does meanwhile, unless actors  *)
(* wait for each other's mutexes.                                           *)
ErrorsPropagate ==
  \A x \in Actor \ TrapExit, y \in Actor :
    /\ exit_reason_[y] \notin {"not_exited", "normal"}
    /\ HasLink(x, y) \/ Contains(todo[y], make_link(x))
    ~> exited(x) \/ Stuck
=============================================================================
