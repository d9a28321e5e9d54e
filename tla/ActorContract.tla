---------------------------- MODULE ActorContract ----------------------------
(***************************************************************************)
(* What the runtime promises to the code of an actor and to those who send *)
(* to it, without a word about stacks, dummies, workers or locks: messages *)
(* are handed to the actor one at a time in the order they were accepted,  *)
(* an actor that waits is made runnable by the next message, it waits only *)
(* with an empty inbox, and when it dies every request still in its inbox  *)
(* or among the skipped messages gets a reply, as does every later one.    *)
(*                                                                         *)
(* Both ways the code has of running an actor implement this contract:     *)
(* ScheduledActor (jobs in the scheduler's queues) and DetachedActor (a    *)
(* thread of its own with a mutex and a condition variable).               *)
(***************************************************************************)
EXTENDS Naturals, Sequences, SequencesExt

CONSTANT Message  \* records with a Boolean field req

VARIABLES inbox,   \* accepted and not yet looked at, oldest first
          stash,   \* messages the actor has skipped
          mode,    \* what the runtime is doing with the actor
          replied  \* the number of replies sent for each message

vars == <<inbox, stash, mode, replied>>

Modes == {"unborn", "ready", "running", "waiting", "dead"}

Reply(ms) ==
  replied' = [m \in Message |->
                IF m \in ms /\ m.req THEN replied[m] + 1 ELSE replied[m]]

Init ==
  /\ inbox = <<>>
  /\ stash = {}
  /\ mode = "unborn"
  /\ replied = [m \in Message |-> 0]

(* A message is accepted by an actor that is not dead; it ends a wait.      *)
Accept(m) ==
  /\ mode # "dead"
  /\ inbox' = Append(inbox, m)
  /\ mode' = IF mode = "waiting" THEN "ready" ELSE mode
  /\ UNCHANGED <<stash, replied>>

(* A request to a dead actor is answered all the same.                      *)
Reject(m) ==
  /\ mode = "dead"
  /\ m.req /\ replied[m] = 0
  /\ Reply({m})
  /\ UNCHANGED <<inbox, stash, mode>>

Launch ==
  /\ mode = "unborn"
  /\ \/ mode' = "ready"
     \/ mode' = "waiting" /\ inbox = <<>>
  /\ UNCHANGED <<inbox, stash, replied>>

Run ==
  /\ mode = "ready"
  /\ mode' = "running"
  /\ UNCHANGED <<inbox, stash, replied>>

(* One message leaves the inbox: answered, skipped, or lost by a handler    *)
(* that threw; the actor goes on or is put back.                            *)
Consume ==
  /\ mode = "running"
  /\ inbox # <<>>
  /\ inbox' = Tail(inbox)
  /\ mode' \in {"running", "ready"}
  /\ \/ Reply({inbox[1]}) /\ UNCHANGED stash
     \/ UNCHANGED replied /\ stash' = stash \cup {inbox[1]}
     \/ UNCHANGED <<replied, stash>>

(* A skipped message is taken up again.                                     *)
Unstash ==
  /\ mode = "running"
  /\ \E m \in stash :
       /\ stash' = stash \ {m}
       /\ \/ Reply({m}) /\ mode' = mode
          \/ UNCHANGED replied /\ mode' \in {"running", "ready"}
  /\ UNCHANGED inbox

(* Only an actor with nothing to do waits.                                  *)
Wait ==
  /\ mode \in {"ready", "running"}
  /\ inbox = <<>>
  /\ mode' = "waiting"
  /\ UNCHANGED <<inbox, stash, replied>>

(* A wait with a time limit may end without a message.                      *)
GiveUp ==
  /\ mode = "waiting"
  /\ mode' = "running"
  /\ UNCHANGED <<inbox, stash, replied>>

Yield ==
  /\ mode = "running"
  /\ mode' = "ready"
  /\ UNCHANGED <<inbox, stash, replied>>

(* A dying actor first bounces what it has already fetched ...              *)
Flush ==
  /\ mode = "running"
  /\ \E k \in 1 .. Len(inbox) :
       /\ Reply(ToSet(SubSeq(inbox, 1, k)))
       /\ inbox' = SubSeq(inbox, k + 1, Len(inbox))
  /\ UNCHANGED <<stash, mode>>

(* ... and then, closing the inbox, all the rest.                           *)
Die ==
  /\ mode = "running"
  /\ mode' = "dead"
  /\ Reply(ToSet(inbox) \cup stash)
  /\ inbox' = <<>>
  /\ stash' = {}

Next ==
  \/ \E m \in Message : Accept(m) \/ Reject(m)
  \/ Launch \/ Run \/ Consume \/ Unstash \/ Wait \/ GiveUp \/ Yield \/ Flush \/ Die

Spec == Init /\ [][Next]_vars
=============================================================================
