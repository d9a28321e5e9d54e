------------------------------- MODULE Sending -------------------------------
(***************************************************************************)
(* The send function family: what a call checks at compile time and which  *)
(* mailbox element it hands to whom.  Contents are the types of a message; *)
(* a destination is [valid, sigs], sigs being empty if it is not typed.    *)
(***************************************************************************)
EXTENDS TypedActors

(* message_id, as its request counter and its three flags *)
message_id(n) == [n |-> n, response |-> FALSE, answered |-> FALSE, high |-> FALSE]
with_high_priority(mid) == [mid EXCEPT !.high = TRUE]
with_normal_priority(mid) == [mid EXCEPT !.high = FALSE]
make(prio) == IF prio = "high" THEN with_high_priority(message_id(0)) ELSE message_id(0)
is_request(mid) == mid.n # 0 /\ ~mid.response
response_id(mid) == IF is_request(mid) THEN [mid EXCEPT !.response = TRUE] ELSE message_id(0)

(* mailbox_element::make_joint and make_message convert what they store *)
token(xs) == tl_map(xs, [x \in ToSet(xs) |-> implicit_conversions(x)])
make_joint(sender, mid, xs) == [sender |-> sender, mid |-> mid, types |-> token(xs)]
mailbox_element(sender, mid, types) == [sender |-> sender, mid |-> mid, types |-> types]

(* What a call does: whether it compiles, throws, and what it enqueues     *)
(* where; via is "direct", or "timer" for delayed messages                 *)
Call(compiles, throws, out, via) ==
  [compiles |-> compiles, throws |-> throws, out |-> out, via |-> via]
IllFormed == Call(FALSE, FALSE, {}, "direct")
AsTyped(ok, call) == IF ok THEN call ELSE IllFormed

input_is(tk, s) == s.in = tk
check_typed_input(sigs, tk) ==
  /\ tl_find_if(tk, {plain("atom_value")}) = -1
  /\ tl_find_if(sigs, {s \in ToSet(sigs) : input_is(tk, s)}) >= 0
-----------------------------------------------------------------------------
(* members of local_actor *)
send_impl(self, mid, dest, xs) ==
  Call(TRUE, FALSE, IF dest.valid THEN {make_joint(self, mid, xs)} ELSE {}, "direct")
send_message_impl(self, mid, dest, what) ==
  Call(TRUE, FALSE, IF dest.valid THEN {mailbox_element(self, mid, what)} ELSE {}, "direct")
send(self, mp, dest, xs) == AsTyped(Len(xs) > 0, send_impl(self, make(mp), dest, xs))
send_typed(self, mp, dest, xs) ==
  AsTyped(check_typed_input(dest.sigs, token(xs)), send_impl(self, make(mp), dest, xs))
send_exit(self, dest, reason) == send(self, "high", dest, <<plain("exit_msg")>>)

(* the timer takes a request without looking at the destination *)
delayed_send_impl(self, mid, dest, xs) ==
  Call(TRUE, FALSE, {make_joint(self, mid, xs)}, "timer")
delayed_send(self, mp, dest, xs) == delayed_send_impl(self, make(mp), dest, xs)
delayed_send_typed(self, mp, dest, xs) ==
  AsTyped(check_typed_input(dest.sigs, token(xs)), delayed_send_impl(self, make(mp), dest, xs))

(* typed senders look at the replies as well *)
ReplyChecked(own, dest, xs) == sender_signature_checker(own, dest.sigs, token(xs), {})
typed_send(self, own, mp, dest, xs) ==
  AsTyped(ReplyChecked(own, dest, xs), send_typed(self, mp, dest, xs))
typed_delayed_send(self, own, mp, dest, xs) ==
  AsTyped(ReplyChecked(own, dest, xs), delayed_send_typed(self, mp, dest, xs))
broker_send(self, own, mp, dest, xs) ==
  AsTyped(ReplyChecked(own, dest, xs), send_typed(self, mp, dest, xs))
broker_delayed_send(self, own, mp, dest, xs) ==
  AsTyped(ReplyChecked(own, dest, xs), delayed_send_typed(self, mp, dest, xs))

(* send.hpp: under another identity, or none *)
send_as(from, prio, to, xs) ==
  Call(TRUE, FALSE, IF to.valid THEN {make_joint(from, make(prio), xs)} ELSE {}, "direct")
send_as_typed(from, prio, to, xs) ==
  AsTyped(check_typed_input(to.sigs, token(xs)), send_as(from, prio, to, xs))
anon_send(prio, to, xs) == send_as("invalid_actor", prio, to, xs)
anon_send_typed(prio, to, xs) ==
  AsTyped(check_typed_input(to.sigs, token(xs)), anon_send(prio, to, xs))
anon_send_exit(to, reason) == send_as("invalid_actor", "high", to, <<plain("exit_msg")>>)

(* Requests: the id counts up; the pending response is kept without the    *)
(* priority flag.  last is the id of the previous request.                 *)
new_request_id(last, mp) ==
  IF mp = "normal" THEN message_id(last + 1) ELSE with_high_priority(message_id(last + 1))
pending_response(last) == response_id(message_id(last + 1))
sync_send_impl(self, last, mp, dest, xs) ==
  IF dest.valid THEN send_impl(self, new_request_id(last, mp), dest, xs)
  ELSE Call(TRUE, TRUE, {}, "direct")
sync_send(self, last, mp, dest, xs) ==
  AsTyped(Len(xs) > 0, sync_send_impl(self, last, mp, dest, xs))
sync_send_typed(self, last, mp, dest, xs) ==
  AsTyped(Len(xs) > 0 /\ check_typed_input(dest.sigs, token(xs)),
          sync_send_impl(self, last, mp, dest, xs))

(* calls a member function no class has *)
timed_sync_send(self, last, mp, dest, xs) == IllFormed
timed_sync_send_typed(self, last, mp, dest, xs) == IllFormed

(* The message under processing goes on to another actor *)
Reprioritized(mid, mp) ==
  IF mp = "high" THEN with_high_priority(mid) ELSE with_normal_priority(mid)
delegate(cur, mp, dest, xs) ==
  AsTyped(Len(xs) > 0,
    Call(TRUE, FALSE, IF dest.valid THEN {[cur EXCEPT !.mid = Reprioritized(@, mp), !.types = token(xs)]}
                      ELSE {}, "direct"))
delegate_typed(cur, mp, dest, xs) ==
  AsTyped(check_typed_input(dest.sigs, token(xs)), delegate(cur, mp, dest, xs))
forward_current_message(cur, dest) == Call(TRUE, FALSE, IF dest.valid THEN {cur} ELSE {}, "direct")
forward_current_message_prio(cur, dest, prio) ==
  Call(TRUE, FALSE, IF dest.valid THEN {[cur EXCEPT !.mid = Reprioritized(@, prio)]} ELSE {}, "direct")

(* where an answer to the message under processing goes *)
get_response_id(cur) == IF is_request(cur.mid) THEN response_id(cur.mid) ELSE message_id(0)
make_response_promise(cur) == [to |-> cur.sender, id |-> response_id(cur.mid)]
-----------------------------------------------------------------------------
(* Whatever member of the family is used on a typed handle, what arrives   *)
(* is a message of its interface from the right sender with the priority   *)
(* that was asked for; exit messages have high priority; a typed sender is *)
(* never sent a reply that it does not handle; and the answer to a request *)
(* reaches the response handler of its sender, delegated or not, as long   *)
(* as the priority is normal.                                              *)
SendsSound(own, dest, xs, mp) ==
  LET typed == dest.sigs # <<>>
      last == 2
      asked == sync_send_typed("me", last, mp, dest, xs)
      calls == {send_typed("me", mp, dest, xs), delayed_send_typed("me", mp, dest, xs),
                send_as_typed("me", mp, dest, xs), anon_send_typed(mp, dest, xs), asked,
                timed_sync_send_typed("me", last, mp, dest, xs),
                typed_send("me", own, mp, dest, xs), typed_delayed_send("me", own, mp, dest, xs),
                broker_send("me", own, mp, dest, xs), broker_delayed_send("me", own, mp, dest, xs)}
      cur == make_joint("asker", message_id(7), xs)
      passed == {delegate_typed(cur, mp, dest, xs), forward_current_message(cur, dest),
                 forward_current_message_prio(cur, dest, mp)}
      untyped == {send("me", mp, dest, xs), delayed_send("me", mp, dest, xs), anon_send(mp, dest, xs),
                  send_message_impl("me", make(mp), dest, token(xs)), sync_send("me", last, mp, dest, xs),
                  timed_sync_send("me", last, mp, dest, xs)}
      exits == {send_exit("me", dest, "kill"), anon_send_exit(dest, "kill")}
  IN
  /\ \A c \in untyped : \A e \in c.out :
       /\ e.types = token(xs) /\ (e.mid.high <=> mp = "high")
       /\ c.via = "direct" => dest.valid
  /\ \A c \in exits : (c.out # {} <=> dest.valid) /\ \A e \in c.out : e.mid.high /\ ~is_request(e.mid)
  /\ typed =>
      /\ \A c \in calls : \A e \in c.out :
           /\ deduce_output_type(dest.sigs, e.types) # unsupported
           /\ e.mid.high <=> mp = "high"
           /\ e.sender \in {"me", "invalid_actor"}
           /\ c.via = "direct" => dest.valid
      /\ \A c \in {typed_send("me", own, mp, dest, xs), broker_delayed_send("me", own, mp, dest, xs)} :
           \A e \in c.out : \A r \in {deduce_output_type(dest.sigs, e.types).opt1,
                                     deduce_output_type(dest.sigs, e.types).opt2} :
             r \in {<<>>, <<void_t>>} \/ deduce_output_type(own, r) # unsupported
      /\ mp = "normal" => \A e \in asked.out :
           /\ make_response_promise(e) = [to |-> "me", id |-> pending_response(last)]
           /\ get_response_id(e) = pending_response(last)
      /\ mp = "normal" => \A c \in passed : \A e \in c.out :
           make_response_promise(e) = make_response_promise(cur)
      /\ ~dest.valid /\ asked.compiles => asked.throws
=============================================================================
