-------------------------------- MODULE Handles --------------------------------
(* The handle types: actor, actor_addr, channel, group and typed_actor each *)
(* wrap a reference-counted pointer; 0 is the null pointer. What a pointer  *)
(* refers to is given by `Object`: [id, node, kind, signatures].            *)
EXTENDS Integers, FiniteSets

CONSTANTS Object,      \* address -> the actor, proxy or group that lives there
          ThisNode     \* the node id of this process

Handle(kind, ptr) == [kind |-> kind, ptr |-> ptr, sigs |-> {}]
typed_actor(sigs, ptr) == [kind |-> "typed_actor", ptr |-> ptr, sigs |-> sigs]
actor(ptr) == Handle("actor", ptr)
actor_addr(ptr) == Handle("actor_addr", ptr)
channel(ptr) == Handle("channel", ptr)
group(ptr) == Handle("group", ptr)
Handles == {Handle(k, p) : k \in {"actor", "actor_addr", "channel"}, p \in {0} \cup DOMAIN Object}

valid(h) == h.ptr # 0
(* id() is 0 for an invalid handle, node() of an invalid address this node. *)
id(h) == IF valid(h) THEN Object[h.ptr].id ELSE 0
addr_node(h) == IF valid(h) THEN Object[h.ptr].node ELSE ThisNode
is_remote(h) == valid(h) /\ Object[h.ptr].node # ThisNode
address(h) == IF valid(h) THEN actor_addr(h.ptr) ELSE actor_addr(0)

(* is_convertible_to_actor: local actors, proxies and scoped actors, which  *)
(* typed actors are not.                                                    *)
is_convertible_to_actor(obj) == obj.kind \in {"local_actor", "actor_proxy", "scoped_actor"}
make_actor(ptr) == IF is_convertible_to_actor(Object[ptr]) THEN <<actor(ptr)>> ELSE <<>>

(* A typed handle is made from any that has its signatures. *)
typed_from(sigs, other) == IF sigs \subseteq other.sigs THEN <<typed_actor(sigs, other.ptr)>> ELSE <<>>
typed_from_impl(sigs, ptr) ==
  IF sigs \subseteq Object[ptr].signatures THEN <<typed_actor(sigs, ptr)>> ELSE <<>>
message_types(h) == h.sigs

channel_of(h) == channel(h.ptr)
actor_cast(kind, h) == Handle(kind, h.ptr)

(* compare of the handle types: differences of pointers; an actor and an    *)
(* address are compared by pointer arithmetic in units of an object's size. *)
compare_impl(lhs, rhs) == lhs - rhs
ObjectSize == 8
compare_actor_addr(a, b) == (a.ptr - b.ptr) \div ObjectSize
compare(h, g) ==
  IF h.kind = "actor" /\ g.kind = "actor_addr" THEN compare_actor_addr(h, g)
  ELSE compare_impl(h.ptr, g.ptr)
compare_typed(h, g) == compare_impl(address(h).ptr, address(g).ptr)
compare_with_invalid(h) == IF valid(h) THEN 1 ELSE 0

hash(h) == id(h)
-------------------------------------------------------------------------------
(* Handles of any two types are equal exactly when they denote the same     *)
(* actor, order the same way in both directions, and hash equally when      *)
(* equal; conversions keep what a handle denotes.                           *)
HandlesAgree(h, g) ==
  /\ compare(h, g) = 0 <=> h.ptr = g.ptr
  /\ compare(h, g) < 0 <=> compare(g, h) > 0
  /\ compare(h, g) = 0 => hash(h) = hash(g) /\ is_remote(h) = is_remote(g)
  /\ compare(h, actor_cast(g.kind, h)) = 0
  /\ compare(channel_of(h), h) = 0 /\ compare(address(h), h) = 0
  /\ compare_with_invalid(h) = 0 <=> compare(h, actor_addr(0)) = 0
  /\ is_remote(h) => addr_node(h) # ThisNode

(* No chain of conversions gives a typed handle to messages the actor does  *)
(* not handle, and a typed actor never becomes an untyped handle.           *)
NeverWidened(sigs1, sigs2, ptr) ==
  \A h \in {typed_from_impl(sigs1, ptr)} : h # <<>> =>
    LET g == typed_from(sigs2, h[1])
    IN /\ g # <<>> => /\ message_types(g[1]) \subseteq Object[ptr].signatures
                      /\ compare_typed(g[1], h[1]) = 0
       /\ sigs1 # {} => make_actor(ptr) = <<>>
===============================================================================
