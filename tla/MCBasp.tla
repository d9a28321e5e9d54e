------------------------------ MODULE MCBasp ------------------------------
(* Instances of Basp for TLC. *)
EXTENDS Basp, TLC

CONSTANTS n1, n2, n3, s1, s2, s3

\* one actor per node, which also plays the spawn server; n2 publishes its actor
MCHome == [a \in Actor |-> CASE a = s1 -> n1 [] a = s2 -> n2 [] a = s3 -> n3]
MCSpawner == [n \in Node |-> CASE n = n1 -> s1 [] n = n2 -> s2 [] n = n3 -> s3]
MCPublished == [n \in Node |-> IF n = n2 THEN s2 ELSE NoActor]
MCRank == [n \in Node \cup {NoNode} |->
             CASE n = NoNode -> 0 [] n = n1 -> 1 [] n = n2 -> 2 [] n = n3 -> 3]
MCDialsLine == {<<n1, n2>>, <<n3, n2>>, <<n1, n3>>}

\* n1 may dial n3, which it hears of from n2, once the other two are
\* connected; each pair is dialled once
Dialled == {ends[c] : c \in Conn} \ {<<>>}
DialOnce ==
  /\ \A c, d \in Conn : c # d /\ ends[c] # <<>> => ends[c] # ends[d]
  /\ <<n1, n3>> \in Dialled => Dialled = Dials

\* a behaviour has a cut connection or a terminated actor
OneFault == faults = 0 \/ dead = {}

Symmetry == Permutations(Conn)
=============================================================================
