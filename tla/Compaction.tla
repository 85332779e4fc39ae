---------------------------- MODULE Compaction ----------------------------
(***************************************************************************)
(* What is left of an array after some of its elements are deleted and the *)
(* rest are shifted down in order, as mesh_remove_peer and mesh_remove_fib *)
(* do (mesh.c:120-142, 204-211), and where an element that stays moves to. *)
(***************************************************************************)
EXTENDS Integers, Sequences, FiniteSets

\* The new index of the element at i when the elements at `keep' stay.
Rank(keep, i) == Cardinality({j \in keep : j <= i})

\* The old index of the element that moves to k.
Origin(keep, k) == CHOOSE i \in keep : Rank(keep, i) = k

\* The array reduced to the elements at `keep', in order.
Compact(s, keep) == [k \in 1..Cardinality(keep) |-> s[Origin(keep, k)]]
============================================================================
