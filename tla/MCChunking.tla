---------------------------- MODULE MCChunking ----------------------------
(* A small instance of Chunking. *)
EXTENDS Chunking

CONSTANTS Objects, Versions

\* The objects' names, without a version and with one.
ObjectPaths == {Path(<<o>>, v, v # 0) : o \in Objects, v \in Versions}

\* Objects are interchangeable.
ObjectSymmetry == Permutations(Objects)
============================================================================
