---------------------------- MODULE MCMeshDemo ----------------------------
(* A small instance of MeshDemo. *)
EXTENDS MeshDemo

CONSTANT x

MCPrefixLists == {<<x>>}
============================================================================
