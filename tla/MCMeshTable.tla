--------------------------- MODULE MCMeshTable ---------------------------
(* Small instances of MeshTable. *)
EXTENDS MeshTable, TLC

CONSTANTS p1, p2, x, y

\* No prefix, one, two, one twice, and one more than MaxPrefixes.
MCPrefixLists == {<<>>, <<x>>, <<x, y>>, <<y, y>>, <<y, x, x>>}

Symmetry == Permutations({p1, p2})
============================================================================
