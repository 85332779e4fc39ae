----------------------------- MODULE Prefixes -----------------------------
(***************************************************************************)
(* Longest-prefix matching of names, as psirp_fib_lookup (psirp.c:631) and *)
(* mesh_fib_lookup (mesh.c:213) do it on their tables.  A name is the      *)
(* sequence of its components.                                             *)
(***************************************************************************)
EXTENDS Naturals, Sequences, SequencesExt

\* psirp_name_is_prefix.
NameIsPrefix(prefix, name) == IsPrefix(prefix, name)

\* The slots of a table whose prefix matches; the empty prefix never beats
\* the initial best length of 0.
Matching(table, name) ==
  {k \in DOMAIN table : table[k].prefix # <<>> /\ NameIsPrefix(table[k].prefix, name)}

Longest(table, name) ==
  {k \in Matching(table, name) :
     \A l \in Matching(table, name) : Len(table[l].prefix) <= Len(table[k].prefix)}

\* The slot found: the first of the longest, 0 for no match.
LongestMatch(table, name) ==
  IF Longest(table, name) = {} THEN 0
  ELSE CHOOSE k \in Longest(table, name) : \A l \in Longest(table, name) : k <= l
============================================================================
