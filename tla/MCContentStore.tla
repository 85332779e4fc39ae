-------------------------- MODULE MCContentStore --------------------------
(* Small instances of ContentStore. *)
EXTENDS ContentStore

\* One base without a version and with one, and a second base.
TwoBases == {Path("a", 0, FALSE), Path("a", 1, TRUE), Path("b", 0, FALSE)}

\* One base without a version and with two.
TwoVersions == {Path("a", 0, FALSE), Path("a", 1, TRUE), Path("a", 2, TRUE)}
============================================================================
