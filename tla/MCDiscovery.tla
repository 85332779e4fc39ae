---------------------------- MODULE MCDiscovery ----------------------------
(* A small instance of Discovery: three nodes, two names. *)
EXTENDS Discovery, Bitwise

Three == {1, 2, 3}

\* Two names, of one and of two components.
TwoNames == {<<"s">>, <<"s", "p">>}

\* Node 1 has no route, node 2 a route for both names that its peer's state
\* blocks for the longer one, node 3 no route.
TwoRoutes ==
  [n \in Three |->
     IF n = 2 THEN <<[prefix |-> <<"s">>, state |-> "connected"],
                     [prefix |-> <<"s", "p">>, state |-> "discovered"]>>
              ELSE <<>>]

\* Node 2's network node knows node 3, the others no one.
OneNeighbour == [n \in Three |-> IF n = 2 THEN {3} ELSE {}]

\* Node 1 holds the shorter name, node 3 both.
SomeHeld == [n \in Three |-> IF n = 1 THEN {<<"s">>} ELSE IF n = 3 THEN TwoNames ELSE {}]

\* dht_distance: the exclusive or of a name's hash and an address' id.
XorDist == [p \in TwoNames \X Three |-> Len(p[1]) ^^ p[2]]
============================================================================
