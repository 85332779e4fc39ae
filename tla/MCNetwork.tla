----------------------------- MODULE MCNetwork -----------------------------
(* A small instance of Network: a client, a relay and a publisher. *)
EXTENDS Network

CONSTANTS client, relay, origin

Three == {client, relay, origin}

Page == <<"site", "page">>

\* The relay knows a way for the site and a better one for the page.
RelayFib ==
  [n \in Three |->
     IF n = relay THEN <<[prefix |-> <<"site">>, peer |-> client],
                         [prefix |-> Page, peer |-> origin],
                         [prefix |-> Append(Page, "x"), peer |-> client]>>
                  ELSE <<>>]

\* The client and the publisher know the relay, the relay knows the client: content can
\* go round between those two.
RelayPeers == [n \in Three |-> IF n = relay THEN {client} ELSE {relay}]
============================================================================
