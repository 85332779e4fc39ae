------------------------------ MODULE Network ------------------------------
(***************************************************************************)
(* Several network nodes (net.c) that pass one another Interests and Data: *)
(* a receiver thread answers an Interest from its content store or sends   *)
(* an Interest of its own along its FIB, and stores the Data it gets; no   *)
(* one sends Data back to where the Interest came from.                    *)
(*                                                                         *)
(* The network is UDP: a packet on its way may be delivered, again and     *)
(* again, late and out of order, or be lost.                               *)
(*                                                                         *)
(* Data abstraction.  One name is followed through the network.  Time is   *)
(* what has passed: a copy has the ticks since it was stored, which is all *)
(* its node knows, and two history fields, the ticks since its content was *)
(* published and the hops it has made.  How a fetch waits is the matter of *)
(* FetchNode; here it sends its Interests and may be called again.         *)
(***************************************************************************)
EXTENDS Integers, Sequences, FiniteSets, Prefixes

CONSTANTS
  Nodes,        \* the nodes, which are also their addresses
  Name,         \* the name followed
  Fib,          \* each node's FIB: prefixes and the nodes they lead to
  Peers,        \* each node's known peers
  Publishers,   \* the nodes that publish content under the name
  Clients,      \* the nodes that fetch it
  Lifetimes,    \* the freshness_ms values publishers pass, 0 = forever
  MaxTransit,   \* the ticks Data may be on its way
  MaxPackets,   \* bound: Data on one link; a full link loses some
  MaxHops,      \* bound: the hops of a copy
  MaxPublish    \* bound: the contents published

ASSUME NetworkAssumption ==
  /\ Publishers \subseteq Nodes /\ Clients \subseteq Nodes
  /\ Peers \in [Nodes -> SUBSET Nodes]
  /\ Fib \in [Nodes -> Seq([prefix : Seq(STRING), peer : Nodes])]
  /\ Lifetimes \subseteq Nat /\ MaxTransit \in Nat /\ MaxHops \in Nat
  /\ MaxPackets \in Nat /\ MaxPublish \in Nat

VARIABLES
  copy,         \* each node's content store entry for the name
  interests,    \* the Interests on their way
  data,         \* the Data on its way
  published     \* history: how often content was published

vars == <<copy, interests, data, published>>

----------------------------------------------------------------------------
(* Copies and packets *)

\* The greatest age a copy with the hops may have while it is fresh.
AgeLimit(hops, life) == (hops + 1) * life + hops * MaxTransit

None == [life |-> 0, since |-> -1, age |-> 0, hops |-> 0]

\* Mutation: a stored entry is used whatever its age.
Stored(c) == c # None

\* An entry that psirp_cs_lookup returns.
Alive(c) == c # None /\ (c.life = 0 \/ c.since <= c.life)

Interest(from, to) == [from |-> from, to |-> to]
Data(from, to, c) == [from |-> from, to |-> to, transit |-> 0, copy |-> c]

Link(from, to) == {p \in data : p.from = from /\ p.to = to}

\* Data is sent to several nodes at once; what is on a full link gives way.
SendData(sent) ==
  \E lost \in SUBSET data :
    /\ \A p \in lost : \E q \in sent : p \in Link(q.from, q.to)
    /\ \A q \in sent :
         Cardinality(lost \cap Link(q.from, q.to)) =
           (IF Cardinality(Link(q.from, q.to)) = MaxPackets THEN 1 ELSE 0)
    /\ data' = (data \ lost) \cup sent

\* Data carries the entry's lifetime and not what is left of it; the timestamp it
\* carries too is not looked at by the receiver.  The hops of content that lives forever
\* are not told apart.
OnTheWay(c) ==
  [c EXCEPT !.since = 0, !.hops = IF c.life = 0 THEN MaxHops ELSE @ + 1]

----------------------------------------------------------------------------

Init ==
  /\ copy = [n \in Nodes |-> None]
  /\ interests = {}
  /\ data = {}
  /\ published = 0

\* psirp_net_publish: the content is stored and pushed to the peers.
Publish(n, life) ==
  LET c == [life |-> life, since |-> 0, age |-> 0, hops |-> 0]
  IN  /\ published < MaxPublish
      /\ published' = published + 1
      /\ copy' = [copy EXCEPT ![n] = c]
      /\ SendData({Data(n, m, OnTheWay(c)) : m \in Peers[n]})
      /\ UNCHANGED interests

\* psirp_net_fetch without a live entry: an Interest to every peer.  Without peers
\* the Interest goes to the multicast group, where every receiver drops it: from
\* that socket only PUBLISH packets are taken.
Fetch(n) ==
  /\ ~Alive(copy[n])
  /\ interests' = interests \cup {Interest(n, m) : m \in Peers[n]}
  /\ UNCHANGED <<copy, data, published>>

\* The node an Interest is forwarded to: psirp_fib_lookup.
NextHop(n) == LongestMatch(Fib[n], Name)

\* The receiver answers an Interest with Data to its sender.
Answer(p) ==
  /\ p \in interests /\ Alive(copy[p.to])
  /\ copy[p.to].life > 0 => copy[p.to].hops < MaxHops
  /\ SendData({Data(p.to, p.from, OnTheWay(copy[p.to]))})
  /\ UNCHANGED <<copy, interests, published>>

\* It has no answer: a new Interest, in its own name, goes to the FIB's node, or
\* none if there is no route.
Forward(p) ==
  /\ p \in interests /\ ~Alive(copy[p.to])
  /\ LET hop == NextHop(p.to)
     IN  interests' = interests \cup
           (IF hop = 0 THEN {} ELSE {Interest(p.to, Fib[p.to][hop].peer)})
  /\ UNCHANGED <<copy, data, published>>

\* Mutation: a name already in the store is left as it is.
KeepOld(old, new) == IF old = None THEN new ELSE old

\* psirp_cs_store: what was there is replaced, newer or not, and the lifetime
\* starts again.
Replace(old, new) == new

ReceiveData(p) ==
  /\ p \in data
  /\ copy' = [copy EXCEPT ![p.to] = Replace(@, p.copy)]
  /\ UNCHANGED <<interests, data, published>>

Lose ==
  /\ \/ \E p \in interests : interests' = interests \ {p} /\ UNCHANGED data
     \/ \E p \in data : data' = data \ {p} /\ UNCHANGED interests
  /\ UNCHANGED <<copy, published>>

\* Time passes: entries age until they expire, and Data that has been on its way for
\* too long is gone.
Older(c) ==
  IF Alive(c) /\ c.life > 0 THEN [c EXCEPT !.since = @ + 1, !.age = @ + 1] ELSE c

Tick ==
  /\ copy' = [n \in Nodes |-> Older(copy[n])]
  /\ data' = {[p EXCEPT !.transit = @ + 1, !.copy.age = Older(p.copy).age] :
                p \in {q \in data : q.transit < MaxTransit}}
  /\ UNCHANGED <<interests, published>>

Next ==
  \/ \E n \in Publishers, l \in Lifetimes : Publish(n, l)
  \/ \E n \in Clients : Fetch(n)
  \/ \E p \in interests : Answer(p) \/ Forward(p)
  \/ \E p \in data : ReceiveData(p)
  \/ Lose
  \/ Tick

Spec == Init /\ [][Next]_vars

\* A client asks again and again, and time goes on.  Every receiver thread runs, and
\* not everything is lost: of what is sent to a node again and again its receiver
\* gets something in the end.
FairSpec ==
  /\ Spec
  /\ \A n \in Clients : WF_vars(Fetch(n))
  /\ \A n \in Nodes :
       /\ SF_vars(\E p \in interests : p.to = n /\ (Answer(p) \/ Forward(p)))
       /\ SF_vars(\E p \in data : p.to = n /\ ReceiveData(p))
  /\ WF_vars(Tick)

----------------------------------------------------------------------------
(* Properties *)

\* Content is used for longer than its freshness, because every node starts the
\* lifetime again when it stores the Data (psirp.c:374, net.c:197); but each hop
\* adds no more than one lifetime and one transit, since only live entries are
\* answered with (net.c:161, psirp.c:352).
AgeBoundedByHops ==
  \A n \in Nodes :
    LET c == copy[n] IN Alive(c) /\ c.life > 0 => c.age <= AgeLimit(c.hops, c.life)

\* Data is not sent back beyond the first hop, but a client that keeps asking is
\* answered: each try is forwarded one hop further than the Data has come
\* (net.c:158-185), whatever is lost, repeated or late, and whatever expired
\* copies are in the way.
RetryReaches ==
  \A n \in Clients :
    (<>[](\E m \in Publishers : Alive(copy[m]) /\ copy[m].life = 0 /\ copy[m].hops = 0)) => []<>Alive(copy[n])
============================================================================
