----------------------------- MODULE Discovery -----------------------------
(***************************************************************************)
(* Finding content by its name: the DHT's records and peer table (dht.c),  *)
(* publish/subscribe (pubsub.c), and mesh_forward_interest (mesh.c:401),   *)
(* which consults both its FIB and the DHT.  Each node calls the functions *)
(* in any order; records travel from one node to another as copies that    *)
(* may be late, lost or delivered twice.                                   *)
(*                                                                         *)
(* Data abstraction.  A name is its components and stands for its hash; an *)
(* address is the node that has it.  Keys of peers are left out.           *)
(***************************************************************************)
EXTENDS Integers, Sequences, FiniteSets, Compaction, Prefixes

CONSTANTS
  Nodes,            \* the nodes, which are also their addresses
  Names,            \* content names and topics
  Fib,              \* each node's mesh routes: a prefix and its peer's state
  Neighbours,       \* the nodes each node's psirp_net_fetch asks
  Nonces,           \* nonces of interests
  Versions,         \* versions of topics
  MaxRecords,       \* records of a dht_node
  MaxHolders,       \* DHT_MAX_HOLDERS
  MaxTopics,        \* PUBSUB_MAX_TOPICS
  MaxSeen,          \* MESH_INTEREST_CACHE
  MaxDhtPeers,      \* DHT_MAX_PEERS
  Dist,             \* dht_distance of a name and an address
  Publishers,       \* the nodes that publish and subscribe
  Askers,           \* the nodes that forward interests for content they lack
  Routers,          \* the nodes that learn DHT peers
  Initially,        \* the names each node's content store holds at first
  MaxSent,          \* bound: the copies of records on their way
  MaxCalls          \* bound: the calls of a behaviour

ASSUME DiscoveryAssumption ==
  /\ Publishers \subseteq Nodes /\ Askers \subseteq Nodes /\ Routers \subseteq Nodes
  /\ Versions \subseteq Nat
  /\ MaxRecords \in Nat /\ MaxHolders \in Nat \ {0} /\ MaxTopics \in Nat
  /\ MaxSeen \in Nat /\ MaxDhtPeers \in Nat \ {0} /\ MaxSent \in Nat /\ MaxCalls \in Nat
  /\ Dist \in [Names \X Nodes -> Nat]

VARIABLES
  held,         \* the names each node's content store holds
  records,      \* each node's DHT records
  sent,         \* copies of records on their way, for ever
  peers,        \* each node's DHT peer table
  topics,       \* each node's topics
  seen,         \* each node's interest dedup cache
  calls,        \* history: the number of calls so far
  announced,    \* history: the name/holder pairs a holder itself announced
  accepted,     \* history: the versions each node's publish accepted
  forwarded,    \* history: the nonces each node sent on
  again         \* history: the nonces each node sent on more than once

vars == <<held, records, sent, peers, topics, seen, calls, announced, accepted,
          forwarded, again>>

First(S) == CHOOSE i \in S : \A j \in S : i <= j

----------------------------------------------------------------------------
(* Content records *)

Record == [name : Names, holders : Seq(Nodes)]

\* find_record, 0 for NULL.
FindRecord(table, name) ==
  LET found == {k \in DOMAIN table : table[k].name = name}
  IN  IF found = {} THEN 0 ELSE First(found)

\* Mutation: the last place of the record table is never used.
WithRecordShort(table, name) ==
  IF FindRecord(table, name) # 0 \/ Len(table) >= MaxRecords - 1 THEN table
  ELSE Append(table, [name |-> name, holders |-> <<>>])

\* The record is appended unless it is there or the table is full.
WithRecord(table, name) ==
  IF FindRecord(table, name) # 0 \/ Len(table) >= MaxRecords THEN table
  ELSE Append(table, [name |-> name, holders |-> <<>>])

HolderSet(holders) == {holders[i] : i \in DOMAIN holders}

\* A list with newcomers behind it, cut off at MaxHolders.
Extended(holders, more) ==
  LET all == holders \o more
  IN  SubSeq(all, 1, IF Len(all) <= MaxHolders THEN Len(all) ELSE MaxHolders)

\* Mutation: the newcomers are not looked for in the list.
MergeAll(holders, more) == Extended(holders, more)

\* dht_announce of each of `more' in turn: those not present are appended as
\* long as there is room.
Merge(holders, more) ==
  LET fresh == {i \in DOMAIN more : more[i] \notin HolderSet(holders)}
  IN  Extended(holders, Compact(more, fresh))

\* Mutation: the copy replaces the list.
Overwritten(table, name, more) ==
  LET grown == WithRecord(table, name)
      k     == FindRecord(grown, name)
  IN  IF k = 0 THEN grown ELSE [grown EXCEPT ![k].holders = Extended(<<>>, more)]

\* Mutation: a record without a place of its own goes into the last one.
PutLast(table, name, more) ==
  LET grown == WithRecord(table, name)
  IN  [grown EXCEPT ![Len(grown)].holders = Merge(@, more)]

\* dht_put_record; dht_announce is the case of one holder.
PutInto(table, name, more) ==
  LET grown == WithRecord(table, name)
      k     == FindRecord(grown, name)
  IN  IF k = 0 THEN grown ELSE [grown EXCEPT ![k].holders = Merge(@, more)]

Announced(table, name, node) == PutInto(table, name, <<node>>)

\* dht_lookup.
Lookup(table, name) ==
  LET k == FindRecord(table, name) IN IF k = 0 THEN {} ELSE HolderSet(table[k].holders)

----------------------------------------------------------------------------
(* DHT peers *)

DhtPeer == [addr : Nodes, alive : BOOLEAN]

SlotsOf(table, addr) == {i \in DOMAIN table : table[i].addr = addr}

\* Mutation: in a full table the first peer makes room, dead or not.
AnyPeers(table) == DOMAIN table

DeadPeers(table) == {i \in DOMAIN table : ~table[i].alive}

\* dht_add_peer: the tables it may leave.  A known peer is alive again, another is
\* appended, in a full table only in the place of a dead one.
TablesWith(table, addr) ==
  LET p == [addr |-> addr, alive |-> TRUE]
  IN  IF SlotsOf(table, addr) # {}
        THEN {[table EXCEPT ![First(SlotsOf(table, addr))] = p]}
      ELSE IF Len(table) < MaxDhtPeers
        THEN {Append(table, p)}
      ELSE IF DeadPeers(table) # {}
        THEN {Append(Compact(table, DOMAIN table \ {i}), p) : i \in DeadPeers(table)}
      ELSE {table}

\* Mutation: the search for the nearest peer leaves out the last one.
BestShort(order, i, d) ==
  First({j \in i..Len(order) : \A l \in i..Len(order)-1 : d[order[j]] <= d[order[l]]})

\* The first of the nearest peers from position i on.
Best(order, i, d) ==
  First({j \in i..Len(order) : \A l \in i..Len(order) : d[order[j]] <= d[order[l]]})

Swapped(order, i, j) == [order EXCEPT ![i] = order[j], ![j] = order[i]]

\* dht_closest_peers: the selection sort over the slots of live peers, cut off.
ClosestPeers(table, target, outMax) ==
  LET d     == [i \in DOMAIN table |-> Dist[target, table[i].addr]]
      live  == Compact([i \in DOMAIN table |-> i], {i \in DOMAIN table : table[i].alive})
      order == FoldLeftDomain(LAMBDA o, i : Swapped(o, i, Best(o, i, d)), live, live)
      m     == IF Len(live) <= outMax THEN Len(live) ELSE outMax
  IN  [a \in 1..m |-> order[a]]

----------------------------------------------------------------------------
(* Topics *)

Topic == [base : Names, highest : Nat]

\* find_topic, 0 for NULL.
FindTopic(table, base) ==
  LET found == {k \in DOMAIN table : table[k].base = base}
  IN  IF found = {} THEN 0 ELSE First(found)

\* pubsub_subscribe.
Subscribed(table, base) ==
  IF FindTopic(table, base) # 0 \/ Len(table) >= MaxTopics THEN table
  ELSE Append(table, [base |-> base, highest |-> 0])

\* Mutation: any version but the last one is taken for a newer one.
Other(table, base, v) ==
  LET k == FindTopic(table, base)
  IN  IF k = 0 THEN Len(table) < MaxTopics ELSE v # table[k].highest

\* Whether pubsub_publish accepts a version, and the topics it then leaves.
Newer(table, base, v) ==
  LET k == FindTopic(table, base)
  IN  IF k = 0 THEN Len(table) < MaxTopics ELSE v > table[k].highest

Published(table, base, v) ==
  LET k == FindTopic(table, base)
  IN  IF k = 0 THEN Append(table, [base |-> base, highest |-> v])
      ELSE [table EXCEPT ![k].highest = v]

\* pubsub_poll: the version it answers with, 0 for none; the DHT is asked, but its
\* answer not used.
Polled(table, base) ==
  LET k == FindTopic(table, base) IN IF k = 0 THEN 0 ELSE table[k].highest

----------------------------------------------------------------------------
(* The calls *)

Init ==
  /\ held = Initially
  /\ records = [n \in Nodes |-> <<>>]
  /\ sent = {}
  /\ peers = [n \in Nodes |-> <<>>]
  /\ topics = [n \in Nodes |-> <<>>]
  /\ seen = [n \in Nodes |-> <<>>]
  /\ calls = 0
  /\ announced = {}
  /\ accepted = [n \in Nodes |-> [x \in Names |-> {}]]
  /\ forwarded = [n \in Nodes |-> {}]
  /\ again = [n \in Nodes |-> {}]

\* The content enters or leaves the node's store.
Store(n, x) ==
  /\ x \notin held[n]
  /\ held' = [held EXCEPT ![n] = @ \cup {x}]
  /\ UNCHANGED <<records, sent, peers, topics, seen, announced, accepted, forwarded, again>>

Drop(n, x) ==
  /\ x \in held[n]
  /\ held' = [held EXCEPT ![n] = @ \ {x}]
  /\ UNCHANGED <<records, sent, peers, topics, seen, announced, accepted, forwarded, again>>

\* pubsub_publish: an accepted version is announced under the topic's own name.
Publish(n, x, v) ==
  /\ IF Newer(topics[n], x, v)
       THEN /\ topics' = [topics EXCEPT ![n] = Published(@, x, v)]
            /\ records' = [records EXCEPT ![n] = Announced(@, x, n)]
            /\ announced' = announced \cup {<<x, n>>}
            /\ accepted' = [accepted EXCEPT ![n][x] = @ \cup {v}]
       ELSE UNCHANGED <<topics, records, announced, accepted>>
  /\ UNCHANGED <<held, sent, peers, seen, forwarded, again>>

Subscribe(n, x) ==
  /\ topics' = [topics EXCEPT ![n] = Subscribed(@, x)]
  /\ UNCHANGED <<held, records, sent, peers, seen, announced, accepted, forwarded, again>>

\* dht_get_record of one node, carried to another: a copy of the record as it is.
SendRecord(n, k) ==
  /\ k \in DOMAIN records[n]
  /\ Cardinality(sent) < MaxSent
  /\ sent' = sent \cup {records[n][k]}
  /\ UNCHANGED <<held, records, peers, topics, seen, announced, accepted, forwarded, again>>

\* dht_put_record of a copy, which stays on its way.
PutRecord(n, rec) ==
  /\ records' = [records EXCEPT ![n] = PutInto(@, rec.name, rec.holders)]
  /\ UNCHANGED <<held, sent, peers, topics, seen, announced, accepted, forwarded, again>>

AddPeer(n, addr) ==
  /\ \E table \in TablesWith(peers[n], addr) : peers' = [peers EXCEPT ![n] = table]
  /\ UNCHANGED <<held, records, sent, topics, seen, announced, accepted, forwarded, again>>

----------------------------------------------------------------------------
(* mesh_forward_interest *)

\* 1. Held locally: the node announces itself as a holder and answers.
ForwardHit(n, x) ==
  /\ x \in held[n]
  /\ records' = [records EXCEPT ![n] = Announced(@, x, n)]
  /\ announced' = announced \cup {<<x, n>>}
  /\ UNCHANGED <<held, sent, peers, topics, seen, accepted, forwarded, again>>

\* 2. Seen before: dropped.
ForwardSeen(n, x, nonce) ==
  /\ x \notin held[n]
  /\ nonce \in HolderSet(seen[n])
  /\ UNCHANGED <<held, records, sent, peers, topics, seen, announced, accepted, forwarded,
                 again>>

\* Mutation: the last place of the dedup cache is never used.
RememberShort(cache, nonce) ==
  IF Len(cache) < MaxSeen - 1 THEN Append(cache, nonce) ELSE cache

\* The dedup cache takes the nonce if there is room; nothing ever leaves it.
Remember(cache, nonce) == IF Len(cache) < MaxSeen THEN Append(cache, nonce) ELSE cache

\* 4. The mesh route, whose peer must be connected; without a route the holders
\* the DHT knows.  The FIB's peer itself is not asked: psirp_net_fetch asks the
\* node's own neighbours in either case.
Asked(n, x) ==
  LET route == LongestMatch(Fib[n], x)
  IN  IF route = 0
        THEN IF Lookup(records[n], x) = {} THEN {}
             ELSE Lookup(records[n], x) \cup Neighbours[n]
        ELSE IF Fib[n][route].state = "connected" THEN Neighbours[n] ELSE {}

\* 2-5. A new interest is remembered, even when its TTL is used up or it has
\* nowhere to go; otherwise it is sent, and the content arrives in time, or not.
ForwardNew(n, x, ttl, nonce, arrives) ==
  /\ x \notin held[n]
  /\ nonce \notin HolderSet(seen[n])
  /\ seen' = [seen EXCEPT ![n] = Remember(@, nonce)]
  /\ LET asked == IF ttl = 0 THEN {} ELSE Asked(n, x)
     IN  /\ arrives => \E m \in asked : x \in held[m]
         /\ held' = IF arrives THEN [held EXCEPT ![n] = @ \cup {x}] ELSE held
         /\ IF asked = {} THEN UNCHANGED <<forwarded, again>>
            ELSE /\ forwarded' = [forwarded EXCEPT ![n] = @ \cup {nonce}]
                 /\ again' = [again EXCEPT ![n] = IF nonce \in forwarded[n]
                                                    THEN @ \cup {nonce} ELSE @]
  /\ UNCHANGED <<records, sent, peers, topics, announced, accepted>>

----------------------------------------------------------------------------

Next ==
  /\ calls < MaxCalls /\ calls' = calls + 1
  /\ \/ \E n \in Nodes, x \in Names : Store(n, x) \/ Drop(n, x) \/ ForwardHit(n, x)
     \/ \E n \in Publishers, x \in Names :
          Subscribe(n, x) \/ \E v \in Versions : Publish(n, x, v)
     \/ \E n \in Askers, x \in Names, nonce \in Nonces :
          \/ ForwardSeen(n, x, nonce)
          \/ \E ttl \in {0, 1}, arrives \in BOOLEAN : ForwardNew(n, x, ttl, nonce, arrives)
     \/ \E n \in Nodes, k \in 1..MaxRecords : SendRecord(n, k)
     \/ \E n \in Nodes, rec \in sent : PutRecord(n, rec)
     \/ \E n \in Routers, addr \in Nodes : AddPeer(n, addr)

Spec == Init /\ [][Next]_vars

----------------------------------------------------------------------------
(* Properties *)

\* A holder list names each holder once and keeps to its size.
ListSound(rec) ==
  /\ Len(rec.holders) <= MaxHolders
  /\ \A i, j \in DOMAIN rec.holders : rec.holders[i] = rec.holders[j] => i = j

\* Records are well formed at every node and on their way, one for each name:
\* merging late, old and repeated copies in any order (dht.c:146-158) brings
\* neither a holder twice nor a record twice, so a list of DHT_MAX_HOLDERS slots
\* is used up by that many different holders only.
RecordsSound ==
  /\ records \in [Nodes -> Seq(Record)]
  /\ sent \subseteq Record
  /\ \A n \in Nodes :
       /\ Len(records[n]) <= MaxRecords
       /\ \A k \in DOMAIN records[n] : ListSound(records[n][k])
       /\ \A k, l \in DOMAIN records[n] : records[n][k].name = records[n][l].name => k = l
  /\ \A rec \in sent : ListSound(rec)

\* Whoever is listed as a holder, at whatever node and through whatever chain of
\* merges, announced that name itself (pubsub.c:50-54, mesh.c:410-413).
HoldersAnnounced ==
  /\ \A n \in Nodes : \A k \in DOMAIN records[n] :
       \A h \in HolderSet(records[n][k].holders) : <<records[n][k].name, h>> \in announced
  /\ \A rec \in sent : \A h \in HolderSet(rec.holders) : <<rec.name, h>> \in announced

\* No merge or announcement costs a holder its place, however old the copy that
\* is merged: a node that was found stays findable (dht.c:139-143, 156).
HoldersKept ==
  [][\A n \in Nodes, x \in Names : Lookup(records[n], x) \subseteq Lookup(records'[n], x)]_vars

\* A version that publish reports as accepted has made its node findable under
\* the topic, although dht_announce returns nothing: the exceptions are a full
\* record table (dht.c:131) and a full holder list (dht.c:140), for good.
PublishedIsFindable ==
  \A n \in Nodes, x \in Names :
    accepted[n][x] # {} =>
      LET k == FindRecord(records[n], x)
      IN  \/ n \in Lookup(records[n], x)
          \/ k = 0 /\ Len(records[n]) = MaxRecords
          \/ k # 0 /\ Len(records[n][k].holders) = MaxHolders

\* There is one topic for a name, and its version is the newest one accepted,
\* whatever subscriptions and rejected versions came in between
\* (pubsub.c:26-48, 59-62); a poll answers with it.
TopicsTruthful ==
  /\ \A n \in Nodes, x \in Names :
       LET found == {k \in DOMAIN topics[n] : topics[n][k].base = x}
       IN  /\ Cardinality(found) <= 1
           /\ accepted[n][x] # {} => found # {}
           /\ \A k \in found :
                /\ topics[n][k].highest \in accepted[n][x] \cup {0}
                /\ \A v \in accepted[n][x] : v <= topics[n][k].highest
  /\ \A n \in Publishers, x \in Names :
       Polled(topics[n], x) # 0 => Polled(topics[n], x) \in accepted[n][x]

\* An interest with the same nonce is sent on twice by a node only if the dedup
\* cache, which is never cleared, was full when it came first (mesh.c:416-430).
\* It is no promise about loops between nodes: every hop sends the interest under
\* a nonce of its own (net.c:265, mesh_demo.c:86).
ForwardedOnce ==
  \A n \in Nodes : again[n] # {} =>
    Len(seen[n]) = MaxSeen /\ again[n] \cap HolderSet(seen[n]) = {}

\* A peer once in the table stays there: a full table looks for a dead peer to
\* evict, and a newcomer never takes the place of a live one (dht.c:57-70).
PeersStay ==
  [][\A n \in Nodes : \A i \in DOMAIN peers[n] :
       \E j \in DOMAIN peers'[n] : peers'[n][j].addr = peers[n][i].addr]_vars

\* The selection sort returns what its name says: distinct live peers in order
\* of distance, as many as there are or are wanted, none nearer left out
\* (dht.c:89-116).
ClosestIsNearest ==
  \A n \in Nodes, x \in Names : \A outMax \in 1..MaxDhtPeers :
    LET table == peers[n]
        out   == ClosestPeers(table, x, outMax)
        D(i)  == Dist[x, table[i].addr]
    IN  /\ Len(out) = IF Len(table) <= outMax THEN Len(table) ELSE outMax
        /\ \A a, b \in DOMAIN out : a < b => out[a] # out[b] /\ D(out[a]) <= D(out[b])
        /\ \A i \in DOMAIN table \ HolderSet(out) : \A a \in DOMAIN out : D(out[a]) <= D(i)
============================================================================
