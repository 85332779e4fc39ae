---------------------------- MODULE MeshProofs ----------------------------
(***************************************************************************)
(* MeshInv is an inductive invariant of the mesh tables, for every number  *)
(* of peers, routes and prefixes and every capacity.                       *)
(***************************************************************************)
EXTENDS MeshTable, TableLemmas, SequenceTheorems

\* The first slot of a scan is one of the slots it found.
LEMMA FirstOfType ==
  ASSUME NEW n \in Nat, NEW S \in SUBSET (1..n), S # {}
  PROVE  FirstOf(S) \in S
<1>1. IsFiniteSet(S) /\ Cardinality(S) \in Nat
  BY KeepFinite
<1>2. Cardinality(S) # 0
  BY <1>1, FS_EmptySet
<1>3. 1 \in 1..Cardinality(S)
  BY <1>1, <1>2
<1>4. PICK i \in S : Rank(S, i) = 1
  BY <1>3, RankOnto
<1>5. ASSUME NEW j \in S PROVE i <= j
  <2> SUFFICES ASSUME j < i PROVE FALSE
    OBVIOUS
  <2>1. Rank(S, j) < Rank(S, i)
    BY RankIncreases
  <2>2. Rank(S, j) \in 1..Cardinality(S)
    BY RankType
  <2> QED
    BY <1>1, <1>4, <2>1, <2>2
<1> QED
  BY <1>5 DEF FirstOf

----------------------------------------------------------------------------
(* Peers: add, update and the first half of a beacon *)

\* mesh_add_peer touches one slot or appends one: names at existing indices
\* stay, so routes and a beacon in progress are not disturbed.
LEMMA AddPeerFacts ==
  ASSUME TypeOK, NEW text, text.id \in Ids \cup {NoId}, NEW addr \in Addrs,
         NEW i, i = AddedAt(text), NEW after, after = PeersAfterAdd(text, addr)
  PROVE  /\ after \in Seq(Peer) /\ Len(after) <= MaxPeers /\ Len(peers) <= Len(after)
         /\ \A j \in DOMAIN after : after[j].last_seen <= now
         /\ \A j \in DOMAIN peers : after[j].name = peers[j].name
         /\ i # 0 => i \in DOMAIN after
<1> USE MeshAssumption
<1>1. peers \in Seq(Peer) /\ Len(peers) \in Nat /\ now \in Nat
  BY DEF TypeOK
<1>2. CASE Len(peers) >= MaxPeers
  <2>1. i = 0 /\ after = peers
    BY <1>2 DEF AddedAt, PeersFull, PeersAfterAdd
  <2> QED
    BY <1>1, <2>1 DEF TypeOK
<1>3. CASE Len(peers) < MaxPeers /\ NamedSlots(text) # {}
  <2>1. i = FirstOf(NamedSlots(text))
    BY <1>1, <1>3 DEF AddedAt, PeersFull
  <2>2. NamedSlots(text) \in SUBSET (1..Len(peers))
    BY <1>1 DEF NamedSlots
  <2>3. i \in 1..Len(peers)
    BY <1>1, <1>3, <2>1, <2>2, FirstOfType
  <2> DEFINE e == [peers[i] EXCEPT !.addr = addr, !.last_seen = now, !.state = "connected"]
  <2>4. peers[i] \in Peer
    BY <1>1, <2>3
  <2>5. e \in Peer /\ e.name = peers[i].name /\ e.last_seen = now
    BY <1>1, <2>4 DEF Peer
  <2>6. after = [peers EXCEPT ![i] = e]
    <3>1. i # 0 /\ i \in DOMAIN peers
      BY <1>1, <2>3
    <3> QED
      BY <3>1, Zenon DEF PeersAfterAdd
  <2> HIDE DEF e
  <2>7. after \in Seq(Peer) /\ Len(after) = Len(peers)
    BY <1>1, <2>3, <2>5, <2>6
  <2>8. \A j \in 1..Len(peers) : after[j] = IF j = i THEN e ELSE peers[j]
    BY <1>1, <2>3, <2>6
  <2>9. \A j \in DOMAIN peers : peers[j].last_seen <= now
    BY DEF TypeOK
  <2>10. DOMAIN after = 1..Len(peers) /\ DOMAIN peers = 1..Len(peers)
    BY <1>1, <2>7
  <2>11. \A j \in DOMAIN after : after[j].last_seen <= now
    BY <1>1, <2>5, <2>8, <2>9, <2>10
  <2>12. \A j \in DOMAIN peers : after[j].name = peers[j].name
    BY <2>5, <2>8, <2>10
  <2>13. Len(after) <= MaxPeers /\ Len(peers) <= Len(after)
    BY <1>1, <1>3, <2>7
  <2> QED
    BY <2>3, <2>7, <2>10, <2>11, <2>12, <2>13
<1>4. CASE Len(peers) < MaxPeers /\ NamedSlots(text) = {}
  <2> DEFINE e == [name |-> text.id, addr |-> addr, state |-> "discovered", last_seen |-> now]
  <2>1. e \in Peer /\ e.last_seen = now
    BY <1>1 DEF Peer
  <2>2. i = Len(peers) + 1
    BY <1>1, <1>4 DEF AddedAt, PeersFull
  <2>3. after = Append(peers, e)
    BY <1>1, <2>2 DEF PeersAfterAdd
  <2> HIDE DEF e
  <2>4. /\ after \in Seq(Peer) /\ Len(after) = Len(peers) + 1
        /\ \A j \in 1..Len(peers) : after[j] = peers[j]
        /\ after[Len(peers) + 1] = e
    BY <1>1, <2>1, <2>3
  <2> QED
    BY <1>1, <1>4, <2>1, <2>2, <2>4 DEF TypeOK
<1> QED
  BY <1>1, <1>2, <1>3, <1>4

\* A peer table that keeps the names at the existing indices keeps MeshInv.
LEMMA NamesKeptKeepsInv ==
  ASSUME MeshInv, peers' \in Seq(Peer), Len(peers') <= MaxPeers, Len(peers) <= Len(peers'),
         \A i \in DOMAIN peers' : peers'[i].last_seen <= now,
         \A i \in DOMAIN peers : peers'[i].name = peers[i].name,
         UNCHANGED <<fib, now>>,
         beacon' \in Beacon,
         beacon'.rest # <<>> =>
           beacon'.peer \in DOMAIN peers' /\ peers'[beacon'.peer].name = beacon'.via
  PROVE  MeshInv'
<1>1. DOMAIN peers \subseteq DOMAIN peers'
  BY DEF MeshInv, TypeOK
<1>2. TypeOK'
  BY DEF MeshInv, TypeOK
<1>3. RouteLeadsToAnnouncer'
  BY <1>1 DEF MeshInv, RouteLeadsToAnnouncer
<1>4. RoutesUnique'
  BY DEF MeshInv, RoutesUnique
<1>5. BeaconSound'
  BY DEF BeaconSound
<1> QED
  BY <1>2, <1>3, <1>4, <1>5 DEF MeshInv

\* mesh_add_peer and mesh_peer_seen.
LEMMA AddPeerKeepsInv ==
  ASSUME MeshInv, beacon.rest = <<>>, NEW text \in ApiTexts, NEW addr \in Addrs,
         AddPeer(text, addr)
  PROVE  MeshInv'
<1>1. text.id \in Ids \cup {NoId}
  BY DEF ApiTexts, Text
<1>2. /\ peers' \in Seq(Peer) /\ Len(peers') <= MaxPeers /\ Len(peers) <= Len(peers')
      /\ \A j \in DOMAIN peers' : peers'[j].last_seen <= now
      /\ \A j \in DOMAIN peers : peers'[j].name = peers[j].name
  BY <1>1, AddPeerFacts DEF AddPeer, MeshInv
<1> QED
  BY <1>2, NamesKeptKeepsInv DEF AddPeer, MeshInv, TypeOK

\* Marking a slot of a table as seen now changes no name.
LEMMA SeenFacts ==
  ASSUME NEW table \in Seq(Peer), NEW i \in 1..Len(table), now \in Nat,
         \A j \in DOMAIN table : table[j].last_seen <= now,
         NEW after, after = Seen(table, i)
  PROVE  /\ after \in Seq(Peer) /\ Len(after) = Len(table)
         /\ \A j \in DOMAIN after : after[j].last_seen <= now
         /\ \A j \in DOMAIN table : after[j].name = table[j].name
<1> DEFINE e == [table[i] EXCEPT !.last_seen = now, !.state = "connected"]
<1>1. table[i] \in Peer
  OBVIOUS
<1>2. e \in Peer /\ e.name = table[i].name /\ e.last_seen = now
  BY <1>1 DEF Peer
<1>3. after = [table EXCEPT ![i] = e]
  BY DEF Seen
<1> HIDE DEF e
<1>4. /\ after \in Seq(Peer) /\ Len(after) = Len(table)
      /\ \A j \in 1..Len(table) : after[j] = IF j = i THEN e ELSE table[j]
  BY <1>2, <1>3
<1> QED
  BY <1>2, <1>4

LEMMA PeerSeenKeepsInv ==
  ASSUME MeshInv, beacon.rest = <<>>, NEW i \in DOMAIN peers, PeerSeen(i)
  PROVE  MeshInv'
<1> USE MeshAssumption
<1>1. peers \in Seq(Peer) /\ i \in 1..Len(peers) /\ now \in Nat
  BY DEF MeshInv, TypeOK
<1>2. /\ peers' \in Seq(Peer) /\ Len(peers') = Len(peers)
      /\ \A j \in DOMAIN peers' : peers'[j].last_seen <= now
      /\ \A j \in DOMAIN peers : peers'[j].name = peers[j].name
  BY <1>1, SeenFacts DEF PeerSeen, MeshInv, TypeOK
<1> QED
  BY <1>1, <1>2, NamesKeptKeepsInv DEF PeerSeen, MeshInv, TypeOK

\* The first half of mesh_process_beacon: the index it goes on with belongs to
\* the peer the beacon names.
LEMMA AddedIsNamed ==
  ASSUME TypeOK, NEW text, text.id \in Ids \cup {NoId}, text = Text(text.id, FALSE),
         NEW addr \in Addrs, NEW i, i = AddedAt(text), i # 0,
         NEW after, after = PeersAfterAdd(text, addr)
  PROVE  after[i].name = text.id
<1> USE MeshAssumption
<1>1. peers \in Seq(Peer) /\ Len(peers) \in Nat /\ Len(peers) < MaxPeers
  BY DEF TypeOK, AddedAt, PeersFull
<1>2. CASE NamedSlots(text) # {}
  <2>1. i = FirstOf(NamedSlots(text))
    BY <1>1, <1>2 DEF AddedAt, PeersFull
  <2>2. NamedSlots(text) \in SUBSET (1..Len(peers))
    BY <1>1 DEF NamedSlots
  <2>3. i \in NamedSlots(text)
    BY <1>1, <1>2, <2>1, <2>2, FirstOfType
  <2>4. i \in DOMAIN peers /\ peers[i].name = text.id
    BY <2>3 DEF NamedSlots, PeerText, Text
  <2> QED
    BY <2>4, AddPeerFacts
<1>3. CASE NamedSlots(text) = {}
  <2> DEFINE e == [name |-> text.id, addr |-> addr, state |-> "discovered", last_seen |-> now]
  <2>1. e.name = text.id
    OBVIOUS
  <2>2. i = Len(peers) + 1
    BY <1>1, <1>3 DEF AddedAt, PeersFull
  <2>3. after = Append(peers, e)
    BY <1>1, <2>2 DEF PeersAfterAdd
  <2> HIDE DEF e
  <2>4. after[Len(peers) + 1] = e
    BY <1>1, <2>3
  <2> QED
    BY <2>1, <2>2, <2>4
<1> QED
  BY <1>2, <1>3

LEMMA BeaconPeerKeepsInv ==
  ASSUME MeshInv, beacon.rest = <<>>, NEW text \in BeaconTexts, NEW addr \in Addrs,
         NEW list \in PrefixLists, BeaconPeer(text, addr, list)
  PROVE  MeshInv'
<1> USE MeshAssumption
<1> DEFINE i == AddedAt(text)
           added == PeersAfterAdd(text, addr)
           count == IF Len(list) <= MaxPrefixes THEN Len(list) ELSE MaxPrefixes
<1>1. text.id \in Ids \cup {NoId} /\ text = Text(text.id, FALSE)
  BY DEF BeaconTexts, Text
<1>2. TypeOK /\ peers \in Seq(Peer) /\ now \in Nat /\ i # 0
  BY DEF MeshInv, TypeOK, BeaconPeer
<1>3. /\ added \in Seq(Peer) /\ Len(added) <= MaxPeers /\ Len(peers) <= Len(added)
      /\ \A j \in DOMAIN added : added[j].last_seen <= now
      /\ \A j \in DOMAIN peers : added[j].name = peers[j].name
      /\ i \in 1..Len(added)
      /\ added[i].name = text.id
  <2>1. added[i].name = text.id
    BY <1>1, <1>2, AddedIsNamed
  <2> QED
    BY <1>1, <1>2, <2>1, AddPeerFacts
<1>4. peers' = Seen(added, i)
  BY DEF BeaconPeer
<1>5. beacon' = IF count = 0 THEN NoBeacon
                ELSE [peer |-> i, via |-> text.id, rest |-> SubSeq(list, 1, count)]
  BY DEF BeaconPeer
<1> HIDE DEF i, added
<1>6. /\ peers' \in Seq(Peer) /\ Len(peers') = Len(added)
      /\ \A j \in DOMAIN peers' : peers'[j].last_seen <= now
      /\ \A j \in DOMAIN added : peers'[j].name = added[j].name
  BY <1>2, <1>3, <1>4, SeenFacts
<1>7. /\ beacon' \in Beacon
      /\ beacon'.rest # <<>> => beacon'.peer = i /\ beacon'.via = text.id
  <2>1. list \in Seq(Prefixes) /\ count \in 0..Len(list)
    OBVIOUS
  <2> HIDE DEF count
  <2>2. SubSeq(list, 1, count) \in Seq(Prefixes)
    BY <2>1
  <2>3. CASE count = 0
    BY <1>5, <2>3 DEF NoBeacon, Beacon
  <2>4. CASE count # 0
    BY <1>1, <1>3, <1>5, <2>2, <2>4 DEF Beacon
  <2> QED
    BY <2>3, <2>4
<1>8. \A j \in DOMAIN peers : peers'[j].name = peers[j].name
  <2>1. DOMAIN peers \subseteq DOMAIN added
    BY <1>2, <1>3
  <2> QED
    BY <1>3, <1>6, <2>1
<1>9. i \in DOMAIN peers' /\ peers'[i].name = text.id
  BY <1>3, <1>6
<1> QED
  BY <1>3, <1>6, <1>7, <1>8, <1>9, NamesKeptKeepsInv DEF BeaconPeer

----------------------------------------------------------------------------
(* Deleting peers *)

\* The route at k after a deletion is the old route at o, with the index that
\* its peer has moved to.
Moved(k, o, stay, kept) ==
  /\ o \in kept
  /\ fib[o].peer_index \in stay
  /\ fib'[k].prefix = fib[o].prefix /\ fib'[k].via = fib[o].via
  /\ fib'[k].created_at = fib[o].created_at
  /\ fib'[k].lifetime_ms = fib[o].lifetime_ms
  /\ fib'[k].peer_index = Rank(stay, fib[o].peer_index)
  /\ fib'[k].peer_index \in DOMAIN peers'
  /\ peers'[fib'[k].peer_index] = peers[fib[o].peer_index]

\* What mesh_remove_peer and mesh_check_timeouts leave: every remaining route is
\* an old route whose peer stays, with the index that peer has moved to.
LEMMA DropPeersFacts ==
  ASSUME MeshInv, NEW gone \in SUBSET DOMAIN peers, DropPeers(gone),
         NEW stay, stay = DOMAIN peers \ gone,
         NEW kept, kept = {k \in DOMAIN fib : fib[k].peer_index \notin gone}
  PROVE  /\ peers' \in Seq(Peer) /\ Len(peers') = Cardinality(stay)
         /\ Cardinality(stay) \in Nat /\ Cardinality(stay) <= Len(peers)
         /\ \A k \in 1..Cardinality(stay) :
              Origin(stay, k) \in stay /\ peers'[k] = peers[Origin(stay, k)]
         /\ fib' \in Seq(Route) /\ Len(fib') = Cardinality(kept)
         /\ Cardinality(kept) \in Nat /\ Cardinality(kept) <= Len(fib)
         /\ \A k \in 1..Cardinality(kept) : Moved(k, Origin(kept, k), stay, kept)
<1>1. peers \in Seq(Peer) /\ fib \in Seq(Route) /\ Len(peers) \in Nat /\ Len(fib) \in Nat
  BY DEF MeshInv, TypeOK
<1>2. stay \in SUBSET (1..Len(peers)) /\ kept \in SUBSET (1..Len(fib))
      /\ stay \in SUBSET DOMAIN peers /\ kept \in SUBSET DOMAIN fib
  BY <1>1
<1>3. peers' = Compact(peers, stay)
  BY DEF DropPeers, RoutesOfOthers, NewIndex
<1>4. /\ peers' \in Seq(Peer) /\ Len(peers') = Cardinality(stay)
      /\ Cardinality(stay) \in Nat /\ Cardinality(stay) <= Len(peers)
      /\ \A k \in 1..Cardinality(stay) :
           Origin(stay, k) \in stay /\ peers'[k] = peers[Origin(stay, k)]
  BY <1>1, <1>2, <1>3, CompactType
<1>5. Cardinality(kept) \in Nat /\ Cardinality(kept) <= Len(fib)
  BY <1>1, <1>2, KeepFinite
<1> DEFINE moved(k) == [fib[Origin(kept, k)] EXCEPT
                          !.peer_index = Rank(stay, fib[Origin(kept, k)].peer_index)]
<1>6. fib' = [k \in 1..Cardinality(kept) |-> moved(k)]
  BY DEF DropPeers, RoutesOfOthers, NewIndex
<1>7. ASSUME NEW k \in 1..Cardinality(kept)
      PROVE  moved(k) \in Route /\ (fib'[k] = moved(k) => Moved(k, Origin(kept, k), stay, kept))
  <2>1. PICK o \in kept : o = Origin(kept, k)
    BY <1>1, <1>2, RankOfOrigin
  <2>2. PICK q : q = fib[o].peer_index
    OBVIOUS
  <2>3. o \in DOMAIN fib /\ fib[o] \in Route /\ q \notin gone
    BY <1>1, <1>2, <2>1, <2>2
  <2>4. q \in stay
    BY <2>2, <2>3 DEF MeshInv, RouteLeadsToAnnouncer
  <2>5. Rank(stay, q) \in 1..Cardinality(stay)
    BY <1>1, <1>2, <2>4, RankType
  <2>6. Origin(stay, Rank(stay, q)) = q
    BY <1>1, <1>2, <2>4, OriginOfRank
  <2>7. peers'[Rank(stay, q)] = peers[q] /\ Rank(stay, q) \in DOMAIN peers'
    <3>1. PICK j \in 1..Cardinality(stay) : j = Rank(stay, q)
      BY <2>5
    <3>2. DOMAIN peers' = 1..Cardinality(stay)
      BY <1>4
    <3>3. peers'[j] = peers[Origin(stay, j)] /\ Origin(stay, j) = q
      BY <1>4, <2>6, <3>1
    <3> QED
      BY <3>1, <3>2, <3>3
  <2>8. moved(k) = [fib[o] EXCEPT !.peer_index = Rank(stay, q)]
    BY <2>1, <2>2
  <2> HIDE DEF moved
  <2>9. Rank(stay, q) \in Nat \ {0}
    BY <1>4, <2>5
  <2>10. /\ moved(k) \in Route /\ moved(k).prefix = fib[o].prefix
         /\ moved(k).via = fib[o].via /\ moved(k).created_at = fib[o].created_at
         /\ moved(k).lifetime_ms = fib[o].lifetime_ms
         /\ moved(k).peer_index = Rank(stay, q)
    BY <2>3, <2>8, <2>9 DEF Route
  <2> QED
    BY <2>1, <2>2, <2>4, <2>7, <2>10 DEF Moved
<1> HIDE DEF moved
<1>8. \A k \in 1..Cardinality(kept) : moved(k) \in Route
  BY <1>7
<1>9. fib' \in Seq(Route) /\ Len(fib') = Cardinality(kept)
      /\ \A k \in 1..Cardinality(kept) : fib'[k] = moved(k)
  BY <1>5, <1>6, <1>8
<1>10. \A k \in 1..Cardinality(kept) : Moved(k, Origin(kept, k), stay, kept)
  BY <1>7, <1>9
<1> QED
  BY <1>4, <1>5, <1>9, <1>10

LEMMA DropPeersKeepsInv ==
  ASSUME MeshInv, beacon.rest = <<>>, NEW gone \in SUBSET DOMAIN peers, DropPeers(gone)
  PROVE  MeshInv'
<1> USE MeshAssumption
<1>1. PICK stay : stay = DOMAIN peers \ gone
  OBVIOUS
<1>2. PICK kept : kept = {k \in DOMAIN fib : fib[k].peer_index \notin gone}
  OBVIOUS
<1>3. /\ peers' \in Seq(Peer) /\ Len(peers') = Cardinality(stay)
      /\ Cardinality(stay) \in Nat /\ Cardinality(stay) <= Len(peers)
      /\ \A k \in 1..Cardinality(stay) :
           Origin(stay, k) \in stay /\ peers'[k] = peers[Origin(stay, k)]
      /\ fib' \in Seq(Route) /\ Len(fib') = Cardinality(kept)
      /\ Cardinality(kept) \in Nat /\ Cardinality(kept) <= Len(fib)
      /\ \A k \in 1..Cardinality(kept) : Moved(k, Origin(kept, k), stay, kept)
  BY <1>1, <1>2, DropPeersFacts
<1>4. /\ kept \subseteq DOMAIN fib /\ stay \subseteq DOMAIN peers
      /\ kept \in SUBSET (1..Len(fib)) /\ stay \in SUBSET (1..Len(peers))
      /\ Len(fib) \in Nat /\ Len(peers) \in Nat
      /\ Len(peers) <= MaxPeers /\ Len(fib) <= MaxFib
  BY <1>1, <1>2 DEF MeshInv, TypeOK
<1>5. DOMAIN peers' = 1..Cardinality(stay) /\ DOMAIN fib' = 1..Cardinality(kept)
  BY <1>3
<1>6. UNCHANGED <<beacon, now>>
  BY DEF DropPeers, RoutesOfOthers, NewIndex
<1>7. TypeOK'
  <2>1. \A k \in DOMAIN peers' : peers'[k].last_seen <= now'
    BY <1>3, <1>4, <1>5, <1>6 DEF MeshInv, TypeOK
  <2>2. \A k \in DOMAIN fib' : fib'[k].created_at <= now'
    BY <1>3, <1>4, <1>5, <1>6 DEF MeshInv, TypeOK, Moved
  <2>3. Len(peers') <= MaxPeers /\ Len(fib') <= MaxFib
    <3>1. \A x, y, z \in Nat : x <= y /\ y <= z => x <= z
      OBVIOUS
    <3> QED
      BY <1>3, <1>4, <3>1
  <2> QED
    BY <1>3, <1>6, <2>1, <2>2, <2>3 DEF MeshInv, TypeOK
<1>8. RouteLeadsToAnnouncer'
  <2> SUFFICES ASSUME NEW k \in DOMAIN fib'
               PROVE  /\ fib'[k].peer_index \in DOMAIN peers'
                      /\ peers'[fib'[k].peer_index].name = fib'[k].via
    BY DEF RouteLeadsToAnnouncer
  <2>1. PICK o : o = Origin(kept, k)
    OBVIOUS
  <2>2. Moved(k, o, stay, kept)
    BY <1>3, <1>5, <2>1
  <2>3. peers[fib[o].peer_index].name = fib[o].via
    BY <1>4, <2>2 DEF MeshInv, RouteLeadsToAnnouncer, Moved
  <2> QED
    BY <2>2, <2>3 DEF Moved
<1>9. RoutesUnique'
  <2> SUFFICES ASSUME NEW k \in DOMAIN fib', NEW l \in DOMAIN fib',
                      fib'[k].prefix = fib'[l].prefix,
                      fib'[k].peer_index = fib'[l].peer_index
               PROVE  k = l
    BY DEF RoutesUnique
  <2>1. PICK o, u : o = Origin(kept, k) /\ u = Origin(kept, l)
    OBVIOUS
  <2>2. Moved(k, o, stay, kept) /\ Moved(l, u, stay, kept)
    BY <1>3, <1>5, <2>1
  <2>3. /\ fib[o].prefix = fib[u].prefix
        /\ Rank(stay, fib[o].peer_index) = Rank(stay, fib[u].peer_index)
        /\ fib[o].peer_index \in stay /\ fib[u].peer_index \in stay
        /\ o \in DOMAIN fib /\ u \in DOMAIN fib
    BY <1>4, <2>2 DEF Moved
  <2>4. fib[o].peer_index = fib[u].peer_index
    BY <1>4, <2>3, RankInjective
  <2>5. o = u
    BY <2>3, <2>4 DEF MeshInv, RoutesUnique
  <2>6. Rank(kept, o) = k /\ Rank(kept, u) = l
    BY <1>4, <1>5, <2>1, RankOfOrigin
  <2> QED
    BY <2>5, <2>6
<1>10. BeaconSound'
  BY <1>6 DEF BeaconSound
<1> QED
  BY <1>7, <1>8, <1>9, <1>10 DEF MeshInv

----------------------------------------------------------------------------
(* FIB *)

\* A FIB whose entries are old entries, one to one, keeps MeshInv (mesh_remove_fib
\* and mesh_fib_prune).
LEMMA CompactFibKeepsInv ==
  ASSUME MeshInv, NEW kept \in SUBSET DOMAIN fib, fib' = Compact(fib, kept),
         UNCHANGED <<peers, beacon, now>>
  PROVE  MeshInv'
<1> USE MeshAssumption
<1>1. fib \in Seq(Route) /\ Len(fib) \in Nat /\ kept \in SUBSET (1..Len(fib))
      /\ Len(fib) <= MaxFib
  BY DEF MeshInv, TypeOK
<1>2. /\ fib' \in Seq(Route) /\ Len(fib') = Cardinality(kept)
      /\ Cardinality(kept) \in Nat /\ Cardinality(kept) <= Len(fib)
      /\ \A k \in 1..Cardinality(kept) :
           Origin(kept, k) \in kept /\ fib'[k] = fib[Origin(kept, k)]
  BY <1>1, CompactType
<1>3. DOMAIN fib' = 1..Cardinality(kept)
  BY <1>2
<1>4. \A k \in DOMAIN fib' : Origin(kept, k) \in DOMAIN fib
  BY <1>2, <1>3
<1>5. TypeOK'
  BY <1>1, <1>2, <1>3, <1>4 DEF MeshInv, TypeOK
<1>6. RouteLeadsToAnnouncer'
  BY <1>2, <1>3, <1>4 DEF MeshInv, RouteLeadsToAnnouncer
<1>7. RoutesUnique'
  <2> SUFFICES ASSUME NEW k \in DOMAIN fib', NEW l \in DOMAIN fib',
                      fib'[k].prefix = fib'[l].prefix,
                      fib'[k].peer_index = fib'[l].peer_index
               PROVE  k = l
    BY DEF RoutesUnique
  <2>1. Origin(kept, k) = Origin(kept, l)
    BY <1>2, <1>3, <1>4 DEF MeshInv, RoutesUnique
  <2>2. Rank(kept, Origin(kept, k)) = k /\ Rank(kept, Origin(kept, l)) = l
    BY <1>1, <1>3, RankOfOrigin
  <2> QED
    BY <2>1, <2>2
<1>8. BeaconSound'
  BY DEF MeshInv, BeaconSound
<1> QED
  BY <1>5, <1>6, <1>7, <1>8 DEF MeshInv

\* mesh_add_fib for a peer whose name is `via'.
LEMMA FibAfterAddKeepsInv ==
  ASSUME MeshInv, NEW p \in Prefixes, NEW i \in DOMAIN peers, NEW l \in Nat, NEW via,
         via = peers[i].name, fib' = FibAfterAdd(p, i, l, via),
         UNCHANGED <<peers, now>>, beacon' \in Beacon,
         beacon'.rest # <<>> =>
           beacon'.peer \in DOMAIN peers /\ peers[beacon'.peer].name = beacon'.via
  PROVE  MeshInv'
<1> USE MeshAssumption
<1>1. /\ fib \in Seq(Route) /\ Len(fib) \in Nat /\ now \in Nat /\ Len(fib) <= MaxFib
      /\ i \in Nat \ {0} /\ via \in Ids \cup {NoId} /\ peers \in Seq(Peer)
  <2>1. fib \in Seq(Route) /\ peers \in Seq(Peer) /\ now \in Nat /\ Len(fib) <= MaxFib
    BY DEF MeshInv, TypeOK
  <2>2. i \in 1..Len(peers) /\ Len(fib) \in Nat /\ Len(peers) \in Nat
    BY <2>1
  <2>3. peers[i] \in Peer
    BY <2>1
  <2> QED
    BY <2>1, <2>2, <2>3 DEF Peer
<1>2. BeaconSound'
  BY DEF BeaconSound
<1>3. CASE Len(fib) >= MaxFib
  <2>1. fib' = fib
    BY <1>3 DEF FibAfterAdd
  <2> QED
    BY <1>2, <2>1 DEF MeshInv, TypeOK, RouteLeadsToAnnouncer, RoutesUnique
<1>4. CASE Len(fib) < MaxFib /\ RouteSlots(p, i) # {}
  <2> DEFINE k == FirstOf(RouteSlots(p, i))
             e == [fib[k] EXCEPT !.lifetime_ms = l, !.created_at = now]
  <2>1. RouteSlots(p, i) \in SUBSET (1..Len(fib))
    BY <1>1 DEF RouteSlots
  <2>2. k \in 1..Len(fib)
    BY <1>1, <1>4, <2>1, FirstOfType
  <2>3. fib[k] \in Route
    BY <1>1, <2>2
  <2>4. /\ e \in Route /\ e.prefix = fib[k].prefix /\ e.peer_index = fib[k].peer_index
        /\ e.via = fib[k].via /\ e.created_at = now
    BY <1>1, <2>3 DEF Route
  <2>5. fib' = [fib EXCEPT ![k] = e]
    <3>1. ~ (i \notin DOMAIN peers \/ Len(fib) >= MaxFib)
      BY <1>1, <1>4
    <3> QED
      BY <1>4, <3>1, Zenon DEF FibAfterAdd
  <2> HIDE DEF e, k
  <2>6. /\ fib' \in Seq(Route) /\ Len(fib') = Len(fib) /\ DOMAIN fib' = DOMAIN fib
        /\ \A j \in DOMAIN fib : fib'[j] = IF j = k THEN e ELSE fib[j]
    BY <1>1, <2>2, <2>4, <2>5
  <2>7. TypeOK'
    BY <1>1, <2>4, <2>6 DEF MeshInv, TypeOK
  <2>8. RouteLeadsToAnnouncer'
    BY <2>2, <2>4, <2>6 DEF MeshInv, RouteLeadsToAnnouncer
  <2>9. RoutesUnique'
    BY <2>2, <2>4, <2>6 DEF MeshInv, RoutesUnique
  <2> QED
    BY <1>2, <2>7, <2>8, <2>9 DEF MeshInv
<1>5. CASE Len(fib) < MaxFib /\ RouteSlots(p, i) = {}
  <2> DEFINE e == [prefix |-> p, peer_index |-> i, lifetime_ms |-> l, created_at |-> now,
                   via |-> via]
  <2>1. /\ e \in Route /\ e.prefix = p /\ e.peer_index = i /\ e.via = via
        /\ e.created_at = now
    BY <1>1 DEF Route
  <2>2. fib' = Append(fib, e)
    <3>1. ~ (i \notin DOMAIN peers \/ Len(fib) >= MaxFib)
      BY <1>1, <1>5
    <3> QED
      BY <1>5, <3>1 DEF FibAfterAdd
  <2> HIDE DEF e
  <2>3. /\ fib' \in Seq(Route) /\ Len(fib') = Len(fib) + 1
        /\ DOMAIN fib' = DOMAIN fib \cup {Len(fib) + 1}
        /\ \A j \in DOMAIN fib : fib'[j] = fib[j]
        /\ fib'[Len(fib) + 1] = e
    BY <1>1, <2>1, <2>2
  <2>4. \A j \in DOMAIN fib : ~ (fib[j].prefix = p /\ fib[j].peer_index = i)
    BY <1>5 DEF RouteSlots
  <2>5. TypeOK'
    <3>1. Len(fib') <= MaxFib
      BY <1>1, <1>5, <2>3
    <3> QED
      BY <1>1, <2>1, <2>3, <3>1 DEF MeshInv, TypeOK
  <2>6. RouteLeadsToAnnouncer'
    BY <2>1, <2>3 DEF MeshInv, RouteLeadsToAnnouncer
  <2>7. RoutesUnique'
    BY <2>1, <2>3, <2>4 DEF MeshInv, RoutesUnique
  <2> QED
    BY <1>2, <2>5, <2>6, <2>7 DEF MeshInv
<1> QED
  BY <1>1, <1>3, <1>4, <1>5

LEMMA BeaconPrefixKeepsInv ==
  ASSUME MeshInv, BeaconPrefix
  PROVE  MeshInv'
<1> USE MeshAssumption
<1>1. /\ beacon \in Beacon /\ beacon.rest # <<>> /\ beacon.rest \in Seq(Prefixes)
      /\ beacon.peer \in DOMAIN peers /\ beacon.via = peers[beacon.peer].name
  BY DEF MeshInv, TypeOK, Beacon, BeaconSound, BeaconPrefix
<1>2. Head(beacon.rest) \in Prefixes /\ Tail(beacon.rest) \in Seq(Prefixes)
  BY <1>1
<1>3. beacon' \in Beacon
  <2>1. CASE Len(beacon.rest) = 1
    BY <2>1 DEF BeaconPrefix, Beacon, NoBeacon
  <2>2. CASE Len(beacon.rest) # 1
    <3>1. beacon' = [beacon EXCEPT !.rest = Tail(beacon.rest)]
      BY <2>2 DEF BeaconPrefix
    <3> HIDE DEF BeaconPrefix
    <3> QED
      BY <1>1, <1>2, <3>1 DEF Beacon
  <2> QED
    BY <2>1, <2>2
<1>4. beacon'.rest # <<>> => beacon'.peer = beacon.peer /\ beacon'.via = beacon.via
  BY <1>1 DEF BeaconPrefix, Beacon, NoBeacon
<1> QED
  BY <1>1, <1>2, <1>3, <1>4, FibAfterAddKeepsInv DEF BeaconPrefix

----------------------------------------------------------------------------

\* Every step keeps the invariant.
LEMMA MeshInvStep == MeshInv /\ [Next]_vars => MeshInv'
<1> SUFFICES ASSUME MeshInv, [Next]_vars PROVE MeshInv'
  OBVIOUS
<1> USE MeshAssumption
<1>1. ASSUME beacon.rest = <<>>, NEW x \in ApiTexts, NEW a \in Addrs, AddPeer(x, a)
      PROVE  MeshInv'
  BY <1>1, AddPeerKeepsInv
<1>2. ASSUME beacon.rest = <<>>, NEW i \in DOMAIN peers, RemovePeer(i) PROVE MeshInv'
  BY <1>2, DropPeersKeepsInv DEF RemovePeer
<1>3. ASSUME beacon.rest = <<>>, NEW i \in DOMAIN peers, PeerSeen(i) PROVE MeshInv'
  BY <1>3, PeerSeenKeepsInv
<1>4. ASSUME beacon.rest = <<>>, NEW t \in 0..now, CheckTimeouts(t) PROVE MeshInv'
  <2> DEFINE gone == {i \in DOMAIN peers : Elapsed(t, peers[i].last_seen) > PeerTimeout}
  <2>1. gone \in SUBSET DOMAIN peers /\ DropPeers(gone)
    BY <1>4 DEF CheckTimeouts
  <2> QED
    BY <1>4, <2>1, DropPeersKeepsInv
<1>5. ASSUME NEW p \in Prefixes, NEW i \in DOMAIN peers, NEW l \in Lifetimes, AddFib(p, i, l)
      PROVE  MeshInv'
  <2>1. l \in Nat /\ beacon' = beacon /\ beacon \in Beacon /\ BeaconSound
    BY <1>5 DEF AddFib, MeshInv, TypeOK
  <2> QED
    BY <1>5, <2>1, FibAfterAddKeepsInv DEF AddFib, BeaconSound
<1>6. ASSUME NEW k \in DOMAIN fib, RemoveFib(k) PROVE MeshInv'
  BY <1>6, CompactFibKeepsInv DEF RemoveFib
<1>7. ASSUME NEW t \in 0..now, FibPrune(t) PROVE MeshInv'
  <2> DEFINE kept == {k \in DOMAIN fib :
                        \/ fib[k].lifetime_ms = 0
                        \/ Elapsed(t, fib[k].created_at) <= fib[k].lifetime_ms}
  <2>1. kept \in SUBSET DOMAIN fib /\ fib' = Compact(fib, kept)
        /\ UNCHANGED <<peers, beacon, now>>
    BY <1>7 DEF FibPrune
  <2> HIDE DEF kept
  <2> QED
    BY <2>1, CompactFibKeepsInv
<1>8. ASSUME beacon.rest = <<>>, NEW x \in BeaconTexts, NEW a \in Addrs,
             NEW s \in PrefixLists, BeaconPeer(x, a, s)
      PROVE  MeshInv'
  BY <1>8, BeaconPeerKeepsInv
<1>9. CASE BeaconPrefix
  BY <1>9, BeaconPrefixKeepsInv
<1>10. CASE Tick
  <2>1. now' = now + 1 /\ now' \in 0..MaxTime /\ UNCHANGED <<peers, fib, beacon>>
        /\ now \in Nat
    BY <1>10 DEF Tick, MeshInv, TypeOK
  <2>2. ASSUME NEW i \in DOMAIN peers PROVE peers[i].last_seen \in Nat
    <3>1. peers[i] \in Peer
      BY DEF MeshInv, TypeOK
    <3> QED
      BY <3>1 DEF Peer
  <2>3. ASSUME NEW k \in DOMAIN fib PROVE fib[k].created_at \in Nat
    <3>1. fib[k] \in Route
      BY DEF MeshInv, TypeOK
    <3> QED
      BY <3>1 DEF Route
  <2>4. TypeOK'
    BY <2>1, <2>2, <2>3 DEF MeshInv, TypeOK
  <2> QED
    BY <2>1, <2>4 DEF MeshInv, RouteLeadsToAnnouncer, RoutesUnique, BeaconSound
<1>11. CASE UNCHANGED vars
  BY <1>11 DEF vars, MeshInv, TypeOK, RouteLeadsToAnnouncer, RoutesUnique, BeaconSound
<1> QED
  BY <1>1, <1>2, <1>3, <1>4, <1>5, <1>6, <1>7, <1>8, <1>9, <1>10, <1>11 DEF Next, Call

\* MeshInv holds in every reachable state.
THEOREM MeshTablesSafe == Spec => []MeshInv
<1>1. Init => MeshInv
  BY MeshAssumption
     DEF Init, MeshInv, TypeOK, RouteLeadsToAnnouncer, RoutesUnique, BeaconSound, Beacon,
         NoBeacon
<1> QED
  BY <1>1, MeshInvStep, PTL DEF Spec

\* Whatever peers come, go and time out, a route always leads to the peer that
\* announced it (mesh.c:120-142).
THEOREM RoutesLeadToAnnouncer == Spec => []RouteLeadsToAnnouncer
<1>1. MeshInv => RouteLeadsToAnnouncer
  BY DEF MeshInv
<1> QED
  BY <1>1, MeshTablesSafe, PTL

\* The table never holds two routes for a prefix to one peer (mesh.c:183-192).
THEOREM RoutesStayUnique == Spec => []RoutesUnique
<1>1. MeshInv => RoutesUnique
  BY DEF MeshInv
<1> QED
  BY <1>1, MeshTablesSafe, PTL

\* The tables stay within their types and capacities.
THEOREM MeshTypesHold == Spec => []TypeOK
<1>1. MeshInv => TypeOK
  BY DEF MeshInv
<1> QED
  BY <1>1, MeshTablesSafe, PTL

----------------------------------------------------------------------------
(* Which routes a removal costs *)

LEMMA DropPeersLosesOwn ==
  ASSUME MeshInv, NEW gone \in SUBSET DOMAIN peers, DropPeers(gone), NEW k \in DOMAIN fib
  PROVE  KeptOrLostWithPeer(k)
<1>1. PICK stay : stay = DOMAIN peers \ gone
  OBVIOUS
<1>2. PICK kept : kept = {l \in DOMAIN fib : fib[l].peer_index \notin gone}
  OBVIOUS
<1>3. /\ peers' \in Seq(Peer) /\ Len(peers') = Cardinality(stay)
      /\ Cardinality(stay) \in Nat
      /\ \A j \in 1..Cardinality(stay) :
           Origin(stay, j) \in stay /\ peers'[j] = peers[Origin(stay, j)]
      /\ fib' \in Seq(Route) /\ Len(fib') = Cardinality(kept)
      /\ Cardinality(kept) \in Nat
      /\ \A j \in 1..Cardinality(kept) : Moved(j, Origin(kept, j), stay, kept)
  BY <1>1, <1>2, DropPeersFacts
<1>4. /\ kept \in SUBSET (1..Len(fib)) /\ stay \in SUBSET (1..Len(peers))
      /\ Len(fib) \in Nat /\ Len(peers) \in Nat
      /\ DOMAIN peers = 1..Len(peers)
  BY <1>1, <1>2 DEF MeshInv, TypeOK
<1>5. DOMAIN peers' = 1..Cardinality(stay) /\ DOMAIN fib' = 1..Cardinality(kept)
  BY <1>3
<1>6. CASE fib[k].peer_index \notin gone
  <2>1. k \in kept
    BY <1>2, <1>6
  <2>2. Rank(kept, k) \in DOMAIN fib' /\ Origin(kept, Rank(kept, k)) = k
    BY <1>4, <1>5, <2>1, RankType, OriginOfRank
  <2>3. Moved(Rank(kept, k), k, stay, kept)
    BY <1>3, <1>5, <2>2
  <2> QED
    BY <2>2, <2>3 DEF Moved, KeptOrLostWithPeer
<1>7. CASE fib[k].peer_index \in gone
  <2>1. PICK q : q = fib[k].peer_index
    OBVIOUS
  <2>2. PICK p : p = peers[q]
    OBVIOUS
  <2>3. PICK S : S = CopiesOf(p, peers)
    OBVIOUS
  <2>4. PICK T : T = CopiesOf(p, peers')
    OBVIOUS
  <2>5. q \in S /\ q \notin stay /\ S \in SUBSET (1..Len(peers))
    BY <1>1, <1>4, <1>7, <2>1, <2>2, <2>3 DEF CopiesOf
  <2>6. IsFiniteSet(S) /\ Cardinality(S) \in Nat
    BY <1>4, <2>5, KeepFinite
  <2>7. /\ IsFiniteSet(S \ {q}) /\ Cardinality(S \ {q}) = Cardinality(S) - 1
        /\ Cardinality(S \ {q}) \in Nat
    BY <2>5, <2>6, FS_RemoveElement, FS_CardinalityType
  <2>8. \A j \in T : /\ j \in 1..Cardinality(stay) /\ Origin(stay, j) \in S \ {q}
                     /\ Rank(stay, Origin(stay, j)) = j
    <3> SUFFICES ASSUME NEW j \in T
                 PROVE  /\ j \in 1..Cardinality(stay) /\ Origin(stay, j) \in S \ {q}
                        /\ Rank(stay, Origin(stay, j)) = j
      OBVIOUS
    <3>1. j \in 1..Cardinality(stay) /\ peers'[j] = p
      BY <1>5, <2>4 DEF CopiesOf
    <3>2. Origin(stay, j) \in stay /\ peers[Origin(stay, j)] = p
      BY <1>3, <3>1
    <3>3. Origin(stay, j) \in S /\ Origin(stay, j) # q
      BY <1>1, <2>3, <2>5, <3>2 DEF CopiesOf
    <3>4. Rank(stay, Origin(stay, j)) = j
      BY <1>4, <3>1, RankOfOrigin
    <3> QED
      BY <3>1, <3>3, <3>4
  <2> DEFINE f == [j \in T |-> Origin(stay, j)]
  <2>9. f \in [T -> S \ {q}] /\ \A i, j \in T : f[i] = f[j] => i = j
    BY <2>8
  <2>10. f \in Injection(T, S \ {q})
    <3> HIDE DEF f
    <3> QED
      BY <2>9 DEF Injection, IsInjective
  <2> HIDE DEF f
  <2>11. IsFiniteSet(T) /\ Cardinality(T) <= Cardinality(S \ {q})
    BY <2>7, <2>10, FS_Injection
  <2>12. Cardinality(T) \in Nat
    BY <2>11, FS_CardinalityType
  <2>13. Cardinality(T) < Cardinality(S)
    BY <2>6, <2>7, <2>11, <2>12
  <2> QED
    BY <2>1, <2>2, <2>3, <2>4, <2>13 DEF KeptOrLostWithPeer
<1> QED
  BY <1>6, <1>7

\* The calls that do not delete peers leave the table as long as it was.
LEMMA OthersKeepLength ==
  ASSUME MeshInv, NEW text, text.id \in Ids \cup {NoId}, NEW addr \in Addrs
  PROVE  Len(peers) <= Len(PeersAfterAdd(text, addr))
         /\ PeersAfterAdd(text, addr) \in Seq(Peer)
BY AddPeerFacts DEF MeshInv

LEMMA RemovalStep ==
  MeshInv /\ [Next]_vars /\ Len(peers') < Len(peers) =>
    \A k \in DOMAIN fib : KeptOrLostWithPeer(k)
<1> SUFFICES ASSUME MeshInv, [Next]_vars, Len(peers') < Len(peers), NEW k \in DOMAIN fib
             PROVE  KeptOrLostWithPeer(k)
  OBVIOUS
<1> USE MeshAssumption
<1>1. peers \in Seq(Peer) /\ Len(peers) \in Nat /\ now \in Nat
  BY DEF MeshInv, TypeOK
<1>2. ASSUME NEW x \in ApiTexts, NEW a \in Addrs, AddPeer(x, a) PROVE FALSE
  <2>1. x.id \in Ids \cup {NoId}
    BY DEF ApiTexts, Text
  <2>2. Len(peers) <= Len(peers') /\ peers' \in Seq(Peer)
    BY <1>2, <2>1, OthersKeepLength DEF AddPeer
  <2> QED
    BY <1>1, <2>2
<1>3. ASSUME NEW i \in DOMAIN peers, RemovePeer(i) PROVE KeptOrLostWithPeer(k)
  BY <1>3, DropPeersLosesOwn DEF RemovePeer
<1>4. ASSUME NEW i \in DOMAIN peers, PeerSeen(i) PROVE FALSE
  <2>1. \A j \in DOMAIN peers : peers[j].last_seen <= now
    BY DEF MeshInv, TypeOK
  <2>2. peers' = Seen(peers, i)
    BY <1>4 DEF PeerSeen
  <2>3. Len(peers') = Len(peers)
    BY <1>1, <2>1, <2>2, SeenFacts
  <2> QED
    BY <1>1, <2>3
<1>5. ASSUME NEW t \in 0..now, CheckTimeouts(t) PROVE KeptOrLostWithPeer(k)
  <2> DEFINE gone == {i \in DOMAIN peers : Elapsed(t, peers[i].last_seen) > PeerTimeout}
  <2>1. gone \in SUBSET DOMAIN peers /\ DropPeers(gone)
    BY <1>5 DEF CheckTimeouts
  <2> HIDE DEF gone
  <2> QED
    BY <2>1, DropPeersLosesOwn
<1>6. ASSUME NEW x \in BeaconTexts, NEW a \in Addrs, NEW s \in PrefixLists, BeaconPeer(x, a, s)
      PROVE  FALSE
  <2> DEFINE added == PeersAfterAdd(x, a)
             i == AddedAt(x)
  <2>1. x.id \in Ids \cup {NoId}
    BY DEF BeaconTexts, Text
  <2>2. /\ added \in Seq(Peer) /\ Len(peers) <= Len(added)
        /\ \A j \in DOMAIN added : added[j].last_seen <= now
        /\ i # 0 => i \in DOMAIN added
    BY <2>1, AddPeerFacts DEF MeshInv
  <2>3. peers' = Seen(added, i) /\ i # 0
    BY <1>6 DEF BeaconPeer
  <2> HIDE DEF added, i
  <2>4. i \in 1..Len(added)
    BY <2>2, <2>3
  <2>5. Len(Seen(added, i)) = Len(added)
    BY <1>1, <2>2, <2>4, SeenFacts, Zenon
  <2>6. Len(peers') = Len(added) /\ Len(added) \in Nat
    BY <2>2, <2>3, <2>5
  <2> QED
    BY <1>1, <2>2, <2>6
<1>7. CASE UNCHANGED peers
  BY <1>1, <1>7
<1> QED
  BY <1>2, <1>3, <1>4, <1>5, <1>6, <1>7
     DEF Next, Call, vars, AddFib, RemoveFib, FibPrune, BeaconPrefix, Tick

\* What is left of n elements when one of them goes is fewer than n.
LEMMA FewerThanAll ==
  ASSUME NEW n \in Nat, NEW q \in 1..n, NEW stay \in SUBSET ((1..n) \ {q})
  PROVE  Cardinality(stay) < n
<1> DEFINE others == (1..n) \ {q}
<1>1. IsFiniteSet(1..n) /\ Cardinality(1..n) = n
  BY FS_Interval
<1>2. IsFiniteSet(others) /\ Cardinality(others) = n - 1
  BY <1>1, FS_RemoveElement
<1>3. stay \in SUBSET others
  OBVIOUS
<1> HIDE DEF others
<1>4. IsFiniteSet(stay) /\ Cardinality(stay) <= Cardinality(others)
  BY <1>2, <1>3, FS_Subset
<1>5. Cardinality(stay) \in Nat
  BY <1>4, FS_CardinalityType
<1> QED
  BY <1>2, <1>4, <1>5

\* A deletion that leaves the peer table as long as it was deletes nothing: every
\* route is still at its index (mesh.c:163-174 with no peer timed out).
LEMMA DropNobody ==
  ASSUME MeshInv, NEW gone \in SUBSET DOMAIN peers, DropPeers(gone),
         ~ (Len(peers') < Len(peers)), NEW k \in DOMAIN fib
  PROVE  KeptOrLostOnPurpose(k)
<1>1. PICK stay : stay = DOMAIN peers \ gone
  OBVIOUS
<1>2. PICK kept : kept = {l \in DOMAIN fib : fib[l].peer_index \notin gone}
  OBVIOUS
<1>3. /\ Len(peers') = Cardinality(stay) /\ Cardinality(stay) \in Nat
      /\ fib' \in Seq(Route) /\ Len(fib') = Cardinality(kept)
      /\ \A j \in 1..Cardinality(kept) : Moved(j, Origin(kept, j), stay, kept)
  BY <1>1, <1>2, DropPeersFacts
<1>4. /\ Len(fib) \in Nat /\ Len(peers) \in Nat /\ DOMAIN peers = 1..Len(peers)
      /\ DOMAIN fib = 1..Len(fib) /\ DOMAIN fib' = 1..Cardinality(kept)
  BY <1>3 DEF MeshInv, TypeOK
<1>5. PICK n \in Nat : n = Len(peers)
  BY <1>4
<1>6. gone = {}
  <2> SUFFICES ASSUME NEW q \in gone PROVE FALSE
    OBVIOUS
  <2>1. q \in 1..n /\ stay \in SUBSET ((1..n) \ {q})
    BY <1>1, <1>4, <1>5
  <2>2. Cardinality(stay) < n
    BY <2>1, FewerThanAll
  <2> QED
    BY <1>3, <1>5, <2>2
<1>7. stay = 1..n /\ kept = DOMAIN fib
  BY <1>1, <1>2, <1>4, <1>5, <1>6
<1>8. PICK q \in 1..n : q = fib[k].peer_index
  BY <1>4, <1>5 DEF MeshInv, RouteLeadsToAnnouncer
<1>9. Rank(stay, q) = q
  <2>1. {j \in 1..n : j <= q} = 1..q
    OBVIOUS
  <2>2. Cardinality(1..q) = q
    BY FS_Interval
  <2> QED
    BY <1>7, <2>1, <2>2 DEF Rank
<1>10. Rank(kept, k) \in DOMAIN fib' /\ Origin(kept, Rank(kept, k)) = k
  BY <1>4, <1>7, RankType, OriginOfRank
<1>11. Moved(Rank(kept, k), k, stay, kept)
  BY <1>3, <1>4, <1>10
<1> QED
  BY <1>8, <1>9, <1>10, <1>11 DEF Moved, KeptOrLostOnPurpose

\* mesh_add_fib takes no route away: it renews one in place or appends one.
LEMMA AddKeepsRoutes ==
  ASSUME MeshInv, NEW p, NEW i, NEW l, NEW via, fib' = FibAfterAdd(p, i, l, via),
         NEW k \in DOMAIN fib
  PROVE  KeptOrLostOnPurpose(k)
<1> SUFFICES /\ k \in DOMAIN fib' /\ fib'[k].prefix = fib[k].prefix
             /\ fib'[k].peer_index = fib[k].peer_index
  BY DEF KeptOrLostOnPurpose
<1>1. fib \in Seq(Route) /\ Len(fib) \in Nat /\ k \in 1..Len(fib) /\ fib[k] \in Route
  BY DEF MeshInv, TypeOK
<1>2. CASE i \notin DOMAIN peers \/ Len(fib) >= MaxFib
  BY <1>2 DEF FibAfterAdd
<1>3. CASE ~ (i \notin DOMAIN peers \/ Len(fib) >= MaxFib) /\ RouteSlots(p, i) # {}
  <2> DEFINE j == FirstOf(RouteSlots(p, i))
             e == [fib[j] EXCEPT !.lifetime_ms = l, !.created_at = now]
  <2>1. fib' = [fib EXCEPT ![j] = e]
    BY <1>3, Zenon DEF FibAfterAdd
  <2>2. k = j => e.prefix = fib[k].prefix /\ e.peer_index = fib[k].peer_index
    BY <1>1 DEF Route
  <2> HIDE DEF e, j
  <2> QED
    BY <2>1, <2>2
<1>4. CASE ~ (i \notin DOMAIN peers \/ Len(fib) >= MaxFib) /\ RouteSlots(p, i) = {}
  <2> DEFINE e == [prefix |-> p, peer_index |-> i, lifetime_ms |-> l, created_at |-> now,
                   via |-> via]
  <2>1. fib' = Append(fib, e)
    BY <1>4, Zenon DEF FibAfterAdd
  <2> HIDE DEF e
  <2>2. k \in DOMAIN fib' /\ fib'[k] = fib[k]
    BY <1>1, <2>1
  <2> QED
    BY <2>2
<1> QED
  BY <1>2, <1>3, <1>4

\* An entry that is compacted out of the FIB is one the caller named or one whose
\* lifetime was over.
LEMMA CompactKeepsRoutes ==
  ASSUME MeshInv, NEW kept \in SUBSET DOMAIN fib, fib' = Compact(fib, kept), NEW k \in kept
  PROVE  KeptOrLostOnPurpose(k)
<1>1. fib \in Seq(Route) /\ Len(fib) \in Nat /\ kept \in SUBSET (1..Len(fib))
  BY DEF MeshInv, TypeOK
<1>2. /\ Len(fib') = Cardinality(kept) /\ fib' \in Seq(Route)
      /\ \A j \in 1..Cardinality(kept) : fib'[j] = fib[Origin(kept, j)]
  BY <1>1, CompactType
<1>3. Rank(kept, k) \in 1..Cardinality(kept) /\ Origin(kept, Rank(kept, k)) = k
  BY <1>1, RankType, OriginOfRank
<1>4. Rank(kept, k) \in DOMAIN fib' /\ fib'[Rank(kept, k)] = fib[k]
  BY <1>2, <1>3
<1> QED
  BY <1>4 DEF KeptOrLostOnPurpose

LEMMA OrdinaryStep ==
  MeshInv /\ [Next]_vars /\ ~ (Len(peers') < Len(peers)) =>
    \A k \in DOMAIN fib : KeptOrLostOnPurpose(k)
<1> SUFFICES ASSUME MeshInv, [Next]_vars, ~ (Len(peers') < Len(peers)), NEW k \in DOMAIN fib
             PROVE  KeptOrLostOnPurpose(k)
  OBVIOUS
<1>1. CASE UNCHANGED fib
  BY <1>1 DEF KeptOrLostOnPurpose
<1>2. ASSUME NEW i \in DOMAIN peers, RemovePeer(i) PROVE KeptOrLostOnPurpose(k)
  BY <1>2, DropNobody DEF RemovePeer
<1>3. ASSUME NEW t \in 0..now, CheckTimeouts(t) PROVE KeptOrLostOnPurpose(k)
  <2> DEFINE gone == {i \in DOMAIN peers : Elapsed(t, peers[i].last_seen) > PeerTimeout}
  <2>1. gone \in SUBSET DOMAIN peers /\ DropPeers(gone)
    BY <1>3 DEF CheckTimeouts
  <2> HIDE DEF gone
  <2> QED
    BY <2>1, DropNobody
<1>4. ASSUME NEW p \in Prefixes, NEW i \in DOMAIN peers, NEW l \in Lifetimes, AddFib(p, i, l)
      PROVE  KeptOrLostOnPurpose(k)
  BY <1>4, AddKeepsRoutes DEF AddFib
<1>5. ASSUME NEW j \in DOMAIN fib, RemoveFib(j) PROVE KeptOrLostOnPurpose(k)
  <2>1. CASE k = j
    BY <1>5, <2>1 DEF KeptOrLostOnPurpose
  <2>2. CASE k # j
    BY <1>5, <2>2, CompactKeepsRoutes DEF RemoveFib
  <2> QED
    BY <2>1, <2>2
<1>6. ASSUME NEW t \in 0..now, FibPrune(t) PROVE KeptOrLostOnPurpose(k)
  <2> DEFINE kept == {j \in DOMAIN fib :
                        \/ fib[j].lifetime_ms = 0
                        \/ Elapsed(t, fib[j].created_at) <= fib[j].lifetime_ms}
  <2>1. CASE k \in kept
    <3>1. kept \in SUBSET DOMAIN fib /\ fib' = Compact(fib, kept)
      BY <1>6 DEF FibPrune
    <3> HIDE DEF kept
    <3> QED
      BY <2>1, <3>1, CompactKeepsRoutes
  <2>2. CASE k \notin kept
    <3>1. fib[k].lifetime_ms # 0 /\ ~ (Elapsed(t, fib[k].created_at) <= fib[k].lifetime_ms)
      BY <2>2
    <3>2. fib[k].lifetime_ms \in Nat /\ Elapsed(t, fib[k].created_at) \in Int
      <4>1. fib[k] \in Route /\ now \in Nat
        BY DEF MeshInv, TypeOK
      <4>2. fib[k].created_at \in Nat /\ fib[k].lifetime_ms \in Nat
        BY <4>1 DEF Route
      <4> QED
        BY <4>1, <4>2, MeshAssumption DEF Elapsed
    <3> QED
      BY <1>6, <3>1, <3>2 DEF KeptOrLostOnPurpose
  <2> QED
    BY <2>1, <2>2
<1>7. ASSUME BeaconPrefix PROVE KeptOrLostOnPurpose(k)
  BY <1>7, AddKeepsRoutes DEF BeaconPrefix
<1> QED
  BY <1>1, <1>2, <1>3, <1>4, <1>5, <1>6, <1>7
     DEF Next, Call, vars, AddPeer, PeerSeen, BeaconPeer, Tick

\* Whatever the number of peers that go in one pass, a route is lost only with the
\* peer it leads to, and in a step in which no peer goes only by its removal or
\* by a pruning after its lifetime (mesh.c:124-128, 163-174, 204-211, 232-245).
THEOREM OthersKeepTheirRoutes == Spec => OnlyOwnRoutesLost
<1>1. MeshInv /\ [Next]_vars =>
        [\A k \in DOMAIN fib : IF Len(peers') < Len(peers) THEN KeptOrLostWithPeer(k)
                                                           ELSE KeptOrLostOnPurpose(k)]_vars
  BY RemovalStep, OrdinaryStep
<1> QED
  BY <1>1, MeshTablesSafe, PTL DEF Spec, OnlyOwnRoutesLost
============================================================================
