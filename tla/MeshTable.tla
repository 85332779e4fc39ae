----------------------------- MODULE MeshTable -----------------------------
(***************************************************************************)
(* The mesh overlay's two tables (mesh.c:92-399): the peers, and the FIB   *)
(* whose entries name their next hop by its INDEX in the peer table.  The  *)
(* public operations are called one at a time, by one thread, in any       *)
(* order.  Indices start at 1 here.                                        *)
(*                                                                         *)
(* Data abstraction.  A peer name is an identity with or without the       *)
(* leading '/'; a prefix is a value.  A peer's own list of prefixes, which *)
(* nothing reads, and the counters of mesh_stats are left out.  FIB        *)
(* entries carry one history field, `via': the name of the peer that they  *)
(* were added for.                                                         *)
(***************************************************************************)
EXTENDS Integers, Sequences, FiniteSets, Compaction

CONSTANTS
  Ids,              \* peer identities
  NoId,             \* the identity of a beacon with an empty name
  Addrs,            \* peer addresses
  Prefixes,         \* content prefixes
  PrefixLists,      \* the prefix lists beacons carry
  Lifetimes,        \* lifetime_ms values given to mesh_add_fib, 0 = permanent
  MaxPeers,         \* MESH_MAX_PEERS
  MaxFib,           \* MESH_MAX_FIB
  MaxPrefixes,      \* MESH_MAX_PREFIXES
  PeerTimeout,      \* MESH_PEER_TIMEOUT
  BeaconLifetime,   \* MESH_BEACON_INTERVAL * 3
  Wrap,             \* 2^64
  MaxTime           \* bound: the last value of the clock

ASSUME MeshAssumption ==
  /\ NoId \notin Ids /\ PrefixLists \subseteq Seq(Prefixes)
  /\ Lifetimes \subseteq Nat /\ BeaconLifetime \in Nat /\ PeerTimeout \in Nat
  /\ MaxPeers \in Nat /\ MaxFib \in Nat /\ MaxPrefixes \in Nat
  /\ Wrap \in Nat \ {0} /\ MaxTime \in Nat

VARIABLES
  peers,            \* the peer table
  fib,              \* the forwarding table
  beacon,           \* the beacon being processed: its peer and remaining prefixes
  now               \* mesh_now_ms()

vars == <<peers, fib, beacon, now>>

----------------------------------------------------------------------------
(* Records *)

\* A peer name as text: an identity, with or without the leading '/'.
Text(id, slash) == [id |-> id, slash |-> slash]

\* A call of the API names a peer "/p"; a beacon carries "p", or nothing.
ApiTexts == {Text(id, TRUE) : id \in Ids}
BeaconTexts == {Text(id, FALSE) : id \in Ids \cup {NoId}}

Peer ==
  [name : Ids \cup {NoId}, addr : Addrs, state : {"discovered", "connected"}, last_seen : Nat]

Route ==
  [prefix : Prefixes, peer_index : Nat \ {0}, lifetime_ms : Nat, created_at : Nat,
   via : Ids \cup {NoId}]

Beacon == [peer : Nat, via : Ids \cup {NoId}, rest : Seq(Prefixes)]

NoBeacon == [peer |-> 0, via |-> NoId, rest |-> <<>>]

\* mesh_peer_name_to_string: '/' is put in front of a stored name, an empty
\* name stays empty.
PeerText(p) == Text(p.name, p.name # NoId)

----------------------------------------------------------------------------
(* Peers *)

\* The slots whose printed name is the given text.
NamedSlots(text) == {i \in DOMAIN peers : PeerText(peers[i]) = text}

FirstOf(S) == CHOOSE i \in S : \A j \in S : i <= j

\* Mutation: a capacity check that lets one peer too many in.
PeersFullLate == Len(peers) > MaxPeers

PeersFull == Len(peers) >= MaxPeers

\* mesh_add_peer: the index it returns (0 for -1) and the table it leaves.  The
\* capacity is checked before the name is looked up.
AddedAt(text) ==
  IF PeersFull THEN 0
  ELSE IF NamedSlots(text) # {} THEN FirstOf(NamedSlots(text))
  ELSE Len(peers) + 1

PeersAfterAdd(text, addr) ==
  LET i == AddedAt(text)
  IN  IF i = 0 THEN peers
      ELSE IF i \in DOMAIN peers
        THEN [peers EXCEPT ![i] = [@ EXCEPT !.addr = addr, !.last_seen = now,
                                             !.state = "connected"]]
      ELSE Append(peers, [name |-> text.id, addr |-> addr, state |-> "discovered",
                          last_seen |-> now])

AddPeer(text, addr) ==
  /\ peers' = PeersAfterAdd(text, addr)
  /\ UNCHANGED <<fib, beacon, now>>

\* Mutation: the routes that point past a removed peer are removed with it.
RoutesBelow(gone) == {k \in DOMAIN fib : \A i \in gone : fib[k].peer_index < i}

\* The routes that stay when the peers at `gone' go.
RoutesOfOthers(gone) == {k \in DOMAIN fib : fib[k].peer_index \notin gone}

\* Mutation: the indices of the remaining routes are left as they were.
OldIndex(stay, i) == i

\* What a remaining route's index becomes when the peers at `stay' shift down.
NewIndex(stay, i) == Rank(stay, i)

\* Deleting the peers at `gone': their routes are deleted, the remaining peers
\* shift down, and the remaining routes' indices with them.
DropPeers(gone) ==
  LET stay == DOMAIN peers \ gone
      kept == RoutesOfOthers(gone)
  IN  /\ peers' = Compact(peers, stay)
      /\ fib' = [k \in 1..Cardinality(kept) |->
                   LET r == fib[Origin(kept, k)]
                   IN  [r EXCEPT !.peer_index = NewIndex(stay, r.peer_index)]]
      /\ UNCHANGED <<beacon, now>>

\* mesh_remove_peer.
RemovePeer(i) == i \in DOMAIN peers /\ DropPeers({i})

\* mesh_peer_seen.
Seen(table, i) ==
  [table EXCEPT ![i] = [@ EXCEPT !.last_seen = now, !.state = "connected"]]

PeerSeen(i) ==
  /\ i \in DOMAIN peers
  /\ peers' = Seen(peers, i)
  /\ UNCHANGED <<fib, beacon, now>>

\* now_ms - since, unsigned.
Elapsed(t, since) == (t - since) % Wrap

\* mesh_check_timeouts with the caller's reading t of the clock.
CheckTimeouts(t) ==
  DropPeers({i \in DOMAIN peers : Elapsed(t, peers[i].last_seen) > PeerTimeout})

----------------------------------------------------------------------------
(* FIB *)

\* Mutation: the duplicate scan stops one entry early.
RouteSlotsShort(prefix, i) ==
  {k \in DOMAIN fib : k < Len(fib) /\ fib[k].prefix = prefix /\ fib[k].peer_index = i}

\* The entries for a prefix and a peer.
RouteSlots(prefix, i) ==
  {k \in DOMAIN fib : fib[k].prefix = prefix /\ fib[k].peer_index = i}

\* mesh_add_fib: nothing when the peer is unknown or the table full, otherwise
\* the route's lifetime starts again, or the route is appended.
FibAfterAdd(prefix, i, lifetime, via) ==
  IF i \notin DOMAIN peers \/ Len(fib) >= MaxFib THEN fib
  ELSE IF RouteSlots(prefix, i) # {}
    THEN [fib EXCEPT ![FirstOf(RouteSlots(prefix, i))] =
                       [@ EXCEPT !.lifetime_ms = lifetime, !.created_at = now]]
  ELSE Append(fib, [prefix |-> prefix, peer_index |-> i, lifetime_ms |-> lifetime,
                    created_at |-> now, via |-> via])

AddFib(prefix, i, lifetime) ==
  /\ i \in DOMAIN peers
  /\ fib' = FibAfterAdd(prefix, i, lifetime, peers[i].name)
  /\ UNCHANGED <<peers, beacon, now>>

\* mesh_remove_fib.
RemoveFib(k) ==
  /\ k \in DOMAIN fib
  /\ fib' = Compact(fib, DOMAIN fib \ {k})
  /\ UNCHANGED <<peers, beacon, now>>

\* mesh_fib_prune with the caller's reading t of the clock.
FibPrune(t) ==
  /\ fib' = Compact(fib, {k \in DOMAIN fib :
                            \/ fib[k].lifetime_ms = 0
                            \/ Elapsed(t, fib[k].created_at) <= fib[k].lifetime_ms})
  /\ UNCHANGED <<peers, beacon, now>>

----------------------------------------------------------------------------
(* Beacons: mesh_process_beacon takes the name and the address first, then *)
(* loops over the prefixes, one step each; no other call starts meanwhile. *)

BeaconPeer(text, addr, prefixes) ==
  LET i == AddedAt(text)
      added == PeersAfterAdd(text, addr)
      count == IF Len(prefixes) <= MaxPrefixes THEN Len(prefixes) ELSE MaxPrefixes
  IN  /\ i # 0
      /\ peers' = Seen(added, i)
      /\ beacon' = IF count = 0 THEN NoBeacon
                   ELSE [peer |-> i, via |-> text.id, rest |-> SubSeq(prefixes, 1, count)]
      /\ UNCHANGED <<fib, now>>

BeaconPrefix ==
  /\ beacon.rest # <<>>
  /\ fib' = FibAfterAdd(Head(beacon.rest), beacon.peer, BeaconLifetime, beacon.via)
  /\ beacon' = IF Len(beacon.rest) = 1 THEN NoBeacon
                                       ELSE [beacon EXCEPT !.rest = Tail(@)]
  /\ UNCHANGED <<peers, now>>

----------------------------------------------------------------------------

Init ==
  /\ peers = <<>>
  /\ fib = <<>>
  /\ beacon = NoBeacon
  /\ now = 0

Tick ==
  /\ now < MaxTime
  /\ now' = now + 1
  /\ UNCHANGED <<peers, fib, beacon>>

\* A call of the API.
Call ==
  \/ \E x \in ApiTexts, a \in Addrs : AddPeer(x, a)
  \/ \E i \in DOMAIN peers : RemovePeer(i)
  \/ \E i \in DOMAIN peers : PeerSeen(i)
  \/ \E t \in 0..now : CheckTimeouts(t)
  \/ \E p \in Prefixes, i \in DOMAIN peers, l \in Lifetimes : AddFib(p, i, l)
  \/ \E k \in DOMAIN fib : RemoveFib(k)
  \/ \E t \in 0..now : FibPrune(t)
  \/ \E x \in BeaconTexts, a \in Addrs, s \in PrefixLists : BeaconPeer(x, a, s)

Next ==
  \/ beacon.rest = <<>> /\ Call
  \/ BeaconPrefix
  \/ Tick

Spec == Init /\ [][Next]_vars

----------------------------------------------------------------------------
(* Properties *)

\* The tables hold well-formed records within their capacities, none stamped
\* later than the clock.
TypeOK ==
  /\ peers \in Seq(Peer) /\ Len(peers) <= MaxPeers
  /\ fib \in Seq(Route) /\ Len(fib) <= MaxFib
  /\ beacon \in Beacon
  /\ now \in 0..MaxTime
  /\ \A i \in DOMAIN peers : peers[i].last_seen <= now
  /\ \A k \in DOMAIN fib : fib[k].created_at <= now

\* Every route still leads to the peer it was added for, however often other
\* peers' removal has shifted the peer table: mesh_remove_peer renumbers
\* exactly the routes it has to (mesh.c:123-141, mesh.h:14).
RouteLeadsToAnnouncer ==
  \A k \in DOMAIN fib :
    /\ fib[k].peer_index \in DOMAIN peers
    /\ peers[fib[k].peer_index].name = fib[k].via

\* A peer has at most one route for a prefix: the duplicate scan of mesh_add_fib
\* (mesh.c:183-192) keeps working after the indices it compares were
\* renumbered.
RoutesUnique ==
  \A k, l \in DOMAIN fib :
    fib[k].prefix = fib[l].prefix /\ fib[k].peer_index = fib[l].peer_index => k = l

\* The slots that hold a given peer record.
CopiesOf(p, table) == {i \in DOMAIN table : table[i] = p}

\* The route at k is still there, or a peer record like its own is gone.
KeptOrLostWithPeer(k) ==
  LET r == fib[k]
      p == peers[r.peer_index]
  IN  \/ \E l \in DOMAIN fib' :
           /\ fib'[l].prefix = r.prefix /\ fib'[l].created_at = r.created_at
           /\ fib'[l].lifetime_ms = r.lifetime_ms
           /\ peers'[fib'[l].peer_index] = p
      \/ Cardinality(CopiesOf(p, peers')) < Cardinality(CopiesOf(p, peers))

\* The route at k is still there, renewed perhaps, or the caller removed it, or
\* its lifetime was over at the reading of the clock the caller pruned with.
KeptOrLostOnPurpose(k) ==
  LET r == fib[k]
  IN  \/ \E l \in DOMAIN fib' :
           fib'[l].prefix = r.prefix /\ fib'[l].peer_index = r.peer_index
      \/ RemoveFib(k)
      \/ \E t \in 0..now : /\ FibPrune(t)
                           /\ r.lifetime_ms # 0
                           /\ Elapsed(t, r.created_at) > r.lifetime_ms

\* Removing peers, one or many, costs no other peer its routes
\* (mesh.c:124-128, 163-174), and a call that removes no peer costs a route
\* only by removing that very route or by pruning it after its lifetime
\* (mesh.c:204-211, 232-245).
OnlyOwnRoutesLost ==
  [][\A k \in DOMAIN fib :
       IF Len(peers') < Len(peers) THEN KeptOrLostWithPeer(k)
                                   ELSE KeptOrLostOnPurpose(k)]_vars

\* While a beacon's prefixes are being added, the index mesh_process_beacon
\* holds (mesh.c:358) is still that of the announcing peer.
BeaconSound ==
  beacon.rest # <<>> =>
    /\ beacon.peer \in DOMAIN peers
    /\ peers[beacon.peer].name = beacon.via

\* The inductive invariant behind RouteLeadsToAnnouncer and RoutesUnique.
MeshInv == TypeOK /\ RouteLeadsToAnnouncer /\ RoutesUnique /\ BeaconSound

----------------------------------------------------------------------------
(* What the documentation says and the code does not do *)

\* mesh.c:357 "Add/update peer": a beacon of a peer that is in the table updates
\* its entry, so no named peer is in the table twice.
PeersDistinct ==
  \A i, j \in DOMAIN peers :
    peers[i].name = peers[j].name /\ peers[i].name # NoId => i = j
============================================================================
