----------------------------- MODULE MeshDemo -----------------------------
(***************************************************************************)
(* The two threads of mesh_demo.c on the tables of MeshTable, which they   *)
(* share without a lock.  The receiver (mesh_recv_thread) processes one    *)
(* beacon after the other; the main thread, after a line of input, reads   *)
(* the clock and does the maintenance with that reading.                   *)
(*                                                                         *)
(* A step is one call on the tables.  The accesses within a call race too; *)
(* what goes wrong here goes wrong even when each call is atomic.          *)
(***************************************************************************)
EXTENDS MeshTable

VARIABLES
  pc,           \* what the main thread does next
  t             \* the local `now' of its loop (mesh_demo.c:225)

demoVars == <<peers, fib, beacon, now, pc, t>>

DemoInit == Init /\ pc = "input" /\ t = 0

\* mesh_demo.c:211-226: a line of input, then the clock; last_beacon is 0 at the
\* first turn and the interval may have passed at any later one.
ReadClock ==
  /\ pc = "input"
  /\ t' = now
  /\ pc' = "timeouts"
  /\ UNCHANGED <<peers, fib, beacon, now>>

\* mesh_demo.c:228, after mesh_send_beacon, which changes no table.
Timeouts ==
  /\ pc = "timeouts"
  /\ CheckTimeouts(t)
  /\ pc' = "prune"
  /\ UNCHANGED t

\* mesh_demo.c:229-230.
Prune ==
  /\ pc = "prune"
  /\ FibPrune(t)
  /\ pc' = "input"
  /\ UNCHANGED t

\* mesh_demo.c:57-64.
ReceiveBeacon ==
  /\ beacon.rest = <<>>
  /\ \E x \in BeaconTexts, a \in Addrs, s \in PrefixLists : BeaconPeer(x, a, s)
  /\ UNCHANGED <<pc, t>>

ReceivePrefix == BeaconPrefix /\ UNCHANGED <<pc, t>>

DemoTick == Tick /\ UNCHANGED <<pc, t>>

DemoNext ==
  ReadClock \/ Timeouts \/ Prune \/ ReceiveBeacon \/ ReceivePrefix \/ DemoTick

DemoSpec == DemoInit /\ [][DemoNext]_demoVars

----------------------------------------------------------------------------
(* What the documentation says and the code does not do *)

\* mesh.h:151 "Check for timed-out peers, mark as dead": the maintenance removes no peer that
\* was seen less than MESH_PEER_TIMEOUT ago.
FreshPeerKept ==
  [][Timeouts =>
       \A i \in DOMAIN peers :
         now - peers[i].last_seen <= PeerTimeout =>
           \E j \in DOMAIN peers' : peers'[j] = peers[i]]_demoVars
============================================================================
