----------------------------- MODULE FetchNode -----------------------------
(***************************************************************************)
(* A network node (net.c): the thread that calls psirp_net_fetch and the   *)
(* receiver thread that answers its wait, sharing the content store and    *)
(* the table of pending interests without a lock.                          *)
(*                                                                         *)
(* The network.  Packets are UDP and other nodes push Data unasked         *)
(* (psirp_net_publish), so an Interest or a Data packet for any name may   *)
(* reach the receiver at any time, any number of times or never: loss,     *)
(* delay, duplication and reordering need no state of their own.           *)
(*                                                                         *)
(* Abstraction.  Names carry no version.  The store is the set of slots in *)
(* use and, for each name, the clock ticks its content stays fresh: its    *)
(* own structure is ContentStore's.  A call on the store and a scan of the *)
(* pending table are one step.  Taking a pending slot is five: the bound   *)
(* test, the read of the volatile count, its write, the memset and the     *)
(* rest of the slot, since two threads may do it at once.                  *)
(*                                                                         *)
(* Outside the table.  Both threads may pass the test with one place left, *)
(* and the second then writes pending[256], which is not there: its first  *)
(* bytes are those of pending_count (net.h:57-58).  The model goes on with *)
(* what the memory layout makes of it: the memset clears the count, and    *)
(* then the count holds the address of the name's first component.  That   *)
(* the process survives its reads and writes there is assumed.             *)
(***************************************************************************)
EXTENDS Integers, Sequences, FiniteSets

CONSTANTS
  Names,        \* content names
  NoName,
  Routed,       \* the names psirp_fib_lookup finds a next hop for
  NumPeers,     \* peer_count
  MaxPending,   \* the size of the pending table (256)
  StoreSlots,   \* the capacity of the content store
  Timeout,      \* timeout_ms of a fetch, in clock ticks
  Freshness,    \* how long received content stays fresh, in clock ticks
  MaxFetches    \* bound: the number of fetches

ASSUME FetchAssumption ==
  /\ NoName \notin Names /\ Routed \subseteq Names /\ IsFiniteSet(Names)
  /\ NumPeers \in Nat /\ MaxPending \in Nat /\ StoreSlots \in Nat
  /\ Timeout \in Nat /\ Freshness \in Nat /\ MaxFetches \in Nat

VARIABLES
  pending,        \* the pending table
  pending_count,
  slots,          \* the names that have an entry in the content store
  fresh,          \* for each name, the ticks its entry stays unexpired
  caller,         \* the thread in psirp_net_fetch
  recv,           \* the receiver thread
  fetches,        \* the fetches made so far
  crossed,        \* history: a count was written that another thread had changed
  overrun,        \* history: a slot outside the table was written
  lapsed          \* history: in this fetch, its content expired, or an interest was
                  \* answered whose content the store did not hold

vars == <<pending, pending_count, slots, fresh, caller, recv, fetches, crossed, overrun, lapsed>>

\* The count 257, and every number past the table, an address among them.
Past == MaxPending + 1

Taking == {"check", "load", "bump", "zero", "fill"}

\* caller: pc, the name fetched, the peers still to be asked, the interests sent,
\* the count read when a slot is taken, the ticks to the deadline, the result.
Caller ==
  [pc : {"idle", "lookup", "send", "wait", "scan", "last"} \cup Taking,
   name : Names \cup {NoName}, ask : 0..NumPeers, sent : 0..NumPeers,
   slot : 0..Past, left : 0..Timeout, result : {"none", "content", "null"}]

Receiver ==
  [pc : {"idle", "clear"} \cup Taking, name : Names \cup {NoName}, slot : 0..Past]

Empty == [name |-> NoName, active |-> FALSE]

----------------------------------------------------------------------------
(* The content store, as far as a fetch depends on it *)

Held(n) == fresh[n] > 0

\* Mutation: one entry more than there are slots.
StoreRefusesLate(n) == n \notin slots /\ Cardinality(slots) > StoreSlots

\* A new entry needs a free slot; an entry in the store, even an expired one, is
\* refreshed.
StoreRefuses(n) == n \notin slots /\ Cardinality(slots) >= StoreSlots

\* psirp_cs_store.
StoreData(n) ==
  IF StoreRefuses(n) THEN UNCHANGED <<slots, fresh>>
  ELSE /\ slots' = slots \cup {n}
       /\ fresh' = [fresh EXCEPT ![n] = Freshness]

----------------------------------------------------------------------------
(* The pending table *)

StillPending(n) ==
  \E i \in 1..MaxPending : i <= pending_count /\ pending[i].active /\ pending[i].name = n

\* With a count past the table the scan goes on over what lies behind it, which may
\* look like an active slot of the name.
Behind == IF pending_count > MaxPending THEN BOOLEAN ELSE {FALSE}

\* An answer clears the first active slot of its name.
ClearFirst(n) ==
  LET Mine(i) == i <= pending_count /\ pending[i].active /\ pending[i].name = n
  IN  [i \in 1..MaxPending |->
         IF Mine(i) /\ \A j \in 1..(i - 1) : ~Mine(j)
           THEN [name |-> n, active |-> FALSE] ELSE pending[i]]

----------------------------------------------------------------------------
(* The caller: psirp_net_fetch *)

Goto(step) == [caller EXCEPT !.pc = step]

Return(result) == [caller EXCEPT !.pc = "idle", !.result = result]

Fetch(n) ==
  /\ caller.pc = "idle" /\ fetches < MaxFetches
  /\ fetches' = fetches + 1
  /\ caller' = [caller EXCEPT !.pc = "lookup", !.name = n, !.sent = 0, !.left = 0,
                              !.result = "none"]
  /\ lapsed' = FALSE
  /\ UNCHANGED <<pending, pending_count, slots, fresh, recv, crossed, overrun>>

\* The first lookup; then every known peer is asked.
FirstLookup ==
  /\ caller.pc = "lookup"
  /\ caller' = IF Held(caller.name) THEN Return("content")
               ELSE [Goto("send") EXCEPT !.ask = NumPeers]
  /\ UNCHANGED <<pending, pending_count, slots, fresh, recv, fetches, crossed, overrun, lapsed>>

\* psirp_net_interest sends first and takes a slot afterwards; a failed send
\* takes none.  With no peer left (or none at all, when a multicast interest
\* goes out that is not tracked) the deadline is set.
SendInterest(ok) ==
  /\ caller.pc = "send" /\ caller.ask > 0
  /\ caller' = IF ok THEN [Goto("check") EXCEPT !.ask = @ - 1, !.sent = @ + 1]
                     ELSE [caller EXCEPT !.ask = @ - 1]
  /\ UNCHANGED <<pending, pending_count, slots, fresh, recv, fetches, crossed, overrun, lapsed>>

SetDeadline ==
  /\ caller.pc = "send" /\ caller.ask = 0
  /\ caller' = [Goto("wait") EXCEPT !.left = Timeout]
  /\ UNCHANGED <<pending, pending_count, slots, fresh, recv, fetches, crossed, overrun, lapsed>>

\* The wait loop's condition and its lookup.
Wait ==
  /\ caller.pc = "wait"
  /\ caller' = IF caller.left = 0 THEN Goto("last")
               ELSE IF Held(caller.name) THEN Return("content")
               ELSE Goto("scan")
  /\ UNCHANGED <<pending, pending_count, slots, fresh, recv, fetches, crossed, overrun, lapsed>>

\* Mutation: every turn of the loop starts the timeout again.
ScanRestarts ==
  /\ caller.pc = "scan"
  /\ caller' = IF StillPending(caller.name)
                 THEN [Goto("wait") EXCEPT !.left = Timeout] ELSE Goto("last")
  /\ UNCHANGED <<pending, pending_count, slots, fresh, recv, fetches, crossed, overrun, lapsed>>

\* The loop goes on (after 100 us) while an interest for the name is pending.
Scan ==
  /\ caller.pc = "scan"
  /\ \E found \in Behind :
       caller' = IF StillPending(caller.name) \/ found THEN Goto("wait") ELSE Goto("last")
  /\ UNCHANGED <<pending, pending_count, slots, fresh, recv, fetches, crossed, overrun, lapsed>>

\* Mutation: the loop's exit gives up without the last lookup.
GiveUp ==
  /\ caller.pc = "last"
  /\ caller' = Return("null")
  /\ UNCHANGED <<pending, pending_count, slots, fresh, recv, fetches, crossed, overrun, lapsed>>

\* The lookup after the loop.
LastLookup ==
  /\ caller.pc = "last"
  /\ caller' = Return(IF Held(caller.name) THEN "content" ELSE "null")
  /\ UNCHANGED <<pending, pending_count, slots, fresh, recv, fetches, crossed, overrun, lapsed>>

----------------------------------------------------------------------------
(* Taking a pending slot, by either thread *)

ThreadOf(th) == IF th = "caller" THEN caller ELSE recv

\* Thread th goes to a step; `done' is where psirp_net_interest returns to.
Move(th, step, done, slot) ==
  IF th = "caller"
    THEN /\ caller' = [caller EXCEPT !.pc = IF step = "done" THEN done ELSE step,
                                     !.slot = slot]
         /\ UNCHANGED recv
    ELSE /\ recv' = [recv EXCEPT !.pc = IF step = "done" THEN "idle" ELSE step,
                                 !.slot = slot]
         /\ UNCHANGED caller

\* The place after k, for the counts the model tells apart.
After(k) == IF k < Past THEN k + 1 ELSE Past

Unstored == UNCHANGED <<slots, fresh, fetches, lapsed>>

CheckRoom(th) ==
  /\ ThreadOf(th).pc = "check"
  /\ Move(th, IF pending_count < MaxPending THEN "load" ELSE "done", "send", 0)
  /\ Unstored /\ UNCHANGED <<pending, pending_count, crossed, overrun>>

\* pending_count++ is a read and a write; the slot is the one read.
LoadCount(th) ==
  /\ ThreadOf(th).pc = "load"
  /\ Move(th, "bump", "send", pending_count)
  /\ Unstored /\ UNCHANGED <<pending, pending_count, crossed, overrun>>

BumpCount(th) ==
  /\ ThreadOf(th).pc = "bump"
  /\ pending_count' = After(ThreadOf(th).slot)
  /\ Move(th, "zero", "send", ThreadOf(th).slot)
  /\ crossed' = (crossed \/ pending_count # ThreadOf(th).slot)
  /\ Unstored /\ UNCHANGED <<pending, overrun>>

\* A write to slot s: entry in the table, count in the first slot behind it; what lies
\* further is not modelled.
WriteSlot(s, entry, count) ==
  /\ pending' = IF s < MaxPending THEN [pending EXCEPT ![s + 1] = entry] ELSE pending
  /\ pending_count' = IF s = MaxPending THEN count ELSE pending_count
  /\ overrun' = (overrun \/ s >= MaxPending)

\* The memset.
ZeroSlot(th) ==
  /\ ThreadOf(th).pc = "zero"
  /\ WriteSlot(ThreadOf(th).slot, Empty, 0)
  /\ Move(th, "fill", "send", ThreadOf(th).slot)
  /\ Unstored /\ UNCHANGED crossed

\* The name and the rest, `active' last.
FillSlot(th) ==
  /\ ThreadOf(th).pc = "fill"
  /\ WriteSlot(ThreadOf(th).slot, [name |-> ThreadOf(th).name, active |-> TRUE], Past)
  /\ Move(th, "done", "send", 0)
  /\ Unstored /\ UNCHANGED crossed

TakeSlot(th) ==
  CheckRoom(th) \/ LoadCount(th) \/ BumpCount(th) \/ ZeroSlot(th) \/ FillSlot(th)

----------------------------------------------------------------------------
(* The receiver: recv_thread_func *)

\* A Data packet is stored first; whether the store took it is not asked.
ReceiveData(n) ==
  /\ recv.pc = "idle"
  /\ StoreData(n)
  /\ recv' = [recv EXCEPT !.pc = "clear", !.name = n]
  /\ UNCHANGED <<pending, pending_count, caller, fetches, crossed, overrun, lapsed>>

ClearPending ==
  /\ recv.pc = "clear"
  /\ pending' = ClearFirst(recv.name)
  /\ recv' = [recv EXCEPT !.pc = "idle"]
  /\ lapsed' = (lapsed \/ (recv.name = caller.name /\ ~Held(recv.name)))
  /\ UNCHANGED <<pending_count, slots, fresh, caller, fetches, crossed, overrun>>

\* An Interest for content that is not held is sent on along the FIB and takes a
\* pending slot too.  (One for content that is held is answered and changes
\* nothing here; one without a route is dropped.)
ReceiveInterest(n) ==
  /\ recv.pc = "idle"
  /\ ~Held(n) /\ n \in Routed
  /\ recv' = [recv EXCEPT !.pc = "check", !.name = n]
  /\ UNCHANGED <<pending, pending_count, slots, fresh, caller, fetches, crossed, overrun, lapsed>>

----------------------------------------------------------------------------

Init ==
  /\ pending = [i \in 1..MaxPending |-> Empty]
  /\ pending_count = 0
  /\ slots = {}
  /\ fresh = [n \in Names |-> 0]
  /\ caller = [pc |-> "idle", name |-> NoName, ask |-> 0, sent |-> 0, slot |-> 0,
               left |-> 0, result |-> "none"]
  /\ recv = [pc |-> "idle", name |-> NoName, slot |-> 0]
  /\ fetches = 0
  /\ crossed = FALSE
  /\ overrun = FALSE
  /\ lapsed = FALSE

Less(k) == IF k = 0 THEN 0 ELSE k - 1

\* The clock: the deadline comes nearer and content ages.  It matters while a
\* fetch waits or content is fresh.
Tick ==
  /\ caller.left > 0 \/ \E n \in Names : fresh[n] > 0
  /\ caller' = [caller EXCEPT !.left = Less(@)]
  /\ fresh' = [n \in Names |-> Less(fresh[n])]
  /\ lapsed' = (lapsed \/ \E n \in Names : n = caller.name /\ fresh[n] = 1)
  /\ UNCHANGED <<pending, pending_count, slots, recv, fetches, crossed, overrun>>

CallerStep ==
  \/ FirstLookup
  \/ \E ok \in BOOLEAN : SendInterest(ok)
  \/ SetDeadline
  \/ Wait
  \/ Scan
  \/ LastLookup
  \/ TakeSlot("caller")

ReceiverStep ==
  \/ \E n \in Names : ReceiveData(n) \/ ReceiveInterest(n)
  \/ ClearPending
  \/ TakeSlot("recv")

Next ==
  \/ \E n \in Names : Fetch(n)
  \/ CallerStep
  \/ ReceiverStep
  \/ Tick

Spec == Init /\ [][Next]_vars

\* The calling thread is scheduled and time passes; the network and the receiver
\* owe nothing.
FairSpec == Spec /\ WF_vars(CallerStep) /\ WF_vars(Tick)

----------------------------------------------------------------------------
(* Properties *)

\* The table, the threads' registers and the store hold what they should.
TypeOK ==
  /\ pending \in [1..MaxPending -> [name : Names \cup {NoName}, active : BOOLEAN]]
  /\ pending_count \in 0..Past
  /\ slots \subseteq Names /\ Cardinality(slots) <= StoreSlots
  /\ fresh \in [Names -> 0..Freshness]
  /\ caller \in Caller /\ recv \in Receiver
  /\ fetches \in 0..MaxFetches /\ crossed \in BOOLEAN
  /\ overrun \in BOOLEAN /\ lapsed \in BOOLEAN
  /\ \A n \in Names : Held(n) => n \in slots

\* The thread has sent an interest and comes back without content although the
\* deadline has not passed.
GaveUpEarly ==
  caller.pc = "idle" /\ caller.result = "null" /\ caller.sent > 0 /\ caller.left > 0

\* An answer that arrives in time is not lost between the two threads, in
\* whatever order the receiver's store and clear and the caller's send, slot,
\* lookup and scan interleave (net.c:188-202, 291-305, 383-428): a fetch gives
\* up early only if a thread wrote back a count the other had changed, or wrote
\* outside the table, or the table was full, or the store refused the content or
\* let it expire.
EarlyNullExplained ==
  GaveUpEarly => crossed \/ overrun \/ pending_count >= MaxPending \/ lapsed

\* Every fetch returns: its wait is bounded by the deadline whatever the network
\* and the receiver do (net.c:402-425).
FetchReturns == (caller.pc # "idle") ~> (caller.pc = "idle")

----------------------------------------------------------------------------
(* What the code says and two threads do not keep to *)

\* net.c:297 "if (node->pending_count < 256)" stands before the only place that
\* takes a slot of "pending[256]; ///< Outstanding interests" (net.h:57), with a
\* count that is "cross-thread" (net.h:58): a slot written is in the table.
SlotsInTable ==
  \A th \in {"caller", "recv"} :
    ThreadOf(th).pc \in {"zero", "fill"} => ThreadOf(th).slot < MaxPending
============================================================================
