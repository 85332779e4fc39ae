---------------------------- MODULE FetchProofs ----------------------------
(***************************************************************************)
(* Why a fetch gives up early, for any number of names, peers, slots and   *)
(* ticks.  The argument has three layers: the types with what the threads' *)
(* registers hold (FetchTypes); two threads that have not overwritten each *)
(* other's count nor left the table have taken different slots             *)
(* (SlotsApart); and a caller that has sent an interest has the content,   *)
(* or an active slot that the receiver is not about to write, or an excuse *)
(* (Accounted).  The last theorem is about a single thread taking slots.   *)
(***************************************************************************)
EXTENDS FetchNode, FiniteSetTheorems, TLAPS

FetchTypes ==
  /\ TypeOK
  /\ caller.pc # "idle" => caller.name \in Names
  /\ caller.pc = "lookup" => caller.sent = 0
  /\ caller.pc \in {"send"} \cup Taking => caller.sent + caller.ask <= NumPeers
  /\ recv.pc # "idle" => recv.name \in Names

\* The steps that write to the slot taken.
Writing == {"zero", "fill"}

SlotsApart ==
  ~crossed /\ ~overrun =>
    /\ caller.pc \in Writing /\ caller.slot < MaxPending => caller.slot < pending_count
    /\ recv.pc \in Writing /\ recv.slot < MaxPending => recv.slot < pending_count
    /\ caller.pc \in Writing /\ recv.pc \in Writing /\ caller.slot < MaxPending =>
         caller.slot # recv.slot

\* A slot holds the caller's interest, and the receiver will not overwrite it.
Tracked(i) ==
  /\ i \in 1..pending_count
  /\ pending[i].active /\ pending[i].name = caller.name
  /\ recv.pc \in Writing => recv.slot + 1 # i

Excused == crossed \/ overrun \/ pending_count >= MaxPending \/ lapsed

Accounted ==
  /\ caller.pc \in {"send", "wait", "scan"} /\ caller.sent > 0 =>
       Excused \/ Held(caller.name) \/ \E i \in 1..MaxPending : Tracked(i)
  /\ caller.pc = "last" /\ caller.sent > 0 /\ caller.left > 0 =>
       Excused \/ Held(caller.name)
  /\ EarlyNullExplained

FetchInv == FetchTypes /\ SlotsApart /\ Accounted

\* The steps of the caller between its calls on what the threads share.
CallerOnly ==
  \/ FirstLookup \/ SetDeadline \/ Wait \/ Scan \/ LastLookup
  \/ \E ok \in BOOLEAN : SendInterest(ok)

LEMMA PastType ==
  Past \in Nat /\ MaxPending \in Nat /\ MaxPending \in 0..Past /\ 0 \in 0..Past
BY FetchAssumption DEF Past

----------------------------------------------------------------------------
(* Registers *)

CallerSteps == {"idle", "lookup", "send", "wait", "scan", "last"} \cup Taking
ReceiverSteps == {"idle", "clear"} \cup Taking
Results == {"none", "content", "null"}

CallerAt(pc, name, ask, sent, slot, left, result) ==
  [pc |-> pc, name |-> name, ask |-> ask, sent |-> sent, slot |-> slot, left |-> left,
   result |-> result]

ReceiverAt(pc, name, slot) == [pc |-> pc, name |-> name, slot |-> slot]

CallerRecord ==
  caller = CallerAt(caller.pc, caller.name, caller.ask, caller.sent, caller.slot,
                    caller.left, caller.result)

CallerTypes ==
  /\ caller.pc \in CallerSteps /\ caller.name \in Names \cup {NoName}
  /\ caller.ask \in 0..NumPeers /\ caller.sent \in 0..NumPeers
  /\ caller.slot \in 0..Past /\ caller.left \in 0..Timeout
  /\ caller.result \in Results

ReceiverRecord == recv = ReceiverAt(recv.pc, recv.name, recv.slot)
ReceiverTypes == recv.name \in Names \cup {NoName} /\ recv.slot \in 0..Past

\* A thread is the record of its registers.
LEMMA ThreadParts ==
  ASSUME TypeOK
  PROVE  CallerRecord /\ CallerTypes /\ ReceiverRecord /\ ReceiverTypes
<1>1. caller \in Caller /\ recv \in Receiver
  BY DEF TypeOK
<1>2. CallerRecord /\ CallerTypes
  BY <1>1 DEF CallerRecord, CallerTypes, Caller, CallerAt, CallerSteps, Taking, Results
<1>3. ReceiverRecord /\ ReceiverTypes
  BY <1>1 DEF ReceiverRecord, ReceiverTypes, Receiver, ReceiverAt
<1> QED
  BY <1>2, <1>3

LEMMA CallerAtType ==
  ASSUME NEW pc \in CallerSteps, NEW name \in Names \cup {NoName}, NEW ask \in 0..NumPeers,
         NEW sent \in 0..NumPeers, NEW slot \in 0..Past, NEW left \in 0..Timeout,
         NEW result \in Results
  PROVE  LET c == CallerAt(pc, name, ask, sent, slot, left, result)
         IN  /\ c \in Caller /\ c.pc = pc /\ c.name = name /\ c.ask = ask /\ c.sent = sent
             /\ c.slot = slot /\ c.left = left /\ c.result = result
BY DEF Caller, CallerAt, CallerSteps, Taking, Results

----------------------------------------------------------------------------
(* What an action makes of the caller's registers *)

LEMMA FetchFacts ==
  ASSUME TypeOK, NEW n \in Names, Fetch(n)
  PROVE  /\ caller' \in Caller
         /\ caller'.pc = "lookup" /\ caller'.name = n /\ caller'.sent = 0
         /\ caller'.result = "none"
<1> DEFINE c == CallerAt("lookup", n, caller.ask, 0, caller.slot, 0, "none")
<1>1. CallerRecord /\ CallerTypes
  BY ThreadParts
<1>2. caller' = c
  BY <1>1 DEF CallerRecord, CallerAt, Fetch
<1>3. 0 \in 0..NumPeers /\ 0 \in 0..Timeout
  BY FetchAssumption
<1>4. "lookup" \in CallerSteps /\ "none" \in Results
  BY DEF CallerSteps, Taking, Results
<1> QED
  BY <1>1, <1>2, <1>3, <1>4, CallerAtType DEF CallerTypes

\* A step to another place in the code that leaves the registers alone.
LEMMA GotoFacts ==
  ASSUME TypeOK, NEW step \in CallerSteps, caller' = Goto(step)
  PROVE  /\ caller' \in Caller /\ caller'.pc = step /\ caller'.name = caller.name
         /\ caller'.ask = caller.ask /\ caller'.sent = caller.sent
         /\ caller'.left = caller.left /\ caller'.result = caller.result
<1> DEFINE c == CallerAt(step, caller.name, caller.ask, caller.sent, caller.slot,
                         caller.left, caller.result)
<1>1. CallerRecord /\ CallerTypes
  BY ThreadParts
<1>2. caller' = c
  BY <1>1 DEF CallerRecord, CallerAt, Goto
<1> QED
  BY <1>1, <1>2, CallerAtType DEF CallerTypes

LEMMA ReturnFacts ==
  ASSUME TypeOK, NEW result \in Results, caller' = Return(result)
  PROVE  /\ caller' \in Caller /\ caller'.pc = "idle" /\ caller'.name = caller.name
         /\ caller'.sent = caller.sent /\ caller'.left = caller.left
         /\ caller'.result = result
<1> DEFINE c == CallerAt("idle", caller.name, caller.ask, caller.sent, caller.slot,
                         caller.left, result)
<1>1. CallerRecord /\ CallerTypes
  BY ThreadParts
<1>2. caller' = c
  BY <1>1 DEF CallerRecord, CallerAt, Return
<1>3. "idle" \in CallerSteps
  BY DEF CallerSteps, Taking
<1> QED
  BY <1>1, <1>2, <1>3 DEF CallerTypes, Caller, CallerAt, CallerSteps, Taking, Results

\* The first lookup, when it finds nothing.
LEMMA AskAllFacts ==
  ASSUME TypeOK, caller' = [Goto("send") EXCEPT !.ask = NumPeers]
  PROVE  /\ caller' \in Caller /\ caller'.pc = "send" /\ caller'.name = caller.name
         /\ caller'.ask = NumPeers /\ caller'.sent = caller.sent
<1> DEFINE c == CallerAt("send", caller.name, NumPeers, caller.sent, caller.slot,
                         caller.left, caller.result)
<1>1. CallerRecord /\ CallerTypes
  BY ThreadParts
<1>2. caller' = c
  BY <1>1 DEF CallerRecord, CallerAt, Goto
<1>3. "send" \in CallerSteps /\ NumPeers \in 0..NumPeers
  BY FetchAssumption DEF CallerSteps, Taking
<1> QED
  BY <1>1, <1>2, <1>3 DEF CallerTypes, Caller, CallerAt, CallerSteps, Taking, Results

LEMMA SetDeadlineFacts ==
  ASSUME TypeOK, SetDeadline
  PROVE  /\ caller' \in Caller /\ caller'.pc = "wait" /\ caller'.name = caller.name
         /\ caller'.sent = caller.sent
<1> DEFINE c == CallerAt("wait", caller.name, caller.ask, caller.sent, caller.slot,
                         Timeout, caller.result)
<1>1. CallerRecord /\ CallerTypes
  BY ThreadParts
<1>2. caller' = c
  BY <1>1 DEF CallerRecord, CallerAt, SetDeadline, Goto
<1>3. "wait" \in CallerSteps /\ Timeout \in 0..Timeout
  BY FetchAssumption DEF CallerSteps, Taking
<1> QED
  BY <1>1, <1>2, <1>3, CallerAtType DEF CallerTypes

\* An interest that was sent is counted; its slot is taken next.
LEMMA SendInterestFacts ==
  ASSUME TypeOK, caller.sent + caller.ask <= NumPeers, NEW ok \in BOOLEAN, SendInterest(ok)
  PROVE  /\ caller' \in Caller /\ caller'.name = caller.name
         /\ caller'.sent + caller'.ask <= NumPeers
         /\ \/ caller'.pc = "check"
            \/ caller'.pc = "send" /\ caller'.sent = caller.sent
<1>1. CallerRecord /\ CallerTypes
  BY ThreadParts
<1>2. /\ caller.ask - 1 \in 0..NumPeers /\ caller.sent \in 0..NumPeers
      /\ caller.sent + 1 \in 0..NumPeers
  BY <1>1, FetchAssumption DEF CallerTypes, SendInterest
<1>3. caller.ask \in 0..NumPeers /\ NumPeers \in Nat
  BY <1>1, FetchAssumption DEF CallerTypes
<1>4. "check" \in CallerSteps /\ "send" \in CallerSteps /\ caller.pc = "send"
  BY DEF CallerSteps, Taking, SendInterest
<1>5. CASE ok
  <2> DEFINE c == CallerAt("check", caller.name, caller.ask - 1, caller.sent + 1, caller.slot,
                           caller.left, caller.result)
  <2>1. caller' = c
    BY <1>1, <1>5 DEF CallerRecord, CallerAt, SendInterest, Goto
  <2>2. /\ caller' \in Caller /\ caller'.pc = "check" /\ caller'.name = caller.name
        /\ caller'.ask = caller.ask - 1 /\ caller'.sent = caller.sent + 1
    BY <1>1, <1>2, <1>4, <2>1 DEF CallerTypes, Caller, CallerAt, CallerSteps, Taking, Results
  <2> QED
    BY <1>2, <1>3, <2>2
<1>6. CASE ~ok
  <2> DEFINE c == CallerAt("send", caller.name, caller.ask - 1, caller.sent, caller.slot,
                           caller.left, caller.result)
  <2>1. caller' = c
    BY <1>1, <1>4, <1>6 DEF CallerRecord, CallerAt, SendInterest
  <2>2. /\ caller' \in Caller /\ caller'.pc = "send" /\ caller'.name = caller.name
        /\ caller'.ask = caller.ask - 1 /\ caller'.sent = caller.sent
    BY <1>1, <1>2, <1>4, <2>1 DEF CallerTypes, Caller, CallerAt, CallerSteps, Taking, Results
  <2> QED
    BY <1>2, <1>3, <2>2
<1> QED
  BY <1>5, <1>6

\* A step of taking a slot.
LEMMA MoveFacts ==
  ASSUME TypeOK, NEW step \in {"done"} \cup Taking, NEW slot \in 0..Past
  PROVE  /\ Move("caller", step, "send", slot) =>
              /\ caller' \in Caller /\ recv' = recv
              /\ caller'.pc = (IF step = "done" THEN "send" ELSE step)
              /\ caller'.name = caller.name /\ caller'.ask = caller.ask
              /\ caller'.sent = caller.sent /\ caller'.slot = slot
              /\ caller'.left = caller.left /\ caller'.result = caller.result
         /\ Move("recv", step, "send", slot) =>
              /\ recv' \in Receiver /\ caller' = caller
              /\ recv'.pc = (IF step = "done" THEN "idle" ELSE step)
              /\ recv'.name = recv.name /\ recv'.slot = slot
<1>1. CallerRecord /\ CallerTypes /\ ReceiverRecord /\ ReceiverTypes
  BY ThreadParts
<1>2. ASSUME Move("caller", step, "send", slot)
      PROVE  /\ caller' \in Caller /\ recv' = recv
             /\ caller'.pc = (IF step = "done" THEN "send" ELSE step)
             /\ caller'.name = caller.name /\ caller'.ask = caller.ask
             /\ caller'.sent = caller.sent /\ caller'.slot = slot
             /\ caller'.left = caller.left /\ caller'.result = caller.result
  <2>1. PICK pc \in CallerSteps : pc = (IF step = "done" THEN "send" ELSE step)
    BY DEF CallerSteps
  <2>2. caller' = [caller EXCEPT !.pc = pc, !.slot = slot] /\ recv' = recv
    BY <1>2, <2>1 DEF Move
  <2>3. caller' = CallerAt(pc, caller.name, caller.ask, caller.sent, slot, caller.left,
                           caller.result)
    BY <1>1, <2>2 DEF CallerRecord, CallerAt
  <2> QED
    BY <1>1, <2>1, <2>2, <2>3, CallerAtType DEF CallerTypes
<1>3. ASSUME Move("recv", step, "send", slot)
      PROVE  /\ recv' \in Receiver /\ caller' = caller
             /\ recv'.pc = (IF step = "done" THEN "idle" ELSE step)
             /\ recv'.name = recv.name /\ recv'.slot = slot
  <2>1. PICK pc \in ReceiverSteps :
          pc = (IF step = "done" THEN "idle" ELSE step)
    BY DEF ReceiverSteps
  <2>2. recv' = [recv EXCEPT !.pc = pc, !.slot = slot] /\ caller' = caller
    BY <1>3, <2>1 DEF Move
  <2>3. recv' = ReceiverAt(pc, recv.name, slot)
    BY <1>1, <2>2 DEF ReceiverRecord, ReceiverAt
  <2> QED
    BY <1>1, <2>1, <2>2, <2>3
    DEF ReceiverTypes, Receiver, ReceiverAt, ReceiverSteps, Taking
<1> QED
  BY <1>2, <1>3

\* The clock changes the ticks left and nothing else of the caller.
LEMMA TickFacts ==
  ASSUME TypeOK, Tick
  PROVE  /\ caller' \in Caller /\ caller'.pc = caller.pc /\ caller'.name = caller.name
         /\ caller'.ask = caller.ask /\ caller'.sent = caller.sent
         /\ caller'.slot = caller.slot /\ caller'.result = caller.result
         /\ caller'.left > 0 => caller.left > 0
<1> DEFINE left == Less(caller.left)
           c == CallerAt(caller.pc, caller.name, caller.ask, caller.sent, caller.slot,
                         left, caller.result)
<1>1. CallerRecord /\ CallerTypes
  BY ThreadParts
<1>2. caller.left \in 0..Timeout /\ left \in 0..Timeout /\ (left > 0 => caller.left > 0)
  BY <1>1, FetchAssumption DEF CallerTypes, Less
<1>3. caller' = [caller EXCEPT !.left = left]
  BY DEF Tick
<1> HIDE DEF left
<1>4. caller' = c
  BY <1>1, <1>3 DEF CallerRecord, CallerAt
<1> QED
  BY <1>1, <1>2, <1>4 DEF CallerTypes, Caller, CallerAt, CallerSteps, Taking, Results

\* The receiver's steps that take no slot.
LEMMA ReceiverFacts ==
  ASSUME TypeOK, NEW n \in Names, NEW step \in {"clear", "check"},
         recv' = [recv EXCEPT !.pc = step, !.name = n]
  PROVE  recv' \in Receiver /\ recv'.pc = step /\ recv'.name = n
<1>1. ReceiverRecord /\ ReceiverTypes
  BY ThreadParts
<1>2. recv' = ReceiverAt(step, n, recv.slot)
  BY <1>1 DEF ReceiverRecord, ReceiverAt
<1> QED
  BY <1>1, <1>2 DEF ReceiverTypes, Receiver, ReceiverAt, ReceiverSteps, Taking

LEMMA ReceiverIdleFacts ==
  ASSUME TypeOK, recv' = [recv EXCEPT !.pc = "idle"]
  PROVE  recv' \in Receiver /\ recv'.pc = "idle"
<1>1. ReceiverRecord /\ ReceiverTypes
  BY ThreadParts
<1>2. recv' = ReceiverAt("idle", recv.name, recv.slot)
  BY <1>1 DEF ReceiverRecord, ReceiverAt
<1> QED
  BY <1>1, <1>2 DEF ReceiverTypes, Receiver, ReceiverAt, ReceiverSteps, Taking

----------------------------------------------------------------------------
(* Types *)

\* The store's capacity: a new name needs a free slot.
LEMMA StoreDataTypes ==
  ASSUME TypeOK, NEW n \in Names, StoreData(n)
  PROVE  /\ slots' \subseteq Names /\ Cardinality(slots') <= StoreSlots
         /\ fresh' \in [Names -> 0..Freshness]
         /\ \A m \in Names : fresh'[m] > 0 => m \in slots'
         /\ \A m \in Names : Held(m) => fresh'[m] > 0
<1>1. Freshness \in Nat /\ StoreSlots \in Nat /\ IsFiniteSet(Names)
  BY FetchAssumption
<1>2. /\ slots \subseteq Names /\ Cardinality(slots) <= StoreSlots
      /\ fresh \in [Names -> 0..Freshness] /\ \A m \in Names : Held(m) => m \in slots
  BY DEF TypeOK
<1>3. IsFiniteSet(slots)
  BY <1>1, <1>2, FS_Subset
<1>4. Cardinality(slots) \in Nat
  BY <1>3, FS_CardinalityType
<1>5. CASE StoreRefuses(n)
  BY <1>2, <1>5 DEF StoreData, Held
<1>6. CASE ~StoreRefuses(n)
  <2>1. slots' = slots \cup {n} /\ fresh' = [fresh EXCEPT ![n] = Freshness]
    BY <1>6 DEF StoreData
  <2>2. Cardinality(slots') <= StoreSlots
    <3>1. CASE n \in slots
      BY <1>2, <2>1, <3>1, slots' = slots
    <3>2. CASE n \notin slots
      <4>1. Cardinality(slots') = Cardinality(slots) + 1
        BY <1>3, <2>1, <3>2, FS_AddElement
      <4>2. Cardinality(slots) < StoreSlots
        BY <1>1, <1>4, <1>6, <3>2 DEF StoreRefuses
      <4> QED
        BY <1>1, <1>4, <4>1, <4>2
    <3> QED
      BY <3>1, <3>2
  <2>3. \A m \in Names : Held(m) => fresh'[m] > 0
    BY <1>1, <1>2, <2>1 DEF Held
  <2> QED
    BY <1>1, <1>2, <2>1, <2>2, <2>3 DEF Held
<1> QED
  BY <1>5, <1>6

LEMMA TypesInit == Init => FetchTypes
<1> SUFFICES ASSUME Init PROVE FetchTypes
  OBVIOUS
<1>1. Cardinality(slots) <= StoreSlots /\ slots = {}
  BY FetchAssumption, FS_EmptySet DEF Init
<1>2. caller \in Caller /\ recv \in Receiver /\ caller.pc = "idle" /\ recv.pc = "idle"
  BY FetchAssumption, PastType DEF Init, Caller, Receiver
<1>3. pending \in [1..MaxPending -> [name : Names \cup {NoName}, active : BOOLEAN]]
  BY DEF Init, Empty
<1>4. fresh \in [Names -> 0..Freshness] /\ \A n \in Names : ~Held(n)
  BY FetchAssumption DEF Init, Held
<1>5. pending_count \in 0..Past /\ fetches \in 0..MaxFetches
  BY FetchAssumption, PastType DEF Init
<1>6. crossed \in BOOLEAN /\ overrun \in BOOLEAN /\ lapsed \in BOOLEAN
  BY DEF Init
<1>7. TypeOK
  BY <1>1, <1>2, <1>3, <1>4, <1>5, <1>6 DEF TypeOK
<1> QED
  BY <1>2, <1>7 DEF FetchTypes, Taking

LEMMA FetchKeepsTypes ==
  ASSUME FetchTypes, NEW n \in Names, Fetch(n)
  PROVE  FetchTypes'
<1>1. TypeOK /\ fetches' \in 0..MaxFetches
  BY FetchAssumption DEF FetchTypes, TypeOK, Fetch
<1>2. /\ caller' \in Caller /\ caller'.pc = "lookup" /\ caller'.name = n
      /\ caller'.sent = 0
  BY <1>1, FetchFacts
<1> QED
  BY <1>1, <1>2 DEF FetchTypes, TypeOK, Fetch, Held, Taking

\* What is left to show when only the caller has moved.
LEMMA CallerMoved ==
  ASSUME FetchTypes, caller' \in Caller,
         UNCHANGED <<pending, pending_count, slots, fresh, recv, fetches, crossed, overrun, lapsed>>,
         caller'.pc # "idle" => caller'.name \in Names,
         caller'.pc \notin {"lookup", "load", "bump", "zero", "fill"},
         caller'.pc \in {"send", "check"} => caller'.sent + caller'.ask <= NumPeers
  PROVE  FetchTypes'
BY DEF FetchTypes, TypeOK, Held, Taking

LEMMA CallerOnlyKeepsTypes ==
  ASSUME FetchTypes, CallerOnly
  PROVE  FetchTypes'
<1>1. TypeOK /\ (caller.pc # "idle" => caller.name \in Names) /\ NumPeers \in Nat
  BY FetchAssumption DEF FetchTypes
<1>2. UNCHANGED <<pending, pending_count, slots, fresh, recv, fetches, crossed, overrun, lapsed>>
  BY DEF CallerOnly, FirstLookup, SetDeadline, Wait, Scan, LastLookup, SendInterest
<1>3. "wait" \in CallerSteps /\ "scan" \in CallerSteps /\ "last" \in CallerSteps
      /\ "content" \in Results /\ "null" \in Results
  BY DEF CallerSteps, Taking, Results
<1>4. CASE FirstLookup
  <2>1. caller.pc = "lookup" /\ caller.sent = 0
    BY <1>4 DEF FirstLookup, FetchTypes
  <2>2. CASE Held(caller.name)
    <3>1. caller' = Return("content")
      BY <1>4, <2>2 DEF FirstLookup
    <3> QED
      BY <1>1, <1>2, <1>3, <3>1, ReturnFacts, CallerMoved
  <2>3. CASE ~Held(caller.name)
    <3>1. caller' = [Goto("send") EXCEPT !.ask = NumPeers]
      BY <1>4, <2>3 DEF FirstLookup
    <3>2. /\ caller' \in Caller /\ caller'.pc = "send" /\ caller'.name = caller.name
          /\ caller'.ask = NumPeers /\ caller'.sent = 0
      BY <1>1, <2>1, <3>1, AskAllFacts
    <3> QED
      BY <1>1, <1>2, <2>1, <3>2, CallerMoved
  <2> QED
    BY <2>2, <2>3
<1>5. CASE SetDeadline
  <2>1. caller.pc = "send"
    BY <1>5 DEF SetDeadline
  <2> QED
    BY <1>1, <1>2, <1>5, <2>1, SetDeadlineFacts, CallerMoved
<1>6. CASE Wait
  <2>1. \/ caller' = Goto("last") \/ caller' = Return("content") \/ caller' = Goto("scan")
    BY <1>6 DEF Wait
  <2>2. caller.pc = "wait"
    BY <1>6 DEF Wait
  <2>3. CASE caller' = Return("content")
    BY <1>1, <1>2, <1>3, <2>3, ReturnFacts, CallerMoved
  <2>4. CASE caller' = Goto("last")
    BY <1>1, <1>2, <1>3, <2>2, <2>4, GotoFacts, CallerMoved
  <2>5. CASE caller' = Goto("scan")
    BY <1>1, <1>2, <1>3, <2>2, <2>5, GotoFacts, CallerMoved
  <2> QED
    BY <2>1, <2>3, <2>4, <2>5
<1>7. CASE Scan
  <2>1. caller' = Goto("wait") \/ caller' = Goto("last")
    BY <1>7 DEF Scan
  <2>2. caller.pc = "scan"
    BY <1>7 DEF Scan
  <2>3. CASE caller' = Goto("wait")
    BY <1>1, <1>2, <1>3, <2>2, <2>3, GotoFacts, CallerMoved
  <2>4. CASE caller' = Goto("last")
    BY <1>1, <1>2, <1>3, <2>2, <2>4, GotoFacts, CallerMoved
  <2> QED
    BY <2>1, <2>3, <2>4
<1>8. CASE LastLookup
  <2>1. PICK result \in Results : caller' = Return(result)
    BY <1>3, <1>8 DEF LastLookup
  <2> QED
    BY <1>1, <1>2, <2>1, ReturnFacts, CallerMoved
<1>9. CASE \E ok \in BOOLEAN : SendInterest(ok)
  <2>1. PICK ok \in BOOLEAN : SendInterest(ok)
    BY <1>9
  <2>2. caller.pc = "send" /\ caller.sent + caller.ask <= NumPeers
    BY <2>1 DEF SendInterest, FetchTypes
  <2>3. /\ caller' \in Caller /\ caller'.name = caller.name
        /\ caller'.sent + caller'.ask <= NumPeers /\ caller'.pc \in {"check", "send"}
    BY <1>1, <2>1, <2>2, SendInterestFacts
  <2> QED
    BY <1>1, <1>2, <2>2, <2>3, CallerMoved
<1> QED
  BY <1>4, <1>5, <1>6, <1>7, <1>8, <1>9 DEF CallerOnly

\* Each step of taking a slot is a move of its thread; one that comes to a write
\* keeps the slot that was read.
LEMMA TakeMoves ==
  ASSUME TypeOK, NEW th \in {"caller", "recv"}, TakeSlot(th)
  PROVE  \E step \in {"done"} \cup Taking, slot \in 0..Past :
           /\ Move(th, step, "send", slot)
           /\ ThreadOf(th).pc \in Taking
           /\ step \in Writing =>
                slot = ThreadOf(th).slot /\ (BumpCount(th) \/ ZeroSlot(th))
<1>1. /\ ThreadOf(th).slot \in 0..Past /\ pending_count \in 0..Past /\ 0 \in 0..Past
  BY ThreadParts, PastType DEF CallerTypes, ReceiverTypes, TypeOK, ThreadOf
<1>2. {"done", "load", "bump", "zero", "fill"} \subseteq {"done"} \cup Taking
  BY DEF Taking
<1>3. CASE CheckRoom(th)
  <2>1. PICK step \in {"done", "load"} : Move(th, step, "send", 0)
    BY <1>3 DEF CheckRoom
  <2> QED
    BY <1>1, <1>2, <1>3, <2>1 DEF CheckRoom, Taking, Writing
<1>4. CASE LoadCount(th)
  BY <1>1, <1>2, <1>4 DEF LoadCount, Taking, Writing
<1>5. CASE BumpCount(th)
  BY <1>1, <1>2, <1>5 DEF BumpCount, Taking
<1>6. CASE ZeroSlot(th)
  BY <1>1, <1>2, <1>6 DEF ZeroSlot, Taking
<1>7. CASE FillSlot(th)
  BY <1>1, <1>2, <1>7 DEF FillSlot, Taking, Writing
<1> QED
  BY <1>3, <1>4, <1>5, <1>6, <1>7 DEF TakeSlot

LEMMA WriteShows ==
  ASSUME TypeOK, NEW s \in 0..Past, NEW entry, NEW count, WriteSlot(s, entry, count)
  PROVE  overrun' \/ UNCHANGED <<pending_count, overrun>>
<1>1. CASE s >= MaxPending
  BY <1>1 DEF WriteSlot
<1>2. CASE ~(s >= MaxPending)
  <2>1. s # MaxPending
    BY <1>2, PastType
  <2>2. overrun \in BOOLEAN /\ overrun' = (overrun \/ s >= MaxPending)
    BY DEF TypeOK, WriteSlot
  <2>3. overrun' = overrun
    BY <1>2, <2>2
  <2> QED
    BY <2>1, <2>3 DEF WriteSlot
<1> QED
  BY <1>1, <1>2

\* A write in the table changes its slot only; one outside shows in the history.
LEMMA WriteFacts ==
  ASSUME TypeOK, NEW s \in 0..Past, NEW count \in 0..Past,
         NEW entry \in [name : Names \cup {NoName}, active : BOOLEAN],
         WriteSlot(s, entry, count)
  PROVE  /\ pending' \in [1..MaxPending -> [name : Names \cup {NoName}, active : BOOLEAN]]
         /\ pending_count' \in 0..Past /\ overrun' \in BOOLEAN
         /\ overrun => overrun'
         /\ s >= MaxPending => overrun'
         /\ s < MaxPending => /\ overrun' = overrun /\ pending_count' = pending_count
                              /\ pending'[s + 1] = entry
                              /\ \A i \in 1..MaxPending : i # s + 1 => pending'[i] = pending[i]
<1>1. s \in Nat /\ MaxPending \in Nat
  BY PastType
<1>2. /\ pending \in [1..MaxPending -> [name : Names \cup {NoName}, active : BOOLEAN]]
      /\ pending_count \in 0..Past /\ overrun \in BOOLEAN
  BY DEF TypeOK
<1>3. CASE s < MaxPending
  <2>1. s + 1 \in 1..MaxPending /\ s # MaxPending /\ ~(s >= MaxPending)
    BY <1>1, <1>3
  <2>2. /\ pending' = [pending EXCEPT ![s + 1] = entry] /\ pending_count' = pending_count
        /\ overrun' = overrun
    BY <1>2, <1>3, <2>1 DEF WriteSlot
  <2> QED
    BY <1>2, <2>1, <2>2
<1>4. CASE s >= MaxPending
  <2>1. ~(s < MaxPending)
    BY <1>1, <1>4
  <2>2. pending' = pending /\ pending_count' \in {pending_count, count} /\ overrun'
    BY <1>4, <2>1 DEF WriteSlot
  <2>3. overrun' \in BOOLEAN
    BY DEF WriteSlot
  <2> QED
    BY <1>2, <2>1, <2>2, <2>3
<1> QED
  BY <1>1, <1>3, <1>4

LEMMA TakeKeepsTypes ==
  ASSUME FetchTypes, NEW th \in {"caller", "recv"}, TakeSlot(th)
  PROVE  FetchTypes'
<1>1. TypeOK /\ caller \in Caller /\ recv \in Receiver
  BY DEF FetchTypes, TypeOK
<1>2. ThreadOf(th).slot \in 0..Past /\ pending_count \in 0..Past
  BY <1>1, ThreadParts DEF CallerTypes, ReceiverTypes, TypeOK, ThreadOf
<1>3. PICK step \in {"done"} \cup Taking, slot \in 0..Past :
        Move(th, step, "send", slot) /\ ThreadOf(th).pc \in Taking
  BY <1>1, TakeMoves
<1>4. ThreadOf(th).name \in Names
  <2>1. ThreadOf(th).pc # "idle"
    BY <1>3 DEF Taking
  <2> QED
    BY <2>1 DEF ThreadOf, FetchTypes
<1>5. /\ pending' \in [1..MaxPending -> [name : Names \cup {NoName}, active : BOOLEAN]]
      /\ pending_count' \in 0..Past /\ crossed' \in BOOLEAN /\ overrun' \in BOOLEAN
  <2>1. CASE CheckRoom(th) \/ LoadCount(th)
    BY <1>1, <2>1 DEF CheckRoom, LoadCount, TypeOK
  <2>2. CASE BumpCount(th)
    <3>1. After(ThreadOf(th).slot) \in 0..Past
      BY <1>2, PastType DEF After
    <3> QED
      BY <1>1, <2>2, <3>1 DEF BumpCount, TypeOK
  <2>3. CASE ZeroSlot(th)
    <3>1. Empty \in [name : Names \cup {NoName}, active : BOOLEAN] /\ 0 \in 0..Past
      BY PastType DEF Empty
    <3> QED
      BY <1>1, <1>2, <2>3, <3>1, WriteFacts DEF ZeroSlot, TypeOK
  <2>4. CASE FillSlot(th)
    <3>1. /\ [name |-> ThreadOf(th).name, active |-> TRUE]
                \in [name : Names \cup {NoName}, active : BOOLEAN]
          /\ Past \in 0..Past
      BY <1>4, PastType
    <3> QED
      BY <1>1, <1>2, <2>4, <3>1, WriteFacts DEF FillSlot, TypeOK
  <2> QED
    BY <2>1, <2>2, <2>3, <2>4 DEF TakeSlot
<1>6. UNCHANGED <<slots, fresh, fetches, lapsed>>
  BY DEF TakeSlot, CheckRoom, LoadCount, BumpCount, ZeroSlot, FillSlot, Unstored
<1>7. CASE th = "caller"
  <2>1. /\ caller' \in Caller /\ recv' = recv /\ caller'.pc \in {"send"} \cup Taking
        /\ caller'.name = caller.name /\ caller'.ask = caller.ask
        /\ caller'.sent = caller.sent
    BY <1>1, <1>3, <1>7, MoveFacts
  <2>2. caller.name \in Names /\ caller.sent + caller.ask <= NumPeers
    BY <1>3, <1>4, <1>7 DEF ThreadOf, FetchTypes
  <2>3. caller'.pc # "lookup"
    BY <2>1 DEF Taking
  <2> QED
    BY <1>1, <1>5, <1>6, <2>1, <2>2, <2>3 DEF FetchTypes, TypeOK, Held
<1>8. CASE th = "recv"
  <2>1. /\ recv' \in Receiver /\ caller' = caller /\ recv'.name = recv.name
    BY <1>1, <1>3, <1>8, MoveFacts
  <2>2. recv.name \in Names
    BY <1>4, <1>8 DEF ThreadOf
  <2> QED
    BY <1>1, <1>5, <1>6, <2>1, <2>2 DEF FetchTypes, TypeOK, Held
<1> QED
  BY <1>7, <1>8

LEMMA ReceiveDataKeepsTypes ==
  ASSUME FetchTypes, NEW n \in Names, ReceiveData(n)
  PROVE  FetchTypes'
<1>1. TypeOK /\ StoreData(n)
  BY DEF FetchTypes, ReceiveData
<1>2. /\ slots' \subseteq Names /\ Cardinality(slots') <= StoreSlots
      /\ fresh' \in [Names -> 0..Freshness]
      /\ \A m \in Names : fresh'[m] > 0 => m \in slots'
  BY <1>1, StoreDataTypes
<1>3. recv' \in Receiver /\ recv'.pc = "clear" /\ recv'.name = n
  BY <1>1, ReceiverFacts DEF ReceiveData
<1> QED
  BY <1>1, <1>2, <1>3 DEF FetchTypes, TypeOK, ReceiveData, Held

LEMMA ClearKeepsTypes ==
  ASSUME FetchTypes, ClearPending
  PROVE  FetchTypes'
<1>1. TypeOK
  BY DEF FetchTypes
<1>2. pending' \in [1..MaxPending -> [name : Names \cup {NoName}, active : BOOLEAN]]
  BY <1>1 DEF ClearPending, ClearFirst, TypeOK
<1>3. recv' \in Receiver /\ recv'.pc = "idle"
  BY <1>1, ReceiverIdleFacts DEF ClearPending
<1>4. lapsed' \in BOOLEAN
  BY <1>1 DEF ClearPending, TypeOK
<1> QED
  BY <1>1, <1>2, <1>3, <1>4 DEF FetchTypes, TypeOK, ClearPending, Held

LEMMA ReceiveInterestKeepsTypes ==
  ASSUME FetchTypes, NEW n \in Names, ReceiveInterest(n)
  PROVE  FetchTypes'
<1>1. TypeOK
  BY DEF FetchTypes
<1>2. recv' \in Receiver /\ recv'.pc = "check" /\ recv'.name = n
  BY <1>1, ReceiverFacts DEF ReceiveInterest
<1> QED
  BY <1>1, <1>2 DEF FetchTypes, TypeOK, ReceiveInterest, Held

LEMMA TickKeepsTypes ==
  ASSUME FetchTypes, Tick
  PROVE  FetchTypes'
<1>1. TypeOK
  BY DEF FetchTypes
<1>2. /\ caller' \in Caller /\ caller'.pc = caller.pc /\ caller'.name = caller.name
      /\ caller'.sent = caller.sent /\ caller'.ask = caller.ask /\ caller'.slot = caller.slot
  BY <1>1, TickFacts
<1>3. /\ fresh' \in [Names -> 0..Freshness]
      /\ \A n \in Names : fresh'[n] > 0 => Held(n)
  BY <1>1, FetchAssumption DEF Tick, Less, TypeOK, Held
<1>4. lapsed' \in BOOLEAN
  BY <1>1 DEF Tick, TypeOK
<1>5. TypeOK'
  BY <1>1, <1>2, <1>3, <1>4 DEF TypeOK, Tick, Held
<1> QED
  BY <1>2, <1>5 DEF FetchTypes, Tick

LEMMA TypesNext ==
  ASSUME FetchTypes, [Next]_vars
  PROVE  FetchTypes'
<1>1. CASE \E n \in Names : Fetch(n)
  BY <1>1, FetchKeepsTypes
<1>2. CASE CallerOnly
  BY <1>2, CallerOnlyKeepsTypes
<1>3. CASE \E th \in {"caller", "recv"} : TakeSlot(th)
  BY <1>3, TakeKeepsTypes
<1>4. CASE \E n \in Names : ReceiveData(n)
  BY <1>4, ReceiveDataKeepsTypes
<1>5. CASE \E n \in Names : ReceiveInterest(n)
  BY <1>5, ReceiveInterestKeepsTypes
<1>6. CASE ClearPending
  BY <1>6, ClearKeepsTypes
<1>7. CASE Tick
  BY <1>7, TickKeepsTypes
<1>8. CASE UNCHANGED vars
  BY <1>8 DEF vars, FetchTypes, TypeOK, Held
<1> QED
  BY <1>1, <1>2, <1>3, <1>4, <1>5, <1>6, <1>7, <1>8
  DEF Next, CallerStep, ReceiverStep, CallerOnly

----------------------------------------------------------------------------
(* Slots *)

\* Away from the counter nothing happens to the slots that are being written.
LEMMA SlotsApartElsewhere ==
  ASSUME SlotsApart, UNCHANGED <<pending_count, crossed, overrun>>,
         caller'.pc \in Writing => caller.pc \in Writing /\ caller'.slot = caller.slot,
         recv'.pc \in Writing => recv.pc \in Writing /\ recv'.slot = recv.slot
  PROVE  SlotsApart'
BY DEF SlotsApart

\* A count that nobody has changed in between gives a slot beyond every other.
LEMMA BumpKeepsApart ==
  ASSUME FetchTypes, SlotsApart, NEW th \in {"caller", "recv"}, BumpCount(th)
  PROVE  SlotsApart'
<1>1. TypeOK
  BY DEF FetchTypes
<1>2. /\ caller.slot \in 0..Past /\ recv.slot \in 0..Past
      /\ pending_count \in 0..Past /\ MaxPending \in Nat
  BY <1>1, ThreadParts, FetchAssumption DEF CallerTypes, ReceiverTypes, TypeOK
<1> SUFFICES ASSUME ~crossed', ~overrun' PROVE SlotsApart'
  BY DEF SlotsApart
<1>3. /\ ~crossed /\ ~overrun /\ pending_count = ThreadOf(th).slot
      /\ pending_count' = After(pending_count)
  BY DEF BumpCount
<1>4. /\ pending_count' \in Nat /\ pending_count' >= pending_count
      /\ pending_count < MaxPending => pending_count < pending_count'
  BY <1>2, <1>3 DEF After, Past
<1>5. Move(th, "zero", "send", ThreadOf(th).slot) /\ ThreadOf(th).slot \in 0..Past
  BY <1>2 DEF BumpCount, ThreadOf
<1>6. "zero" \in {"done"} \cup Taking
  BY DEF Taking
<1>7. CASE th = "caller"
  <2>1. caller'.slot = pending_count /\ recv' = recv
    BY <1>1, <1>3, <1>5, <1>6, <1>7, MoveFacts
  <2>2. recv.pc \in Writing /\ recv.slot < MaxPending => recv.slot < pending_count
    BY <1>3 DEF SlotsApart
  <2>3. /\ caller'.slot < MaxPending => caller'.slot < pending_count'
        /\ recv.pc \in Writing /\ recv.slot < MaxPending => recv.slot < pending_count'
        /\ recv.pc \in Writing /\ caller'.slot < MaxPending => caller'.slot # recv.slot
    BY <1>2, <1>4, <2>1, <2>2, PastType
  <2> QED
    BY <2>1, <2>3 DEF SlotsApart
<1>8. CASE th = "recv"
  <2>1. recv'.slot = pending_count /\ caller' = caller
    BY <1>1, <1>3, <1>5, <1>6, <1>8, MoveFacts
  <2>2. caller.pc \in Writing /\ caller.slot < MaxPending => caller.slot < pending_count
    BY <1>3 DEF SlotsApart
  <2>3. /\ recv'.slot < MaxPending => recv'.slot < pending_count'
        /\ caller.pc \in Writing /\ caller.slot < MaxPending => caller.slot < pending_count'
        /\ caller.pc \in Writing /\ caller.slot < MaxPending => caller.slot # recv'.slot
    BY <1>2, <1>4, <2>1, <2>2, PastType
  <2> QED
    BY <2>1, <2>3 DEF SlotsApart
<1> QED
  BY <1>7, <1>8

LEMMA TakeKeepsApart ==
  ASSUME FetchTypes, SlotsApart, NEW th \in {"caller", "recv"}, TakeSlot(th), ~BumpCount(th)
  PROVE  SlotsApart'
<1>1. TypeOK /\ ThreadOf(th).slot \in 0..Past
  BY ThreadParts DEF FetchTypes, CallerTypes, ReceiverTypes, ThreadOf
<1>2. PICK step \in {"done"} \cup Taking, slot \in 0..Past :
        /\ Move(th, step, "send", slot)
        /\ step \in Writing => slot = ThreadOf(th).slot /\ ZeroSlot(th)
  BY <1>1, TakeMoves
<1>3. overrun' \/ UNCHANGED <<pending_count, crossed, overrun>>
  <2>1. CASE CheckRoom(th) \/ LoadCount(th)
    BY <2>1 DEF CheckRoom, LoadCount
  <2>2. CASE ZeroSlot(th)
    BY <1>1, <2>2, WriteShows DEF ZeroSlot
  <2>3. CASE FillSlot(th)
    BY <1>1, <2>3, WriteShows DEF FillSlot
  <2> QED
    BY <2>1, <2>2, <2>3 DEF TakeSlot
<1>4. step \in Writing => ThreadOf(th).pc \in Writing /\ slot = ThreadOf(th).slot
  BY <1>2 DEF ZeroSlot, Writing
<1>5. CASE overrun'
  BY <1>5 DEF SlotsApart
<1>6. CASE UNCHANGED <<pending_count, crossed, overrun>>
  <2>1. "send" \notin Writing /\ "idle" \notin Writing
    BY DEF Writing
  <2>2. CASE th = "caller"
    <3>1. /\ caller'.pc = (IF step = "done" THEN "send" ELSE step) /\ caller'.slot = slot
          /\ recv' = recv
      BY <1>1, <1>2, <2>2, MoveFacts
    <3>2. caller'.pc \in Writing => step \in Writing
      BY <2>1, <3>1
    <3>3. caller'.pc \in Writing => caller.pc \in Writing /\ caller'.slot = caller.slot
      BY <1>4, <2>2, <3>1, <3>2 DEF ThreadOf
    <3> QED
      BY <1>6, <3>1, <3>3, SlotsApartElsewhere
  <2>3. CASE th = "recv"
    <3>1. /\ recv'.pc = (IF step = "done" THEN "idle" ELSE step) /\ recv'.slot = slot
          /\ caller' = caller
      BY <1>1, <1>2, <2>3, MoveFacts
    <3>2. recv'.pc \in Writing => step \in Writing
      BY <2>1, <3>1
    <3>3. recv'.pc \in Writing => recv.pc \in Writing /\ recv'.slot = recv.slot
      BY <1>4, <2>3, <3>1, <3>2 DEF ThreadOf
    <3> QED
      BY <1>6, <3>1, <3>3, SlotsApartElsewhere
  <2> QED
    BY <2>2, <2>3
<1> QED
  BY <1>3, <1>5, <1>6

\* The caller's other steps lead to no slot.
LEMMA CallerOnlySteps ==
  ASSUME FetchTypes, CallerOnly
  PROVE  caller'.pc \notin {"load", "bump", "zero", "fill"}
<1>1. TypeOK
  BY DEF FetchTypes
<1>2. "wait" \in CallerSteps /\ "scan" \in CallerSteps /\ "last" \in CallerSteps
      /\ "content" \in Results /\ "null" \in Results
  BY DEF CallerSteps, Taking, Results
<1>3. \A step \in {"wait", "scan", "last"} : caller' = Goto(step) => caller'.pc \notin {"load", "bump", "zero", "fill"}
  BY <1>1, <1>2, GotoFacts
<1>4. \A result \in Results : caller' = Return(result) => caller'.pc \notin {"load", "bump", "zero", "fill"}
  BY <1>1, ReturnFacts
<1>5. CASE FirstLookup
  BY <1>1, <1>2, <1>4, <1>5, AskAllFacts DEF FirstLookup
<1>6. CASE SetDeadline
  BY <1>1, <1>6, SetDeadlineFacts
<1>7. CASE Wait
  BY <1>2, <1>3, <1>4, <1>7 DEF Wait
<1>8. CASE Scan
  BY <1>3, <1>8 DEF Scan
<1>9. CASE LastLookup
  BY <1>2, <1>4, <1>9 DEF LastLookup
<1>10. CASE \E ok \in BOOLEAN : SendInterest(ok)
  <2>1. PICK ok \in BOOLEAN : SendInterest(ok)
    BY <1>10
  <2>2. caller.sent + caller.ask <= NumPeers
    BY <2>1 DEF SendInterest, FetchTypes
  <2> QED
    BY <1>1, <2>1, <2>2, SendInterestFacts
<1> QED
  BY <1>5, <1>6, <1>7, <1>8, <1>9, <1>10 DEF CallerOnly

LEMMA ApartNext ==
  ASSUME FetchTypes, SlotsApart, [Next]_vars
  PROVE  SlotsApart'
<1>1. TypeOK
  BY DEF FetchTypes
<1>2. CASE \E n \in Names : Fetch(n)
  <2>1. caller'.pc \notin Writing /\ UNCHANGED <<pending_count, crossed, overrun, recv>>
    BY <1>1, <1>2, FetchFacts DEF Fetch, Writing
  <2> QED
    BY <2>1, SlotsApartElsewhere
<1>3. CASE CallerOnly
  <2>1. caller'.pc \notin Writing
    BY <1>3, CallerOnlySteps DEF Writing
  <2>2. UNCHANGED <<pending_count, crossed, overrun, recv>>
    BY <1>3 DEF CallerOnly, FirstLookup, SetDeadline, Wait, Scan, LastLookup, SendInterest
  <2> QED
    BY <2>1, <2>2, SlotsApartElsewhere
<1>4. CASE \E th \in {"caller", "recv"} : TakeSlot(th)
  BY <1>4, BumpKeepsApart, TakeKeepsApart
<1>5. CASE \E n \in Names : ReceiveData(n) \/ ReceiveInterest(n)
  <2>1. recv'.pc \notin Writing /\ UNCHANGED <<pending_count, crossed, overrun, caller>>
    BY <1>1, <1>5, ReceiverFacts DEF ReceiveData, ReceiveInterest, Writing
  <2> QED
    BY <2>1, SlotsApartElsewhere
<1>6. CASE ClearPending
  <2>1. recv'.pc \notin Writing /\ UNCHANGED <<pending_count, crossed, overrun, caller>>
    BY <1>1, <1>6, ReceiverIdleFacts DEF ClearPending, Writing
  <2> QED
    BY <2>1, SlotsApartElsewhere
<1>7. CASE Tick
  <2>1. caller'.pc = caller.pc /\ caller'.slot = caller.slot
    BY <1>1, <1>7, TickFacts
  <2>2. UNCHANGED <<pending_count, crossed, overrun, recv>>
    BY <1>7 DEF Tick
  <2> QED
    BY <2>1, <2>2, SlotsApartElsewhere
<1>8. CASE UNCHANGED vars
  BY <1>8 DEF vars, SlotsApart
<1> QED
  BY <1>2, <1>3, <1>4, <1>5, <1>6, <1>7, <1>8
  DEF Next, CallerStep, ReceiverStep, CallerOnly

----------------------------------------------------------------------------
(* Excuses *)

\* A table that is full, or whose count has passed it, stays so unless a thread writes
\* an older count back or writes outside the table.
LEMMA ExcuseStays ==
  ASSUME FetchTypes, [Next]_vars, lapsed => lapsed', Excused
  PROVE  Excused'
<1>1. TypeOK /\ pending_count \in 0..Past
  BY DEF FetchTypes, TypeOK
<1>2. CASE \E th \in {"caller", "recv"} : TakeSlot(th)
  <2>1. PICK th \in {"caller", "recv"} : TakeSlot(th)
    BY <1>2
  <2>2. ThreadOf(th).slot \in 0..Past
    BY <1>1, ThreadParts DEF CallerTypes, ReceiverTypes, ThreadOf
  <2>3. CASE CheckRoom(th) \/ LoadCount(th)
    BY <2>3 DEF CheckRoom, LoadCount, Unstored, Excused
  <2>4. CASE BumpCount(th)
    <3>1. CASE crossed'
      BY <3>1 DEF Excused
    <3>2. CASE ~crossed'
      <4>1. ~crossed /\ pending_count' = After(pending_count) /\ overrun' = overrun
        BY <2>4, <3>2 DEF BumpCount
      <4>2. pending_count >= MaxPending => pending_count' >= MaxPending
        BY <1>1, <4>1, PastType DEF After, Past
      <4> QED
        BY <4>1, <4>2 DEF Excused
    <3> QED
      BY <3>1, <3>2
  <2>5. CASE ZeroSlot(th) \/ FillSlot(th)
    <3>1. crossed' = crossed /\ (overrun' \/ UNCHANGED <<pending_count, overrun>>)
      BY <1>1, <2>2, <2>5, WriteShows DEF ZeroSlot, FillSlot
    <3> QED
      BY <3>1 DEF Excused
  <2> QED
    BY <2>1, <2>3, <2>4, <2>5 DEF TakeSlot
<1>3. CASE CallerOnly
  BY <1>3 DEF CallerOnly, FirstLookup, SetDeadline, Wait, Scan, LastLookup, SendInterest,
              Excused
<1>4. CASE \E n \in Names : Fetch(n) \/ ReceiveData(n) \/ ReceiveInterest(n)
  BY <1>4 DEF Fetch, ReceiveData, ReceiveInterest, Excused
<1>5. CASE ClearPending \/ Tick
  BY <1>5 DEF ClearPending, Tick, Excused
<1>6. CASE UNCHANGED vars
  BY <1>6 DEF vars, Excused
<1> QED
  BY <1>2, <1>3, <1>4, <1>5, <1>6 DEF Next, CallerStep, ReceiverStep, CallerOnly

\* What is left to show when the caller has not moved.
LEMMA AccountedElsewhere ==
  ASSUME FetchTypes, Accounted,
         caller'.pc = caller.pc, caller'.name = caller.name, caller'.sent = caller.sent,
         caller'.result = caller.result, caller'.left > 0 => caller.left > 0,
         Excused => Excused',
         caller.name \in Names /\ Held(caller.name) => Held(caller.name)' \/ Excused',
         \A i \in 1..MaxPending :
           caller.name \in Names /\ Tracked(i) => Tracked(i)' \/ Held(caller.name)' \/ Excused'
  PROVE  Accounted'
<1>1. caller.pc # "idle" => caller.name \in Names
  BY DEF FetchTypes
<1>2. EarlyNullExplained'
  BY DEF Accounted, EarlyNullExplained, GaveUpEarly, Excused
<1>3. ASSUME caller'.pc \in {"send", "wait", "scan"}, caller'.sent > 0
      PROVE  Excused' \/ Held(caller.name)' \/ \E i \in 1..MaxPending : Tracked(i)'
  <2>1. Excused \/ Held(caller.name) \/ \E i \in 1..MaxPending : Tracked(i)
    BY <1>3 DEF Accounted
  <2>2. caller.name \in Names
    BY <1>1, <1>3
  <2> QED
    BY <2>1, <2>2
<1>4. ASSUME caller'.pc = "last", caller'.sent > 0, caller'.left > 0
      PROVE  Excused' \/ Held(caller.name)'
  BY <1>1, <1>4 DEF Accounted
<1> QED
  BY <1>2, <1>3, <1>4 DEF Accounted

----------------------------------------------------------------------------
(* The accounts *)

LEMMA AccountedInit == Init => SlotsApart /\ Accounted
BY DEF Init, SlotsApart, Writing, Accounted, EarlyNullExplained, GaveUpEarly

\* With content or an excuse there is nothing else to show of a fetch that goes on.
LEMMA AccountedByOthers ==
  ASSUME Excused' \/ Held(caller.name)', caller'.pc # "idle"
  PROVE  Accounted'
BY DEF Accounted, EarlyNullExplained, GaveUpEarly

LEMMA FetchAccounted ==
  ASSUME FetchTypes, NEW n \in Names, Fetch(n)
  PROVE  Accounted'
<1>1. caller'.pc = "lookup"
  BY FetchFacts DEF FetchTypes
<1> QED
  BY <1>1 DEF Accounted, EarlyNullExplained, GaveUpEarly

\* Between its calls on the table the caller moves on with what it had; it ends the
\* wait before the deadline when it has no slot left, and then it had an excuse.
LEMMA CallerOnlyAccounted ==
  ASSUME FetchTypes, Accounted, CallerOnly
  PROVE  Accounted'
<1>1. TypeOK
  BY DEF FetchTypes
<1>2. /\ Held(caller.name)' = Held(caller'.name) /\ Excused' = Excused
      /\ \A i : Tracked(i) /\ caller'.name = caller.name => Tracked(i)'
  BY DEF CallerOnly, FirstLookup, SetDeadline, Wait, Scan, LastLookup, SendInterest, Held,
         Excused, Tracked
<1>3. "wait" \in CallerSteps /\ "scan" \in CallerSteps /\ "last" \in CallerSteps
      /\ "content" \in Results /\ "null" \in Results
  BY DEF CallerSteps, Taking, Results
<1>4. ASSUME caller' = Return("content")
      PROVE  Accounted'
  <2>1. caller'.pc = "idle" /\ caller'.result = "content"
    BY <1>1, <1>3, <1>4, ReturnFacts
  <2> QED
    BY <2>1 DEF Accounted, EarlyNullExplained, GaveUpEarly
<1>5. ASSUME caller'.pc \in {"send", "wait", "scan"}, caller'.name = caller.name,
             caller'.sent = caller.sent, caller.pc \in {"send", "wait", "scan"}
      PROVE  Accounted'
  BY <1>2, <1>5 DEF Accounted, EarlyNullExplained, GaveUpEarly
<1>6. CASE FirstLookup
  <2>1. caller.sent = 0
    BY <1>6 DEF FirstLookup, FetchTypes
  <2>2. CASE caller' = Return("content")
    BY <1>4, <2>2
  <2>3. CASE caller' = [Goto("send") EXCEPT !.ask = NumPeers]
    <3>1. caller'.pc = "send" /\ caller'.sent = 0
      BY <1>1, <2>1, <2>3, AskAllFacts
    <3> QED
      BY <3>1 DEF Accounted, EarlyNullExplained, GaveUpEarly
  <2> QED
    BY <1>6, <2>2, <2>3 DEF FirstLookup
<1>7. CASE SetDeadline
  BY <1>1, <1>5, <1>7, SetDeadlineFacts DEF SetDeadline
<1>8. CASE Wait
  <2>1. caller.pc = "wait"
    BY <1>8 DEF Wait
  <2>2. CASE caller.left = 0 /\ caller' = Goto("last")
    <3>1. caller'.pc = "last" /\ caller'.left = 0
      BY <1>1, <1>3, <2>2, GotoFacts
    <3> QED
      BY <3>1 DEF Accounted, EarlyNullExplained, GaveUpEarly
  <2>3. CASE caller' = Return("content")
    BY <1>4, <2>3
  <2>4. CASE caller' = Goto("scan")
    BY <1>1, <1>3, <1>5, <2>1, <2>4, GotoFacts
  <2> QED
    BY <1>8, <2>2, <2>3, <2>4 DEF Wait
<1>9. CASE Scan
  <2>1. caller.pc = "scan"
    BY <1>9 DEF Scan
  <2>2. CASE caller' = Goto("wait")
    BY <1>1, <1>3, <1>5, <2>1, <2>2, GotoFacts
  <2>3. CASE ~StillPending(caller.name) /\ caller' = Goto("last")
    <3>1. caller'.pc = "last" /\ caller'.name = caller.name /\ caller'.sent = caller.sent
      BY <1>1, <1>3, <2>3, GotoFacts
    <3>2. \A i \in 1..MaxPending : ~Tracked(i)
      BY <2>3 DEF StillPending, Tracked
    <3> QED
      BY <1>2, <2>1, <3>1, <3>2 DEF Accounted, EarlyNullExplained, GaveUpEarly
  <2> QED
    BY <1>9, <2>2, <2>3 DEF Scan
<1>10. CASE LastLookup
  <2>1. caller.pc = "last"
    BY <1>10 DEF LastLookup
  <2>2. CASE Held(caller.name)
    BY <1>4, <1>10, <2>2 DEF LastLookup
  <2>3. CASE ~Held(caller.name)
    <3>1. caller' = Return("null")
      BY <1>10, <2>3 DEF LastLookup
    <3>2. /\ caller'.pc = "idle" /\ caller'.name = caller.name
          /\ caller'.sent = caller.sent /\ caller'.left = caller.left
      BY <1>1, <1>3, <3>1, ReturnFacts
    <3>3. caller.sent > 0 /\ caller.left > 0 => Excused
      BY <2>1, <2>3 DEF Accounted
    <3> QED
      BY <1>2, <3>2, <3>3 DEF Accounted, EarlyNullExplained, GaveUpEarly, Excused
  <2> QED
    BY <2>2, <2>3
<1>11. CASE \E ok \in BOOLEAN : SendInterest(ok)
  <2>1. PICK ok \in BOOLEAN : SendInterest(ok)
    BY <1>11
  <2>2. caller.pc = "send" /\ caller.sent + caller.ask <= NumPeers
    BY <2>1 DEF SendInterest, FetchTypes
  <2>3. /\ caller'.name = caller.name
        /\ caller'.pc = "check" \/ (caller'.pc = "send" /\ caller'.sent = caller.sent)
    BY <1>1, <2>1, <2>2, SendInterestFacts
  <2>4. CASE caller'.pc = "check"
    BY <2>4 DEF Accounted, EarlyNullExplained, GaveUpEarly
  <2>5. CASE caller'.pc = "send" /\ caller'.sent = caller.sent
    BY <1>5, <2>2, <2>3, <2>5
  <2> QED
    BY <2>3, <2>4, <2>5
<1> QED
  BY <1>6, <1>7, <1>8, <1>9, <1>10, <1>11 DEF CallerOnly

\* A full table is an excuse, and so is a slot outside it; a slot in the table that is
\* filled is the caller's own.
LEMMA CallerTakesAccounted ==
  ASSUME FetchTypes, SlotsApart, Accounted, TakeSlot("caller")
  PROVE  Accounted'
<1>1. TypeOK /\ MaxPending \in Nat /\ pending_count \in 0..Past
  BY FetchAssumption DEF FetchTypes, TypeOK
<1>2. caller.slot \in 0..Past
  BY <1>1, ThreadParts DEF CallerTypes
<1>3. ASSUME NEW step \in Taking, NEW slot \in 0..Past, Move("caller", step, "send", slot)
      PROVE  Accounted'
  <2>1. caller'.pc = step /\ step # "done"
    BY <1>1, <1>3, MoveFacts DEF Taking
  <2> QED
    BY <2>1 DEF Accounted, EarlyNullExplained, GaveUpEarly, Taking
<1>4. 0 \in 0..Past /\ "done" \in {"done"} \cup Taking
  BY PastType
<1>5. CASE CheckRoom("caller")
  <2>1. CASE pending_count < MaxPending
    <3>1. Move("caller", "load", "send", 0) /\ "load" \in Taking
      BY <1>5, <2>1 DEF CheckRoom, Taking
    <3> QED
      BY <1>3, <1>4, <3>1
  <2>2. CASE ~(pending_count < MaxPending)
    <3>1. Move("caller", "done", "send", 0) /\ pending_count' = pending_count
      BY <1>5, <2>2 DEF CheckRoom
    <3>2. caller'.pc = "send"
      BY <1>1, <1>4, <3>1, MoveFacts
    <3>3. pending_count' >= MaxPending
      BY <1>1, <2>2, <3>1, PastType
    <3> QED
      BY <3>2, <3>3, AccountedByOthers DEF Excused
  <2> QED
    BY <2>1, <2>2
<1>6. CASE LoadCount("caller")
  BY <1>1, <1>3, <1>6 DEF LoadCount, Taking
<1>7. CASE BumpCount("caller")
  BY <1>2, <1>3, <1>7 DEF BumpCount, ThreadOf, Taking
<1>8. CASE ZeroSlot("caller")
  BY <1>2, <1>3, <1>8 DEF ZeroSlot, ThreadOf, Taking
<1>9. CASE FillSlot("caller")
  <2> DEFINE entry == [name |-> caller.name, active |-> TRUE]
  <2>1. /\ caller.pc \in Writing /\ caller.name \in Names
        /\ Move("caller", "done", "send", 0) /\ WriteSlot(caller.slot, entry, Past)
        /\ crossed' = crossed
    BY <1>9 DEF FillSlot, ThreadOf, Writing, FetchTypes
  <2>2. caller'.pc = "send" /\ caller'.name = caller.name /\ recv' = recv
    BY <1>1, <1>4, <2>1, MoveFacts
  <2>3. entry \in [name : Names \cup {NoName}, active : BOOLEAN] /\ Past \in 0..Past
    BY <2>1, PastType
  <2> HIDE DEF entry
  <2>4. CASE crossed' \/ overrun'
    BY <2>2, <2>4, AccountedByOthers DEF Excused
  <2>5. CASE ~crossed' /\ ~overrun'
    <3>1. caller.slot < MaxPending /\ ~overrun /\ ~crossed
      BY <1>1, <1>2, <2>1, <2>3, <2>5, WriteFacts
    <3>2. pending_count' = pending_count /\ pending'[caller.slot + 1] = entry
      BY <1>1, <1>2, <2>1, <2>3, <3>1, WriteFacts
    <3>3. caller.slot < pending_count /\ (recv.pc \in Writing => caller.slot # recv.slot)
      BY <2>1, <3>1 DEF SlotsApart
    <3>4. PICK i \in 1..MaxPending : i = caller.slot + 1 /\ i \in 1..pending_count
      BY <1>1, <1>2, <3>1, <3>3, PastType
    <3>5. recv.pc \in Writing => recv.slot + 1 # i
      <4>1. recv.slot \in 0..Past
        BY <1>1, ThreadParts DEF ReceiverTypes
      <4> QED
        BY <1>2, <3>3, <3>4, <4>1, PastType
    <3>6. Tracked(i)'
      BY <2>2, <3>2, <3>4, <3>5 DEF Tracked, entry
    <3> QED
      BY <2>2, <3>6 DEF Accounted, EarlyNullExplained, GaveUpEarly
  <2> QED
    BY <2>4, <2>5
<1> QED
  BY <1>5, <1>6, <1>7, <1>8, <1>9 DEF TakeSlot

\* The receiver writes to a slot of its own, unless there is an excuse.
LEMMA ReceiverTakesAccounted ==
  ASSUME FetchTypes, SlotsApart, Accounted, [Next]_vars, TakeSlot("recv")
  PROVE  Accounted'
<1>1. TypeOK /\ MaxPending \in Nat /\ pending_count \in 0..Past
  BY FetchAssumption DEF FetchTypes, TypeOK
<1>2. recv.slot \in 0..Past
  BY <1>1, ThreadParts DEF ReceiverTypes
<1>3. PICK step \in {"done"} \cup Taking, slot \in 0..Past :
        /\ Move("recv", step, "send", slot)
        /\ ThreadOf("recv").pc \in Taking
        /\ step \in Writing =>
             slot = ThreadOf("recv").slot /\ (BumpCount("recv") \/ ZeroSlot("recv"))
  BY <1>1, TakeMoves
<1>4. /\ caller' = caller /\ recv'.pc = (IF step = "done" THEN "idle" ELSE step)
      /\ recv'.slot = slot
  BY <1>1, <1>3, MoveFacts
<1>5. recv'.pc \in Writing => recv'.slot = recv.slot /\ (BumpCount("recv") \/ ZeroSlot("recv"))
  BY <1>3, <1>4 DEF Writing, ThreadOf
<1>6. lapsed' = lapsed /\ fresh' = fresh
  BY DEF TakeSlot, CheckRoom, LoadCount, BumpCount, ZeroSlot, FillSlot, Unstored
<1>7. Excused => Excused'
  BY <1>6, ExcuseStays
<1>8. Held(caller.name)' = Held(caller.name)
  BY <1>4, <1>6 DEF Held
<1>9. ASSUME NEW i \in 1..MaxPending, Tracked(i)
      PROVE  Tracked(i)' \/ Excused'
  <2> SUFFICES ASSUME ~Excused' PROVE Tracked(i)'
    OBVIOUS
  <2>1. ~crossed' /\ ~overrun' /\ ~Excused
    BY <1>7 DEF Excused
  <2>2. i \in 1..pending_count /\ pending[i].active /\ pending[i].name = caller.name
    BY <1>9 DEF Tracked
  <2>3. CASE CheckRoom("recv") \/ LoadCount("recv")
    <3>1. recv'.pc \notin Writing
      BY <1>5, <2>3 DEF CheckRoom, LoadCount, BumpCount, ZeroSlot, ThreadOf
    <3>2. pending' = pending /\ pending_count' = pending_count
      BY <2>3 DEF CheckRoom, LoadCount
    <3> QED
      BY <1>4, <2>2, <3>1, <3>2 DEF Tracked
  <2>4. CASE BumpCount("recv")
    <3>1. pending_count = recv.slot /\ pending_count' = After(recv.slot) /\ pending' = pending
      BY <2>1, <2>4 DEF BumpCount, ThreadOf
    <3>2. pending_count' \in Nat /\ pending_count' >= pending_count
      BY <1>1, <1>2, <3>1, PastType DEF After
    <3>3. i \in 1..pending_count' /\ (recv'.pc \in Writing => recv'.slot + 1 # i)
      BY <1>1, <1>2, <1>5, <2>2, <3>1, <3>2, PastType
    <3> QED
      BY <1>4, <2>2, <3>1, <3>3 DEF Tracked
  <2>5. CASE ZeroSlot("recv") \/ FillSlot("recv")
    <3>1. PICK count \in 0..Past, entry \in [name : Names \cup {NoName}, active : BOOLEAN] :
            WriteSlot(recv.slot, entry, count)
      <4>1. CASE ZeroSlot("recv")
        <5>1. Empty \in [name : Names \cup {NoName}, active : BOOLEAN] /\ 0 \in 0..Past
          BY PastType DEF Empty
        <5> QED
          BY <4>1, <5>1 DEF ZeroSlot, ThreadOf
      <4>2. CASE FillSlot("recv")
        <5>1. recv.name \in Names /\ Past \in 0..Past
          BY <4>2, PastType DEF FillSlot, ThreadOf, FetchTypes
        <5>2. [name |-> recv.name, active |-> TRUE]
                \in [name : Names \cup {NoName}, active : BOOLEAN]
          BY <5>1
        <5> QED
          BY <4>2, <5>1, <5>2 DEF FillSlot, ThreadOf
      <4> QED
        BY <2>5, <4>1, <4>2
    <3>2. recv.slot + 1 # i
      BY <1>9, <2>5 DEF Tracked, ZeroSlot, FillSlot, ThreadOf, Writing
    <3>3. recv.slot < MaxPending
      BY <1>1, <1>2, <2>1, <3>1, WriteFacts, PastType
    <3>4. pending'[i] = pending[i] /\ pending_count' = pending_count
      BY <1>1, <1>2, <3>1, <3>2, <3>3, WriteFacts
    <3>5. recv'.pc \in Writing => recv'.slot + 1 # i
      BY <1>5, <3>2
    <3> QED
      BY <1>4, <2>2, <3>4, <3>5 DEF Tracked
  <2> QED
    BY <2>3, <2>4, <2>5 DEF TakeSlot
<1> QED
  BY <1>4, <1>7, <1>8, <1>9, AccountedElsewhere

LEMMA ReceiveAccounted ==
  ASSUME FetchTypes, Accounted, NEW n \in Names, ReceiveData(n) \/ ReceiveInterest(n)
  PROVE  Accounted'
<1>1. TypeOK
  BY DEF FetchTypes
<1>2. /\ recv'.pc \notin Writing
      /\ UNCHANGED <<caller, pending, pending_count, crossed, overrun, lapsed>>
  <2>1. CASE ReceiveData(n)
    BY <1>1, <2>1, ReceiverFacts DEF ReceiveData, Writing
  <2>2. CASE ReceiveInterest(n)
    BY <1>1, <2>2, ReceiverFacts DEF ReceiveInterest, Writing
  <2> QED
    BY <2>1, <2>2
<1>3. caller.name \in Names /\ Held(caller.name) => Held(caller.name)'
  <2>1. CASE ReceiveData(n)
    BY <1>1, <1>2, <2>1, StoreDataTypes DEF ReceiveData, Held
  <2>2. CASE ReceiveInterest(n)
    BY <1>2, <2>2 DEF ReceiveInterest, Held
  <2> QED
    BY <2>1, <2>2
<1>4. /\ Excused => Excused'
      /\ \A i : Tracked(i) => Tracked(i)'
  BY <1>2 DEF Tracked, Excused
<1> QED
  BY <1>2, <1>3, <1>4, AccountedElsewhere

\* An answer that clears the caller's slot has been stored, or the store refused it.
LEMMA ClearAccounted ==
  ASSUME FetchTypes, Accounted, ClearPending
  PROVE  Accounted'
<1>1. TypeOK /\ MaxPending \in Nat /\ pending_count \in 0..Past
  BY FetchAssumption DEF FetchTypes, TypeOK
<1>2. caller' = caller /\ recv'.pc = "idle" /\ UNCHANGED <<pending_count, fresh>>
  BY <1>1, ReceiverIdleFacts DEF ClearPending
<1>3. Excused => Excused'
  BY DEF ClearPending, Excused
<1>4. Held(caller.name)' = Held(caller.name)
  BY <1>2 DEF Held
<1>5. ASSUME NEW i \in 1..MaxPending, Tracked(i)
      PROVE  Tracked(i)' \/ Held(caller.name)' \/ Excused'
  <2>1. i \in 1..pending_count /\ pending[i].active /\ pending[i].name = caller.name
    BY <1>5 DEF Tracked
  <2>2. CASE recv.name = caller.name
    <3>1. Held(caller.name) \/ lapsed'
      BY <2>2 DEF ClearPending
    <3> QED
      BY <1>4, <3>1 DEF Excused
  <2>3. CASE recv.name # caller.name
    <3>1. pending'[i] = pending[i]
      BY <2>1, <2>3 DEF ClearPending, ClearFirst
    <3> QED
      BY <1>2, <2>1, <3>1 DEF Tracked, Writing
  <2> QED
    BY <2>2, <2>3
<1> QED
  BY <1>2, <1>3, <1>4, <1>5, AccountedElsewhere

\* Content that expires while a fetch waits for it is an excuse.
LEMMA TickAccounted ==
  ASSUME FetchTypes, Accounted, [Next]_vars, Tick
  PROVE  Accounted'
<1>1. TypeOK
  BY DEF FetchTypes
<1>2. /\ caller'.pc = caller.pc /\ caller'.name = caller.name /\ caller'.sent = caller.sent
      /\ caller'.result = caller.result
      /\ caller'.left > 0 => caller.left > 0
  BY <1>1, TickFacts
<1>3. Excused => Excused'
  <2>1. lapsed => lapsed'
    BY DEF Tick
  <2> QED
    BY <2>1, ExcuseStays
<1>4. ASSUME caller.name \in Names, Held(caller.name)
      PROVE  Held(caller.name)' \/ Excused'
  <2> DEFINE t == fresh[caller.name]
  <2>1. t \in Nat /\ t > 0
    BY <1>1, <1>4, FetchAssumption DEF TypeOK, Held
  <2>2. CASE t = 1
    <3>1. lapsed'
      BY <1>4, <2>2 DEF Tick
    <3> QED
      BY <3>1 DEF Excused
  <2>3. CASE t # 1
    <3>1. fresh'[caller.name] = t - 1
      BY <1>4, <2>1 DEF Tick, Less
    <3>2. fresh'[caller.name] > 0
      <4> HIDE DEF t
      <4> QED
        BY <2>1, <2>3, <3>1
    <3> QED
      BY <1>2, <3>2 DEF Held
  <2> QED
    BY <2>2, <2>3
<1>5. \A i \in 1..MaxPending :
        caller.name \in Names /\ Tracked(i) => Tracked(i)' \/ Held(caller.name)' \/ Excused'
  BY <1>2 DEF Tick, Tracked
<1>6. caller.name \in Names /\ Held(caller.name) => Held(caller.name)' \/ Excused'
  BY <1>4
<1> QED
  BY <1>2, <1>3, <1>5, <1>6, AccountedElsewhere

LEMMA AccountedNext ==
  ASSUME FetchTypes, SlotsApart, Accounted, [Next]_vars
  PROVE  Accounted'
<1>1. CASE \E n \in Names : Fetch(n)
  BY <1>1, FetchAccounted
<1>2. CASE CallerOnly
  BY <1>2, CallerOnlyAccounted
<1>3. CASE TakeSlot("caller")
  BY <1>3, CallerTakesAccounted
<1>4. CASE TakeSlot("recv")
  BY <1>4, ReceiverTakesAccounted
<1>5. CASE \E n \in Names : ReceiveData(n) \/ ReceiveInterest(n)
  BY <1>5, ReceiveAccounted
<1>6. CASE ClearPending
  BY <1>6, ClearAccounted
<1>7. CASE Tick
  BY <1>7, TickAccounted
<1>8. CASE UNCHANGED vars
  BY <1>8 DEF vars, Accounted, Excused, Held, Tracked, EarlyNullExplained, GaveUpEarly
<1> QED
  BY <1>1, <1>2, <1>3, <1>4, <1>5, <1>6, <1>7, <1>8
  DEF Next, CallerStep, ReceiverStep, CallerOnly

----------------------------------------------------------------------------
(* One thread that takes slots *)

\* The receiver takes none, and what the caller tested still holds when it writes.
OneTaker ==
  /\ recv.pc \notin Taking
  /\ caller.pc = "load" => pending_count < MaxPending
  /\ caller.pc \in {"bump"} \cup Writing => caller.slot < MaxPending

LEMMA CallerTakesAlone ==
  ASSUME FetchTypes, OneTaker, TakeSlot("caller")
  PROVE  OneTaker'
<1>1. TypeOK /\ pending_count \in 0..Past /\ caller.slot \in 0..Past /\ 0 \in 0..Past
  BY ThreadParts, PastType DEF FetchTypes, TypeOK, CallerTypes
<1>2. ASSUME NEW step \in {"done"} \cup Taking, NEW slot \in 0..Past,
             Move("caller", step, "send", slot),
             step = "load" => pending_count' < MaxPending,
             step \in {"bump"} \cup Writing => slot < MaxPending
      PROVE  OneTaker'
  <2>1. /\ caller'.pc = (IF step = "done" THEN "send" ELSE step) /\ caller'.slot = slot
        /\ recv' = recv
    BY <1>1, <1>2, MoveFacts
  <2> QED
    BY <1>2, <2>1 DEF OneTaker, Writing
<1>3. CASE CheckRoom("caller")
  <2>1. CASE pending_count < MaxPending
    BY <1>1, <1>2, <1>3, <2>1 DEF CheckRoom, Taking, Writing
  <2>2. CASE ~(pending_count < MaxPending)
    BY <1>1, <1>2, <1>3, <2>2 DEF CheckRoom, Taking, Writing
  <2> QED
    BY <2>1, <2>2
<1>4. CASE LoadCount("caller")
  <2>1. pending_count < MaxPending
    BY <1>4 DEF LoadCount, ThreadOf, OneTaker
  <2> QED
    BY <1>1, <1>2, <1>4, <2>1 DEF LoadCount, Taking, Writing
<1>5. CASE BumpCount("caller")
  <2>1. caller.slot < MaxPending
    BY <1>5 DEF BumpCount, ThreadOf, OneTaker
  <2> QED
    BY <1>1, <1>2, <1>5, <2>1 DEF BumpCount, ThreadOf, Taking, Writing
<1>6. CASE ZeroSlot("caller")
  <2>1. caller.slot < MaxPending
    BY <1>6 DEF ZeroSlot, ThreadOf, OneTaker, Writing
  <2> QED
    BY <1>1, <1>2, <1>6, <2>1 DEF ZeroSlot, ThreadOf, Taking, Writing
<1>7. CASE FillSlot("caller")
  BY <1>1, <1>2, <1>7 DEF FillSlot, Taking, Writing
<1> QED
  BY <1>3, <1>4, <1>5, <1>6, <1>7 DEF TakeSlot

LEMMA OneTakerNext ==
  ASSUME Routed = {}, FetchTypes, OneTaker, [Next]_vars
  PROVE  OneTaker'
<1>1. TypeOK
  BY DEF FetchTypes
<1>2. CASE \E n \in Names : Fetch(n)
  BY <1>1, <1>2, FetchFacts DEF Fetch, OneTaker, Writing
<1>3. CASE CallerOnly
  <2>1. caller'.pc \notin {"load", "bump", "zero", "fill"}
    BY <1>3, CallerOnlySteps
  <2>2. recv' = recv
    BY <1>3 DEF CallerOnly, FirstLookup, SetDeadline, Wait, Scan, LastLookup, SendInterest
  <2> QED
    BY <2>1, <2>2 DEF OneTaker, Writing
<1>4. CASE TakeSlot("caller")
  BY <1>4, CallerTakesAlone
<1>5. ~TakeSlot("recv")
  BY <1>1, TakeMoves DEF OneTaker, ThreadOf
<1>6. CASE \E n \in Names : ReceiveData(n) \/ ReceiveInterest(n)
  <2>1. PICK n \in Names : ReceiveData(n) \/ ReceiveInterest(n)
    BY <1>6
  <2>2. ReceiveData(n)
    BY <2>1 DEF ReceiveInterest
  <2>3. recv'.pc = "clear" /\ UNCHANGED <<pending_count, caller>>
    BY <1>1, <2>2, ReceiverFacts DEF ReceiveData
  <2> QED
    BY <2>3 DEF OneTaker, Taking
<1>7. CASE ClearPending
  <2>1. recv'.pc = "idle" /\ UNCHANGED <<pending_count, caller>>
    BY <1>1, <1>7, ReceiverIdleFacts DEF ClearPending
  <2> QED
    BY <2>1 DEF OneTaker, Taking
<1>8. CASE Tick
  <2>1. /\ caller'.pc = caller.pc /\ caller'.slot = caller.slot
        /\ UNCHANGED <<pending_count, recv>>
    BY <1>1, <1>8, TickFacts DEF Tick
  <2> QED
    BY <2>1 DEF OneTaker
<1>9. CASE UNCHANGED vars
  BY <1>9 DEF vars, OneTaker
<1> QED
  BY <1>2, <1>3, <1>4, <1>5, <1>6, <1>7, <1>8, <1>9
  DEF Next, CallerStep, ReceiverStep, CallerOnly

----------------------------------------------------------------------------
(* Theorems *)

\* In every behaviour of the node the three layers hold: what the registers and
\* tables contain, that threads which have not overwritten each other's count nor left
\* the table write to different slots, and that an interest that was sent is accounted
\* for (net.c:188-202, 291-305, 383-428).
THEOREM FetchSafe == Spec => []FetchInv
<1>1. Init => FetchInv
  BY TypesInit, AccountedInit DEF FetchInv
<1>2. FetchInv /\ [Next]_vars => FetchInv'
  BY TypesNext, ApartNext, AccountedNext DEF FetchInv
<1> QED
  BY <1>1, <1>2, PTL DEF Spec

\* Two threads that take slots without a lock keep the registers and the table's entries
\* what they should be, and the count within one past the table's size or what a write
\* outside the table left of it; the store never holds more than its slots
\* (net.c:297-304, psirp.c:380).
THEOREM FetchTypesHold == Spec => []TypeOK
<1>1. FetchInv => TypeOK
  BY DEF FetchInv, FetchTypes
<1> QED
  BY <1>1, FetchSafe, PTL

\* A fetch gives up before its deadline only if a thread wrote back a count the other had
\* changed, or wrote outside the table, or the count had reached the table's size or
\* passed it, or the content was refused or expired (net.c:402-428).
THEOREM EarlyNullsExplained == Spec => []EarlyNullExplained
<1>1. FetchInv => EarlyNullExplained
  BY DEF FetchInv, Accounted
<1> QED
  BY <1>1, FetchSafe, PTL

\* The slot outside the table takes two threads: on a node whose receiver has no route to
\* forward along, so that only psirp_net_fetch takes slots, the test at net.c:297 keeps
\* every slot written in the table, whatever its size and the number of fetches.
THEOREM OneTakerStaysInTable == Routed = {} => (Spec => []SlotsInTable)
<1> SUFFICES ASSUME Routed = {} PROVE Spec => []SlotsInTable
  OBVIOUS
<1>1. Init => OneTaker
  BY DEF Init, OneTaker, Taking, Writing
<1>2. FetchInv /\ OneTaker /\ [Next]_vars => OneTaker'
  BY OneTakerNext DEF FetchInv
<1>3. OneTaker => SlotsInTable
  BY DEF OneTaker, SlotsInTable, ThreadOf, Taking, Writing
<1> QED
  BY <1>1, <1>2, <1>3, FetchSafe, PTL DEF Spec

============================================================================
