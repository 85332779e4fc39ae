--------------------------- MODULE NetworkProofs ---------------------------
(***************************************************************************)
(* How old the content in a node's store may be, for any network, any      *)
(* lifetimes and any number of packets and hops.                           *)
(*                                                                         *)
(* AgeBoundedByHops is not inductive: a copy's age after a hop comes from  *)
(* the Data it was, and that Data's age from the copy it was answered      *)
(* with.  NetworkInv bounds both, by the span of the hops behind them.     *)
(***************************************************************************)
EXTENDS Network, TableLemmas

\* The greatest age with which a copy may arrive after the hops.
Span(hops, life) == hops * (life + MaxTransit)

Copies == [life : Nat, since : Int, age : Nat, hops : Nat]
Packets == [from : Nodes, to : Nodes, transit : Nat, copy : Copies]

\* A copy has the age it arrived with and its time in the store.
CopyAged(c) == c.life > 0 => c.age <= Span(c.hops, c.life) + c.since

\* Data has the age it was sent with and its time on the way.
DataAged(p) ==
  /\ p.transit <= MaxTransit /\ p.copy.since = 0
  /\ p.copy.life > 0 =>
       p.copy.age + MaxTransit <= Span(p.copy.hops, p.copy.life) + p.transit

NetworkTypes ==
  /\ copy \in [Nodes -> Copies]
  /\ interests \subseteq [from : Nodes, to : Nodes]
  /\ data \subseteq Packets

NetworkInv ==
  /\ NetworkTypes
  /\ \A n \in Nodes : CopyAged(copy[n])
  /\ \A p \in data : DataAged(p)

----------------------------------------------------------------------------
(* Arithmetic of spans *)

LEMMA SpanType ==
  ASSUME NEW h \in Nat, NEW l \in Nat PROVE Span(h, l) \in Nat
BY NetworkAssumption DEF Span

\* A hop adds one lifetime and one transit.
LEMMA SpanNext ==
  ASSUME NEW h \in Nat, NEW l \in Nat
  PROVE  Span(h + 1, l) = Span(h, l) + l + MaxTransit
<1> DEFINE s == l + MaxTransit
<1>1. s \in Nat
  BY NetworkAssumption
<1>2. (h + 1) * s = h * s + s
  <2> HIDE DEF s
  <2> QED BY <1>1
<1> QED
  BY <1>2, NetworkAssumption DEF Span

\* The limit the property gives is a span and one lifetime.
LEMMA LimitIsSpan ==
  ASSUME NEW h \in Nat, NEW l \in Nat
  PROVE  AgeLimit(h, l) = Span(h, l) + l
BY NetworkAssumption DEF AgeLimit, Span

----------------------------------------------------------------------------
(* Packets *)

\* A route found leads to a node.
LEMMA HopIsNode ==
  ASSUME NEW n \in Nodes, NextHop(n) # 0
  PROVE  Fib[n][NextHop(n)].peer \in Nodes
<1> DEFINE table == Fib[n]
           S == Longest(table, Name)
           Routes == [prefix : Seq(STRING), peer : Nodes]
<1>1. table \in Seq(Routes)
  BY NetworkAssumption
<1>2. S \subseteq 1..Len(table) /\ Len(table) \in Nat
  BY <1>1 DEF Longest, Matching
<1>3. S # {}
  BY DEF NextHop, LongestMatch
<1>4. IsFiniteSet(S) /\ Cardinality(S) \in Nat
  BY <1>2, KeepFinite
<1>5. Cardinality(S) # 0
  BY <1>3, <1>4, FS_EmptySet
<1> HIDE DEF S
<1>6. PICK i \in S : Rank(S, i) = 1
  <2>1. 1 \in 1..Cardinality(S)
    BY <1>4, <1>5
  <2> QED
    BY <1>2, <2>1, RankOnto
<1>7. ASSUME NEW j \in S PROVE i <= j
  <2> SUFFICES ASSUME j < i PROVE FALSE
    BY <1>2
  <2>1. Rank(S, j) < Rank(S, i)
    BY <1>2, RankIncreases
  <2>2. Rank(S, j) \in 1..Cardinality(S)
    BY <1>2, RankType
  <2> QED
    BY <1>4, <1>6, <2>1, <2>2
<1>8. NextHop(n) \in S
  BY <1>3, <1>7 DEF NextHop, LongestMatch, S
<1>9. table[NextHop(n)] \in Routes
  <2> HIDE DEF table, Routes
  <2>1. NextHop(n) \in 1..Len(table)
    BY <1>2, <1>8
  <2> QED
    BY <1>1, <2>1
<1> QED
  BY <1>9

\* What a live copy is sent as is within the bound of one hop more.
LEMMA OnTheWayAged ==
  ASSUME NEW c \in Copies, CopyAged(c), Alive(c), NEW from \in Nodes, NEW to \in Nodes
  PROVE  Data(from, to, OnTheWay(c)) \in Packets /\ DataAged(Data(from, to, OnTheWay(c)))
<1> DEFINE sent == OnTheWay(c)
           p == Data(from, to, sent)
<1>0. c.life \in Nat /\ c.since \in Int /\ c.age \in Nat /\ c.hops \in Nat
      /\ c = [life |-> c.life, since |-> c.since, age |-> c.age, hops |-> c.hops]
  BY DEF Copies
<1>1. /\ sent \in Copies /\ sent.since = 0 /\ sent.life = c.life /\ sent.age = c.age
      /\ c.life > 0 => sent.hops = c.hops + 1
  <2>1. sent = [life |-> c.life, since |-> 0, age |-> c.age,
                hops |-> IF c.life = 0 THEN MaxHops ELSE c.hops + 1]
    <3>1. OnTheWay(c) = [c EXCEPT !.since = 0,
                                  !.hops = IF c.life = 0 THEN MaxHops ELSE c.hops + 1]
      BY DEF OnTheWay
    <3>2. CASE c.life = 0
      BY <1>0, <3>1, <3>2
    <3>3. CASE c.life # 0
      BY <1>0, <3>1, <3>3
    <3> QED
      BY <3>2, <3>3
  <2> HIDE DEF sent
  <2> QED
    BY <1>0, <2>1, NetworkAssumption DEF Copies
<1>2. p \in Packets /\ p.transit = 0 /\ p.copy = sent
  BY <1>1 DEF Data, Packets
<1>3. ASSUME c.life > 0
      PROVE  sent.age + MaxTransit <= Span(sent.hops, sent.life)
  <2>1. c.age <= Span(c.hops, c.life) + c.since /\ c.since <= c.life
    BY <1>3 DEF CopyAged, Alive, Copies
  <2>2. Span(c.hops, c.life) \in Nat
    BY SpanType DEF Copies
  <2>3. Span(sent.hops, sent.life) = Span(c.hops, c.life) + c.life + MaxTransit
    BY <1>1, <1>3, SpanNext DEF Copies
  <2>4. c.age \in Nat /\ c.since \in Int /\ c.life \in Nat
    BY DEF Copies
  <2> QED
    BY <1>1, <2>1, <2>2, <2>3, <2>4, NetworkAssumption
<1>4. Span(sent.hops, sent.life) \in Nat
  BY <1>1, SpanType DEF Copies
<1> QED
  BY <1>1, <1>2, <1>3, <1>4, NetworkAssumption DEF DataAged

\* Sending keeps the packets within their bounds if what is sent is.
LEMMA SendDataKeeps ==
  ASSUME NetworkInv, NEW sent \in SUBSET Packets, \A p \in sent : DataAged(p),
         SendData(sent)
  PROVE  data' \subseteq Packets /\ \A p \in data' : DataAged(p)
BY DEF NetworkInv, NetworkTypes, SendData

----------------------------------------------------------------------------
(* The actions *)

LEMMA PublishAged ==
  ASSUME NetworkInv, NEW n \in Publishers, NEW l \in Lifetimes, Publish(n, l)
  PROVE  NetworkInv'
<1> DEFINE c == [life |-> l, since |-> 0, age |-> 0, hops |-> 0]
           sent == {Data(n, m, OnTheWay(c)) : m \in Peers[n]}
<1>1. n \in Nodes /\ Peers[n] \subseteq Nodes /\ l \in Nat
  BY NetworkAssumption
<1>2. c \in Copies /\ CopyAged(c)
  <2>1. Span(0, l) \in Nat
    BY <1>1, SpanType
  <2> QED
    BY <1>1, <2>1 DEF Copies, CopyAged
<1>3. Alive(c)
  BY <1>1 DEF Alive, None
<1>4. sent \subseteq Packets /\ \A p \in sent : DataAged(p)
  <2> HIDE DEF c
  <2> QED BY <1>1, <1>2, <1>3, OnTheWayAged
<1>5. copy' = [copy EXCEPT ![n] = c] /\ SendData(sent) /\ interests' = interests
  BY DEF Publish
<1>6. data' \subseteq Packets /\ \A p \in data' : DataAged(p)
  BY <1>4, <1>5, SendDataKeeps
<1> HIDE DEF c, sent
<1>7. copy' \in [Nodes -> Copies] /\ \A m \in Nodes : CopyAged(copy'[m])
  BY <1>1, <1>2, <1>5 DEF NetworkInv, NetworkTypes
<1> QED
  BY <1>5, <1>6, <1>7 DEF NetworkInv, NetworkTypes

LEMMA FetchAged ==
  ASSUME NetworkInv, NEW n \in Clients, Fetch(n)
  PROVE  NetworkInv'
<1>1. n \in Nodes /\ Peers[n] \subseteq Nodes
  BY NetworkAssumption
<1> QED
  BY <1>1 DEF Fetch, Interest, NetworkInv, NetworkTypes

LEMMA AnswerAged ==
  ASSUME NetworkInv, NEW p \in interests, Answer(p)
  PROVE  NetworkInv'
<1> DEFINE d == Data(p.to, p.from, OnTheWay(copy[p.to]))
<1>1. p.from \in Nodes /\ p.to \in Nodes
  BY DEF NetworkInv, NetworkTypes
<1>2. copy[p.to] \in Copies /\ CopyAged(copy[p.to]) /\ Alive(copy[p.to])
  BY <1>1 DEF Answer, NetworkInv, NetworkTypes
<1>3. d \in Packets /\ DataAged(d)
  BY <1>1, <1>2, OnTheWayAged
<1>4. SendData({d}) /\ copy' = copy /\ interests' = interests
  BY DEF Answer
<1> HIDE DEF d
<1>5. data' \subseteq Packets /\ \A q \in data' : DataAged(q)
  BY <1>3, <1>4, SendDataKeeps
<1> QED
  BY <1>4, <1>5 DEF NetworkInv, NetworkTypes

LEMMA ForwardAged ==
  ASSUME NetworkInv, NEW p \in interests, Forward(p)
  PROVE  NetworkInv'
<1>1. p.to \in Nodes
  BY DEF NetworkInv, NetworkTypes
<1>2. interests' \subseteq [from : Nodes, to : Nodes]
  BY <1>1, HopIsNode DEF Forward, Interest, NetworkInv, NetworkTypes
<1> QED
  BY <1>2 DEF Forward, NetworkInv, NetworkTypes

LEMMA ReceiveDataAged ==
  ASSUME NetworkInv, NEW p \in data, ReceiveData(p)
  PROVE  NetworkInv'
<1>1. p \in Packets /\ DataAged(p)
  BY DEF NetworkInv, NetworkTypes
<1>2. p.to \in Nodes /\ p.copy \in Copies
  BY <1>1 DEF Packets
<1>3. CopyAged(p.copy)
  <2>1. Span(p.copy.hops, p.copy.life) \in Nat
    BY <1>2, SpanType DEF Copies
  <2>2. p.transit \in Nat /\ p.copy.age \in Nat
    BY <1>1 DEF Packets, Copies
  <2> QED
    BY <1>1, <2>1, <2>2, NetworkAssumption DEF DataAged, CopyAged
<1>4. copy' = [copy EXCEPT ![p.to] = p.copy] /\ UNCHANGED <<interests, data>>
  BY DEF ReceiveData, Replace
<1>5. copy' \in [Nodes -> Copies] /\ \A m \in Nodes : CopyAged(copy'[m])
  BY <1>2, <1>3, <1>4 DEF NetworkInv, NetworkTypes
<1> QED
  BY <1>4, <1>5 DEF NetworkInv, NetworkTypes

LEMMA LoseAged ==
  ASSUME NetworkInv, Lose
  PROVE  NetworkInv'
BY DEF Lose, NetworkInv, NetworkTypes

\* A tick ages a copy and its time in the store alike.
LEMMA OlderAged ==
  ASSUME NEW c \in Copies, CopyAged(c)
  PROVE  Older(c) \in Copies /\ CopyAged(Older(c))
<1>1. Span(c.hops, c.life) \in Nat
  BY SpanType DEF Copies
<1>2. CASE Older(c) = c
  BY <1>2
<1>3. CASE Older(c) = [c EXCEPT !.since = @ + 1, !.age = @ + 1]
  <2>2. c.age \in Nat /\ c.since \in Int /\ c.life \in Nat /\ c.hops \in Nat
    BY DEF Copies
  <2>1. /\ Older(c) \in Copies /\ Older(c).since = c.since + 1 /\ Older(c).age = c.age + 1
        /\ Older(c).life = c.life /\ Older(c).hops = c.hops
    <3>1. c = [life |-> c.life, since |-> c.since, age |-> c.age, hops |-> c.hops]
      BY DEF Copies
    <3>2. Older(c) = [life |-> c.life, since |-> c.since + 1, age |-> c.age + 1,
                      hops |-> c.hops]
      BY <1>3, <3>1
    <3> QED
      BY <2>2, <3>2 DEF Copies
  <2> QED
    BY <1>1, <2>1, <2>2 DEF CopyAged
<1> QED
  BY <1>2, <1>3 DEF Older

LEMMA TickAged ==
  ASSUME NetworkInv, Tick
  PROVE  NetworkInv'
<1>1. copy' \in [Nodes -> Copies] /\ \A n \in Nodes : CopyAged(copy'[n])
  BY OlderAged DEF Tick, NetworkInv, NetworkTypes
<1>2. ASSUME NEW q \in data, q.transit < MaxTransit,
             NEW p, p = [q EXCEPT !.transit = @ + 1, !.copy.age = Older(q.copy).age]
      PROVE  p \in Packets /\ DataAged(p)
  <2>1. q \in Packets /\ DataAged(q)
    BY DEF NetworkInv, NetworkTypes
  <2>2. q.copy \in Copies /\ q.transit \in Nat /\ q.copy.age \in Nat
    BY <2>1 DEF Packets, Copies
  <2>3. Older(q.copy).age \in {q.copy.age, q.copy.age + 1}
    BY <2>2 DEF Older, Copies
  <2>4. /\ p \in Packets /\ p.transit = q.transit + 1 /\ p.copy.age = Older(q.copy).age
        /\ p.copy.since = q.copy.since /\ p.copy.life = q.copy.life
        /\ p.copy.hops = q.copy.hops
    <3>1. p = [q EXCEPT !.transit = q.transit + 1,
                        !.copy = [q.copy EXCEPT !.age = Older(q.copy).age]]
      BY <1>2, <2>1 DEF Packets
    <3>2. /\ [q.copy EXCEPT !.age = Older(q.copy).age] \in Copies
          /\ [q.copy EXCEPT !.age = Older(q.copy).age].age = Older(q.copy).age
          /\ [q.copy EXCEPT !.age = Older(q.copy).age].since = q.copy.since
          /\ [q.copy EXCEPT !.age = Older(q.copy).age].life = q.copy.life
          /\ [q.copy EXCEPT !.age = Older(q.copy).age].hops = q.copy.hops
      BY <2>2, <2>3 DEF Copies
    <3> DEFINE aged == [q.copy EXCEPT !.age = Older(q.copy).age]
    <3>3. q = [from |-> q.from, to |-> q.to, transit |-> q.transit, copy |-> q.copy]
          /\ q.from \in Nodes /\ q.to \in Nodes
      BY <2>1 DEF Packets
    <3>4. aged \in Copies
      BY <3>2
    <3>5. p = [q EXCEPT !.transit = q.transit + 1, !.copy = aged]
      BY <3>1
    <3>6. p.copy = aged /\ p \in Packets /\ p.transit = q.transit + 1
      <4> HIDE DEF aged
      <4>1. p = [from |-> q.from, to |-> q.to, transit |-> q.transit + 1, copy |-> aged]
        BY <3>3, <3>5
      <4> QED
        BY <2>2, <3>3, <3>4, <4>1 DEF Packets
    <3> QED
      BY <3>2, <3>6
  <2>5. Span(q.copy.hops, q.copy.life) \in Nat
    BY <2>2, SpanType DEF Copies
  <2> QED
    <3>1. p.transit <= MaxTransit /\ p.copy.since = 0
      BY <1>2, <2>1, <2>2, <2>4, NetworkAssumption DEF DataAged
    <3>2. ASSUME p.copy.life > 0
          PROVE  p.copy.age + MaxTransit <= Span(p.copy.hops, p.copy.life) + p.transit
      <4>1. q.copy.age + MaxTransit <= Span(q.copy.hops, q.copy.life) + q.transit
        BY <2>1, <2>4, <3>2 DEF DataAged
      <4>2. p.copy.age <= q.copy.age + 1 /\ p.copy.age \in Nat
        BY <2>2, <2>3, <2>4
      <4>3. Span(p.copy.hops, p.copy.life) = Span(q.copy.hops, q.copy.life)
        BY <2>4
      <4> QED
        BY <2>2, <2>4, <2>5, <4>1, <4>2, <4>3, NetworkAssumption
    <3> QED
      BY <2>4, <3>1, <3>2 DEF DataAged
<1>3. data' \subseteq Packets /\ \A p \in data' : DataAged(p)
  BY <1>2 DEF Tick
<1> QED
  BY <1>1, <1>3 DEF Tick, NetworkInv, NetworkTypes

----------------------------------------------------------------------------
(* The theorems *)

LEMMA NetworkInit == Init => NetworkInv
<1> SUFFICES ASSUME Init PROVE NetworkInv
  OBVIOUS
<1>1. None \in Copies /\ CopyAged(None)
  BY DEF None, Copies, CopyAged
<1> QED
  BY <1>1 DEF Init, NetworkInv, NetworkTypes

LEMMA NetworkNext == NetworkInv /\ [Next]_vars => NetworkInv'
<1> SUFFICES ASSUME NetworkInv, [Next]_vars PROVE NetworkInv'
  OBVIOUS
<1>1. CASE \E n \in Publishers, l \in Lifetimes : Publish(n, l)
  BY <1>1, PublishAged
<1>2. CASE \E n \in Clients : Fetch(n)
  BY <1>2, FetchAged
<1>3. CASE \E p \in interests : Answer(p) \/ Forward(p)
  BY <1>3, AnswerAged, ForwardAged
<1>4. CASE \E p \in data : ReceiveData(p)
  BY <1>4, ReceiveDataAged
<1>5. CASE Lose
  BY <1>5, LoseAged
<1>6. CASE Tick
  BY <1>6, TickAged
<1>7. CASE UNCHANGED vars
  BY <1>7 DEF vars, NetworkInv, NetworkTypes
<1> QED
  BY <1>1, <1>2, <1>3, <1>4, <1>5, <1>6, <1>7 DEF Next

\* The inductive invariant: copies and Data are within the spans of their hops.
THEOREM NetworkSafe == Spec => []NetworkInv
<1> QED
  BY NetworkInit, NetworkNext, PTL DEF Spec

\* In any network content is used no longer than one lifetime and one transit for
\* each hop, and the last lifetime (psirp.c:352, 374, net.c:161, 197).
THEOREM AgesAreBounded == Spec => []AgeBoundedByHops
<1>1. ASSUME NetworkInv PROVE AgeBoundedByHops
  <2> SUFFICES ASSUME NEW n \in Nodes, Alive(copy[n]), copy[n].life > 0
               PROVE  copy[n].age <= AgeLimit(copy[n].hops, copy[n].life)
    BY DEF AgeBoundedByHops
  <2>1. copy[n] \in Copies /\ CopyAged(copy[n])
    BY <1>1 DEF NetworkInv, NetworkTypes
  <2>2. copy[n].since <= copy[n].life /\ copy[n].since \in Int
    BY <2>1 DEF Alive, Copies
  <2>3. Span(copy[n].hops, copy[n].life) \in Nat
    BY <2>1, SpanType DEF Copies
  <2>4. AgeLimit(copy[n].hops, copy[n].life)
          = Span(copy[n].hops, copy[n].life) + copy[n].life
    BY <2>1, LimitIsSpan DEF Copies
  <2>5. copy[n].age \in Nat /\ copy[n].life \in Nat
    BY <2>1 DEF Copies
  <2> QED
    BY <2>1, <2>2, <2>3, <2>4, <2>5 DEF CopyAged
<1> QED
  BY <1>1, NetworkSafe, PTL
============================================================================
