-------------------------- MODULE PipelineProofs --------------------------
(***************************************************************************)
(* The page pipeline for every set of pages and documents, every size of   *)
(* the two tables and any number of loads: what a parse lists, and which   *)
(* items a load leaves in whatever order its tasks ran.                    *)
(*                                                                         *)
(* The parse and the fetches are folds over a sequence.  A fold is taken   *)
(* round by round: an array of its intermediate values, the first of them  *)
(* the start, each other one round after the one before it.                *)
(***************************************************************************)
EXTENDS Pipeline, TableLemmas, SequenceTheorems

----------------------------------------------------------------------------
(* Sequences *)

\* A sequence, of whatever elements.
IsSeq(s) == s \in Seq(ToSet(s))

LEMMA AnySeq == ASSUME NEW T, NEW s \in Seq(T) PROVE IsSeq(s)
<1>1. Len(s) \in Nat /\ DOMAIN s = 1..Len(s)
  OBVIOUS
<1>2. s = [i \in 1..Len(s) |-> s[i]]
  OBVIOUS
<1>3. \A i \in 1..Len(s) : s[i] \in ToSet(s)
  BY <1>1 DEF ToSet
<1>4. [i \in 1..Len(s) |-> s[i]] \in Seq(ToSet(s))
  BY <1>1, <1>3
<1> QED
  BY <1>2, <1>4 DEF IsSeq

LEMMA SeqFacts ==
  ASSUME NEW s, IsSeq(s)
  PROVE  /\ Len(s) \in Nat /\ DOMAIN s = 1..Len(s)
         /\ s = [i \in 1..Len(s) |-> s[i]]
         /\ \A x : x \in ToSet(s) <=> \E i \in 1..Len(s) : s[i] = x
<1> DEFINE T == ToSet(s)
<1>1. s \in Seq(T)
  BY DEF IsSeq
<1>2. Len(s) \in Nat /\ DOMAIN s = 1..Len(s) /\ s = [i \in 1..Len(s) |-> s[i]]
  <2> HIDE DEF T
  <2> QED
    BY <1>1
<1>3. \A x : x \in ToSet(s) <=> \E i \in 1..Len(s) : s[i] = x
  BY <1>2 DEF ToSet
<1> QED
  BY <1>2, <1>3

LEMMA NoElements == IsSeq(<<>>) /\ Len(<<>>) = 0 /\ ToSet(<<>>) = {}
<1>1. <<>> \in Seq(Nat) /\ Len(<<>>) = 0
  OBVIOUS
<1>2. IsSeq(<<>>)
  BY <1>1, AnySeq
<1>3. \A x : x \notin ToSet(<<>>)
  BY <1>1, <1>2, SeqFacts
<1>4. ToSet(<<>>) = {}
  BY <1>3, Zenon
<1> QED
  BY <1>1, <1>2, <1>4, Zenon

\* A sequence given by its elements.
LEMMA TableIsSeq ==
  ASSUME NEW n \in Nat, NEW s, s = [i \in 1..n |-> s[i]]
  PROVE  IsSeq(s) /\ Len(s) = n
<1> DEFINE T == {s[i] : i \in 1..n}
<1>1. s \in Seq(T) /\ Len(s) = n
  BY ArrayIsSeq
<1> HIDE DEF T
<1> QED
  BY <1>1, AnySeq

LEMMA AppendFacts ==
  ASSUME NEW s, IsSeq(s), NEW x
  PROVE  /\ IsSeq(Append(s, x))
         /\ Len(Append(s, x)) = Len(s) + 1
         /\ \A i \in 1..Len(s) : Append(s, x)[i] = s[i]
         /\ Append(s, x)[Len(s) + 1] = x
         /\ \A y : y \in ToSet(Append(s, x)) <=> y \in ToSet(s) \/ y = x
<1> DEFINE T == ToSet(s) \cup {x}
           a == Append(s, x)
<1>1. s \in Seq(T) /\ x \in T
  <2> DEFINE S == ToSet(s)
  <2>1. s \in Seq(S) /\ x \in T /\ \A y \in S : y \in T
    BY DEF IsSeq
  <2> HIDE DEF S, T
  <2>2. Len(s) \in Nat /\ s = [i \in 1..Len(s) |-> s[i]] /\ \A i \in 1..Len(s) : s[i] \in S
    BY <2>1
  <2>3. \A i \in 1..Len(s) : s[i] \in T
    BY <2>1, <2>2
  <2>4. [i \in 1..Len(s) |-> s[i]] \in Seq(T)
    BY <2>2, <2>3
  <2> QED
    BY <2>1, <2>2, <2>4
<1>2. /\ a \in Seq(T)
      /\ Len(a) = Len(s) + 1
      /\ \A i \in 1..Len(s) : a[i] = s[i]
      /\ a[Len(s) + 1] = x
  <2> HIDE DEF T
  <2> QED
    BY <1>1
<1> HIDE DEF T, a
<1>3. IsSeq(a)
  BY <1>2, AnySeq
<1>4. Len(s) \in Nat /\ \A i : i \in 1..Len(a) <=> i \in 1..Len(s) \/ i = Len(s) + 1
  BY <1>2, SeqFacts
<1>5. \A y : y \in ToSet(a) <=> y \in ToSet(s) \/ y = x
  <2>1. \A y : y \in ToSet(a) <=> \E i \in 1..Len(a) : a[i] = y
    BY <1>3, SeqFacts
  <2>2. \A y : y \in ToSet(s) <=> \E i \in 1..Len(s) : s[i] = y
    BY SeqFacts
  <2> QED
    BY <1>2, <1>4, <2>1, <2>2
<1> QED
  BY <1>2, <1>3, <1>5 DEF a

----------------------------------------------------------------------------
(* The two loops *)

\* One round of a fetch, at the parsed resource r.
FetchOne(its, r, type, found) ==
  IF ~Full(its) /\ r.type = type /\ r.name \in found
    THEN Append(its, Item(r.name, type, <<>>)) ELSE its

\* One round of the parse, at the tag t.
ParseOne(base, result, t) ==
  IF Len(result.resources) < HTML_MAX_RESOURCES THEN ParseTag(base, result, t) ELSE result

\* Round k of either loop over the sequence w.
Round(loop, a, b, w, c, k) ==
  IF loop = "fetch" THEN FetchOne(c, w[k], a, b) ELSE ParseOne(a, c, w[k])

\* The form a fold over the first n positions expands to: the value of a set of
\* positions is one round after the value of the set without its largest.
Fold(g, loop, a, b, w, n, c) ==
  g = [s \in SUBSET (1..n) |-> IF s = {} THEN c ELSE Round(loop, a, b, w, g[s \ {Max(s)}], Max(s))]

\* The fold of a loop exists.
LEMMA FoldExists ==
  ASSUME NEW loop, NEW a, NEW b, NEW w, NEW n \in Nat, NEW c
  PROVE  \E g : Fold(g, loop, a, b, w, n, c)
<1> DEFINE Val(g, s) == IF s = {} THEN c ELSE Round(loop, a, b, w, g[s \ {Max(s)}], Max(s))
           Upto(g, m) == \A s \in SUBSET (1..m) : g[s] = Val(g, s)
           T == {m \in Nat : \E g : Upto(g, m)}
<1>1. 0 \in T
  <2> DEFINE h == [s \in {{}} |-> c]
  <2>1. SUBSET (1..0) = {{}}
    OBVIOUS
  <2>2. Upto(h, 0)
    BY <2>1
  <2> QED
    BY <2>2
<1>2. ASSUME NEW m \in T PROVE m + 1 \in T
  <2>1. PICK g : Upto(g, m)
    OBVIOUS
  <2>2. m \in Nat /\ m + 1 \in Nat /\ m + 1 \notin 1..m
    OBVIOUS
  <2>3. \A s \in SUBSET (1..m+1) : s \ {m + 1} \in SUBSET (1..m)
    BY <2>2
  <2> DEFINE h == [s \in SUBSET (1..m+1) |->
                     IF m + 1 \in s THEN Round(loop, a, b, w, g[s \ {m + 1}], m + 1) ELSE g[s]]
  <2>4. \A s \in SUBSET (1..m) : s \in SUBSET (1..m+1) /\ h[s] = g[s]
    BY <2>2
  <2>5. ASSUME NEW s \in SUBSET (1..m+1) PROVE h[s] = Val(h, s)
    <3>1. CASE m + 1 \in s
      <4>1. Max(s) = m + 1
        BY <2>2, <3>1, MaxOf
      <4>2. h[s] = Round(loop, a, b, w, g[s \ {m + 1}], m + 1)
        BY <3>1
      <4>3. h[s \ {m + 1}] = g[s \ {m + 1}]
        BY <2>3, <2>4
      <4> QED
        BY <3>1, <4>1, <4>2, <4>3
    <3>2. CASE m + 1 \notin s
      <4>1. s \in SUBSET (1..m) /\ s \ {Max(s)} \in SUBSET (1..m)
        BY <2>3, <3>2
      <4>2. h[s] = g[s] /\ g[s] = Val(g, s) /\ h[s \ {Max(s)}] = g[s \ {Max(s)}]
        BY <2>1, <2>4, <4>1
      <4> QED
        BY <4>2
    <3> QED
      BY <3>1, <3>2
  <2>6. Upto(h, m + 1)
    BY <2>5
  <2> HIDE DEF Upto, h
  <2> QED
    BY <2>2, <2>6
<1>3. T = Nat
  <2> HIDE DEF T
  <2>1. T \in SUBSET Nat
    BY DEF T
  <2> QED
    BY <1>1, <1>2, <2>1, NumberInduction
<1>4. PICK g : Upto(g, n)
  BY <1>3
<1> DEFINE h == [s \in SUBSET (1..n) |-> g[s]]
<1>5. \A s \in SUBSET (1..n) : h[s] = Val(h, s)
  BY <1>4
<1>6. h = [s \in SUBSET (1..n) |-> Val(h, s)]
  BY <1>5
<1>7. Fold(h, loop, a, b, w, n, c)
  BY <1>6 DEF Fold
<1> QED
  BY <1>7

\* The values of g at the first k positions are the results round by round.
Rounds(g, loop, a, b, w, n, c) ==
  /\ g[1..0] = c
  /\ \A k \in 1..n : g[1..k] = Round(loop, a, b, w, g[1..(k-1)], k)

\* The values of the fold at the first k positions are the results round by round.
LEMMA FoldRounds ==
  ASSUME NEW loop, NEW a, NEW b, NEW w, NEW n \in Nat, NEW c, NEW g, Fold(g, loop, a, b, w, n, c)
  PROVE  Rounds(g, loop, a, b, w, n, c)
<1>1. 1..0 = {} /\ {} \in SUBSET (1..n)
  OBVIOUS
<1>2. g[1..0] = c
  BY <1>1 DEF Fold
<1>3. ASSUME NEW k \in 1..n PROVE g[1..k] = Round(loop, a, b, w, g[1..(k-1)], k)
  <2>1. 1..k \in SUBSET (1..n) /\ 1..k # {} /\ k \in Nat /\ k \in 1..k
    OBVIOUS
  <2>2. Max(1..k) = k
    BY <2>1, MaxOf
  <2>3. (1..k) \ {k} = 1..(k-1)
    OBVIOUS
  <2>4. g[1..k] = Round(loop, a, b, w, g[(1..k) \ {Max(1..k)}], Max(1..k))
    BY <2>1 DEF Fold
  <2> QED
    BY <2>2, <2>3, <2>4
<1> QED
  BY <1>2, <1>3 DEF Rounds

\* The fetch loop, round by round.
LEMMA FetchedRounds ==
  ASSUME NEW its, NEW type, NEW found, IsSeq(html_result)
  PROVE  \E a : /\ a[0] = its /\ a[Len(html_result)] = Fetched(its, type, found)
                /\ \A k \in 1..Len(html_result) :
                     a[k] = FetchOne(a[k-1], html_result[k], type, found)
<1> DEFINE w == html_result
           n == Len(w)
           G == CHOOSE g : Fold(g, "fetch", type, found, w, n, its)
<1>0. n \in Nat /\ DOMAIN w = 1..n
  BY SeqFacts
<1>1. Fetched(its, type, found) = G[1..n]
  BY <1>0 DEF Fetched, FoldLeft, MapThenFoldSet, Fold, Round, FetchOne
<1>2. Fold(G, "fetch", type, found, w, n, its)
  BY <1>0, FoldExists
<1> HIDE DEF G, n, w
<1>3. G[1..0] = its /\ \A k \in 1..n : G[1..k] = FetchOne(G[1..(k-1)], w[k], type, found)
  <2>1. Rounds(G, "fetch", type, found, w, n, its)
    BY <1>0, <1>2, FoldRounds
  <2> QED
    BY <2>1 DEF Round, Rounds
<1> DEFINE a == [k \in 0..n |-> G[1..k]]
<1>4. /\ a[0] = its /\ a[n] = Fetched(its, type, found)
      /\ \A k \in 1..n : a[k] = FetchOne(a[k-1], w[k], type, found)
  BY <1>0, <1>1, <1>3
<1> QED
  BY <1>4 DEF n, w

\* The parse, round by round.
LEMMA ParseRounds ==
  ASSUME NEW base, NEW doc, IsSeq(doc)
  PROVE  \E a : /\ a[0] = [in_style |-> FALSE, resources |-> <<>>]
                /\ a[Len(doc)].resources = Parse(base, doc)
                /\ \A k \in 1..Len(doc) : a[k] = ParseOne(base, a[k-1], doc[k])
<1> DEFINE n == Len(doc)
           c == [in_style |-> FALSE, resources |-> <<>>]
           G == CHOOSE g : Fold(g, "parse", base, 0, doc, n, c)
<1>0. n \in Nat /\ DOMAIN doc = 1..n
  BY SeqFacts
<1>1. Parse(base, doc) = G[1..n].resources
  BY <1>0 DEF Parse, FoldLeft, MapThenFoldSet, Fold, Round, ParseOne
<1> HIDE DEF c
<1>2. Fold(G, "parse", base, 0, doc, n, c)
  BY <1>0, FoldExists
<1> HIDE DEF G, n
<1>3. G[1..0] = c /\ \A k \in 1..n : G[1..k] = ParseOne(base, G[1..(k-1)], doc[k])
  <2>1. Rounds(G, "parse", base, 0, doc, n, c)
    BY <1>0, <1>2, FoldRounds
  <2> QED
    BY <2>1 DEF Round, Rounds
<1> DEFINE a == [k \in 0..n |-> G[1..k]]
<1>4. /\ a[0] = c /\ a[n].resources = Parse(base, doc)
      /\ \A k \in 1..n : a[k] = ParseOne(base, a[k-1], doc[k])
  BY <1>0, <1>1, <1>3
<1> QED
  BY <1>4 DEF n, c

----------------------------------------------------------------------------
(* What a fetch leaves *)

\* t is the items after the first k resources: the items before, then items of the
\* page, one for each resource of the type that was found, unless there is no room.
FetchedUpto(its, t, type, found, k) ==
  /\ IsSeq(t)
  /\ Len(its) <= Len(t) /\ Len(t) <= MaxItems
  /\ \A i \in 1..Len(its) : t[i] = its[i]
  /\ \A i \in Len(its)+1..Len(t) :
       \E r \in ToSet(html_result) : r.name = t[i].name /\ r.type = t[i].type
  /\ \A j \in 1..k :
       html_result[j].type = type /\ html_result[j].name \in found =>
         \/ Full(t)
         \/ \E i \in Len(its)+1..Len(t) : t[i].name = html_result[j].name /\ t[i].type = type

LEMMA FetchOneKeeps ==
  ASSUME NEW its, IsSeq(its), NEW t, NEW type, NEW found, IsSeq(html_result),
         NEW k \in 1..Len(html_result), FetchedUpto(its, t, type, found, k-1)
  PROVE  FetchedUpto(its, FetchOne(t, html_result[k], type, found), type, found, k)
<1> DEFINE r == html_result[k]
           takes == ~Full(t) /\ r.type = type /\ r.name \in found
           x == Item(r.name, type, <<>>)
<1>1. /\ IsSeq(t) /\ Len(its) <= Len(t) /\ Len(t) <= MaxItems
      /\ Len(its) \in Nat /\ Len(t) \in Nat /\ Len(html_result) \in Nat
  BY SeqFacts DEF FetchedUpto
<1>2. r \in ToSet(html_result)
  BY SeqFacts
<1>3. MaxItems \in Nat
  BY PipelineAssumption
<1>4. x.name = r.name /\ x.type = type
  BY DEF Item
<1>5. \A j \in 1..k : j \in 1..k-1 \/ j = k
  BY <1>1
<1>6. CASE takes
  <2> DEFINE u == Append(t, x)
  <2>1. FetchOne(t, r, type, found) = u
    BY <1>6 DEF FetchOne
  <2>2. /\ IsSeq(u) /\ Len(u) = Len(t) + 1
        /\ \A i \in 1..Len(t) : u[i] = t[i]
        /\ u[Len(t) + 1] = x
    BY <1>1, AppendFacts
  <2> HIDE DEF u, x
  <2>3. Len(u) <= MaxItems /\ Len(its) <= Len(u)
    BY <1>1, <1>3, <1>6, <2>2 DEF Full
  <2>4. \A i \in 1..Len(its) : u[i] = its[i]
    BY <1>1, <2>2 DEF FetchedUpto
  <2>5. ASSUME NEW i \in Len(its)+1..Len(u)
        PROVE  \E q \in ToSet(html_result) : q.name = u[i].name /\ q.type = u[i].type
    <3>1. CASE i = Len(t) + 1
      BY <1>2, <1>4, <1>6, <2>2, <3>1
    <3>2. CASE i # Len(t) + 1
      <4>1. i \in Len(its)+1..Len(t) /\ i \in 1..Len(t)
        BY <1>1, <2>2, <3>2
      <4> QED
        BY <2>2, <4>1 DEF FetchedUpto
    <3> QED
      BY <3>1, <3>2
  <2>6. ASSUME NEW j \in 1..k, html_result[j].type = type, html_result[j].name \in found, ~Full(u)
        PROVE  \E i \in Len(its)+1..Len(u) : u[i].name = html_result[j].name /\ u[i].type = type
    <3>1. CASE j = k
      <4>1. Len(t) + 1 \in Len(its)+1..Len(u)
        BY <1>1, <2>2
      <4> QED
        BY <1>4, <2>2, <3>1, <4>1
    <3>2. CASE j \in 1..k-1
      <4>1. ~Full(t)
        BY <1>6
      <4>2. PICK i \in Len(its)+1..Len(t) : t[i].name = html_result[j].name /\ t[i].type = type
        BY <2>6, <3>2, <4>1 DEF FetchedUpto
      <4>3. i \in Len(its)+1..Len(u) /\ i \in 1..Len(t)
        BY <1>1, <2>2
      <4> QED
        BY <2>2, <4>2, <4>3
    <3> QED
      BY <1>5, <3>1, <3>2
  <2>7. FetchedUpto(its, u, type, found, k)
    BY <2>2, <2>3, <2>4, <2>5, <2>6 DEF FetchedUpto
  <2> QED
    BY <2>1, <2>7
<1>7. CASE ~takes
  <2>1. FetchOne(t, r, type, found) = t
    BY <1>7 DEF FetchOne
  <2>2. FetchedUpto(its, t, type, found, k)
    BY <1>5, <1>7 DEF FetchedUpto
  <2> QED
    BY <2>1, <2>2
<1> QED
  BY <1>6, <1>7

\* All of the resources, at the end of the loop.
LEMMA FetchedFacts ==
  ASSUME NEW its, IsSeq(its), Len(its) <= MaxItems, NEW type, NEW found, IsSeq(html_result)
  PROVE  FetchedUpto(its, Fetched(its, type, found), type, found, Len(html_result))
<1> DEFINE n == Len(html_result)
<1>1. PICK a : /\ a[0] = its /\ a[n] = Fetched(its, type, found)
               /\ \A k \in 1..n : a[k] = FetchOne(a[k-1], html_result[k], type, found)
  BY FetchedRounds
<1> DEFINE T == {k \in Nat : k <= n => FetchedUpto(its, a[k], type, found, k)}
<1>2. n \in Nat /\ Len(its) \in Nat
  BY SeqFacts
<1>3. 0 \in T
  BY <1>1, <1>2 DEF FetchedUpto
<1>4. ASSUME NEW m \in T PROVE m + 1 \in T
  <2>1. SUFFICES ASSUME m + 1 <= n PROVE FetchedUpto(its, a[m+1], type, found, m+1)
    OBVIOUS
  <2>2. m + 1 \in 1..n /\ (m + 1) - 1 = m /\ m <= n
    BY <1>2, <2>1
  <2>3. a[m+1] = FetchOne(a[m], html_result[m+1], type, found)
    BY <1>1, <2>2
  <2>4. FetchedUpto(its, a[m], type, found, m)
    BY <2>2
  <2> HIDE DEF T
  <2> QED
    BY <2>2, <2>3, <2>4, FetchOneKeeps
<1>5. T = Nat
  <2> HIDE DEF T
  <2>1. T \in SUBSET Nat
    BY DEF T
  <2> QED
    BY <1>3, <1>4, <2>1, NumberInduction
<1>6. FetchedUpto(its, a[n], type, found, n)
  <2>1. n \in T
    BY <1>2, <1>5
  <2> QED
    BY <1>2, <2>1
<1> QED
  BY <1>1, <1>6

----------------------------------------------------------------------------
(* What a parse lists *)

\* Whether a style element is open after a tag.
LEMMA InStyleStep ==
  ASSUME NEW doc, NEW i \in Nat \ {0}
  PROVE  /\ ~InStyle(doc, 1)
         /\ InStyle(doc, i + 1) <=>
              IF InStyle(doc, i) THEN doc[i].tag # "/style" ELSE doc[i].tag = "style"
<1>1. ~InStyle(doc, 1)
  BY DEF InStyle
<1> DEFINE open(j, m) == doc[j].tag = "style" /\ \A k \in j+1..m : doc[k].tag # "/style"
<1>2. InStyle(doc, i) <=> \E j \in 1..i-1 : open(j, i-1)
  BY DEF InStyle
<1>3. InStyle(doc, i + 1) <=> \E j \in 1..i : open(j, i)
  <2>1. (i + 1) - 1 = i
    OBVIOUS
  <2> QED
    BY <2>1 DEF InStyle
<1>4. open(i, i) <=> doc[i].tag = "style"
  OBVIOUS
<1>5. ASSUME NEW j \in 1..i-1 PROVE open(j, i) <=> open(j, i-1) /\ doc[i].tag # "/style"
  <2>1. \A k : k \in j+1..i <=> k \in j+1..i-1 \/ k = i
    OBVIOUS
  <2> QED
    BY <2>1
<1>6. \A j : j \in 1..i <=> j \in 1..i-1 \/ j = i
  OBVIOUS
<1> HIDE DEF open
<1>7. InStyle(doc, i + 1) <=> doc[i].tag = "style" \/ (InStyle(doc, i) /\ doc[i].tag # "/style")
  BY <1>2, <1>3, <1>4, <1>5, <1>6
<1> QED
  BY <1>1, <1>7

\* A result of the parser, as a record.
IsResult(result) ==
  /\ result = [in_style |-> result.in_style, resources |-> result.resources]
  /\ result.in_style \in BOOLEAN

Lists(in_style, t) == IF in_style THEN t.tag = "/style" ELSE Listing(t)

\* What one tag does.
LEMMA ParseTagEffect ==
  ASSUME NEW base, NEW result, IsResult(result), NEW t
  PROVE  LET u == ParseTag(base, result, t)
         IN  /\ IsResult(u)
             /\ u.in_style <=> IF result.in_style THEN t.tag # "/style" ELSE t.tag = "style"
             /\ u.resources = IF Lists(result.in_style, t)
                                THEN Append(result.resources, Resource(base, t))
                                ELSE result.resources
<1> DEFINE u == ParseTag(base, result, t)
<1>1. Listing(t) => t.tag # "style" /\ t.tag # "/style"
  BY DEF Listing, ResourceType
<1>2. CASE result.in_style /\ t.tag = "/style"
  <2>1. u = [in_style |-> FALSE, resources |-> Append(result.resources, Inline)]
    BY <1>2 DEF ParseTag
  <2>2. Resource(base, t) = Inline
    BY <1>2 DEF Resource
  <2> QED
    BY <1>2, <2>1, <2>2 DEF IsResult, Lists
<1>3. CASE result.in_style /\ t.tag # "/style"
  <2>1. u = result
    BY <1>3 DEF ParseTag
  <2> QED
    BY <1>3, <2>1 DEF IsResult, Lists
<1>4. CASE ~result.in_style /\ t.tag = "style"
  <2>1. u = [result EXCEPT !.in_style = TRUE]
    BY <1>1, <1>4 DEF ParseTag
  <2>2. u = [in_style |-> TRUE, resources |-> result.resources]
    BY <2>1 DEF IsResult
  <2> QED
    BY <1>1, <1>4, <2>2 DEF IsResult, Lists
<1>5. CASE ~result.in_style /\ Listing(t)
  <2>1. u = [result EXCEPT !.resources = Append(@, Named(base, t))]
    BY <1>1, <1>5 DEF ParseTag
  <2>2. u = [in_style |-> result.in_style, resources |-> Append(result.resources, Named(base, t))]
    BY <2>1 DEF IsResult
  <2>3. Resource(base, t) = Named(base, t)
    BY <1>1, <1>5 DEF Resource
  <2> QED
    BY <1>1, <1>5, <2>2, <2>3 DEF IsResult, Lists
<1>6. CASE ~result.in_style /\ t.tag # "style" /\ ~Listing(t)
  <2>1. u = result
    BY <1>6 DEF ParseTag
  <2> QED
    BY <1>6, <2>1 DEF IsResult, Lists
<1> QED
  BY <1>2, <1>3, <1>4, <1>5, <1>6

\* The resources a table of the given size holds, of so many listed.
Fits(m) == IF m <= HTML_MAX_RESOURCES THEN m ELSE HTML_MAX_RESOURCES

FirstListed(base, doc, m) == [j \in 1..Fits(m) |-> Resource(base, doc[Origin(Listed(doc), j)])]

\* The result after the first k tags: the first of the resources listed among them,
\* and, while there is room, whether a style element is open.
ParsedUpto(base, doc, result, k) ==
  /\ IsResult(result)
  /\ result.resources = FirstListed(base, doc, Rank(Listed(doc), k))
  /\ Rank(Listed(doc), k) < HTML_MAX_RESOURCES => (result.in_style <=> InStyle(doc, k + 1))

LEMMA FirstListedSeq ==
  ASSUME NEW base, NEW doc, NEW m \in Nat
  PROVE  /\ Fits(m) \in Nat
         /\ IsSeq(FirstListed(base, doc, m)) /\ Len(FirstListed(base, doc, m)) = Fits(m)
<1>1. Fits(m) \in Nat
  BY HtmlAssumption DEF Fits
<1> DEFINE s == FirstListed(base, doc, m)
<1>2. s = [j \in 1..Fits(m) |-> s[j]]
  BY DEF FirstListed
<1> HIDE DEF s
<1>3. IsSeq(s) /\ Len(s) = Fits(m)
  BY <1>1, <1>2, TableIsSeq
<1> QED
  BY <1>1, <1>3 DEF s

\* One more resource in the table.
LEMMA FirstListedAppend ==
  ASSUME NEW base, NEW doc, NEW m \in Nat, m < HTML_MAX_RESOURCES
  PROVE  Append(FirstListed(base, doc, m), Resource(base, doc[Origin(Listed(doc), m + 1)]))
           = FirstListed(base, doc, m + 1)
<1> DEFINE s == FirstListed(base, doc, m)
           x == Resource(base, doc[Origin(Listed(doc), m + 1)])
           t == FirstListed(base, doc, m + 1)
<1>1. Fits(m) = m /\ Fits(m + 1) = m + 1
  BY HtmlAssumption DEF Fits
<1>2. IsSeq(s) /\ Len(s) = m /\ IsSeq(t) /\ Len(t) = m + 1
  BY <1>1, FirstListedSeq
<1>3. /\ IsSeq(Append(s, x)) /\ Len(Append(s, x)) = m + 1
      /\ \A j \in 1..m : Append(s, x)[j] = s[j]
      /\ Append(s, x)[m + 1] = x
  <2> HIDE DEF s, x, t
  <2> QED
    BY <1>2, AppendFacts
<1>4. \A j \in 1..m : t[j] = s[j]
  BY <1>1 DEF FirstListed
<1>5. t[m + 1] = x
  BY <1>1 DEF FirstListed
<1> HIDE DEF s, x, t
<1>6. \A j \in 1..m+1 : Append(s, x)[j] = t[j]
  <2>1. \A j \in 1..m+1 : j \in 1..m \/ j = m + 1
    OBVIOUS
  <2> QED
    BY <1>3, <1>4, <1>5, <2>1
<1>7. Append(s, x) = [j \in 1..m+1 |-> Append(s, x)[j]] /\ t = [j \in 1..m+1 |-> t[j]]
  BY <1>2, <1>3, SeqFacts
<1>8. Append(s, x) = t
  BY <1>6, <1>7
<1> QED
  BY <1>8 DEF s, x, t

LEMMA ParseOneKeeps ==
  ASSUME NEW base, NEW doc, IsSeq(doc), NEW k \in 1..Len(doc),
         NEW result, ParsedUpto(base, doc, result, k-1)
  PROVE  ParsedUpto(base, doc, ParseOne(base, result, doc[k]), k)
<1> DEFINE K == Listed(doc)
           n == Len(doc)
           t == doc[k]
           c == Rank(K, k-1)
           u == ParseOne(base, result, t)
<1>1. n \in Nat /\ DOMAIN doc = 1..n /\ k \in Nat \ {0} /\ k - 1 \in Nat /\ (k - 1) + 1 = k
  BY SeqFacts
<1>2. K \in SUBSET (1..n) /\ (k \in K <=> Lists(InStyle(doc, k), t))
  BY <1>1 DEF Listed, Lists
<1>3. /\ c \in Nat /\ Rank(K, k) \in Nat
      /\ Rank(K, k) = IF k \in K THEN c + 1 ELSE c
  <2> HIDE DEF K
  <2>1. c \in Nat /\ Rank(K, k) \in Nat
    BY <1>1, <1>2, RankCounts
  <2>2. Rank(K, (k-1) + 1) = IF (k-1) + 1 \in K THEN Rank(K, k-1) + 1 ELSE Rank(K, k-1)
    BY <1>1, <1>2, RankCounts
  <2> QED
    BY <1>1, <2>1, <2>2
<1>4. /\ IsResult(result)
      /\ result.resources = FirstListed(base, doc, c)
      /\ c < HTML_MAX_RESOURCES => (result.in_style <=> InStyle(doc, k))
  BY <1>1 DEF ParsedUpto
<1>5. Len(result.resources) = Fits(c)
  BY <1>3, <1>4, FirstListedSeq
<1>6. HTML_MAX_RESOURCES \in Nat
  BY HtmlAssumption
<1> HIDE DEF K, c, t
<1>7. CASE ~(c < HTML_MAX_RESOURCES)
  <2>1. u = result
    BY <1>3, <1>5, <1>6, <1>7 DEF ParseOne, Fits
  <2>2. Fits(Rank(K, k)) = Fits(c) /\ ~(Rank(K, k) < HTML_MAX_RESOURCES)
    BY <1>3, <1>6, <1>7 DEF Fits
  <2>3. FirstListed(base, doc, Rank(K, k)) = FirstListed(base, doc, c)
    BY <2>2 DEF FirstListed
  <2> QED
    BY <1>4, <2>1, <2>2, <2>3 DEF ParsedUpto, K, t
<1>8. CASE c < HTML_MAX_RESOURCES
  <2>1. u = ParseTag(base, result, t)
    BY <1>3, <1>5, <1>6, <1>8 DEF ParseOne, Fits
  <2>2. /\ IsResult(u)
        /\ u.in_style <=> IF result.in_style THEN t.tag # "/style" ELSE t.tag = "style"
        /\ u.resources = IF Lists(result.in_style, t)
                           THEN Append(result.resources, Resource(base, t))
                           ELSE result.resources
    <3> HIDE DEF u
    <3> QED
      BY <1>4, <2>1, ParseTagEffect
  <2>3. result.in_style <=> InStyle(doc, k)
    BY <1>4, <1>8
  <2>4. u.in_style <=> InStyle(doc, k + 1)
    <3>1. InStyle(doc, k + 1) <=>
            IF InStyle(doc, k) THEN t.tag # "/style" ELSE t.tag = "style"
      BY <1>1, InStyleStep DEF t
    <3> QED
      BY <2>2, <2>3, <3>1
  <2>5. Lists(result.in_style, t) <=> k \in K
    BY <1>2, <2>3 DEF Lists
  <2> HIDE DEF u
  <2>6. u.resources = FirstListed(base, doc, Rank(K, k))
    <3>1. CASE k \in K
      <4>1. Rank(K, k) = c + 1
        BY <1>3, <3>1
      <4>2. Origin(K, c + 1) = k
        <5>1. Origin(K, Rank(K, k)) = k
          BY <1>1, <1>2, <3>1, OriginOfRank
        <5> QED
          BY <4>1, <5>1
      <4>3. u.resources = Append(FirstListed(base, doc, c), Resource(base, doc[Origin(K, c + 1)]))
        BY <1>4, <2>2, <2>5, <3>1, <4>2 DEF t
      <4>4. u.resources = FirstListed(base, doc, c + 1)
        BY <1>3, <1>8, <4>3, FirstListedAppend DEF K
      <4> QED
        BY <4>1, <4>4
    <3>2. CASE k \notin K
      BY <1>3, <1>4, <2>2, <2>5, <3>2
    <3> QED
      BY <3>1, <3>2
  <2>7. ParsedUpto(base, doc, u, k)
    BY <2>2, <2>4, <2>6 DEF ParsedUpto, K
  <2> QED
    BY <2>7 DEF u, t
<1> QED
  BY <1>7, <1>8

\* The parse lists what the reference says, whatever the document.
THEOREM ParseIsExpected ==
  ASSUME NEW base, NEW doc, IsSeq(doc)
  PROVE  Parse(base, doc) = Expected(base, doc)
<1> DEFINE n == Len(doc)
           K == Listed(doc)
<1>1. PICK a : /\ a[0] = [in_style |-> FALSE, resources |-> <<>>]
               /\ a[n].resources = Parse(base, doc)
               /\ \A k \in 1..n : a[k] = ParseOne(base, a[k-1], doc[k])
  BY ParseRounds
<1> DEFINE T == {k \in Nat : k <= n => ParsedUpto(base, doc, a[k], k)}
<1>2. n \in Nat /\ K \in SUBSET (1..n)
  BY SeqFacts DEF Listed
<1>3. 0 \in T
  <2>1. Rank(K, 0) = 0
    <3> HIDE DEF K
    <3> QED
      BY <1>2, RankCounts
  <2>2. Fits(0) = 0
    BY HtmlAssumption DEF Fits
  <2>3. IsSeq(FirstListed(base, doc, 0)) /\ Len(FirstListed(base, doc, 0)) = 0
    BY <2>2, FirstListedSeq
  <2>4. FirstListed(base, doc, 0) = <<>>
    BY <2>3, NoElements, SeqFacts
  <2>5. ~InStyle(doc, 0 + 1)
    BY InStyleStep
  <2>6. IsResult(a[0]) /\ a[0].resources = <<>> /\ ~a[0].in_style
    BY <1>1 DEF IsResult
  <2>7. ParsedUpto(base, doc, a[0], 0)
    BY <2>1, <2>4, <2>5, <2>6 DEF ParsedUpto, K
  <2> QED
    BY <2>7
<1>4. ASSUME NEW m \in T PROVE m + 1 \in T
  <2>1. SUFFICES ASSUME m + 1 <= n PROVE ParsedUpto(base, doc, a[m+1], m+1)
    OBVIOUS
  <2>2. m + 1 \in 1..n /\ (m + 1) - 1 = m /\ m <= n
    BY <1>2, <2>1
  <2>3. a[m+1] = ParseOne(base, a[m], doc[m+1])
    BY <1>1, <2>2
  <2>4. ParsedUpto(base, doc, a[m], m)
    BY <2>2
  <2> HIDE DEF T
  <2> QED
    BY <2>2, <2>3, <2>4, ParseOneKeeps
<1>5. T = Nat
  <2> HIDE DEF T
  <2>1. T \in SUBSET Nat
    BY DEF T
  <2> QED
    BY <1>3, <1>4, <2>1, NumberInduction
<1>6. ParsedUpto(base, doc, a[n], n)
  <2>1. n \in T
    BY <1>2, <1>5
  <2> QED
    BY <1>2, <2>1
<1>7. Rank(K, n) = Cardinality(K)
  <2> HIDE DEF K
  <2> QED
    BY <1>2, RankCounts
<1>8. Parse(base, doc) = FirstListed(base, doc, Cardinality(K))
  BY <1>1, <1>6, <1>7 DEF ParsedUpto
<1> QED
  BY <1>8 DEF FirstListed, Fits, Expected

----------------------------------------------------------------------------
(* The invariant *)

ResourceKnown(r) ==
  /\ r.type \in {"STYLESHEET", "LINK", "SCRIPT", "IMAGE", "INLINE_CSS"}
  /\ r.type = "INLINE_CSS" => r.name = <<>>

\* The task that fetches the resources of a type, but for the links.
FetchTask ==
  [STYLESHEET |-> "fetch_css", INLINE_CSS |-> "fetch_css", IMAGE |-> "fetch_images",
   SCRIPT |-> "fetch_scripts"]

\* A resource that is an item of this load, or for a reason is not.
Covered(r) ==
  \/ r.name \in failed
  \/ Full(items)
  \/ \E i \in start+1..Len(items) : items[i].name = r.name /\ items[i].type = r.type

\* The context between two tasks.
Context ==
  /\ IsSeq(items) /\ IsSeq(html_result)
  /\ start \in Nat /\ start <= Len(items)
  /\ page_html > 0 => IsSeq(items[page_html].doc)
  /\ page_html = 0 => html_result = <<>>
  /\ \A r \in ToSet(html_result) : ResourceKnown(r)

\* The order of the tasks, and what is not yet so before a task has run.
Order ==
  /\ \A task \in done : Deps(task) \subseteq done
  /\ "fetch_html" \notin done => page_name \in DOMAIN Docs
  /\ "parse_html" \notin done => \A i \in start+1..Len(items) : items[i].name = page_name

\* What each task leaves behind it, whatever runs after it.
Progress ==
  /\ "fetch_html" \in done /\ page_html \in 1..start =>
       page_name \in failed \/ page_name \notin HtmlNames \/ Full(items)
  /\ \A r \in ToSet(html_result) :
       r.type # "LINK" /\ FetchTask[r.type] \in done => Covered(r)

PipelineInv == TypeOK /\ Context /\ Order /\ Progress /\ ParsedAsExpected /\ ItemsOfParsedPage

----------------------------------------------------------------------------
(* What the steps have in common *)

\* The resources of a parsed document are of known types, and the inline sheets have
\* no name.
LEMMA ParsedKnown ==
  ASSUME NEW base, NEW doc, IsSeq(doc)
  PROVE  /\ IsSeq(Parse(base, doc))
         /\ \A r \in ToSet(Parse(base, doc)) : ResourceKnown(r)
<1> DEFINE K == Listed(doc)
           c == Cardinality(K)
           s == FirstListed(base, doc, c)
<1>1. Len(doc) \in Nat /\ K \in SUBSET (1..Len(doc))
  BY SeqFacts DEF Listed
<1>2. c \in Nat
  <2> HIDE DEF K
  <2> QED
    BY <1>1, KeepFinite
<1>3. Parse(base, doc) = s
  <2>1. Parse(base, doc) = Expected(base, doc)
    BY ParseIsExpected
  <2> QED
    BY <2>1 DEF FirstListed, Fits, Expected
<1>4. IsSeq(s) /\ Len(s) = Fits(c) /\ Fits(c) \in Nat
  <2> HIDE DEF c
  <2> QED
    BY <1>2, FirstListedSeq
<1>5. ASSUME NEW j \in 1..Fits(c) PROVE ResourceKnown(s[j])
  <2>1. j \in 1..c
    BY <1>2, HtmlAssumption DEF Fits
  <2>2. Origin(K, j) \in K
    <3> HIDE DEF K
    <3> QED
      BY <1>1, <2>1, RankOfOrigin
  <2>3. PICK i \in K : i = Origin(K, j)
    BY <2>2
  <2>4. s[j] = Resource(base, doc[i])
    BY <2>3 DEF FirstListed
  <2>5. doc[i].tag = "/style" \/ Listing(doc[i])
    BY <2>3 DEF Listed
  <2>6. CASE doc[i].tag = "/style"
    BY <2>4, <2>6 DEF Resource, Inline, ResourceKnown
  <2>7. CASE doc[i].tag # "/style"
    <3>1. s[j] = Named(base, doc[i]) /\ doc[i].tag \in {"css", "link", "script", "img", "a"}
      BY <2>4, <2>5, <2>7 DEF Resource, Listing, ResourceType
    <3>2. s[j].type \in {"STYLESHEET", "LINK", "SCRIPT", "IMAGE"}
      BY <3>1 DEF Named, ResourceType
    <3> QED
      BY <3>2 DEF ResourceKnown
  <2> QED
    BY <2>6, <2>7
<1> HIDE DEF s
<1>6. \A r \in ToSet(s) : ResourceKnown(r)
  BY <1>4, <1>5, SeqFacts
<1> QED
  BY <1>3, <1>4, <1>6

\* More items, and nothing taken away.
Grown ==
  /\ IsSeq(items') /\ Len(items) <= Len(items') /\ Len(items') <= MaxItems
  /\ \A i \in 1..Len(items) : items'[i] = items[i]
  /\ failed \subseteq failed'
  /\ UNCHANGED <<page_name, start>>

LEMMA GrownKeeps ==
  ASSUME PipelineInv, Grown
  PROVE  /\ Len(items) \in Nat /\ Len(items') \in Nat /\ MaxItems \in Nat
         /\ start' \in Nat /\ start' <= Len(items')
         /\ Full(items) => Full(items')
         /\ \A r : Covered(r) => Covered(r)'
         /\ \A i \in start+1..Len(items) : i \in start+1..Len(items') /\ items'[i] = items[i]
<1>1. Len(items) \in Nat /\ Len(items') \in Nat /\ MaxItems \in Nat /\ start \in Nat
  BY SeqFacts, PipelineAssumption DEF PipelineInv, Context, Grown
<1>2. start' \in Nat /\ start' <= Len(items')
  BY <1>1 DEF PipelineInv, Context, Grown
<1>3. Full(items) => Full(items')
  BY <1>1 DEF Grown, Full
<1>4. \A i \in start+1..Len(items) : i \in start+1..Len(items') /\ items'[i] = items[i]
  BY <1>1 DEF Grown
<1>5. ASSUME NEW r, Covered(r) PROVE Covered(r)'
  <2>1. start' = start /\ failed \subseteq failed'
    BY DEF Grown
  <2>2. CASE r.name \in failed
    BY <2>1, <2>2 DEF Covered
  <2>3. CASE Full(items)
    BY <1>3, <2>3 DEF Covered
  <2>4. CASE \E i \in start+1..Len(items) : items[i].name = r.name /\ items[i].type = r.type
    BY <1>4, <2>1, <2>4 DEF Covered
  <2> QED
    BY <1>5, <2>2, <2>3, <2>4 DEF Covered
<1> QED
  BY <1>1, <1>2, <1>3, <1>4, <1>5

\* A task that runs after its dependencies leaves the order as it was.
LEMMA RunKeepsOrder ==
  ASSUME TypeOK, Order, NEW task \in Tasks, Run(task)
  PROVE  /\ done' \subseteq Tasks /\ task \notin done /\ task \in done'
         /\ \A other \in done' : Deps(other) \subseteq done'
         /\ \A other \in done' : other = task \/ other \in done
         /\ "parse_html" \notin done =>
              /\ "fetch_css" \notin done /\ "fetch_images" \notin done
              /\ "fetch_scripts" \notin done
         /\ "fetch_html" \notin done => "parse_html" \notin done
<1>1. task \notin done /\ Deps(task) \subseteq done /\ done' = done \cup {task}
  BY DEF Run, Ready
<1>2. \A other \in done : Deps(other) \subseteq done
  BY DEF Order
<1>3. \A other \in done' : Deps(other) \subseteq done'
  BY <1>1, <1>2
<1>4. done' \subseteq Tasks
  BY <1>1 DEF TypeOK
<1>5. /\ Deps("parse_html") = {"fetch_html"}
      /\ Deps("fetch_css") = {"parse_html"} /\ Deps("fetch_images") = {"parse_html"}
      /\ Deps("fetch_scripts") = {"parse_html"}
  BY DEF Deps
<1> QED
  BY <1>1, <1>2, <1>3, <1>4, <1>5

\* What only adds items of the parsed page to the context, and covers the resources
\* of its own task, keeps the invariant.
LEMMA LateTaskKeeps ==
  ASSUME PipelineInv, NEW task \in Tasks \ {"fetch_html", "parse_html"}, Run(task), Grown,
         "parse_html" \in done,
         page_html' = page_html, html_result' = html_result,
         \A i \in Len(items)+1..Len(items') :
            \E r \in ToSet(html_result) : r.name = items'[i].name /\ r.type = items'[i].type,
         \A r \in ToSet(html_result) :
            r.type # "LINK" /\ FetchTask[r.type] = task => Covered(r)'
  PROVE  PipelineInv'
<1>1. /\ Len(items) \in Nat /\ Len(items') \in Nat /\ MaxItems \in Nat
      /\ start' \in Nat /\ start' <= Len(items')
      /\ Full(items) => Full(items')
      /\ \A r : Covered(r) => Covered(r)'
      /\ \A i \in start+1..Len(items) : i \in start+1..Len(items') /\ items'[i] = items[i]
  BY GrownKeeps
<1>2. /\ done' \subseteq Tasks /\ \A other \in done' : Deps(other) \subseteq done'
      /\ \A other \in done' : other = task \/ other \in done
      /\ "parse_html" \in done' /\ ("fetch_html" \in done' => "fetch_html" \in done)
      /\ ("fetch_html" \notin done' => "fetch_html" \notin done)
  <2>1. TypeOK /\ Order
    BY DEF PipelineInv
  <2>2. done' = done \cup {task}
    BY DEF Run
  <2> QED
    BY <2>1, <2>2, RunKeepsOrder
<1>3. page_name' = page_name /\ start' = start /\ failed \subseteq failed'
  BY DEF Grown
<1>4. page_html > 0 => page_html \in 1..Len(items) /\ items'[page_html] = items[page_html]
  BY <1>1 DEF PipelineInv, TypeOK, Grown
<1>5. TypeOK'
  BY <1>1, <1>2, <1>3, <1>4 DEF PipelineInv, TypeOK, Grown
<1>6. Context'
  BY <1>1, <1>3, <1>4 DEF PipelineInv, Context, Grown
<1>7. Order'
  BY <1>2, <1>3 DEF PipelineInv, Order
<1>8. Progress'
  <2>1. "fetch_html" \in done' /\ page_html' \in 1..start' =>
          page_name' \in failed' \/ page_name' \notin HtmlNames \/ Full(items')
    BY <1>1, <1>2, <1>3 DEF PipelineInv, Progress
  <2>2. ASSUME NEW r \in ToSet(html_result), r.type # "LINK", FetchTask[r.type] \in done'
        PROVE  Covered(r)'
    <3>1. CASE FetchTask[r.type] = task
      BY <2>2, <3>1
    <3>2. CASE FetchTask[r.type] \in done
      <4>1. Covered(r)
        BY <2>2, <3>2 DEF PipelineInv, Progress
      <4> QED
        BY <1>1, <4>1
    <3> QED
      BY <1>2, <2>2, <3>1, <3>2
  <2> QED
    BY <2>1, <2>2 DEF Progress
<1>9. ParsedAsExpected'
  <2>1. "parse_html" \in done' /\ page_html' > 0 =>
          html_result' = Expected(Component(Head(page_name')), items'[page_html'].doc)
    BY <1>3, <1>4 DEF PipelineInv, ParsedAsExpected
  <2> QED
    BY <2>1 DEF ParsedAsExpected
<1>10. ItemsOfParsedPage'
  <2>1. ASSUME NEW i \in start+1..Len(items')
        PROVE  \/ items'[i].name = page_name
               \/ \E r \in ToSet(html_result) : r.name = items'[i].name /\ r.type = items'[i].type
    <3>1. CASE i <= Len(items)
      <4>1. i \in start+1..Len(items) /\ items'[i] = items[i]
        BY <1>1, <1>3, <3>1
      <4> QED
        BY <4>1 DEF PipelineInv, ItemsOfParsedPage
    <3>2. CASE ~(i <= Len(items))
      <4>1. i \in Len(items)+1..Len(items')
        BY <1>1, <1>3, <3>2
      <4> QED
        BY <4>1
    <3> QED
      BY <3>1, <3>2
  <2> QED
    BY <1>3, <2>1 DEF ItemsOfParsedPage
<1> QED
  BY <1>5, <1>6, <1>7, <1>8, <1>9, <1>10 DEF PipelineInv

----------------------------------------------------------------------------
(* The steps *)

\* What the items after a fetch are, when they are the context's.
LEMMA FetchGrows ==
  ASSUME PipelineInv, NEW its, IsSeq(its), Len(items) <= Len(its), Len(its) <= MaxItems,
         \A i \in 1..Len(items) : its[i] = items[i],
         \A i \in Len(items)+1..Len(its) :
            \E r \in ToSet(html_result) : r.name = its[i].name /\ r.type = its[i].type,
         NEW type, NEW found
  PROVE  LET t == Fetched(its, type, found)
         IN  /\ IsSeq(t) /\ Len(its) <= Len(t) /\ Len(items) <= Len(t) /\ Len(t) <= MaxItems
             /\ \A i \in 1..Len(its) : t[i] = its[i]
             /\ \A i \in 1..Len(items) : t[i] = items[i]
             /\ \A i \in Len(items)+1..Len(t) :
                  \E r \in ToSet(html_result) : r.name = t[i].name /\ r.type = t[i].type
             /\ \A r \in ToSet(html_result) :
                  r.type = type /\ r.name \in found =>
                    \/ Full(t)
                    \/ \E i \in Len(items)+1..Len(t) : t[i].name = r.name /\ t[i].type = r.type
<1> DEFINE t == Fetched(its, type, found)
<1>1. IsSeq(html_result) /\ IsSeq(items)
  BY DEF PipelineInv, Context
<1>2. FetchedUpto(its, t, type, found, Len(html_result))
  BY <1>1, FetchedFacts
<1> HIDE DEF t
<1>3. /\ IsSeq(t) /\ Len(its) <= Len(t) /\ Len(t) <= MaxItems
      /\ Len(items) \in Nat /\ Len(its) \in Nat /\ Len(t) \in Nat
  BY <1>1, <1>2, SeqFacts DEF FetchedUpto
<1>4. \A i \in 1..Len(its) : t[i] = its[i]
  BY <1>2 DEF FetchedUpto
<1>5. \A i \in 1..Len(items) : t[i] = items[i]
  BY <1>3, <1>4
<1>6. ASSUME NEW i \in Len(items)+1..Len(t)
      PROVE  \E r \in ToSet(html_result) : r.name = t[i].name /\ r.type = t[i].type
  <2>1. CASE i <= Len(its)
    <3>1. i \in Len(items)+1..Len(its) /\ i \in 1..Len(its)
      BY <1>3, <2>1
    <3> QED
      BY <1>4, <3>1
  <2>2. CASE ~(i <= Len(its))
    <3>1. i \in Len(its)+1..Len(t)
      BY <1>3, <2>2
    <3> QED
      BY <1>2, <3>1 DEF FetchedUpto
  <2> QED
    BY <2>1, <2>2
<1>7. ASSUME NEW r \in ToSet(html_result), r.type = type, r.name \in found, ~Full(t)
      PROVE  \E i \in Len(items)+1..Len(t) : t[i].name = r.name /\ t[i].type = r.type
  <2>1. PICK j \in 1..Len(html_result) : html_result[j] = r
    BY <1>1, SeqFacts
  <2>2. PICK i \in Len(its)+1..Len(t) : t[i].name = r.name /\ t[i].type = type
    BY <1>2, <1>7, <2>1 DEF FetchedUpto
  <2>3. i \in Len(items)+1..Len(t)
    BY <1>3
  <2> QED
    BY <1>7, <2>2, <2>3
<1> QED
  BY <1>3, <1>4, <1>5, <1>6, <1>7 DEF t

\* A late task has the parse behind it.
LEMMA LateTasks ==
  ASSUME PipelineInv, NEW task \in Tasks \ {"fetch_html", "parse_html"}, Run(task)
  PROVE  "parse_html" \in done
<1>1. Deps(task) \subseteq done /\ \A other \in done : Deps(other) \subseteq done
  BY DEF PipelineInv, Order, Run, Ready
<1>2. CASE task \in {"fetch_css", "fetch_images", "fetch_scripts"}
  BY <1>1, <1>2 DEF Deps
<1>3. CASE task = "render"
  <2>1. "fetch_css" \in done
    BY <1>1, <1>3 DEF Deps
  <2>2. Deps("fetch_css") = {"parse_html"}
    BY DEF Deps
  <2> QED
    BY <1>1, <2>1, <2>2
<1> QED
  BY <1>2, <1>3 DEF Tasks

\* A resource that was asked for is covered: it was not found, or its item is there.
LEMMA FetchedCovered ==
  ASSUME PipelineInv, NEW its, its = items',
         Len(items) <= Len(its), start' = start,
         NEW type, NEW found, failed' = failed \cup (NamesOf(type) \ found),
         NEW r \in ToSet(html_result), r.type = type,
         r.name \in found =>
           \/ Full(its)
           \/ \E i \in Len(items)+1..Len(its) : its[i].name = r.name /\ its[i].type = r.type
  PROVE  Covered(r)'
<1>1. start \in Nat /\ start <= Len(items) /\ Len(items) \in Nat
  BY SeqFacts DEF PipelineInv, Context
<1>2. CASE r.name \notin found
  <2>1. r.name \in NamesOf(type)
    BY DEF NamesOf
  <2> QED
    BY <1>2, <2>1 DEF Covered
<1>3. CASE r.name \in found /\ Full(its)
  BY <1>3 DEF Covered
<1>4. CASE r.name \in found /\ ~Full(its)
  <2>1. PICK i \in Len(items)+1..Len(its) : its[i].name = r.name /\ its[i].type = r.type
    BY <1>4
  <2>2. i \in start'+1..Len(items')
    BY <1>1
  <2> QED
    BY <2>1, <2>2 DEF Covered
<1> QED
  BY <1>2, <1>3, <1>4

\* A fetch of images or scripts.
LEMMA ResolveKeeps ==
  ASSUME PipelineInv, NEW task \in {"fetch_images", "fetch_scripts"}, NEW type, NEW found,
         type = IF task = "fetch_images" THEN "IMAGE" ELSE "SCRIPT",
         FetchResources(task, type, found, Fetched(items, type, found))
  PROVE  PipelineInv'
<1> DEFINE t == Fetched(items, type, found)
<1>1. /\ Run(task) /\ items' = t /\ failed' = failed \cup (NamesOf(type) \ found)
      /\ page_name' = page_name /\ page_html' = page_html /\ html_result' = html_result
      /\ start' = start
  BY DEF FetchResources
<1>2. /\ IsSeq(t) /\ Len(items) <= Len(t) /\ Len(t) <= MaxItems
      /\ \A i \in 1..Len(items) : t[i] = items[i]
      /\ \A i \in Len(items)+1..Len(t) :
           \E r \in ToSet(html_result) : r.name = t[i].name /\ r.type = t[i].type
      /\ \A r \in ToSet(html_result) :
           r.type = type /\ r.name \in found =>
             \/ Full(t)
             \/ \E i \in Len(items)+1..Len(t) : t[i].name = r.name /\ t[i].type = r.type
  <2>1. /\ IsSeq(items) /\ Len(items) <= MaxItems /\ Len(items) \in Nat
    BY SeqFacts DEF PipelineInv, Context, TypeOK
  <2>2. \A i \in Len(items)+1..Len(items) : FALSE
    BY <2>1
  <2> QED
    BY <2>1, <2>2, FetchGrows
<1> HIDE DEF t
<1>3. Grown
  BY <1>1, <1>2 DEF Grown
<1>4. "parse_html" \in done
  BY <1>1, LateTasks DEF Tasks
<1>5. ASSUME NEW r \in ToSet(html_result), r.type # "LINK", FetchTask[r.type] = task
      PROVE  Covered(r)'
  <2>1. ResourceKnown(r)
    BY DEF PipelineInv, Context
  <2>2. r.type = type
    BY <1>5, <2>1 DEF ResourceKnown, FetchTask
  <2> QED
    BY <1>1, <1>2, <2>2, FetchedCovered
<1>6. task \in Tasks \ {"fetch_html", "parse_html"}
  BY DEF Tasks
<1> QED
  BY <1>1, <1>2, <1>3, <1>4, <1>5, <1>6, LateTaskKeeps

\* The style sheets: those to fetch, then the inline ones.
LEMMA ResolveCssKeeps ==
  ASSUME PipelineInv, ResolveCss PROVE PipelineInv'
<1>1. PICK found \in Findable("STYLESHEET") :
        FetchResources("fetch_css", "STYLESHEET", found,
          Fetched(Fetched(items, "STYLESHEET", found), "INLINE_CSS", {<<>>}))
  BY DEF ResolveCss
<1> DEFINE s == Fetched(items, "STYLESHEET", found)
           t == Fetched(s, "INLINE_CSS", {<<>>})
<1>2. /\ Run("fetch_css") /\ items' = t
      /\ failed' = failed \cup (NamesOf("STYLESHEET") \ found)
      /\ page_name' = page_name /\ page_html' = page_html /\ html_result' = html_result
      /\ start' = start
  BY <1>1 DEF FetchResources
<1>3. IsSeq(items) /\ Len(items) <= MaxItems /\ Len(items) \in Nat /\ start <= Len(items)
      /\ start \in Nat
  BY SeqFacts DEF PipelineInv, Context, TypeOK
<1>4. /\ IsSeq(s) /\ Len(items) <= Len(s) /\ Len(s) <= MaxItems
      /\ \A i \in 1..Len(items) : s[i] = items[i]
      /\ \A i \in Len(items)+1..Len(s) :
           \E r \in ToSet(html_result) : r.name = s[i].name /\ r.type = s[i].type
      /\ \A r \in ToSet(html_result) :
           r.type = "STYLESHEET" /\ r.name \in found =>
             \/ Full(s)
             \/ \E i \in Len(items)+1..Len(s) : s[i].name = r.name /\ s[i].type = r.type
  <2>1. \A i \in Len(items)+1..Len(items) : FALSE
    BY <1>3
  <2> QED
    BY <1>3, <2>1, FetchGrows
<1> HIDE DEF s
<1>5. /\ IsSeq(t) /\ Len(s) <= Len(t) /\ Len(items) <= Len(t) /\ Len(t) <= MaxItems
      /\ \A i \in 1..Len(s) : t[i] = s[i]
      /\ \A i \in 1..Len(items) : t[i] = items[i]
      /\ \A i \in Len(items)+1..Len(t) :
           \E r \in ToSet(html_result) : r.name = t[i].name /\ r.type = t[i].type
      /\ \A r \in ToSet(html_result) :
           r.type = "INLINE_CSS" /\ r.name \in {<<>>} =>
             \/ Full(t)
             \/ \E i \in Len(items)+1..Len(t) : t[i].name = r.name /\ t[i].type = r.type
  BY <1>4, FetchGrows
<1> HIDE DEF t
<1>6. Grown
  BY <1>2, <1>5 DEF Grown
<1>7. "parse_html" \in done
  BY <1>2, LateTasks DEF Tasks
<1>8. ASSUME NEW r \in ToSet(html_result), r.type # "LINK", FetchTask[r.type] = "fetch_css"
      PROVE  Covered(r)'
  <2>1. ResourceKnown(r)
    BY DEF PipelineInv, Context
  <2>2. Len(s) \in Nat /\ Len(t) \in Nat /\ MaxItems \in Nat
    BY <1>4, <1>5, SeqFacts, PipelineAssumption
  <2>3. CASE r.type = "STYLESHEET"
    <3>1. r.name \in found =>
            \/ Full(t)
            \/ \E i \in Len(items)+1..Len(t) : t[i].name = r.name /\ t[i].type = r.type
      <4>1. CASE r.name \in found /\ Full(s)
        BY <1>5, <2>2, <4>1 DEF Full
      <4>2. CASE r.name \in found /\ ~Full(s)
        <5>1. PICK i \in Len(items)+1..Len(s) : s[i].name = r.name /\ s[i].type = r.type
          BY <1>4, <2>3, <4>2
        <5>2. i \in Len(items)+1..Len(t) /\ i \in 1..Len(s)
          BY <1>3, <1>5, <2>2
        <5> QED
          BY <1>5, <5>1, <5>2
      <4> QED
        BY <4>1, <4>2
    <3> QED
      BY <1>2, <1>5, <2>3, <3>1, FetchedCovered
  <2>4. CASE r.type = "INLINE_CSS"
    <3>1. r.name \in {<<>>}
      BY <2>1, <2>4 DEF ResourceKnown
    <3>2. \/ Full(t)
          \/ \E i \in Len(items)+1..Len(t) : t[i].name = r.name /\ t[i].type = r.type
      BY <1>5, <2>4, <3>1
    <3>3. CASE Full(t)
      BY <1>2, <3>3 DEF Covered
    <3>4. CASE \E i \in Len(items)+1..Len(t) : t[i].name = r.name /\ t[i].type = r.type
      <4>1. PICK i \in Len(items)+1..Len(t) : t[i].name = r.name /\ t[i].type = r.type
        BY <3>4
      <4>2. i \in start'+1..Len(items')
        BY <1>2, <1>3, <2>2
      <4> QED
        BY <1>2, <4>1, <4>2 DEF Covered
    <3> QED
      BY <3>2, <3>3, <3>4
  <2> QED
    BY <1>8, <2>1, <2>3, <2>4 DEF ResourceKnown, FetchTask
<1>9. "fetch_css" \in Tasks \ {"fetch_html", "parse_html"}
  BY DEF Tasks
<1> QED
  BY <1>2, <1>5, <1>6, <1>7, <1>8, <1>9, LateTaskKeeps

LEMMA RenderKeeps == ASSUME PipelineInv, Render PROVE PipelineInv'
<1>1. /\ Run("render")
      /\ page_name' = page_name /\ items' = items /\ page_html' = page_html
      /\ html_result' = html_result /\ start' = start /\ failed' = failed
  BY DEF Render
<1>2. IsSeq(items) /\ Len(items) <= MaxItems /\ Len(items) \in Nat
  BY SeqFacts DEF PipelineInv, Context, TypeOK
<1>3. Grown
  BY <1>1, <1>2 DEF Grown
<1>4. "render" \in Tasks \ {"fetch_html", "parse_html"}
  BY DEF Tasks
<1>5. "parse_html" \in done
  BY <1>1, <1>4, LateTasks
<1>6. \A r \in ToSet(html_result) : r.type # "LINK" => FetchTask[r.type] # "render"
  BY DEF PipelineInv, Context, ResourceKnown, FetchTask
<1>7. \A i \in Len(items)+1..Len(items') : FALSE
  BY <1>1, <1>2
<1> QED
  BY <1>1, <1>3, <1>4, <1>5, <1>6, <1>7, LateTaskKeeps

\* A new load: no task has run, and no item is of this load yet.
LEMMA BuildGraphKeeps ==
  ASSUME PipelineInv, NEW page \in DOMAIN Docs, BuildGraph(page) PROVE PipelineInv'
<1>1. /\ page_name' = page /\ done' = {} /\ start' = Len(items)
      /\ items' = items /\ page_html' = page_html /\ html_result' = html_result
  BY DEF BuildGraph
<1>2. Len(items) \in Nat
  BY SeqFacts DEF PipelineInv, Context
<1>3. \A i \in start'+1..Len(items') : FALSE
  BY <1>1, <1>2
<1>4. TypeOK'
  BY <1>1 DEF PipelineInv, TypeOK
<1>5. Context'
  BY <1>1, <1>2 DEF PipelineInv, Context
<1>6. Order'
  BY <1>1, <1>3 DEF Order
<1>7. Progress'
  BY <1>1 DEF Progress
<1>8. ParsedAsExpected'
  BY <1>1 DEF ParsedAsExpected
<1>9. ItemsOfParsedPage'
  BY <1>3 DEF ItemsOfParsedPage
<1> QED
  BY <1>4, <1>5, <1>6, <1>7, <1>8, <1>9 DEF PipelineInv

\* The page: one more item, if it was found and there is room.
LEMMA FetchHtmlKeeps == ASSUME PipelineInv, FetchHtml PROVE PipelineInv'
<1>1. /\ Run("fetch_html") /\ "fetch_html" \in Tasks
      /\ page_name' = page_name /\ html_result' = html_result /\ start' = start
  BY DEF FetchHtml, Tasks
<1>2. /\ IsSeq(items) /\ Len(items) <= MaxItems /\ Len(items) \in Nat /\ MaxItems \in Nat
      /\ start \in Nat /\ start <= Len(items)
  BY SeqFacts, PipelineAssumption DEF PipelineInv, Context, TypeOK
<1>3. /\ done' \subseteq Tasks /\ "fetch_html" \notin done /\ "fetch_html" \in done'
      /\ \A other \in done' : Deps(other) \subseteq done'
      /\ "parse_html" \notin done' /\ "fetch_css" \notin done' /\ "fetch_images" \notin done'
      /\ "fetch_scripts" \notin done'
  <2>1. TypeOK /\ Order
    BY DEF PipelineInv
  <2>2. done' = done \cup {"fetch_html"}
    BY <1>1 DEF Run
  <2> QED
    BY <1>1, <2>1, <2>2, RunKeepsOrder
<1>4. page_name \in DOMAIN Docs
  BY <1>3 DEF PipelineInv, Order
\* The three outcomes.
<1> DEFINE Missed == /\ items' = items /\ page_html' = page_html
                     /\ page_name \in failed' \/ Full(items)
           Found(doc) == LET item == Item(page_name, DetectType(page_name), doc)
                         IN  /\ ~Full(items)
                             /\ items' = Append(items, item)
                             /\ page_html' = PageAfter(item, Len(items) + 1)
<1>5. /\ failed \subseteq failed'
      /\ Missed \/ \E doc \in Docs[page_name] : Found(doc)
  <2>1. CASE failed' = failed \cup {page_name} /\ items' = items /\ page_html' = page_html
    BY <2>1
  <2>2. CASE Full(items) /\ items' = items /\ page_html' = page_html /\ failed' = failed
    BY <2>2
  <2>3. CASE ~Full(items) /\ failed' = failed /\ \E doc \in Docs[page_name] : Found(doc)
    BY <2>3
  <2>4. \/ failed' = failed \cup {page_name} /\ items' = items /\ page_html' = page_html
        \/ Full(items) /\ items' = items /\ page_html' = page_html /\ failed' = failed
        \/ ~Full(items) /\ failed' = failed /\ \E doc \in Docs[page_name] : Found(doc)
    <3>1. CASE Full(items)
      BY <3>1 DEF FetchHtml
    <3>2. CASE ~Full(items)
      BY <3>2, Zenon DEF FetchHtml
    <3> QED
      BY <3>1, <3>2
  <2> HIDE DEF Missed, Found
  <2> QED
    BY <2>1, <2>2, <2>3, <2>4, Zenon
<1>6. ASSUME NEW r \in ToSet(html_result), r.type # "LINK" PROVE FetchTask[r.type] \notin done'
  BY <1>3, <1>6 DEF PipelineInv, Context, ResourceKnown, FetchTask
<1>7. CASE Missed
  <2>1. TypeOK'
    BY <1>1, <1>3, <1>7 DEF PipelineInv, TypeOK
  <2>2. Context'
    BY <1>1, <1>7 DEF PipelineInv, Context
  <2>3. Order'
    <3>1. \A i \in start+1..Len(items) : items[i].name = page_name
      BY <1>1, <1>3, RunKeepsOrder DEF PipelineInv, Order
    <3> QED
      BY <1>1, <1>3, <1>7, <3>1 DEF Order
  <2>4. Progress'
    BY <1>1, <1>6, <1>7 DEF Progress
  <2>5. ParsedAsExpected'
    BY <1>3 DEF ParsedAsExpected
  <2>6. ItemsOfParsedPage'
    BY <1>1, <1>7 DEF PipelineInv, ItemsOfParsedPage
  <2> QED
    BY <2>1, <2>2, <2>3, <2>4, <2>5, <2>6 DEF PipelineInv
<1>8. ASSUME NEW doc \in Docs[page_name], Found(doc) PROVE PipelineInv'
  <2> DEFINE item == Item(page_name, DetectType(page_name), doc)
             t == Append(items, item)
  <2>1. ~Full(items) /\ items' = t /\ page_html' = PageAfter(item, Len(items) + 1)
    BY <1>8
  <2>2. item.name = page_name /\ item.doc = doc /\ item.type = DetectType(page_name)
    BY DEF Item
  <2>3. IsSeq(doc)
    BY <1>4, PipelineAssumption DEF IsSeq
  <2>4. /\ IsSeq(t) /\ Len(t) = Len(items) + 1
        /\ \A i \in 1..Len(items) : t[i] = items[i]
        /\ t[Len(items) + 1] = item
    <3> HIDE DEF item
    <3> QED
      BY <1>2, AppendFacts
  <2> HIDE DEF item, t
  <2>5. Len(t) <= MaxItems
    BY <1>2, <2>1, <2>4 DEF Full
  <2>6. page_html \in 0..Len(items) /\ (page_html > 0 => page_html \in 1..Len(items))
    BY <1>2 DEF PipelineInv, TypeOK
  <2>7. /\ page_html' \in 0..Len(t)
        /\ page_html' > 0 => t[page_html'].type = "HTML" /\ IsSeq(t[page_html'].doc)
        /\ page_html' = 0 => page_html = 0
    <3>1. CASE item.type = "HTML"
      <4>1. page_html' = Len(items) + 1
        BY <2>1, <3>1 DEF PageAfter
      <4> QED
        BY <1>2, <2>2, <2>3, <2>4, <3>1, <4>1
    <3>2. CASE item.type # "HTML"
      <4>1. page_html' = page_html
        BY <2>1, <3>2 DEF PageAfter
      <4>2. page_html > 0 => t[page_html] = items[page_html]
        BY <2>4, <2>6
      <4>3. page_html > 0 => items[page_html].type = "HTML" /\ IsSeq(items[page_html].doc)
        BY DEF PipelineInv, TypeOK, Context
      <4> QED
        BY <1>2, <2>4, <2>6, <4>1, <4>2, <4>3
    <3> QED
      BY <3>1, <3>2
  <2>8. TypeOK'
    BY <1>1, <1>3, <2>1, <2>5, <2>7 DEF PipelineInv, TypeOK
  <2>9. Context'
    BY <1>1, <1>2, <2>1, <2>4, <2>7 DEF PipelineInv, Context
  <2>10. \A i \in start+1..Len(t) : i \in start+1..Len(items) \/ i = Len(items) + 1
    BY <1>2, <2>4
  <2>11. \A i \in start+1..Len(items) : t[i] = items[i]
    BY <1>2, <2>4
  <2>12. Order'
    <3>1. \A i \in start+1..Len(items) : items[i].name = page_name
      BY <1>3, RunKeepsOrder, <1>1 DEF PipelineInv, Order
    <3>2. \A i \in start+1..Len(t) : t[i].name = page_name
      BY <2>2, <2>4, <2>10, <2>11, <3>1
    <3> QED
      BY <1>1, <1>3, <1>4, <2>1, <3>2 DEF Order
  <2>13. Progress'
    <3>1. page_html' \in 1..start => page_name \notin HtmlNames
      <4>1. CASE page_name \in HtmlNames
        <5>1. page_html' = Len(items) + 1
          BY <2>1, <2>2, <4>1 DEF PageAfter, DetectType
        <5> QED
          BY <1>2, <5>1
      <4> QED
        BY <4>1
    <3> QED
      BY <1>1, <1>6, <3>1 DEF Progress
  <2>14. ParsedAsExpected'
    BY <1>3 DEF ParsedAsExpected
  <2>15. ItemsOfParsedPage'
    <3>1. ASSUME NEW i \in start+1..Len(t)
          PROVE  \/ t[i].name = page_name
                 \/ \E r \in ToSet(html_result) : r.name = t[i].name /\ r.type = t[i].type
      <4>1. CASE i \in start+1..Len(items)
        <5>1. t[i] = items[i]
          BY <2>11, <4>1
        <5> QED
          BY <4>1, <5>1 DEF PipelineInv, ItemsOfParsedPage
      <4>2. CASE i = Len(items) + 1
        BY <2>2, <2>4, <4>2
      <4> QED
        BY <2>10, <4>1, <4>2
    <3> QED
      BY <1>1, <2>1, <3>1 DEF ItemsOfParsedPage
  <2> QED
    BY <2>8, <2>9, <2>12, <2>13, <2>14, <2>15 DEF PipelineInv
<1> QED
  BY <1>5, <1>7, <1>8

\* The parse: other resources, none of which a task has fetched yet.
LEMMA ParseHtmlKeeps == ASSUME PipelineInv, ParseHtml PROVE PipelineInv'
<1>1. /\ Run("parse_html") /\ "parse_html" \in Tasks
      /\ page_name' = page_name /\ items' = items /\ page_html' = page_html
      /\ start' = start /\ failed' = failed
      /\ html_result' = IF page_html = 0 THEN html_result
                        ELSE Parse(Component(Head(page_name)), items[page_html].doc)
  BY DEF ParseHtml, Tasks
<1>2. /\ done' \subseteq Tasks /\ "parse_html" \notin done /\ "parse_html" \in done'
      /\ \A other \in done' : Deps(other) \subseteq done'
      /\ "fetch_css" \notin done' /\ "fetch_images" \notin done' /\ "fetch_scripts" \notin done'
      /\ "fetch_html" \in done' => "fetch_html" \in done
      /\ "fetch_html" \notin done' => "fetch_html" \notin done
  <2>1. TypeOK /\ Order
    BY DEF PipelineInv
  <2>2. done' = done \cup {"parse_html"}
    BY <1>1 DEF Run
  <2> QED
    BY <1>1, <2>1, <2>2, RunKeepsOrder
<1>3. page_html \in Nat
  <2>1. Len(items) \in Nat
    BY SeqFacts DEF PipelineInv, Context
  <2> QED
    BY <2>1 DEF PipelineInv, TypeOK
<1>4. /\ IsSeq(html_result')
      /\ page_html = 0 => html_result' = <<>>
      /\ \A r \in ToSet(html_result') : ResourceKnown(r)
      /\ page_html > 0 => html_result' = Expected(Component(Head(page_name)), items[page_html].doc)
  <2>1. CASE page_html = 0
    BY <1>1, <2>1 DEF PipelineInv, Context
  <2>2. CASE page_html > 0
    <3> DEFINE base == Component(Head(page_name))
               doc == items[page_html].doc
    <3>1. html_result' = Parse(base, doc)
      BY <1>1, <2>2
    <3>2. IsSeq(doc)
      BY <2>2 DEF PipelineInv, Context
    <3> HIDE DEF base, doc
    <3>3. /\ IsSeq(html_result')
          /\ \A r \in ToSet(html_result') : ResourceKnown(r)
          /\ html_result' = Expected(base, doc)
      BY <3>1, <3>2, ParsedKnown, ParseIsExpected
    <3> QED
      BY <2>2, <3>3 DEF base, doc
  <2> QED
    BY <1>3, <2>1, <2>2
<1>5. TypeOK'
  BY <1>1, <1>2 DEF PipelineInv, TypeOK
<1>6. Context'
  BY <1>1, <1>4 DEF PipelineInv, Context
<1>7. Order'
  BY <1>1, <1>2 DEF PipelineInv, Order
<1>8. Progress'
  <2>1. \A r \in ToSet(html_result') : r.type # "LINK" => FetchTask[r.type] \notin done'
    BY <1>2, <1>4 DEF ResourceKnown, FetchTask
  <2>2. "fetch_html" \in done' /\ page_html' \in 1..start' =>
          page_name' \in failed' \/ page_name' \notin HtmlNames \/ Full(items')
    BY <1>1, <1>2 DEF PipelineInv, Progress
  <2> QED
    BY <2>1, <2>2 DEF Progress
<1>9. ParsedAsExpected'
  BY <1>1, <1>4 DEF ParsedAsExpected
<1>10. ItemsOfParsedPage'
  <2>1. \A i \in start+1..Len(items) : items[i].name = page_name
    BY <1>2 DEF PipelineInv, Order
  <2> QED
    BY <1>1, <2>1 DEF ItemsOfParsedPage
<1> QED
  BY <1>5, <1>6, <1>7, <1>8, <1>9, <1>10 DEF PipelineInv

----------------------------------------------------------------------------
(* The theorems *)

LEMMA InitPipeline == Init => PipelineInv
<1> SUFFICES ASSUME Init PROVE PipelineInv
  OBVIOUS
<1>1. /\ page_name = <<>> /\ items = <<>> /\ page_html = 0 /\ html_result = <<>>
      /\ done = Tasks /\ start = 0
  BY DEF Init
<1>2. IsSeq(items) /\ IsSeq(html_result) /\ Len(items) = 0 /\ ToSet(html_result) = {}
  BY <1>1, NoElements
<1>3. MaxItems \in Nat
  BY PipelineAssumption
<1>4. \A i \in start+1..Len(items) : FALSE
  BY <1>1, <1>2
<1>5. \A task \in Tasks : Deps(task) \subseteq Tasks
  BY DEF Deps, Tasks
<1>6. TypeOK
  BY <1>1, <1>2, <1>3 DEF TypeOK
<1>7. Context
  BY <1>1, <1>2 DEF Context
<1>8. Order
  BY <1>1, <1>5 DEF Order, Tasks
<1>9. Progress
  BY <1>1, <1>2 DEF Progress
<1>10. ParsedAsExpected
  BY <1>1 DEF ParsedAsExpected
<1>11. ItemsOfParsedPage
  BY <1>4 DEF ItemsOfParsedPage
<1> QED
  BY <1>6, <1>7, <1>8, <1>9, <1>10, <1>11 DEF PipelineInv

LEMMA StepPipeline == PipelineInv /\ [Next]_vars => PipelineInv'
<1> SUFFICES ASSUME PipelineInv, [Next]_vars PROVE PipelineInv'
  OBVIOUS
<1>1. CASE \E page \in DOMAIN Docs : BuildGraph(page)
  BY <1>1, BuildGraphKeeps
<1>2. CASE FetchHtml
  BY <1>2, FetchHtmlKeeps
<1>3. CASE ParseHtml
  BY <1>3, ParseHtmlKeeps
<1>4. CASE ResolveCss
  BY <1>4, ResolveCssKeeps
<1>5. CASE ResolveImages
  <2>1. PICK found \in Findable("IMAGE") :
          FetchResources("fetch_images", "IMAGE", found, Fetched(items, "IMAGE", found))
    BY <1>5 DEF ResolveImages
  <2> QED
    BY <2>1, ResolveKeeps
<1>6. CASE ResolveScripts
  <2>1. PICK found \in Findable("SCRIPT") :
          FetchResources("fetch_scripts", "SCRIPT", found, Fetched(items, "SCRIPT", found))
    BY <1>6 DEF ResolveScripts
  <2> QED
    BY <2>1, ResolveKeeps
<1>7. CASE Render
  BY <1>7, RenderKeeps
<1>8. CASE UNCHANGED vars
  BY <1>8 DEF vars, PipelineInv, TypeOK, Context, Order, Progress, Covered, ParsedAsExpected,
              ItemsOfParsedPage
<1> QED
  BY <1>1, <1>2, <1>3, <1>4, <1>5, <1>6, <1>7, <1>8 DEF Next

\* The context stays well formed and every loop within the item table, load after load.
THEOREM PipelineTyped == Spec => []TypeOK
<1>1. PipelineInv => TypeOK
  BY DEF PipelineInv
<1> QED
  BY <1>1, InitPipeline, StepPipeline, PTL DEF Spec

\* What is parsed is what the page lists, in its order, whatever the document: nothing a
\* style element hides, and as much as the table holds.
THEOREM ParsedRight == Spec => []ParsedAsExpected
<1>1. PipelineInv => ParsedAsExpected
  BY DEF PipelineInv
<1> QED
  BY <1>1, InitPipeline, StepPipeline, PTL DEF Spec

\* No task fetches for the page that was parsed before: the graph's dependencies allow
\* no order of the tasks in which it would.
THEOREM ItemsAreOfTheirPage == Spec => []ItemsOfParsedPage
<1>1. PipelineInv => ItemsOfParsedPage
  BY DEF PipelineInv
<1> QED
  BY <1>1, InitPipeline, StepPipeline, PTL DEF Spec

\* A load that has ended has every resource of its page, or says why not.
THEOREM PagesComplete == Spec => []PageComplete
<1>1. PipelineInv => PageComplete
  <2> SUFFICES ASSUME PipelineInv, Loaded, NEW r \in ToSet(html_result), r.type # "LINK"
               PROVE  Covered(r)
    BY DEF PageComplete, Covered
  <2>1. FetchTask[r.type] \in done
    BY DEF PipelineInv, Context, ResourceKnown, FetchTask, Loaded, Tasks
  <2> QED
    BY <2>1 DEF PipelineInv, Progress
<1> QED
  BY <1>1, InitPipeline, StepPipeline, PTL DEF Spec

\* The page of an earlier load is the HTML of this one only for the reasons named.
THEOREM StalePagesExplained == Spec => []StalePageExplained
<1>1. PipelineInv => StalePageExplained
  BY DEF PipelineInv, Progress, StalePageExplained, Loaded, Tasks
<1> QED
  BY <1>1, InitPipeline, StepPipeline, PTL DEF Spec
=============================================================================
