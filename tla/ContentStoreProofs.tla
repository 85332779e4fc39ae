------------------------ MODULE ContentStoreProofs ------------------------
(***************************************************************************)
(* The content store for every capacity, budget, lifetime and set of       *)
(* paths: its invariants, what a garbage collection leaves, and that it    *)
(* implements the abstract cache of CacheSpec step by step.  The last      *)
(* sections are about large content, stored in chunks through that table   *)
(* (Chunking): what a lookup returns is all of one content.                *)
(*                                                                         *)
(* The proofs look at the table as a set of entries.  This is exact        *)
(* because no two entries carry the same last_access_ns: a swap-remove     *)
(* takes one entry out of the set whatever slots move, and the byte        *)
(* counter is the sum over the set.                                        *)
(***************************************************************************)
EXTENDS Chunking, TableLemmas, SequenceTheorems

----------------------------------------------------------------------------
(* The table as a set of entries *)

EntryFields == {"name", "data", "data_len", "timestamp", "freshness_ms", "last_access_ns"}

\* Entries with the numbers an entry has, and the stores that hold such entries.
EntryRecords(E) ==
  \A e \in E : e.data_len \in Nat /\ e.last_access_ns \in Nat /\ DOMAIN e = EntryFields
StoresOf(E) == [entries : Seq(E), bytes_used : Nat, max_bytes : Nat]

\* The bytes of a set of entries.
EntryBytes(S) == Total([e \in S |-> e.data_len], S)

\* No two slots were last used at the same time.
Recency(c) ==
  \A i, j \in DOMAIN c.entries :
    c.entries[i].last_access_ns = c.entries[j].last_access_ns => i = j

\* A well-formed store whose byte counter is right.
Table(E, c) ==
  /\ EntryRecords(E)
  /\ c \in StoresOf(E)
  /\ Recency(c)
  /\ c.bytes_used = EntryBytes(EntrySet(c))

\* The slots of a table.
LEMMA SlotsFinite ==
  ASSUME NEW n \in Nat PROVE IsFiniteSet(1..n) /\ Cardinality(1..n) = n
BY FS_Interval

\* E of a well-formed table are well-formed, and different slots hold
\* different entries.
LEMMA EntrySetType ==
  ASSUME NEW E, EntryRecords(E), NEW c \in StoresOf(E)
  PROVE  /\ EntrySet(c) \subseteq E
         /\ Len(c.entries) \in Nat /\ DOMAIN c.entries = 1..Len(c.entries)
         /\ \A i \in 1..Len(c.entries) : c.entries[i] \in E
         /\ IsFiniteSet(EntrySet(c))
         /\ Recency(c) => Cardinality(EntrySet(c)) = Len(c.entries)
<1>1. c.entries \in Seq(E)
  BY DEF StoresOf
<1>2. Len(c.entries) \in Nat /\ DOMAIN c.entries = 1..Len(c.entries)
      /\ \A i \in 1..Len(c.entries) : c.entries[i] \in E
  BY <1>1
<1>3. IsFiniteSet(1..Len(c.entries)) /\ Cardinality(1..Len(c.entries)) = Len(c.entries)
  BY <1>2, SlotsFinite
<1> DEFINE h == c.entries
<1>4. EntrySet(c) = {h[i] : i \in 1..Len(c.entries)}
  BY <1>2 DEF EntrySet
<1>5. Recency(c) => \A i, j \in 1..Len(c.entries) : h[i] = h[j] => i = j
  BY <1>2 DEF Recency
<1>6. IsFiniteSet(EntrySet(c))
      /\ (Recency(c) => Cardinality(EntrySet(c)) = Len(c.entries))
  <2> DEFINE D == 1..Len(c.entries)
  <2> HIDE DEF h, D
  <2>1. /\ IsFiniteSet({h[i] : i \in D})
        /\ (\A i, j \in D : h[i] = h[j] => i = j)
             => Cardinality({h[i] : i \in D}) = Cardinality(D)
    <3>1. IsFiniteSet(D)
      BY <1>3 DEF D
    <3> QED
      BY <3>1, ImageFinite
  <2> QED
    BY <1>3, <1>4, <1>5, <2>1 DEF D
<1> QED
  BY <1>2, <1>4, <1>6

\* The bytes of a set of entries, one entry more and one entry less.
LEMMA EntryBytesFacts ==
  ASSUME NEW E, EntryRecords(E), NEW S \in SUBSET E, IsFiniteSet(S)
  PROVE  /\ EntryBytes(S) \in Nat
         /\ \A e \in S : EntryBytes(S) = e.data_len + EntryBytes(S \ {e})
         /\ \A e \in E \ S : EntryBytes(S \cup {e}) = e.data_len + EntryBytes(S)
<1> DEFINE f(T) == [e \in T |-> e.data_len]
<1>1. \A e \in S : f(S)[e] \in Nat
  BY DEF EntryRecords
<1>2. EntryBytes(S) \in Nat
  BY <1>1, TotalTakeOut DEF EntryBytes
<1>3. ASSUME NEW e \in S PROVE EntryBytes(S) = e.data_len + EntryBytes(S \ {e})
  <2>1. Total(f(S), S) = f(S)[e] + Total(f(S), S \ {e})
    BY <1>1, TotalTakeOut
  <2>2. IsFiniteSet(S \ {e})
    BY FS_RemoveElement
  <2>3. Total(f(S), S \ {e}) = Total(f(S \ {e}), S \ {e})
    BY <2>2, TotalAgree
  <2> QED
    BY <2>1, <2>3 DEF EntryBytes
<1>4. ASSUME NEW e \in E \ S
      PROVE  EntryBytes(S \cup {e}) = e.data_len + EntryBytes(S)
  <2> DEFINE U == S \cup {e}
  <2>1. f(U)[e] \in Nat /\ \A x \in S : f(U)[x] \in Nat
    BY DEF EntryRecords
  <2>2. Total(f(U), U) = f(U)[e] + Total(f(U), S)
    BY <2>1, TotalAdd
  <2>3. Total(f(U), S) = Total(f(S), S)
    BY TotalAgree
  <2> QED
    BY <2>2, <2>3 DEF EntryBytes
<1> QED
  BY <1>2, <1>3, <1>4

\* The bytes held slot by slot are the bytes of the set.
LEMMA BytesHeldIsEntryBytes ==
  ASSUME NEW E, EntryRecords(E), NEW c \in StoresOf(E), Recency(c)
  PROVE  BytesHeld(c) = EntryBytes(EntrySet(c))
<1> DEFINE D == DOMAIN c.entries
           f == [i \in D |-> c.entries[i].data_len]
           Sol(g) == g = [s \in SUBSET D |->
                            IF s = {} THEN 0
                            ELSE c.entries[CHOOSE x \in s : TRUE].data_len
                                   + g[s \ {CHOOSE x \in s : TRUE}]]
           G == CHOOSE g : Sol(g)
<1>1. IsFiniteSet(D) /\ D = 1..Len(c.entries)
  BY EntrySetType, SlotsFinite
<1>2. BytesHeld(c) = G[D]
  BY DEF BytesHeld, MapThenSumSet, MapThenFoldSet
<1>3. \A g : Sol(g) <=> SumsOver(g, f, D)
  <2> SUFFICES ASSUME NEW g PROVE Sol(g) <=> SumsOver(g, f, D)
    OBVIOUS
  <2> DEFINE A(s) == IF s = {} THEN 0
                     ELSE c.entries[CHOOSE x \in s : TRUE].data_len
                            + g[s \ {CHOOSE x \in s : TRUE}]
             B(s) == IF s = {} THEN 0 ELSE f[AnyOf(s)] + g[s \ {AnyOf(s)}]
  <2>1. ASSUME NEW s \in SUBSET D PROVE A(s) = B(s)
    <3>1. CASE s = {}
      BY <3>1
    <3>2. CASE s # {}
      <4>1. AnyOf(s) \in s /\ AnyOf(s) = CHOOSE x \in s : TRUE
        BY <3>2 DEF AnyOf
      <4>2. f[AnyOf(s)] = c.entries[AnyOf(s)].data_len
        BY <4>1
      <4> QED
        BY <4>1, <4>2
    <3> QED
      BY <3>1, <3>2
  <2>2. [s \in SUBSET D |-> A(s)] = [s \in SUBSET D |-> B(s)]
    <3> HIDE DEF A, B
    <3> QED
      BY <2>1
  <2> QED
    BY <2>2 DEF SumsOver
<1>4. Sol(G)
  <2> HIDE DEF Sol
  <2>1. \E g : Sol(g)
    BY <1>1, <1>3, SumExists
  <2> QED
    BY <2>1
<1>5. G[D] = Total(f, D)
  <2> HIDE DEF Sol, G, f, D
  <2>1. SumsOver(G, f, D)
    BY <1>3, <1>4
  <2> QED
    BY <1>1, <2>1, TotalIsSum
<1>6. Total(f, D) = EntryBytes(EntrySet(c))
  <2> DEFINE h == c.entries
             e == [x \in EntrySet(c) |-> x.data_len]
  <2>1. \A i, j \in D : h[i] = h[j] => i = j
    BY DEF Recency
  <2>2. \A i \in D : f[i] \in Nat /\ e[h[i]] = f[i]
    BY EntrySetType DEF EntrySet, EntryRecords
  <2>3. EntrySet(c) = {h[i] : i \in D}
    BY DEF EntrySet
  <2>4. Total(f, D) = Total(e, EntrySet(c))
    <3>0. IsFiniteSet(D)
      BY <1>1
    <3> HIDE DEF f, e, h, D
    <3>1. Total(f, D) = Total(e, {h[i] : i \in D})
      BY <3>0, <2>1, <2>2, TotalImage
    <3> QED
      BY <2>3, <3>1
  <2> QED
    BY <2>4 DEF EntryBytes
<1> QED
  BY <1>2, <1>5, <1>6

----------------------------------------------------------------------------
(* The primitive steps on a table *)

\* The three fields of a store, two of them written.
LEMMA StoreExcept ==
  ASSUME NEW E, EntryRecords(E), NEW c \in StoresOf(E), NEW s, NEW b
  PROVE  /\ [c EXCEPT !.entries = s, !.bytes_used = b]
               = [entries |-> s, bytes_used |-> b, max_bytes |-> c.max_bytes]
         /\ [c EXCEPT !.entries = s]
               = [entries |-> s, bytes_used |-> c.bytes_used, max_bytes |-> c.max_bytes]
<1> DEFINE R == [entries |-> s, bytes_used |-> b, max_bytes |-> c.max_bytes]
           Q == [c EXCEPT !.entries = s, !.bytes_used = b]
           R1 == [entries |-> s, bytes_used |-> c.bytes_used, max_bytes |-> c.max_bytes]
           Q1 == [c EXCEPT !.entries = s]
<1>1. DOMAIN c = {"entries", "bytes_used", "max_bytes"}
  BY DEF StoresOf
<1>2. /\ Q = [f \in {"entries", "bytes_used", "max_bytes"} |-> Q[f]]
      /\ R = [f \in {"entries", "bytes_used", "max_bytes"} |-> R[f]]
      /\ Q1 = [f \in {"entries", "bytes_used", "max_bytes"} |-> Q1[f]]
      /\ R1 = [f \in {"entries", "bytes_used", "max_bytes"} |-> R1[f]]
  BY <1>1
<1>3. Q.entries = s /\ Q.bytes_used = b /\ Q.max_bytes = c.max_bytes
  BY <1>1
<1>4. Q1.entries = s /\ Q1.bytes_used = c.bytes_used /\ Q1.max_bytes = c.max_bytes
  BY <1>1
<1>5. R.entries = s /\ R.bytes_used = b /\ R.max_bytes = c.max_bytes
      /\ R1.entries = s /\ R1.bytes_used = c.bytes_used /\ R1.max_bytes = c.max_bytes
  OBVIOUS
<1> HIDE DEF Q, R, Q1, R1
<1>6. \A f \in {"entries", "bytes_used", "max_bytes"} : Q[f] = R[f] /\ Q1[f] = R1[f]
  BY <1>3, <1>4, <1>5
<1>7. Q = R /\ Q1 = R1
  BY <1>2, <1>6
<1> QED
  BY <1>7 DEF Q, R, Q1, R1

\* free_entry and swap-remove take exactly the entry at i out of the set.
LEMMA DropEntryTable ==
  ASSUME NEW E, NEW c, Table(E, c), NEW i \in 1..Len(c.entries)
  PROVE  LET d == DropEntry(c, i)
         IN  /\ Table(E, d)
             /\ EntrySet(d) = EntrySet(c) \ {c.entries[i]}
             /\ d.max_bytes = c.max_bytes
             /\ Len(d.entries) = Len(c.entries) - 1
             /\ \A j \in 1..Len(c.entries)-1 :
                  d.entries[j] = IF j = i THEN c.entries[Len(c.entries)] ELSE c.entries[j]
<1> DEFINE n == Len(c.entries)
           s == [j \in 1..n-1 |-> IF j = i THEN c.entries[n] ELSE c.entries[j]]
           b == c.bytes_used - c.entries[i].data_len
           d == [entries |-> s, bytes_used |-> b, max_bytes |-> c.max_bytes]
<1>1. EntryRecords(E) /\ c \in StoresOf(E) /\ Recency(c) /\ c.bytes_used = EntryBytes(EntrySet(c))
  BY DEF Table
<1>2. DropEntry(c, i) = d
  <2>1. DropEntry(c, i) = [c EXCEPT !.entries = s, !.bytes_used = b]
    BY DEF DropEntry
  <2> HIDE DEF s, b
  <2> QED
    BY <1>1, <2>1, StoreExcept
<1>3. n \in Nat /\ DOMAIN c.entries = 1..n /\ \A j \in 1..n : c.entries[j] \in E
  BY <1>1, EntrySetType
<1>4. s \in Seq(E) /\ Len(s) = n - 1 /\ DOMAIN s = 1..n-1
  <2>1. \A j \in 1..n-1 : s[j] \in E
    BY <1>3
  <2>2. n - 1 \in Nat
    BY <1>3
  <2> HIDE DEF n
  <2> QED
    BY <2>1, <2>2
<1>5. \A j, k \in 1..n : c.entries[j] = c.entries[k] => j = k
  BY <1>1, <1>3 DEF Recency
<1>6. {s[j] : j \in 1..n-1} = {c.entries[j] : j \in 1..n} \ {c.entries[i]}
  <2>1. ASSUME NEW j \in 1..n-1
        PROVE  s[j] \in {c.entries[k] : k \in 1..n} /\ s[j] # c.entries[i]
    <3>1. j \in 1..n /\ n \in 1..n /\ j # n
      BY <1>3
    <3> QED
      BY <1>5, <3>1
  <2>2. ASSUME NEW j \in 1..n, j # i
        PROVE  \E k \in 1..n-1 : c.entries[j] = s[k]
    <3>1. CASE j = n
      <4>1. i \in 1..n-1
        BY <1>3, <2>2, <3>1
      <4> QED
        BY <3>1, <4>1
    <3>2. CASE j # n
      <4>1. j \in 1..n-1
        BY <1>3, <3>2
      <4> QED
        BY <2>2, <4>1
    <3> QED
      BY <3>1, <3>2
  <2> HIDE DEF s, n
  <2> QED
    BY <2>1, <2>2
<1>7. EntrySet(d) = EntrySet(c) \ {c.entries[i]}
  BY <1>3, <1>4, <1>6 DEF EntrySet
<1>8. c.entries[i] \in EntrySet(c) /\ IsFiniteSet(EntrySet(c)) /\ EntrySet(c) \subseteq E
  BY <1>1, <1>3, EntrySetType DEF EntrySet
<1>9. b = EntryBytes(EntrySet(d)) /\ b \in Nat
  <2>1. c.entries[i].data_len \in Nat
    BY <1>1, <1>8 DEF EntryRecords
  <2>2. EntryBytes(EntrySet(c)) = c.entries[i].data_len + EntryBytes(EntrySet(d))
    BY <1>1, <1>7, <1>8, EntryBytesFacts
  <2>3. EntryBytes(EntrySet(d)) \in Nat
    <3>1. IsFiniteSet(EntrySet(d)) /\ EntrySet(d) \in SUBSET E
      BY <1>7, <1>8, FS_RemoveElement
    <3> QED
      BY <1>1, <3>1, EntryBytesFacts
  <2> HIDE DEF d
  <2> QED
    BY <1>1, <2>1, <2>2, <2>3
<1>10. d \in StoresOf(E)
  BY <1>1, <1>4, <1>9 DEF StoresOf
<1>11. Recency(d)
  <2> SUFFICES ASSUME NEW j \in 1..n-1, NEW k \in 1..n-1,
                      s[j].last_access_ns = s[k].last_access_ns
               PROVE  j = k
    BY <1>4 DEF Recency
  <2> DEFINE m(x) == IF x = i THEN n ELSE x
  <2>1. m(j) \in 1..n /\ m(k) \in 1..n /\ s[j] = c.entries[m(j)] /\ s[k] = c.entries[m(k)]
    BY <1>3
  <2>2. m(j) = m(k)
    BY <1>1, <1>3, <2>1 DEF Recency
  <2> QED
    BY <1>3, <2>2
<1>12. Table(E, d)
  BY <1>9, <1>10, <1>11 DEF Table
<1> HIDE DEF n, b
<1>13. d.entries = s /\ d.max_bytes = c.max_bytes
  OBVIOUS
<1>14. \A j \in 1..n-1 : d.entries[j] = IF j = i THEN c.entries[n] ELSE c.entries[j]
  BY <1>13
<1> HIDE DEF d
<1>15. Len(d.entries) = n - 1
  BY <1>4, <1>13
<1> QED
  BY <1>2, <1>7, <1>12, <1>13, <1>14, <1>15 DEF n

\* A new entry with a stamp of its own is added to the set.
LEMMA AddEntryTable ==
  ASSUME NEW E, NEW c, Table(E, c), NEW e \in E,
         \A x \in EntrySet(c) : x.last_access_ns # e.last_access_ns
  PROVE  LET d == AddEntry(c, e)
         IN  /\ Table(E, d)
             /\ EntrySet(d) = EntrySet(c) \cup {e}
             /\ d.max_bytes = c.max_bytes
             /\ Len(d.entries) = Len(c.entries) + 1
<1> DEFINE n == Len(c.entries)
           s == Append(c.entries, e)
           b == c.bytes_used + e.data_len
           d == [entries |-> s, bytes_used |-> b, max_bytes |-> c.max_bytes]
<1>1. EntryRecords(E) /\ c \in StoresOf(E) /\ Recency(c) /\ c.bytes_used = EntryBytes(EntrySet(c))
  BY DEF Table
<1>2. AddEntry(c, e) = d
  <2>1. AddEntry(c, e) = [c EXCEPT !.entries = s, !.bytes_used = b]
    BY DEF AddEntry
  <2> HIDE DEF s, b
  <2> QED
    BY <1>1, <2>1, StoreExcept
<1>3. n \in Nat /\ DOMAIN c.entries = 1..n /\ c.entries \in Seq(E)
  BY <1>1, EntrySetType DEF StoresOf
<1>4. /\ s \in Seq(E) /\ Len(s) = n + 1 /\ DOMAIN s = 1..n+1
      /\ \A j \in 1..n : s[j] = c.entries[j]
      /\ s[n+1] = e
  BY <1>3
<1>5. {s[j] : j \in 1..n+1} = {c.entries[j] : j \in 1..n} \cup {e}
  <2>1. \A j \in 1..n+1 : j \in 1..n \/ j = n + 1
    BY <1>3
  <2>2. \A j \in 1..n : j \in 1..n+1
    BY <1>3
  <2>3. n + 1 \in 1..n+1
    BY <1>3
  <2> HIDE DEF s, n
  <2> QED
    BY <1>4, <2>1, <2>2, <2>3
<1>6. EntrySet(d) = EntrySet(c) \cup {e}
  BY <1>3, <1>4, <1>5 DEF EntrySet
<1>7. /\ IsFiniteSet(EntrySet(c)) /\ EntrySet(c) \subseteq E /\ e \notin EntrySet(c)
  BY <1>1, EntrySetType
<1>8. b = EntryBytes(EntrySet(d)) /\ b \in Nat
  <2>1. EntryBytes(EntrySet(d)) = e.data_len + EntryBytes(EntrySet(c))
    BY <1>1, <1>6, <1>7, EntryBytesFacts
  <2>2. EntryBytes(EntrySet(c)) \in Nat /\ e.data_len \in Nat
    BY <1>1, <1>7, EntryBytesFacts DEF EntryRecords
  <2> HIDE DEF d
  <2> QED
    BY <1>1, <2>1, <2>2
<1>9. d \in StoresOf(E)
  BY <1>1, <1>4, <1>8 DEF StoresOf
<1>10. Recency(d)
  <2> SUFFICES ASSUME NEW j \in 1..n+1, NEW k \in 1..n+1,
                      s[j].last_access_ns = s[k].last_access_ns
               PROVE  j = k
    BY <1>4 DEF Recency
  <2>1. \A x \in 1..n+1 : (x \in 1..n /\ s[x] = c.entries[x] /\ c.entries[x] \in EntrySet(c))
                          \/ (x = n + 1 /\ s[x] = e)
    BY <1>3, <1>4 DEF EntrySet
  <2> HIDE DEF s, n
  <2> QED
    BY <1>1, <1>3, <2>1 DEF Recency
<1>11. Table(E, d)
  BY <1>8, <1>9, <1>10 DEF Table
<1> HIDE DEF n, b
<1>12. d.entries = s /\ d.max_bytes = c.max_bytes
  OBVIOUS
<1> HIDE DEF d, s
<1> QED
  BY <1>2, <1>4, <1>6, <1>11, <1>12 DEF n

\* Replacing the entry at i by one with a stamp of its own.
LEMMA ReplaceTable ==
  ASSUME NEW E, NEW c, Table(E, c), NEW i \in 1..Len(c.entries), NEW z \in E,
         \A x \in EntrySet(c) : x.last_access_ns # z.last_access_ns,
         NEW d, d = [entries |-> [c.entries EXCEPT ![i] = z],
                     bytes_used |-> c.bytes_used - c.entries[i].data_len + z.data_len,
                     max_bytes |-> c.max_bytes]
  PROVE  /\ Table(E, d)
         /\ EntrySet(d) = (EntrySet(c) \ {c.entries[i]}) \cup {z}
         /\ d.max_bytes = c.max_bytes
         /\ Len(d.entries) = Len(c.entries)
<1> DEFINE n == Len(c.entries)
           s == [c.entries EXCEPT ![i] = z]
           b == c.bytes_used - c.entries[i].data_len + z.data_len
<1>1. EntryRecords(E) /\ c \in StoresOf(E) /\ Recency(c) /\ c.bytes_used = EntryBytes(EntrySet(c))
  BY DEF Table
<1>2. d.entries = s /\ d.bytes_used = b /\ d.max_bytes = c.max_bytes
  OBVIOUS
<1>3. n \in Nat /\ DOMAIN c.entries = 1..n /\ c.entries \in Seq(E)
      /\ \A j \in 1..n : c.entries[j] \in E
  BY <1>1, EntrySetType DEF StoresOf
<1>4. s \in Seq(E) /\ Len(s) = n /\ DOMAIN s = 1..n
      /\ \A j \in 1..n : s[j] = IF j = i THEN z ELSE c.entries[j]
  BY <1>3
<1>5. \A j, k \in 1..n : c.entries[j].last_access_ns = c.entries[k].last_access_ns => j = k
  BY <1>1, <1>3 DEF Recency
<1>6. {s[j] : j \in 1..n} = ({c.entries[j] : j \in 1..n} \ {c.entries[i]}) \cup {z}
  <2>1. \A j, k \in 1..n : c.entries[j] = c.entries[k] => j = k
    BY <1>5
  <2> HIDE DEF s, n
  <2>2. ASSUME NEW j \in 1..n
        PROVE  s[j] \in ({c.entries[k] : k \in 1..n} \ {c.entries[i]}) \cup {z}
    BY <1>4, <2>1 DEF n
  <2>3. ASSUME NEW j \in 1..n, j # i PROVE c.entries[j] \in {s[k] : k \in 1..n}
    BY <1>4, <2>3
  <2>4. z \in {s[k] : k \in 1..n}
    BY <1>4 DEF n
  <2> QED
    BY <2>2, <2>3, <2>4
<1>7. EntrySet(d) = (EntrySet(c) \ {c.entries[i]}) \cup {z}
  <2>1. EntrySet(d) = {s[j] : j \in 1..n}
    <3> HIDE DEF s
    <3> QED
      BY <1>2, <1>4 DEF EntrySet
  <2>2. EntrySet(c) = {c.entries[j] : j \in 1..n}
    BY <1>3 DEF EntrySet
  <2> QED
    BY <1>6, <2>1, <2>2
<1>8. /\ IsFiniteSet(EntrySet(c)) /\ EntrySet(c) \subseteq E
      /\ c.entries[i] \in EntrySet(c) /\ z \notin EntrySet(c)
  <2>1. IsFiniteSet(EntrySet(c)) /\ EntrySet(c) \subseteq E
    BY <1>1, EntrySetType
  <2>2. z \notin EntrySet(c)
    OBVIOUS
  <2> QED
    BY <1>3, <2>1, <2>2 DEF EntrySet
<1>9. b = EntryBytes(EntrySet(d)) /\ b \in Nat
  <2> DEFINE S == EntrySet(c)
             x == c.entries[i]
  <2>1. S \in SUBSET E /\ IsFiniteSet(S) /\ x \in S /\ z \in E \ S
    BY <1>8
  <2>2. EntrySet(d) = (S \ {x}) \cup {z} /\ b = EntryBytes(S) - x.data_len + z.data_len
    BY <1>1, <1>7
  <2> HIDE DEF S, x, b
  <2>3. /\ EntryBytes((S \ {x}) \cup {z}) = EntryBytes(S) - x.data_len + z.data_len
        /\ EntryBytes((S \ {x}) \cup {z}) \in Nat
    <3>1. EntryRecords(E)
      BY <1>1
    <3>2. /\ IsFiniteSet(S \ {x}) /\ S \ {x} \in SUBSET E /\ z \in E \ (S \ {x})
          /\ IsFiniteSet((S \ {x}) \cup {z}) /\ (S \ {x}) \cup {z} \in SUBSET E
      BY <2>1, FS_RemoveElement, FS_AddElement
    <3>3. x.data_len \in Nat /\ z.data_len \in Nat
      BY <2>1, <3>1 DEF EntryRecords
    <3>4. EntryBytes(S) = x.data_len + EntryBytes(S \ {x})
      BY <2>1, <3>1, EntryBytesFacts
    <3>5. EntryBytes(S \ {x}) \in Nat
          /\ EntryBytes((S \ {x}) \cup {z}) = z.data_len + EntryBytes(S \ {x})
      BY <3>1, <3>2, EntryBytesFacts
    <3>6. EntryBytes((S \ {x}) \cup {z}) \in Nat
      BY <3>1, <3>2, EntryBytesFacts
    <3> QED
      BY <3>3, <3>4, <3>5, <3>6
  <2> QED
    BY <2>2, <2>3
<1>10. d \in StoresOf(E)
  <2> HIDE DEF s, b
  <2> QED
    BY <1>1, <1>4, <1>9 DEF StoresOf, s, b
<1>11. Recency(d)
  <2>1. \A j \in 1..n : c.entries[j] \in EntrySet(c)
    BY <1>3 DEF EntrySet
  <2> HIDE DEF s, n
  <2> QED
    BY <1>2, <1>4, <1>5, <2>1 DEF Recency
<1>12. Table(E, d)
  <2> HIDE DEF s, b
  <2> QED
    BY <1>2, <1>9, <1>10, <1>11 DEF Table
<1> HIDE DEF s
<1> QED
  BY <1>2, <1>4, <1>7, <1>12

----------------------------------------------------------------------------
(* The loops *)

\* One round of the eviction loop.
EvictOne(c) ==
  IF c.max_bytes > 0 /\ c.bytes_used > c.max_bytes THEN DropEntry(c, LruSlot(c.entries)) ELSE c

\* One round of the expiry pass, at slot i.
ExpireOne(c, i, t) == IF EntryExpired(c.entries[i], t) THEN DropEntry(c, i) ELSE c

\* One round of storing content in chunks, and of reading it chunk by chunk: the
\* loops of Chunking, for object x[1], call x[2], length x[3] and lifetime x[4].
ChunkRound(s, x, k) == IF s.ok THEN StoreChunk(s, x[1], x[2], k - 1, x[3], x[4]) ELSE s

ReadRound(s, o, k) == IF s.ok THEN LookupIn(s, ChunkName(o, k - 1)) ELSE s

\* Round k of n of each loop; the expiry pass goes downward.
Round(loop, t, n, c, k) ==
  IF loop = "expire" THEN ExpireOne(c, n - k + 1, t)
  ELSE IF loop = "store" THEN ChunkRound(c, t, k)
  ELSE IF loop = "read" THEN ReadRound(c, t, k)
  ELSE EvictOne(c)

\* The form a fold over the slots expands to: the value of a set of slots is
\* one round after the value of the set without its largest.
Fold(g, loop, t, n, c) ==
  g = [s \in SUBSET (1..n) |-> IF s = {} THEN c ELSE Round(loop, t, n, g[s \ {Max(s)}], Max(s))]

\* The least of a set of numbers.
LEMMA MinIn ==
  ASSUME NEW S \in SUBSET Nat, S # {} PROVE Min(S) \in S /\ \A y \in S : Min(S) <= y
BY LeastNumber DEF Min

\* The fold of a loop exists.
LEMMA FoldExists ==
  ASSUME NEW loop, NEW t, NEW n \in Nat, NEW c
  PROVE  \E g : Fold(g, loop, t, n, c)
<1> DEFINE Val(g, s) == IF s = {} THEN c ELSE Round(loop, t, n, g[s \ {Max(s)}], Max(s))
           Upto(g, m) == \A s \in SUBSET (1..m) : g[s] = Val(g, s)
           T == {m \in Nat : \E g : Upto(g, m)}
<1>1. 0 \in T
  <2> DEFINE h == [s \in {{}} |-> c]
  <2>1. SUBSET (1..0) = {{}}
    OBVIOUS
  <2>2. Upto(h, 0)
    BY <2>1
  <2> QED
    BY <2>2
<1>2. ASSUME NEW m \in T PROVE m + 1 \in T
  <2>1. PICK g : Upto(g, m)
    OBVIOUS
  <2>2. m \in Nat /\ m + 1 \in Nat /\ m + 1 \notin 1..m
    OBVIOUS
  <2>3. \A s \in SUBSET (1..m+1) : s \ {m + 1} \in SUBSET (1..m)
    BY <2>2
  <2> DEFINE h == [s \in SUBSET (1..m+1) |->
                     IF m + 1 \in s THEN Round(loop, t, n, g[s \ {m + 1}], m + 1) ELSE g[s]]
  <2>4. \A s \in SUBSET (1..m) : s \in SUBSET (1..m+1) /\ h[s] = g[s]
    BY <2>2
  <2>5. ASSUME NEW s \in SUBSET (1..m+1) PROVE h[s] = Val(h, s)
    <3>1. CASE m + 1 \in s
      <4>1. Max(s) = m + 1
        BY <2>2, <3>1, MaxOf
      <4>2. h[s] = Round(loop, t, n, g[s \ {m + 1}], m + 1)
        BY <3>1
      <4>3. h[s \ {m + 1}] = g[s \ {m + 1}]
        BY <2>3, <2>4
      <4> QED
        BY <3>1, <4>1, <4>2, <4>3
    <3>2. CASE m + 1 \notin s
      <4>1. s \in SUBSET (1..m) /\ s \ {Max(s)} \in SUBSET (1..m)
        BY <2>3, <3>2
      <4>2. h[s] = g[s] /\ g[s] = Val(g, s) /\ h[s \ {Max(s)}] = g[s \ {Max(s)}]
        BY <2>1, <2>4, <4>1
      <4> QED
        BY <4>2
    <3> QED
      BY <3>1, <3>2
  <2>6. Upto(h, m + 1)
    BY <2>5
  <2> HIDE DEF Upto, h
  <2> QED
    BY <2>2, <2>6
<1>3. T = Nat
  <2> HIDE DEF T
  <2>1. T \in SUBSET Nat
    BY DEF T
  <2> QED
    BY <1>1, <1>2, <2>1, NumberInduction
<1>4. PICK g : Upto(g, n)
  BY <1>3
<1> DEFINE h == [s \in SUBSET (1..n) |-> g[s]]
<1>5. \A s \in SUBSET (1..n) : h[s] = Val(h, s)
  BY <1>4
<1>6. h = [s \in SUBSET (1..n) |-> Val(h, s)]
  BY <1>5
<1>7. Fold(h, loop, t, n, c)
  BY <1>6 DEF Fold
<1> QED
  BY <1>7

\* The values of the fold at the first k slots are the stores round by round.
Rounds(g, loop, t, n, c) ==
  /\ g[1..0] = c
  /\ \A k \in 1..n : g[1..k] = Round(loop, t, n, g[1..(k-1)], k)

LEMMA FoldRounds ==
  ASSUME NEW loop, NEW t, NEW n \in Nat, NEW c, NEW g, Fold(g, loop, t, n, c)
  PROVE  Rounds(g, loop, t, n, c)
<1>1. 1..0 = {} /\ {} \in SUBSET (1..n)
  OBVIOUS
<1>2. g[1..0] = c
  BY <1>1 DEF Fold
<1>3. ASSUME NEW k \in 1..n PROVE g[1..k] = Round(loop, t, n, g[1..(k-1)], k)
  <2>1. 1..k \in SUBSET (1..n) /\ 1..k # {} /\ k \in Nat /\ k \in 1..k
    OBVIOUS
  <2>2. Max(1..k) = k
    BY <2>1, MaxOf
  <2>3. (1..k) \ {k} = 1..(k-1)
    OBVIOUS
  <2>4. g[1..k] = Round(loop, t, n, g[(1..k) \ {Max(1..k)}], Max(1..k))
    BY <2>1 DEF Fold
  <2> QED
    BY <2>2, <2>3, <2>4
<1> QED
  BY <1>2, <1>3 DEF Rounds

\* The eviction loop, round by round.
LEMMA EnforceBudgetRounds ==
  ASSUME NEW c, NEW n \in Nat, DOMAIN c.entries = 1..n
  PROVE  \E a : a[0] = c /\ a[n] = EnforceBudget(c)
                /\ \A k \in 1..n : a[k] = EvictOne(a[k-1])
<1> DEFINE G == CHOOSE g : Fold(g, "evict", 0, n, c)
<1>1. EnforceBudget(c) = G[1..n]
  BY DEF EnforceBudget, FoldLeftDomain, FoldLeft, MapThenFoldSet, Fold, Round, EvictOne
<1>2. Fold(G, "evict", 0, n, c)
  BY FoldExists
<1> HIDE DEF G
<1>3. G[1..0] = c /\ \A k \in 1..n : G[1..k] = EvictOne(G[1..(k-1)])
  <2>1. Rounds(G, "evict", 0, n, c)
    BY <1>2, FoldRounds
  <2> QED
    BY <2>1 DEF Rounds, Round
<1> DEFINE a == [k \in 0..n |-> G[1..k]]
<1>4. a[0] = c /\ a[n] = EnforceBudget(c) /\ \A k \in 1..n : a[k] = EvictOne(a[k-1])
  BY <1>1, <1>3
<1> QED
  BY <1>4

\* The expiry pass, round by round.
LEMMA DropExpiredRounds ==
  ASSUME NEW c, NEW t, NEW n \in Nat, DOMAIN c.entries = 1..n
  PROVE  \E a : a[0] = c /\ a[n] = DropExpired(c, t)
                /\ \A k \in 1..n : a[k] = ExpireOne(a[k-1], n - k + 1, t)
<1> DEFINE slots == [k \in 1..n |-> n - k + 1]
           Sol(g) == g = [s \in SUBSET (1..n) |->
                            IF s = {} THEN c
                            ELSE ExpireOne(g[s \ {Max(s)}], slots[Max(s)], t)]
           G == CHOOSE g : Sol(g)
<1>1. DropExpired(c, t) = G[1..n]
  <2>1. Reverse([i \in DOMAIN c.entries |-> i]) = slots
    <3> DEFINE id == [i \in 1..n |-> i]
    <3>1. id \in Seq(1..n) /\ Len(id) = n
      OBVIOUS
    <3>2. \A k \in 1..n : id[(Len(id) - k) + 1] = n - k + 1
      BY <3>1
    <3> QED
      BY <3>1, <3>2 DEF Reverse
  <2>2. DropExpired(c, t) =
          FoldLeft(LAMBDA d, i : IF EntryExpired(d.entries[i], t) THEN DropEntry(d, i) ELSE d,
                   c, slots)
    BY <2>1 DEF DropExpired
  <2>3. DOMAIN slots = 1..n
    OBVIOUS
  <2> HIDE DEF slots
  <2> QED
    BY <2>2, <2>3 DEF FoldLeft, MapThenFoldSet, ExpireOne
<1>2. Fold(G, "expire", t, n, c)
  <2>1. \A g : Sol(g) <=> Fold(g, "expire", t, n, c)
    <3> SUFFICES ASSUME NEW g PROVE Sol(g) <=> Fold(g, "expire", t, n, c)
      OBVIOUS
    <3> DEFINE A(s) == IF s = {} THEN c
                       ELSE ExpireOne(g[s \ {Max(s)}], slots[Max(s)], t)
               B(s) == IF s = {} THEN c
                       ELSE Round("expire", t, n, g[s \ {Max(s)}], Max(s))
    <3>1. ASSUME NEW s \in SUBSET (1..n) PROVE A(s) = B(s)
      <4>1. s # {} => slots[Max(s)] = n - Max(s) + 1
        BY MaxIn
      <4> QED
        BY <4>1 DEF Round
    <3>2. [s \in SUBSET (1..n) |-> A(s)] = [s \in SUBSET (1..n) |-> B(s)]
      <4> HIDE DEF A, B
      <4> QED
        BY <3>1
    <3> QED
      BY <3>2 DEF Fold
  <2> HIDE DEF Sol
  <2>2. \E g : Sol(g)
    BY <2>1, FoldExists
  <2> QED
    BY <2>1, <2>2
<1> HIDE DEF G
<1>3. G[1..0] = c /\ \A k \in 1..n : G[1..k] = ExpireOne(G[1..(k-1)], n - k + 1, t)
  <2>1. Rounds(G, "expire", t, n, c)
    BY <1>2, FoldRounds
  <2> QED
    BY <2>1 DEF Rounds, Round
<1> DEFINE a == [k \in 0..n |-> G[1..k]]
<1>4. /\ a[0] = c /\ a[n] = DropExpired(c, t)
      /\ \A k \in 1..n : a[k] = ExpireOne(a[k-1], n - k + 1, t)
  BY <1>1, <1>3
<1> QED
  BY <1>4

----------------------------------------------------------------------------
(* What the loops leave *)

\* The least recently used slot of a table that is not empty.
LEMMA LruSlotType ==
  ASSUME NEW E, EntryRecords(E), NEW c \in StoresOf(E), c.entries # << >>
  PROVE  /\ LruSlot(c.entries) \in 1..Len(c.entries)
         /\ \A j \in 1..Len(c.entries) :
              c.entries[LruSlot(c.entries)].last_access_ns <= c.entries[j].last_access_ns
<1> DEFINE s == c.entries
           n == Len(s)
           T == {s[i].last_access_ns : i \in 1..n}
           M == {i \in DOMAIN s : \A j \in DOMAIN s : s[i].last_access_ns <= s[j].last_access_ns}
<1>1. n \in Nat /\ DOMAIN s = 1..n /\ n # 0 /\ \A i \in 1..n : s[i] \in E
  BY EntrySetType DEF StoresOf
<1>2. \A i \in 1..n : s[i].last_access_ns \in Nat
  BY <1>1 DEF EntryRecords
<1>3. T \in SUBSET Nat /\ T # {}
  <2>1. 1 \in 1..n
    BY <1>1
  <2> QED
    BY <1>2, <2>1
<1>4. PICK t \in T : \A k \in T : t <= k
  BY <1>3, LeastNumber
<1>5. PICK i \in 1..n : t = s[i].last_access_ns
  BY <1>4
<1>6. i \in M
  <2>1. \A j \in 1..n : s[j].last_access_ns \in T
    OBVIOUS
  <2> HIDE DEF T
  <2>2. \A j \in 1..n : s[i].last_access_ns <= s[j].last_access_ns
    BY <1>4, <1>5, <2>1
  <2>3. DOMAIN s = 1..n
    BY <1>1
  <2> QED
    BY <2>2, <2>3
<1>7. M \in SUBSET Nat /\ M # {}
  BY <1>1, <1>6
<1>8. Min(M) \in M
  <2> HIDE DEF M
  <2> QED
    BY <1>7, MinIn
<1>9. LruSlot(s) = Min(M)
  BY DEF LruSlot
<1> QED
  BY <1>1, <1>8, <1>9

\* d is what evicting from c leaves: entries go in the order of their last use,
\* and the last one to go did not fit.
Evicted(E, c, d) ==
  /\ Table(E, d)
  /\ EntrySet(d) \subseteq EntrySet(c)
  /\ d.max_bytes = c.max_bytes
  /\ c.max_bytes = 0 => d = c
  /\ \A lost \in EntrySet(c) \ EntrySet(d) :
       /\ \A kept \in EntrySet(d) : lost.last_access_ns < kept.last_access_ns
       /\ EntryBytes({x \in EntrySet(c) : x.last_access_ns >= lost.last_access_ns})
            > c.max_bytes

\* One round of the loop evicts at most one entry, and none that fits.
LEMMA EvictOneEvicts ==
  ASSUME NEW E, NEW c, Table(E, c), NEW d, Evicted(E, c, d),
         d.max_bytes > 0, d.bytes_used > d.max_bytes
  PROVE  /\ Evicted(E, c, EvictOne(d))
         /\ Len(EvictOne(d).entries) = Len(d.entries) - 1
<1> DEFINE i == LruSlot(d.entries)
           e == d.entries[i]
           r == DropEntry(d, i)
<1>1. EntryRecords(E) /\ Table(E, d) /\ d \in StoresOf(E) /\ Recency(d) /\ d.bytes_used = EntryBytes(EntrySet(d))
  BY DEF Evicted, Table
<1>2. c \in StoresOf(E) /\ d.max_bytes = c.max_bytes /\ c.max_bytes \in Nat
  BY <1>1 DEF Evicted, Table, StoresOf
<1>3. d.entries # << >>
  <2> SUFFICES ASSUME d.entries = << >> PROVE FALSE
    OBVIOUS
  <2>1. EntrySet(d) = {}
    BY DEF EntrySet
  <2>2. d.bytes_used = 0
    BY <1>1, <2>1, TotalEmpty DEF EntryBytes
  <2> QED
    BY <1>2, <2>2
<1>4. i \in 1..Len(d.entries)
      /\ \A j \in 1..Len(d.entries) : e.last_access_ns <= d.entries[j].last_access_ns
  BY <1>1, <1>3, LruSlotType
<1>5. /\ Table(E, r) /\ EntrySet(r) = EntrySet(d) \ {e} /\ r.max_bytes = d.max_bytes
      /\ Len(r.entries) = Len(d.entries) - 1
  BY <1>1, <1>4, DropEntryTable
<1>6. EvictOne(d) = r
  BY DEF EvictOne
<1>7. /\ DOMAIN d.entries = 1..Len(d.entries)
      /\ EntrySet(d) \subseteq E /\ EntrySet(c) \subseteq E
  BY <1>1, <1>2, EntrySetType
<1>8. e \in EntrySet(d) /\ e \in EntrySet(c)
  BY <1>4, <1>7 DEF EntrySet, Evicted
<1>9. \A x \in E : x.last_access_ns \in Nat
  BY <1>1 DEF EntryRecords
<1>10. \A x \in EntrySet(d) : e.last_access_ns <= x.last_access_ns
                              /\ (x # e => e.last_access_ns # x.last_access_ns)
  <2> SUFFICES ASSUME NEW j \in 1..Len(d.entries)
               PROVE  e.last_access_ns <= d.entries[j].last_access_ns
                      /\ (d.entries[j] # e => e.last_access_ns # d.entries[j].last_access_ns)
    BY <1>7 DEF EntrySet
  <2> QED
    BY <1>1, <1>4, <1>7 DEF Recency
<1> HIDE DEF e, r, i
<1>11. \A kept \in EntrySet(r) : e.last_access_ns < kept.last_access_ns
  <2> SUFFICES ASSUME NEW kept \in EntrySet(r) PROVE e.last_access_ns < kept.last_access_ns
    OBVIOUS
  <2>1. kept \in EntrySet(d) /\ kept # e
    BY <1>5
  <2>2. e.last_access_ns <= kept.last_access_ns /\ e.last_access_ns # kept.last_access_ns
    BY <1>10, <2>1
  <2>3. e.last_access_ns \in Nat /\ kept.last_access_ns \in Nat
    BY <1>7, <1>8, <1>9, <2>1
  <2> QED
    BY <2>2, <2>3
<1>12. {x \in EntrySet(c) : x.last_access_ns >= e.last_access_ns} = EntrySet(d)
  <2>1. ASSUME NEW x \in EntrySet(d)
        PROVE  x \in EntrySet(c) /\ x.last_access_ns >= e.last_access_ns
    <3>1. x.last_access_ns \in Nat /\ e.last_access_ns \in Nat
      BY <1>7, <1>8, <1>9
    <3> QED
      BY <1>10, <3>1 DEF Evicted
  <2>2. ASSUME NEW x \in EntrySet(c), x \notin EntrySet(d)
        PROVE  ~ (x.last_access_ns >= e.last_access_ns)
    <3>1. x.last_access_ns < e.last_access_ns
      BY <1>8, <2>2 DEF Evicted
    <3>2. x.last_access_ns \in Nat /\ e.last_access_ns \in Nat
      BY <1>7, <1>8, <1>9
    <3> QED
      BY <3>1, <3>2
  <2> QED
    BY <2>1, <2>2
<1>13. EntryBytes({x \in EntrySet(c) : x.last_access_ns >= e.last_access_ns}) > c.max_bytes
  BY <1>1, <1>2, <1>12
<1>14. ASSUME NEW lost \in EntrySet(c) \ EntrySet(r)
       PROVE  /\ \A kept \in EntrySet(r) : lost.last_access_ns < kept.last_access_ns
              /\ EntryBytes({x \in EntrySet(c) : x.last_access_ns >= lost.last_access_ns})
                   > c.max_bytes
  <2>1. CASE lost = e
    BY <1>11, <1>13, <2>1
  <2>2. CASE lost # e
    <3>1. lost \in EntrySet(c) \ EntrySet(d)
      BY <1>5, <2>2
    <3>2. EntrySet(r) \subseteq EntrySet(d)
      BY <1>5
    <3> QED
      BY <3>1, <3>2 DEF Evicted
  <2> QED
    BY <2>1, <2>2
<1>15. EntrySet(r) \subseteq EntrySet(c) /\ c.max_bytes # 0
  BY <1>2, <1>5 DEF Evicted
<1>16. Evicted(E, c, r)
  <2>1. r.max_bytes = c.max_bytes /\ Table(E, r)
    BY <1>2, <1>5
  <2> QED
    BY <1>14, <1>15, <2>1 DEF Evicted
<1> QED
  BY <1>5, <1>6, <1>16

\* The eviction loop evicts until the budget holds.
LEMMA EnforceBudgetEvicts ==
  ASSUME NEW E, NEW c, Table(E, c)
  PROVE  LET d == EnforceBudget(c)
         IN  Evicted(E, c, d) /\ (d.max_bytes > 0 => d.bytes_used <= d.max_bytes)
<1> DEFINE n == Len(c.entries)
           Fits(d) == ~ (d.max_bytes > 0 /\ d.bytes_used > d.max_bytes)
<1>1. c \in StoresOf(E) /\ n \in Nat /\ DOMAIN c.entries = 1..n
  BY EntrySetType DEF Table
<1>2. PICK a : a[0] = c /\ a[n] = EnforceBudget(c) /\ \A k \in 1..n : a[k] = EvictOne(a[k-1])
  <2> HIDE DEF n
  <2> QED
    BY <1>1, EnforceBudgetRounds
<1> DEFINE Good(k) == Evicted(E, c, a[k]) /\ (Fits(a[k]) \/ Len(a[k].entries) = n - k)
           T == {k \in Nat : k <= n => Good(k)}
<1>3. 0 \in T
  BY <1>1, <1>2 DEF Evicted
<1>4. ASSUME NEW k \in T PROVE k + 1 \in T
  <2>1. k \in Nat /\ k + 1 \in Nat
    OBVIOUS
  <2> SUFFICES ASSUME k + 1 <= n PROVE Good(k + 1)
    BY <2>1
  <2>2. k <= n /\ k + 1 \in 1..n /\ (k + 1) - 1 = k
    BY <1>1, <2>1
  <2>3. Good(k)
    BY <2>2
  <2>4. a[k + 1] = EvictOne(a[k])
    BY <1>2, <2>2
  <2>5. CASE Fits(a[k])
    <3>1. a[k + 1] = a[k]
      BY <2>4, <2>5 DEF EvictOne
    <3> QED
      BY <2>3, <2>5, <3>1
  <2>6. CASE ~ Fits(a[k])
    <3>1. Evicted(E, c, a[k+1]) /\ Len(a[k+1].entries) = Len(a[k].entries) - 1
      BY <2>3, <2>4, <2>6, EvictOneEvicts
    <3>2. Len(a[k].entries) = n - k
      BY <2>3, <2>6
    <3>3. Len(a[k+1].entries) = n - (k + 1)
      BY <1>1, <2>1, <3>1, <3>2
    <3> QED
      BY <3>1, <3>3
  <2> QED
    BY <2>5, <2>6
<1>5. T = Nat
  <2> HIDE DEF T
  <2>1. T \in SUBSET Nat
    BY DEF T
  <2> QED
    BY <1>3, <1>4, <2>1, NumberInduction
<1>6. Good(n)
  <2>1. n \in T /\ n <= n
    <3> HIDE DEF T, Good
    <3> QED
      BY <1>1, <1>5
  <2> HIDE DEF Good, n
  <2> QED
    BY <2>1
<1> DEFINE d == a[n]
<1>7. Evicted(E, c, d) /\ d \in StoresOf(E)
  BY <1>6 DEF Evicted, Table
<1>8. d.max_bytes \in Nat /\ d.bytes_used \in Nat
  BY <1>7 DEF StoresOf
<1>9. ASSUME d.max_bytes > 0 PROVE d.bytes_used <= d.max_bytes
  <2>1. CASE Fits(d)
    BY <1>8, <1>9, <2>1
  <2>2. CASE Len(d.entries) = n - n
    <3>1. DOMAIN d.entries = {}
      <4>1. Len(d.entries) = 0
        BY <1>1, <2>2
      <4> QED
        BY <1>7, <4>1, EntrySetType
    <3>2. EntrySet(d) = {}
      BY <3>1 DEF EntrySet
    <3>3. d.bytes_used = 0
      BY <1>7, <3>2, TotalEmpty DEF Evicted, Table, EntryBytes
    <3> QED
      BY <1>8, <3>3
  <2> QED
    BY <1>6, <2>1, <2>2
<1> QED
  BY <1>2, <1>7, <1>9

\* One round of the expiry pass: when the slots above i hold live entries only,
\* slot i does too afterwards, and no live entry is lost.
LEMMA ExpireOneExpires ==
  ASSUME NEW E, NEW d, Table(E, d), NEW t, NEW i \in 1..Len(d.entries),
         \A j \in i+1..Len(d.entries) : ~ EntryExpired(d.entries[j], t)
  PROVE  LET r == ExpireOne(d, i, t)
         IN  /\ Table(E, r) /\ r.max_bytes = d.max_bytes
             /\ EntrySet(r) \subseteq EntrySet(d)
             /\ \A e \in EntrySet(d) : ~ EntryExpired(e, t) => e \in EntrySet(r)
             /\ Len(r.entries) >= Len(d.entries) - 1
             /\ \A j \in i..Len(r.entries) : ~ EntryExpired(r.entries[j], t)
<1> DEFINE n == Len(d.entries)
           e == d.entries[i]
           r == ExpireOne(d, i, t)
<1>1. n \in Nat /\ i \in Nat /\ i <= n
  BY EntrySetType DEF Table
<1>2. CASE EntryExpired(e, t)
  <2>1. /\ r = DropEntry(d, i)
        /\ Table(E, r) /\ r.max_bytes = d.max_bytes
        /\ EntrySet(r) = EntrySet(d) \ {e} /\ Len(r.entries) = n - 1
        /\ \A j \in 1..n-1 : r.entries[j] = IF j = i THEN d.entries[n] ELSE d.entries[j]
    BY <1>2, DropEntryTable DEF ExpireOne
  <2>2. ASSUME NEW j \in i..Len(r.entries) PROVE ~ EntryExpired(r.entries[j], t)
    <3>1. j \in 1..n-1
      BY <1>1, <2>1
    <3>2. CASE j = i
      <4>1. r.entries[j] = d.entries[n] /\ n \in i+1..n
        BY <1>1, <2>1, <3>1, <3>2
      <4> HIDE DEF r
      <4> QED
        BY <4>1
    <3>3. CASE j # i
      <4>1. r.entries[j] = d.entries[j] /\ j \in i+1..n
        BY <1>1, <2>1, <3>1, <3>3
      <4> HIDE DEF r
      <4> QED
        BY <4>1
    <3> QED
      BY <3>2, <3>3
  <2>3. \A x \in EntrySet(d) : ~ EntryExpired(x, t) => x \in EntrySet(r)
    <3> HIDE DEF e, r
    <3> QED
      BY <1>2, <2>1
  <2> HIDE DEF e, r
  <2> QED
    BY <1>1, <2>1, <2>2, <2>3 DEF r
<1>3. CASE ~ EntryExpired(e, t)
  <2>1. r = d
    BY <1>3 DEF ExpireOne
  <2>2. ASSUME NEW j \in i..n PROVE ~ EntryExpired(d.entries[j], t)
    <3>1. j = i \/ j \in i+1..n
      BY <1>1
    <3> QED
      BY <1>3, <3>1
  <2> HIDE DEF r
  <2> QED
    BY <1>1, <2>1, <2>2 DEF r
<1> QED
  BY <1>2, <1>3

\* The expiry pass drops exactly the expired entries, although each drop moves
\* the last entry into the freed slot.
LEMMA DropExpiredDrops ==
  ASSUME NEW E, NEW c, Table(E, c), NEW t
  PROVE  LET d == DropExpired(c, t)
         IN  /\ Table(E, d) /\ d.max_bytes = c.max_bytes
             /\ EntrySet(d) = {e \in EntrySet(c) : ~ EntryExpired(e, t)}
<1> DEFINE n == Len(c.entries)
<1>1. c \in StoresOf(E) /\ n \in Nat /\ DOMAIN c.entries = 1..n
  BY EntrySetType DEF Table
<1>2. PICK a : /\ a[0] = c /\ a[n] = DropExpired(c, t)
               /\ \A k \in 1..n : a[k] = ExpireOne(a[k-1], n - k + 1, t)
  <2> HIDE DEF n
  <2> QED
    BY <1>1, DropExpiredRounds
<1> DEFINE Good(k) ==
             /\ Table(E, a[k]) /\ a[k].max_bytes = c.max_bytes
             /\ EntrySet(a[k]) \subseteq EntrySet(c)
             /\ \A e \in EntrySet(c) : ~ EntryExpired(e, t) => e \in EntrySet(a[k])
             /\ Len(a[k].entries) >= n - k
             /\ \A j \in n-k+1..Len(a[k].entries) : ~ EntryExpired(a[k].entries[j], t)
           T == {k \in Nat : k <= n => Good(k)}
<1>3. 0 \in T
  <2>1. n - 0 + 1 = n + 1 /\ n - 0 = n /\ n >= n
    BY <1>1
  <2>2. \A j \in n+1..n : FALSE
    BY <1>1
  <2>3. Good(0)
    BY <1>2, <2>1, <2>2
  <2> QED
    BY <2>3
<1>4. ASSUME NEW k \in T PROVE k + 1 \in T
  <2>1. k \in Nat /\ k + 1 \in Nat
    OBVIOUS
  <2> SUFFICES ASSUME k + 1 <= n PROVE Good(k + 1)
    BY <2>1
  <2> DEFINE d == a[k]
             i == n - k
             r == ExpireOne(d, i, t)
  <2>2. k <= n /\ k + 1 \in 1..n /\ (k + 1) - 1 = k /\ n - (k + 1) + 1 = i
        /\ n - (k + 1) = i - 1 /\ i \in Nat /\ i >= 1
    <3>1. n \in Nat /\ k \in Nat /\ k + 1 <= n
      BY <1>1, <2>1
    <3> HIDE DEF n, T, Good
    <3> QED
      BY <3>1
  <2>3. Good(k)
    BY <2>2
  <2>4. a[k + 1] = r
    BY <1>2, <2>2
  <2>5. Len(d.entries) \in Nat /\ i \in 1..Len(d.entries)
    <3>1. Len(d.entries) \in Nat
      BY <2>3, EntrySetType DEF Table
    <3>2. Len(d.entries) >= i
      BY <2>3
    <3> HIDE DEF d, i
    <3> QED
      BY <2>2, <3>1, <3>2
  <2>6. \A j \in i+1..Len(d.entries) : ~ EntryExpired(d.entries[j], t)
    BY <2>3
  <2>7. /\ Table(E, r) /\ r.max_bytes = d.max_bytes
        /\ EntrySet(r) \subseteq EntrySet(d)
        /\ \A e \in EntrySet(d) : ~ EntryExpired(e, t) => e \in EntrySet(r)
        /\ Len(r.entries) >= Len(d.entries) - 1
        /\ \A j \in i..Len(r.entries) : ~ EntryExpired(r.entries[j], t)
    <3>1. Table(E, d)
      BY <2>3
    <3> HIDE DEF d, i
    <3> QED
      BY <2>5, <2>6, <3>1, ExpireOneExpires
  <2>8. /\ Table(E, d) /\ d.max_bytes = c.max_bytes
        /\ EntrySet(d) \subseteq EntrySet(c)
        /\ \A e \in EntrySet(c) : ~ EntryExpired(e, t) => e \in EntrySet(d)
        /\ Len(d.entries) >= i
    BY <2>3
  <2>9. Len(r.entries) >= i - 1
    <3>1. Len(r.entries) \in Nat
      BY <2>7, EntrySetType DEF Table
    <3> HIDE DEF d, r, i
    <3> QED
      BY <2>2, <2>5, <2>7, <2>8, <3>1
  <2> HIDE DEF d, r, i
  <2>10. Good(k + 1)
    BY <2>2, <2>4, <2>7, <2>8, <2>9
  <2> QED
    BY <2>10
<1>5. T = Nat
  <2> HIDE DEF T
  <2>1. T \in SUBSET Nat
    BY DEF T
  <2> QED
    BY <1>3, <1>4, <2>1, NumberInduction
<1>6. Good(n)
  <2>1. n \in T /\ n <= n
    <3> HIDE DEF T, Good
    <3> QED
      BY <1>1, <1>5
  <2> HIDE DEF Good, n
  <2> QED
    BY <2>1
<1> DEFINE d == a[n]
<1>7. \A e \in EntrySet(d) : ~ EntryExpired(e, t)
  <2>1. DOMAIN d.entries = 1..Len(d.entries)
    BY <1>6, EntrySetType DEF Table
  <2>2. n - n + 1 = 1
    BY <1>1
  <2>3. \A j \in 1..Len(d.entries) : ~ EntryExpired(d.entries[j], t)
    BY <1>6, <2>2
  <2> QED
    BY <2>1, <2>3 DEF EntrySet
<1>8. EntrySet(d) = {e \in EntrySet(c) : ~ EntryExpired(e, t)}
  BY <1>6, <1>7
<1> QED
  BY <1>2, <1>6, <1>8


----------------------------------------------------------------------------
(* What a call does to a table *)

\* Every entry's hash covers its components only, and its stamp is older than t.
Hashed(S) == \A e \in S : e.name.hash = HashText(Unversioned(e.name.base))
Older(S, t) == \A e \in S : e.last_access_ns < t

\* The entry a path names: a version-free one by its base, a versioned one never.
Named(e, p) == ~ p.hasVersion /\ e.name.base = p.base

\* An entry as an update leaves it, and as a lookup leaves it.
Rewritten(e, data, len, freshness, t) ==
  [name |-> e.name, data |-> data, data_len |-> len, timestamp |-> t,
   freshness_ms |-> freshness, last_access_ns |-> t]

Touched(e, t) ==
  [name |-> e.name, data |-> e.data, data_len |-> e.data_len, timestamp |-> e.timestamp,
   freshness_ms |-> e.freshness_ms, last_access_ns |-> t]

\* The assignments of the update, one field after the other.
Overwritten(e, data, len, freshness, t) ==
  [e EXCEPT !.data = data, !.data_len = len, !.timestamp = t,
            !.freshness_ms = freshness, !.last_access_ns = t]

\* The assignments leave the other fields as they were.
LEMMA EntryExcept ==
  ASSUME NEW e, DOMAIN e = EntryFields, NEW data, NEW len, NEW freshness, NEW t
  PROVE  /\ Overwritten(e, data, len, freshness, t) = Rewritten(e, data, len, freshness, t)
         /\ [e EXCEPT !.last_access_ns = t] = Touched(e, t)
<1> DEFINE F == {"name", "data", "data_len", "timestamp", "freshness_ms", "last_access_ns"}
           Q == [e EXCEPT !.data = data, !.data_len = len, !.timestamp = t,
                          !.freshness_ms = freshness, !.last_access_ns = t]
           Q1 == [e EXCEPT !.last_access_ns = t]
           R == Rewritten(e, data, len, freshness, t)
           R1 == Touched(e, t)
<1>1. DOMAIN e = F
  BY DEF EntryFields
<1>2. /\ Q = [f \in F |-> Q[f]] /\ Q1 = [f \in F |-> Q1[f]]
      /\ R = [f \in F |-> R[f]] /\ R1 = [f \in F |-> R1[f]]
  BY <1>1 DEF Rewritten, Touched
<1>3. Q.name = e.name /\ Q.data = data /\ Q.data_len = len
  BY <1>1
<1>4. Q.timestamp = t /\ Q.freshness_ms = freshness /\ Q.last_access_ns = t
  BY <1>1
<1>5. Q1.name = e.name /\ Q1.data = e.data /\ Q1.data_len = e.data_len
  BY <1>1
<1>6. Q1.timestamp = e.timestamp /\ Q1.freshness_ms = e.freshness_ms /\ Q1.last_access_ns = t
  BY <1>1
<1>7. /\ R.name = e.name /\ R.data = data /\ R.data_len = len
      /\ R.timestamp = t /\ R.freshness_ms = freshness /\ R.last_access_ns = t
  BY DEF Rewritten
<1>8. /\ R1.name = e.name /\ R1.data = e.data /\ R1.data_len = e.data_len
      /\ R1.timestamp = e.timestamp /\ R1.freshness_ms = e.freshness_ms
      /\ R1.last_access_ns = t
  BY DEF Touched
<1> HIDE DEF Q, R, Q1, R1
<1>9. \A f \in F : Q[f] = R[f] /\ Q1[f] = R1[f]
  BY <1>3, <1>4, <1>5, <1>6, <1>7, <1>8
<1> HIDE DEF F
<1>10. Q = R /\ Q1 = R1
  BY <1>2, <1>9
<1> QED
  BY <1>10 DEF Q, Q1, R, R1, Overwritten

\* psirp_name_equal and psirp_name_base_equal of an entry with a caller's path.
LEMMA EntryEqual ==
  ASSUME NEW S, Hashed(S), NEW e \in S, NEW p, p.hasVersion \in BOOLEAN
  PROVE  /\ NameEqual(e.name, NameInit(p)) <=> Named(e, p)
         /\ NameBaseEqual(e.name, NameInit(p)) <=> e.name.base = p.base
<1>1. e.name.hash = <<e.name.base>>
  BY DEF Hashed, HashText, Unversioned, Path
<1>2. NameInit(p).hash = HashText(p) /\ NameInit(p).base = p.base
  BY DEF NameInit
<1>3. ~ p.hasVersion => HashText(p) = <<p.base>>
  BY DEF HashText
<1>4. p.hasVersion => HashText(p) # <<e.name.base>>
  <2>1. \A a, b, v : <<a>> # <<b, v>>
    <3> SUFFICES ASSUME NEW a, NEW b, NEW v, <<a>> = <<b, v>> PROVE FALSE
      OBVIOUS
    <3>1. Len(<<a>>) = 1 /\ Len(<<b, v>>) = 2
      OBVIOUS
    <3> QED
      BY <3>1
  <2> QED
    BY <2>1 DEF HashText
<1> QED
  BY <1>1, <1>2, <1>3, <1>4 DEF NameEqual, NameBaseEqual, Named

LEMMA SlotsOf ==
  ASSUME NEW E, NEW c, Table(E, c), Hashed(EntrySet(c)), NEW p, p.hasVersion \in BOOLEAN, NEW t
  PROVE  /\ EqualSlots(c, NameInit(p)) = {i \in 1..Len(c.entries) : Named(c.entries[i], p)}
         /\ LookupSlots(c, NameInit(p), t) =
              {i \in 1..Len(c.entries) :
                 ~ EntryExpired(c.entries[i], t) /\ Named(c.entries[i], p)}
<1>1. DOMAIN c.entries = 1..Len(c.entries)
  BY EntrySetType DEF Table
<1>2. \A i \in 1..Len(c.entries) : c.entries[i] \in EntrySet(c)
  BY <1>1 DEF EntrySet
<1>3. \A i \in 1..Len(c.entries) : NameEqual(c.entries[i].name, NameInit(p)) <=> Named(c.entries[i], p)
  BY <1>2, EntryEqual
<1>4. \A i \in 1..Len(c.entries) :
        NameBaseEqual(c.entries[i].name, NameInit(p)) <=> c.entries[i].name.base = p.base
  BY <1>2, EntryEqual
<1>5. NameInit(p).hasVersion = p.hasVersion
  BY DEF NameInit
<1>6. EqualSlots(c, NameInit(p)) = {i \in 1..Len(c.entries) : Named(c.entries[i], p)}
  BY <1>1, <1>3 DEF EqualSlots
<1>7. LookupSlots(c, NameInit(p), t) =
              {i \in 1..Len(c.entries) :
                 ~ EntryExpired(c.entries[i], t) /\ Named(c.entries[i], p)}
  <2>1. ASSUME NEW i \in 1..Len(c.entries)
        PROVE  (IF NameInit(p).hasVersion THEN NameEqual(c.entries[i].name, NameInit(p))
                                           ELSE NameBaseEqual(c.entries[i].name, NameInit(p)))
                 <=> Named(c.entries[i], p)
    BY <1>3, <1>4, <1>5 DEF Named
  <2> QED
    BY <1>1, <2>1 DEF LookupSlots
<1> QED
  BY <1>6, <1>7

\* The table after an update and after an insertion.
UpdatedTo(E, c, d, p, data, len, freshness, t) ==
  /\ Table(E, d) /\ d.max_bytes = c.max_bytes /\ Len(d.entries) = Len(c.entries)
  /\ \E e \in EntrySet(c) :
       /\ Named(e, p)
       /\ EntrySet(d) = (EntrySet(c) \ {e}) \cup {Rewritten(e, data, len, freshness, t)}

InsertedTo(E, c, d, z) ==
  \E full :
    /\ Table(E, full) /\ EntrySet(full) = EntrySet(c) \cup {z}
    /\ full.max_bytes = c.max_bytes
    /\ Evicted(E, full, d)
    /\ d.max_bytes > 0 => d.bytes_used <= d.max_bytes

\* What psirp_cs_store does, as a relation.
StoreResult(E, c, r, p, data, len, freshness, t) ==
  LET held == \E e \in EntrySet(c) : Named(e, p)
      fits == len # 0 /\ len <= MaxData
  IN  \/ /\ r.ok = FALSE /\ r.cs = c
         /\ fits => ~ held /\ Len(c.entries) >= Capacity
      \/ /\ r.ok = TRUE /\ fits /\ held
         /\ UpdatedTo(E, c, r.cs, p, data, len, freshness, t)
      \/ /\ r.ok = TRUE /\ fits /\ ~ held
         /\ Len(c.entries) < Capacity /\ Len(r.cs.entries) <= Capacity
         /\ InsertedTo(E, c, r.cs, NewEntry(NameInit(p), data, len, freshness, t))

\* psirp_cs_store under a name that is held: one such entry is rewritten.
LEMMA UpdateTable ==
  ASSUME NEW E, NEW c, Table(E, c), NEW t \in Nat,
         Hashed(EntrySet(c)), Older(EntrySet(c), t),
         NEW p, p.hasVersion \in BOOLEAN, NEW data, NEW len \in Nat, NEW freshness,
         len # 0, len <= MaxData,
         \E e \in EntrySet(c) : Named(e, p),
         \A e \in EntrySet(c) : Rewritten(e, data, len, freshness, t) \in E
  PROVE  StoreResult(E, c, CsStore(c, NameInit(p), data, len, freshness, t),
                     p, data, len, freshness, t)
<1> DEFINE n == Len(c.entries)
           D == EqualSlots(c, NameInit(p))
           i == Min(D)
           e == c.entries[i]
           z == Rewritten(e, data, len, freshness, t)
           b == c.bytes_used - e.data_len + len
           s == [c.entries EXCEPT ![i] = z]
           d == [entries |-> s, bytes_used |-> b, max_bytes |-> c.max_bytes]
           r == CsStore(c, NameInit(p), data, len, freshness, t)
<1>1. EntryRecords(E) /\ c \in StoresOf(E)
  BY DEF Table
<1>2. n \in Nat /\ DOMAIN c.entries = 1..n /\ \A j \in 1..n : c.entries[j] \in E
  BY <1>1, EntrySetType
<1>3. D = {j \in 1..n : Named(c.entries[j], p)}
  BY SlotsOf
<1>4. D # {} /\ D \in SUBSET Nat
  <2>1. D # {}
    BY <1>2, <1>3 DEF EntrySet
  <2> QED
    BY <1>2, <1>3, <2>1
<1>5. i \in D
  <2> HIDE DEF D
  <2> QED
    BY <1>4, MinIn
<1>6. i \in 1..n /\ Named(e, p) /\ e \in EntrySet(c) /\ e \in E
  BY <1>2, <1>3, <1>5 DEF EntrySet
<1> HIDE DEF i
<1>7. UpdateInPlace(c, i, data, len, freshness, t) = d
  <2> DEFINE q == [e EXCEPT !.data = data, !.data_len = len, !.timestamp = t,
                            !.freshness_ms = freshness, !.last_access_ns = t]
  <2>1. q = z
    <3>1. Overwritten(e, data, len, freshness, t) = z
      <4>1. DOMAIN e = EntryFields
        BY <1>1, <1>6 DEF EntryRecords
      <4> HIDE DEF e
      <4> QED
        BY <4>1, EntryExcept
    <3>2. Overwritten(e, data, len, freshness, t) = q
      BY DEF Overwritten
    <3> QED
      BY <3>1, <3>2
  <2>2. UpdateInPlace(c, i, data, len, freshness, t) =
          [c EXCEPT !.entries = [c.entries EXCEPT ![i] = q], !.bytes_used = b]
    BY DEF UpdateInPlace
  <2> HIDE DEF q, b
  <2>3. UpdateInPlace(c, i, data, len, freshness, t) =
          [c EXCEPT !.entries = s, !.bytes_used = b]
    BY <2>1, <2>2
  <2> HIDE DEF s
  <2> QED
    BY <1>1, <2>3, StoreExcept
<1>8. r = [ok |-> TRUE, cs |-> d]
  <2>1. ~ (len = 0 \/ len > MaxData)
    BY CsOpsAssumption
  <2> QED
    BY <1>4, <1>7, <2>1 DEF CsStore, i
<1>9. z \in E /\ z.last_access_ns = t /\ z.data_len = len
  BY <1>6 DEF Rewritten
<1>10. \A x \in EntrySet(c) : x.last_access_ns # z.last_access_ns
  <2>1. \A x \in EntrySet(c) : x.last_access_ns < t /\ x \in E
    BY <1>1, EntrySetType DEF Older
  <2>2. \A x \in E : x.last_access_ns \in Nat
    BY <1>1 DEF EntryRecords
  <2> QED
    BY <1>9, <2>1, <2>2
<1> HIDE DEF z
<1>11. /\ Table(E, d) /\ d.max_bytes = c.max_bytes /\ Len(d.entries) = n
       /\ EntrySet(d) = (EntrySet(c) \ {e}) \cup {z}
  <2>1. d = [entries |-> [c.entries EXCEPT ![i] = z],
             bytes_used |-> c.bytes_used - c.entries[i].data_len + z.data_len,
             max_bytes |-> c.max_bytes]
    BY <1>9
  <2> HIDE DEF d
  <2> QED
    BY <1>6, <1>9, <1>10, <2>1, ReplaceTable, SMTT(60)
<1>13. r.ok = TRUE /\ r.cs = d
  BY <1>8
<1> HIDE DEF r, d, e
<1> QED
  BY <1>6, <1>11, <1>13 DEF r, z, UpdatedTo, StoreResult

\* psirp_cs_store under a new name, with room: the entry is added and the budget
\* enforced.
LEMMA InsertTable ==
  ASSUME NEW E, NEW c, Table(E, c), NEW t \in Nat,
         Hashed(EntrySet(c)), Older(EntrySet(c), t),
         NEW p, p.hasVersion \in BOOLEAN, NEW data, NEW len \in Nat, NEW freshness,
         len # 0, len <= MaxData, \A e \in EntrySet(c) : ~ Named(e, p),
         Len(c.entries) < Capacity,
         NewEntry(NameInit(p), data, len, freshness, t) \in E
  PROVE  StoreResult(E, c, CsStore(c, NameInit(p), data, len, freshness, t),
                     p, data, len, freshness, t)
<1> DEFINE z == NewEntry(NameInit(p), data, len, freshness, t)
           full == AddEntry(c, z)
           d == EnforceBudget(full)
           r == CsStore(c, NameInit(p), data, len, freshness, t)
<1>1. /\ EntryRecords(E) /\ c \in StoresOf(E)
      /\ Len(c.entries) \in Nat /\ DOMAIN c.entries = 1..Len(c.entries)
  BY EntrySetType DEF Table
<1>2. EqualSlots(c, NameInit(p)) = {}
  <2>1. EqualSlots(c, NameInit(p)) = {i \in 1..Len(c.entries) : Named(c.entries[i], p)}
    BY SlotsOf
  <2> QED
    BY <1>1, <2>1 DEF EntrySet
<1>3. r = [ok |-> TRUE, cs |-> d]
  <2>1. ~ (len = 0 \/ len > MaxData) /\ ~ Full(c)
    BY <1>1, CsOpsAssumption DEF Full
  <2> QED
    BY <1>2, <2>1 DEF CsStore
<1>4. z \in E /\ z.last_access_ns = t
  BY DEF NewEntry
<1> HIDE DEF z
<1>5. \A x \in EntrySet(c) : x.last_access_ns # z.last_access_ns
  <2>1. \A x \in EntrySet(c) : x.last_access_ns < t /\ x \in E
    BY <1>1, EntrySetType DEF Older
  <2>2. \A x \in E : x.last_access_ns \in Nat
    BY <1>1 DEF EntryRecords
  <2> QED
    BY <1>4, <2>1, <2>2
<1>6. /\ Table(E, full) /\ EntrySet(full) = EntrySet(c) \cup {z}
      /\ full.max_bytes = c.max_bytes /\ Len(full.entries) = Len(c.entries) + 1
  BY <1>4, <1>5, AddEntryTable
<1> HIDE DEF full
<1>7. Evicted(E, full, d) /\ (d.max_bytes > 0 => d.bytes_used <= d.max_bytes)
  BY <1>6, EnforceBudgetEvicts
<1> HIDE DEF d
<1>8. Len(d.entries) <= Capacity
  <2>1. Table(E, d) /\ EntrySet(d) \subseteq EntrySet(full)
    BY <1>7 DEF Evicted
  <2>2. /\ IsFiniteSet(EntrySet(full)) /\ Cardinality(EntrySet(full)) = Len(full.entries)
        /\ Cardinality(EntrySet(d)) = Len(d.entries) /\ Len(d.entries) \in Nat
    BY <1>6, <2>1, EntrySetType DEF Table
  <2>3. Cardinality(EntrySet(d)) <= Cardinality(EntrySet(full))
    BY <2>1, <2>2, FS_Subset
  <2> QED
    BY <1>1, <1>6, <2>2, <2>3, CsOpsAssumption
<1>9. r.ok = TRUE /\ r.cs = d
  BY <1>3
<1> HIDE DEF r
<1>10. InsertedTo(E, c, d, z)
  BY <1>6, <1>7 DEF InsertedTo
<1> QED
  BY <1>8, <1>9, <1>10 DEF r, z, StoreResult

\* psirp_cs_store of no data, of too much, or of a new name in a full table.
LEMMA RefuseStore ==
  ASSUME NEW E, NEW c, Table(E, c), NEW t, Hashed(EntrySet(c)),
         NEW p, p.hasVersion \in BOOLEAN, NEW data, NEW len \in Nat, NEW freshness,
         len # 0 /\ len <= MaxData =>
           (\A e \in EntrySet(c) : ~ Named(e, p)) /\ Len(c.entries) >= Capacity
  PROVE  StoreResult(E, c, CsStore(c, NameInit(p), data, len, freshness, t),
                     p, data, len, freshness, t)
<1> DEFINE r == CsStore(c, NameInit(p), data, len, freshness, t)
<1>1. r = [ok |-> FALSE, cs |-> c]
  <2>1. MaxData \in Nat
    BY CsOpsAssumption
  <2>2. CASE len = 0 \/ len > MaxData
    BY <2>2 DEF CsStore
  <2>3. CASE ~ (len = 0 \/ len > MaxData)
    <3>1. EqualSlots(c, NameInit(p)) = {i \in 1..Len(c.entries) : Named(c.entries[i], p)}
      BY SlotsOf
    <3>2. DOMAIN c.entries = 1..Len(c.entries)
      BY EntrySetType DEF Table
    <3>3. EqualSlots(c, NameInit(p)) = {} /\ Full(c)
      BY <2>1, <2>3, <3>1, <3>2 DEF EntrySet, Full
    <3> QED
      BY <2>3, <3>3 DEF CsStore
  <2> QED
    BY <2>2, <2>3
<1>2. r.ok = FALSE /\ r.cs = c
  BY <1>1
<1> HIDE DEF r
<1> QED
  BY <1>2 DEF StoreResult, r

LEMMA StoreTable ==
  ASSUME NEW E, NEW c, Table(E, c), NEW t \in Nat,
         Hashed(EntrySet(c)), Older(EntrySet(c), t),
         NEW p, p.hasVersion \in BOOLEAN, NEW data, NEW len \in Nat, NEW freshness,
         NewEntry(NameInit(p), data, len, freshness, t) \in E,
         \A e \in EntrySet(c) : Rewritten(e, data, len, freshness, t) \in E
  PROVE  StoreResult(E, c, CsStore(c, NameInit(p), data, len, freshness, t),
                     p, data, len, freshness, t)
<1>1. Len(c.entries) \in Nat /\ Capacity \in Nat /\ MaxData \in Nat
  BY EntrySetType, CsOpsAssumption DEF Table
<1>2. CASE len # 0 /\ len <= MaxData /\ \E e \in EntrySet(c) : Named(e, p)
  BY <1>2, UpdateTable
<1>3. CASE /\ len # 0 /\ len <= MaxData /\ \A e \in EntrySet(c) : ~ Named(e, p)
           /\ Len(c.entries) < Capacity
  BY <1>3, InsertTable
<1>4. CASE len # 0 /\ len <= MaxData =>
             (\A e \in EntrySet(c) : ~ Named(e, p)) /\ Len(c.entries) >= Capacity
  BY <1>4, RefuseStore
<1> QED
  BY <1>1, <1>2, <1>3, <1>4

\* One of the slots has the largest value.
LEMMA LargestValue ==
  ASSUME NEW n \in Nat, NEW s \in SUBSET (1..n), s # {}, NEW v, \A i \in s : v[i] \in Nat
  PROVE  \E i \in s : \A j \in s : v[j] <= v[i]
<1> DEFINE Low(m) == s \cap (1..m)
           Good(m) == Low(m) # {} => \E i \in Low(m) : \A j \in Low(m) : v[j] <= v[i]
           T == {m \in Nat : Good(m)}
<1>1. 0 \in T
  OBVIOUS
<1>2. ASSUME NEW m \in T PROVE m + 1 \in T
  <2>1. m \in Nat /\ Good(m)
    OBVIOUS
  <2>2. CASE m + 1 \notin s
    <3>1. Low(m + 1) = Low(m)
      BY <2>1, <2>2
    <3> HIDE DEF Low
    <3> QED
      BY <2>1, <3>1
  <2>3. CASE m + 1 \in s
    <3>1. Low(m + 1) = Low(m) \cup {m + 1} /\ Low(m) \subseteq s
      BY <2>1, <2>3
    <3> HIDE DEF Low
    <3>2. v[m + 1] \in Nat /\ \A j \in Low(m) : v[j] \in Nat
      BY <2>3, <3>1
    <3>3. CASE Low(m) = {}
      BY <2>1, <3>1, <3>2, <3>3
    <3>4. CASE Low(m) # {}
      <4>1. PICK i \in Low(m) : \A j \in Low(m) : v[j] <= v[i]
        BY <2>1, <3>4
      <4>2. CASE v[i] <= v[m + 1]
        <5>1. \A j \in Low(m + 1) : v[j] <= v[m + 1]
          BY <3>1, <3>2, <4>1, <4>2
        <5> QED
          BY <2>1, <3>1, <5>1
      <4>3. CASE ~ (v[i] <= v[m + 1])
        <5>1. \A j \in Low(m + 1) : v[j] <= v[i]
          BY <3>1, <3>2, <4>1, <4>3
        <5> QED
          BY <2>1, <3>1, <5>1
      <4> QED
        BY <4>2, <4>3
    <3> QED
      BY <3>3, <3>4
  <2> QED
    BY <2>2, <2>3
<1>3. n \in T
  <2> HIDE DEF T
  <2>1. T \in SUBSET Nat
    BY DEF T
  <2> QED
    BY <1>1, <1>2, <2>1, NumberInduction
<1>4. Low(n) = s
  OBVIOUS
<1> QED
  BY <1>3, <1>4

\* psirp_cs_lookup answers with a live entry of the name, and with one of the
\* newest version.
LEMMA LookupFinds ==
  ASSUME NEW E, NEW c, Table(E, c), Hashed(EntrySet(c)), NEW t,
         NEW p, p.hasVersion \in BOOLEAN, \A e \in EntrySet(c) : e.name.version \in Nat
  PROVE  LET i == LookupSlot(c, NameInit(p), t)
             live == {e \in EntrySet(c) : Named(e, p) /\ ~ EntryExpired(e, t)}
         IN  /\ live = {} => i = 0
             /\ live # {} =>
                  /\ i \in 1..Len(c.entries) /\ c.entries[i] \in live
                  /\ \A y \in live : y.name.version <= c.entries[i].name.version
<1> DEFINE n == Len(c.entries)
           live == {e \in EntrySet(c) : Named(e, p) /\ ~ EntryExpired(e, t)}
           found == LookupSlots(c, NameInit(p), t)
           newest == {i \in found : \A j \in found :
                        c.entries[j].name.version <= c.entries[i].name.version}
           v == [i \in 1..n |-> c.entries[i].name.version]
<1>1. n \in Nat /\ DOMAIN c.entries = 1..n
  BY EntrySetType DEF Table
<1>2. found = {i \in 1..n : ~ EntryExpired(c.entries[i], t) /\ Named(c.entries[i], p)}
  BY SlotsOf
<1>3. \A i \in found : i \in 1..n /\ c.entries[i] \in live
  BY <1>1, <1>2 DEF EntrySet
<1>4. \A e \in live : \E i \in found : e = c.entries[i]
  BY <1>1, <1>2 DEF EntrySet
<1>5. \A i \in found : v[i] = c.entries[i].name.version /\ v[i] \in Nat
  BY <1>3
<1>6. LookupSlot(c, NameInit(p), t) =
        IF found = {} THEN 0 ELSE IF p.hasVersion THEN Min(found) ELSE Min(newest)
  <2>1. NameInit(p).hasVersion = p.hasVersion
    BY DEF NameInit
  <2> HIDE DEF found
  <2> QED
    BY <2>1 DEF LookupSlot, found
<1>7. CASE live = {}
  <2>1. found = {}
    BY <1>3, <1>7
  <2> HIDE DEF found
  <2>2. LookupSlot(c, NameInit(p), t) = 0
    BY <1>6, <2>1
  <2> QED
    BY <1>7, <2>2
<1>8. CASE live # {}
  <2>1. found # {} /\ found \in SUBSET (1..n)
    BY <1>2, <1>4, <1>8
  <2>2. ~ p.hasVersion
    BY <1>8 DEF Named
  <2> HIDE DEF found
  <2>3. \E i \in found : \A j \in found : v[j] <= v[i]
    <3> HIDE DEF v, n
    <3> QED
      BY <1>1, <1>5, <2>1, LargestValue
  <2>4. newest # {} /\ newest \in SUBSET Nat
    <3>1. found \subseteq Nat
      BY <1>1, <2>1
    <3> HIDE DEF v
    <3> QED
      BY <1>5, <2>3, <3>1
  <2>5. LookupSlot(c, NameInit(p), t) = Min(newest)
    BY <1>6, <2>1, <2>2
  <2>6. Min(newest) \in newest
    <3> HIDE DEF newest
    <3> QED
      BY <2>4, MinIn
  <2>7. Min(newest) \in found
        /\ \A j \in found : c.entries[j].name.version <= c.entries[Min(newest)].name.version
    BY <2>6
  <2> HIDE DEF newest, live
  <2>8. \A y \in live : y.name.version <= c.entries[Min(newest)].name.version
    BY <1>4, <2>7
  <2> QED
    BY <1>3, <1>8, <2>5, <2>7, <2>8 DEF live
<1> QED
  BY <1>7, <1>8

\* A hit of psirp_cs_lookup stamps the entry and changes nothing else.
LEMMA TouchTable ==
  ASSUME NEW E, NEW c, Table(E, c), NEW t \in Nat, Older(EntrySet(c), t),
         NEW i \in 1..Len(c.entries), Touched(c.entries[i], t) \in E
  PROVE  LET d == Touch(c, i, t)
         IN  /\ Table(E, d) /\ d.max_bytes = c.max_bytes /\ Len(d.entries) = Len(c.entries)
             /\ EntrySet(d) = (EntrySet(c) \ {c.entries[i]}) \cup {Touched(c.entries[i], t)}
<1> DEFINE n == Len(c.entries)
           e == c.entries[i]
           z == Touched(e, t)
           s == [c.entries EXCEPT ![i] = z]
           d == [entries |-> s, bytes_used |-> c.bytes_used, max_bytes |-> c.max_bytes]
<1>1. EntryRecords(E) /\ c \in StoresOf(E) /\ n \in Nat /\ DOMAIN c.entries = 1..n
  BY EntrySetType DEF Table
<1>2. e \in EntrySet(c) /\ e \in E /\ i # 0
  <2>1. i \in 1..n /\ i \in DOMAIN c.entries /\ i # 0
    BY <1>1
  <2> QED
    BY <1>1, <2>1, EntrySetType DEF EntrySet
<1>3. Touch(c, i, t) = d
  <2>1. [e EXCEPT !.last_access_ns = t] = z
    <3>1. DOMAIN e = EntryFields
      BY <1>1, <1>2 DEF EntryRecords
    <3> HIDE DEF e
    <3> QED
      BY <3>1, EntryExcept
  <2> DEFINE q == [e EXCEPT !.last_access_ns = t]
  <2>2. Touch(c, i, t) = [c EXCEPT !.entries = [c.entries EXCEPT ![i] = q]]
    BY <1>2 DEF Touch
  <2> HIDE DEF q, z
  <2>3. Touch(c, i, t) = [c EXCEPT !.entries = s]
    BY <2>1, <2>2 DEF q
  <2> HIDE DEF s
  <2> QED
    BY <1>1, <2>3, StoreExcept
<1>4. z \in E /\ z.last_access_ns = t /\ z.data_len = e.data_len
  BY DEF Touched
<1>6. \A x \in EntrySet(c) : x.last_access_ns # z.last_access_ns
  <2>1. \A x \in EntrySet(c) : x.last_access_ns < t /\ x \in E
    BY <1>1, EntrySetType DEF Older
  <2>2. \A x \in E : x.last_access_ns \in Nat
    BY <1>1 DEF EntryRecords
  <2> QED
    BY <1>4, <2>1, <2>2
<1> HIDE DEF z
<1> HIDE DEF s, n
<1>7. /\ Table(E, d) /\ d.max_bytes = c.max_bytes /\ Len(d.entries) = n
      /\ EntrySet(d) = (EntrySet(c) \ {e}) \cup {z}
  <2>1. c.bytes_used \in Nat /\ e.data_len \in Nat
    BY <1>1, <1>2 DEF StoresOf, EntryRecords
  <2>2. c.bytes_used - e.data_len + z.data_len = c.bytes_used
    BY <1>4, <2>1
  <2>3. d = [entries |-> [c.entries EXCEPT ![i] = z],
             bytes_used |-> c.bytes_used - c.entries[i].data_len + z.data_len,
             max_bytes |-> c.max_bytes]
    BY <2>2 DEF s
  <2>4. i \in 1..Len(c.entries)
    OBVIOUS
  <2> HIDE DEF d
  <2>5. /\ Table(E, d) /\ d.max_bytes = c.max_bytes /\ Len(d.entries) = Len(c.entries)
        /\ EntrySet(d) = (EntrySet(c) \ {c.entries[i]}) \cup {z}
    BY <1>4, <1>6, <2>3, <2>4, ReplaceTable, SMTT(60)
  <2> QED
    BY <2>5 DEF n
<1> HIDE DEF d, e
<1> QED
  BY <1>3, <1>7 DEF e, z, n

\* psirp_cs_remove takes out one entry of the name, if there is one.
RemoveResult(E, c, r, p) ==
  /\ Table(E, r.cs) /\ EntrySet(r.cs) \subseteq EntrySet(c)
  /\ r.cs.max_bytes = c.max_bytes
  /\ \/ (\A e \in EntrySet(c) : ~ Named(e, p)) /\ r.ok = FALSE /\ r.cs = c
     \/ /\ r.ok = TRUE
        /\ \E e \in EntrySet(c) : Named(e, p) /\ EntrySet(r.cs) = EntrySet(c) \ {e}

LEMMA RemoveTable ==
  ASSUME NEW E, NEW c, Table(E, c), Hashed(EntrySet(c)), NEW p, p.hasVersion \in BOOLEAN
  PROVE  RemoveResult(E, c, CsRemove(c, NameInit(p)), p)
<1> DEFINE n == Len(c.entries)
           D == EqualSlots(c, NameInit(p))
           i == Min(D)
           d == DropEntry(c, i)
           r == CsRemove(c, NameInit(p))
<1>1. n \in Nat /\ DOMAIN c.entries = 1..n
  BY EntrySetType DEF Table
<1>2. D = {j \in 1..n : Named(c.entries[j], p)}
  BY SlotsOf
<1>3. CASE \A e \in EntrySet(c) : ~ Named(e, p)
  <2>1. D = {}
    BY <1>1, <1>2, <1>3 DEF EntrySet
  <2> HIDE DEF D
  <2>2. r = [ok |-> FALSE, cs |-> c]
    BY <2>1 DEF CsRemove, D
  <2>4. r.ok = FALSE /\ r.cs = c
    BY <2>2
  <2> HIDE DEF r
  <2> QED
    BY <1>3, <2>4 DEF r, RemoveResult
<1>4. CASE \E e \in EntrySet(c) : Named(e, p)
  <2>1. D # {} /\ D \in SUBSET Nat
    BY <1>1, <1>2, <1>4 DEF EntrySet
  <2>2. i \in D
    <3> HIDE DEF D
    <3> QED
      BY <2>1, MinIn
  <2>3. i \in 1..n /\ Named(c.entries[i], p) /\ c.entries[i] \in EntrySet(c)
    BY <1>1, <1>2, <2>2 DEF EntrySet
  <2> HIDE DEF D
  <2>4. r = [ok |-> TRUE, cs |-> d]
    BY <2>1 DEF CsRemove, D
  <2>5. r.ok = TRUE /\ r.cs = d
    BY <2>4
  <2> HIDE DEF i, r
  <2>6. Table(E, d) /\ EntrySet(d) = EntrySet(c) \ {c.entries[i]} /\ d.max_bytes = c.max_bytes
    BY <1>1, <2>3, DropEntryTable
  <2>7. EntrySet(d) \subseteq EntrySet(c)
    BY <2>6
  <2> HIDE DEF d
  <2> QED
    BY <1>4, <2>3, <2>5, <2>6, <2>7 DEF r, RemoveResult
<1> QED
  BY <1>3, <1>4

\* psirp_cs_gc drops the expired entries, then evicts from the live ones; it counts
\* something exactly when an entry is gone.
LEMMA GcTable ==
  ASSUME NEW E, NEW c, Table(E, c), NEW t
  PROVE  LET m == DropExpired(c, t)
             d == CsGc(c, t)
         IN  /\ Table(E, m) /\ m.max_bytes = c.max_bytes
             /\ EntrySet(m) = {e \in EntrySet(c) : ~ EntryExpired(e, t)}
             /\ Evicted(E, m, d)
             /\ d.max_bytes > 0 => d.bytes_used <= d.max_bytes
             /\ Table(E, d) /\ EntrySet(d) \subseteq EntrySet(c) /\ d.max_bytes = c.max_bytes
             /\ GcCount(c, t) > 0 <=> EntrySet(d) # EntrySet(c)
<1> DEFINE m == DropExpired(c, t)
           d == EnforceBudget(m)
<1>1. CsGc(c, t) = d
  BY DEF CsGc
<1>3. /\ Table(E, m) /\ m.max_bytes = c.max_bytes
      /\ EntrySet(m) = {e \in EntrySet(c) : ~ EntryExpired(e, t)}
  BY DropExpiredDrops
<1> HIDE DEF m
<1>4. Evicted(E, m, d) /\ (d.max_bytes > 0 => d.bytes_used <= d.max_bytes)
  BY <1>3, EnforceBudgetEvicts
<1> HIDE DEF d
<1>5. Table(E, d) /\ EntrySet(d) \subseteq EntrySet(c) /\ d.max_bytes = c.max_bytes
  BY <1>3, <1>4 DEF Evicted
<1>7. GcCount(c, t) > 0 <=> EntrySet(d) # EntrySet(c)
  <2>1. /\ IsFiniteSet(EntrySet(c)) /\ Cardinality(EntrySet(c)) = Len(c.entries)
        /\ Cardinality(EntrySet(d)) = Len(d.entries)
        /\ Len(c.entries) \in Nat /\ Len(d.entries) \in Nat
    BY <1>5, EntrySetType DEF Table
  <2>2. /\ Cardinality(EntrySet(d)) <= Cardinality(EntrySet(c))
        /\ Cardinality(EntrySet(d)) = Cardinality(EntrySet(c)) => EntrySet(d) = EntrySet(c)
    BY <1>5, <2>1, FS_Subset
  <2>3. GcCount(c, t) = Len(c.entries) - Len(d.entries)
    BY <1>1 DEF GcCount
  <2> DEFINE x == Len(c.entries)
             y == Len(d.entries)
  <2>4. x \in Nat /\ y \in Nat /\ y <= x /\ (y = x <=> EntrySet(d) = EntrySet(c))
    BY <2>1, <2>2
  <2>5. GcCount(c, t) = x - y
    BY <2>3
  <2> HIDE DEF x, y
  <2> QED
    BY <2>4, <2>5
<1> QED
  BY <1>1, <1>3, <1>4, <1>5, <1>7 DEF m
----------------------------------------------------------------------------
(* The invariant, seen on the set of entries *)

\* What holds of the entries at time t.
Sound(S, t) ==
  /\ \A e \in S :
       /\ PathOf(e.name) \in Paths /\ e.name.hash = HashText(Unversioned(e.name.base))
       /\ e.timestamp < t /\ e.last_access_ns < t
  /\ \A e, f \in S :
       ~ e.name.hasVersion /\ ~ f.name.hasVersion /\ e.name.base = f.name.base => e = f

TableInv(c, t) ==
  /\ Table(Entries, c) /\ c.max_bytes \in Budgets \cup {0} /\ Len(c.entries) <= Capacity
  /\ Sound(EntrySet(c), t)

Replies == [op : Calls, path : Paths \cup {NoPath}, ok : BOOLEAN, version : Nat]

RetOK == ret \in Replies

\* The entries and stores of this machine among those of the lemmas above.
LEMMA EntriesAreRecords == EntryRecords(Entries)
<1>1. Lengths \subseteq Nat /\ MaxTime \in Nat
  BY ContentStoreAssumption
<1>2. ASSUME NEW e \in Entries
      PROVE  e.data_len \in Nat /\ e.last_access_ns \in Nat /\ DOMAIN e = EntryFields
  <2>1. e.data_len \in Lengths /\ e.last_access_ns \in 0..MaxTime
    BY DEF Entries
  <2>2. e.data_len \in Nat
    BY <1>1, <2>1
  <2>3. e.last_access_ns \in Nat
    BY <1>1, <2>1
  <2>4. DOMAIN e = EntryFields
    BY DEF Entries, EntryFields
  <2> QED
    BY <2>2, <2>3, <2>4
<1> QED
  BY <1>2 DEF EntryRecords

LEMMA StoresAreStores ==
  ASSUME NEW c
  PROVE  c \in Stores <=> c \in StoresOf(Entries) /\ c.max_bytes \in Budgets \cup {0}
<1>1. \A b \in Budgets \cup {0} : b \in Nat
  BY ContentStoreAssumption
<1>2. ASSUME c \in Stores PROVE c \in StoresOf(Entries) /\ c.max_bytes \in Budgets \cup {0}
  <2>1. c.max_bytes \in Budgets \cup {0}
    BY <1>2 DEF Stores
  <2>2. c.max_bytes \in Nat
    BY <1>1, <2>1
  <2> QED
    BY <1>2, <2>1, <2>2 DEF Stores, StoresOf
<1>3. ASSUME c \in StoresOf(Entries), c.max_bytes \in Budgets \cup {0} PROVE c \in Stores
  BY <1>3 DEF Stores, StoresOf
<1> QED
  BY <1>2, <1>3

LEMMA InvAsTable ==
  StoreInv <=> TableInv(cs, now) /\ now \in 0..MaxTime /\ RetOK
<1>1. ASSUME cs \in StoresOf(Entries) PROVE (BytesAccounted /\ EntriesSound => Table(Entries, cs))
                                 /\ (Table(Entries, cs) => BytesAccounted)
  <2>1. EntriesSound => Recency(cs)
    BY DEF EntriesSound, Recency
  <2>2. Recency(cs) => BytesHeld(cs) = EntryBytes(EntrySet(cs))
    BY <1>1, BytesHeldIsEntryBytes, EntriesAreRecords
  <2> QED
    BY <1>1, <2>1, <2>2, EntriesAreRecords DEF Table, BytesAccounted
<1>2. ASSUME StoreInv PROVE TableInv(cs, now) /\ now \in 0..MaxTime /\ RetOK
  <2>1. /\ cs \in StoresOf(Entries) /\ cs.max_bytes \in Budgets \cup {0}
        /\ Len(cs.entries) <= Capacity /\ now \in 0..MaxTime /\ RetOK
    BY <1>2, StoresAreStores DEF StoreInv, TypeOK, RetOK, Replies
  <2>2. Table(Entries, cs)
    BY <1>1, <1>2, <2>1 DEF StoreInv
  <2>3. ASSUME NEW e \in EntrySet(cs), NEW f \in EntrySet(cs),
               ~ e.name.hasVersion, ~ f.name.hasVersion, e.name.base = f.name.base
        PROVE  e = f
    <3>1. PICK i \in DOMAIN cs.entries : e = cs.entries[i]
      BY DEF EntrySet
    <3>2. PICK j \in DOMAIN cs.entries : f = cs.entries[j]
      BY DEF EntrySet
    <3>3. i = j
      BY <1>2, <2>3, <3>1, <3>2 DEF StoreInv, PlainNamesUnique
    <3> QED
      BY <3>1, <3>2, <3>3
  <2>4. \A e \in EntrySet(cs) :
          /\ PathOf(e.name) \in Paths /\ e.name.hash = HashText(Unversioned(e.name.base))
          /\ e.timestamp < now /\ e.last_access_ns < now
    BY <1>2 DEF StoreInv, EntriesSound
  <2> QED
    BY <2>1, <2>2, <2>3, <2>4 DEF TableInv, Sound
<1>3. ASSUME TableInv(cs, now), now \in 0..MaxTime, RetOK PROVE StoreInv
  <2>1. cs \in StoresOf(Entries) /\ Len(cs.entries) <= Capacity /\ Table(Entries, cs) /\ Recency(cs)
    BY <1>3 DEF TableInv, Table
  <2>2. TypeOK
    BY <1>3, <2>1, StoresAreStores DEF TypeOK, RetOK, Replies, TableInv
  <2>3. BytesAccounted
    BY <1>1, <2>1
  <2>4. PlainNamesUnique
    <3> SUFFICES ASSUME NEW i \in DOMAIN cs.entries, NEW j \in DOMAIN cs.entries,
                        ~ cs.entries[i].name.hasVersion, ~ cs.entries[j].name.hasVersion,
                        cs.entries[i].name.base = cs.entries[j].name.base
                 PROVE  i = j
      BY DEF PlainNamesUnique
    <3>1. cs.entries[i] \in EntrySet(cs) /\ cs.entries[j] \in EntrySet(cs)
      BY DEF EntrySet
    <3>2. cs.entries[i] = cs.entries[j]
      BY <1>3, <3>1 DEF TableInv, Sound
    <3> QED
      BY <2>1, <3>2 DEF Recency
  <2>5. EntriesSound
    BY <1>3, <2>1 DEF EntriesSound, TableInv, Sound, Recency
  <2> QED
    BY <2>2, <2>3, <2>4, <2>5 DEF StoreInv
<1> QED
  BY <1>2, <1>3

\* Entries that go do not disturb the invariant, and time only moves on.
LEMMA ShrinkKeepsTable ==
  ASSUME NEW c, NEW t \in 0..MaxTime, TableInv(c, t),
         NEW d, Table(Entries, d), EntrySet(d) \subseteq EntrySet(c),
         d.max_bytes \in Budgets \cup {0}
  PROVE  TableInv(d, t + 1)
<1>1. c \in StoresOf(Entries) /\ d \in StoresOf(Entries) /\ Recency(c) /\ Recency(d)
  BY DEF TableInv, Table
<1>2. /\ IsFiniteSet(EntrySet(c)) /\ EntrySet(c) \subseteq Entries
      /\ Cardinality(EntrySet(c)) = Len(c.entries) /\ Cardinality(EntrySet(d)) = Len(d.entries)
      /\ Len(c.entries) \in Nat /\ Len(d.entries) \in Nat
  BY <1>1, EntrySetType, EntriesAreRecords
<1>3. Cardinality(EntrySet(d)) <= Cardinality(EntrySet(c))
  BY <1>2, FS_Subset
<1>4. Len(d.entries) <= Capacity
  BY <1>2, <1>3, CsOpsAssumption DEF TableInv
<1>5. ASSUME NEW e \in EntrySet(d) PROVE e.timestamp < t + 1 /\ e.last_access_ns < t + 1
  <2>1. e.timestamp < t /\ e.last_access_ns < t /\ e \in Entries
    BY <1>2 DEF TableInv, Sound
  <2>2. e.timestamp \in Nat /\ e.last_access_ns \in Nat /\ t \in Nat
    BY <2>1, ContentStoreAssumption DEF Entries
  <2> QED
    BY <2>1, <2>2
<1>6. Sound(EntrySet(d), t + 1)
  BY <1>5 DEF TableInv, Sound
<1> QED
  BY <1>4, <1>6 DEF TableInv

\* So does an entry that comes with a stamp of its own, in the place of one of the
\* same name or of none, when the name is free.
LEMMA ChangeKeepsTable ==
  ASSUME NEW c, NEW t \in 0..MaxTime, TableInv(c, t),
         NEW d, Table(Entries, d), Len(d.entries) <= Capacity,
         d.max_bytes \in Budgets \cup {0},
         NEW z \in Entries, NEW S \in SUBSET EntrySet(c), EntrySet(d) = S \cup {z},
         PathOf(z.name) \in Paths, z.name.hash = HashText(Unversioned(z.name.base)),
         z.timestamp <= t, z.last_access_ns <= t,
         \A e \in S : ~ z.name.hasVersion /\ ~ e.name.hasVersion => e.name.base # z.name.base
  PROVE  TableInv(d, t + 1)
<1>1. EntrySet(c) \subseteq Entries
  BY EntrySetType, EntriesAreRecords DEF TableInv, Table
<1>2. ASSUME NEW e \in EntrySet(d)
      PROVE  /\ PathOf(e.name) \in Paths /\ e.name.hash = HashText(Unversioned(e.name.base))
             /\ e.timestamp < t + 1 /\ e.last_access_ns < t + 1
  <2>1. t \in Nat
    BY ContentStoreAssumption
  <2>2. CASE e \in S
    <3>1. e.timestamp < t /\ e.last_access_ns < t /\ e \in Entries
      BY <1>1, <2>2 DEF TableInv, Sound
    <3>2. e.timestamp \in Nat /\ e.last_access_ns \in Nat
      BY <3>1, ContentStoreAssumption DEF Entries
    <3>3. e.timestamp < t + 1 /\ e.last_access_ns < t + 1
      BY <2>1, <3>1, <3>2
    <3> QED
      BY <2>2, <3>3 DEF TableInv, Sound
  <2>3. CASE e = z
    <3>1. z.timestamp \in Nat /\ z.last_access_ns \in Nat
      BY ContentStoreAssumption DEF Entries
    <3>2. z.timestamp < t + 1 /\ z.last_access_ns < t + 1
      BY <2>1, <3>1
    <3> QED
      BY <2>3, <3>2
  <2> QED
    BY <2>2, <2>3
<1>3. \A e, f \in EntrySet(d) :
        ~ e.name.hasVersion /\ ~ f.name.hasVersion /\ e.name.base = f.name.base => e = f
  BY DEF TableInv, Sound
<1> QED
  BY <1>2, <1>3 DEF TableInv, Sound

----------------------------------------------------------------------------
(* Names *)

LEMMA PathType ==
  ASSUME NEW p \in Paths
  PROVE  /\ p = Path(p.base, p.version, p.hasVersion)
         /\ p.base \in Bases /\ p.version \in Nat /\ p.hasVersion \in BOOLEAN
         /\ ~ p.hasVersion => p.version = 0
<1>1. Paths \subseteq [base : Bases, version : Nat, hasVersion : BOOLEAN]
      /\ \A q \in Paths : ~ q.hasVersion => q.version = 0
  BY ContentStoreAssumption DEF Bases
<1>2. p \in [base : Bases, version : Nat, hasVersion : BOOLEAN]
  BY <1>1
<1> QED
  BY <1>1, <1>2 DEF Path

\* The hash tells paths apart, and a versioned one from every version-free one.
LEMMA HashTells ==
  ASSUME NEW p \in Paths
  PROVE  /\ ~ p.hasVersion => HashText(p) = HashText(Unversioned(p.base))
         /\ p.hasVersion => \A b : HashText(p) # HashText(Unversioned(b))
         /\ \A q \in Paths : HashText(q) = HashText(p) => q = p
         /\ DataPath(HashText(p)) = p
<1>1. \A b : HashText(Unversioned(b)) = <<b>>
  BY DEF HashText, Unversioned, Path
<1>2. ~ p.hasVersion => HashText(p) = <<p.base>>
  BY DEF HashText
<1>3. p.hasVersion => HashText(p) = <<p.base, p.version>>
  BY DEF HashText
<1>4. \A a, b, v : <<a>> # <<b, v>>
  <2> SUFFICES ASSUME NEW a, NEW b, NEW v, <<a>> = <<b, v>> PROVE FALSE
    OBVIOUS
  <2>1. Len(<<a>>) = 1 /\ Len(<<b, v>>) = 2
    OBVIOUS
  <2> QED
    BY <2>1
<1>5. ASSUME NEW q \in Paths, HashText(q) = HashText(p) PROVE q = p
  <2>1. p.hasVersion \in BOOLEAN /\ q.hasVersion \in BOOLEAN
    BY PathType
  <2>2. CASE q.hasVersion /\ p.hasVersion
    <3>1. <<q.base, q.version>> = <<p.base, p.version>>
      BY <1>5, <2>2 DEF HashText
    <3>2. q.base = p.base /\ q.version = p.version /\ q.hasVersion = p.hasVersion
      BY <2>1, <2>2, <3>1
    <3>3. p = Path(p.base, p.version, p.hasVersion) /\ q = Path(q.base, q.version, q.hasVersion)
      BY PathType
    <3> QED
      BY <3>2, <3>3
  <2>3. CASE ~ q.hasVersion /\ ~ p.hasVersion
    <3>1. <<q.base>> = <<p.base>>
      BY <1>5, <2>3 DEF HashText
    <3>2. q.version = 0 /\ p.version = 0
      BY <2>3, PathType
    <3>3. q.base = p.base /\ q.version = p.version /\ q.hasVersion = p.hasVersion
      BY <2>1, <2>3, <3>1, <3>2
    <3>4. p = Path(p.base, p.version, p.hasVersion) /\ q = Path(q.base, q.version, q.hasVersion)
      BY PathType
    <3> QED
      BY <3>3, <3>4
  <2>4. CASE q.hasVersion /\ ~ p.hasVersion
    BY <1>4, <1>5, <2>4 DEF HashText
  <2>5. CASE ~ q.hasVersion /\ p.hasVersion
    BY <1>4, <1>5, <2>5 DEF HashText
  <2> QED
    BY <2>1, <2>2, <2>3, <2>4, <2>5
<1>6. DataPath(HashText(p)) = p
  <2>1. DataPath(HashText(p)) \in Paths /\ HashText(DataPath(HashText(p))) = HashText(p)
    BY DEF DataPath
  <2> QED
    BY <1>5, <2>1
<1> QED
  BY <1>1, <1>2, <1>3, <1>4, <1>5, <1>6

\* What the lemmas about tables ask for.
LEMMA InvFacts ==
  ASSUME NEW c, NEW t \in 0..MaxTime, TableInv(c, t)
  PROVE  /\ Table(Entries, c) /\ t \in Nat
         /\ Hashed(EntrySet(c)) /\ Older(EntrySet(c), t)
         /\ \A e \in EntrySet(c) : e.name.version \in Nat
         /\ Len(c.entries) \in Nat /\ DOMAIN c.entries = 1..Len(c.entries)
<1>1. t \in Nat
  BY ContentStoreAssumption
<1>2. ASSUME NEW e \in EntrySet(c) PROVE e.name.version \in Nat
  <2>1. PathOf(e.name) \in Paths
    BY DEF TableInv, Sound
  <2>2. PathOf(e.name).version \in Nat
    BY <2>1, PathType
  <2> QED
    BY <2>2 DEF PathOf, Path
<1>3. Table(Entries, c) /\ Hashed(EntrySet(c)) /\ Older(EntrySet(c), t)
  BY DEF TableInv, Sound, Hashed, Older
<1> QED
  BY <1>1, <1>2, <1>3, EntrySetType DEF Table

----------------------------------------------------------------------------
(* What each call does to the set of entries *)

LEMMA RewrittenType ==
  ASSUME NEW e \in Entries, NEW p \in Paths, NEW len \in Lengths, NEW freshness \in Lifetimes,
         NEW t \in 0..MaxTime
  PROVE  /\ Rewritten(e, HashText(p), len, freshness, t) \in Entries
         /\ Touched(e, t) \in Entries
BY DEF Entries, Rewritten, Touched

\* The version fields of a name are written over.
LEMMA VersionExcept ==
  ASSUME NEW e, DOMAIN e = {"base", "version", "hasVersion", "hash"}, NEW x, NEW y
  PROVE  [e EXCEPT !.version = x, !.hasVersion = y]
           = [base |-> e.base, version |-> x, hasVersion |-> y, hash |-> e.hash]
<1> DEFINE F == {"base", "version", "hasVersion", "hash"}
           Q == [e EXCEPT !.version = x, !.hasVersion = y]
           R == [base |-> e.base, version |-> x, hasVersion |-> y, hash |-> e.hash]
<1>1. Q = [f \in F |-> Q[f]] /\ R = [f \in F |-> R[f]]
  OBVIOUS
<1>2. Q.base = e.base /\ Q.version = x /\ Q.hasVersion = y /\ Q.hash = e.hash
  OBVIOUS
<1>3. R.base = e.base /\ R.version = x /\ R.hasVersion = y /\ R.hash = e.hash
  OBVIOUS
<1> HIDE DEF Q, R
<1>4. \A f \in F : Q[f] = R[f]
  BY <1>2, <1>3
<1> HIDE DEF F
<1>5. Q = R
  BY <1>1, <1>4
<1> QED
  BY <1>5 DEF Q, R

\* The entry a store adds.
Fresh(p, len, freshness, t) == NewEntry(NameInit(p), HashText(p), len, freshness, t)

LEMMA FreshType ==
  ASSUME NEW p \in Paths, NEW len \in Lengths, NEW freshness \in Lifetimes, NEW t \in 0..MaxTime
  PROVE  LET z == Fresh(p, len, freshness, t)
         IN  /\ z \in Entries
             /\ z.name.base = p.base /\ z.name.version = p.version
             /\ z.name.hasVersion = p.hasVersion
             /\ z.name.hash = HashText(Unversioned(p.base))
             /\ z.data = HashText(p) /\ z.data_len = len /\ z.timestamp = t
             /\ z.freshness_ms = freshness /\ z.last_access_ns = t
             /\ PathOf(z.name) = p
<1> DEFINE base0 == [base |-> p.base, version |-> 0, hasVersion |-> FALSE,
                     hash |-> HashText(Unversioned(p.base))]
           nm == [base |-> p.base, version |-> p.version, hasVersion |-> p.hasVersion,
                  hash |-> HashText(Unversioned(p.base))]
           z == [name |-> nm, data |-> HashText(p), data_len |-> len, timestamp |-> t,
                 freshness_ms |-> freshness, last_access_ns |-> t]
<1>1. NameInit(p).base = p.base /\ NameInit(p).version = p.version
      /\ NameInit(p).hasVersion = p.hasVersion
  BY DEF NameInit
<1>2. NameInitComponents(p.base) = base0
  BY DEF NameInitComponents, NameInit, Unversioned, Path
<1>3. [base0 EXCEPT !.version = p.version, !.hasVersion = p.hasVersion] = nm
  <2>1. /\ DOMAIN base0 = {"base", "version", "hasVersion", "hash"}
        /\ base0.base = p.base /\ base0.hash = HashText(Unversioned(p.base))
    OBVIOUS
  <2> HIDE DEF base0
  <2>2. [base0 EXCEPT !.version = p.version, !.hasVersion = p.hasVersion]
          = [base |-> base0.base, version |-> p.version, hasVersion |-> p.hasVersion,
             hash |-> base0.hash]
    BY <2>1, VersionExcept
  <2> QED
    BY <2>1, <2>2
<1>4. Fresh(p, len, freshness, t) = z
  BY <1>1, <1>2, <1>3 DEF Fresh, NewEntry
<1>5. nm \in Names
  <2>1. p.base \in Bases /\ p.hasVersion \in BOOLEAN
    BY PathType
  <2>2. p.version \in {q.version : q \in Paths}
    OBVIOUS
  <2>3. HashText(Unversioned(p.base)) \in {HashText(Unversioned(b)) : b \in Bases}
    BY <2>1
  <2> QED
    BY <2>1, <2>2, <2>3 DEF Names
<1>6. HashText(p) \in {HashText(q) : q \in Paths}
  OBVIOUS
<1>7. z \in Entries
  <2> HIDE DEF nm
  <2> QED
    BY <1>5, <1>6 DEF Entries
<1>8. PathOf(nm) = p
  BY PathType DEF PathOf, Path
<1>9. /\ z.name = nm /\ z.data = HashText(p) /\ z.data_len = len /\ z.timestamp = t
      /\ z.freshness_ms = freshness /\ z.last_access_ns = t
  OBVIOUS
<1>10. nm.base = p.base /\ nm.version = p.version /\ nm.hasVersion = p.hasVersion
       /\ nm.hash = HashText(Unversioned(p.base))
  OBVIOUS
<1> HIDE DEF nm, z
<1> QED
  BY <1>4, <1>7, <1>8, <1>9, <1>10

\* psirp_cs_store keeps the invariant, whatever it does.
LEMMA StoreKeeps ==
  ASSUME NEW c, NEW t \in 0..MaxTime, TableInv(c, t),
         NEW p \in Paths, NEW len \in Lengths, NEW freshness \in Lifetimes,
         NEW r, r = CsStore(c, NameInit(p), HashText(p), len, freshness, t)
  PROVE  /\ StoreResult(Entries, c, r, p, HashText(p), len, freshness, t)
         /\ TableInv(r.cs, t + 1)
<1> DEFINE z == Fresh(p, len, freshness, t)
<1>1. /\ Table(Entries, c) /\ t \in Nat /\ Hashed(EntrySet(c)) /\ Older(EntrySet(c), t)
      /\ p.hasVersion \in BOOLEAN /\ len \in Nat /\ Capacity \in Nat
      /\ EntrySet(c) \subseteq Entries
  BY InvFacts, PathType, EntrySetType, ContentStoreAssumption, CsOpsAssumption DEF Table
<1>2. /\ z \in Entries /\ z.last_access_ns = t /\ z.timestamp = t
      /\ PathOf(z.name) = p /\ z.name.hash = HashText(Unversioned(z.name.base))
      /\ z.name.base = p.base /\ z.name.hasVersion = p.hasVersion
  BY FreshType
<1>3. \A e \in EntrySet(c) : Rewritten(e, HashText(p), len, freshness, t) \in Entries
  BY <1>1, RewrittenType
<1>4. StoreResult(Entries, c, r, p, HashText(p), len, freshness, t)
  BY <1>1, <1>2, <1>3, StoreTable DEF Fresh
<1>5. ASSUME r.cs = c PROVE TableInv(r.cs, t + 1)
  BY <1>5, ShrinkKeepsTable DEF TableInv
<1>6. ASSUME UpdatedTo(Entries, c, r.cs, p, HashText(p), len, freshness, t)
      PROVE  TableInv(r.cs, t + 1)
  <2> DEFINE d == r.cs
  <2>1. /\ Table(Entries, d) /\ d.max_bytes = c.max_bytes /\ Len(d.entries) = Len(c.entries)
    BY <1>6 DEF UpdatedTo
  <2>2. PICK e \in EntrySet(c) :
          EntrySet(d) = (EntrySet(c) \ {e}) \cup {Rewritten(e, HashText(p), len, freshness, t)}
    BY <1>6 DEF UpdatedTo
  <2> DEFINE y == Rewritten(e, HashText(p), len, freshness, t)
             S == EntrySet(c) \ {e}
  <2>3. y \in Entries /\ y.name = e.name /\ y.timestamp <= t /\ y.last_access_ns <= t
    BY <1>1, <1>3 DEF Rewritten
  <2>4. S \in SUBSET EntrySet(c) /\ EntrySet(d) = S \cup {y}
    BY <2>2
  <2> HIDE DEF y
  <2>5. PathOf(y.name) \in Paths /\ y.name.hash = HashText(Unversioned(y.name.base))
    BY <2>3 DEF TableInv, Sound
  <2>6. \A x \in S : ~ y.name.hasVersion /\ ~ x.name.hasVersion => x.name.base # y.name.base
    BY <2>3 DEF TableInv, Sound
  <2>7. Len(d.entries) <= Capacity /\ d.max_bytes \in Budgets \cup {0}
    BY <2>1 DEF TableInv
  <2> HIDE DEF S, d
  <2>8. TableInv(d, t + 1)
    BY <2>1, <2>3, <2>4, <2>5, <2>6, <2>7, ChangeKeepsTable
  <2> QED
    BY <2>8 DEF d
<1>7. ASSUME InsertedTo(Entries, c, r.cs, z), Len(r.cs.entries) <= Capacity,
             \A e \in EntrySet(c) : ~ Named(e, p)
      PROVE  TableInv(r.cs, t + 1)
  <2> DEFINE d == r.cs
  <2> HIDE DEF z
  <2>1. PICK full : /\ EntrySet(full) = EntrySet(c) \cup {z} /\ full.max_bytes = c.max_bytes
                    /\ Evicted(Entries, full, d)
    BY <1>7 DEF InsertedTo
  <2>2. /\ Table(Entries, d) /\ EntrySet(d) \subseteq EntrySet(c) \cup {z}
        /\ d.max_bytes \in Budgets \cup {0} /\ Len(d.entries) <= Capacity
    BY <1>7, <2>1 DEF Evicted, TableInv
  <2> HIDE DEF d
  <2>3. \A e \in EntrySet(c) :
          ~ z.name.hasVersion /\ ~ e.name.hasVersion => e.name.base # z.name.base
    BY <1>2, <1>7 DEF Named
  <2>4. z.timestamp <= t /\ z.last_access_ns <= t /\ PathOf(z.name) \in Paths
    BY <1>1, <1>2
  <2>5. CASE z \in EntrySet(d)
    <3> DEFINE S == EntrySet(d) \cap EntrySet(c)
    <3>1. EntrySet(d) = S \cup {z} /\ S \in SUBSET EntrySet(c)
      BY <2>2, <2>5
    <3>2. \A e \in S : ~ z.name.hasVersion /\ ~ e.name.hasVersion => e.name.base # z.name.base
      BY <2>3
    <3> HIDE DEF S
    <3>3. TableInv(d, t + 1)
      BY <1>2, <2>2, <2>4, <3>1, <3>2, ChangeKeepsTable
    <3> QED
      BY <3>3 DEF d
  <2>6. CASE z \notin EntrySet(d)
    <3>1. EntrySet(d) \subseteq EntrySet(c)
      BY <2>2, <2>6
    <3>2. TableInv(d, t + 1)
      BY <2>2, <3>1, ShrinkKeepsTable
    <3> QED
      BY <3>2 DEF d
  <2> QED
    BY <2>5, <2>6
<1>8. TableInv(r.cs, t + 1)
  BY <1>4, <1>5, <1>6, <1>7 DEF StoreResult, Fresh
<1> QED
  BY <1>4, <1>8

\* A hit of psirp_cs_lookup stamps the entry and changes nothing else.
LEMMA LookupTouches ==
  ASSUME NEW c, NEW t \in 0..MaxTime, TableInv(c, t), NEW i \in 1..Len(c.entries)
  PROVE  LET d == Touch(c, i, t)
         IN  /\ TableInv(d, t + 1) /\ d.max_bytes = c.max_bytes
             /\ EntrySet(d) = (EntrySet(c) \ {c.entries[i]}) \cup {Touched(c.entries[i], t)}
<1> DEFINE e == c.entries[i]
           z == Touched(e, t)
           d == Touch(c, i, t)
<1>1. /\ Table(Entries, c) /\ t \in Nat /\ Older(EntrySet(c), t) /\ e \in EntrySet(c)
      /\ EntrySet(c) \subseteq Entries
  <2>1. Table(Entries, c) /\ t \in Nat /\ Older(EntrySet(c), t) /\ DOMAIN c.entries = 1..Len(c.entries)
    BY InvFacts
  <2>2. EntrySet(c) \subseteq Entries
    BY <2>1, EntrySetType DEF Table
  <2> QED
    BY <2>1, <2>2 DEF EntrySet
<1>2. z \in Entries
  <2> HIDE DEF e
  <2>1. PICK p \in Paths : TRUE
    <3>1. PathOf(e.name) \in Paths
      BY <1>1 DEF TableInv, Sound
    <3> QED
      BY <3>1
  <2>2. e.data_len \in Lengths /\ e.freshness_ms \in Lifetimes /\ e \in Entries
    BY <1>1 DEF Entries
  <2> QED
    BY <2>1, <2>2, RewrittenType
<1>3. /\ Table(Entries, d) /\ d.max_bytes = c.max_bytes /\ Len(d.entries) = Len(c.entries)
      /\ EntrySet(d) = (EntrySet(c) \ {e}) \cup {z}
  BY <1>1, <1>2, TouchTable
<1>4. z.last_access_ns = t /\ z.timestamp = e.timestamp /\ z.name = e.name
  BY DEF Touched
<1> HIDE DEF d, z, e
<1>5. PathOf(z.name) \in Paths /\ z.name.hash = HashText(Unversioned(z.name.base))
  BY <1>1, <1>4 DEF TableInv, Sound
<1> DEFINE S == EntrySet(c) \ {e}
<1>6. \A x \in S : ~ z.name.hasVersion /\ ~ x.name.hasVersion => x.name.base # z.name.base
  BY <1>1, <1>4 DEF TableInv, Sound
<1>7. z.timestamp <= t /\ z.last_access_ns <= t
  <2>1. t \in Nat /\ e.timestamp \in Nat /\ e.timestamp < t
    BY <1>1, ContentStoreAssumption DEF Entries, TableInv, Sound
  <2> QED
    BY <1>4, <2>1
<1>8. Len(d.entries) <= Capacity /\ d.max_bytes \in Budgets \cup {0}
  BY <1>3 DEF TableInv
<1>9. S \in SUBSET EntrySet(c) /\ EntrySet(d) = S \cup {z} /\ Table(Entries, d)
  BY <1>3
<1> HIDE DEF S
<1>10. TableInv(d, t + 1)
  BY <1>2, <1>5, <1>6, <1>7, <1>8, <1>9, ChangeKeepsTable
<1> QED
  BY <1>3, <1>10 DEF d, z, e

\* psirp_cs_remove and psirp_cs_gc keep the invariant.
LEMMA RemoveKeeps ==
  ASSUME NEW c, NEW t \in 0..MaxTime, TableInv(c, t), NEW p \in Paths
  PROVE  LET r == CsRemove(c, NameInit(p)) IN r.ok \in BOOLEAN /\ TableInv(r.cs, t + 1)
<1> DEFINE r == CsRemove(c, NameInit(p))
<1>1. Table(Entries, c) /\ Hashed(EntrySet(c)) /\ p.hasVersion \in BOOLEAN
  BY InvFacts, PathType
<1>0. RemoveResult(Entries, c, r, p)
  BY <1>1, RemoveTable
<1> HIDE DEF r
<1>2. /\ Table(Entries, r.cs) /\ EntrySet(r.cs) \subseteq EntrySet(c)
      /\ r.cs.max_bytes = c.max_bytes /\ r.ok \in BOOLEAN
  BY <1>0 DEF RemoveResult
<1>3. r.cs.max_bytes \in Budgets \cup {0}
  BY <1>2 DEF TableInv
<1>4. TableInv(r.cs, t + 1)
  BY <1>2, <1>3, ShrinkKeepsTable
<1> QED
  BY <1>2, <1>4 DEF r

LEMMA GcKeeps ==
  ASSUME NEW c, NEW t \in 0..MaxTime, TableInv(c, t) PROVE TableInv(CsGc(c, t), t + 1)
<1> DEFINE d == CsGc(c, t)
<1>1. Table(Entries, d) /\ EntrySet(d) \subseteq EntrySet(c) /\ d.max_bytes = c.max_bytes
  BY GcTable DEF TableInv
<1> HIDE DEF d
<1>2. d.max_bytes \in Budgets \cup {0}
  BY <1>1 DEF TableInv
<1>3. TableInv(d, t + 1)
  BY <1>1, <1>2, ShrinkKeepsTable
<1> QED
  BY <1>3 DEF d

\* psirp_cs_set_budget leaves the entries alone.
LEMMA BudgetSets ==
  ASSUME NEW c, NEW t \in 0..MaxTime, TableInv(c, t), NEW b \in Budgets
  PROVE  LET d == [c EXCEPT !.max_bytes = b]
         IN  TableInv(d, t + 1) /\ EntrySet(d) = EntrySet(c) /\ d.max_bytes = b
<1> DEFINE d == [c EXCEPT !.max_bytes = b]
<1>1. c \in StoresOf(Entries) /\ Table(Entries, c)
  BY DEF TableInv, Table
<1>2. d \in StoresOf(Entries) /\ d.entries = c.entries /\ d.bytes_used = c.bytes_used /\ d.max_bytes = b
  <2>1. b \in Nat
    BY ContentStoreAssumption
  <2> QED
    BY <1>1, <2>1 DEF StoresOf
<1> HIDE DEF d
<1>3. EntrySet(d) = EntrySet(c) /\ Table(Entries, d)
  BY <1>1, <1>2 DEF EntrySet, Table, Recency
<1>4. TableInv(d, t + 1)
  BY <1>2, <1>3, ShrinkKeepsTable
<1> QED
  BY <1>2, <1>3, <1>4 DEF d

----------------------------------------------------------------------------
(* The invariant of the state machine *)

\* The invariant in the form the steps are proved about.
IInv == TableInv(cs, now) /\ now \in 0..MaxTime /\ RetOK

\* The reply of a call is well-formed.
LEMMA ReplyType ==
  ASSUME NEW op \in Calls, NEW p \in Paths \cup {NoPath}, NEW ok \in BOOLEAN, NEW v \in Nat
  PROVE  Reply(op, p, ok, v) \in Replies
BY DEF Reply, Replies

LEMMA ReplyTypes ==
  ASSUME NEW p, p \in Paths \/ p = NoPath, NEW ok, ok \in BOOLEAN, NEW v \in Nat
  PROVE  /\ Reply("init", p, ok, v) \in Replies
         /\ Reply("set_budget", p, ok, v) \in Replies
         /\ Reply("store", p, ok, v) \in Replies
         /\ Reply("lookup", p, ok, v) \in Replies
         /\ Reply("remove", p, ok, v) \in Replies
         /\ Reply("gc", p, ok, v) \in Replies
<1>1. /\ "init" \in Calls /\ "set_budget" \in Calls /\ "store" \in Calls
      /\ "lookup" \in Calls /\ "remove" \in Calls /\ "gc" \in Calls
  BY DEF Calls
<1>2. p \in Paths \cup {NoPath}
  OBVIOUS
<1> QED
  BY <1>1, <1>2, ReplyType, Zenon

\* Nothing is held at the start.
LEMMA InitIInv == Init => IInv
<1> SUFFICES ASSUME Init PROVE IInv
  OBVIOUS
<1>1. cs = [entries |-> << >>, bytes_used |-> 0, max_bytes |-> 0] /\ now = 0
  BY DEF Init, EmptyStore
<1>2. cs \in StoresOf(Entries)
  BY <1>1 DEF StoresOf
<1>3. cs.entries = << >> /\ cs.bytes_used = 0 /\ DOMAIN cs.entries = {} /\ Len(cs.entries) = 0
  BY <1>1
<1>4. EntrySet(cs) = {} /\ Recency(cs)
  BY <1>3 DEF EntrySet, Recency
<1>5. EntryBytes({}) = 0
  BY TotalEmpty DEF EntryBytes
<1>6. Table(Entries, cs)
  BY <1>2, <1>3, <1>4, <1>5, EntriesAreRecords DEF Table
<1>7. Len(cs.entries) <= Capacity
  BY <1>3, CsOpsAssumption
<1>8. TableInv(cs, now)
  BY <1>1, <1>4, <1>6, <1>7 DEF TableInv, Sound
<1>9. RetOK
  <2>1. 0 \in Nat
    OBVIOUS
  <2> QED
    BY <2>1, ReplyTypes, Zenon DEF RetOK, Replies, Init
<1>10. now \in 0..MaxTime
  BY <1>1, ContentStoreAssumption
<1> QED
  BY <1>8, <1>9, <1>10 DEF IInv

\* The clock after a call.
LEMMA ClockType ==
  ASSUME now \in 0..MaxTime, Clock PROVE now' = now + 1 /\ now' \in 0..MaxTime
BY ContentStoreAssumption DEF Clock

\* Every call keeps the invariant.
LEMMA StepIInv == IInv /\ [Next]_vars => IInv'
<1> SUFFICES ASSUME IInv, [Next]_vars PROVE IInv'
  OBVIOUS
<1>1. TableInv(cs, now) /\ now \in 0..MaxTime /\ RetOK
  BY DEF IInv
<1>2. ASSUME Clock, TableInv(cs', now + 1), RetOK'
      PROVE  IInv'
  BY <1>1, <1>2, ClockType DEF IInv
<1>3. ASSUME NEW b \in Budgets, SetBudget(b) PROVE IInv'
  <2>1. TableInv(cs', now + 1)
    BY <1>1, <1>3, BudgetSets DEF SetBudget
  <2>2. RetOK'
    <3>1. 0 \in Nat
      OBVIOUS
    <3> QED
      BY <1>3, <3>1, ReplyTypes, Zenon DEF RetOK, Replies, SetBudget
  <2> QED
    BY <1>2, <1>3, <2>1, <2>2 DEF SetBudget
<1>4. ASSUME NEW p \in Paths, NEW len \in Lengths, NEW freshness \in Lifetimes,
             Store(p, len, freshness)
      PROVE  IInv'
  <2> DEFINE r == CsStore(cs, NameInit(p), HashText(p), len, freshness, now)
  <2>1. cs' = r.cs /\ ret' = Reply("store", p, r.ok, 0) /\ Clock
    BY <1>4 DEF Store
  <2>2. r.ok \in BOOLEAN /\ TableInv(r.cs, now + 1)
    <3> HIDE DEF r
    <3>1. /\ StoreResult(Entries, cs, r, p, HashText(p), len, freshness, now)
          /\ TableInv(r.cs, now + 1)
      BY <1>1, StoreKeeps DEF r
    <3> QED
      BY <3>1 DEF StoreResult
  <2> HIDE DEF r
  <2>3. RetOK'
    <3>1. 0 \in Nat
      OBVIOUS
    <3> QED
      BY <2>1, <2>2, <3>1, ReplyTypes, Zenon DEF RetOK, Replies
  <2> QED
    BY <1>2, <2>1, <2>2, <2>3
<1>5. ASSUME NEW p \in Paths, Lookup(p) PROVE IInv'
  <2> DEFINE i == LookupSlot(cs, NameInit(p), now)
  <2>1. cs' = Touch(cs, i, now) /\ Clock
        /\ ret' = Reply("lookup", p, i # 0, IF i = 0 THEN 0 ELSE cs.entries[i].name.version)
    BY <1>5 DEF Lookup
  <2>2. i = 0 \/ i \in 1..Len(cs.entries)
    <3>1. /\ Table(Entries, cs) /\ Hashed(EntrySet(cs)) /\ p.hasVersion \in BOOLEAN
          /\ \A e \in EntrySet(cs) : e.name.version \in Nat
      BY <1>1, InvFacts, PathType
    <3> QED
      BY <3>1, LookupFinds
  <2> HIDE DEF i
  <2>3. CASE i = 0
    <3>1. cs' = cs
      BY <2>1, <2>3 DEF Touch
    <3>2. TableInv(cs', now + 1)
      BY <1>1, <3>1, ShrinkKeepsTable DEF TableInv
    <3>3. RetOK'
      <4>1. (i # 0) \in BOOLEAN /\ 0 \in Nat
        OBVIOUS
      <4> QED
        BY <2>1, <2>3, <4>1, ReplyTypes, Zenon DEF RetOK, Replies
    <3> QED
      BY <1>2, <2>1, <3>2, <3>3
  <2>4. CASE i \in 1..Len(cs.entries)
    <3>1. TableInv(cs', now + 1)
      BY <1>1, <2>1, <2>4, LookupTouches
    <3>2. cs.entries[i].name.version \in Nat /\ (i # 0) \in BOOLEAN
      <4>1. cs.entries[i] \in EntrySet(cs)
        BY <1>1, <2>4, EntrySetType, EntriesAreRecords DEF TableInv, Table, EntrySet
      <4>2. PathOf(cs.entries[i].name) \in Paths
        BY <1>1, <4>1 DEF TableInv, Sound
      <4>3. PathOf(cs.entries[i].name).version \in Nat
        BY <4>2, PathType
      <4> QED
        BY <4>3 DEF PathOf, Path
    <3>3. RetOK'
      <4> DEFINE v == IF i = 0 THEN 0 ELSE cs.entries[i].name.version
      <4>1. v \in Nat
        BY <3>2
      <4>2. ret' = Reply("lookup", p, i # 0, v)
        BY <2>1
      <4> HIDE DEF v
      <4> QED
        BY <3>2, <4>1, <4>2, ReplyTypes, Zenon DEF RetOK, Replies
    <3> QED
      BY <1>2, <2>1, <3>1, <3>3
  <2> QED
    BY <2>2, <2>3, <2>4
<1>6. ASSUME NEW p \in Paths, Remove1(p) PROVE IInv'
  <2> DEFINE r == CsRemove(cs, NameInit(p))
  <2>1. cs' = r.cs /\ ret' = Reply("remove", p, r.ok, 0) /\ Clock
    BY <1>6 DEF Remove1
  <2>2. r.ok \in BOOLEAN /\ TableInv(r.cs, now + 1)
    BY <1>1, RemoveKeeps
  <2> HIDE DEF r
  <2>3. RetOK'
    <3>1. 0 \in Nat
      OBVIOUS
    <3> QED
      BY <2>1, <2>2, <3>1, ReplyTypes, Zenon DEF RetOK, Replies
  <2> QED
    BY <1>2, <2>1, <2>2, <2>3
<1>7. ASSUME Gc PROVE IInv'
  <2>1. TableInv(cs', now + 1)
    BY <1>1, <1>7, GcKeeps DEF Gc
  <2>2. RetOK'
    <3>1. 0 \in Nat /\ (GcCount(cs, now) > 0) \in BOOLEAN
      OBVIOUS
    <3> QED
      BY <1>7, <3>1, ReplyTypes, Zenon DEF RetOK, Replies, Gc
  <2> QED
    BY <1>2, <1>7, <2>1, <2>2 DEF Gc
<1>8. ASSUME UNCHANGED vars PROVE IInv'
  BY <1>1, <1>8 DEF vars, IInv, RetOK
<1> QED
  BY <1>3, <1>4, <1>5, <1>6, <1>7, <1>8 DEF Next

\* The inductive invariant holds of a store of any capacity after any sequence of
\* calls.
THEOREM StoreSafe == Spec => []StoreInv
<1>1. IInv => StoreInv
  BY InvAsTable DEF IInv
<1> QED
  BY <1>1, InitIInv, StepIInv, PTL DEF Spec

\* The table holds at most `capacity' entries, all of them callers' data.
THEOREM StoreTypesHold == Spec => []TypeOK
<1>1. StoreInv => TypeOK
  BY DEF StoreInv
<1> QED
  BY <1>1, StoreSafe, PTL

\* bytes_used is the sum of the lengths in the table, after any store, update,
\* removal, eviction and expiry.
THEOREM BytesStayAccounted == Spec => []BytesAccounted
<1>1. StoreInv => BytesAccounted
  BY DEF StoreInv
<1> QED
  BY <1>1, StoreSafe, PTL

\* Names without a version stay unique.
THEOREM PlainNamesStayUnique == Spec => []PlainNamesUnique
<1>1. StoreInv => PlainNamesUnique
  BY DEF StoreInv
<1> QED
  BY <1>1, StoreSafe, PTL

\* Hashes cover the components only, stamps lie in the past and are distinct.
THEOREM EntriesStaySound == Spec => []EntriesSound
<1>1. StoreInv => EntriesSound
  BY DEF StoreInv
<1> QED
  BY <1>1, StoreSafe, PTL

\* psirp_cs_gc leaves no entry that had expired, and the budget holds afterwards.
THEOREM GcLeaves == Spec => GcLeavesNothingExpired
<1> DEFINE Left == ret'.op = "gc" =>
                     /\ \A e \in EntrySet(cs') : ~ EntryExpired(e, now)
                     /\ cs'.max_bytes > 0 => cs'.bytes_used <= cs'.max_bytes
<1>1. ASSUME IInv, Next PROVE Left
  <2>1. TableInv(cs, now) /\ now \in 0..MaxTime
    BY <1>1 DEF IInv
  <2>2. CASE Gc
    <3> DEFINE m == DropExpired(cs, now)
    <3>1. /\ EntrySet(m) = {e \in EntrySet(cs) : ~ EntryExpired(e, now)}
          /\ Evicted(Entries, m, cs')
          /\ cs'.max_bytes > 0 => cs'.bytes_used <= cs'.max_bytes
      BY <2>1, <2>2, GcTable DEF Gc, TableInv
    <3> HIDE DEF m
    <3>2. EntrySet(cs') \subseteq EntrySet(m)
      BY <3>1 DEF Evicted
    <3> QED
      BY <3>1, <3>2
  <2>3. CASE ~ Gc
    <3>1. ret'.op # "gc"
      BY <1>1, <2>3 DEF Next, SetBudget, Store, Lookup, Remove1, Reply
    <3> QED
      BY <3>1
  <2> QED
    BY <2>2, <2>3
<1>2. IInv /\ [Next]_vars => [Left]_vars
  BY <1>1
<1>3. Spec => [][Left]_vars
  <2> HIDE DEF Left
  <2> QED
    BY <1>2, InitIInv, StepIInv, PTL DEF Spec
<1> QED
  BY <1>3 DEF GcLeavesNothingExpired

----------------------------------------------------------------------------
(* The refinement of the abstract cache *)

Items(S) == {AsItem(e) : e \in S}

\* No two entries of a table have the same stamp, so no two are the same item.
LEMMA ItemsDistinct ==
  ASSUME NEW c, Table(Entries, c), NEW e \in EntrySet(c), NEW f \in EntrySet(c)
  PROVE  /\ e.last_access_ns = f.last_access_ns => e = f
         /\ AsItem(e) = AsItem(f) => e = f
<1>1. PICK i \in DOMAIN c.entries : e = c.entries[i]
  BY DEF EntrySet
<1>2. PICK j \in DOMAIN c.entries : f = c.entries[j]
  BY DEF EntrySet
<1>3. e.last_access_ns = f.last_access_ns => e = f
  BY <1>1, <1>2 DEF Table, Recency
<1>4. AsItem(e).last_access_ns = e.last_access_ns /\ AsItem(f).last_access_ns = f.last_access_ns
  BY DEF AsItem
<1> QED
  BY <1>3, <1>4

\* The items of some entries of a table: how many they are, and one entry less or
\* more.
LEMMA ItemsFacts ==
  ASSUME NEW c, Table(Entries, c), NEW S \in SUBSET EntrySet(c)
  PROVE  /\ IsFiniteSet(S) /\ Cardinality(Items(S)) = Cardinality(S)
         /\ \A e \in S : Items(S \ {e}) = Items(S) \ {AsItem(e)}
         /\ \A z : Items(S \cup {z}) = Items(S) \cup {AsItem(z)}
         /\ \A e \in EntrySet(c) : AsItem(e) \in Items(S) <=> e \in S
<1>1. IsFiniteSet(EntrySet(c))
  BY EntrySetType, EntriesAreRecords DEF Table
<1>2. IsFiniteSet(S)
  BY <1>1, FS_Subset
<1>3. \A e, f \in S : AsItem(e) = AsItem(f) => e = f
  BY ItemsDistinct
<1>4. Cardinality(Items(S)) = Cardinality(S)
  <2> DEFINE h == [e \in S |-> AsItem(e)]
  <2>1. {h[e] : e \in S} = Items(S)
    BY DEF Items
  <2>2. \A e, f \in S : h[e] = h[f] => e = f
    BY <1>3
  <2> HIDE DEF h
  <2> QED
    BY <1>2, <2>1, <2>2, ImageFinite
<1>5. \A e \in S : Items(S \ {e}) = Items(S) \ {AsItem(e)}
  BY <1>3 DEF Items
<1>6. \A z : Items(S \cup {z}) = Items(S) \cup {AsItem(z)}
  BY DEF Items
<1>7. \A e \in EntrySet(c) : AsItem(e) \in Items(S) <=> e \in S
  BY ItemsDistinct DEF Items
<1> QED
  BY <1>2, <1>4, <1>5, <1>6, <1>7

\* The bytes of the items are the bytes of the entries.
LEMMA ItemsBytes ==
  ASSUME NEW c, Table(Entries, c), NEW S \in SUBSET EntrySet(c)
  PROVE  Cache!TotalBytes(Items(S)) = EntryBytes(S)
<1> DEFINE f == [e \in S |-> e.data_len]
           h == [e \in S |-> AsItem(e)]
           w == [x \in Items(S) |-> x.data_len]
<1>1. IsFiniteSet(S) /\ \A x, y \in S : AsItem(x) = AsItem(y) => x = y
  BY ItemsFacts, ItemsDistinct
<1>2. {h[e] : e \in S} = Items(S) /\ \A x, y \in S : h[x] = h[y] => x = y
  BY <1>1 DEF Items
<1>3. S \subseteq Entries
  BY EntrySetType, EntriesAreRecords DEF Table
<1>4. \A e \in S : f[e] \in Nat /\ w[h[e]] = f[e]
  <2> SUFFICES ASSUME NEW e \in S PROVE f[e] \in Nat /\ w[h[e]] = f[e]
    OBVIOUS
  <2>1. f[e] \in Nat
    BY <1>3 DEF Table, EntryRecords
  <2>2. h[e] = AsItem(e) /\ AsItem(e) \in Items(S) /\ AsItem(e).data_len = e.data_len
    BY DEF Items, AsItem
  <2> QED
    BY <2>1, <2>2
<1>5. Total(f, S) = Total(w, Items(S))
  <2> HIDE DEF f, h, w
  <2> QED
    BY <1>1, <1>2, <1>4, TotalImage
<1>6. Total(w, Items(S)) = Cache!TotalBytes(Items(S))
  <2> QED
    BY DEF Total, SumsOver, AnyOf, Cache!TotalBytes, Cache!MapThenSumSet, Cache!MapThenFoldSet
<1> QED
  BY <1>5, <1>6 DEF EntryBytes

\* What the eviction loop leaves is what the budget leaves.
LEMMA EvictedTrims ==
  ASSUME NEW m, Table(Entries, m), m.max_bytes = cs.max_bytes, NEW d, Evicted(Entries, m, d),
         d.max_bytes > 0 => d.bytes_used <= d.max_bytes
  PROVE  Cache!Trimmed(Items(EntrySet(m)), Items(EntrySet(d)))
<1> DEFINE M == EntrySet(m)
           D == EntrySet(d)
<1>1. Table(Entries, d) /\ D \subseteq M /\ d.max_bytes = cs.max_bytes
      /\ (cs.max_bytes = 0 => d = m)
  BY DEF Evicted
<1>2. Items(D) \subseteq Items(M)
  BY <1>1 DEF Items
<1>3. cs.max_bytes = 0 => Items(D) = Items(M)
  BY <1>1
<1>4. cs.max_bytes > 0 => Cache!TotalBytes(Items(D)) <= cs.max_bytes
  <2>1. Cache!TotalBytes(Items(D)) = EntryBytes(D)
    BY <1>1, ItemsBytes
  <2>2. d.bytes_used = EntryBytes(D)
    BY <1>1 DEF Table
  <2> QED
    BY <1>1, <2>1, <2>2
<1>5. ASSUME NEW x \in Items(M) \ Items(D)
      PROVE  /\ \A y \in Items(D) : x.last_access_ns < y.last_access_ns
             /\ Cache!TotalBytes({y \in Items(M) : y.last_access_ns >= x.last_access_ns})
                  > cs.max_bytes
  <2>1. PICK e \in M : x = AsItem(e)
    BY DEF Items
  <2>2. e \notin D
    BY <2>1 DEF Items
  <2> DEFINE L == {f \in M : f.last_access_ns >= e.last_access_ns}
             LI == {y \in Items(M) : y.last_access_ns >= x.last_access_ns}
  <2>3. /\ \A f \in D : e.last_access_ns < f.last_access_ns
        /\ EntryBytes(L) > m.max_bytes
    BY <2>1, <2>2 DEF Evicted
  <2>4. \A f : AsItem(f).last_access_ns = f.last_access_ns
    BY DEF AsItem
  <2>5. LI = Items(L)
    BY <2>1, <2>4 DEF Items
  <2>6. Cache!TotalBytes(Items(L)) = EntryBytes(L)
    <3>1. L \in SUBSET M
      OBVIOUS
    <3> HIDE DEF L
    <3> QED
      BY <3>1, ItemsBytes
  <2>7. \A y \in Items(D) : x.last_access_ns < y.last_access_ns
    BY <2>1, <2>3, <2>4 DEF Items
  <2> HIDE DEF L, LI
  <2>8. Cache!TotalBytes(LI) > cs.max_bytes
    BY <2>3, <2>5, <2>6
  <2> QED
    BY <2>7, <2>8 DEF LI
<1> HIDE DEF M, D
<1>6. Cache!Trimmed(Items(M), Items(D))
  BY <1>2, <1>3, <1>4, <1>5 DEF Cache!Trimmed
<1> QED
  BY <1>6 DEF M, D

\* A number below the modulus is its own remainder.
LEMMA SmallRemainder ==
  ASSUME NEW a \in Nat, NEW w \in Nat, a < w
  PROVE  a % w = a
OBVIOUS

\* The unsigned age of an entry is its age.
LEMMA ExpiredItem ==
  ASSUME TableInv(cs, now), now \in 0..MaxTime, NEW e \in EntrySet(cs)
  PROVE  Cache!Expired(AsItem(e)) <=> EntryExpired(e, now)
<1>1. e \in Entries /\ e.timestamp < now
  BY EntrySetType, EntriesAreRecords DEF TableInv, Table, Sound
<1>2. /\ e.timestamp \in Nat /\ now \in Nat /\ now <= MaxTime /\ MaxTime \in Nat
      /\ MaxTime < Wrap /\ Wrap \in Nat
  BY <1>1, ContentStoreAssumption, CsOpsAssumption DEF Entries
<1> DEFINE a == now - e.timestamp
<1>3. a \in Nat /\ a < Wrap
  BY <1>1, <1>2
<1>4. a % Wrap = a
  <2> HIDE DEF a
  <2> QED
    BY <1>2, <1>3, SmallRemainder
<1>5. AsItem(e).freshness_ms = e.freshness_ms /\ AsItem(e).timestamp = e.timestamp
  BY DEF AsItem
<1>6. EntryExpired(e, now) <=> e.freshness_ms # 0 /\ a \div NsPerMs > e.freshness_ms
  BY <1>4 DEF EntryExpired
<1>7. Cache!Expired(AsItem(e)) <=> e.freshness_ms # 0 /\ a \div NsPerMs > e.freshness_ms
  BY <1>5 DEF Cache!Expired
<1> QED
  BY <1>6, <1>7

\* The items a name may replace or be answered with.
LEMMA ReplaceableItems ==
  ASSUME NEW p \in Paths
  PROVE  Cache!Replaceable(p) = Items({e \in EntrySet(cs) : Named(e, p)})
<1>1. \A e : AsItem(e).path.base = e.name.base
  BY DEF AsItem, PathOf, Path
<1> QED
  BY <1>1 DEF Cache!Replaceable, Items, Named

\* A new entry, an update and a lookup, seen as items.
LEMMA ChangedItems ==
  ASSUME NEW e, NEW p \in Paths, NEW len, NEW freshness, NEW t
  PROVE  /\ AsItem(Rewritten(e, HashText(p), len, freshness, t)) =
              [path |-> AsItem(e).path, data |-> p, data_len |-> len, timestamp |-> t,
               freshness_ms |-> freshness, last_access_ns |-> t]
         /\ AsItem(Touched(e, t)) = [AsItem(e) EXCEPT !.last_access_ns = t]
<1>1. DataPath(HashText(p)) = p
  BY HashTells
<1>2. AsItem(Rewritten(e, HashText(p), len, freshness, t)) =
              [path |-> AsItem(e).path, data |-> p, data_len |-> len, timestamp |-> t,
               freshness_ms |-> freshness, last_access_ns |-> t]
  BY <1>1 DEF AsItem, Rewritten
<1> DEFINE q == PathOf(e.name)
           w == DataPath(e.data)
           x == [path |-> q, data |-> w, data_len |-> e.data_len,
                 timestamp |-> e.timestamp, freshness_ms |-> e.freshness_ms,
                 last_access_ns |-> e.last_access_ns]
           y == [path |-> q, data |-> w, data_len |-> e.data_len,
                 timestamp |-> e.timestamp, freshness_ms |-> e.freshness_ms,
                 last_access_ns |-> t]
<1>3. AsItem(e) = x /\ AsItem(Touched(e, t)) = y
  BY DEF AsItem, Touched
<1>4. [x EXCEPT !.last_access_ns = t] = y
  <2> HIDE DEF q, w
  <2> QED
    OBVIOUS
<1> HIDE DEF x, y
<1>5. AsItem(Touched(e, t)) = [AsItem(e) EXCEPT !.last_access_ns = t]
  BY <1>3, <1>4
<1> QED
  BY <1>2, <1>5

LEMMA FreshItem ==
  ASSUME NEW p \in Paths, NEW len \in Lengths, NEW freshness \in Lifetimes, NEW t \in 0..MaxTime
  PROVE  AsItem(Fresh(p, len, freshness, t)) =
           [path |-> p, data |-> p, data_len |-> len, timestamp |-> t,
            freshness_ms |-> freshness, last_access_ns |-> t]
<1> DEFINE z == Fresh(p, len, freshness, t)
<1>1. /\ PathOf(z.name) = p /\ z.data = HashText(p) /\ z.data_len = len /\ z.timestamp = t
      /\ z.freshness_ms = freshness /\ z.last_access_ns = t
  BY FreshType
<1>2. DataPath(HashText(p)) = p
  BY HashTells
<1> HIDE DEF z
<1>3. AsItem(z) = [path |-> p, data |-> p, data_len |-> len, timestamp |-> t,
                   freshness_ms |-> freshness, last_access_ns |-> t]
  BY <1>1, <1>2 DEF AsItem
<1> QED
  BY <1>3 DEF z

\* The start of a store is the start of a cache.
LEMMA InitRefines == Init => Cache!Init
<1> SUFFICES ASSUME Init PROVE Cache!Init
  OBVIOUS
<1>1. EntrySet(cs) = {} /\ cs.max_bytes = 0
  BY DEF Init, EmptyStore, EntrySet
<1>2. {AsItem(e) : e \in EntrySet(cs)} = {}
  BY <1>1
<1> QED
  BY <1>1, <1>2 DEF Init, Cache!Init, Reply, NoPath, Path, Cache!Reply, Cache!NoPath

\* Room in the table is room in the cache.
LEMMA RoomItems ==
  ASSUME TableInv(cs, now)
  PROVE  Cache!Room <=> Len(cs.entries) < Capacity
<1>1. Table(Entries, cs) /\ Cardinality(EntrySet(cs)) = Len(cs.entries)
  BY EntrySetType, EntriesAreRecords DEF TableInv, Table
<1>2. Cardinality(Items(EntrySet(cs))) = Len(cs.entries)
  BY <1>1, ItemsFacts
<1>3. \A S : Cache!Cardinality(S) = Cardinality(S)
  BY DEF Cache!Cardinality, Cardinality, Cache!IsFiniteSet, IsFiniteSet
<1> QED
  BY <1>2, <1>3 DEF Cache!Room, Items

\* psirp_cs_store refuses, replaces or inserts as the cache may.
LEMMA StoreRefines ==
  ASSUME TableInv(cs, now), now \in 0..MaxTime,
         NEW p \in Paths, NEW len \in Lengths, NEW freshness \in Lifetimes,
         Store(p, len, freshness)
  PROVE  \/ Cache!StoreReject(p, len)
         \/ Cache!StoreReplace(p, len, freshness) \/ Cache!StoreInsert(p, len, freshness)
<1> DEFINE r == CsStore(cs, NameInit(p), HashText(p), len, freshness, now)
           E == EntrySet(cs)
           named == \E e \in E : Named(e, p)
<1>1. cs' = r.cs /\ ret' = Reply("store", p, r.ok, 0) /\ Clock
  BY DEF Store
<1>2. Cache!Clock
  BY <1>1 DEF Clock, Cache!Clock
<1>3. Table(Entries, cs)
  BY DEF TableInv
<1>4. /\ Cache!Replaceable(p) = Items({e \in E : Named(e, p)})
      /\ Cache!Replaceable(p) = {} <=> ~ named
  BY ReplaceableItems DEF Items
<1>5. Cache!Room <=> Len(cs.entries) < Capacity
  BY RoomItems
<1>6. /\ len > MaxData \/ len <= MaxData
      /\ Len(cs.entries) >= Capacity <=> ~ (Len(cs.entries) < Capacity)
      /\ len > MaxData <=> ~ (len <= MaxData)
  <2>1. len \in Nat /\ MaxData \in Nat /\ Capacity \in Nat /\ Len(cs.entries) \in Nat
    BY <1>3, EntrySetType, EntriesAreRecords, ContentStoreAssumption, CsOpsAssumption DEF Table
  <2> QED
    BY <2>1
<1>10. StoreResult(Entries, cs, r, p, HashText(p), len, freshness, now)
  <2> HIDE DEF r
  <2> QED
    BY StoreKeeps DEF r
<1>7. CASE \/ len = 0 \/ len > MaxData
           \/ ~ named /\ Len(cs.entries) >= Capacity
  <2>1. r.ok = FALSE /\ r.cs = cs
    <3> HIDE DEF r
    <3> QED
      BY <1>6, <1>7, <1>10 DEF StoreResult
  <2>2. ret' = Reply("store", p, FALSE, 0) /\ cs' = cs
    <3> HIDE DEF r
    <3> QED
      BY <1>1, <2>1
  <2>3. ~ Cache!Sizable(len) \/ (Cache!Replaceable(p) = {} /\ ~ Cache!Room)
    BY <1>4, <1>5, <1>6, <1>7 DEF Cache!Sizable
  <2>4. UNCHANGED {AsItem(e) : e \in EntrySet(cs)} /\ UNCHANGED cs.max_bytes
    BY <2>2
  <2> HIDE DEF r
  <2>5. Cache!StoreReject(p, len)
    BY <1>2, <2>2, <2>3, <2>4 DEF Cache!StoreReject, Reply, Cache!Reply
  <2> QED
    BY <2>5
<1>8. CASE len # 0 /\ len <= MaxData /\ named
  <2>1. r.ok = TRUE /\ UpdatedTo(Entries, cs, r.cs, p, HashText(p), len, freshness, now)
    <3> HIDE DEF r
    <3> QED
      BY <1>8, <1>10 DEF StoreResult
  <2> HIDE DEF r
  <2>2. ret' = Reply("store", p, TRUE, 0) /\ cs'.max_bytes = cs.max_bytes
    BY <1>1, <2>1 DEF UpdatedTo
  <2>3. PICK e \in E : /\ Named(e, p)
                       /\ EntrySet(cs') =
                            (E \ {e}) \cup {Rewritten(e, HashText(p), len, freshness, now)}
    BY <1>1, <2>1 DEF UpdatedTo
  <2> DEFINE z == Rewritten(e, HashText(p), len, freshness, now)
             item == [path |-> AsItem(e).path, data |-> p, data_len |-> len, timestamp |-> now,
                      freshness_ms |-> freshness, last_access_ns |-> now]
  <2>4. AsItem(z) = item
    BY ChangedItems
  <2>5. Items(EntrySet(cs')) = (Items(E) \ {AsItem(e)}) \cup {item}
    <3> DEFINE S == E \ {e}
    <3>1. EntrySet(cs') = S \cup {z} /\ S \in SUBSET EntrySet(cs) /\ E \in SUBSET EntrySet(cs)
      BY <2>3
    <3>2. Items(S) = Items(E) \ {AsItem(e)}
      BY <1>3, <3>1, ItemsFacts
    <3> HIDE DEF S, z, item
    <3>3. Items(S \cup {z}) = Items(S) \cup {AsItem(z)}
      BY <1>3, <3>1, ItemsFacts
    <3> QED
      BY <2>4, <3>1, <3>2, <3>3
  <2>6. AsItem(e) \in Cache!Replaceable(p)
    BY <1>4, <2>3 DEF Items
  <2>7. Cache!Sizable(len)
    BY <1>8 DEF Cache!Sizable
  <2>8. \E x \in Cache!Replaceable(p) :
          {AsItem(f) : f \in EntrySet(cs')} =
            ({AsItem(f) : f \in EntrySet(cs)} \ {x}) \cup
              {[path |-> x.path, data |-> p, data_len |-> len, timestamp |-> now,
                freshness_ms |-> freshness, last_access_ns |-> now]}
    BY <2>5, <2>6 DEF Items
  <2>9. Cache!StoreReplace(p, len, freshness)
    BY <1>2, <2>2, <2>7, <2>8 DEF Cache!StoreReplace, Reply, Cache!Reply
  <2> QED
    BY <2>9
<1>9. CASE len # 0 /\ len <= MaxData /\ ~ named /\ Len(cs.entries) < Capacity
  <2> DEFINE z == Fresh(p, len, freshness, now)
             item == [path |-> p, data |-> p, data_len |-> len, timestamp |-> now,
                      freshness_ms |-> freshness, last_access_ns |-> now]
  <2>1. r.ok = TRUE /\ InsertedTo(Entries, cs, r.cs, z)
    <3> HIDE DEF r
    <3> QED
      BY <1>6, <1>9, <1>10 DEF StoreResult, Fresh
  <2>2. AsItem(z) = item
    BY FreshItem
  <2> HIDE DEF r, z
  <2>12. ret' = Reply("store", p, TRUE, 0) /\ InsertedTo(Entries, cs, cs', z)
    BY <1>1, <2>1
  <2>3. PICK full : /\ Table(Entries, full) /\ EntrySet(full) = E \cup {z}
                    /\ full.max_bytes = cs.max_bytes
                    /\ Evicted(Entries, full, cs')
                    /\ cs'.max_bytes > 0 => cs'.bytes_used <= cs'.max_bytes
    BY <2>12 DEF InsertedTo
  <2>4. cs'.max_bytes = cs.max_bytes
    BY <2>3 DEF Evicted
  <2>5. Cache!Trimmed(Items(EntrySet(full)), Items(EntrySet(cs')))
    BY <2>3, EvictedTrims
  <2>6. Items(EntrySet(full)) = Items(E) \cup {item}
    BY <2>2, <2>3 DEF Items
  <2>7. Items(EntrySet(cs')) \subseteq Items(EntrySet(full))
    BY <2>3 DEF Evicted, Items
  <2> HIDE DEF item
  <2>8. \E K \in SUBSET ({AsItem(f) : f \in EntrySet(cs)} \cup {item}) :
          /\ Cache!Trimmed({AsItem(f) : f \in EntrySet(cs)} \cup {item}, K)
          /\ {AsItem(f) : f \in EntrySet(cs')} = K
    <3> DEFINE K == Items(EntrySet(cs'))
               M == Items(E) \cup {item}
    <3>1. K \in SUBSET M /\ Cache!Trimmed(M, K)
      BY <2>5, <2>6, <2>7
    <3>2. K = {AsItem(f) : f \in EntrySet(cs')}
          /\ M = {AsItem(f) : f \in EntrySet(cs)} \cup {item}
      BY DEF Items
    <3> HIDE DEF K, M
    <3> QED
      BY <3>1, <3>2
  <2>9. Cache!Sizable(len) /\ Cache!Replaceable(p) = {} /\ Cache!Room
    BY <1>4, <1>5, <1>9 DEF Cache!Sizable
  <2>10. Cache!StoreInsert(p, len, freshness)
    BY <1>2, <2>12, <2>4, <2>8, <2>9 DEF Cache!StoreInsert, Reply, Cache!Reply, item
  <2> QED
    BY <2>10
<1> HIDE DEF r, named
<1> QED
  BY <1>6, <1>7, <1>8, <1>9

\* psirp_cs_lookup answers with one of the newest live items and marks it used.
LEMMA LookupRefines ==
  ASSUME TableInv(cs, now), now \in 0..MaxTime, NEW p \in Paths, Lookup(p)
  PROVE  Cache!LookupHit(p) \/ Cache!LookupMiss(p)
<1> DEFINE i == LookupSlot(cs, NameInit(p), now)
           live == {e \in EntrySet(cs) : Named(e, p) /\ ~ EntryExpired(e, now)}
           held == {AsItem(e) : e \in EntrySet(cs)}
           liveItems == {x \in held : ~ p.hasVersion /\ x.path.base = p.base /\ ~ Cache!Expired(x)}
<1>1. /\ cs' = Touch(cs, i, now) /\ Clock
      /\ ret' = Reply("lookup", p, i # 0, IF i = 0 THEN 0 ELSE cs.entries[i].name.version)
  BY DEF Lookup
<1>2. Cache!Clock
  BY <1>1 DEF Clock, Cache!Clock
<1>3. /\ live = {} => i = 0
      /\ live # {} =>
           /\ i \in 1..Len(cs.entries) /\ cs.entries[i] \in live
           /\ \A y \in live : y.name.version <= cs.entries[i].name.version
  <2>1. /\ Table(Entries, cs) /\ Hashed(EntrySet(cs)) /\ p.hasVersion \in BOOLEAN
        /\ \A e \in EntrySet(cs) : e.name.version \in Nat
    BY InvFacts, PathType
  <2> QED
    BY <2>1, LookupFinds
<1>4. Table(Entries, cs)
  BY DEF TableInv
<1>5. \A e : /\ AsItem(e).path.base = e.name.base /\ AsItem(e).path.version = e.name.version
  BY DEF AsItem, PathOf, Path
<1>6. liveItems = Items(live)
  <2>1. \A e \in EntrySet(cs) : Cache!Expired(AsItem(e)) <=> EntryExpired(e, now)
    BY ExpiredItem
  <2>2. ASSUME NEW e \in EntrySet(cs)
        PROVE  AsItem(e) \in liveItems <=> e \in live
    BY <1>5, <2>1, <2>2 DEF Named
  <2>3. liveItems \subseteq held /\ live \subseteq EntrySet(cs)
    OBVIOUS
  <2> HIDE DEF liveItems, live
  <2>4. liveItems \subseteq Items(live)
    BY <2>2, <2>3 DEF Items
  <2>5. Items(live) \subseteq liveItems
    BY <2>2, <2>3 DEF Items
  <2> QED
    BY <2>4, <2>5
<1>7. Cache!Answers(p) = {x \in liveItems : \A y \in liveItems : y.path.version <= x.path.version}
  BY DEF Cache!Answers
<1> HIDE DEF i, liveItems
<1>8. CASE live = {}
  <2>1. i = 0
    BY <1>3, <1>8
  <2>2. cs' = cs /\ ret' = Reply("lookup", p, FALSE, 0)
    <3>1. cs' = cs
      BY <1>1, <2>1 DEF Touch
    <3>2. ret' = Reply("lookup", p, FALSE, 0)
      <4> DEFINE ok == i # 0
                 v == IF i = 0 THEN 0 ELSE cs.entries[i].name.version
      <4>1. ok = FALSE /\ v = 0 /\ ret' = Reply("lookup", p, ok, v)
        BY <1>1, <2>1
      <4> HIDE DEF ok, v
      <4> QED
        BY <4>1, Zenon
    <3> QED
      BY <3>1, <3>2
  <2>3. Cache!Answers(p) = {}
    BY <1>6, <1>7, <1>8 DEF Items
  <2>4. UNCHANGED held /\ UNCHANGED cs.max_bytes
    BY <2>2
  <2>5. Cache!LookupMiss(p)
    BY <1>2, <2>2, <2>3, <2>4 DEF Cache!LookupMiss, Reply, Cache!Reply
  <2> QED
    BY <2>5
<1>9. CASE live # {}
  <2> DEFINE e == cs.entries[i]
             x == AsItem(e)
             d == Touch(cs, i, now)
  <2>1. i \in 1..Len(cs.entries) /\ e \in live /\ \A y \in live : y.name.version <= e.name.version
    BY <1>3, <1>9
  <2>2. i # 0 /\ e \in EntrySet(cs)
    BY <2>1
  <2>3. EntrySet(cs') = (EntrySet(cs) \ {e}) \cup {Touched(e, now)} /\ cs'.max_bytes = cs.max_bytes
    <3>1. EntrySet(d) = (EntrySet(cs) \ {e}) \cup {Touched(e, now)} /\ d.max_bytes = cs.max_bytes
      BY <2>1, LookupTouches
    <3> HIDE DEF d
    <3> QED
      BY <1>1, <3>1 DEF d
  <2>4. ret' = Reply("lookup", p, TRUE, x.path.version)
    <3> DEFINE ok == i # 0
               v == IF i = 0 THEN 0 ELSE e.name.version
    <3>1. ok = TRUE /\ v = x.path.version /\ ret' = Reply("lookup", p, ok, v)
      BY <1>1, <1>5, <2>2
    <3> HIDE DEF ok, v
    <3> QED
      BY <3>1, Zenon
  <2> HIDE DEF e
  <2>5. x \in Cache!Answers(p)
    <3>1. x \in liveItems
      BY <1>6, <2>1 DEF Items
    <3>2. \A y \in liveItems : y.path.version <= x.path.version
      BY <1>5, <1>6, <2>1 DEF Items
    <3> QED
      BY <1>7, <3>1, <3>2
  <2>6. Items(EntrySet(cs')) = (Items(EntrySet(cs)) \ {x}) \cup {[x EXCEPT !.last_access_ns = now]}
    <3> DEFINE S == EntrySet(cs) \ {e}
               E == EntrySet(cs)
               z == Touched(e, now)
    <3>1. EntrySet(cs') = S \cup {z} /\ S \in SUBSET EntrySet(cs) /\ E \in SUBSET EntrySet(cs)
      BY <2>3
    <3>2. Items(S) = Items(E) \ {x}
      BY <1>4, <2>2, <3>1, ItemsFacts
    <3>3. AsItem(z) = [x EXCEPT !.last_access_ns = now]
      BY ChangedItems
    <3> HIDE DEF S, z, x
    <3>4. Items(S \cup {z}) = Items(S) \cup {AsItem(z)}
      BY <1>4, <3>1, ItemsFacts
    <3> QED
      BY <3>1, <3>2, <3>3, <3>4
  <2>7. \E y \in Cache!Answers(p) :
          /\ {AsItem(f) : f \in EntrySet(cs')} =
               ({AsItem(f) : f \in EntrySet(cs)} \ {y}) \cup {[y EXCEPT !.last_access_ns = now]}
          /\ ret' = Reply("lookup", p, TRUE, y.path.version)
    <3> HIDE DEF x
    <3> QED
      BY <2>4, <2>5, <2>6 DEF Items
  <2>8. Cache!LookupHit(p)
    BY <1>2, <2>3, <2>7 DEF Cache!LookupHit, Reply, Cache!Reply
  <2> QED
    BY <2>8
<1> QED
  BY <1>8, <1>9

\* psirp_cs_remove takes one item of the name out of the cache.
LEMMA RemoveRefines ==
  ASSUME TableInv(cs, now), now \in 0..MaxTime, NEW p \in Paths, Remove1(p)
  PROVE  Cache!RemoveHit(p) \/ Cache!RemoveMiss(p)
<1> DEFINE r == CsRemove(cs, NameInit(p))
           E == EntrySet(cs)
<1>1. cs' = r.cs /\ ret' = Reply("remove", p, r.ok, 0) /\ Clock
  BY DEF Remove1
<1>2. Cache!Clock
  BY <1>1 DEF Clock, Cache!Clock
<1>3. Table(Entries, cs) /\ E \in SUBSET EntrySet(cs)
  BY DEF TableInv
<1>4. Cache!Replaceable(p) = Items({e \in E : Named(e, p)})
  BY ReplaceableItems
<1>5. RemoveResult(Entries, cs, r, p)
  <2>1. Hashed(EntrySet(cs)) /\ p.hasVersion \in BOOLEAN
    BY InvFacts, PathType
  <2> QED
    BY <1>3, <2>1, RemoveTable
<1> HIDE DEF r
<1>6. CASE (\A e \in EntrySet(cs) : ~ Named(e, p)) /\ r.ok = FALSE /\ r.cs = cs
  <2>1. cs' = cs /\ ret' = Reply("remove", p, FALSE, 0)
    BY <1>1, <1>6
  <2>2. Cache!Replaceable(p) = {}
    BY <1>4, <1>6 DEF Items
  <2>3. UNCHANGED {AsItem(e) : e \in EntrySet(cs)} /\ UNCHANGED cs.max_bytes
    BY <2>1
  <2>4. Cache!RemoveMiss(p)
    BY <1>2, <2>1, <2>2, <2>3 DEF Cache!RemoveMiss, Reply, Cache!Reply
  <2> QED
    BY <2>4
<1>7. CASE /\ r.ok = TRUE
           /\ \E e \in EntrySet(cs) : Named(e, p) /\ EntrySet(r.cs) = EntrySet(cs) \ {e}
  <2>1. ret' = Reply("remove", p, TRUE, 0) /\ cs'.max_bytes = cs.max_bytes
    BY <1>1, <1>5, <1>7 DEF RemoveResult
  <2>2. PICK e \in EntrySet(cs) : Named(e, p) /\ EntrySet(cs') = EntrySet(cs) \ {e}
    BY <1>1, <1>7
  <2>3. AsItem(e) \in Cache!Replaceable(p)
    BY <1>4, <2>2 DEF Items
  <2>4. Items(E \ {e}) = Items(E) \ {AsItem(e)}
    <3> HIDE DEF E
    <3> QED
      BY <1>3, <2>2, ItemsFacts DEF E
  <2>5. \E x \in Cache!Replaceable(p) :
          {AsItem(f) : f \in EntrySet(cs')} = {AsItem(f) : f \in EntrySet(cs)} \ {x}
    BY <2>2, <2>3, <2>4 DEF Items
  <2>6. Cache!RemoveHit(p)
    BY <1>2, <2>1, <2>5 DEF Cache!RemoveHit, Reply, Cache!Reply
  <2> QED
    BY <2>6
<1> QED
  BY <1>5, <1>6, <1>7 DEF RemoveResult

\* psirp_cs_gc trims what has not expired, and counts what goes.
LEMMA GcRefines ==
  ASSUME TableInv(cs, now), now \in 0..MaxTime, Gc
  PROVE  Cache!Gc
<1> DEFINE m == DropExpired(cs, now)
           held == {AsItem(e) : e \in EntrySet(cs)}
           live == {x \in held : ~ Cache!Expired(x)}
           d == CsGc(cs, now)
           gone == GcCount(cs, now) > 0
<1>1. cs' = d /\ ret' = Reply("gc", NoPath, gone, 0) /\ Clock
  BY DEF Gc
<1>2. Cache!Clock
  BY <1>1 DEF Clock, Cache!Clock
<1>3. /\ Table(Entries, m) /\ m.max_bytes = cs.max_bytes
      /\ EntrySet(m) = {e \in EntrySet(cs) : ~ EntryExpired(e, now)}
      /\ Evicted(Entries, m, d)
      /\ d.max_bytes > 0 => d.bytes_used <= d.max_bytes
      /\ gone <=> EntrySet(d) # EntrySet(cs)
  BY GcTable DEF TableInv
<1> HIDE DEF d, m, gone
<1>4. Cache!Trimmed(Items(EntrySet(m)), Items(EntrySet(d)))
  BY <1>3, EvictedTrims
<1>5. Items(EntrySet(m)) = live
  <2>1. \A e \in EntrySet(cs) : Cache!Expired(AsItem(e)) <=> EntryExpired(e, now)
    BY ExpiredItem
  <2> QED
    BY <1>3, <2>1 DEF Items
<1>6. EntrySet(d) \subseteq EntrySet(m) /\ EntrySet(m) \subseteq EntrySet(cs)
      /\ d.max_bytes = cs.max_bytes
  BY <1>3 DEF Evicted
<1>7. Items(EntrySet(d)) \subseteq Items(EntrySet(m))
  BY <1>6 DEF Items
<1>8. Items(EntrySet(d)) = held <=> EntrySet(d) = EntrySet(cs)
  <2>1. ASSUME Items(EntrySet(d)) = held PROVE EntrySet(cs) \subseteq EntrySet(d)
    <3> SUFFICES ASSUME NEW e \in EntrySet(cs) PROVE e \in EntrySet(d)
      OBVIOUS
    <3>1. AsItem(e) \in Items(EntrySet(d))
      BY <2>1
    <3>2. PICK f \in EntrySet(d) : AsItem(f) = AsItem(e)
      BY <3>1 DEF Items
    <3>3. f \in EntrySet(cs) /\ Table(Entries, cs)
      BY <1>6 DEF TableInv
    <3> QED
      BY <3>2, <3>3, ItemsDistinct
  <2> QED
    BY <1>6, <2>1 DEF Items
<1>9. \E K \in SUBSET live : Cache!Trimmed(live, K) /\ {AsItem(e) : e \in EntrySet(cs')} = K
  <2> DEFINE K == Items(EntrySet(d))
  <2>1. K \in SUBSET live /\ Cache!Trimmed(live, K)
    BY <1>4, <1>5, <1>7
  <2>2. {AsItem(e) : e \in EntrySet(cs')} = K
    BY <1>1 DEF Items
  <2> HIDE DEF K, live
  <2> QED
    BY <2>1, <2>2
<1>10. gone <=> {AsItem(e) : e \in EntrySet(cs')} # held
  <2>1. {AsItem(e) : e \in EntrySet(cs')} = Items(EntrySet(d))
    BY <1>1 DEF Items
  <2> QED
    BY <1>3, <1>8, <2>1
<1>11. ret' = Cache!Reply("gc", Cache!NoPath, {AsItem(e) : e \in EntrySet(cs')} # held, 0)
  <2>1. Cache!NoPath = NoPath
    BY DEF Cache!NoPath, NoPath, Path
  <2> DEFINE changed == {AsItem(e) : e \in EntrySet(cs')} # held
  <2>2. gone = changed
    <3>1. gone \in BOOLEAN /\ changed \in BOOLEAN
      BY DEF gone
    <3>2. gone <=> changed
      BY <1>10
    <3> HIDE DEF changed
    <3> QED
      BY <3>1, <3>2
  <2> HIDE DEF changed
  <2>3. ret' = Cache!Reply("gc", NoPath, changed, 0)
    BY <1>1, <2>2, Zenon DEF Reply, Cache!Reply
  <2> QED
    BY <2>1, <2>3 DEF changed
<1>12. cs'.max_bytes = cs.max_bytes
  BY <1>1, <1>6
<1> QED
  BY <1>2, <1>9, <1>11, <1>12 DEF Cache!Gc

\* Every step of the store is a step of the cache, or changes nothing it shows.
LEMMA StepRefines == IInv /\ [Next]_vars => [Cache!Next]_(Cache!vars)
<1> SUFFICES ASSUME IInv, [Next]_vars PROVE [Cache!Next]_(Cache!vars)
  OBVIOUS
<1>1. TableInv(cs, now) /\ now \in 0..MaxTime
  BY DEF IInv
<1>2. ASSUME NEW b \in Budgets, SetBudget(b) PROVE Cache!SetBudget(b)
  <2>1. EntrySet(cs') = EntrySet(cs) /\ cs'.max_bytes = b
    BY <1>1, <1>2, BudgetSets DEF SetBudget
  <2>2. {AsItem(e) : e \in EntrySet(cs')} = {AsItem(e) : e \in EntrySet(cs)}
    BY <2>1
  <2>3. Cache!Clock /\ ret' = Reply("set_budget", NoPath, TRUE, 0)
    BY <1>2 DEF SetBudget, Clock, Cache!Clock
  <2> QED
    BY <2>1, <2>2, <2>3 DEF Cache!SetBudget, Reply, Cache!Reply, NoPath, Cache!NoPath, Path
<1>3. ASSUME NEW p \in Paths, NEW len \in Lengths, NEW freshness \in Lifetimes,
             Store(p, len, freshness)
      PROVE  Cache!Next
  <2>1. \/ Cache!StoreReject(p, len)
        \/ Cache!StoreReplace(p, len, freshness) \/ Cache!StoreInsert(p, len, freshness)
    BY <1>1, <1>3, StoreRefines
  <2> QED
    BY <2>1 DEF Cache!Next
<1>4. ASSUME NEW p \in Paths, Lookup(p) PROVE Cache!Next
  BY <1>1, <1>4, LookupRefines DEF Cache!Next
<1>5. ASSUME NEW p \in Paths, Remove1(p) PROVE Cache!Next
  BY <1>1, <1>5, RemoveRefines DEF Cache!Next
<1>6. ASSUME Gc PROVE Cache!Next
  BY <1>1, <1>6, GcRefines DEF Cache!Next
<1>7. ASSUME UNCHANGED vars PROVE UNCHANGED Cache!vars
  BY <1>7 DEF vars, Cache!vars
<1>8. ASSUME NEW b \in Budgets, SetBudget(b) PROVE Cache!Next
  BY <1>2, <1>8 DEF Cache!Next
<1> QED
  BY <1>3, <1>4, <1>5, <1>6, <1>7, <1>8 DEF Next

\* The content store implements the abstract cache: for every capacity, budget,
\* lifetime and set of paths, each call replies and evicts as CacheSpec allows.
THEOREM StoreRefinesCache == Spec => RefinesCache
BY InitRefines, InitIInv, StepIInv, StepRefines, PTL DEF Spec, RefinesCache, Cache!Spec

\* A store that is accepted leaves the new object, or the eviction left nothing.
LEMMA StoreLeavesNew ==
  ASSUME IInv, NEW p \in Paths, NEW len \in Lengths, NEW freshness \in Lifetimes,
         Store(p, len, freshness), ret'.ok, EntrySet(cs') # {}
  PROVE  \E e \in EntrySet(cs') : e.last_access_ns = now
<1> DEFINE H == {AsItem(e) : e \in EntrySet(cs)}
           L == {AsItem(e) : e \in EntrySet(cs')}
<1>1. TableInv(cs, now) /\ now \in 0..MaxTime /\ cs.max_bytes \in Nat
  BY ContentStoreAssumption DEF IInv, TableInv
<1>2. now \in Nat /\ EntrySet(cs) \subseteq Entries
  BY <1>1, ContentStoreAssumption, EntrySetType, EntriesAreRecords DEF TableInv, Table
<1>10. \A e \in EntrySet(cs) : e.last_access_ns \in Nat /\ e.last_access_ns < now
  BY <1>1, <1>2, ContentStoreAssumption DEF TableInv, Sound, Entries
<1>3. \A e : AsItem(e).last_access_ns = e.last_access_ns
  BY DEF AsItem
<1>4. L # {}
  OBVIOUS
<1>5. \A x \in H : x.last_access_ns \in Nat /\ x.last_access_ns < now
  BY <1>3, <1>10
<1>6. \/ Cache!StoreReject(p, len)
      \/ Cache!StoreReplace(p, len, freshness) \/ Cache!StoreInsert(p, len, freshness)
  BY <1>1, StoreRefines
<1> SUFFICES \E x \in L : x.last_access_ns = now
  BY <1>3
<1>7. ~ Cache!StoreReject(p, len)
  BY DEF Cache!StoreReject, Cache!Reply
<1>8. CASE Cache!StoreReplace(p, len, freshness)
  <2> DEFINE z(x) == [path |-> x.path, data |-> p, data_len |-> len, timestamp |-> now,
                      freshness_ms |-> freshness, last_access_ns |-> now]
  <2>1. PICK x \in Cache!Replaceable(p) : L = (H \ {x}) \cup {z(x)}
    BY <1>8 DEF Cache!StoreReplace
  <2>2. z(x).last_access_ns = now /\ z(x) \in L
    BY <2>1
  <2> QED
    BY <2>2
<1>9. CASE Cache!StoreInsert(p, len, freshness)
  <2> DEFINE new == [path |-> p, data |-> p, data_len |-> len, timestamp |-> now,
                     freshness_ms |-> freshness, last_access_ns |-> now]
  <2>1. Cache!Trimmed(H \cup {new}, L)
    BY <1>9 DEF Cache!StoreInsert
  <2>2. new.last_access_ns = now
    OBVIOUS
  <2> HIDE DEF new, H, L
  <2>3. CASE new \in L
    BY <2>2, <2>3
  <2>4. CASE new \notin L
    <3>1. PICK k \in L : TRUE
      BY <1>4
    <3>2. k \in H /\ L # H \cup {new}
      BY <2>1, <2>4, <3>1 DEF Cache!Trimmed
    <3>3. cs.max_bytes > 0
      BY <1>1, <2>1, <3>2 DEF Cache!Trimmed
    <3>4. new.last_access_ns < k.last_access_ns
      BY <2>1, <2>4, <3>1, <3>3 DEF Cache!Trimmed
    <3> QED
      BY <1>2, <1>5, <2>2, <3>2, <3>4
  <2> QED
    BY <2>3, <2>4
<1> QED
  BY <1>6, <1>7, <1>8, <1>9

\* Whatever the budget makes a store drop, the object just stored goes last
\* (psirp.c:410-424).
THEOREM StoreKeepsNewest == Spec => StoreSparesNewest
<1> DEFINE Spared == (ret'.op = "store" /\ ret'.ok /\ cs'.entries # <<>>) =>
                       \E e \in EntrySet(cs') : e.last_access_ns = now
<1>1. ASSUME IInv, Next PROVE Spared
  <2> SUFFICES ASSUME ret'.op = "store", ret'.ok, cs'.entries # <<>>
               PROVE  \E e \in EntrySet(cs') : e.last_access_ns = now
    OBVIOUS
  <2>1. PICK p \in Paths, len \in Lengths, freshness \in Lifetimes : Store(p, len, freshness)
    BY <1>1 DEF Next, SetBudget, Lookup, Remove1, Gc, Reply
  <2>2. EntrySet(cs') # {}
    <3>1. IInv'
      BY <1>1, StepIInv
    <3>2. Table(Entries, cs')
      BY <3>1 DEF IInv, TableInv
    <3>3. cs'.entries \in Seq(Entries)
      BY <3>2 DEF Table, StoresOf
    <3>4. cs'.entries[1] \in EntrySet(cs')
      BY <3>3 DEF EntrySet
    <3> QED
      BY <3>4
  <2> QED
    BY <1>1, <2>1, <2>2, StoreLeavesNew
<1>2. IInv /\ [Next]_vars => [Spared]_vars
  BY <1>1
<1>3. Spec => [][Spared]_vars
  <2> HIDE DEF Spared
  <2> QED
    BY <1>2, InitIInv, StepIInv, PTL DEF Spec
<1> QED
  BY <1>3 DEF StoreSparesNewest

----------------------------------------------------------------------------
(* Content in chunks: numbers and names *)

\* Division rounds down, and products grow with their factors.
LEMMA DivFacts ==
  ASSUME NEW a \in Nat, NEW b \in Nat \ {0}
  PROVE  /\ a \div b \in Nat
         /\ (a \div b) * b <= a
         /\ a < (a \div b) * b + b
OBVIOUS

\* Division, products and the smaller of two numbers, for the provers.
LEMMA DivMonotone ==
  ASSUME NEW a \in Nat, NEW d \in Nat, a <= d, NEW b \in Nat \ {0}
  PROVE  a \div b <= d \div b
OBVIOUS

LEMMA NextProduct ==
  ASSUME NEW i \in Nat, NEW b \in Nat
  PROVE  i * b \in Nat /\ (i + 1) * b = i * b + b
OBVIOUS

LEMMA ProductBelow ==
  ASSUME NEW i \in Nat, NEW n \in Nat, i < n, NEW b \in Nat
  PROVE  i * b + b <= n * b
OBVIOUS

LEMMA MinOfTwo ==
  ASSUME NEW a \in Int, NEW b \in Int
  PROVE  Min({a, b}) = IF a <= b THEN a ELSE b
BY DEF Min

\* The bytes of the chunks below i.
Upto(len, i) == Min({i * ChunkSize, len})

\* Content that is not empty has between one chunk and MaxChunks of them, none of
\* them empty, and their lengths add up to the content's unless it is cut.
LEMMA ChunkFacts ==
  ASSUME NEW len \in Nat, len # 0
  PROVE  /\ ChunkCount(len) \in 1..MaxChunks
         /\ \A i \in 0..ChunkCount(len)-1 :
              /\ ChunkLen(len, i) \in 1..ChunkSize
              /\ Upto(len, i) + ChunkLen(len, i) = Upto(len, i + 1)
              /\ Upto(len, i + 1) <= len
         /\ Upto(len, 0) = 0
         /\ len <= MaxChunks * ChunkSize => Upto(len, ChunkCount(len)) = len
<1> DEFINE b == ChunkSize
           q == (len + b - 1) \div b
           n == ChunkCount(len)
<1>1. b \in Nat \ {0} /\ MaxChunks \in Nat \ {0} /\ ChunkSize \in Nat /\ len + b - 1 \in Nat
  BY ChunkingAssumption
<1>2. q \in Nat /\ q * b <= len + b - 1 /\ len + b - 1 < q * b + b
  BY <1>1, DivFacts
<1> HIDE DEF q
<1>3. n = IF q <= MaxChunks THEN q ELSE MaxChunks
  <2>1. n = Min({q, MaxChunks})
    BY DEF ChunkCount, q
  <2> HIDE DEF n, b
  <2> QED
    BY <1>1, <1>2, <2>1, MinOfTwo
<1>4. q >= 1
  <2>1. q # 0
    BY <1>1, <1>2
  <2> QED
    BY <1>2, <2>1
<1>5. n \in 1..MaxChunks /\ n \in Nat /\ n <= q
  <2> HIDE DEF n, b
  <2> QED
    BY <1>1, <1>2, <1>3, <1>4
<1> HIDE DEF n
<1>6. \A i \in Nat : i * b \in Nat /\ (i + 1) * b = i * b + b
                     /\ Upto(len, i) = (IF i * b <= len THEN i * b ELSE len)
  <2> SUFFICES ASSUME NEW i \in Nat
               PROVE  i * b \in Nat /\ (i + 1) * b = i * b + b
                      /\ Upto(len, i) = (IF i * b <= len THEN i * b ELSE len)
    OBVIOUS
  <2>1. i * b \in Nat /\ (i + 1) * b = i * b + b
    BY <1>1, NextProduct
  <2>2. Min({i * b, len}) = IF i * b <= len THEN i * b ELSE len
    BY <2>1, MinOfTwo
  <2> QED
    BY <2>1, <2>2 DEF Upto
<1>7. ASSUME NEW i \in 0..n-1
      PROVE  /\ ChunkLen(len, i) \in 1..ChunkSize
             /\ Upto(len, i) + ChunkLen(len, i) = Upto(len, i + 1)
             /\ Upto(len, i + 1) <= len
  <2>1. i \in Nat /\ i + 1 \in Nat /\ i < q
    BY <1>2, <1>5
  <2> DEFINE x == i * b
             y == q * b
             z == (i + 1) * b
  <2>2. x \in Nat /\ z = x + b /\ y \in Nat /\ x + b <= y
    BY <1>1, <1>2, <1>6, <2>1, ProductBelow
  <2>3. Upto(len, i) = (IF x <= len THEN x ELSE len)
        /\ Upto(len, i + 1) = (IF z <= len THEN z ELSE len)
    BY <1>6, <2>1
  <2>4. y <= len + b - 1
    BY <1>2
  <2> HIDE DEF y, z
  <2>5. ChunkLen(len, i) = IF b <= len - x THEN b ELSE len - x
    <3>1. ChunkLen(len, i) = Min({b, len - x})
      BY DEF ChunkLen
    <3>2. len - x \in Int
      BY <2>2
    <3> HIDE DEF x, b
    <3> QED
      BY <1>1, <3>1, <3>2, MinOfTwo
  <2> HIDE DEF x, b
  <2>6. x < len
    BY <1>1, <2>2, <2>4
  <2> QED
    BY <1>1, <2>2, <2>3, <2>5, <2>6 DEF b
<1>8. Upto(len, 0) = 0
  <2>1. 0 * b = 0
    BY <1>1
  <2> QED
    BY <1>6, <2>1
<1>9. ASSUME len <= MaxChunks * ChunkSize PROVE Upto(len, n) = len
  <2>1. n * b >= len
    <3>1. CASE q <= MaxChunks
      BY <1>1, <1>2, <1>3, <3>1
    <3>2. CASE ~ (q <= MaxChunks)
      BY <1>1, <1>2, <1>3, <1>9, <3>2
    <3> QED
      BY <3>1, <3>2
  <2>2. n * b \in Nat /\ Upto(len, n) = (IF n * b <= len THEN n * b ELSE len)
    BY <1>5, <1>6
  <2> DEFINE m == n * b
  <2> HIDE DEF m
  <2> QED
    BY <2>1, <2>2 DEF m
<1> QED
  BY <1>5, <1>7, <1>8, <1>9 DEF n

\* The names of an object's entries are told apart.
LEMMA BaseFacts ==
  ASSUME NEW o
  PROVE  /\ \A q, i : <<q>> # <<o, "chunk", i>> /\ <<q, "chunks">> # <<o, "chunk", i>>
         /\ \A q : <<q>> # <<o, "chunks">>
         /\ \A i, j : <<o, "chunk", i>> = <<o, "chunk", j>> => i = j
<1>1. ASSUME NEW i, NEW j, <<o, "chunk", i>> = <<o, "chunk", j>> PROVE i = j
  BY <1>1
<1>2. ASSUME NEW q PROVE <<q>> # <<o, "chunks">>
  <2>1. Len(<<q>>) = 1 /\ Len(<<o, "chunks">>) = 2
    OBVIOUS
  <2> QED
    BY <2>1
<1>3. ASSUME NEW q, NEW i
      PROVE  <<q>> # <<o, "chunk", i>> /\ <<q, "chunks">> # <<o, "chunk", i>>
  <2>1. Len(<<q>>) = 1 /\ Len(<<q, "chunks">>) = 2 /\ Len(<<o, "chunk", i>>) = 3
    OBVIOUS
  <2> QED
    BY <2>1
<1> QED
  BY <1>1, <1>2, <1>3

----------------------------------------------------------------------------
(* Content in chunks: one store and one lookup inside a call *)

\* The names of the entries, and the paths the calls build from the callers'.
ChunkBases ==
  {p.base : p \in Paths} \cup {<<Object(p), "chunks">> : p \in Paths}
    \cup {<<Object(x[1]), "chunk", x[2]>> : x \in Paths \X Nat}

CallNames == Paths \cup {Unversioned(b) : b \in ChunkBases}

Pieces == [id : Nat, part : Nat] \cup [total_len : Nat, chunk_count : Nat]

ChunkEntries ==
  [name : [base : ChunkBases, version : Nat, hasVersion : BOOLEAN,
           hash : {HashText(Unversioned(b)) : b \in ChunkBases}],
   data : Pieces, data_len : Nat, timestamp : Nat, freshness_ms : Nat, last_access_ns : Nat]

\* The numbers in an entry, and the names of the calls.
LEMMA ChunkEntryFacts ==
  /\ EntryRecords(ChunkEntries)
  /\ \A e \in ChunkEntries :
       /\ e.data_len \in Nat /\ e.timestamp \in Nat /\ e.freshness_ms \in Nat
       /\ e.last_access_ns \in Nat /\ e.name.version \in Nat /\ e.name.hasVersion \in BOOLEAN
       /\ e.data \in Pieces
<1>1. ASSUME NEW e \in ChunkEntries
      PROVE  /\ e.data_len \in Nat /\ e.timestamp \in Nat /\ e.freshness_ms \in Nat
             /\ e.last_access_ns \in Nat /\ e.name.version \in Nat /\ e.name.hasVersion \in BOOLEAN
             /\ e.data \in Pieces /\ DOMAIN e = EntryFields
  BY DEF ChunkEntries, EntryFields
<1> QED
  BY <1>1 DEF EntryRecords

LEMMA CallNameFacts ==
  ASSUME NEW p \in CallNames
  PROVE  /\ p.hasVersion \in BOOLEAN /\ p.version \in Nat /\ p.base \in ChunkBases
         /\ p.hasVersion => p \in Paths
         /\ \A q \in Paths : q.base \in ChunkBases /\ q.hasVersion \in BOOLEAN
<1>1. ASSUME NEW q \in Paths
      PROVE  q.hasVersion \in BOOLEAN /\ q.version \in Nat /\ q.base \in ChunkBases
  BY PathType DEF ChunkBases
<1>2. ASSUME NEW b \in ChunkBases
      PROVE  /\ Unversioned(b).hasVersion = FALSE /\ Unversioned(b).version = 0
             /\ Unversioned(b).base = b
  BY DEF Unversioned, Path
<1>3. CASE p \in Paths
  BY <1>1, <1>3
<1>4. CASE \E b \in ChunkBases : p = Unversioned(b)
  <2>1. PICK b \in ChunkBases : p = Unversioned(b)
    BY <1>4
  <2>2. p.hasVersion = FALSE /\ p.version = 0 /\ p.base = b
    BY <1>2, <2>1
  <2>3. p.hasVersion \in BOOLEAN /\ ~p.hasVersion
    BY <2>2
  <2>4. p.version \in Nat /\ p.base \in ChunkBases
    BY <2>2
  <2> QED
    BY <1>1, <2>3, <2>4
<1>5. p \in Paths \/ \E b \in ChunkBases : p = Unversioned(b)
  BY DEF CallNames
<1> QED
  BY <1>3, <1>4, <1>5

\* The entry a store adds.
LEMMA NewChunkEntry ==
  ASSUME NEW p \in CallNames, NEW data \in Pieces, NEW len \in Nat, NEW freshness \in Nat,
         NEW t \in Nat
  PROVE  LET z == NewEntry(NameInit(p), data, len, freshness, t)
         IN  /\ z \in ChunkEntries
             /\ z.name.base = p.base /\ z.name.hasVersion = p.hasVersion
             /\ z.name.hash = HashText(Unversioned(p.base))
             /\ z.data = data /\ z.data_len = len /\ z.timestamp = t
             /\ z.freshness_ms = freshness /\ z.last_access_ns = t
<1> DEFINE base0 == [base |-> p.base, version |-> 0, hasVersion |-> FALSE,
                     hash |-> HashText(Unversioned(p.base))]
           nm == [base |-> p.base, version |-> p.version, hasVersion |-> p.hasVersion,
                  hash |-> HashText(Unversioned(p.base))]
           z == [name |-> nm, data |-> data, data_len |-> len, timestamp |-> t,
                 freshness_ms |-> freshness, last_access_ns |-> t]
<1>1. NameInit(p).base = p.base /\ NameInit(p).version = p.version
      /\ NameInit(p).hasVersion = p.hasVersion
  BY DEF NameInit
<1>2. NameInitComponents(p.base) = base0
  BY DEF NameInitComponents, NameInit, Unversioned, Path
<1>3. [base0 EXCEPT !.version = p.version, !.hasVersion = p.hasVersion] = nm
  <2>1. /\ DOMAIN base0 = {"base", "version", "hasVersion", "hash"}
        /\ base0.base = p.base /\ base0.hash = HashText(Unversioned(p.base))
    OBVIOUS
  <2> HIDE DEF base0
  <2>2. [base0 EXCEPT !.version = p.version, !.hasVersion = p.hasVersion]
          = [base |-> base0.base, version |-> p.version, hasVersion |-> p.hasVersion,
             hash |-> base0.hash]
    BY <2>1, VersionExcept
  <2> QED
    BY <2>1, <2>2
<1>4. NewEntry(NameInit(p), data, len, freshness, t) = z
  BY <1>1, <1>2, <1>3 DEF NewEntry
<1>5. z \in ChunkEntries
  <2>1. p.hasVersion \in BOOLEAN /\ p.version \in Nat /\ p.base \in ChunkBases
    BY CallNameFacts
  <2>2. HashText(Unversioned(p.base)) \in {HashText(Unversioned(b)) : b \in ChunkBases}
    BY <2>1
  <2>3. nm \in [base : ChunkBases, version : Nat, hasVersion : BOOLEAN,
                hash : {HashText(Unversioned(b)) : b \in ChunkBases}]
    BY <2>1, <2>2
  <2> HIDE DEF nm
  <2> QED
    BY <2>3 DEF ChunkEntries
<1>6. /\ z.name = nm /\ z.data = data /\ z.data_len = len /\ z.timestamp = t
      /\ z.freshness_ms = freshness /\ z.last_access_ns = t
  OBVIOUS
<1>7. nm.base = p.base /\ nm.hasVersion = p.hasVersion /\ nm.hash = HashText(Unversioned(p.base))
  OBVIOUS
<1> HIDE DEF nm, z
<1> QED
  BY <1>4, <1>5, <1>6, <1>7

\* Fewer entries stay sorted, and so do they with a new one of another name.
LEMMA SortedShrinks ==
  ASSUME NEW S \in SUBSET ChunkEntries, NEW t \in Nat, Sorted(S, t), NEW S2 \in SUBSET S,
         NEW t2 \in Nat, t <= t2
  PROVE  Sorted(S2, t2)
<1>1. \A e \in S2 : e \in ChunkEntries /\ e.timestamp \in Nat /\ e.last_access_ns \in Nat
  BY ChunkEntryFacts
<1> QED
  BY <1>1 DEF Sorted

\* Names and stamps stay right when an entry is written: the old one of its name,
\* if any, is gone.
LEMMA SortedGrows ==
  ASSUME NEW S \in SUBSET ChunkEntries, NEW t \in Nat, Sorted(S, t), NEW S2,
         NEW y \in ChunkEntries, NEW S1 \in SUBSET S, S2 \subseteq S1 \cup {y},
         y.name.hash = HashText(Unversioned(y.name.base)),
         y.timestamp <= t, y.last_access_ns <= t,
         y.name.hasVersion => \E q \in Paths : y.name.base = q.base,
         \A x \in S1 : ~y.name.hasVersion /\ ~x.name.hasVersion => x.name.base # y.name.base
  PROVE  Sorted(S2, t + 1)
<1>1. \A e \in S2 : e \in S1 \/ e = y
  OBVIOUS
<1>2. \A e \in S1 : e \in S /\ e.timestamp < t + 1 /\ e.last_access_ns < t + 1
  <2>1. \A e \in S : e.timestamp \in Nat /\ e.last_access_ns \in Nat
    BY ChunkEntryFacts
  <2> QED
    BY <2>1 DEF Sorted
<1>3. y.timestamp < t + 1 /\ y.last_access_ns < t + 1
  BY ChunkEntryFacts
<1>4. \A e \in S2 :
       /\ e.name.hash = HashText(Unversioned(e.name.base))
       /\ e.timestamp < t + 1 /\ e.last_access_ns < t + 1
       /\ e.name.hasVersion => \E p \in Paths : e.name.base = p.base
  BY <1>1, <1>2, <1>3 DEF Sorted
<1>5. \A e, f \in S2 :
       ~e.name.hasVersion /\ ~f.name.hasVersion /\ e.name.base = f.name.base => e = f
  BY <1>1, <1>2 DEF Sorted
<1> QED
  BY <1>4, <1>5 DEF Sorted

\* More entries hold more bytes.
LEMMA MoreBytes ==
  ASSUME NEW E, EntryRecords(E), NEW B \in SUBSET E, IsFiniteSet(B), NEW A \in SUBSET B
  PROVE  EntryBytes(A) \in Nat /\ EntryBytes(B) \in Nat /\ EntryBytes(A) <= EntryBytes(B)
<1> DEFINE D == B \ A
           F == {s \in SUBSET D : EntryBytes(A) <= EntryBytes(A \cup s)}
<1>1. IsFiniteSet(D) /\ D \in SUBSET B
  BY FS_Subset
<1>2. \A T \in SUBSET B : IsFiniteSet(T) /\ EntryBytes(T) \in Nat
  <2> SUFFICES ASSUME NEW T \in SUBSET B PROVE IsFiniteSet(T) /\ EntryBytes(T) \in Nat
    OBVIOUS
  <2>1. IsFiniteSet(T) /\ T \in SUBSET E
    BY FS_Subset
  <2> QED
    BY <2>1, EntryBytesFacts
<1>3. ASSUME NEW s \in SUBSET D,
             \A r \in SUBSET D : Cardinality(r) < Cardinality(s) => r \in F
      PROVE  s \in F
  <2>1. CASE s = {}
    <3>1. A \cup s = A
      BY <2>1
    <3> QED
      BY <1>2, <3>1
  <2>2. CASE s # {}
    <3>1. PICK x \in s : TRUE
      BY <2>2
    <3> DEFINE r == s \ {x}
    <3>2. Cardinality(s) \in Nat /\ Cardinality(r) = Cardinality(s) - 1 /\ r \in SUBSET D
      BY <1>1, <3>1, RestIsSmaller
    <3>3. EntryBytes(A) <= EntryBytes(A \cup r)
      <4>1. r \in F
        <5> HIDE DEF r
        <5>1. Cardinality(r) < Cardinality(s)
          BY <3>2
        <5> QED
          BY <1>3, <3>2, <5>1
      <4> QED
        BY <4>1
    <3>4. (A \cup s) \ {x} = A \cup r /\ A \cup s \in SUBSET B /\ A \cup r \in SUBSET B
      BY <3>1
    <3>5. EntryBytes(A \cup s) = x.data_len + EntryBytes(A \cup r)
      <4>1. A \cup s \in SUBSET E /\ IsFiniteSet(A \cup s) /\ x \in A \cup s
        BY <1>2, <3>1, <3>4
      <4>2. EntryBytes(A \cup s) = x.data_len + EntryBytes((A \cup s) \ {x})
        BY <4>1, EntryBytesFacts
      <4> QED
        BY <3>4, <4>2
    <3>6. x.data_len \in Nat
      BY <3>1 DEF EntryRecords
    <3>7. EntryBytes(A) \in Nat /\ EntryBytes(A \cup s) \in Nat /\ EntryBytes(A \cup r) \in Nat
      BY <1>2, <3>4
    <3> HIDE DEF r
    <3> QED
      BY <3>3, <3>5, <3>6, <3>7
  <2> QED
    BY <2>1, <2>2
<1>4. D \in F
  <2>1. \A s \in SUBSET D : s \in F
    <3> HIDE DEF F, D
    <3> QED
      BY <1>1, <1>3, SmallerSetInduction
  <2> QED
    BY <2>1
<1>5. A \cup D = B
  OBVIOUS
<1> QED
  BY <1>2, <1>4, <1>5

\* An entry a store has written, and the entries used since t0.
Is(e, base, data, len, freshness, t) ==
  /\ e.name.base = base /\ e.data = data /\ e.data_len = len
  /\ e.timestamp = t /\ e.freshness_ms = freshness /\ e.last_access_ns = t

Since(S, t0) == {x \in S : x.last_access_ns >= t0}

Marked(S, base) == \E x \in Of(S, base) : x.name.hasVersion

\* What one psirp_cs_store does to the entries of a name.
Stored(c, r, p, data, len, freshness, t) ==
  LET S  == EntrySet(c)
      S2 == EntrySet(r.cs)
  IN  /\ Table(ChunkEntries, r.cs) /\ Sorted(S2, t + 1)
      /\ r.cs.max_bytes = c.max_bytes /\ r.ok \in BOOLEAN
      /\ ~r.ok => r.cs = c
      /\ ~r.ok /\ len # 0 /\ len <= MaxData /\ ~p.hasVersion => Of(S, p.base) = {}
      /\ \A e \in S2 : e \in S \/ (r.ok /\ Is(e, p.base, data, len, freshness, t))
      /\ \A e \in S2 : e.name.hasVersion => e \in S \/ p.hasVersion \/ Marked(S, p.base)
      /\ r.ok /\ ~p.hasVersion /\ ~Marked(S, p.base)
           => \A e \in Of(S2, p.base) : Is(e, p.base, data, len, freshness, t)

\* A store evicts nothing used since t0 as long as that fits into the budget.
Spared(c, r, p, data, len, freshness, t, t0) ==
  LET F == Since(EntrySet(c), t0)
      G == Since(EntrySet(r.cs), t0)
  IN  /\ r.ok
      /\ \A x \in F : x.name.base # p.base
      /\ c.max_bytes = 0 \/ EntryBytes(F) + len <= c.max_bytes
      => /\ \E z : Is(z, p.base, data, len, freshness, t) /\ G = F \cup {z}
         /\ EntryBytes(G) = EntryBytes(F) + len

\* Entries as an update and a lookup leave them.
LEMMA ChangedChunkEntry ==
  ASSUME NEW e \in ChunkEntries, NEW data \in Pieces, NEW len \in Nat, NEW freshness \in Nat,
         NEW t \in Nat
  PROVE  /\ Rewritten(e, data, len, freshness, t) \in ChunkEntries
         /\ Touched(e, t) \in ChunkEntries
         /\ Rewritten(e, data, len, freshness, t).name = e.name
         /\ Is(Rewritten(e, data, len, freshness, t), e.name.base, data, len, freshness, t)
BY DEF ChunkEntries, Rewritten, Touched, Is

\* The two ways a store succeeds: in place, and as a new entry.
LEMMA UpdateStored ==
  ASSUME NEW c, Table(ChunkEntries, c), NEW t \in Nat, Sorted(EntrySet(c), t),
         NEW p \in CallNames, NEW data \in Pieces, NEW len \in Nat, NEW freshness \in Nat,
         NEW r, r.ok = TRUE, UpdatedTo(ChunkEntries, c, r.cs, p, data, len, freshness, t)
  PROVE  /\ Stored(c, r, p, data, len, freshness, t)
         /\ \A t0 \in 0..t : Spared(c, r, p, data, len, freshness, t, t0)
<1> DEFINE S == EntrySet(c)
           S2 == EntrySet(r.cs)
<1>1. S \in SUBSET ChunkEntries /\ IsFiniteSet(S)
  BY EntrySetType DEF Table
<1>2. Table(ChunkEntries, r.cs) /\ r.cs.max_bytes = c.max_bytes
  BY DEF UpdatedTo
<1>3. PICK e \in S : /\ Named(e, p)
                     /\ S2 = (S \ {e}) \cup {Rewritten(e, data, len, freshness, t)}
  BY DEF UpdatedTo
<1> DEFINE y == Rewritten(e, data, len, freshness, t)
<1>4. y \in ChunkEntries /\ y.name = e.name /\ Is(y, p.base, data, len, freshness, t)
  BY <1>1, <1>3, ChangedChunkEntry DEF Named
<1>5. y.name.base = p.base /\ ~p.hasVersion /\ y.last_access_ns = t /\ y.timestamp = t
      /\ e.name.base = p.base /\ y.data_len = len
  BY <1>3, <1>4 DEF Named, Is
<1> HIDE DEF y, S, S2
<1>6. S2 = (S \ {e}) \cup {y}
  BY <1>3 DEF y
<1>7. \A x \in S : x.last_access_ns < t /\ x.last_access_ns \in Nat
  <2>1. \A x \in S : x.last_access_ns \in Nat
    BY <1>1, ChunkEntryFacts
  <2> QED
    BY <2>1 DEF Sorted, S
<1>8. Sorted(S2, t + 1)
  <2>1. y.name.hash = HashText(Unversioned(y.name.base))
        /\ (y.name.hasVersion => \E q \in Paths : y.name.base = q.base)
    BY <1>3, <1>4 DEF Sorted, S
  <2>2. \A x \in S \ {e} : ~y.name.hasVersion /\ ~x.name.hasVersion => x.name.base # y.name.base
    BY <1>3, <1>4 DEF Sorted, S
  <2>3. Sorted(S, t)
    BY DEF S
  <2>4. y.timestamp <= t /\ y.last_access_ns <= t
    BY <1>5
  <2> DEFINE S1 == S \ {e}
  <2>5. S1 \in SUBSET S /\ S2 \subseteq S1 \cup {y}
    BY <1>6
  <2> HIDE DEF S1
  <2>6. \A x \in S1 : ~y.name.hasVersion /\ ~x.name.hasVersion => x.name.base # y.name.base
    BY <2>2 DEF S1
  <2> QED
    BY <1>1, <1>4, <2>1, <2>3, <2>4, <2>5, <2>6, SortedGrows
<1>9. \A x \in S2 : x \in S \/ Is(x, p.base, data, len, freshness, t)
  BY <1>4, <1>6
<1>10. \A x \in S2 : x.name.hasVersion => x \in S \/ Marked(S, p.base)
  BY <1>3, <1>4, <1>5, <1>6 DEF Marked, Of
<1>11. ASSUME ~Marked(S, p.base), NEW x \in Of(S2, p.base)
       PROVE  Is(x, p.base, data, len, freshness, t)
  <2>1. CASE x = y
    BY <1>4, <2>1
  <2>2. CASE x # y
    <3>1. x \in S /\ x # e /\ x.name.base = p.base
      BY <1>6, <1>11, <2>2 DEF Of
    <3>2. ~x.name.hasVersion /\ ~e.name.hasVersion
      BY <1>3, <1>5, <1>11, <3>1 DEF Marked, Of
    <3> QED
      BY <1>3, <1>5, <3>1, <3>2 DEF Sorted, S
  <2> QED
    BY <2>1, <2>2
<1>12. Stored(c, r, p, data, len, freshness, t)
  BY <1>2, <1>8, <1>9, <1>10, <1>11 DEF Stored, S, S2
<1>13. ASSUME NEW t0 \in 0..t PROVE Spared(c, r, p, data, len, freshness, t, t0)
  <2> DEFINE F == Since(S, t0)
             G == Since(S2, t0)
  <2> SUFFICES ASSUME \A x \in F : x.name.base # p.base
               PROVE  G = F \cup {y} /\ EntryBytes(G) = EntryBytes(F) + len
    BY <1>4 DEF Spared, S, S2
  <2>1. e \notin F
    BY <1>5
  <2>2. y.last_access_ns >= t0
    BY <1>5
  <2>3. G = F \cup {y}
    BY <1>6, <2>1, <2>2 DEF Since
  <2>4. y \notin F
    BY <1>5, <1>7 DEF Since
  <2>5. F \in SUBSET ChunkEntries /\ IsFiniteSet(F)
    BY <1>1, FS_Subset DEF Since
  <2>6. EntryBytes(F \cup {y}) = len + EntryBytes(F) /\ EntryBytes(F) \in Nat
    <3> HIDE DEF F
    <3>1. y \in ChunkEntries \ F
      BY <1>4, <2>4
    <3>2. EntryBytes(F \cup {y}) = y.data_len + EntryBytes(F) /\ EntryBytes(F) \in Nat
      BY <2>5, <3>1, ChunkEntryFacts, EntryBytesFacts
    <3> QED
      BY <1>5, <3>2
  <2> HIDE DEF F, G
  <2> QED
    BY <2>3, <2>6
<1> QED
  BY <1>12, <1>13

LEMMA InsertStored ==
  ASSUME NEW c, Table(ChunkEntries, c), NEW t \in Nat, Sorted(EntrySet(c), t),
         NEW p \in CallNames, NEW data \in Pieces, NEW len \in Nat, NEW freshness \in Nat,
         NEW r, r.ok = TRUE, \A e \in EntrySet(c) : ~Named(e, p),
         InsertedTo(ChunkEntries, c, r.cs, NewEntry(NameInit(p), data, len, freshness, t))
  PROVE  /\ Stored(c, r, p, data, len, freshness, t)
         /\ \A t0 \in 0..t : Spared(c, r, p, data, len, freshness, t, t0)
<1> DEFINE S == EntrySet(c)
           S2 == EntrySet(r.cs)
           z == NewEntry(NameInit(p), data, len, freshness, t)
<1>1. S \in SUBSET ChunkEntries /\ IsFiniteSet(S)
  BY EntrySetType DEF Table
<1>2. /\ z \in ChunkEntries /\ z.name.hasVersion = p.hasVersion
      /\ z.name.hash = HashText(Unversioned(p.base))
      /\ Is(z, p.base, data, len, freshness, t)
  <2>1. /\ z \in ChunkEntries
        /\ z.name.base = p.base /\ z.name.hasVersion = p.hasVersion
        /\ z.name.hash = HashText(Unversioned(p.base))
        /\ z.data = data /\ z.data_len = len /\ z.timestamp = t
        /\ z.freshness_ms = freshness /\ z.last_access_ns = t
    BY NewChunkEntry
  <2> HIDE DEF z
  <2> QED
    BY <2>1 DEF Is
<1> HIDE DEF z, S, S2
<1>3. PICK full : /\ EntrySet(full) = S \cup {z} /\ full.max_bytes = c.max_bytes
                  /\ Evicted(ChunkEntries, full, r.cs)
  BY DEF InsertedTo, z, S
<1>4. /\ Table(ChunkEntries, r.cs) /\ r.cs.max_bytes = c.max_bytes /\ S2 \subseteq S \cup {z}
      /\ c.max_bytes = 0 => S2 = S \cup {z}
      /\ \A lost \in (S \cup {z}) \ S2 :
           EntryBytes({x \in S \cup {z} : x.last_access_ns >= lost.last_access_ns}) > c.max_bytes
  BY <1>3 DEF Evicted, S2
<1>5. z.name.base = p.base /\ z.last_access_ns = t /\ z.timestamp = t /\ z.data_len = len
  BY <1>2 DEF Is
<1>6. \A x \in S : x.last_access_ns < t /\ x.last_access_ns \in Nat
  <2>1. \A x \in S : x.last_access_ns \in Nat
    BY <1>1, ChunkEntryFacts
  <2> QED
    BY <2>1 DEF Sorted, S
<1>7. ~p.hasVersion => \A x \in S : x.name.base # p.base
  BY DEF Named, S
<1>8. Sorted(S2, t + 1)
  <2>1. z.name.hasVersion => \E q \in Paths : z.name.base = q.base
    BY <1>2, <1>5, CallNameFacts
  <2>2. \A x \in S : ~z.name.hasVersion /\ ~x.name.hasVersion => x.name.base # z.name.base
    BY <1>2, <1>5, <1>7
  <2>3. Sorted(S, t)
    BY DEF S
  <2>4. z.timestamp <= t /\ z.last_access_ns <= t
    BY <1>5
  <2> QED
    BY <1>1, <1>2, <1>4, <1>5, <2>1, <2>2, <2>3, <2>4, SortedGrows
<1>9. \A x \in S2 : x \in S \/ Is(x, p.base, data, len, freshness, t)
  BY <1>2, <1>4
<1>10. \A x \in S2 : x.name.hasVersion => x \in S \/ p.hasVersion
  BY <1>2, <1>4
<1>11. ~p.hasVersion => \A x \in Of(S2, p.base) : Is(x, p.base, data, len, freshness, t)
  BY <1>7, <1>9 DEF Of
<1>12. Stored(c, r, p, data, len, freshness, t)
  BY <1>4, <1>8, <1>9, <1>10, <1>11 DEF Stored, S, S2
<1>13. ASSUME NEW t0 \in 0..t PROVE Spared(c, r, p, data, len, freshness, t, t0)
  <2> DEFINE F == Since(S, t0)
             G == Since(S2, t0)
  <2> SUFFICES ASSUME c.max_bytes = 0 \/ EntryBytes(F) + len <= c.max_bytes
               PROVE  G = F \cup {z} /\ EntryBytes(G) = EntryBytes(F) + len
    BY <1>2 DEF Spared, S, S2
  <2>1. F \in SUBSET ChunkEntries /\ IsFiniteSet(F) /\ F \in SUBSET S
    BY <1>1, FS_Subset DEF Since
  <2>2. z \notin F /\ z.last_access_ns >= t0
    BY <1>5, <1>6 DEF Since
  <2>3. F \cup {z} = {x \in S \cup {z} : x.last_access_ns >= t0}
    BY <2>2 DEF Since
  <2>4. /\ EntryBytes(F \cup {z}) = len + EntryBytes(F) /\ EntryBytes(F) \in Nat
        /\ F \cup {z} \in SUBSET ChunkEntries /\ IsFiniteSet(F \cup {z})
    <3> HIDE DEF F
    <3>1. z \in ChunkEntries \ F
      BY <1>2, <2>2
    <3>2. EntryBytes(F \cup {z}) = z.data_len + EntryBytes(F) /\ EntryBytes(F) \in Nat
      BY <2>1, <3>1, ChunkEntryFacts, EntryBytesFacts
    <3>3. IsFiniteSet(F \cup {z})
      BY <2>1, FS_AddElement
    <3> QED
      BY <1>2, <1>5, <2>1, <3>2, <3>3
  <2>5. ASSUME NEW lost \in F \cup {z} PROVE lost \in S2
    <3>1. lost \in S \cup {z} /\ lost.last_access_ns >= t0 /\ lost.last_access_ns \in Nat
      BY <1>1, <1>2, <2>3, ChunkEntryFacts
    <3>2. CASE c.max_bytes = 0
      BY <1>4, <3>1, <3>2
    <3>3. CASE EntryBytes(F) + len <= c.max_bytes
      <4> DEFINE A == {x \in S \cup {z} : x.last_access_ns >= lost.last_access_ns}
      <4>1. A \in SUBSET (F \cup {z})
        <5>1. \A x \in S \cup {z} : x.last_access_ns \in Nat
          BY <1>1, <1>2, ChunkEntryFacts
        <5> QED
          BY <2>3, <3>1, <5>1
      <4>2. EntryBytes(A) <= EntryBytes(F \cup {z}) /\ EntryBytes(A) \in Nat
        <5> HIDE DEF A, F
        <5> QED
          BY <2>4, <4>1, ChunkEntryFacts, MoreBytes
      <4>3. c.max_bytes \in Nat
        BY DEF Table, StoresOf
      <4>4. ~(EntryBytes(A) > c.max_bytes)
        <5> HIDE DEF A, F
        <5> QED
          BY <2>4, <3>3, <4>2, <4>3
      <4> QED
        BY <1>4, <3>1, <4>4
    <3> QED
      BY <3>2, <3>3
  <2>6. G = F \cup {z}
    BY <1>4, <2>3, <2>5 DEF Since
  <2> HIDE DEF F, G
  <2> QED
    BY <2>4, <2>6
<1> QED
  BY <1>12, <1>13

\* psirp_cs_store inside a call.
LEMMA StoreStep ==
  ASSUME NEW c, Table(ChunkEntries, c), NEW t \in Nat, Sorted(EntrySet(c), t),
         NEW p \in CallNames, NEW data \in Pieces, NEW len \in Nat, NEW freshness \in Nat,
         NEW r, r = CsStore(c, NameInit(p), data, len, freshness, t)
  PROVE  /\ Stored(c, r, p, data, len, freshness, t)
         /\ \A t0 \in 0..t : Spared(c, r, p, data, len, freshness, t, t0)
<1> DEFINE S == EntrySet(c)
<1>1. S \in SUBSET ChunkEntries
  BY EntrySetType DEF Table
<1>2. Hashed(S) /\ Older(S, t) /\ p.hasVersion \in BOOLEAN
  BY CallNameFacts DEF Sorted, Hashed, Older
<1>3. \A e \in S : Rewritten(e, data, len, freshness, t) \in ChunkEntries
  BY <1>1, ChangedChunkEntry
<1>4. NewEntry(NameInit(p), data, len, freshness, t) \in ChunkEntries
  BY NewChunkEntry
<1>5. StoreResult(ChunkEntries, c, r, p, data, len, freshness, t)
  BY <1>2, <1>3, <1>4, StoreTable
<1>6. ASSUME r.ok = FALSE, r.cs = c,
             len # 0 /\ len <= MaxData => \A e \in S : ~Named(e, p)
      PROVE  /\ Stored(c, r, p, data, len, freshness, t)
             /\ \A t0 \in 0..t : Spared(c, r, p, data, len, freshness, t, t0)
  <2>1. Sorted(S, t + 1)
    <3>1. t + 1 \in Nat /\ t <= t + 1
      OBVIOUS
    <3> QED
      BY <1>1, <3>1, SortedShrinks
  <2>2. len # 0 /\ len <= MaxData /\ ~p.hasVersion => Of(S, p.base) = {}
    BY <1>6 DEF Named, Of
  <2>3. Stored(c, r, p, data, len, freshness, t)
    BY <1>6, <2>1, <2>2 DEF Stored
  <2> QED
    BY <1>6, <2>3 DEF Spared
<1>7. \/ /\ r.ok = FALSE /\ r.cs = c
         /\ len # 0 /\ len <= MaxData => \A e \in S : ~Named(e, p)
      \/ r.ok = TRUE /\ UpdatedTo(ChunkEntries, c, r.cs, p, data, len, freshness, t)
      \/ /\ r.ok = TRUE /\ \A e \in S : ~Named(e, p)
         /\ InsertedTo(ChunkEntries, c, r.cs, NewEntry(NameInit(p), data, len, freshness, t))
  BY <1>5 DEF StoreResult
<1> QED
  BY <1>6, <1>7, UpdateStored, InsertStored

----------------------------------------------------------------------------
(* Content in chunks: the loops *)

StoredChunks(s, o, id, len, freshness, n) ==
  FoldLeft(LAMBDA c, i : IF c.ok THEN StoreChunk(c, o, id, i, len, freshness) ELSE c,
           s, Indices(n))

ReadUpTo(s, o, n) ==
  FoldLeft(LAMBDA c, i : IF c.ok THEN LookupIn(c, ChunkName(o, i)) ELSE c, s, Indices(n))

\* The loop that stores the chunks, round by round.
LEMMA StoreRounds ==
  ASSUME NEW s, NEW o, NEW id, NEW len, NEW freshness, NEW n \in Nat
  PROVE  \E a : /\ a[0] = s /\ a[n] = StoredChunks(s, o, id, len, freshness, n)
                /\ \A k \in 1..n :
                     a[k] = IF a[k-1].ok THEN StoreChunk(a[k-1], o, id, k - 1, len, freshness)
                                         ELSE a[k-1]
<1> DEFINE x == <<o, id, len, freshness>>
           ix == Indices(n)
           Sol(g) == g = [S \in SUBSET (1..n) |->
                            IF S = {} THEN s
                            ELSE IF g[S \ {Max(S)}].ok
                                   THEN StoreChunk(g[S \ {Max(S)}], o, id, ix[Max(S)], len, freshness)
                                   ELSE g[S \ {Max(S)}]]
           G == CHOOSE g : Sol(g)
<1>1. DOMAIN ix = 1..n /\ \A k \in 1..n : ix[k] = k - 1
  BY DEF Indices
<1>2. StoredChunks(s, o, id, len, freshness, n) = G[1..n]
  <2>1. StoredChunks(s, o, id, len, freshness, n) =
          FoldLeft(LAMBDA c, i : IF c.ok THEN StoreChunk(c, o, id, i, len, freshness) ELSE c,
                   s, ix)
    BY DEF StoredChunks
  <2> HIDE DEF ix
  <2> QED
    BY <1>1, <2>1 DEF FoldLeft, MapThenFoldSet
<1> HIDE DEF ix
<1>3. Fold(G, "store", x, n, s)
  <2>1. \A g : Sol(g) <=> Fold(g, "store", x, n, s)
    <3> SUFFICES ASSUME NEW g PROVE Sol(g) <=> Fold(g, "store", x, n, s)
      OBVIOUS
    <3> DEFINE A(S) == IF S = {} THEN s
                       ELSE IF g[S \ {Max(S)}].ok
                              THEN StoreChunk(g[S \ {Max(S)}], o, id, ix[Max(S)], len, freshness)
                              ELSE g[S \ {Max(S)}]
               B(S) == IF S = {} THEN s
                       ELSE Round("store", x, n, g[S \ {Max(S)}], Max(S))
    <3>1. ASSUME NEW S \in SUBSET (1..n) PROVE A(S) = B(S)
      <4>1. S # {} => ix[Max(S)] = Max(S) - 1
        BY <1>1, MaxIn
      <4> QED
        BY <4>1 DEF Round, ChunkRound
    <3>2. [S \in SUBSET (1..n) |-> A(S)] = [S \in SUBSET (1..n) |-> B(S)]
      <4> HIDE DEF A, B
      <4> QED
        BY <3>1
    <3> QED
      BY <3>2 DEF Fold
  <2> HIDE DEF Sol
  <2>2. \E g : Sol(g)
    BY <2>1, FoldExists
  <2> QED
    BY <2>1, <2>2
<1> HIDE DEF G
<1>4. /\ G[1..0] = s
      /\ \A k \in 1..n :
           G[1..k] = IF G[1..(k-1)].ok
                       THEN StoreChunk(G[1..(k-1)], o, id, k - 1, len, freshness)
                       ELSE G[1..(k-1)]
  <2>1. Rounds(G, "store", x, n, s)
    BY <1>3, FoldRounds
  <2> QED
    BY <2>1 DEF Rounds, Round, ChunkRound
<1> DEFINE a == [k \in 0..n |-> G[1..k]]
<1>5. /\ a[0] = s /\ a[n] = StoredChunks(s, o, id, len, freshness, n)
      /\ \A k \in 1..n :
           a[k] = IF a[k-1].ok THEN StoreChunk(a[k-1], o, id, k - 1, len, freshness) ELSE a[k-1]
  BY <1>2, <1>4
<1> QED
  BY <1>5

\* The loop that reads them, round by round.
LEMMA ReadRounds ==
  ASSUME NEW s, NEW o, NEW n \in Nat
  PROVE  \E a : /\ a[0] = s /\ a[n] = ReadUpTo(s, o, n)
                /\ \A k \in 1..n :
                     a[k] = IF a[k-1].ok THEN LookupIn(a[k-1], ChunkName(o, k - 1)) ELSE a[k-1]
<1> DEFINE ix == Indices(n)
           Sol(g) == g = [S \in SUBSET (1..n) |->
                            IF S = {} THEN s
                            ELSE IF g[S \ {Max(S)}].ok
                                   THEN LookupIn(g[S \ {Max(S)}], ChunkName(o, ix[Max(S)]))
                                   ELSE g[S \ {Max(S)}]]
           G == CHOOSE g : Sol(g)
<1>1. DOMAIN ix = 1..n /\ \A k \in 1..n : ix[k] = k - 1
  BY DEF Indices
<1>2. ReadUpTo(s, o, n) = G[1..n]
  <2>1. ReadUpTo(s, o, n) =
          FoldLeft(LAMBDA c, i : IF c.ok THEN LookupIn(c, ChunkName(o, i)) ELSE c, s, ix)
    BY DEF ReadUpTo
  <2> HIDE DEF ix
  <2> QED
    BY <1>1, <2>1 DEF FoldLeft, MapThenFoldSet
<1> HIDE DEF ix
<1>3. Fold(G, "read", o, n, s)
  <2>1. \A g : Sol(g) <=> Fold(g, "read", o, n, s)
    <3> SUFFICES ASSUME NEW g PROVE Sol(g) <=> Fold(g, "read", o, n, s)
      OBVIOUS
    <3> DEFINE A(S) == IF S = {} THEN s
                       ELSE IF g[S \ {Max(S)}].ok
                              THEN LookupIn(g[S \ {Max(S)}], ChunkName(o, ix[Max(S)]))
                              ELSE g[S \ {Max(S)}]
               B(S) == IF S = {} THEN s
                       ELSE Round("read", o, n, g[S \ {Max(S)}], Max(S))
    <3>1. ASSUME NEW S \in SUBSET (1..n) PROVE A(S) = B(S)
      <4>1. S # {} => ix[Max(S)] = Max(S) - 1
        BY <1>1, MaxIn
      <4> QED
        BY <4>1 DEF Round, ReadRound
    <3>2. [S \in SUBSET (1..n) |-> A(S)] = [S \in SUBSET (1..n) |-> B(S)]
      <4> HIDE DEF A, B
      <4> QED
        BY <3>1
    <3> QED
      BY <3>2 DEF Fold
  <2> HIDE DEF Sol
  <2>2. \E g : Sol(g)
    BY <2>1, FoldExists
  <2> QED
    BY <2>1, <2>2
<1> HIDE DEF G, Sol
<1>4. /\ G[1..0] = s
      /\ \A k \in 1..n :
           G[1..k] = IF G[1..(k-1)].ok THEN LookupIn(G[1..(k-1)], ChunkName(o, k - 1))
                                       ELSE G[1..(k-1)]
  <2>1. Rounds(G, "read", o, n, s)
    BY <1>3, FoldRounds
  <2> QED
    BY <2>1 DEF Rounds, Round, ReadRound
<1> DEFINE a == [k \in 0..n |-> G[1..k]]
<1>5. /\ a[0] = s /\ a[n] = ReadUpTo(s, o, n)
      /\ \A k \in 1..n :
           a[k] = IF a[k-1].ok THEN LookupIn(a[k-1], ChunkName(o, k - 1)) ELSE a[k-1]
  BY <1>2, <1>4
<1> QED
  BY <1>5

\* A version-free name of the object's own entries.
LEMMA PlainName ==
  ASSUME NEW b \in ChunkBases
  PROVE  /\ Unversioned(b) \in CallNames
         /\ Unversioned(b).base = b /\ Unversioned(b).hasVersion = FALSE
BY DEF CallNames, Unversioned, Path

\* The names of an object's entries are names of the model.
LEMMA ChunkBasesOf ==
  ASSUME NEW p \in Paths
  PROVE  /\ <<Object(p)>> = p.base /\ <<Object(p)>> \in ChunkBases
         /\ <<Object(p), "chunks">> \in ChunkBases
         /\ \A i \in Nat : <<Object(p), "chunk", i>> \in ChunkBases
<1>1. <<Object(p)>> = p.base
  BY ChunkingAssumption DEF Object
<1>2. ASSUME NEW i \in Nat PROVE <<Object(p), "chunk", i>> \in ChunkBases
  <2> DEFINE x == <<p, i>>
  <2>1. x \in Paths \X Nat /\ x[1] = p /\ x[2] = i
    OBVIOUS
  <2>2. \E y \in Paths \X Nat : <<Object(p), "chunk", i>> = <<Object(y[1]), "chunk", y[2]>>
    BY <2>1
  <2> QED
    BY <2>2 DEF ChunkBases
<1> QED
  BY <1>1, <1>2 DEF ChunkBases

\* Chunks and manifests are never held under a versioned name.
LEMMA NeverMarked ==
  ASSUME NEW S, NEW t, Sorted(S, t), NEW o
  PROVE  /\ ~Marked(S, <<o, "chunks">>)
         /\ \A i : ~Marked(S, <<o, "chunk", i>>)
<1>1. ASSUME NEW b, Marked(S, b) PROVE \E q : b = <<q>>
  <2>1. PICK x \in S : x.name.base = b /\ x.name.hasVersion
    BY <1>1 DEF Marked, Of
  <2>2. PICK p \in Paths : b = p.base
    BY <2>1 DEF Sorted
  <2> QED
    BY <2>2, ChunkBasesOf
<1>2. \A q, i : <<q>> # <<o, "chunk", i>> /\ <<q>> # <<o, "chunks">>
  BY BaseFacts
<1> QED
  BY <1>1, <1>2

\* A chunk of call id.
IsChunk(e, o, id, len, i) ==
  e.name.base = <<o, "chunk", i>> /\ e.data = Piece(id, i) /\ e.data_len = ChunkLen(len, i)

Below(S, o, id, len, n) ==
  \A i \in 0..n-1 : \A e \in Of(S, <<o, "chunk", i>>) : IsChunk(e, o, id, len, i)

\* Call id, which started at t0 with the store c, has come to chunk j.
Storing(c, t0, s, o, id, len, j) ==
  LET S == EntrySet(s.cs)
  IN  /\ Table(ChunkEntries, s.cs) /\ Sorted(S, s.now) /\ s.ok \in BOOLEAN
      /\ s.now \in Nat /\ t0 <= s.now /\ s.now <= t0 + j
      /\ s.cs.max_bytes = c.max_bytes
      /\ \A e \in S : e \in EntrySet(c) \/ \E i \in Nat : IsChunk(e, o, id, len, i)
      /\ s.ok => Below(S, o, id, len, j)
      /\ ~s.ok => \E n \in 0..j-1 : Below(S, o, id, len, n) /\ Of(S, <<o, "chunk", n>>) = {}

\* The entries used since t0 are the first j chunks.
Gathered(s, t0, o, len, j) ==
  LET F == Since(EntrySet(s.cs), t0)
  IN  s.ok => /\ EntryBytes(F) = Upto(len, j)
              /\ \A x \in F : \E i \in 0..j-1 : x.name.base = <<o, "chunk", i>>
              /\ \A i \in 0..j-1 : \E x \in F : x.name.base = <<o, "chunk", i>>

Roomy(c, len) == c.max_bytes = 0 \/ len <= c.max_bytes

\* One chunk more.
LEMMA ChunkStep ==
  ASSUME NEW q \in Paths, NEW o, o = Object(q), NEW c, NEW t0 \in Nat,
         NEW id \in Nat, NEW len \in Nat, len # 0, NEW freshness \in Nat,
         NEW j \in 0..ChunkCount(len)-1, NEW s, Storing(c, t0, s, o, id, len, j), s.ok,
         NEW u, u = StoreChunk(s, o, id, j, len, freshness)
  PROVE  /\ Storing(c, t0, u, o, id, len, j + 1)
         /\ Roomy(c, len) /\ Gathered(s, t0, o, len, j) => Gathered(u, t0, o, len, j + 1)
<1> DEFINE b == <<o, "chunk", j>>
           p == Unversioned(b)
           m == ChunkLen(len, j)
           t == s.now
           r == CsStore(s.cs, NameInit(p), Piece(id, j), m, freshness, t)
           S == EntrySet(s.cs)
           S2 == EntrySet(u.cs)
<1>1. /\ j \in Nat /\ j + 1 \in Nat
      /\ m \in Nat /\ m # 0 /\ m <= MaxData
      /\ Upto(len, j) + m = Upto(len, j + 1) /\ Upto(len, j + 1) <= len
  <2>1. ChunkCount(len) \in Nat
    BY ChunkFacts, ChunkingAssumption
  <2>2. m \in 1..ChunkSize
    BY ChunkFacts
  <2>3. Upto(len, j) + m = Upto(len, j + 1) /\ Upto(len, j + 1) <= len
    BY ChunkFacts
  <2> HIDE DEF m
  <2> QED
    BY <2>1, <2>2, <2>3, ChunkingAssumption, CsOpsAssumption
<1>2. p \in CallNames /\ p.base = b /\ p.hasVersion = FALSE /\ Piece(id, j) \in Pieces
  <2>1. b \in ChunkBases
    BY <1>1, ChunkBasesOf
  <2> HIDE DEF b
  <2> QED
    BY <1>1, <2>1, PlainName DEF Piece, Pieces
<1>3. u.ok = r.ok /\ u.cs = r.cs /\ u.now = t + 1
  BY DEF StoreChunk, StoreIn, ChunkName, Progress
<1>4. /\ Table(ChunkEntries, s.cs) /\ Sorted(S, t) /\ t \in Nat /\ t0 <= t /\ t <= t0 + j
      /\ s.cs.max_bytes = c.max_bytes
      /\ \A e \in S : e \in EntrySet(c) \/ \E i \in Nat : IsChunk(e, o, id, len, i)
      /\ Below(S, o, id, len, j)
  BY DEF Storing
<1> HIDE DEF p, m
<1>5. /\ Stored(s.cs, r, p, Piece(id, j), m, freshness, t)
      /\ \A x \in 0..t : Spared(s.cs, r, p, Piece(id, j), m, freshness, t, x)
  <2> DEFINE data == Piece(id, j)
             cc == s.cs
             tt == t
  <2>1. Table(ChunkEntries, cc) /\ Sorted(EntrySet(cc), tt) /\ tt \in Nat /\ data \in Pieces
    BY <1>2, <1>4
  <2> HIDE DEF data, cc, tt
  <2>2. /\ Stored(cc, CsStore(cc, NameInit(p), data, m, freshness, tt), p, data, m, freshness, tt)
        /\ \A x \in 0..tt : Spared(cc, CsStore(cc, NameInit(p), data, m, freshness, tt),
                                   p, data, m, freshness, tt, x)
    BY <1>1, <1>2, <2>1, StoreStep
  <2> QED
    BY <2>2 DEF data, cc, tt
<1> HIDE DEF r
<1>6. ~Marked(S, b)
  BY <1>4, NeverMarked
<1>7. /\ Table(ChunkEntries, u.cs) /\ Sorted(S2, t + 1) /\ u.cs.max_bytes = c.max_bytes
      /\ u.ok \in BOOLEAN
      /\ ~u.ok => u.cs = s.cs /\ Of(S, b) = {}
      /\ \A e \in S2 : e \in S \/ Is(e, b, Piece(id, j), m, freshness, t)
      /\ u.ok => \A e \in Of(S2, b) : Is(e, b, Piece(id, j), m, freshness, t)
  BY <1>1, <1>2, <1>3, <1>4, <1>5, <1>6 DEF Stored
<1>8. \A e : Is(e, b, Piece(id, j), m, freshness, t) => IsChunk(e, o, id, len, j)
  BY DEF Is, IsChunk, m
<1>9. \A e \in S2 : e \in EntrySet(c) \/ \E i \in Nat : IsChunk(e, o, id, len, i)
  BY <1>1, <1>4, <1>7, <1>8
<1>10. Below(S2, o, id, len, j)
  <2> SUFFICES ASSUME NEW i \in 0..j-1, NEW e \in Of(S2, <<o, "chunk", i>>)
               PROVE  IsChunk(e, o, id, len, i)
    BY DEF Below
  <2>1. i # j /\ e.name.base = <<o, "chunk", i>>
    BY <1>1 DEF Of
  <2>2. e.name.base # b
    BY <2>1, BaseFacts
  <2>3. e \in Of(S, <<o, "chunk", i>>)
    BY <1>7, <2>1, <2>2 DEF Of, Is
  <2> QED
    BY <1>4, <2>3 DEF Below
<1>11. u.ok => Below(S2, o, id, len, j + 1)
  <2> SUFFICES ASSUME u.ok, NEW i \in 0..(j+1)-1, NEW e \in Of(S2, <<o, "chunk", i>>)
               PROVE  IsChunk(e, o, id, len, i)
    BY DEF Below
  <2>1. i = j \/ i \in 0..j-1
    BY <1>1
  <2> QED
    BY <1>7, <1>8, <1>10, <2>1 DEF Below
<1>12. ~u.ok => \E n \in 0..(j+1)-1 : Below(S2, o, id, len, n) /\ Of(S2, <<o, "chunk", n>>) = {}
  <2>1. j \in 0..(j+1)-1
    BY <1>1
  <2> QED
    BY <1>7, <1>10, <2>1
<1>13. u.now \in Nat /\ t0 <= u.now /\ u.now <= t0 + (j + 1)
  BY <1>1, <1>3, <1>4
<1>14. Storing(c, t0, u, o, id, len, j + 1)
  <2>1. Sorted(S2, u.now)
    BY <1>3, <1>7
  <2> QED
    BY <1>7, <1>9, <1>11, <1>12, <1>13, <2>1 DEF Storing
<1>15. ASSUME Roomy(c, len), Gathered(s, t0, o, len, j), u.ok
       PROVE  LET G == Since(S2, t0)
              IN  /\ EntryBytes(G) = Upto(len, j + 1)
                  /\ \A x \in G : \E i \in 0..(j+1)-1 : x.name.base = <<o, "chunk", i>>
                  /\ \A i \in 0..(j+1)-1 : \E x \in G : x.name.base = <<o, "chunk", i>>
  <2> DEFINE F == Since(S, t0)
             G == Since(S2, t0)
  <2>1. /\ EntryBytes(F) = Upto(len, j)
        /\ \A x \in F : \E i \in 0..j-1 : x.name.base = <<o, "chunk", i>>
        /\ \A i \in 0..j-1 : \E x \in F : x.name.base = <<o, "chunk", i>>
    BY <1>15 DEF Gathered
  <2>2. \A x \in F : x.name.base # b
    <3>1. \A i \in 0..j-1 : <<o, "chunk", i>> # b
      <4>1. \A i \in 0..j-1 : i # j
        BY <1>1
      <4> QED
        BY <4>1, BaseFacts
    <3> QED
      BY <2>1, <3>1
  <2>3. s.cs.max_bytes = 0 \/ EntryBytes(F) + m <= s.cs.max_bytes
    <3>1. c.max_bytes \in Nat
      BY <1>4 DEF Table, StoresOf
    <3>3. EntryBytes(F) + m <= len
      BY <1>1, <2>1
    <3> HIDE DEF F
    <3>4. EntryBytes(F) \in Nat
      <4>1. F \in SUBSET ChunkEntries /\ IsFiniteSet(F)
        BY <1>4, EntrySetType, FS_Subset DEF Table, Since, F
      <4> QED
        BY <4>1, ChunkEntryFacts, EntryBytesFacts
    <3> QED
      BY <1>1, <1>4, <1>15, <3>1, <3>3, <3>4 DEF Roomy
  <2>4. t0 \in 0..t
    BY <1>4
  <2>5. /\ \E z : Is(z, b, Piece(id, j), m, freshness, t) /\ G = F \cup {z}
        /\ EntryBytes(G) = EntryBytes(F) + m
    BY <1>2, <1>3, <1>5, <1>15, <2>2, <2>3, <2>4 DEF Spared
  <2>6. EntryBytes(G) = Upto(len, j + 1)
    BY <1>1, <2>1, <2>5
  <2>7. PICK z : z.name.base = b /\ G = F \cup {z}
    BY <2>5 DEF Is
  <2>8. \A i \in 0..(j+1)-1 : i \in 0..j-1 \/ i = j
    BY <1>1
  <2>9. j \in 0..(j+1)-1 /\ \A i \in 0..j-1 : i \in 0..(j+1)-1
    BY <1>1
  <2> HIDE DEF F, G
  <2>10. \A x \in G : \E i \in 0..(j+1)-1 : x.name.base = <<o, "chunk", i>>
    BY <2>1, <2>7, <2>9
  <2>11. \A i \in 0..(j+1)-1 : \E x \in G : x.name.base = <<o, "chunk", i>>
    BY <2>1, <2>7, <2>8
  <2> QED
    BY <2>6, <2>10, <2>11 DEF G
<1>16. Roomy(c, len) /\ Gathered(s, t0, o, len, j) => Gathered(u, t0, o, len, j + 1)
  BY <1>15 DEF Gathered
<1> QED
  BY <1>14, <1>16

\* All the chunks, or as many as were taken.
LEMMA ChunksStored ==
  ASSUME NEW q \in Paths, NEW o, o = Object(q), NEW c, NEW t0 \in Nat,
         Table(ChunkEntries, c), Sorted(EntrySet(c), t0),
         NEW id \in Nat, NEW len \in Nat, len # 0, NEW freshness \in Nat,
         NEW u, u = StoredChunks(Progress(TRUE, c, t0), o, id, len, freshness, ChunkCount(len))
  PROVE  /\ Storing(c, t0, u, o, id, len, ChunkCount(len))
         /\ Roomy(c, len) => Gathered(u, t0, o, len, ChunkCount(len))
<1> DEFINE n == ChunkCount(len)
           s0 == Progress(TRUE, c, t0)
<1>1. n \in Nat /\ n \in 1..MaxChunks
  BY ChunkFacts, ChunkingAssumption
<1>2. PICK a : /\ a[0] = s0 /\ a[n] = StoredChunks(s0, o, id, len, freshness, n)
               /\ \A k \in 1..n :
                    a[k] = IF a[k-1].ok THEN StoreChunk(a[k-1], o, id, k - 1, len, freshness)
                                        ELSE a[k-1]
  <2> HIDE DEF n, s0
  <2> QED
    BY <1>1, StoreRounds
<1> DEFINE Good(k) == /\ Storing(c, t0, a[k], o, id, len, k)
                      /\ Roomy(c, len) => Gathered(a[k], t0, o, len, k)
           T == {k \in Nat : k <= n => Good(k)}
<1>3. 0 \in T
  <2>1. s0.ok = TRUE /\ s0.cs = c /\ s0.now = t0
    BY DEF Progress
  <2> HIDE DEF s0
  <2>0. t0 <= t0 + 0 /\ t0 <= t0 /\ \A i \in 0..0-1 : FALSE
    OBVIOUS
  <2>2. Storing(c, t0, s0, o, id, len, 0)
    <3>1. Below(EntrySet(c), o, id, len, 0)
      BY <2>0 DEF Below
    <3> QED
      BY <2>0, <2>1, <3>1 DEF Storing
  <2>3. Since(EntrySet(c), t0) = {}
    <3>1. \A x \in EntrySet(c) : x.last_access_ns < t0 /\ x.last_access_ns \in Nat
      <4>1. \A x \in EntrySet(c) : x.last_access_ns \in Nat
        BY EntrySetType, ChunkEntryFacts DEF Table
      <4> QED
        BY <4>1 DEF Sorted
    <3> QED
      BY <3>1 DEF Since
  <2>4. EntryBytes({}) = 0
    BY TotalEmpty DEF EntryBytes
  <2>5. Gathered(s0, t0, o, len, 0)
    <3>1. EntryBytes({}) = Upto(len, 0)
      BY <2>4, ChunkFacts
    <3> QED
      BY <2>0, <2>1, <2>3, <3>1 DEF Gathered
  <2> QED
    BY <1>2, <2>2, <2>5
<1>4. ASSUME NEW k \in T PROVE k + 1 \in T
  <2>1. k \in Nat /\ k + 1 \in Nat
    OBVIOUS
  <2> SUFFICES ASSUME k + 1 <= n PROVE Good(k + 1)
    BY <2>1
  <2>2. k <= n /\ k + 1 \in 1..n /\ (k + 1) - 1 = k /\ k \in 0..n-1
    BY <1>1, <2>1
  <2>3. Good(k)
    BY <2>2
  <2>4. a[k + 1] = IF a[k].ok THEN StoreChunk(a[k], o, id, k, len, freshness) ELSE a[k]
    BY <1>2, <2>2
  <2>5. CASE a[k].ok
    <3> DEFINE s == a[k]
               v == a[k + 1]
    <3>1. v = StoreChunk(s, o, id, k, len, freshness) /\ Storing(c, t0, s, o, id, len, k) /\ s.ok
      BY <2>3, <2>4, <2>5
    <3> HIDE DEF s, v
    <3>2. /\ Storing(c, t0, v, o, id, len, k + 1)
          /\ Roomy(c, len) /\ Gathered(s, t0, o, len, k) => Gathered(v, t0, o, len, k + 1)
      BY <2>2, <3>1, ChunkStep
    <3> QED
      BY <2>3, <3>2 DEF s, v
  <2>6. CASE ~a[k].ok
    <3>1. a[k + 1] = a[k]
      BY <2>4, <2>6
    <3>2. t0 + k <= t0 + (k + 1) /\ \A m \in 0..k-1 : m \in 0..(k+1)-1
      BY <2>1
    <3>3. Storing(c, t0, a[k], o, id, len, k)
      BY <2>3
    <3>4. a[k].now <= t0 + (k + 1)
      BY <2>1, <3>3 DEF Storing
    <3>5. Storing(c, t0, a[k], o, id, len, k + 1)
      BY <2>6, <3>2, <3>3, <3>4 DEF Storing
    <3> QED
      BY <2>6, <3>1, <3>5 DEF Gathered
  <2> QED
    BY <2>5, <2>6
<1>5. T = Nat
  <2> HIDE DEF T
  <2>1. T \in SUBSET Nat
    BY DEF T
  <2> QED
    BY <1>3, <1>4, <2>1, NumberInduction
<1>6. Good(n)
  BY <1>1, <1>5
<1> QED
  BY <1>2, <1>6

\* What a call that stores content in chunks leaves: it got as far as chunk n, or
\* to the manifest.
LargeStored(c, t0, u, o, id, len) ==
  LET S == EntrySet(u.cs)
  IN  /\ Table(ChunkEntries, u.cs) /\ Sorted(S, u.now) /\ u.ok \in BOOLEAN
      /\ u.now \in Nat /\ t0 <= u.now /\ u.now <= t0 + MaxChunks + 1
      /\ u.cs.max_bytes = c.max_bytes
      /\ \A e \in S : \/ e \in EntrySet(c)
                      \/ \E i \in Nat : IsChunk(e, o, id, len, i)
                      \/ e.name.base = <<o, "chunks">> /\ e.data = Manifest(len)
      /\ \E n \in 0..ChunkCount(len) :
           /\ Below(S, o, id, len, n)
           /\ \/ n < ChunkCount(len) /\ ~u.ok /\ Of(S, <<o, "chunk", n>>) = {}
              \/ /\ n = ChunkCount(len)
                 /\ \A e \in Of(S, <<o, "chunks">>) : e.data = Manifest(len)

\* Everything of the content is held.
AllThere(c, u, o, id, len) ==
  LET S == EntrySet(u.cs)
  IN  u.ok /\ len <= MaxChunks * ChunkSize /\ Roomy(c, len + ManifestLen)
      => /\ Of(S, <<o, "chunks">>) # {}
         /\ \A i \in 0..ChunkCount(len)-1 : Of(S, <<o, "chunk", i>>) # {}
         /\ Below(S, o, id, len, ChunkCount(len))

\* The chunks in turn and then the manifest: each refusal ends the call, and while
\* the content fits into the budget nothing of it is evicted for the rest.
LEMMA LargeIsStored ==
  ASSUME NEW q \in Paths, NEW o, o = Object(q), NEW c, NEW t0 \in Nat,
         Table(ChunkEntries, c), Sorted(EntrySet(c), t0),
         NEW id \in Nat, NEW len \in Nat, len # 0, NEW freshness \in Nat,
         NEW u, u = StoreLarge(Progress(TRUE, c, t0), o, id, len, freshness)
  PROVE  LargeStored(c, t0, u, o, id, len) /\ AllThere(c, u, o, id, len)
<1> DEFINE n == ChunkCount(len)
           s0 == Progress(TRUE, c, t0)
           s == StoredChunks(s0, o, id, len, freshness, n)
           b == <<o, "chunks">>
           p == Unversioned(b)
           m == Manifest(len)
           t == s.now
           r == CsStore(s.cs, NameInit(p), m, ManifestLen, freshness, t)
           S == EntrySet(s.cs)
           S2 == EntrySet(u.cs)
<1>1. n \in Nat /\ n \in 1..MaxChunks /\ MaxChunks \in Nat /\ ManifestLen \in Nat
      /\ ManifestLen # 0 /\ ManifestLen <= MaxData
  BY ChunkFacts, ChunkingAssumption
<1>2. Storing(c, t0, s, o, id, len, n) /\ (Roomy(c, len) => Gathered(s, t0, o, len, n))
  BY ChunksStored
<1>3. u = IF s.ok THEN StoreIn(s, NameInit(p), m, ManifestLen, freshness) ELSE s
  BY DEF StoreLarge, StoredChunks, ManifestName
<1> HIDE DEF n, s
<1>4. /\ Table(ChunkEntries, s.cs) /\ Sorted(S, t) /\ s.ok \in BOOLEAN
      /\ t \in Nat /\ t0 <= t /\ t <= t0 + n /\ s.cs.max_bytes = c.max_bytes
      /\ \A e \in S : e \in EntrySet(c) \/ \E i \in Nat : IsChunk(e, o, id, len, i)
      /\ s.ok => Below(S, o, id, len, n)
      /\ ~s.ok => \E k \in 0..n-1 : Below(S, o, id, len, k) /\ Of(S, <<o, "chunk", k>>) = {}
  BY <1>2 DEF Storing
<1>5. CASE ~s.ok
  <2>1. u = s
    BY <1>3, <1>5
  <2>2. PICK k \in 0..n-1 : Below(S, o, id, len, k) /\ Of(S, <<o, "chunk", k>>) = {}
    BY <1>4, <1>5
  <2>3. k \in 0..n /\ k < n
    BY <1>1
  <2>4. t <= t0 + MaxChunks + 1
    BY <1>1, <1>4
  <2>5. LargeStored(c, t0, u, o, id, len)
    BY <1>4, <1>5, <2>1, <2>2, <2>3, <2>4 DEF LargeStored, n
  <2> QED
    BY <1>5, <2>1, <2>5 DEF AllThere
<1>6. CASE s.ok
  <2>1. u.ok = r.ok /\ u.cs = r.cs /\ u.now = t + 1
    BY <1>3, <1>6 DEF StoreIn, Progress
  <2>2. p \in CallNames /\ p.base = b /\ p.hasVersion = FALSE /\ m \in Pieces
    <3>1. b \in ChunkBases
      BY ChunkBasesOf
    <3>2. m \in Pieces
      BY <1>1 DEF Manifest, Pieces, n
    <3> HIDE DEF b, m
    <3> QED
      BY <3>1, <3>2, PlainName
  <2> HIDE DEF p, m
  <2>3. /\ Stored(s.cs, r, p, m, ManifestLen, freshness, t)
        /\ \A x \in 0..t : Spared(s.cs, r, p, m, ManifestLen, freshness, t, x)
    <3> DEFINE cc == s.cs
               tt == t
    <3>1. Table(ChunkEntries, cc) /\ Sorted(EntrySet(cc), tt) /\ tt \in Nat
      BY <1>4
    <3> HIDE DEF cc, tt
    <3>2. /\ Stored(cc, CsStore(cc, NameInit(p), m, ManifestLen, freshness, tt), p, m,
                    ManifestLen, freshness, tt)
          /\ \A x \in 0..tt :
               Spared(cc, CsStore(cc, NameInit(p), m, ManifestLen, freshness, tt), p, m,
                      ManifestLen, freshness, tt, x)
      BY <1>1, <2>2, <3>1, StoreStep
    <3> QED
      BY <3>2 DEF cc, tt
  <2> HIDE DEF r
  <2>4. ~Marked(S, b)
    BY <1>4, NeverMarked
  <2>5. /\ Table(ChunkEntries, u.cs) /\ Sorted(S2, t + 1) /\ u.cs.max_bytes = c.max_bytes
        /\ u.ok \in BOOLEAN
        /\ ~u.ok => u.cs = s.cs /\ Of(S, b) = {}
        /\ \A e \in S2 : e \in S \/ Is(e, b, m, ManifestLen, freshness, t)
        /\ u.ok => \A e \in Of(S2, b) : Is(e, b, m, ManifestLen, freshness, t)
    BY <1>1, <1>4, <2>1, <2>2, <2>3, <2>4 DEF Stored
  <2>6. Below(S2, o, id, len, n)
    <3> SUFFICES ASSUME NEW i \in 0..n-1, NEW e \in Of(S2, <<o, "chunk", i>>)
                 PROVE  IsChunk(e, o, id, len, i)
      BY DEF Below
    <3>1. e.name.base = <<o, "chunk", i>> /\ e.name.base # b
      BY BaseFacts DEF Of
    <3>2. e \in Of(S, <<o, "chunk", i>>)
      BY <2>5, <3>1 DEF Of, Is
    <3> QED
      BY <1>4, <1>6, <3>2 DEF Below
  <2>7. \A e \in Of(S2, b) : e.data = m
    BY <2>5 DEF Is
  <2>8. \A e \in S2 : \/ e \in EntrySet(c)
                      \/ \E i \in Nat : IsChunk(e, o, id, len, i)
                      \/ e.name.base = b /\ e.data = m
    BY <1>4, <2>5 DEF Is
  <2>9. u.now \in Nat /\ t0 <= u.now /\ u.now <= t0 + MaxChunks + 1 /\ Sorted(S2, u.now)
    <3>1. Sorted(S2, u.now)
      BY <2>1, <2>5
    <3>2. t + 1 \in Nat /\ t0 <= t + 1 /\ t + 1 <= t0 + MaxChunks + 1
      <4> HIDE DEF t
      <4> QED
        BY <1>1, <1>4
    <3> QED
      BY <2>1, <3>1, <3>2
  <2>10. LargeStored(c, t0, u, o, id, len)
    <3>1. n \in 0..n
      BY <1>1
    <3> QED
      BY <2>5, <2>6, <2>7, <2>8, <2>9, <3>1 DEF LargeStored, n, m
  <2>11. ASSUME u.ok, len <= MaxChunks * ChunkSize, Roomy(c, len + ManifestLen)
         PROVE  Of(S2, b) # {} /\ \A i \in 0..n-1 : Of(S2, <<o, "chunk", i>>) # {}
    <3> DEFINE F == Since(S, t0)
               G == Since(S2, t0)
    <3>1. c.max_bytes \in Nat
      BY <1>4 DEF Table, StoresOf
    <3>2. Roomy(c, len)
      BY <1>1, <2>11, <3>1 DEF Roomy
    <3>3. /\ EntryBytes(F) = len
          /\ \A x \in F : \E i \in 0..n-1 : x.name.base = <<o, "chunk", i>>
          /\ \A i \in 0..n-1 : \E x \in F : x.name.base = <<o, "chunk", i>>
      BY <1>2, <1>6, <2>11, <3>2, ChunkFacts DEF Gathered, n
    <3>4. \A x \in F : x.name.base # b
      BY <3>3, BaseFacts
    <3>5. s.cs.max_bytes = 0 \/ EntryBytes(F) + ManifestLen <= s.cs.max_bytes
      BY <1>4, <2>11, <3>3 DEF Roomy
    <3>6. t0 \in 0..t
      BY <1>4
    <3>7. \E z : Is(z, b, m, ManifestLen, freshness, t) /\ G = F \cup {z}
      BY <2>1, <2>2, <2>3, <2>11, <3>4, <3>5, <3>6 DEF Spared
    <3>8. PICK z : z.name.base = b /\ G = F \cup {z}
      BY <3>7 DEF Is
    <3>9. z \in S2 /\ F \subseteq S2
      BY <3>8 DEF Since
    <3>10. Of(S2, b) # {}
      BY <3>8, <3>9 DEF Of
    <3>11. ASSUME NEW i \in 0..n-1 PROVE Of(S2, <<o, "chunk", i>>) # {}
      <4>1. PICK x \in F : x.name.base = <<o, "chunk", i>>
        BY <3>3
      <4> QED
        BY <3>9, <4>1 DEF Of
    <3> QED
      BY <3>10, <3>11
  <2>12. AllThere(c, u, o, id, len)
    BY <2>6, <2>11 DEF AllThere, n
  <2> QED
    BY <2>10, <2>12
<1> QED
  BY <1>4, <1>5, <1>6

\* Entries that differ in their last use only.
Same(e, x) ==
  /\ e.name = x.name /\ e.data = x.data /\ e.data_len = x.data_len
  /\ e.timestamp = x.timestamp /\ e.freshness_ms = x.freshness_ms

Mirrors(S2, S) ==
  /\ \A e \in S2 : \E x \in S : Same(e, x)
  /\ \A x \in S : \E e \in S2 : Same(e, x)

ReadingFields == {"ok", "cs", "now", "data", "off"}

\* What a lookup of the name with components b does inside a call.
LookedUp(s, u, b) ==
  LET S  == EntrySet(s.cs)
      S2 == EntrySet(u.cs)
  IN  /\ Table(ChunkEntries, u.cs) /\ Sorted(S2, u.now) /\ u.now = s.now + 1
      /\ u.ok \in BOOLEAN /\ DOMAIN u = ReadingFields
      /\ Mirrors(S2, S)
      /\ ~u.ok => /\ u.data = s.data /\ u.off = s.off
                  /\ \A x \in Of(S, b) : EntryExpired(x, s.now)
      /\ u.ok => \E x \in Of(S, b) :
                   u.data = Append(s.data, x.data) /\ u.off = s.off + x.data_len

\* One lookup: a hit stamps the entry it found, a miss means that every entry of the
\* name has expired.
LEMMA LookupStep ==
  ASSUME NEW s, Table(ChunkEntries, s.cs), s.now \in Nat, Sorted(EntrySet(s.cs), s.now),
         NEW b \in ChunkBases, NEW u, u = LookupIn(s, NameInit(Unversioned(b)))
  PROVE  LookedUp(s, u, b)
<1> DEFINE c == s.cs
           t == s.now
           S == EntrySet(c)
           p == Unversioned(b)
           i == LookupSlot(c, NameInit(p), t)
           e == c.entries[i]
           d == Touch(c, i, t)
           live == {x \in S : Named(x, p) /\ ~EntryExpired(x, t)}
<1>1. p.base = b /\ p.hasVersion = FALSE
  BY PlainName
<1>2. /\ u.ok = (i # 0) /\ u.cs = d /\ u.now = t + 1
      /\ u.data = IF i = 0 THEN s.data ELSE Append(s.data, e.data)
      /\ u.off = IF i = 0 THEN s.off ELSE s.off + e.data_len
  BY DEF LookupIn, Reading
<1>0. DOMAIN u = ReadingFields
  BY DEF LookupIn, Reading, ReadingFields
<1> HIDE DEF p
<1>3. S \in SUBSET ChunkEntries /\ Hashed(S) /\ Older(S, t)
      /\ \A x \in S : x.name.version \in Nat
  <2>1. S \in SUBSET ChunkEntries
    BY EntrySetType DEF Table
  <2> QED
    BY <2>1, ChunkEntryFacts DEF Sorted, Hashed, Older
<1>4. /\ live = {} => i = 0
      /\ live # {} => i \in 1..Len(c.entries) /\ e \in live
  <2>1. /\ Table(ChunkEntries, c) /\ Hashed(EntrySet(c)) /\ p.hasVersion \in BOOLEAN
        /\ \A x \in EntrySet(c) : x.name.version \in Nat
    BY <1>1, <1>3
  <2> HIDE DEF c, t
  <2> QED
    BY <2>1, LookupFinds
<1>5. live = {x \in Of(S, b) : ~EntryExpired(x, t)}
  BY <1>1 DEF Named, Of
<1>6. \A x : Same(x, x)
  BY DEF Same
<1>7. CASE live = {}
  <2>1. i = 0
    BY <1>4, <1>7
  <2>2. d = c
    BY <2>1 DEF Touch
  <2>3. u.ok = FALSE /\ u.data = s.data /\ u.off = s.off /\ u.cs = c /\ u.now = t + 1
    BY <1>2, <2>1, <2>2
  <2>4. Sorted(S, t + 1)
    <3>1. t + 1 \in Nat /\ t <= t + 1 /\ S \in SUBSET S
      OBVIOUS
    <3> QED
      BY <1>3, <3>1, SortedShrinks
  <2>5. Mirrors(S, S)
    BY <1>6 DEF Mirrors
  <2>6. \A x \in Of(S, b) : EntryExpired(x, t)
    BY <1>5, <1>7
  <2> QED
    BY <1>0, <2>3, <2>4, <2>5, <2>6 DEF LookedUp
<1>8. CASE live # {}
  <2> DEFINE y == Touched(e, t)
             S2 == EntrySet(d)
  <2>1. i \in 1..Len(c.entries) /\ e \in Of(S, b) /\ e \in S
    BY <1>4, <1>5, <1>8 DEF Of
  <2>2. i # 0
    <3>1. Len(c.entries) \in Nat
      BY EntrySetType DEF Table
    <3> HIDE DEF i
    <3> QED
      BY <2>1, <3>1
  <2>3. y \in ChunkEntries /\ Same(y, e) /\ y.last_access_ns = t
    <3>1. y \in ChunkEntries
      <4>1. e \in ChunkEntries
        BY <1>3, <2>1
      <4> HIDE DEF e
      <4> QED
        BY <4>1 DEF Touched, ChunkEntries
    <3>2. Same(y, e) /\ y.last_access_ns = t
      BY DEF Touched, Same
    <3> QED
      BY <3>1, <3>2
  <2> HIDE DEF i, y
  <2>4. Table(ChunkEntries, d) /\ S2 = (S \ {e}) \cup {y}
    BY <1>3, <2>1, <2>3, TouchTable DEF y
  <2> HIDE DEF e
  <2>5. Sorted(S2, t + 1)
    <3> DEFINE S1 == S \ {e}
    <3>1. S1 \in SUBSET S /\ S2 \subseteq S1 \cup {y}
      BY <2>4
    <3>2. y.name = e.name /\ y.timestamp = e.timestamp
      BY <2>3 DEF Same
    <3>3. /\ y.name.hash = HashText(Unversioned(y.name.base))
          /\ y.name.hasVersion => \E q \in Paths : y.name.base = q.base
          /\ \A x \in S1 : ~y.name.hasVersion /\ ~x.name.hasVersion => x.name.base # y.name.base
          /\ y.timestamp < t
      BY <2>1, <3>2 DEF Sorted
    <3>4. y.timestamp <= t /\ y.last_access_ns <= t
      BY <2>3, <3>3, ChunkEntryFacts
    <3> HIDE DEF S1, S, S2, t
    <3> QED
      BY <1>3, <2>3, <3>1, <3>3, <3>4, SortedGrows DEF S, t
  <2>6. Mirrors(S2, S)
    BY <1>6, <2>1, <2>3, <2>4 DEF Mirrors
  <2>7. u.ok = TRUE /\ u.cs = d /\ u.now = t + 1
        /\ u.data = Append(s.data, e.data) /\ u.off = s.off + e.data_len
    BY <1>2, <2>2
  <2> HIDE DEF d
  <2> QED
    BY <1>0, <2>1, <2>4, <2>5, <2>6, <2>7 DEF LookedUp
<1> QED
  BY <1>7, <1>8

\* The call has read j chunks, starting at t0 with the entries S0.
ReadTo(S0, t0, s, o, j) ==
  LET S == EntrySet(s.cs)
  IN  /\ Table(ChunkEntries, s.cs) /\ Sorted(S, s.now) /\ s.ok \in BOOLEAN
      /\ DOMAIN s = ReadingFields
      /\ s.now \in Nat /\ t0 <= s.now /\ s.now <= t0 + j
      /\ Mirrors(S, S0)
      /\ s.ok => /\ s.data \in Seq(Pieces) /\ Len(s.data) = j /\ s.off \in Nat
                 /\ \A i \in 0..j-1 :
                      \E x \in Of(S0, <<o, "chunk", i>>) : s.data[i + 1] = x.data

\* Every chunk of call id is held and stays unexpired during a lookup.
Intact(S0, t0, o, id, len) ==
  /\ Below(S0, o, id, len, ChunkCount(len))
  /\ \A i \in 0..ChunkCount(len)-1 :
       /\ Of(S0, <<o, "chunk", i>>) # {}
       /\ \A x \in Of(S0, <<o, "chunk", i>>), t \in t0..t0+MaxChunks : ~EntryExpired(x, t)

Whole(S0, t0, s, o, id, len, j) ==
  Intact(S0, t0, o, id, len) => s.ok /\ s.off = Upto(len, j)

\* Stamping entries changes none of what a lookup returns.
LEMMA MirrorFacts ==
  ASSUME NEW S, NEW S0, Mirrors(S, S0)
  PROVE  /\ \A S2 : Mirrors(S2, S) => Mirrors(S2, S0)
         /\ \A b : \A x \in Of(S, b) : \E y \in Of(S0, b) : Same(x, y)
         /\ \A b : \A y \in Of(S0, b) : \E x \in Of(S, b) : Same(x, y)
         /\ \A x, y, t : Same(x, y) => (EntryExpired(x, t) <=> EntryExpired(y, t))
<1>1. \A x, y, z : Same(x, y) /\ Same(y, z) => Same(x, z)
  BY DEF Same
<1>2. ASSUME NEW S2, Mirrors(S2, S) PROVE Mirrors(S2, S0)
  <2>1. \A e \in S2 : \E x \in S0 : Same(e, x)
    BY <1>1, <1>2 DEF Mirrors
  <2>2. \A x \in S0 : \E e \in S2 : Same(e, x)
    BY <1>1, <1>2 DEF Mirrors
  <2> QED
    BY <2>1, <2>2 DEF Mirrors
<1>3. \A x, y, t : Same(x, y) => (EntryExpired(x, t) <=> EntryExpired(y, t))
  BY DEF Same, EntryExpired
<1>4. \A b : \A x \in Of(S, b) : \E y \in Of(S0, b) : Same(x, y)
  BY DEF Mirrors, Of, Same
<1>5. \A b : \A y \in Of(S0, b) : \E x \in Of(S, b) : Same(x, y)
  BY DEF Mirrors, Of, Same
<1> QED
  BY <1>2, <1>3, <1>4, <1>5

\* One chunk more.
LEMMA ReadStep ==
  ASSUME NEW q \in Paths, NEW o, o = Object(q), NEW S0, NEW t0 \in Nat, NEW j \in Nat,
         NEW s, ReadTo(S0, t0, s, o, j), s.ok, NEW u, u = LookupIn(s, ChunkName(o, j))
  PROVE  /\ ReadTo(S0, t0, u, o, j + 1)
         /\ \A id, len : /\ id \in Nat /\ len \in Nat /\ len # 0 /\ j < ChunkCount(len)
                         /\ Whole(S0, t0, s, o, id, len, j)
                         => Whole(S0, t0, u, o, id, len, j + 1)
<1> DEFINE b == <<o, "chunk", j>>
           S == EntrySet(s.cs)
           S2 == EntrySet(u.cs)
<1>1. /\ Table(ChunkEntries, s.cs) /\ Sorted(S, s.now)
      /\ s.now \in Nat /\ t0 <= s.now /\ s.now <= t0 + j /\ Mirrors(S, S0)
      /\ s.data \in Seq(Pieces) /\ Len(s.data) = j /\ s.off \in Nat
      /\ \A i \in 0..j-1 : \E x \in Of(S0, <<o, "chunk", i>>) : s.data[i + 1] = x.data
  BY DEF ReadTo
<1>2. LookedUp(s, u, b)
  <2>1. b \in ChunkBases
    BY ChunkBasesOf
  <2> QED
    BY <1>1, <2>1, LookupStep DEF ChunkName
<1>3. /\ Table(ChunkEntries, u.cs) /\ Sorted(S2, u.now) /\ u.now = s.now + 1 /\ u.ok \in BOOLEAN
      /\ DOMAIN u = ReadingFields
      /\ Mirrors(S2, S)
      /\ ~u.ok => \A x \in Of(S, b) : EntryExpired(x, s.now)
      /\ u.ok => \E x \in Of(S, b) :
                   u.data = Append(s.data, x.data) /\ u.off = s.off + x.data_len
  BY <1>2 DEF LookedUp
<1>4. Mirrors(S2, S0)
  BY <1>1, <1>3, MirrorFacts
<1>5. \A x \in S : x \in ChunkEntries
  BY <1>1, EntrySetType DEF Table
<1>6. u.now \in Nat /\ t0 <= u.now /\ u.now <= t0 + (j + 1)
  BY <1>1, <1>3
<1>7. ASSUME u.ok
      PROVE  /\ u.data \in Seq(Pieces) /\ Len(u.data) = j + 1 /\ u.off \in Nat
             /\ \A i \in 0..(j+1)-1 :
                  \E x \in Of(S0, <<o, "chunk", i>>) : u.data[i + 1] = x.data
  <2>1. PICK x \in Of(S, b) : u.data = Append(s.data, x.data) /\ u.off = s.off + x.data_len
    BY <1>3, <1>7
  <2>2. x.data \in Pieces /\ x.data_len \in Nat
    BY <1>5, ChunkEntryFacts DEF Of
  <2>3. PICK y \in Of(S0, b) : x.data = y.data
    BY <1>1, MirrorFacts DEF Same
  <2>4. /\ u.data \in Seq(Pieces) /\ Len(u.data) = j + 1 /\ u.off \in Nat
        /\ u.data[j + 1] = x.data
        /\ \A i \in 0..j-1 : u.data[i + 1] = s.data[i + 1]
    <3> DEFINE d == s.data
               v == x.data
               l == x.data_len
    <3>1. \A i \in 0..j-1 : i + 1 \in 1..j
      OBVIOUS
    <3>2. d \in Seq(Pieces) /\ Len(d) = j /\ v \in Pieces /\ l \in Nat /\ s.off \in Nat
      BY <1>1, <2>2
    <3>3. u.data = Append(d, v) /\ u.off = s.off + l
      BY <2>1
    <3> HIDE DEF d, v, l
    <3>4. Append(d, v) \in Seq(Pieces) /\ Len(Append(d, v)) = j + 1 /\ Append(d, v)[j + 1] = v
      BY <3>2
    <3>5. \A i \in 1..j : Append(d, v)[i] = d[i]
      BY <3>2
    <3>6. u.off \in Nat
      BY <3>2, <3>3
    <3> QED
      BY <3>1, <3>3, <3>4, <3>5, <3>6 DEF d, v
  <2>5. \A i \in 0..(j+1)-1 : i \in 0..j-1 \/ i = j
    OBVIOUS
  <2>6. ASSUME NEW i \in 0..(j+1)-1
        PROVE  \E z \in Of(S0, <<o, "chunk", i>>) : u.data[i + 1] = z.data
    <3>1. CASE i = j
      BY <2>3, <2>4, <3>1
    <3>2. CASE i \in 0..j-1
      BY <1>1, <2>4, <3>2
    <3> QED
      BY <2>5, <3>1, <3>2
  <2> QED
    BY <2>4, <2>6
<1>8. ReadTo(S0, t0, u, o, j + 1)
  BY <1>3, <1>4, <1>6, <1>7 DEF ReadTo
<1>9. ASSUME NEW id \in Nat, NEW len \in Nat, len # 0, j < ChunkCount(len),
             Whole(S0, t0, s, o, id, len, j), Intact(S0, t0, o, id, len)
      PROVE  u.ok /\ u.off = Upto(len, j + 1)
  <2>0. ChunkCount(len) \in Nat /\ ChunkCount(len) <= MaxChunks /\ MaxChunks \in Nat
    BY <1>9, ChunkFacts, ChunkingAssumption
  <2>1. j \in 0..ChunkCount(len)-1 /\ s.now \in t0..t0+MaxChunks
    BY <1>1, <1>9, <2>0
  <2>2. \A x \in Of(S, b) : ~EntryExpired(x, s.now) /\ x.data_len = ChunkLen(len, j)
    <3> SUFFICES ASSUME NEW x \in Of(S, b)
                 PROVE  ~EntryExpired(x, s.now) /\ x.data_len = ChunkLen(len, j)
      OBVIOUS
    <3>1. PICK y \in Of(S0, b) : Same(x, y)
      BY <1>1, MirrorFacts
    <3>2. ~EntryExpired(y, s.now)
      BY <1>9, <2>1 DEF Intact
    <3>3. y.data_len = ChunkLen(len, j)
      BY <1>9, <2>1 DEF Intact, Below, IsChunk
    <3>4. EntryExpired(x, s.now) <=> EntryExpired(y, s.now)
      BY <1>1, <3>1, MirrorFacts
    <3> QED
      BY <3>1, <3>2, <3>3, <3>4 DEF Same
  <2>3. Of(S, b) # {}
    <3>1. PICK y \in Of(S0, b) : TRUE
      BY <1>9, <2>1 DEF Intact
    <3> QED
      BY <1>1, MirrorFacts
  <2>4. u.ok
    BY <1>3, <2>2, <2>3
  <2>5. u.off = s.off + ChunkLen(len, j)
    BY <1>3, <2>2, <2>4
  <2>6. s.off = Upto(len, j)
    BY <1>9 DEF Whole
  <2>7. Upto(len, j) + ChunkLen(len, j) = Upto(len, j + 1)
    BY <1>9, <2>1, ChunkFacts
  <2> QED
    BY <2>4, <2>5, <2>6, <2>7
<1> QED
  BY <1>8, <1>9 DEF Whole

\* The whole loop.
LEMMA ChunksRead ==
  ASSUME NEW q \in Paths, NEW o, o = Object(q), NEW n \in Nat,
         NEW s, ReadTo(EntrySet(s.cs), s.now, s, o, 0), s.ok, s.off = 0,
         NEW u, u = ReadUpTo(s, o, n)
  PROVE  /\ ReadTo(EntrySet(s.cs), s.now, u, o, n)
         /\ \A id, len : id \in Nat /\ len \in Nat /\ len # 0 /\ n = ChunkCount(len)
                         => Whole(EntrySet(s.cs), s.now, u, o, id, len, n)
<1> DEFINE S0 == EntrySet(s.cs)
           t0 == s.now
<1>1. PICK a : /\ a[0] = s /\ a[n] = u
               /\ \A k \in 1..n :
                    a[k] = IF a[k-1].ok THEN LookupIn(a[k-1], ChunkName(o, k - 1)) ELSE a[k-1]
  BY ReadRounds
<1>0. t0 \in Nat
  BY DEF ReadTo
<1> DEFINE Kept(k) == \A id, len :
                        id \in Nat /\ len \in Nat /\ len # 0 /\ n = ChunkCount(len)
                          => Whole(S0, t0, a[k], o, id, len, k)
           Good(k) == ReadTo(S0, t0, a[k], o, k) /\ Kept(k)
           T == {k \in Nat : k <= n => Good(k)}
<1>2. 0 \in T
  <2>1. Kept(0)
    BY <1>1, ChunkFacts DEF Whole
  <2> QED
    BY <1>1, <2>1
<1> HIDE DEF S0, t0
<1>3. ASSUME NEW k \in T PROVE k + 1 \in T
  <2>1. k \in Nat /\ k + 1 \in Nat
    OBVIOUS
  <2> SUFFICES ASSUME k + 1 <= n PROVE Good(k + 1)
    BY <2>1
  <2>2. k <= n /\ k + 1 \in 1..n /\ (k + 1) - 1 = k /\ k < n
    BY <2>1
  <2>3. Good(k)
    BY <2>2
  <2>4. a[k + 1] = IF a[k].ok THEN LookupIn(a[k], ChunkName(o, k)) ELSE a[k]
    BY <1>1, <2>2
  <2>5. CASE a[k].ok
    <3> DEFINE v == a[k]
               w == a[k + 1]
    <3>1. w = LookupIn(v, ChunkName(o, k)) /\ ReadTo(S0, t0, v, o, k) /\ v.ok
      BY <2>3, <2>4, <2>5
    <3> HIDE DEF v, w
    <3>2. /\ ReadTo(S0, t0, w, o, k + 1)
          /\ \A id, len : /\ id \in Nat /\ len \in Nat /\ len # 0 /\ k < ChunkCount(len)
                          /\ Whole(S0, t0, v, o, id, len, k)
                          => Whole(S0, t0, w, o, id, len, k + 1)
      BY <1>0, <2>1, <3>1, ReadStep
    <3>3. Kept(k + 1)
      BY <2>2, <2>3, <3>2 DEF v, w
    <3> QED
      BY <3>2, <3>3 DEF w
  <2>6. CASE ~a[k].ok
    <3>1. a[k + 1] = a[k]
      BY <2>4, <2>6
    <3>2. ReadTo(S0, t0, a[k], o, k)
      BY <2>3
    <3>3. a[k].now <= t0 + (k + 1)
      BY <1>0, <2>1, <3>2 DEF ReadTo
    <3>4. ReadTo(S0, t0, a[k], o, k + 1)
      BY <2>6, <3>2, <3>3 DEF ReadTo
    <3>5. Kept(k + 1)
      BY <2>3, <2>6, <3>1 DEF Whole
    <3> QED
      BY <3>1, <3>4, <3>5
  <2> QED
    BY <2>5, <2>6
<1>4. T = Nat
  <2> HIDE DEF T
  <2>1. T \in SUBSET Nat
    BY DEF T
  <2> QED
    BY <1>2, <1>3, <2>1, NumberInduction
<1>5. Good(n)
  BY <1>4
<1> QED
  BY <1>1, <1>5 DEF S0, t0

----------------------------------------------------------------------------
(* Content in chunks: the calls *)

\* A path without a version is the name of its components.
LEMMA PlainPath ==
  ASSUME NEW p \in Paths, ~p.hasVersion
  PROVE  NameInit(p) = NameInit(Unversioned(<<Object(p)>>))
<1>1. p = Path(p.base, p.version, p.hasVersion) /\ p.version = 0 /\ p.hasVersion = FALSE
  BY PathType
<1>2. p.base = <<Object(p)>>
  BY ChunkBasesOf
<1> QED
  BY <1>1, <1>2 DEF Unversioned

\* What psirp_cs_lookup_chunked does: it returns an entry of the name, or the
\* chunks a manifest counts.
Got(c, t, r, o) ==
  LET S == EntrySet(c)
  IN  /\ Table(ChunkEntries, r.cs) /\ Sorted(EntrySet(r.cs), r.now) /\ r.ok \in BOOLEAN
      /\ r.now \in Nat /\ t <= r.now /\ r.now <= t + MaxChunks + 1
      /\ Mirrors(EntrySet(r.cs), S)
      /\ r.ok =>
           \/ \E x \in Of(S, <<o>>) : r.data = <<x.data>> /\ r.off = x.data_len
           \/ \E m \in Of(S, <<o, "chunks">>) :
                /\ r.data \in Seq(Pieces) /\ Len(r.data) = m.data.chunk_count
                /\ r.off = m.data.total_len
                /\ \A i \in 0..m.data.chunk_count-1 :
                     \E x \in Of(S, <<o, "chunk", i>>) : r.data[i + 1] = x.data

\* By the version in the path, whether there is a manifest, and its length.
LEMMA LookupGets ==
  ASSUME NEW p \in Paths, NEW o, o = Object(p), NEW c, NEW t \in Nat,
         Table(ChunkEntries, c), Sorted(EntrySet(c), t),
         \A e \in Of(EntrySet(c), <<o, "chunks">>) :
           \E len \in Nat : len # 0 /\ e.data = Manifest(len),
         NEW cap, NEW r, r = LookupChunked(c, p, cap, t)
  PROVE  Got(c, t, r, o)
<1> DEFINE S == EntrySet(c)
           s0 == Reading(FALSE, c, t, <<>>, 0)
           m == LookupIn(s0, ManifestName(o))
           d == LookupIn(m, NameInit(p))
           n == m.data[1].chunk_count
           s1 == [m EXCEPT !.data = <<>>, !.off = 0]
           u == ReadUpTo(s1, o, n)
<1>1. /\ s0.ok = FALSE /\ s0.cs = c /\ s0.now = t /\ s0.data = <<>> /\ s0.off = 0
  BY DEF Reading
<1>2. /\ p.hasVersion => r = s0
      /\ ~p.hasVersion /\ ~m.ok => r = [d EXCEPT !.ok = d.ok /\ d.off <= cap]
      /\ ~p.hasVersion /\ m.ok /\ m.data[1].total_len > cap => r = [m EXCEPT !.ok = FALSE]
      /\ ~p.hasVersion /\ m.ok /\ ~(m.data[1].total_len > cap)
           => r = [u EXCEPT !.ok = Complete(u, m.data[1])]
  <2>1. r = IF p.hasVersion THEN s0
            ELSE IF ~m.ok THEN [d EXCEPT !.ok = d.ok /\ d.off <= cap]
            ELSE IF m.data[1].total_len > cap THEN [m EXCEPT !.ok = FALSE]
            ELSE ReadChunks(s1, o, m.data[1])
    BY DEF LookupChunked
  <2>2. ReadChunks(s1, o, m.data[1]) = [u EXCEPT !.ok = Complete(u, m.data[1])]
    BY DEF ReadChunks, ReadUpTo
  <2> HIDE DEF s0, m, d, n, s1, u
  <2> QED
    BY <2>1, <2>2
<1> HIDE DEF s0, m, d, n, s1, u
<1>3. <<o>> \in ChunkBases /\ <<o, "chunks">> \in ChunkBases
  BY ChunkBasesOf
<1>4. \A x : Same(x, x)
  BY DEF Same
<1>5. MaxChunks \in Nat /\ MaxChunks >= 1
  BY ChunkingAssumption
<1>6. LookedUp(s0, m, <<o, "chunks">>)
  BY <1>1, <1>3, LookupStep DEF ManifestName, m
<1>7. /\ Table(ChunkEntries, m.cs) /\ Sorted(EntrySet(m.cs), m.now) /\ m.now = t + 1
      /\ m.ok \in BOOLEAN /\ DOMAIN m = ReadingFields /\ Mirrors(EntrySet(m.cs), S)
      /\ ~m.ok => m.data = <<>> /\ m.off = 0
      /\ m.ok => \E x \in Of(S, <<o, "chunks">>) : m.data = Append(<<>>, x.data)
  BY <1>1, <1>6 DEF LookedUp
<1>8. CASE p.hasVersion
  <2>1. r = s0
    BY <1>2, <1>8
  <2>2. Mirrors(S, S)
    BY <1>4 DEF Mirrors
  <2>3. t <= t /\ t <= t + MaxChunks + 1
    BY <1>5
  <2> QED
    BY <1>1, <2>1, <2>2, <2>3 DEF Got
<1>9. CASE ~p.hasVersion /\ ~m.ok
  <2>1. LookedUp(m, d, <<o>>)
    <3>1. NameInit(p) = NameInit(Unversioned(<<o>>)) /\ m.now \in Nat
      BY <1>7, <1>9, PlainPath
    <3> QED
      BY <1>3, <1>7, <3>1, LookupStep DEF d
  <2>2. /\ Table(ChunkEntries, d.cs) /\ Sorted(EntrySet(d.cs), d.now) /\ d.now = t + 1 + 1
        /\ d.ok \in BOOLEAN /\ DOMAIN d = ReadingFields /\ Mirrors(EntrySet(d.cs), EntrySet(m.cs))
        /\ d.ok => \E x \in Of(EntrySet(m.cs), <<o>>) :
                     d.data = Append(<<>>, x.data) /\ d.off = 0 + x.data_len
    BY <1>7, <1>9, <2>1 DEF LookedUp
  <2>3. r = [d EXCEPT !.ok = d.ok /\ d.off <= cap]
    BY <1>2, <1>9
  <2>4. /\ r.cs = d.cs /\ r.now = d.now /\ r.data = d.data /\ r.off = d.off
        /\ r.ok = (d.ok /\ d.off <= cap)
    BY <2>2, <2>3 DEF ReadingFields
  <2>5. Mirrors(EntrySet(r.cs), S)
    BY <1>7, <2>2, <2>4, MirrorFacts
  <2>6. r.ok => \E x \in Of(S, <<o>>) : r.data = <<x.data>> /\ r.off = x.data_len
    <3> SUFFICES ASSUME r.ok
                 PROVE  \E x \in Of(S, <<o>>) : r.data = <<x.data>> /\ r.off = x.data_len
      OBVIOUS
    <3>1. PICK x \in Of(EntrySet(m.cs), <<o>>) :
            d.data = Append(<<>>, x.data) /\ d.off = 0 + x.data_len
      BY <2>2, <2>4
    <3>2. PICK y \in Of(S, <<o>>) : Same(x, y)
      BY <1>7, MirrorFacts
    <3>3. x.data_len \in Nat
      BY <1>7, EntrySetType, ChunkEntryFacts DEF Table, Of
    <3>4. r.data = <<y.data>> /\ r.off = y.data_len
      BY <2>4, <3>1, <3>2, <3>3 DEF Same
    <3> QED
      BY <3>4
  <2>7. r.now \in Nat /\ t <= r.now /\ r.now <= t + MaxChunks + 1
    BY <1>5, <2>2, <2>4
  <2>8. r.ok \in BOOLEAN
    BY <2>2, <2>4
  <2> QED
    BY <2>2, <2>4, <2>5, <2>6, <2>7, <2>8 DEF Got
<1>10. ASSUME m.ok
       PROVE  /\ \E x \in Of(S, <<o, "chunks">>) : m.data[1] = x.data
              /\ \E len \in Nat : len # 0 /\ m.data[1] = Manifest(len)
              /\ n \in Nat /\ n <= MaxChunks
  <2>1. PICK x \in Of(S, <<o, "chunks">>) : m.data = Append(<<>>, x.data)
    BY <1>7, <1>10
  <2>2. m.data[1] = x.data
    BY <2>1
  <2>3. PICK len \in Nat : len # 0 /\ x.data = Manifest(len)
    OBVIOUS
  <2>4. Manifest(len).chunk_count = ChunkCount(len)
    BY DEF Manifest
  <2>5. ChunkCount(len) \in 1..MaxChunks
    BY <2>3, ChunkFacts
  <2>6. n \in Nat /\ n <= MaxChunks
    BY <1>5, <2>2, <2>3, <2>4, <2>5 DEF n
  <2> QED
    BY <2>2, <2>3, <2>6
<1>11. CASE ~p.hasVersion /\ m.ok /\ m.data[1].total_len > cap
  <2>1. r = [m EXCEPT !.ok = FALSE]
    BY <1>2, <1>11
  <2>2. r.cs = m.cs /\ r.now = m.now /\ r.ok = FALSE
    BY <1>7, <2>1 DEF ReadingFields
  <2>3. m.now \in Nat /\ t <= m.now /\ m.now <= t + MaxChunks + 1
    BY <1>5, <1>7
  <2> QED
    BY <1>7, <2>2, <2>3 DEF Got
<1>12. CASE ~p.hasVersion /\ m.ok /\ ~(m.data[1].total_len > cap)
  <2>1. /\ s1.cs = m.cs /\ s1.now = t + 1 /\ s1.ok = m.ok /\ s1.data = <<>> /\ s1.off = 0
        /\ DOMAIN s1 = ReadingFields
    BY <1>7 DEF ReadingFields, s1
  <2> DEFINE S1 == EntrySet(s1.cs)
  <2>2. ReadTo(S1, s1.now, s1, o, 0)
    <3>1. Mirrors(S1, S1)
      BY <1>4 DEF Mirrors
    <3>2. <<>> \in Seq(Pieces) /\ Len(<<>>) = 0 /\ \A i \in 0..0-1 : FALSE
      OBVIOUS
    <3>3. s1.now \in Nat /\ s1.now <= s1.now /\ s1.now <= s1.now + 0
      BY <2>1
    <3> QED
      BY <1>7, <2>1, <3>1, <3>2, <3>3 DEF ReadTo
  <2>3. ReadTo(S1, s1.now, u, o, n)
    BY <1>10, <1>12, <2>1, <2>2, ChunksRead DEF u
  <2>4. /\ Table(ChunkEntries, u.cs) /\ Sorted(EntrySet(u.cs), u.now) /\ u.ok \in BOOLEAN
        /\ DOMAIN u = ReadingFields
        /\ u.now \in Nat /\ t + 1 <= u.now /\ u.now <= t + 1 + n
        /\ Mirrors(EntrySet(u.cs), S1)
        /\ u.ok => /\ u.data \in Seq(Pieces) /\ Len(u.data) = n
                   /\ \A i \in 0..n-1 : \E x \in Of(S1, <<o, "chunk", i>>) : u.data[i + 1] = x.data
    BY <2>1, <2>3 DEF ReadTo
  <2>5. Mirrors(EntrySet(u.cs), S)
    BY <1>7, <2>1, <2>4, MirrorFacts
  <2>6. r = [u EXCEPT !.ok = Complete(u, m.data[1])]
    BY <1>2, <1>12
  <2>7. /\ r.cs = u.cs /\ r.now = u.now /\ r.data = u.data /\ r.off = u.off
        /\ r.ok = (u.ok /\ u.off = m.data[1].total_len)
    BY <2>4, <2>6 DEF ReadingFields, Complete
  <2>8. r.now \in Nat /\ t <= r.now /\ r.now <= t + MaxChunks + 1
    BY <1>5, <1>10, <1>12, <2>4, <2>7
  <2>9. PICK x \in Of(S, <<o, "chunks">>) : m.data[1] = x.data
    BY <1>10, <1>12
  <2>10. n = x.data.chunk_count
    BY <2>9 DEF n
  <2>11. ASSUME r.ok
         PROVE  /\ r.data \in Seq(Pieces) /\ Len(r.data) = x.data.chunk_count
                /\ r.off = x.data.total_len
                /\ \A i \in 0..x.data.chunk_count-1 :
                     \E y \in Of(S, <<o, "chunk", i>>) : r.data[i + 1] = y.data
    <3>1. ASSUME NEW i \in 0..n-1 PROVE \E y \in Of(S, <<o, "chunk", i>>) : r.data[i + 1] = y.data
      <4>1. PICK z \in Of(S1, <<o, "chunk", i>>) : u.data[i + 1] = z.data
        BY <2>4, <2>7, <2>11
      <4>2. PICK y \in Of(S, <<o, "chunk", i>>) : Same(z, y)
        BY <1>7, <2>1, MirrorFacts
      <4> QED
        BY <2>7, <4>1, <4>2 DEF Same
    <3> QED
      BY <2>4, <2>7, <2>9, <2>10, <2>11, <3>1
  <2>12. r.ok \in BOOLEAN
    BY <2>4, <2>7
  <2> QED
    BY <2>4, <2>5, <2>7, <2>8, <2>11, <2>12 DEF Got
<1> QED
  BY <1>7, <1>8, <1>9, <1>11, <1>12

----------------------------------------------------------------------------
(* Content in chunks: the invariant *)

Puts == Seq([path : Paths, len : Lengths, ok : BOOLEAN])

\* The history of the calls after one more.
OneMore(P, P2, path, len, ok, id) ==
  /\ P2 \in Puts /\ Len(P2) = id /\ id \in Nat
  /\ P2[id].path = path /\ P2[id].len = len /\ P2[id].ok = ok
  /\ id \notin 1..Len(P)
  /\ \A k \in 1..Len(P) : P2[k] = P[k] /\ k <= id
  /\ \A o : LargeTries(P2, o) =
              LargeTries(P, o) \cup
                (IF Object(path) = o /\ ~path.hasVersion /\ len > ChunkSize THEN {id} ELSE {})
  /\ \A o : SmallStores(P2, o) =
              SmallStores(P, o) \cup
                (IF Object(path) = o /\ ok /\ len <= ChunkSize THEN {id} ELSE {})

\* Calls are numbered in the order they happened.
LEMMA CallNumbers ==
  ASSUME NEW P \in Puts, NEW o
  PROVE  /\ Len(P) \in Nat
         /\ LargeTries(P, o) \in SUBSET (1..Len(P)) /\ SmallStores(P, o) \in SUBSET (1..Len(P))
         /\ \A k \in LargeTries(P, o) :
              /\ P[k].len \in Nat /\ P[k].len > ChunkSize /\ P[k].len # 0
              /\ P[k].ok \in BOOLEAN
         /\ \A k \in SmallStores(P, o) : P[k].len \in Nat /\ P[k].path \in Paths
<1>1. Len(P) \in Nat /\ DOMAIN P = 1..Len(P)
  BY DEF Puts
<1>2. \A k \in 1..Len(P) : P[k].len \in Nat /\ P[k].ok \in BOOLEAN /\ P[k].path \in Paths
  <2> DEFINE R == [path : Paths, len : Lengths, ok : BOOLEAN]
  <2>1. \A k \in 1..Len(P) : P[k] \in R
    <3> HIDE DEF R
    <3>1. P \in Seq(R)
      BY DEF Puts, R
    <3> QED
      BY <3>1
  <2>2. Lengths \subseteq Nat
    BY ContentStoreAssumption
  <2> QED
    BY <2>1, <2>2
<1>3. ChunkSize \in Nat
  BY ChunkingAssumption
<1> QED
  BY <1>1, <1>2, <1>3 DEF LargeTries, SmallStores, PutOf

\* A call is the last of the history.
LEMMA HistoryGrows ==
  ASSUME NEW P \in Puts, NEW path \in Paths, NEW len \in Lengths, NEW ok \in BOOLEAN,
         NEW id, id = Len(P) + 1, NEW P2, P2 = Append(P, [path |-> path, len |-> len, ok |-> ok])
  PROVE  OneMore(P, P2, path, len, ok, id)
<1> DEFINE x == [path |-> path, len |-> len, ok |-> ok]
<1>1. Len(P) \in Nat /\ DOMAIN P = 1..Len(P)
  BY DEF Puts
<1>2. /\ P2 \in Puts /\ Len(P2) = id /\ DOMAIN P2 = 1..id /\ P2[id] = x
      /\ \A k \in 1..Len(P) : P2[k] = P[k]
  <2>1. x \in [path : Paths, len : Lengths, ok : BOOLEAN]
    OBVIOUS
  <2> HIDE DEF x
  <2> QED
    BY <1>1, <2>1 DEF Puts, x
<1>3. x.path = path /\ x.len = len /\ x.ok = ok
  OBVIOUS
<1> HIDE DEF x
<1>4. id \in Nat /\ id \notin 1..Len(P) /\ \A k \in 1..Len(P) : k <= id
  BY <1>1
<1>5. \A k : k \in 1..id <=> k \in 1..Len(P) \/ k = id
  BY <1>1
<1>6. ASSUME NEW o
      PROVE  LargeTries(P2, o) =
               LargeTries(P, o) \cup
                 (IF Object(path) = o /\ ~path.hasVersion /\ len > ChunkSize THEN {id} ELSE {})
  <2>1. \A k : k \in LargeTries(P2, o) <=>
               \/ k \in LargeTries(P, o)
               \/ k = id /\ Object(path) = o /\ ~path.hasVersion /\ len > ChunkSize
    BY <1>1, <1>2, <1>3, <1>4, <1>5 DEF LargeTries, PutOf
  <2> QED
    BY <2>1
<1>7. ASSUME NEW o
      PROVE  SmallStores(P2, o) =
               SmallStores(P, o) \cup
                 (IF Object(path) = o /\ ok /\ len <= ChunkSize THEN {id} ELSE {})
  <2>1. \A k : k \in SmallStores(P2, o) <=>
               \/ k \in SmallStores(P, o)
               \/ k = id /\ Object(path) = o /\ ok /\ len <= ChunkSize
    BY <1>1, <1>2, <1>3, <1>4, <1>5 DEF SmallStores, PutOf
  <2> QED
    BY <2>1
<1> QED
  BY <1>2, <1>3, <1>4, <1>6, <1>7 DEF OneMore

\* The entries of a name that are left are as before but for their last use.
Kept(S2, S, b) ==
  \A e \in Of(S2, b) : \E x \in Of(S, b) :
    e.name = x.name /\ e.data = x.data /\ e.data_len = x.data_len

\* Entries that are dropped, moved or used stay right.
LEMMA KeepsDirect ==
  ASSUME NEW S, NEW S2, NEW P, NEW P2, NEW o, DirectRight(S, P, o), Kept(S2, S, <<o>>),
         SmallStores(P2, o) = SmallStores(P, o),
         \A k \in SmallStores(P, o) : P2[k] = P[k]
  PROVE  DirectRight(S2, P2, o)
BY DEF DirectRight, Kept

LEMMA KeepsChunks ==
  ASSUME NEW S, NEW S2, NEW P, NEW P2, NEW o, ChunksRight(S, P, o), ManifestsRight(S, P, o),
         \A i : Kept(S2, S, <<o, "chunk", i>>), Kept(S2, S, <<o, "chunks">>),
         LargeTries(P2, o) = LargeTries(P, o),
         \A k \in LargeTries(P, o) : P2[k] = P[k]
  PROVE  ChunksRight(S2, P2, o) /\ ManifestsRight(S2, P2, o)
<1>1. ManifestsRight(S2, P2, o)
  BY DEF ManifestsRight, Kept
<1>2. ASSUME NEW k \in LargeTries(P, o), NEW n, GotTo(S, P, o, k, n)
      PROVE  GotTo(S2, P2, o, k, n)
  <2>1. P2[k] = P[k]
    OBVIOUS
  <2>2. ChunksOf(S2, P2, o, k, n)
    BY <1>2, <2>1 DEF GotTo, ChunksOf, Kept
  <2>3. Of(S, <<o, "chunk", n>>) = {} => Of(S2, <<o, "chunk", n>>) = {}
    BY DEF Kept
  <2>4. \A e \in Of(S2, <<o, "chunks">>) : \E x \in Of(S, <<o, "chunks">>) : e.data = x.data
    BY DEF Kept
  <2> QED
    BY <1>2, <2>1, <2>2, <2>3, <2>4 DEF GotTo
<1>3. ChunksRight(S2, P2, o)
  <2> SUFFICES ASSUME NEW k \in LargeTries(P, o), \A j \in LargeTries(P, o) : j <= k
               PROVE  \E n \in 0..ChunkCount(P2[k].len) : GotTo(S2, P2, o, k, n)
    BY DEF ChunksRight
  <2>1. PICK n \in 0..ChunkCount(P[k].len) : GotTo(S, P, o, k, n)
    BY DEF ChunksRight
  <2>2. P2[k] = P[k]
    OBVIOUS
  <2> QED
    BY <1>2, <2>1, <2>2
<1> QED
  BY <1>1, <1>3

\* If nothing of an object is written and the calls about it are the same, its
\* entries stay right.
LEMMA KeepsRight ==
  ASSUME NEW S, NEW S2, NEW P \in Puts, NEW P2, NEW o, ObjectRight(S, P, o),
         \A b : (b = <<o>> \/ b = <<o, "chunks">> \/ \E i : b = <<o, "chunk", i>>)
                => Kept(S2, S, b),
         LargeTries(P2, o) = LargeTries(P, o), SmallStores(P2, o) = SmallStores(P, o),
         \A k \in 1..Len(P) : P2[k] = P[k]
  PROVE  ObjectRight(S2, P2, o)
<1>1. /\ \A k \in LargeTries(P, o) : P2[k] = P[k]
      /\ \A k \in SmallStores(P, o) : P2[k] = P[k]
  BY CallNumbers
<1>2. DirectRight(S2, P2, o)
  BY <1>1, KeepsDirect DEF ObjectRight
<1>3. ChunksRight(S2, P2, o) /\ ManifestsRight(S2, P2, o)
  BY <1>1, KeepsChunks DEF ObjectRight
<1> QED
  BY <1>2, <1>3 DEF ObjectRight

\* The same for a call that leaves the table alone.
LEMMA UncalledRight ==
  ASSUME NEW S, NEW P \in Puts, NEW P2, NEW o, ObjectRight(S, P, o),
         LargeTries(P2, o) = LargeTries(P, o), SmallStores(P2, o) = SmallStores(P, o),
         \A k \in 1..Len(P) : P2[k] = P[k]
  PROVE  ObjectRight(S, P2, o)
<1>1. \A b : Kept(S, S, b)
  BY DEF Kept
<1>2. \A b : (b = <<o>> \/ b = <<o, "chunks">> \/ \E i : b = <<o, "chunk", i>>)
             => Kept(S, S, b)
  BY <1>1
<1> QED
  BY <1>2, KeepsRight

\* The names of an object's entries.
NameOf(b, o) == b = <<o>> \/ b = <<o, "chunks">> \/ \E i : b = <<o, "chunk", i>>

\* Two objects share no name.
LEMMA NamesApart ==
  ASSUME NEW o, NEW q, NEW b, NameOf(b, o), NameOf(b, q)
  PROVE  o = q
<1>1. \A x : NameOf(b, x) => b[1] = x
  BY DEF NameOf
<1> QED
  BY <1>1

\* What every object's entries say stays right if a call stores content of one
\* chunk, or is refused.
LEMMA SmallPutRight ==
  ASSUME NEW c, Table(ChunkEntries, c), NEW t \in Nat, Sorted(EntrySet(c), t),
         NEW P \in Puts, \A p \in Paths : ObjectRight(EntrySet(c), P, Object(p)),
         NEW path \in Paths, NEW len \in Nat, len <= ChunkSize, NEW freshness \in Nat,
         NEW id, NEW P2, NEW r, Stored(c, r, path, Piece(id, 0), len, freshness, t),
         OneMore(P, P2, path, len, r.ok, id)
  PROVE  \A p \in Paths : ObjectRight(EntrySet(r.cs), P2, Object(p))
<1> DEFINE S == EntrySet(c)
           S2 == EntrySet(r.cs)
           o == Object(path)
           z(e) == Is(e, <<o>>, Piece(id, 0), len, freshness, t)
<1>1. path.base = <<o>>
  BY ChunkBasesOf
<1>2. /\ r.ok \in BOOLEAN /\ (~r.ok => r.cs = c)
      /\ \A e \in S2 : e \in S \/ (r.ok /\ z(e))
      /\ \A e \in S2 : e.name.hasVersion => e \in S \/ path.hasVersion \/ Marked(S, <<o>>)
      /\ r.ok /\ ~path.hasVersion /\ ~Marked(S, <<o>>) => \A e \in Of(S2, <<o>>) : z(e)
  BY <1>1 DEF Stored
<1>3. /\ \A k \in 1..Len(P) : P2[k] = P[k]
      /\ id \notin 1..Len(P) /\ \A k \in 1..Len(P) : k <= id
      /\ P2[id].path = path /\ P2[id].len = len /\ id \in Nat
      /\ \A x : LargeTries(P2, x) = LargeTries(P, x)
      /\ \A x : x # o \/ ~r.ok => SmallStores(P2, x) = SmallStores(P, x)
      /\ r.ok => SmallStores(P2, o) = SmallStores(P, o) \cup {id}
  <2>1. \A x : LargeTries(P2, x) = LargeTries(P, x)
    <3>1. ~(len > ChunkSize)
      BY ChunkingAssumption
    <3> QED
      BY <3>1 DEF OneMore
  <2> QED
    BY <2>1 DEF OneMore
<1>4. \A e : z(e) => e.name.base = <<o>> /\ e.data = Piece(id, 0) /\ e.data_len = len
  BY DEF Is
<1> HIDE DEF z, S2
<1>5. ASSUME NEW b, b # <<o>> PROVE Kept(S2, S, b)
  BY <1>2, <1>4, <1>5 DEF Kept, Of
<1>6. ASSUME NEW p \in Paths, Object(p) # o \/ ~r.ok PROVE ObjectRight(S2, P2, Object(p))
  <2>1. ASSUME NEW b, NameOf(b, Object(p)) PROVE Kept(S2, S, b)
    <3>1. CASE ~r.ok
      BY <1>2, <3>1 DEF Kept, S2
    <3>2. CASE Object(p) # o
      <4>1. b # <<o>>
        BY <2>1, <3>2, NamesApart DEF NameOf
      <4> QED
        BY <1>5, <4>1
    <3> QED
      BY <1>6, <3>1, <3>2
  <2>2. \A b : (b = <<Object(p)>> \/ b = <<Object(p), "chunks">>
                 \/ \E i : b = <<Object(p), "chunk", i>>) => Kept(S2, S, b)
    BY <2>1 DEF NameOf
  <2> QED
    BY <1>3, <1>6, <2>2, KeepsRight
<1>7. ASSUME r.ok PROVE ObjectRight(S2, P2, o)
  <2>1. DirectRight(S, P, o) /\ ChunksRight(S, P, o) /\ ManifestsRight(S, P, o)
    BY DEF ObjectRight
  <2>2. ChunksRight(S2, P2, o) /\ ManifestsRight(S2, P2, o)
    <3>1. \A i : Kept(S2, S, <<o, "chunk", i>>)
      BY <1>5, BaseFacts
    <3>2. Kept(S2, S, <<o, "chunks">>)
      BY <1>5, BaseFacts
    <3>3. \A k \in LargeTries(P, o) : P2[k] = P[k]
      BY <1>3, CallNumbers
    <3> QED
      BY <1>3, <2>1, <3>1, <3>2, <3>3, KeepsChunks
  <2>3. /\ SmallStores(P2, o) = SmallStores(P, o) \cup {id}
        /\ \A k \in SmallStores(P, o) : P2[k] = P[k] /\ k <= id
        /\ id <= id
    BY <1>3, <1>7, CallNumbers
  <2>4. Marked(S, <<o>>) => \E j \in SmallStores(P2, o) : P2[j].path.hasVersion
    <3>1. Marked(S, <<o>>) => \E j \in SmallStores(P, o) : P[j].path.hasVersion
      BY <2>1 DEF DirectRight, Marked
    <3> QED
      BY <2>3, <3>1
  <2>5. ASSUME NEW e \in Of(S2, <<o>>), e.name.hasVersion
        PROVE  \E j \in SmallStores(P2, o) : P2[j].path.hasVersion
    <3>1. e \in S => Marked(S, <<o>>)
      BY <2>5 DEF Marked, Of
    <3>2. path.hasVersion => P2[id].path.hasVersion /\ id \in SmallStores(P2, o)
      BY <1>3, <2>3
    <3>3. e \in S \/ path.hasVersion \/ Marked(S, <<o>>)
      BY <1>2, <2>5 DEF Of
    <3> QED
      BY <2>4, <3>1, <3>2, <3>3
  <2>6. ASSUME NEW e \in Of(S2, <<o>>)
        PROVE  \E k \in SmallStores(P2, o) :
                 /\ e.data = Piece(k, 0) /\ e.data_len = P2[k].len
                 /\ (\A j \in SmallStores(P2, o) : ~P2[j].path.hasVersion)
                      => \A j \in SmallStores(P2, o) : j <= k
    <3>1. CASE z(e)
      <4>1. e.data = Piece(id, 0) /\ e.data_len = P2[id].len
        BY <1>3, <1>4, <3>1
      <4> QED
        BY <2>3, <4>1
    <3>2. CASE ~z(e)
      <4>1. e \in Of(S, <<o>>)
        BY <1>2, <3>2 DEF Of
      <4>2. PICK k \in SmallStores(P, o) : e.data = Piece(k, 0) /\ e.data_len = P[k].len
        BY <2>1, <4>1 DEF DirectRight
      <4>3. path.hasVersion \/ Marked(S, <<o>>)
        BY <1>2, <1>7, <2>6, <3>2
      <4>4. \E j \in SmallStores(P2, o) : P2[j].path.hasVersion
        BY <1>3, <2>3, <2>4, <4>3
      <4> QED
        BY <2>3, <4>2, <4>4
    <3> QED
      BY <3>1, <3>2
  <2>7. DirectRight(S2, P2, o)
    BY <2>5, <2>6 DEF DirectRight
  <2> QED
    BY <2>2, <2>7 DEF ObjectRight
<1> QED
  BY <1>6, <1>7 DEF S2

\* And if a call stores content in chunks, wherever it stops.
LEMMA LargePutRight ==
  ASSUME NEW c, NEW t \in Nat,
         NEW P \in Puts, \A p \in Paths : ObjectRight(EntrySet(c), P, Object(p)),
         NEW path \in Paths, ~path.hasVersion, NEW len \in Nat, len > ChunkSize,
         NEW id, NEW P2, NEW r, LargeStored(c, t, r, Object(path), id, len),
         OneMore(P, P2, path, len, r.ok, id)
  PROVE  \A p \in Paths : ObjectRight(EntrySet(r.cs), P2, Object(p))
<1> DEFINE S == EntrySet(c)
           S2 == EntrySet(r.cs)
           o == Object(path)
           new(e) == \/ \E i \in Nat : IsChunk(e, o, id, len, i)
                     \/ e.name.base = <<o, "chunks">> /\ e.data = Manifest(len)
<1>1. /\ \A e \in S2 : e \in S \/ new(e)
      /\ \E n \in 0..ChunkCount(len) :
           /\ Below(S2, o, id, len, n)
           /\ \/ n < ChunkCount(len) /\ ~r.ok /\ Of(S2, <<o, "chunk", n>>) = {}
              \/ /\ n = ChunkCount(len)
                 /\ \A e \in Of(S2, <<o, "chunks">>) : e.data = Manifest(len)
  BY DEF LargeStored
<1>2. /\ \A k \in 1..Len(P) : P2[k] = P[k]
      /\ id \notin 1..Len(P) /\ \A k \in 1..Len(P) : k <= id
      /\ P2[id].path = path /\ P2[id].len = len /\ P2[id].ok = r.ok /\ id \in Nat
      /\ \A x : x # o => LargeTries(P2, x) = LargeTries(P, x)
      /\ LargeTries(P2, o) = LargeTries(P, o) \cup {id}
      /\ \A x : SmallStores(P2, x) = SmallStores(P, x)
  <2>1. \A x : SmallStores(P2, x) = SmallStores(P, x)
    <3>1. ~(len <= ChunkSize)
      BY ChunkingAssumption
    <3> QED
      BY <3>1 DEF OneMore
  <2>2. /\ \A x : x # o => LargeTries(P2, x) = LargeTries(P, x) \cup {}
        /\ LargeTries(P2, o) = LargeTries(P, o) \cup {id}
    BY DEF OneMore
  <2>3. /\ \A k \in 1..Len(P) : P2[k] = P[k]
        /\ id \notin 1..Len(P) /\ \A k \in 1..Len(P) : k <= id
        /\ P2[id].path = path /\ P2[id].len = len /\ P2[id].ok = r.ok /\ id \in Nat
    BY DEF OneMore
  <2> QED
    BY <2>1, <2>2, <2>3
<1>3. \A e : new(e) => /\ NameOf(e.name.base, o) /\ e.name.base # <<o>>
  BY BaseFacts DEF IsChunk, NameOf
<1>4. \A e : new(e) /\ e.name.base = <<o, "chunks">> => e.data = Manifest(len)
  BY BaseFacts DEF IsChunk
<1> HIDE DEF new, S2
<1>5. ASSUME NEW p \in Paths, Object(p) # o PROVE ObjectRight(S2, P2, Object(p))
  <2>1. ASSUME NEW b, NameOf(b, Object(p)) PROVE Kept(S2, S, b)
    <3>1. ~NameOf(b, o)
      BY <1>5, <2>1, NamesApart
    <3> QED
      BY <1>1, <1>3, <3>1 DEF Kept, Of
  <2>2. \A b : (b = <<Object(p)>> \/ b = <<Object(p), "chunks">>
                 \/ \E i : b = <<Object(p), "chunk", i>>) => Kept(S2, S, b)
    BY <2>1 DEF NameOf
  <2> QED
    BY <1>2, <1>5, <2>2, KeepsRight
<1>6. ObjectRight(S2, P2, o)
  <2>1. DirectRight(S, P, o) /\ ChunksRight(S, P, o) /\ ManifestsRight(S, P, o)
    BY DEF ObjectRight
  <2>2. DirectRight(S2, P2, o)
    <3>1. Kept(S2, S, <<o>>)
      BY <1>1, <1>3 DEF Kept, Of
    <3>2. \A k \in SmallStores(P, o) : P2[k] = P[k]
      BY <1>2, CallNumbers
    <3> QED
      BY <1>2, <2>1, <3>1, <3>2, KeepsDirect
  <2>3. ManifestsRight(S2, P2, o)
    <3> SUFFICES ASSUME NEW e \in Of(S2, <<o, "chunks">>)
                 PROVE  \E k \in LargeTries(P2, o) : e.data = Manifest(P2[k].len)
      BY DEF ManifestsRight
    <3>1. CASE e \in S
      <4>1. PICK k \in LargeTries(P, o) : e.data = Manifest(P[k].len)
        BY <2>1, <3>1 DEF ManifestsRight, Of
      <4>2. P2[k] = P[k]
        BY <1>2, CallNumbers
      <4> QED
        BY <1>2, <4>1, <4>2
    <3>2. CASE e \notin S
      BY <1>1, <1>2, <1>4, <3>2 DEF Of
    <3> QED
      BY <3>1, <3>2
  <2>4. ChunksRight(S2, P2, o)
    <3> SUFFICES ASSUME NEW k \in LargeTries(P2, o), \A j \in LargeTries(P2, o) : j <= k
                 PROVE  \E n \in 0..ChunkCount(P2[k].len) : GotTo(S2, P2, o, k, n)
      BY DEF ChunksRight
    <3>1. k = id
      <4>1. id <= k
        BY <1>2
      <4>2. k \in 1..Len(P) => k <= id /\ k \in Nat
        BY <1>2
      <4> QED
        BY <1>2, <4>1, <4>2, CallNumbers
    <3>2. PICK n \in 0..ChunkCount(len) :
            /\ Below(S2, o, id, len, n)
            /\ \/ n < ChunkCount(len) /\ ~r.ok /\ Of(S2, <<o, "chunk", n>>) = {}
               \/ /\ n = ChunkCount(len)
                  /\ \A e \in Of(S2, <<o, "chunks">>) : e.data = Manifest(len)
      BY <1>1
    <3>3. ChunksOf(S2, P2, o, id, n)
      BY <1>2, <3>2 DEF ChunksOf, Below, IsChunk
    <3>4. GotTo(S2, P2, o, id, n)
      BY <1>2, <3>2, <3>3 DEF GotTo
    <3> QED
      BY <1>2, <3>1, <3>4
  <2> QED
    BY <2>2, <2>3, <2>4 DEF ObjectRight
<1> QED
  BY <1>5, <1>6 DEF S2

\* The largest of a set of call numbers.
LEMMA LargestCall ==
  ASSUME NEW m \in Nat, NEW s \in SUBSET (1..m)
  PROVE  /\ \A k \in s : (\A j \in s : j <= k) => Max(s) = k
         /\ s # {} => Max(s) \in s /\ \A j \in s : j <= Max(s)
<1>1. ASSUME NEW k \in s, \A j \in s : j <= k PROVE Max(s) = k
  <2>1. k \in Nat /\ s \in SUBSET (1..k)
    BY <1>1
  <2> QED
    BY <2>1, MaxOf
<1>2. s # {} => \E k \in s : \A j \in s : j <= k
  <2> DEFINE v == [i \in 1..m |-> i]
  <2>1. \A i \in s : v[i] = i /\ v[i] \in Nat
    OBVIOUS
  <2> HIDE DEF v
  <2>2. s # {} => \E i \in s : \A j \in s : v[j] <= v[i]
    BY <2>1, LargestValue
  <2> QED
    BY <2>1, <2>2
<1> QED
  BY <1>1, <1>2

\* What a lookup that succeeds returns, for the calls P.
BeginsAs(P, k, data) ==
  /\ Len(data) \in 1..ChunkCount(P[k].len)
  /\ data = [j \in 1..Len(data) |-> Piece(k, j - 1)]

OneContent(P, o, data) ==
  \/ LargeTries(P, o) # {} /\ BeginsAs(P, Max(LargeTries(P, o)), data)
  \/ \E k \in SmallStores(P, o) :
       /\ data = <<Piece(k, 0)>>
       /\ (\A j \in SmallStores(P, o) : ~P[j].path.hasVersion) => k = Max(SmallStores(P, o))

AllOfIt(P, data, len) == len = P[data[1].id].len \/ ~P[data[1].id].ok

\* What is read under the name itself is content stored whole.
LEMMA DirectRead ==
  ASSUME NEW S, NEW P \in Puts, NEW o, DirectRight(S, P, o), NEW x \in Of(S, <<o>>)
  PROVE  OneContent(P, o, <<x.data>>) /\ AllOfIt(P, <<x.data>>, x.data_len)
<1> DEFINE s == SmallStores(P, o)
<1>1. PICK k \in s : /\ x.data = Piece(k, 0) /\ x.data_len = P[k].len
                     /\ (\A j \in s : ~P[j].path.hasVersion) => \A j \in s : j <= k
  BY DEF DirectRight
<1>2. Len(P) \in Nat /\ s \in SUBSET (1..Len(P))
  BY CallNumbers
<1> DEFINE m == Len(P)
<1>3. (\A j \in s : ~P[j].path.hasVersion) => k = Max(s)
  <2> HIDE DEF s, m
  <2> QED
    BY <1>1, <1>2, LargestCall DEF m
<1>4. <<x.data>>[1].id = k
  BY <1>1 DEF Piece
<1> QED
  BY <1>1, <1>3, <1>4 DEF OneContent, AllOfIt

\* What is read through a manifest are the chunks of the last call: if that call came
\* to chunk n only, then the manifest, being older, counts n chunks at most, and
\* otherwise it is the manifest of that call.
LEMMA ManifestRead ==
  ASSUME NEW S, NEW P \in Puts, NEW o, ChunksRight(S, P, o), ManifestsRight(S, P, o),
         NEW e \in Of(S, <<o, "chunks">>), NEW data \in Seq(Pieces),
         Len(data) = e.data.chunk_count,
         \A i \in 0..e.data.chunk_count-1 :
           \E x \in Of(S, <<o, "chunk", i>>) : data[i + 1] = x.data
  PROVE  OneContent(P, o, data) /\ AllOfIt(P, data, e.data.total_len)
<1> DEFINE s == LargeTries(P, o)
           m == Len(P)
           k == Max(s)
           n == Len(data)
<1>1. PICK a \in s : e.data = Manifest(P[a].len)
  BY DEF ManifestsRight
<1>2. m \in Nat /\ s \in SUBSET (1..m)
  BY CallNumbers
<1>3. k \in s /\ \A j \in s : j <= k
  <2> HIDE DEF s, m
  <2> QED
    BY <1>1, <1>2, LargestCall
<1>4. /\ P[a].len \in Nat /\ P[a].len # 0 /\ P[k].len \in Nat /\ P[k].len # 0
      /\ P[k].ok \in BOOLEAN
  BY <1>1, <1>3, CallNumbers
<1>5. /\ ChunkCount(P[a].len) \in 1..MaxChunks /\ ChunkCount(P[k].len) \in 1..MaxChunks
      /\ MaxChunks \in Nat
  BY <1>4, ChunkFacts, ChunkingAssumption
<1>6. /\ \A len : Manifest(len).chunk_count = ChunkCount(len) /\ Manifest(len).total_len = len
      /\ \A b, i : Piece(b, i).id = b
  BY DEF Manifest, Piece
<1>7. n = ChunkCount(P[a].len) /\ n \in Nat /\ n >= 1
  BY <1>1, <1>5, <1>6
<1>8. PICK g \in 0..ChunkCount(P[k].len) : GotTo(S, P, o, k, g)
  BY <1>3 DEF ChunksRight
<1>9. \A i \in 0..n-1 : \E x \in Of(S, <<o, "chunk", i>>) : data[i + 1] = x.data
  OBVIOUS
<1>10. /\ g \in Nat /\ n <= g
       /\ ~P[k].ok \/ e.data = Manifest(P[k].len)
  <2>1. CASE g < ChunkCount(P[k].len) /\ ~P[k].ok /\ Of(S, <<o, "chunk", g>>) = {}
    <3>1. g \in Nat /\ ~(g \in 0..n-1)
      BY <1>5, <1>9, <2>1
    <3> HIDE DEF n, k
    <3> QED
      BY <1>7, <2>1, <3>1
  <2>2. CASE g = ChunkCount(P[k].len) /\ e.data = Manifest(P[k].len)
    <3>1. n = g
      BY <1>6, <2>2
    <3> HIDE DEF n, k
    <3> QED
      BY <1>7, <2>2, <3>1
  <2> QED
    BY <1>8, <2>1, <2>2 DEF GotTo
<1>11. ChunksOf(S, P, o, k, g)
  BY <1>8 DEF GotTo
<1> HIDE DEF k, n
<1>12. ASSUME NEW j \in 1..n PROVE data[j] = Piece(k, j - 1)
  <2> DEFINE i == j - 1
  <2>1. i \in 0..n-1 /\ i \in 0..g-1 /\ i + 1 = j
    BY <1>7, <1>10
  <2>2. PICK x \in Of(S, <<o, "chunk", i>>) : data[i + 1] = x.data
    BY <1>9, <2>1
  <2>3. x.data = Piece(k, i)
    BY <1>11, <2>1 DEF ChunksOf
  <2> QED
    BY <2>1, <2>2, <2>3
<1>13. data = [j \in 1..n |-> Piece(k, j - 1)]
  <2>1. DOMAIN data = 1..n /\ data = [j \in 1..n |-> data[j]]
    BY DEF n
  <2> QED
    BY <1>12, <2>1
<1>14. BeginsAs(P, k, data)
  <2>1. n \in 1..ChunkCount(P[k].len)
    BY <1>5, <1>7, <1>8, <1>10
  <2> QED
    BY <1>13, <2>1 DEF BeginsAs, n
<1>15. OneContent(P, o, data)
  BY <1>1, <1>14 DEF OneContent, k
<1>16. data[1].id = k
  <2>1. 1 \in 1..n
    BY <1>7
  <2>2. data[1] = Piece(k, 1 - 1)
    BY <1>12, <2>1
  <2> QED
    BY <1>6, <2>2
<1>17. AllOfIt(P, data, e.data.total_len)
  BY <1>6, <1>10, <1>16 DEF AllOfIt
<1> QED
  BY <1>15, <1>17

LEMMA ReadRight ==
  ASSUME NEW c, NEW t, NEW o, NEW P \in Puts, ObjectRight(EntrySet(c), P, o),
         NEW r, Got(c, t, r, o), r.ok
  PROVE  OneContent(P, o, r.data) /\ AllOfIt(P, r.data, r.off)
<1> DEFINE S == EntrySet(c)
<1>1. DirectRight(S, P, o) /\ ChunksRight(S, P, o) /\ ManifestsRight(S, P, o)
  BY DEF ObjectRight
<1>2. CASE \E x \in Of(S, <<o>>) : r.data = <<x.data>> /\ r.off = x.data_len
  BY <1>1, <1>2, DirectRead
<1>3. CASE \E m \in Of(S, <<o, "chunks">>) :
             /\ r.data \in Seq(Pieces) /\ Len(r.data) = m.data.chunk_count
             /\ r.off = m.data.total_len
             /\ \A i \in 0..m.data.chunk_count-1 :
                  \E x \in Of(S, <<o, "chunk", i>>) : r.data[i + 1] = x.data
  <2>1. PICK m \in Of(S, <<o, "chunks">>) :
             /\ r.data \in Seq(Pieces) /\ Len(r.data) = m.data.chunk_count
             /\ r.off = m.data.total_len
             /\ \A i \in 0..m.data.chunk_count-1 :
                  \E x \in Of(S, <<o, "chunk", i>>) : r.data[i + 1] = x.data
    BY <1>3
  <2> DEFINE data == r.data
  <2>2. /\ data \in Seq(Pieces) /\ Len(data) = m.data.chunk_count
        /\ \A i \in 0..m.data.chunk_count-1 :
             \E x \in Of(S, <<o, "chunk", i>>) : data[i + 1] = x.data
    BY <2>1
  <2> HIDE DEF data
  <2>3. OneContent(P, o, data) /\ AllOfIt(P, data, m.data.total_len)
    BY <1>1, <2>2, ManifestRead
  <2> QED
    BY <2>1, <2>3 DEF data
<1> QED
  BY <1>2, <1>3 DEF Got

----------------------------------------------------------------------------
(* Content in chunks: what was just stored can be read *)

\* An entry that has not expired had not expired before.
LEMMA ExpiryGrows ==
  ASSUME NEW e \in ChunkEntries, NEW a \in Nat, NEW b \in Nat, e.timestamp <= a, a <= b,
         b < Wrap, EntryExpired(e, a)
  PROVE  EntryExpired(e, b)
<1> DEFINE x == a - e.timestamp
           y == b - e.timestamp
<1>1. e.timestamp \in Nat /\ e.freshness_ms \in Nat
  BY ChunkEntryFacts
<1>2. Wrap \in Nat \ {0} /\ NsPerMs \in Nat \ {0}
  BY CsOpsAssumption
<1>3. x \in Nat /\ y \in Nat /\ x <= y /\ x < Wrap /\ y < Wrap
  BY <1>1, <1>2
<1> HIDE DEF x, y
<1>4. x % Wrap = x /\ y % Wrap = y
  BY <1>2, <1>3, SmallRemainder
<1>5. x \div NsPerMs <= y \div NsPerMs
  BY <1>2, <1>3, DivMonotone
<1>6. e.freshness_ms # 0 /\ x \div NsPerMs > e.freshness_ms
  BY <1>4 DEF EntryExpired, x
<1>7. x \div NsPerMs \in Nat /\ y \div NsPerMs \in Nat
  BY <1>2, <1>3, DivFacts
<1>8. y \div NsPerMs > e.freshness_ms
  BY <1>1, <1>5, <1>6, <1>7
<1> QED
  BY <1>4, <1>6, <1>8 DEF EntryExpired, y

\* No entry of the object expires before a lookup that starts at t is through.
Lasting(S, o, t) ==
  \A e \in S : e.name.base[1] = o => ~EntryExpired(e, t + MaxChunks + 1)

\* None of an object's entries expires during a lookup.
LEMMA LastingEntries ==
  ASSUME NEW S \in SUBSET ChunkEntries, NEW t \in Nat, Sorted(S, t), NEW o, Lasting(S, o, t),
         t + MaxChunks + 1 < Wrap
  PROVE  \A b : NameOf(b, o) =>
           \A e \in Of(S, b) : \A x \in t..t+MaxChunks+1 : ~EntryExpired(e, x)
<1> SUFFICES ASSUME NEW b, NameOf(b, o), NEW e \in Of(S, b), NEW x \in t..t+MaxChunks+1
             PROVE  ~EntryExpired(e, x)
  OBVIOUS
<1>1. e \in S /\ e \in ChunkEntries /\ e.name.base[1] = o
  BY DEF Of, NameOf
<1>2. e.timestamp \in Nat /\ e.timestamp < t
  BY <1>1, ChunkEntryFacts DEF Sorted
<1>3. MaxChunks \in Nat
  BY ChunkingAssumption
<1>4. ~EntryExpired(e, t + MaxChunks + 1)
  BY <1>1 DEF Lasting
<1> QED
  BY <1>1, <1>2, <1>3, <1>4, ExpiryGrows

Readable(c, t, path, len, id) ==
  LET r == LookupChunked(c, path, len, t)
  IN  r.ok /\ r.off = len /\ r.data[1].id = id

\* Content stored directly is read if no manifest is found and every entry of the
\* name is that content.
LEMMA DirectReadable ==
  ASSUME NEW path \in Paths, ~path.hasVersion, NEW o, o = Object(path),
         NEW c, Table(ChunkEntries, c), NEW t \in Nat, Sorted(EntrySet(c), t),
         LookupSlot(c, ManifestName(o), t) = 0,
         NEW id, NEW len \in Nat,
         Of(EntrySet(c), <<o>>) # {},
         \A e \in Of(EntrySet(c), <<o>>) :
           /\ e.data = Piece(id, 0) /\ e.data_len = len
           /\ ~EntryExpired(e, t + 1)
  PROVE  Readable(c, t, path, len, id)
<1> DEFINE S == EntrySet(c)
           s0 == Reading(FALSE, c, t, <<>>, 0)
           m == LookupIn(s0, ManifestName(o))
           d == LookupIn(m, NameInit(path))
           r == LookupChunked(c, path, len, t)
<1>1. s0.cs = c /\ s0.now = t /\ s0.data = <<>> /\ s0.off = 0
  BY DEF Reading
<1>2. m.ok = FALSE
  BY <1>1 DEF LookupIn, Reading
<1>3. r = IF path.hasVersion THEN s0
          ELSE IF ~m.ok THEN [d EXCEPT !.ok = d.ok /\ d.off <= len]
          ELSE IF m.data[1].total_len > len THEN [m EXCEPT !.ok = FALSE]
          ELSE ReadChunks([m EXCEPT !.data = <<>>, !.off = 0], o, m.data[1])
  BY DEF LookupChunked
<1> HIDE DEF s0, m, d, r
<1>4. r = [d EXCEPT !.ok = d.ok /\ d.off <= len]
  BY <1>2, <1>3
<1>5. <<o>> \in ChunkBases /\ <<o, "chunks">> \in ChunkBases
  BY ChunkBasesOf
<1>6. LookedUp(s0, m, <<o, "chunks">>)
  BY <1>1, <1>5, LookupStep DEF ManifestName, m
<1>7. /\ Table(ChunkEntries, m.cs) /\ Sorted(EntrySet(m.cs), m.now) /\ m.now = t + 1
      /\ Mirrors(EntrySet(m.cs), S) /\ m.data = <<>> /\ m.off = 0
  BY <1>1, <1>2, <1>6 DEF LookedUp
<1>8. LookedUp(m, d, <<o>>)
  <2>1. NameInit(path) = NameInit(Unversioned(<<o>>)) /\ m.now \in Nat
    BY <1>7, PlainPath
  <2> QED
    BY <1>5, <1>7, <2>1, LookupStep DEF d
<1>9. /\ DOMAIN d = ReadingFields /\ d.ok \in BOOLEAN
      /\ ~d.ok => \A x \in Of(EntrySet(m.cs), <<o>>) : EntryExpired(x, t + 1)
      /\ d.ok => \E x \in Of(EntrySet(m.cs), <<o>>) :
                   d.data = Append(<<>>, x.data) /\ d.off = 0 + x.data_len
  BY <1>7, <1>8 DEF LookedUp
<1>10. d.ok
  <2>1. PICK e \in Of(S, <<o>>) : TRUE
    OBVIOUS
  <2>2. PICK x \in Of(EntrySet(m.cs), <<o>>) : Same(x, e)
    BY <1>7, MirrorFacts
  <2>3. ~EntryExpired(x, t + 1)
    BY <2>1, <2>2 DEF Same, EntryExpired
  <2> QED
    BY <1>9, <2>2, <2>3
<1>11. d.data = Append(<<>>, Piece(id, 0)) /\ d.off = len
  <2>1. PICK x \in Of(EntrySet(m.cs), <<o>>) :
          d.data = Append(<<>>, x.data) /\ d.off = 0 + x.data_len
    BY <1>9, <1>10
  <2>2. PICK y \in Of(S, <<o>>) : Same(x, y)
    BY <1>7, MirrorFacts
  <2>3. x.data = Piece(id, 0) /\ x.data_len = len
    BY <2>2 DEF Same
  <2> QED
    BY <2>1, <2>3
<1>12. r.ok = (d.ok /\ d.off <= len) /\ r.off = d.off /\ r.data = d.data
  BY <1>4, <1>9 DEF ReadingFields
<1>13. r.data[1] = Piece(id, 0)
  BY <1>11, <1>12
<1>14. r.data[1].id = id
  BY <1>13 DEF Piece
<1>15. r.ok /\ r.off = len
  <2>1. d.off <= len
    BY <1>11
  <2>2. d.ok /\ d.off <= len
    BY <1>10, <2>1
  <2>3. r.ok
    BY <1>12, <2>2, Zenon
  <2> QED
    BY <1>11, <1>12, <2>3
<1> QED
  BY <1>14, <1>15 DEF Readable, r

\* Content stored in chunks is read if they and its manifest are all held.
LEMMA ChunksReadable ==
  ASSUME NEW path \in Paths, ~path.hasVersion, NEW o, o = Object(path),
         NEW c, Table(ChunkEntries, c), NEW t \in Nat, Sorted(EntrySet(c), t),
         NEW id \in Nat, NEW len \in Nat, len # 0, len <= MaxChunks * ChunkSize,
         Of(EntrySet(c), <<o, "chunks">>) # {},
         \A e \in Of(EntrySet(c), <<o, "chunks">>) : e.data = Manifest(len),
         \A i \in 0..ChunkCount(len)-1 : Of(EntrySet(c), <<o, "chunk", i>>) # {},
         Below(EntrySet(c), o, id, len, ChunkCount(len)),
         Lasting(EntrySet(c), o, t), t + MaxChunks + 1 < Wrap
  PROVE  Readable(c, t, path, len, id)
<1> DEFINE S == EntrySet(c)
           s0 == Reading(FALSE, c, t, <<>>, 0)
           m == LookupIn(s0, ManifestName(o))
           d == LookupIn(m, NameInit(path))
           n == m.data[1].chunk_count
           s1 == [m EXCEPT !.data = <<>>, !.off = 0]
           u == ReadUpTo(s1, o, n)
           r == LookupChunked(c, path, len, t)
<1>1. s0.cs = c /\ s0.now = t /\ s0.data = <<>> /\ s0.off = 0
  BY DEF Reading
<1>2. r = IF path.hasVersion THEN s0
          ELSE IF ~m.ok THEN [d EXCEPT !.ok = d.ok /\ d.off <= len]
          ELSE IF m.data[1].total_len > len THEN [m EXCEPT !.ok = FALSE]
          ELSE ReadChunks(s1, o, m.data[1])
  BY DEF LookupChunked
<1>3. ReadChunks(s1, o, m.data[1]) = [u EXCEPT !.ok = Complete(u, m.data[1])]
  BY DEF ReadChunks, ReadUpTo
<1> HIDE DEF s0, m, d, n, s1, u, r
<1>4. MaxChunks \in Nat /\ ChunkCount(len) \in 1..MaxChunks /\ Upto(len, ChunkCount(len)) = len
  BY ChunkFacts, ChunkingAssumption
<1>5. S \in SUBSET ChunkEntries
  BY EntrySetType DEF Table
<1>6. \A b : NameOf(b, o) => \A e \in Of(S, b) : \A x \in t..t+MaxChunks+1 : ~EntryExpired(e, x)
  BY <1>5, LastingEntries
<1>7. LookedUp(s0, m, <<o, "chunks">>)
  <2>1. <<o, "chunks">> \in ChunkBases
    BY ChunkBasesOf
  <2> QED
    BY <1>1, <2>1, LookupStep DEF ManifestName, m
<1>8. m.ok
  <2>1. PICK e \in Of(S, <<o, "chunks">>) : TRUE
    OBVIOUS
  <2>2. NameOf(<<o, "chunks">>, o) /\ t \in t..t+MaxChunks+1
    BY <1>4 DEF NameOf
  <2>3. ~EntryExpired(e, t)
    BY <1>6, <2>2
  <2> QED
    BY <1>1, <1>7, <2>3 DEF LookedUp
<1>9. /\ Table(ChunkEntries, m.cs) /\ Sorted(EntrySet(m.cs), m.now) /\ m.now = t + 1
      /\ DOMAIN m = ReadingFields /\ Mirrors(EntrySet(m.cs), S)
      /\ m.data[1] = Manifest(len)
  BY <1>1, <1>7, <1>8 DEF LookedUp
<1>10. m.data[1].total_len = len /\ n = ChunkCount(len) /\ n \in Nat
  <2>1. Manifest(len).total_len = len /\ Manifest(len).chunk_count = ChunkCount(len)
    BY DEF Manifest
  <2> QED
    BY <1>4, <1>9, <2>1 DEF n
<1>11. r = [u EXCEPT !.ok = Complete(u, m.data[1])]
  <2>1. ~(m.data[1].total_len > len)
    BY <1>10
  <2> QED
    BY <1>2, <1>3, <1>8, <2>1
<1>12. /\ s1.cs = m.cs /\ s1.now = t + 1 /\ s1.ok /\ s1.data = <<>> /\ s1.off = 0
       /\ s1.ok \in BOOLEAN /\ DOMAIN s1 = ReadingFields
  <2>1. m.ok \in BOOLEAN
    BY <1>7 DEF LookedUp
  <2> QED
    BY <1>8, <1>9, <2>1 DEF ReadingFields, s1
<1> DEFINE S1 == EntrySet(s1.cs)
<1>13. ReadTo(S1, s1.now, s1, o, 0)
  <2>1. Mirrors(S1, S1)
    BY DEF Mirrors, Same
  <2>2. <<>> \in Seq(Pieces) /\ Len(<<>>) = 0 /\ \A i \in 0..0-1 : FALSE
    OBVIOUS
  <2>3. s1.now \in Nat /\ s1.now <= s1.now /\ s1.now <= s1.now + 0
    BY <1>12
  <2> QED
    BY <1>9, <1>12, <2>1, <2>2, <2>3 DEF ReadTo
<1>14. ReadTo(S1, s1.now, u, o, n) /\ Whole(S1, s1.now, u, o, id, len, n)
  BY <1>10, <1>12, <1>13, ChunksRead DEF u
<1>15. Intact(S1, s1.now, o, id, len)
  <2>1. Mirrors(S1, S)
    BY <1>9, <1>12
  <2> HIDE DEF S1
  <2>2. Below(S1, o, id, len, ChunkCount(len))
    <3> SUFFICES ASSUME NEW i \in 0..ChunkCount(len)-1, NEW e \in Of(S1, <<o, "chunk", i>>)
                 PROVE  IsChunk(e, o, id, len, i)
      BY DEF Below
    <3>1. PICK y \in Of(S, <<o, "chunk", i>>) : Same(e, y)
      BY <2>1, MirrorFacts
    <3>2. IsChunk(y, o, id, len, i)
      BY <3>1 DEF Below
    <3> QED
      BY <3>1, <3>2 DEF Same, IsChunk
  <2>3. ASSUME NEW i \in 0..ChunkCount(len)-1
        PROVE  /\ Of(S1, <<o, "chunk", i>>) # {}
               /\ \A x \in Of(S1, <<o, "chunk", i>>), z \in s1.now..s1.now+MaxChunks :
                    ~EntryExpired(x, z)
    <3>1. Of(S1, <<o, "chunk", i>>) # {}
      <4>1. PICK y \in Of(S, <<o, "chunk", i>>) : TRUE
        OBVIOUS
      <4>2. \E x \in Of(S1, <<o, "chunk", i>>) : Same(x, y)
        BY <2>1, <4>1, MirrorFacts
      <4> QED
        BY <4>2
    <3>2. ASSUME NEW x \in Of(S1, <<o, "chunk", i>>), NEW z \in s1.now..s1.now+MaxChunks
          PROVE  ~EntryExpired(x, z)
      <4>1. PICK y \in Of(S, <<o, "chunk", i>>) : Same(x, y)
        BY <2>1, MirrorFacts
      <4>2. z \in t..t+MaxChunks+1
        BY <1>4, <1>12
      <4>3. NameOf(<<o, "chunk", i>>, o)
        BY DEF NameOf
      <4>4. ~EntryExpired(y, z)
        BY <1>6, <4>2, <4>3
      <4> QED
        BY <4>1, <4>4 DEF Same, EntryExpired
    <3> QED
      BY <3>1, <3>2
  <2> QED
    BY <2>2, <2>3 DEF Intact
<1>16. u.ok /\ u.off = len
  BY <1>4, <1>10, <1>14, <1>15 DEF Whole
<1>17. u.data[1] = Piece(id, 0)
  <2>1. 0 \in 0..n-1 /\ 0 \in 0..ChunkCount(len)-1 /\ 0 + 1 = 1
    BY <1>4, <1>10
  <2>2. PICK x \in Of(S1, <<o, "chunk", 0>>) : u.data[0 + 1] = x.data
    BY <1>14, <1>16, <2>1 DEF ReadTo
  <2>3. x.data = Piece(id, 0)
    BY <1>15, <2>1 DEF Intact, Below, IsChunk
  <2> QED
    BY <2>1, <2>2, <2>3
<1>18. r.ok /\ r.off = len /\ r.data[1] = Piece(id, 0)
  <2>1. DOMAIN u = ReadingFields
    BY <1>14 DEF ReadTo
  <2>2. r.off = u.off /\ r.data = u.data /\ r.ok = (u.ok /\ u.off = m.data[1].total_len)
    BY <1>11, <2>1 DEF ReadingFields, Complete
  <2> QED
    BY <1>10, <1>16, <1>17, <2>2
<1>19. r.data[1].id = id
  BY <1>18 DEF Piece
<1> QED
  BY <1>18, <1>19 DEF Readable, r

\* What StoredIsReadable says, for the store c and the calls P.
StoredOk(c, t, P, path, len, id) ==
  LET o == Object(path)
  IN  \/ Readable(c, t, path, len, id)
      \/ len > MaxChunks * ChunkSize
      \/ /\ c.max_bytes > 0
         /\ len + (IF len > ChunkSize THEN ManifestLen ELSE 0) > c.max_bytes
      \/ ~Lasting(EntrySet(c), o, t)
      \/ /\ len <= ChunkSize
         /\ \/ LookupSlot(c, ManifestName(o), t) # 0
            \/ \E k \in SmallStores(P, o) : P[k].path.hasVersion

\* A store of one chunk leaves it under the name, unless a version is in play.
LEMMA SmallPutReadable ==
  ASSUME NEW c, Table(ChunkEntries, c), NEW t \in Nat, Sorted(EntrySet(c), t),
         NEW P \in Puts, NEW path \in Paths, ~path.hasVersion,
         DirectRight(EntrySet(c), P, Object(path)),
         NEW len \in Nat, len <= ChunkSize, NEW freshness \in Nat,
         NEW id \in Nat, NEW P2, NEW r, r.ok, Stored(c, r, path, Piece(id, 0), len, freshness, t),
         Spared(c, r, path, Piece(id, 0), len, freshness, t, t),
         OneMore(P, P2, path, len, r.ok, id), t + 1 + MaxChunks + 1 < Wrap
  PROVE  StoredOk(r.cs, t + 1, P2, path, len, id)
<1> DEFINE S == EntrySet(c)
           c2 == r.cs
           S2 == EntrySet(c2)
           o == Object(path)
           t2 == t + 1
<1> SUFFICES ASSUME Roomy(c2, len), Lasting(S2, o, t2), LookupSlot(c2, ManifestName(o), t2) = 0,
                    \A k \in SmallStores(P2, o) : ~P2[k].path.hasVersion
             PROVE  Readable(c2, t2, path, len, id)
  <2>1. ~(len > ChunkSize) /\ len + 0 = len
    BY ChunkingAssumption
  <2>2. c2.max_bytes \in Nat
    BY DEF Stored, Table, StoresOf
  <2>3. (c2.max_bytes > 0 /\ len > c2.max_bytes) \/ Roomy(c2, len)
    BY <2>2 DEF Roomy
  <2> QED
    BY <2>1, <2>3 DEF StoredOk
<1>1. path.base = <<o>>
  BY ChunkBasesOf
<1>2. ~Marked(S, <<o>>)
  <2>1. \A k \in SmallStores(P, o) : k \in SmallStores(P2, o) /\ P2[k] = P[k]
    BY CallNumbers DEF OneMore
  <2> QED
    BY <2>1 DEF DirectRight, Marked
<1>3. /\ Table(ChunkEntries, c2) /\ Sorted(S2, t2) /\ c2.max_bytes = c.max_bytes
      /\ \A e \in Of(S2, <<o>>) : Is(e, <<o>>, Piece(id, 0), len, freshness, t)
  BY <1>1, <1>2 DEF Stored
<1>4. Since(S, t) = {}
  <2>1. S \in SUBSET ChunkEntries
    BY EntrySetType DEF Table
  <2>2. \A e \in S : e.last_access_ns \in Nat /\ e.last_access_ns < t
    BY <2>1, ChunkEntryFacts DEF Sorted
  <2> QED
    BY <2>2 DEF Since
<1>5. \E z : Is(z, <<o>>, Piece(id, 0), len, freshness, t) /\ Since(S2, t) = {z}
  <2>1. EntryBytes({}) = 0 /\ 0 + len = len
    BY TotalEmpty DEF EntryBytes
  <2>2. c.max_bytes = 0 \/ EntryBytes(Since(S, t)) + len <= c.max_bytes
    BY <1>3, <1>4, <2>1 DEF Roomy
  <2>3. \E z : Is(z, path.base, Piece(id, 0), len, freshness, t)
               /\ Since(EntrySet(r.cs), t) = Since(EntrySet(c), t) \cup {z}
    BY <1>4, <2>2 DEF Spared
  <2> QED
    BY <1>1, <1>4, <2>3
<1>6. Of(S2, <<o>>) # {}
  BY <1>5 DEF Since, Of, Is
<1> HIDE DEF c2
<1>7. \A e \in Of(S2, <<o>>) : ~EntryExpired(e, t2 + 1)
  <2>1. S2 \in SUBSET ChunkEntries
    BY <1>3, EntrySetType DEF Table
  <2>2. NameOf(<<o>>, o)
    BY DEF NameOf
  <2>3. t2 \in Nat /\ t2 + 1 \in t2..t2+MaxChunks+1
    BY ChunkingAssumption
  <2> HIDE DEF t2
  <2>4. t2 + MaxChunks + 1 < Wrap
    BY DEF t2
  <2> QED
    BY <1>3, <2>1, <2>2, <2>3, <2>4, LastingEntries
<1>8. \A e \in Of(S2, <<o>>) :
        e.data = Piece(id, 0) /\ e.data_len = len /\ ~EntryExpired(e, t2 + 1)
  BY <1>3, <1>7 DEF Is
<1>9. t2 \in Nat
  OBVIOUS
<1> HIDE DEF t2, S2
<1> QED
  BY <1>3, <1>6, <1>8, <1>9, DirectReadable DEF S2

\* A call that stores chunks and succeeds leaves them and their manifest.
LEMMA LargePutReadable ==
  ASSUME NEW c, NEW t \in Nat, NEW P2, NEW path \in Paths, ~path.hasVersion,
         NEW len \in Nat, len > ChunkSize, NEW id \in Nat, NEW r, r.ok,
         LargeStored(c, t, r, Object(path), id, len), AllThere(c, r, Object(path), id, len),
         r.now + MaxChunks + 1 < Wrap
  PROVE  StoredOk(r.cs, r.now, P2, path, len, id)
<1> DEFINE c2 == r.cs
           S2 == EntrySet(c2)
           o == Object(path)
           t2 == r.now
<1>1. /\ Table(ChunkEntries, c2) /\ Sorted(S2, t2) /\ t2 \in Nat /\ c2.max_bytes = c.max_bytes
      /\ \A e \in Of(S2, <<o, "chunks">>) : e.data = Manifest(len)
  BY DEF LargeStored
<1> SUFFICES ASSUME Roomy(c2, len + ManifestLen), Lasting(S2, o, t2),
                    ~(len > MaxChunks * ChunkSize)
             PROVE  Readable(c2, t2, path, len, id)
  <2>1. c2.max_bytes \in Nat /\ len + ManifestLen \in Nat
    BY <1>1, ChunkingAssumption DEF Table, StoresOf
  <2>2. (c2.max_bytes > 0 /\ len + ManifestLen > c2.max_bytes) \/ Roomy(c2, len + ManifestLen)
    BY <2>1 DEF Roomy
  <2> QED
    BY <2>2 DEF StoredOk
<1>2. len <= MaxChunks * ChunkSize /\ len # 0
  BY ChunkingAssumption
<1>3. /\ Of(S2, <<o, "chunks">>) # {}
      /\ \A i \in 0..ChunkCount(len)-1 : Of(S2, <<o, "chunk", i>>) # {}
      /\ Below(S2, o, id, len, ChunkCount(len))
  BY <1>1, <1>2 DEF AllThere, Roomy
<1>4. t2 + MaxChunks + 1 < Wrap
  OBVIOUS
<1> HIDE DEF c2, t2
<1> QED
  BY <1>1, <1>2, <1>3, <1>4, ChunksReadable

----------------------------------------------------------------------------
(* Content in chunks: the calls keep the invariant *)

\* What a call of psirp_cs_store_chunked leaves.
PutLeaves(r, t, P2, path, len, id) ==
  /\ Table(ChunkEntries, r.cs) /\ Sorted(EntrySet(r.cs), r.now) /\ r.ok \in BOOLEAN
  /\ r.now \in Nat /\ r.now <= t + MaxChunks + 1
  /\ P2 \in Puts /\ Len(P2) = id /\ P2[id].len = len
  /\ \A p \in Paths : ObjectRight(EntrySet(r.cs), P2, Object(p))
  /\ r.ok /\ ~path.hasVersion => StoredOk(r.cs, r.now, P2, path, len, id)

LEMMA PutStep ==
  ASSUME NEW c, Table(ChunkEntries, c), NEW t \in Nat, Sorted(EntrySet(c), t), t < MaxTime,
         NEW P \in Puts, \A p \in Paths : ObjectRight(EntrySet(c), P, Object(p)),
         NEW path \in Paths, NEW len \in Lengths, NEW freshness \in Lifetimes,
         NEW id, id = Len(P) + 1,
         NEW r, r = StoreChunked(Progress(TRUE, c, t), path, id, len, freshness),
         NEW P2, P2 = Append(P, [path |-> path, len |-> len, ok |-> r.ok])
  PROVE  PutLeaves(r, t, P2, path, len, id)
<1> DEFINE S == EntrySet(c)
           o == Object(path)
           s0 == Progress(TRUE, c, t)
<1>1. len \in Nat /\ freshness \in Nat
  BY ContentStoreAssumption
<1>2. MaxChunks \in Nat \ {0} /\ MaxTime \in Nat /\ Wrap \in Nat /\ ChunkSize \in Nat
      /\ MaxTime + 2 * (MaxChunks + 2) < Wrap
  BY ChunkingAssumption, ContentStoreAssumption, CsOpsAssumption
<1>3. id \in Nat
  BY CallNumbers
<1>4. s0.cs = c /\ s0.now = t /\ s0.ok = TRUE /\ DOMAIN s0 = {"ok", "cs", "now"}
  BY DEF Progress
<1>5. r.ok \in BOOLEAN => /\ OneMore(P, P2, path, len, r.ok, id)
                          /\ P2 \in Puts /\ Len(P2) = id /\ P2[id].len = len
  <2> SUFFICES ASSUME r.ok \in BOOLEAN
               PROVE  OneMore(P, P2, path, len, r.ok, id)
    BY DEF OneMore
  <2> DEFINE ok == r.ok
  <2>1. ok \in BOOLEAN /\ P2 = Append(P, [path |-> path, len |-> len, ok |-> ok])
    OBVIOUS
  <2> HIDE DEF ok
  <2>2. OneMore(P, P2, path, len, ok, id)
    BY <2>1, HistoryGrows
  <2> QED
    BY <2>2 DEF ok
<1>6. r = IF len <= ChunkSize THEN StoreIn(s0, NameInit(path), Piece(id, 0), len, freshness)
          ELSE IF path.hasVersion THEN [s0 EXCEPT !.ok = FALSE]
          ELSE StoreLarge(s0, o, id, len, freshness)
  BY DEF StoreChunked
<1>7. CASE len <= ChunkSize
  <2> DEFINE q == CsStore(c, NameInit(path), Piece(id, 0), len, freshness, t)
             data == Piece(id, 0)
  <2>1. r.ok = q.ok /\ r.cs = q.cs /\ r.now = t + 1
    <3>1. r = StoreIn(s0, NameInit(path), Piece(id, 0), len, freshness)
      BY <1>6, <1>7
    <3> HIDE DEF s0
    <3> QED
      BY <1>4, <3>1 DEF StoreIn, Progress
  <2>2. path \in CallNames /\ data \in Pieces
    BY <1>3 DEF CallNames, Piece, Pieces
  <2>3. t \in 0..t
    OBVIOUS
  <2> HIDE DEF data
  <2>4. /\ Stored(c, CsStore(c, NameInit(path), data, len, freshness, t),
                  path, data, len, freshness, t)
        /\ Spared(c, CsStore(c, NameInit(path), data, len, freshness, t),
                  path, data, len, freshness, t, t)
    BY <1>1, <2>2, <2>3, StoreStep
  <2>5. Stored(c, q, path, data, len, freshness, t) /\ Spared(c, q, path, data, len, freshness, t, t)
    BY <2>4 DEF data
  <2> HIDE DEF q
  <2>6. Stored(c, r, path, data, len, freshness, t) /\ Spared(c, r, path, data, len, freshness, t, t)
    BY <2>1, <2>5 DEF Stored, Spared
  <2>7. /\ Table(ChunkEntries, r.cs) /\ Sorted(EntrySet(r.cs), r.now) /\ r.ok \in BOOLEAN
    BY <2>1, <2>6 DEF Stored
  <2>8. OneMore(P, P2, path, len, r.ok, id)
    BY <1>5, <2>7
  <2>9. \A p \in Paths : ObjectRight(EntrySet(r.cs), P2, Object(p))
    BY <1>1, <1>7, <2>6, <2>8, SmallPutRight DEF data
  <2>10. ASSUME r.ok, ~path.hasVersion PROVE StoredOk(r.cs, r.now, P2, path, len, id)
    <3>1. DirectRight(EntrySet(c), P, Object(path))
      BY DEF ObjectRight
    <3>2. t + 1 + MaxChunks + 1 < Wrap
      BY <1>2
    <3>3. StoredOk(r.cs, t + 1, P2, path, len, id)
      BY <1>1, <1>3, <1>7, <2>6, <2>8, <2>10, <3>1, <3>2, SmallPutReadable DEF data
    <3> QED
      BY <2>1, <3>3
  <2>11. r.now \in Nat /\ r.now <= t + MaxChunks + 1
    <3>1. t + 1 \in Nat /\ t + 1 <= t + MaxChunks + 1
      BY <1>2
    <3> QED
      BY <2>1, <3>1
  <2> QED
    BY <1>5, <2>7, <2>9, <2>10, <2>11 DEF PutLeaves
<1>8. CASE ~(len <= ChunkSize) /\ path.hasVersion
  <2>1. r = [s0 EXCEPT !.ok = FALSE]
    BY <1>6, <1>8
  <2> HIDE DEF s0
  <2>2. r.cs = c /\ r.now = t /\ r.ok = FALSE
    BY <1>4, <2>1
  <2>3. OneMore(P, P2, path, len, FALSE, id)
    BY <1>5, <2>2
  <2>4. /\ \A x : LargeTries(P2, x) = LargeTries(P, x)
        /\ \A x : SmallStores(P2, x) = SmallStores(P, x)
        /\ \A k \in 1..Len(P) : P2[k] = P[k]
    <3>1. /\ \A x : LargeTries(P2, x) = LargeTries(P, x) \cup {}
          /\ \A x : SmallStores(P2, x) = SmallStores(P, x) \cup {}
          /\ \A k \in 1..Len(P) : P2[k] = P[k]
      BY <1>8, <2>3 DEF OneMore
    <3> QED
      BY <3>1
  <2>5. ASSUME NEW p \in Paths PROVE ObjectRight(EntrySet(r.cs), P2, Object(p))
    <3>1. ObjectRight(S, P, Object(p))
      OBVIOUS
    <3>2. ObjectRight(S, P2, Object(p))
      <4> HIDE DEF S
      <4> QED
        BY <2>4, <3>1, UncalledRight
    <3> QED
      BY <2>2, <3>2
  <2>6. t <= t + MaxChunks + 1
    BY <1>2
  <2> QED
    BY <1>5, <2>2, <2>5, <2>6 DEF PutLeaves
<1>9. CASE ~(len <= ChunkSize) /\ ~path.hasVersion
  <2>1. r = StoreLarge(Progress(TRUE, c, t), o, id, len, freshness)
    BY <1>6, <1>9
  <2>2. len # 0 /\ len > ChunkSize
    BY <1>1, <1>2, <1>9
  <2>3. LargeStored(c, t, r, o, id, len) /\ AllThere(c, r, o, id, len)
    <3> HIDE DEF o
    <3> QED
      BY <1>1, <1>3, <2>1, <2>2, LargeIsStored DEF o
  <2>4. /\ Table(ChunkEntries, r.cs) /\ Sorted(EntrySet(r.cs), r.now) /\ r.ok \in BOOLEAN
        /\ r.now \in Nat /\ r.now <= t + MaxChunks + 1
    BY <2>3 DEF LargeStored
  <2>5. OneMore(P, P2, path, len, r.ok, id)
    BY <1>5, <2>4
  <2>6. \A p \in Paths : ObjectRight(EntrySet(r.cs), P2, Object(p))
    BY <1>1, <1>9, <2>2, <2>3, <2>5, LargePutRight
  <2>7. ASSUME r.ok PROVE StoredOk(r.cs, r.now, P2, path, len, id)
    <3>1. r.now + MaxChunks + 1 < Wrap
      <4> DEFINE x == r.now
      <4>1. x \in Nat /\ x <= t + MaxChunks + 1
        BY <2>4
      <4> HIDE DEF x
      <4>2. x + MaxChunks + 1 < Wrap
        BY <1>2, <4>1
      <4> QED
        BY <4>2 DEF x
    <3> QED
      BY <1>1, <1>3, <1>9, <2>2, <2>3, <2>7, <3>1, LargePutReadable
  <2> QED
    BY <1>5, <2>4, <2>6, <2>7 DEF PutLeaves
<1> QED
  BY <1>7, <1>8, <1>9

\* What a call of psirp_cs_lookup_chunked leaves, and returns.
GetLeaves(r, t, P, path) ==
  /\ Table(ChunkEntries, r.cs) /\ Sorted(EntrySet(r.cs), r.now) /\ r.ok \in BOOLEAN
  /\ r.now \in Nat /\ r.now <= t + MaxChunks + 1
  /\ \A p \in Paths : ObjectRight(EntrySet(r.cs), P, Object(p))
  /\ r.ok => OneContent(P, Object(path), r.data) /\ AllOfIt(P, r.data, r.off)

LEMMA GetStep ==
  ASSUME NEW c, Table(ChunkEntries, c), NEW t \in Nat, Sorted(EntrySet(c), t),
         NEW P \in Puts, \A p \in Paths : ObjectRight(EntrySet(c), P, Object(p)),
         NEW path \in Paths, NEW cap, NEW r, r = LookupChunked(c, path, cap, t)
  PROVE  GetLeaves(r, t, P, path)
<1> DEFINE o == Object(path)
           S == EntrySet(c)
<1>1. ObjectRight(S, P, o)
  OBVIOUS
<1>2. \A e \in Of(S, <<o, "chunks">>) : \E len \in Nat : len # 0 /\ e.data = Manifest(len)
  BY <1>1, CallNumbers DEF ObjectRight, ManifestsRight
<1>3. Got(c, t, r, o)
  BY <1>2, LookupGets
<1>4. /\ Table(ChunkEntries, r.cs) /\ Sorted(EntrySet(r.cs), r.now) /\ r.ok \in BOOLEAN
      /\ r.now \in Nat /\ r.now <= t + MaxChunks + 1
      /\ Mirrors(EntrySet(r.cs), S)
  BY <1>3 DEF Got
<1>5. \A b : Kept(EntrySet(r.cs), S, b)
  <2>1. \A b : \A x \in Of(EntrySet(r.cs), b) : \E y \in Of(S, b) : Same(x, y)
    BY <1>4, MirrorFacts
  <2> QED
    BY <2>1 DEF Kept, Same
<1>6. \A p \in Paths : ObjectRight(EntrySet(r.cs), P, Object(p))
  BY <1>5, KeepsRight
<1>7. r.ok => OneContent(P, o, r.data) /\ AllOfIt(P, r.data, r.off)
  BY <1>1, <1>3, ReadRight
<1> QED
  BY <1>4, <1>6, <1>7 DEF GetLeaves

\* A removal and a collection leave some of the entries.
LEMMA ShrinkStep ==
  ASSUME NEW c, Table(ChunkEntries, c), NEW t \in Nat, Sorted(EntrySet(c), t),
         NEW P \in Puts, \A p \in Paths : ObjectRight(EntrySet(c), P, Object(p)),
         NEW d, Table(ChunkEntries, d), EntrySet(d) \subseteq EntrySet(c)
  PROVE  /\ Sorted(EntrySet(d), t + 1)
         /\ \A p \in Paths : ObjectRight(EntrySet(d), P, Object(p))
<1>1. EntrySet(c) \in SUBSET ChunkEntries
  BY EntrySetType DEF Table
<1>2. Sorted(EntrySet(d), t + 1)
  BY <1>1, SortedShrinks
<1>3. \A b : Kept(EntrySet(d), EntrySet(c), b)
  BY DEF Kept, Of
<1> QED
  BY <1>2, <1>3, KeepsRight

\* The properties in the words of the lemmas.
Meaning ==
  /\ NeverMixed <=> (Read => OneContent(puts, Object(ret.path), buf.data))
  /\ WholeUnlessRefused <=> (Read => AllOfIt(puts, buf.data, buf.len))
  /\ StoredIsReadable <=>
       (ret.op = "put" /\ ret.ok /\ ~ret.path.hasVersion =>
          StoredOk(cs, now, puts, ret.path, puts[Len(puts)].len, Len(puts)))

LEMMA MeaningHolds == Meaning
<1>1. NeverMixed <=> (Read => OneContent(puts, Object(ret.path), buf.data))
  BY DEF NeverMixed, OneContent, BeginningOf, BeginsAs
<1>2. WholeUnlessRefused <=> (Read => AllOfIt(puts, buf.data, buf.len))
  BY DEF WholeUnlessRefused, AllOfIt
<1>3. StoredIsReadable <=>
        (ret.op = "put" /\ ret.ok /\ ~ret.path.hasVersion =>
           StoredOk(cs, now, puts, ret.path, puts[Len(puts)].len, Len(puts)))
  <2> DEFINE o == Object(ret.path)
             len == puts[Len(puts)].len
  <2>1. OverBudget(len) <=>
          cs.max_bytes > 0 /\ len + (IF len > ChunkSize THEN ManifestLen ELSE 0) > cs.max_bytes
    BY DEF OverBudget
  <2>2. Lapses(o) <=> ~Lasting(EntrySet(cs), o, now)
    BY DEF Lapses, Lasting
  <2> HIDE DEF o, len
  <2> QED
    BY <2>1, <2>2 DEF StoredIsReadable, StoredOk, Readable, o, len
<1> QED
  BY <1>1, <1>2, <1>3 DEF Meaning

\* What holds of the store and the calls between any two calls.
ChunkedInv ==
  /\ Table(ChunkEntries, cs) /\ ContentsRight
  /\ puts \in Puts /\ now \in Nat

ChunkedSafe == ChunkedInv /\ NeverMixed /\ WholeUnlessRefused /\ StoredIsReadable

\* The invariant holds at the start and each call keeps it.
LEMMA InitChunked == ChunkedInit => ChunkedSafe
<1> SUFFICES ASSUME ChunkedInit PROVE ChunkedSafe
  OBVIOUS
<1>1. PICK b \in Budgets : cs = [EmptyStore EXCEPT !.max_bytes = b]
  BY DEF ChunkedInit
<1>2. cs = [entries |-> << >>, bytes_used |-> 0, max_bytes |-> b] /\ b \in Nat
  BY <1>1, ContentStoreAssumption DEF EmptyStore
<1>3. cs \in StoresOf(ChunkEntries)
  BY <1>2 DEF StoresOf
<1>4. cs.entries = << >> /\ cs.bytes_used = 0 /\ DOMAIN cs.entries = {}
  BY <1>2
<1>5. EntrySet(cs) = {} /\ Recency(cs)
  BY <1>4 DEF EntrySet, Recency
<1>6. EntryBytes({}) = 0
  BY TotalEmpty DEF EntryBytes
<1>7. Table(ChunkEntries, cs)
  BY <1>3, <1>4, <1>5, <1>6, ChunkEntryFacts DEF Table
<1>8. puts = << >> /\ now = 0 /\ puts \in Puts /\ DOMAIN puts = {}
  BY DEF ChunkedInit, Puts
<1>9. ContentsRight
  <2>1. Sorted({}, now)
    BY DEF Sorted
  <2>2. ASSUME NEW p \in Paths PROVE ObjectRight({}, puts, Object(p))
    <3>1. \A o : LargeTries(puts, o) = {}
      BY <1>8 DEF LargeTries, PutOf
    <3> QED
      BY <3>1 DEF ObjectRight, DirectRight, ChunksRight, ManifestsRight, Of
  <2> QED
    BY <1>5, <2>1, <2>2 DEF ContentsRight
<1>10. ret.op # "get" /\ ret.op # "put"
  BY DEF ChunkedInit, Reply
<1>11. NeverMixed /\ WholeUnlessRefused /\ StoredIsReadable
  BY <1>10 DEF NeverMixed, WholeUnlessRefused, StoredIsReadable, Read
<1> QED
  BY <1>7, <1>8, <1>9, <1>11 DEF ChunkedSafe, ChunkedInv

LEMMA StepChunked == ChunkedSafe /\ [ChunkedNext]_chunkedVars => ChunkedSafe'
<1> SUFFICES ASSUME ChunkedSafe, [ChunkedNext]_chunkedVars PROVE ChunkedSafe'
  OBVIOUS
<1>0. Meaning'
  BY MeaningHolds, PTL
<1>1. /\ Table(ChunkEntries, cs) /\ Sorted(EntrySet(cs), now) /\ puts \in Puts /\ now \in Nat
      /\ \A p \in Paths : ObjectRight(EntrySet(cs), puts, Object(p))
  BY DEF ChunkedSafe, ChunkedInv, ContentsRight
<1>2. ASSUME Table(ChunkEntries, cs'), Sorted(EntrySet(cs'), now'), puts' \in Puts, now' \in Nat,
             \A p \in Paths : ObjectRight(EntrySet(cs'), puts', Object(p))
      PROVE  ChunkedInv'
  BY <1>2 DEF ChunkedInv, ContentsRight
<1>3. ASSUME NEW path \in Paths, NEW len \in Lengths, NEW freshness \in Lifetimes,
             Put(path, len, freshness)
      PROVE  ChunkedSafe'
  <2> DEFINE id == Len(puts) + 1
             r == StoreChunked(Progress(TRUE, cs, now), path, id, len, freshness)
             c == cs
             t == now
             P == puts
             P2 == Append(P, [path |-> path, len |-> len, ok |-> r.ok])
  <2>1. /\ cs' = r.cs /\ now' = r.now /\ puts' = P2 /\ ret' = Reply("put", path, r.ok, 0)
        /\ now < MaxTime
    BY <1>3 DEF Put, Call
  <2>2. /\ Table(ChunkEntries, c) /\ Sorted(EntrySet(c), t) /\ P \in Puts /\ t \in Nat
        /\ \A p \in Paths : ObjectRight(EntrySet(c), P, Object(p))
        /\ t < MaxTime /\ id = Len(P) + 1
        /\ r = StoreChunked(Progress(TRUE, c, t), path, id, len, freshness)
    BY <1>1, <2>1
  <2> HIDE DEF c, t, P, id, r
  <2>3. PutLeaves(r, t, P2, path, len, id)
    BY <2>2, PutStep
  <2>4. ChunkedInv'
    BY <1>2, <2>1, <2>3 DEF PutLeaves
  <2>5. ret'.op = "put" /\ ret'.path = path /\ ret'.ok = r.ok
    BY <2>1 DEF Reply
  <2>6. NeverMixed' /\ WholeUnlessRefused'
    BY <2>5 DEF NeverMixed, WholeUnlessRefused, Read
  <2>7. StoredIsReadable'
    <3>1. ret'.ok /\ ~ret'.path.hasVersion =>
            StoredOk(cs', now', puts', ret'.path, puts'[Len(puts')].len, Len(puts'))
      BY <2>1, <2>3, <2>5 DEF PutLeaves
    <3> QED
      BY <1>0, <3>1 DEF Meaning
  <2> QED
    BY <2>4, <2>6, <2>7 DEF ChunkedSafe
<1>4. ASSUME NEW path \in Paths, NEW cap \in OutCaps, Get(path, cap) PROVE ChunkedSafe'
  <2> DEFINE r == LookupChunked(cs, path, cap, now)
             c == cs
             t == now
             P == puts
  <2>1. /\ cs' = r.cs /\ now' = r.now /\ puts' = puts /\ ret' = Reply("get", path, r.ok, 0)
        /\ buf' = IF r.ok THEN Buffer(r.data, r.off) ELSE Untouched
    BY <1>4 DEF Get
  <2>2. /\ Table(ChunkEntries, c) /\ Sorted(EntrySet(c), t) /\ P \in Puts /\ t \in Nat
        /\ \A p \in Paths : ObjectRight(EntrySet(c), P, Object(p))
        /\ r = LookupChunked(c, path, cap, t)
    BY <1>1
  <2> HIDE DEF c, t, P, r
  <2>3. GetLeaves(r, t, P, path)
    BY <2>2, GetStep
  <2>4. ChunkedInv'
    BY <1>1, <1>2, <2>1, <2>3 DEF GetLeaves, P
  <2>5. ret'.op = "get" /\ ret'.path = path /\ ret'.ok = r.ok
    BY <2>1 DEF Reply
  <2>6. StoredIsReadable'
    BY <2>5 DEF StoredIsReadable
  <2>7. ASSUME Read'
        PROVE  /\ OneContent(puts', Object(ret'.path), buf'.data)
               /\ AllOfIt(puts', buf'.data, buf'.len)
    <3>1. r.ok
      BY <2>5, <2>7 DEF Read
    <3>2. buf'.data = r.data /\ buf'.len = r.off
      BY <2>1, <3>1 DEF Buffer
    <3> QED
      BY <2>1, <2>3, <2>5, <3>1, <3>2 DEF GetLeaves, P
  <2>8. NeverMixed' /\ WholeUnlessRefused'
    BY <1>0, <2>7 DEF Meaning
  <2> QED
    BY <2>4, <2>6, <2>8 DEF ChunkedSafe
<1>5. ASSUME Table(ChunkEntries, cs'), EntrySet(cs') \subseteq EntrySet(cs), now' = now + 1,
             puts' = puts, ret'.op # "get", ret'.op # "put"
      PROVE  ChunkedSafe'
  <2> DEFINE c == cs
             d == cs'
             t == now
             P == puts
  <2>1. /\ Table(ChunkEntries, c) /\ Sorted(EntrySet(c), t) /\ P \in Puts /\ t \in Nat
        /\ \A p \in Paths : ObjectRight(EntrySet(c), P, Object(p))
        /\ Table(ChunkEntries, d) /\ EntrySet(d) \subseteq EntrySet(c)
    BY <1>1, <1>5
  <2> HIDE DEF c, d, t, P
  <2>2. /\ Sorted(EntrySet(d), t + 1)
        /\ \A p \in Paths : ObjectRight(EntrySet(d), P, Object(p))
    BY <2>1, ShrinkStep
  <2>3. ChunkedInv'
    BY <1>1, <1>2, <1>5, <2>2 DEF d, t, P
  <2>4. NeverMixed' /\ WholeUnlessRefused' /\ StoredIsReadable'
    BY <1>5 DEF NeverMixed, WholeUnlessRefused, StoredIsReadable, Read
  <2> QED
    BY <2>3, <2>4 DEF ChunkedSafe
<1>6. ASSUME Other PROVE ChunkedSafe'
  <2>1. CASE \E p \in Paths : Remove1(p)
    <3>1. PICK p \in Paths : Remove1(p)
      BY <2>1
    <3> DEFINE r == CsRemove(cs, NameInit(p))
               c == cs
    <3>2. /\ cs' = r.cs /\ ret' = Reply("remove", p, r.ok, 0) /\ now' = now + 1
      BY <3>1 DEF Remove1, Clock
    <3>3. Table(ChunkEntries, c) /\ Hashed(EntrySet(c)) /\ p.hasVersion \in BOOLEAN
      BY <1>1, PathType DEF Sorted, Hashed
    <3>4. r = CsRemove(c, NameInit(p))
      OBVIOUS
    <3> HIDE DEF c, r
    <3>5. RemoveResult(ChunkEntries, c, CsRemove(c, NameInit(p)), p)
      BY <3>3, RemoveTable
    <3>6. Table(ChunkEntries, r.cs) /\ EntrySet(r.cs) \subseteq EntrySet(c)
      BY <3>4, <3>5 DEF RemoveResult
    <3>7. puts' = puts
      BY <1>6 DEF Other
    <3>8. ret'.op = "remove"
      BY <3>2 DEF Reply
    <3> QED
      BY <1>5, <3>2, <3>6, <3>7, <3>8 DEF c
  <2>2. CASE Gc
    <3> DEFINE c == cs
               t == now
               d == CsGc(c, t)
    <3>1. cs' = d /\ now' = now + 1 /\ ret'.op = "gc"
      BY <2>2 DEF Gc, Clock, Reply
    <3>2. Table(ChunkEntries, c)
      BY <1>1
    <3> HIDE DEF c, t
    <3>3. Table(ChunkEntries, d) /\ EntrySet(d) \subseteq EntrySet(c)
      BY <3>2, GcTable
    <3>4. puts' = puts
      BY <1>6 DEF Other
    <3> QED
      BY <1>5, <3>1, <3>3, <3>4 DEF c
  <2> QED
    BY <1>6, <2>1, <2>2 DEF Other
<1>7. ASSUME UNCHANGED chunkedVars PROVE ChunkedSafe'
  <2>1. cs' = cs /\ now' = now /\ ret' = ret /\ puts' = puts /\ buf' = buf
    BY <1>7 DEF chunkedVars
  <2>2. ChunkedInv'
    BY <1>1, <1>2, <2>1
  <2>3. Meaning
    BY MeaningHolds
  <2>4. /\ Read => OneContent(puts, Object(ret.path), buf.data)
        /\ Read => AllOfIt(puts, buf.data, buf.len)
        /\ ret.op = "put" /\ ret.ok /\ ~ret.path.hasVersion =>
             StoredOk(cs, now, puts, ret.path, puts[Len(puts)].len, Len(puts))
    BY <2>3 DEF Meaning, ChunkedSafe
  <2>5. NeverMixed' /\ WholeUnlessRefused'
    BY <1>0, <2>1, <2>4 DEF Meaning, Read
  <2>6. StoredIsReadable'
    BY <1>0, <2>1, <2>4 DEF Meaning
  <2> QED
    BY <2>2, <2>5, <2>6 DEF ChunkedSafe
<1> QED
  BY <1>3, <1>4, <1>6, <1>7 DEF ChunkedNext

\* Every entry an object has in the store is the content of the call that its place
\* says: the name itself holds content stored whole, the chunks below the first
\* missing one are the last call's, a manifest is that of a call that stored chunks.
THEOREM ContentsStayRight == ChunkedSpec => []ContentsRight
<1>1. ChunkedSafe => ContentsRight
  BY DEF ChunkedSafe, ChunkedInv
<1> QED
  BY <1>1, InitChunked, StepChunked, PTL DEF ChunkedSpec

\* However large the contents, the store and its budget, and whatever is evicted,
\* removed, refused or expires between and within the calls: a lookup never returns
\* pieces of two contents (psirp.c:529-548, 599-607).
THEOREM ContentNeverMixed == ChunkedSpec => []NeverMixed
<1>1. ChunkedSafe => NeverMixed
  BY DEF ChunkedSafe
<1> QED
  BY <1>1, InitChunked, StepChunked, PTL DEF ChunkedSpec

\* And what it returns is all of that content unless storing it was refused part
\* way (psirp.c:541, 610).
THEOREM ReadsAreWhole == ChunkedSpec => []WholeUnlessRefused
<1>1. ChunkedSafe => WholeUnlessRefused
  BY DEF ChunkedSafe
<1> QED
  BY <1>1, InitChunked, StepChunked, PTL DEF ChunkedSpec

\* Content just stored can be read back whole, whatever its chunks evicted, but for
\* the exceptions the property names (psirp.c:529, 585).
THEOREM StoredCanBeRead == ChunkedSpec => []StoredIsReadable
<1>1. ChunkedSafe => StoredIsReadable
  BY DEF ChunkedSafe
<1> QED
  BY <1>1, InitChunked, StepChunked, PTL DEF ChunkedSpec
=============================================================================
