-------------------------- MODULE DiscoveryProofs --------------------------
(***************************************************************************)
(* What the record, peer and topic tables of Discovery keep, for every     *)
(* number of nodes, names and versions and every capacity.  The lemmas     *)
(* follow the code's layers: a list of holders, a table of records, and    *)
(* the calls that change them.                                             *)
(***************************************************************************)
EXTENDS Discovery, TableLemmas, SequenceTheorems

\* The first slot of a scan is one of the slots it found.
LEMMA FirstType ==
  ASSUME NEW n \in Nat, NEW S \in SUBSET (1..n), S # {}
  PROVE  First(S) \in S
<1>1. IsFiniteSet(S) /\ Cardinality(S) \in Nat
  BY KeepFinite
<1>2. Cardinality(S) # 0
  BY <1>1, FS_EmptySet
<1>3. PICK i \in S : Rank(S, i) = 1
  BY <1>1, <1>2, RankOnto
<1>4. ASSUME NEW j \in S PROVE i <= j
  <2> SUFFICES ASSUME j < i PROVE FALSE
    OBVIOUS
  <2>1. Rank(S, j) < Rank(S, i)
    BY RankIncreases
  <2>2. Rank(S, j) \in 1..Cardinality(S)
    BY RankType
  <2> QED
    BY <1>1, <1>3, <2>1, <2>2
<1> QED
  BY <1>4 DEF First

----------------------------------------------------------------------------
(* A list of holders *)

\* Appending newcomers keeps what is there and stays within the list's size.
LEMMA ExtendedFacts ==
  ASSUME NEW old \in Seq(Nodes), NEW more \in Seq(Nodes), Len(old) <= MaxHolders,
         NEW new, new = Extended(old, more)
  PROVE  /\ new \in Seq(Nodes) /\ Len(new) <= MaxHolders /\ Len(old) <= Len(new)
         /\ Len(new) < MaxHolders => Len(new) = Len(old) + Len(more)
         /\ \A i \in 1..Len(old) : new[i] = old[i]
         /\ \A i \in Len(old)+1..Len(new) :
              i - Len(old) \in 1..Len(more) /\ new[i] = more[i - Len(old)]
<1> USE DiscoveryAssumption
<1> DEFINE all == old \o more
           m == IF Len(all) <= MaxHolders THEN Len(all) ELSE MaxHolders
<1>1. /\ all \in Seq(Nodes) /\ Len(all) = Len(old) + Len(more)
      /\ \A i \in 1..Len(old) : all[i] = old[i]
      /\ \A i \in Len(old)+1..Len(all) :
           i - Len(old) \in 1..Len(more) /\ all[i] = more[i - Len(old)]
  OBVIOUS
<1>2. m \in 0..Len(all) /\ m <= MaxHolders /\ Len(old) <= m
  BY <1>1
<1>3. m < MaxHolders => m = Len(all)
  OBVIOUS
<1>4. new = SubSeq(all, 1, m)
  BY DEF Extended
<1> HIDE DEF all, m
<1>5. /\ new \in Seq(Nodes) /\ Len(new) = m
      /\ \A i \in 1..m : new[i] = all[i]
  BY <1>1, <1>2, <1>4
<1> QED
  BY <1>1, <1>2, <1>3, <1>5

\* The newcomers of a merge: those not in the list, in order.
Newcomers(old, more) == Compact(more, {i \in DOMAIN more : more[i] \notin HolderSet(old)})

Distinct(s) == \A i, j \in DOMAIN s : s[i] = s[j] => i = j

LEMMA NewcomersFacts ==
  ASSUME NEW old \in Seq(Nodes), NEW more \in Seq(Nodes)
  PROVE  /\ Newcomers(old, more) \in Seq(Nodes)
         /\ HolderSet(Newcomers(old, more)) = HolderSet(more) \ HolderSet(old)
         /\ Distinct(more) => Distinct(Newcomers(old, more))
<1> DEFINE keep  == {i \in DOMAIN more : more[i] \notin HolderSet(old)}
           fresh == Compact(more, keep)
<1>1. keep \in SUBSET (1..Len(more)) /\ keep \in SUBSET DOMAIN more /\ Len(more) \in Nat
  OBVIOUS
<1>2. \A i \in DOMAIN more : i \in keep <=> more[i] \notin HolderSet(old)
  OBVIOUS
<1>3. Newcomers(old, more) = fresh
  BY DEF Newcomers
<1> HIDE DEF keep
<1>4. /\ fresh \in Seq(Nodes) /\ Len(fresh) = Cardinality(keep) /\ Cardinality(keep) \in Nat
      /\ \A k \in 1..Cardinality(keep) :
           Origin(keep, k) \in keep /\ fresh[k] = more[Origin(keep, k)]
  BY <1>1, CompactType, Zenon
<1> HIDE DEF fresh
<1>5. DOMAIN fresh = 1..Cardinality(keep)
  BY <1>4
<1>6. \A k \in DOMAIN fresh : Rank(keep, Origin(keep, k)) = k
  BY <1>1, <1>5, RankOfOrigin
<1>7. \A i \in keep : Rank(keep, i) \in DOMAIN fresh /\ Origin(keep, Rank(keep, i)) = i
  BY <1>1, <1>5, RankType, OriginOfRank
<1>8. HolderSet(fresh) \subseteq HolderSet(more) \ HolderSet(old)
  BY <1>1, <1>2, <1>4, <1>5 DEF HolderSet
<1>9. ASSUME NEW h \in HolderSet(more) \ HolderSet(old) PROVE h \in HolderSet(fresh)
  <2>1. PICK i \in DOMAIN more : h = more[i]
    BY <1>9 DEF HolderSet
  <2>2. i \in keep
    BY <1>2, <2>1
  <2>3. fresh[Rank(keep, i)] = h
    BY <1>4, <1>5, <1>7, <2>1, <2>2
  <2> QED
    BY <1>7, <2>2, <2>3 DEF HolderSet
<1>10. ASSUME Distinct(more), NEW i \in DOMAIN fresh, NEW j \in DOMAIN fresh,
              fresh[i] = fresh[j]
       PROVE  i = j
  <2>1. Origin(keep, i) = Origin(keep, j)
    BY <1>1, <1>4, <1>5, <1>10 DEF Distinct
  <2> QED
    BY <1>6, <2>1
<1>11. Distinct(more) => Distinct(fresh)
  BY <1>10 DEF Distinct
<1> QED
  BY <1>3, <1>4, <1>8, <1>9, <1>11

\* A merge of sound lists is sound: holders stay, none comes from elsewhere, and
\* every newcomer is in unless the list is full.
LEMMA MergeFacts ==
  ASSUME NEW old \in Seq(Nodes), NEW more \in Seq(Nodes), Len(old) <= MaxHolders,
         Distinct(old), Distinct(more), NEW new, new = Merge(old, more)
  PROVE  /\ new \in Seq(Nodes) /\ Len(new) <= MaxHolders /\ Distinct(new)
         /\ Len(old) <= Len(new)
         /\ HolderSet(old) \subseteq HolderSet(new)
         /\ HolderSet(new) \subseteq HolderSet(old) \cup HolderSet(more)
         /\ Len(new) < MaxHolders => HolderSet(more) \subseteq HolderSet(new)
<1> DEFINE fresh == Newcomers(old, more)
<1>1. /\ fresh \in Seq(Nodes) /\ HolderSet(fresh) = HolderSet(more) \ HolderSet(old)
      /\ Distinct(fresh)
  BY NewcomersFacts
<1>2. new = Extended(old, fresh)
  BY DEF Merge, Newcomers
<1> HIDE DEF fresh
<1>3. /\ new \in Seq(Nodes) /\ Len(new) <= MaxHolders /\ Len(old) <= Len(new)
      /\ Len(new) < MaxHolders => Len(new) = Len(old) + Len(fresh)
      /\ \A i \in 1..Len(old) : new[i] = old[i]
      /\ \A i \in Len(old)+1..Len(new) :
           i - Len(old) \in 1..Len(fresh) /\ new[i] = fresh[i - Len(old)]
  BY <1>1, <1>2, ExtendedFacts
<1>4. Len(old) \in Nat /\ Len(new) \in Nat /\ Len(fresh) \in Nat /\ DOMAIN old = 1..Len(old)
      /\ DOMAIN new = 1..Len(new) /\ DOMAIN fresh = 1..Len(fresh)
  BY <1>1, <1>3
<1>5. Len(old) \in Nat /\ Len(new) \in Nat /\ Len(fresh) \in Nat
  BY <1>4
<1>6. \A i \in 1..Len(old) : new[i] \in HolderSet(old)
  BY <1>3, <1>4 DEF HolderSet
<1>7. \A i \in Len(old)+1..Len(new) : new[i] \in HolderSet(fresh)
  BY <1>3, <1>4 DEF HolderSet
<1>8. \A i \in 1..Len(new) : i \in 1..Len(old) \/ i \in Len(old)+1..Len(new)
  BY <1>4
<1>9. ASSUME NEW i \in DOMAIN new, NEW j \in DOMAIN new, new[i] = new[j] PROVE i = j
  <2>1. CASE i \in 1..Len(old) /\ j \in 1..Len(old)
    BY <1>3, <1>4, <1>9, <2>1 DEF Distinct
  <2>2. CASE i \in Len(old)+1..Len(new) /\ j \in Len(old)+1..Len(new)
    <3>1. /\ i - Len(old) \in DOMAIN fresh /\ j - Len(old) \in DOMAIN fresh
          /\ fresh[i - Len(old)] = fresh[j - Len(old)]
      BY <1>3, <1>4, <1>9, <2>2
    <3>2. i - Len(old) = j - Len(old)
      BY <1>1, <3>1 DEF Distinct
    <3> QED
      BY <1>4, <3>2
  <2>3. CASE i \in 1..Len(old) /\ j \in Len(old)+1..Len(new)
    BY <1>1, <1>6, <1>7, <1>9, <2>3
  <2>4. CASE j \in 1..Len(old) /\ i \in Len(old)+1..Len(new)
    BY <1>1, <1>6, <1>7, <1>9, <2>4
  <2> QED
    BY <1>4, <1>8, <2>1, <2>2, <2>3, <2>4
<1>10. HolderSet(old) \subseteq HolderSet(new)
  <2>1. Len(old) <= Len(new) /\ \A i \in 1..Len(old) : new[i] = old[i]
    BY <1>3, Zenon
  <2>2. \A i \in 1..Len(old) : i \in 1..Len(new)
    BY <1>5, <2>1
  <2>3. \A i \in DOMAIN old : i \in DOMAIN new /\ new[i] = old[i]
    BY <1>4, <2>1, <2>2, Zenon
  <2> QED
    BY <2>3 DEF HolderSet
<1>11. HolderSet(new) \subseteq HolderSet(old) \cup HolderSet(fresh)
  <2>1. \A i \in DOMAIN new : new[i] \in HolderSet(old) \/ new[i] \in HolderSet(fresh)
    BY <1>4, <1>6, <1>7, <1>8
  <2> QED
    BY <2>1 DEF HolderSet
<1>12. ASSUME Len(new) < MaxHolders, NEW k \in DOMAIN fresh PROVE fresh[k] \in HolderSet(new)
  <2>1. Len(new) = Len(old) + Len(fresh) /\ k \in 1..Len(fresh)
    BY <1>3, <1>4, <1>12, Zenon
  <2>2. Len(old) + k \in Len(old)+1..Len(new) /\ (Len(old) + k) - Len(old) = k
        /\ Len(old) + k \in 1..Len(new)
    BY <1>5, <2>1
  <2>3. new[Len(old) + k] = fresh[(Len(old) + k) - Len(old)]
    BY <1>3, <2>2, Zenon
  <2>4. new[Len(old) + k] = fresh[k] /\ Len(old) + k \in DOMAIN new
    BY <1>4, <2>2, <2>3, Zenon
  <2> QED
    BY <2>4 DEF HolderSet
<1>13. Len(new) < MaxHolders => HolderSet(fresh) \subseteq HolderSet(new)
  BY <1>12 DEF HolderSet
<1>14. Distinct(new)
  BY <1>9 DEF Distinct
<1> QED
  BY <1>1, <1>3, <1>10, <1>11, <1>13, <1>14

----------------------------------------------------------------------------
(* A table of records *)

\* What RecordsSound says of one table.
TableSound(table) ==
  /\ table \in Seq(Record) /\ Len(table) <= MaxRecords
  /\ \A k \in DOMAIN table : ListSound(table[k])
  /\ \A k, l \in DOMAIN table : table[k].name = table[l].name => k = l

\* find_record finds the record if there is one.
LEMMA FindRecordFacts ==
  ASSUME NEW table \in Seq(Record), NEW x, NEW k, k = FindRecord(table, x)
  PROVE  /\ k \in 0..Len(table)
         /\ k # 0 => k \in DOMAIN table /\ table[k].name = x
         /\ k = 0 => \A l \in DOMAIN table : table[l].name # x
<1> DEFINE found == {l \in DOMAIN table : table[l].name = x}
<1>1. found \in SUBSET (1..Len(table)) /\ Len(table) \in Nat
  OBVIOUS
<1>2. \A l \in DOMAIN table : l \in found <=> table[l].name = x
  OBVIOUS
<1>3. k = IF found = {} THEN 0 ELSE First(found)
  BY DEF FindRecord
<1> HIDE DEF found
<1>4. found # {} => First(found) \in found
  BY <1>1, FirstType, Zenon
<1>5. CASE found = {}
  BY <1>1, <1>2, <1>3, <1>5
<1>6. CASE found # {}
  <2>1. k \in found
    BY <1>3, <1>4, <1>6
  <2>2. k \in 1..Len(table)
    BY <1>1, <2>1
  <2> QED
    BY <1>1, <1>2, <2>1, <2>2
<1> QED
  BY <1>5, <1>6

\* In a sound table the record of a name is the one find_record finds.
LEMMA FindRecordUnique ==
  ASSUME NEW table, TableSound(table), NEW l \in DOMAIN table
  PROVE  FindRecord(table, table[l].name) = l
BY FindRecordFacts DEF TableSound

\* The place a record takes, and the table with it.
LEMMA WithRecordFacts ==
  ASSUME NEW table, TableSound(table), NEW x \in Names, NEW new, new = WithRecord(table, x)
  PROVE  /\ TableSound(new) /\ Len(table) <= Len(new)
         /\ \A l \in DOMAIN table : l \in DOMAIN new /\ new[l] = table[l]
         /\ \A l \in DOMAIN new \ DOMAIN table : new[l] = [name |-> x, holders |-> <<>>]
         /\ FindRecord(new, x) = 0 => Len(new) = MaxRecords
<1> USE DiscoveryAssumption
<1>1. table \in Seq(Record) /\ Len(table) \in Nat /\ Len(table) <= MaxRecords
  BY DEF TableSound
<1>2. CASE FindRecord(table, x) # 0 \/ Len(table) >= MaxRecords
  <2>1. new = table
    BY <1>2 DEF WithRecord
  <2> QED
    BY <1>1, <1>2, <2>1
<1>3. CASE FindRecord(table, x) = 0 /\ Len(table) < MaxRecords
  <2> DEFINE e == [name |-> x, holders |-> <<>>]
  <2>1. e \in Record /\ ListSound(e) /\ e.name = x
    BY DEF Record, ListSound
  <2>2. new = Append(table, e)
    BY <1>1, <1>3 DEF WithRecord
  <2>3. \A l \in DOMAIN table : table[l].name # x
    BY <1>1, <1>3, FindRecordFacts
  <2>4. e = [name |-> x, holders |-> <<>>]
    OBVIOUS
  <2> HIDE DEF e
  <2>5. /\ new \in Seq(Record) /\ Len(new) = Len(table) + 1
        /\ \A l \in 1..Len(table) : new[l] = table[l]
        /\ new[Len(table) + 1] = e
    BY <1>1, <2>1, <2>2
  <2>6. DOMAIN new = 1..Len(table)+1 /\ DOMAIN table = 1..Len(table)
    BY <1>1, <2>5
  <2>7. \A l \in DOMAIN new : l \in DOMAIN table \/ l = Len(table) + 1
    BY <1>1, <2>6
  <2>8. \A l \in DOMAIN table : l \in DOMAIN new /\ new[l] = table[l]
    BY <1>1, <2>5, <2>6
  <2>9. TableSound(new)
    <3>1. \A l \in DOMAIN new : ListSound(new[l])
      BY <2>1, <2>5, <2>7, <2>8 DEF TableSound
    <3>2. ASSUME NEW k \in DOMAIN new, NEW l \in DOMAIN new, new[k].name = new[l].name
          PROVE  k = l
      <4>1. CASE k \in DOMAIN table /\ l \in DOMAIN table
        BY <2>8, <3>2, <4>1 DEF TableSound
      <4>2. CASE k \in DOMAIN table /\ l = Len(table) + 1
        BY <2>1, <2>3, <2>5, <2>8, <3>2, <4>2
      <4>3. CASE l \in DOMAIN table /\ k = Len(table) + 1
        BY <2>1, <2>3, <2>5, <2>8, <3>2, <4>3
      <4> QED
        BY <2>7, <4>1, <4>2, <4>3
    <3>3. Len(new) <= MaxRecords
      BY <1>1, <1>3, <2>5
    <3> QED
      BY <2>5, <3>1, <3>2, <3>3 DEF TableSound
  <2>10. \A l \in DOMAIN new \ DOMAIN table : new[l] = e
    BY <2>5, <2>7
  <2>11. FindRecord(new, x) # 0
    <3>1. Len(table) + 1 \in DOMAIN new /\ new[Len(table) + 1].name = x
      BY <1>1, <2>1, <2>5, <2>6
    <3> QED
      BY <2>5, <3>1, FindRecordFacts
  <2> QED
    BY <1>1, <2>4, <2>5, <2>8, <2>9, <2>10, <2>11
<1> QED
  BY <1>1, <1>2, <1>3

\* A sound table in which every holder stays and the newcomers are holders of the
\* name, all of them unless a table is full.
Enriched(table, new, x, more) ==
  /\ TableSound(new) /\ Len(table) <= Len(new)
  /\ \A l \in DOMAIN table :
       /\ l \in DOMAIN new /\ new[l].name = table[l].name
       /\ Len(table[l].holders) <= Len(new[l].holders)
       /\ HolderSet(table[l].holders) \subseteq HolderSet(new[l].holders)
  /\ \A l \in DOMAIN new : \A h \in HolderSet(new[l].holders) :
       \/ l \in DOMAIN table /\ h \in HolderSet(table[l].holders)
       \/ new[l].name = x /\ h \in HolderSet(more)
  /\ \/ FindRecord(new, x) = 0 /\ Len(new) = MaxRecords
     \/ \E l \in DOMAIN new :
          /\ new[l].name = x
          /\ \/ HolderSet(more) \subseteq HolderSet(new[l].holders)
             \/ Len(new[l].holders) = MaxHolders

\* That is what putting holders of a name into a sound table leaves.
LEMMA PutIntoFacts ==
  ASSUME NEW table, TableSound(table), NEW x \in Names,
         NEW more \in Seq(Nodes), Distinct(more), NEW new, new = PutInto(table, x, more)
  PROVE  Enriched(table, new, x, more)
<1> USE DiscoveryAssumption
<1> DEFINE grown == WithRecord(table, x)
           k == FindRecord(grown, x)
<1>1. /\ TableSound(grown) /\ Len(table) <= Len(grown)
      /\ \A l \in DOMAIN table : l \in DOMAIN grown /\ grown[l] = table[l]
      /\ \A l \in DOMAIN grown \ DOMAIN table : grown[l] = [name |-> x, holders |-> <<>>]
      /\ k = 0 => Len(grown) = MaxRecords
  BY WithRecordFacts
<1>2. k = 0 => new = grown
  BY DEF PutInto
<1>3. k # 0 => new = [grown EXCEPT ![k].holders = Merge(@, more)]
  BY DEF PutInto
<1>4. FindRecord(grown, x) = k
  OBVIOUS
<1> HIDE DEF grown, k
<1>5. grown \in Seq(Record) /\ Len(grown) \in Nat /\ DOMAIN grown = 1..Len(grown)
      /\ table \in Seq(Record) /\ Len(table) \in Nat
  BY <1>1 DEF TableSound
<1>6. k # 0 => k \in DOMAIN grown /\ grown[k].name = x
  BY <1>4, <1>5, FindRecordFacts
<1>7. \A l \in DOMAIN grown : \A h \in HolderSet(grown[l].holders) :
        l \in DOMAIN table /\ h \in HolderSet(table[l].holders)
  <2> SUFFICES ASSUME NEW l \in DOMAIN grown, NEW h \in HolderSet(grown[l].holders)
               PROVE  l \in DOMAIN table /\ h \in HolderSet(table[l].holders)
    OBVIOUS
  <2>1. CASE l \in DOMAIN table
    BY <1>1, <2>1
  <2>2. CASE l \notin DOMAIN table
    <3>1. grown[l].holders = <<>>
      BY <1>1, <2>2
    <3> QED
      BY <3>1 DEF HolderSet
  <2> QED
    BY <2>1, <2>2
<1>8. ASSUME NEW l \in DOMAIN table PROVE Len(table[l].holders) \in Nat
  <2>1. table[l] \in Record
    BY <1>5
  <2>2. table[l].holders \in Seq(Nodes)
    BY <2>1 DEF Record
  <2> QED
    BY <2>2
<1>9. CASE k = 0
  <2>1. new = grown
    BY <1>2, <1>9
  <2>2. \A l \in DOMAIN table : l \in DOMAIN new /\ new[l] = table[l]
    BY <1>1, <2>1
  <2>3. \A l \in DOMAIN table :
          /\ l \in DOMAIN new /\ new[l].name = table[l].name
          /\ Len(table[l].holders) <= Len(new[l].holders)
          /\ HolderSet(table[l].holders) \subseteq HolderSet(new[l].holders)
    BY <1>8, <2>2
  <2>4. FindRecord(new, x) = 0 /\ Len(new) = MaxRecords
    BY <1>1, <1>4, <1>9, <2>1
  <2>5. TableSound(new) /\ Len(table) <= Len(new)
    BY <1>1, <2>1
  <2> QED
    BY <1>7, <2>1, <2>3, <2>4, <2>5, Zenon DEF Enriched
<1>10. CASE k # 0
  <2> DEFINE old == grown[k].holders
             list == Merge(old, more)
             e == [grown[k] EXCEPT !.holders = list]
  <2>1. /\ k \in DOMAIN grown /\ grown[k] \in Record /\ grown[k].name = x
        /\ old \in Seq(Nodes) /\ Len(old) <= MaxHolders /\ Distinct(old)
    <3>1. k \in DOMAIN grown /\ grown[k] \in Record /\ grown[k].name = x
      BY <1>5, <1>6, <1>10
    <3>2. ListSound(grown[k])
      BY <1>1, <3>1 DEF TableSound
    <3> QED
      BY <3>1, <3>2 DEF Record, ListSound, Distinct
  <2>2. /\ list \in Seq(Nodes) /\ Len(list) <= MaxHolders /\ Distinct(list)
        /\ Len(old) <= Len(list)
        /\ HolderSet(old) \subseteq HolderSet(list)
        /\ HolderSet(list) \subseteq HolderSet(old) \cup HolderSet(more)
        /\ Len(list) < MaxHolders => HolderSet(more) \subseteq HolderSet(list)
    <3> HIDE DEF old
    <3> QED
      BY <2>1, MergeFacts, Zenon
  <2>3. new = [grown EXCEPT ![k] = e]
    BY <1>3, <1>10
  <2>4. e.name = x /\ e.holders = list /\ e \in Record /\ ListSound(e)
    <3> HIDE DEF list
    <3>1. e.name = x /\ e.holders = list /\ e \in Record
      BY <2>1, <2>2 DEF Record
    <3> HIDE DEF e
    <3> QED
      BY <2>2, <3>1 DEF ListSound, Distinct
  <2>5. old = grown[k].holders
    OBVIOUS
  <2> HIDE DEF e, list, old
  <2>6. /\ new \in Seq(Record) /\ Len(new) = Len(grown) /\ DOMAIN new = DOMAIN grown
        /\ new[k] = e
        /\ \A l \in DOMAIN grown : l # k => new[l] = grown[l]
    BY <1>5, <2>1, <2>3, <2>4
  <2>7. \A l \in DOMAIN new : new[l].name = grown[l].name
    BY <2>1, <2>4, <2>6
  <2>8. TableSound(new)
    <3>1. Len(new) <= MaxRecords
      BY <1>1, <2>6 DEF TableSound
    <3>2. \A l \in DOMAIN new : ListSound(new[l])
      BY <1>1, <2>4, <2>6 DEF TableSound
    <3>3. \A l, m \in DOMAIN new : new[l].name = new[m].name => l = m
      BY <1>1, <2>6, <2>7 DEF TableSound
    <3> QED
      BY <2>6, <3>1, <3>2, <3>3 DEF TableSound
  <2>9. ASSUME NEW l \in DOMAIN table
        PROVE  /\ l \in DOMAIN new /\ new[l].name = table[l].name
               /\ Len(table[l].holders) <= Len(new[l].holders)
               /\ HolderSet(table[l].holders) \subseteq HolderSet(new[l].holders)
    <3>1. l \in DOMAIN new /\ grown[l] = table[l] /\ new[l].name = table[l].name
      BY <1>1, <2>6, <2>7
    <3>2. CASE l = k
      BY <2>2, <2>4, <2>5, <2>6, <3>1, <3>2
    <3>3. CASE l # k
      BY <1>8, <2>6, <3>1, <3>3
    <3> QED
      BY <3>1, <3>2, <3>3
  <2>10. ASSUME NEW l \in DOMAIN new, NEW h \in HolderSet(new[l].holders)
         PROVE  \/ l \in DOMAIN table /\ h \in HolderSet(table[l].holders)
                \/ new[l].name = x /\ h \in HolderSet(more)
    <3>1. CASE l = k
      BY <1>7, <2>1, <2>2, <2>4, <2>5, <2>6, <2>10, <3>1
    <3>2. CASE l # k
      BY <1>7, <2>6, <2>10, <3>2
    <3> QED
      BY <3>1, <3>2
  <2>11. HolderSet(more) \subseteq HolderSet(list) \/ Len(list) = MaxHolders
    BY <2>2
  <2>12. k \in DOMAIN new /\ new[k].name = x /\ new[k].holders = list
    BY <2>1, <2>4, <2>6
  <2>13. Len(table) <= Len(new)
    BY <1>1, <2>6
  <2> QED
    BY <2>8, <2>9, <2>10, <2>11, <2>12, <2>13 DEF Enriched
<1> QED
  BY <1>9, <1>10

\* dht_lookup answers with the holders of the name's record.
LEMMA LookupFacts ==
  ASSUME NEW table, TableSound(table), NEW x, NEW h
  PROVE  h \in Lookup(table, x) <=>
           \E l \in DOMAIN table : table[l].name = x /\ h \in HolderSet(table[l].holders)
<1> DEFINE k == FindRecord(table, x)
<1>1. table \in Seq(Record) /\ Len(table) \in Nat
  BY DEF TableSound
<1>2. /\ k # 0 => k \in DOMAIN table /\ table[k].name = x
      /\ k = 0 => \A l \in DOMAIN table : table[l].name # x
  BY <1>1, FindRecordFacts
<1>3. \A l \in DOMAIN table : table[l].name = x => l = k
  BY FindRecordUnique
<1>4. Lookup(table, x) = IF k = 0 THEN {} ELSE HolderSet(table[k].holders)
  BY DEF Lookup
<1> HIDE DEF k
<1> QED
  BY <1>2, <1>3, <1>4

\* What PublishedIsFindable says of one accepted version.
Findable(table, x, n) ==
  LET k == FindRecord(table, x)
  IN  \/ n \in Lookup(table, x)
      \/ k = 0 /\ Len(table) = MaxRecords
      \/ k # 0 /\ Len(table[k].holders) = MaxHolders

\* Findable, record by record.
LEMMA FindableFacts ==
  ASSUME NEW table, TableSound(table), NEW x, NEW n
  PROVE  Findable(table, x, n) <=>
           \/ \E l \in DOMAIN table :
                /\ table[l].name = x
                /\ \/ n \in HolderSet(table[l].holders)
                   \/ Len(table[l].holders) = MaxHolders
           \/ (\A l \in DOMAIN table : table[l].name # x) /\ Len(table) = MaxRecords
<1> DEFINE k == FindRecord(table, x)
<1>1. table \in Seq(Record) /\ Len(table) \in Nat
  BY DEF TableSound
<1>2. /\ k # 0 => k \in DOMAIN table /\ table[k].name = x
      /\ k = 0 => \A l \in DOMAIN table : table[l].name # x
  BY <1>1, FindRecordFacts
<1>3. \A l \in DOMAIN table : table[l].name = x => l = k /\ k # 0
  BY <1>1, FindRecordUnique
<1>4. Findable(table, x, n) <=>
        \/ n \in Lookup(table, x)
        \/ k = 0 /\ Len(table) = MaxRecords
        \/ k # 0 /\ Len(table[k].holders) = MaxHolders
  BY DEF Findable
<1>5. n \in Lookup(table, x) <=>
        \E l \in DOMAIN table : table[l].name = x /\ n \in HolderSet(table[l].holders)
  BY LookupFacts
<1> HIDE DEF k
<1> QED
  BY <1>2, <1>3, <1>4, <1>5

\* What is findable stays so, and what is put is.
LEMMA PutFindable ==
  ASSUME NEW table, TableSound(table), NEW x \in Names,
         NEW more \in Seq(Nodes), Distinct(more), NEW new, new = PutInto(table, x, more)
  PROVE  /\ \A y, n : Findable(table, y, n) => Findable(new, y, n)
         /\ \A n \in HolderSet(more) : Findable(new, x, n)
         /\ \A y : Lookup(table, y) \subseteq Lookup(new, y)
<1> USE DiscoveryAssumption
<1>1. /\ TableSound(new) /\ Len(table) <= Len(new)
      /\ \A l \in DOMAIN table :
           /\ l \in DOMAIN new /\ new[l].name = table[l].name
           /\ Len(table[l].holders) <= Len(new[l].holders)
           /\ HolderSet(table[l].holders) \subseteq HolderSet(new[l].holders)
      /\ \/ FindRecord(new, x) = 0 /\ Len(new) = MaxRecords
         \/ \E l \in DOMAIN new :
              /\ new[l].name = x
              /\ \/ HolderSet(more) \subseteq HolderSet(new[l].holders)
                 \/ Len(new[l].holders) = MaxHolders
  <2>1. Enriched(table, new, x, more)
    BY PutIntoFacts, Zenon
  <2> QED
    BY <2>1, Zenon DEF Enriched
<1>2. /\ table \in Seq(Record) /\ new \in Seq(Record)
      /\ Len(table) \in Nat /\ Len(new) \in Nat /\ Len(new) <= MaxRecords
      /\ DOMAIN table = 1..Len(table) /\ DOMAIN new = 1..Len(new)
  <2>1. table \in Seq(Record) /\ new \in Seq(Record) /\ Len(new) <= MaxRecords
    BY <1>1, Zenon DEF TableSound
  <2> QED
    BY <2>1
<1>3. ASSUME NEW l \in DOMAIN new
      PROVE  Len(new[l].holders) \in Nat /\ Len(new[l].holders) <= MaxHolders
  <2>1. new[l].holders \in Seq(Nodes)
    <3>1. new[l] \in Record
      BY <1>2
    <3> QED
      BY <3>1 DEF Record
  <2>2. ListSound(new[l])
    BY <1>1, Zenon DEF TableSound
  <2>3. Len(new[l].holders) <= MaxHolders
    BY <2>2, Zenon DEF ListSound
  <2> QED
    BY <2>1, <2>3
<1>4. ASSUME NEW y, NEW n, Findable(table, y, n) PROVE Findable(new, y, n)
  <2>1. CASE \E l \in DOMAIN table :
               /\ table[l].name = y
               /\ \/ n \in HolderSet(table[l].holders)
                  \/ Len(table[l].holders) = MaxHolders
    <3>1. PICK l \in DOMAIN table :
                 /\ table[l].name = y
                 /\ \/ n \in HolderSet(table[l].holders)
                    \/ Len(table[l].holders) = MaxHolders
      BY <2>1
    <3>2. /\ l \in DOMAIN new /\ new[l].name = y
          /\ Len(table[l].holders) <= Len(new[l].holders)
          /\ HolderSet(table[l].holders) \subseteq HolderSet(new[l].holders)
      BY <1>1, <3>1
    <3>3. Len(new[l].holders) \in Nat /\ Len(new[l].holders) <= MaxHolders
      BY <1>3, <3>2
    <3>4. n \in HolderSet(new[l].holders) \/ Len(new[l].holders) = MaxHolders
      BY <3>1, <3>2, <3>3
    <3> QED
      BY <1>1, <3>2, <3>4, FindableFacts
  <2>2. CASE (\A l \in DOMAIN table : table[l].name # y) /\ Len(table) = MaxRecords
    <3>3. /\ Len(table) <= Len(new) /\ Len(new) <= MaxRecords /\ Len(table) = MaxRecords
          /\ Len(table) \in Nat /\ Len(new) \in Nat
      BY <1>1, <1>2, <2>2, Zenon
    <3>1. Len(new) = MaxRecords /\ DOMAIN new = DOMAIN table
      <4>1. Len(new) = Len(table)
        BY <3>3
      <4> QED
        BY <1>2, <3>3, <4>1
    <3>2. \A l \in DOMAIN new : new[l].name # y
      BY <1>1, <2>2, <3>1
    <3> QED
      BY <1>1, <3>1, <3>2, FindableFacts
  <2> QED
    BY <1>4, <2>1, <2>2, FindableFacts
<1>5. ASSUME NEW n \in HolderSet(more) PROVE Findable(new, x, n)
  <2>1. CASE FindRecord(new, x) = 0 /\ Len(new) = MaxRecords
    BY <2>1 DEF Findable
  <2>2. CASE \E l \in DOMAIN new :
              /\ new[l].name = x
              /\ \/ HolderSet(more) \subseteq HolderSet(new[l].holders)
                 \/ Len(new[l].holders) = MaxHolders
    BY <1>1, <2>2, FindableFacts
  <2> QED
    BY <1>1, <2>1, <2>2
<1>6. ASSUME NEW y, NEW h \in Lookup(table, y) PROVE h \in Lookup(new, y)
  <2>1. PICK l \in DOMAIN table : table[l].name = y /\ h \in HolderSet(table[l].holders)
    BY LookupFacts
  <2>2. l \in DOMAIN new /\ new[l].name = y /\ h \in HolderSet(new[l].holders)
    BY <1>1, <2>1
  <2> QED
    BY <1>1, <2>2, LookupFacts
<1> QED
  BY <1>4, <1>5, <1>6

----------------------------------------------------------------------------
(* The records of all nodes *)

\* The inductive invariant of the records: each part speaks of copies on their way
\* as well as of tables, since a copy is merged as it was when it was sent.
RecordsInv ==
  /\ RecordsSound /\ HoldersAnnounced /\ PublishedIsFindable
  /\ accepted \in [Nodes -> [Names -> SUBSET Nat]]

\* One node's table enriched with announced holders keeps the records sound and
\* true, and costs no one his place.
LEMMA PutKeeps ==
  ASSUME RecordsInv, NEW n \in Nodes, NEW x \in Names,
         NEW more \in Seq(Nodes), Distinct(more),
         records' = [records EXCEPT ![n] = PutInto(@, x, more)], sent' = sent,
         announced \subseteq announced',
         \A h \in HolderSet(more) : <<x, h>> \in announced'
  PROVE  /\ RecordsSound' /\ HoldersAnnounced'
         /\ \A m \in Nodes, y \in Names : Lookup(records[m], y) \subseteq Lookup(records'[m], y)
         /\ \A m \in Nodes : \A y, h : Findable(records[m], y, h) => Findable(records'[m], y, h)
         /\ \A h \in HolderSet(more) : Findable(records'[n], x, h)
<1> DEFINE new == PutInto(records[n], x, more)
<1>1. records \in [Nodes -> Seq(Record)] /\ sent \subseteq Record
      /\ \A m \in Nodes : TableSound(records[m])
  BY DEF RecordsInv, RecordsSound, TableSound
<1>2. records' = [records EXCEPT ![n] = new]
  OBVIOUS
<1>3. Enriched(records[n], new, x, more)
  BY <1>1, PutIntoFacts
<1>4. /\ \A y, h : Findable(records[n], y, h) => Findable(new, y, h)
      /\ \A h \in HolderSet(more) : Findable(new, x, h)
      /\ \A y : Lookup(records[n], y) \subseteq Lookup(new, y)
  BY <1>1, PutFindable
<1> HIDE DEF new
<1>5. TableSound(new) /\ new \in Seq(Record)
  BY <1>3 DEF Enriched, TableSound
<1>6. /\ records' \in [Nodes -> Seq(Record)] /\ records'[n] = new
      /\ \A m \in Nodes : m # n => records'[m] = records[m]
  BY <1>1, <1>2, <1>5
<1>7. \A m \in Nodes : TableSound(records'[m])
  BY <1>1, <1>5, <1>6
<1>8. RecordsSound'
  <2>1. \A rec \in sent' : ListSound(rec)
    BY DEF RecordsInv, RecordsSound
  <2> QED
    BY <1>1, <1>6, <1>7, <2>1 DEF RecordsSound, TableSound
<1>9. HoldersAnnounced'
  <2>1. ASSUME NEW m \in Nodes, NEW k \in DOMAIN records'[m],
               NEW h \in HolderSet(records'[m][k].holders)
        PROVE  <<records'[m][k].name, h>> \in announced'
    <3>1. CASE m # n
      BY <1>6, <3>1 DEF RecordsInv, HoldersAnnounced
    <3>2. CASE m = n
      <4>1. k \in DOMAIN new /\ h \in HolderSet(new[k].holders) /\ records'[m][k] = new[k]
        BY <1>6, <3>2
      <4>2. CASE new[k].name = x /\ h \in HolderSet(more)
        BY <4>1, <4>2
      <4>3. CASE k \in DOMAIN records[n] /\ h \in HolderSet(records[n][k].holders)
        <5>1. new[k].name = records[n][k].name
          BY <1>3, <4>3 DEF Enriched
        <5>2. <<records[n][k].name, h>> \in announced
          BY <4>3 DEF RecordsInv, HoldersAnnounced
        <5> QED
          BY <4>1, <5>1, <5>2
      <4> QED
        BY <1>3, <4>1, <4>2, <4>3 DEF Enriched
    <3> QED
      BY <3>1, <3>2
  <2>2. \A rec \in sent' : \A h \in HolderSet(rec.holders) : <<rec.name, h>> \in announced'
    BY DEF RecordsInv, HoldersAnnounced
  <2> QED
    BY <2>1, <2>2 DEF HoldersAnnounced
<1>10. ASSUME NEW m \in Nodes, NEW y \in Names
       PROVE  Lookup(records[m], y) \subseteq Lookup(records'[m], y)
  BY <1>4, <1>6
<1>11. ASSUME NEW m \in Nodes, NEW y, NEW h, Findable(records[m], y, h)
       PROVE  Findable(records'[m], y, h)
  BY <1>4, <1>6, <1>11
<1> QED
  BY <1>4, <1>6, <1>8, <1>9, <1>10, <1>11

\* A node that announces itself: one holder, who is announced.
LEMMA AnnounceKeeps ==
  ASSUME RecordsInv, NEW n \in Nodes, NEW x \in Names,
         records' = [records EXCEPT ![n] = Announced(@, x, n)], sent' = sent,
         announced' = announced \cup {<<x, n>>}
  PROVE  /\ RecordsSound' /\ HoldersAnnounced'
         /\ \A m \in Nodes, y \in Names : Lookup(records[m], y) \subseteq Lookup(records'[m], y)
         /\ \A m \in Nodes : \A y, h : Findable(records[m], y, h) => Findable(records'[m], y, h)
         /\ Findable(records'[n], x, n)
<1> DEFINE more == <<n>>
<1>1. more \in Seq(Nodes) /\ Distinct(more) /\ HolderSet(more) = {n}
  BY DEF Distinct, HolderSet
<1>2. records' = [records EXCEPT ![n] = PutInto(@, x, more)]
  BY DEF Announced
<1> HIDE DEF more
<1>3. announced \subseteq announced' /\ \A h \in HolderSet(more) : <<x, h>> \in announced'
  BY <1>1
<1> QED
  BY <1>1, <1>2, <1>3, PutKeeps

\* PublishedIsFindable with its last part by name.
LEMMA PublishedIsFindableDef ==
  PublishedIsFindable <=>
    \A n \in Nodes, x \in Names : accepted[n][x] # {} => Findable(records[n], x, n)
BY DEF PublishedIsFindable, Findable

\* A step that leaves records, copies and histories alone.
LEMMA RecordsUntouched ==
  ASSUME RecordsInv, UNCHANGED <<records, sent, announced, accepted>>
  PROVE  RecordsInv' /\ \A m \in Nodes, y \in Names :
                          Lookup(records[m], y) \subseteq Lookup(records'[m], y)
BY DEF RecordsInv, RecordsSound, HoldersAnnounced, PublishedIsFindable

\* What a step must do to the records: keep the invariant, and every holder.
RecordsStep ==
  RecordsInv' /\ \A m \in Nodes, y \in Names :
                   Lookup(records[m], y) \subseteq Lookup(records'[m], y)

LEMMA PublishKeeps ==
  ASSUME RecordsInv, NEW n \in Nodes, NEW x \in Names, NEW v \in Versions, Publish(n, x, v)
  PROVE  RecordsStep
<1> USE DiscoveryAssumption
<1>1. CASE ~Newer(topics[n], x, v)
  BY <1>1, RecordsUntouched DEF Publish, RecordsStep
<1>2. CASE Newer(topics[n], x, v)
  <2>1. /\ records' = [records EXCEPT ![n] = Announced(@, x, n)] /\ sent' = sent
        /\ announced' = announced \cup {<<x, n>>}
        /\ accepted' = [accepted EXCEPT ![n][x] = @ \cup {v}]
    BY <1>2 DEF Publish
  <2>2. /\ RecordsSound' /\ HoldersAnnounced'
        /\ \A m \in Nodes, y \in Names : Lookup(records[m], y) \subseteq Lookup(records'[m], y)
        /\ \A m \in Nodes : \A y, h : Findable(records[m], y, h) => Findable(records'[m], y, h)
        /\ Findable(records'[n], x, n)
    BY <2>1, AnnounceKeeps
  <2>3. accepted \in [Nodes -> [Names -> SUBSET Nat]]
    BY DEF RecordsInv
  <2>4. accepted' \in [Nodes -> [Names -> SUBSET Nat]]
    BY <2>1, <2>3
  <2>5. \A m \in Nodes, y \in Names : m # n \/ y # x => accepted'[m][y] = accepted[m][y]
    BY <2>1, <2>3
  <2>6. \A m \in Nodes, y \in Names : accepted[m][y] # {} => Findable(records[m], y, m)
    BY PublishedIsFindableDef DEF RecordsInv
  <2>7. \A m \in Nodes, y \in Names : accepted'[m][y] # {} => Findable(records'[m], y, m)
    BY <2>2, <2>5, <2>6
  <2>8. PublishedIsFindable'
    BY <2>7 DEF PublishedIsFindable, Findable
  <2> QED
    BY <2>2, <2>4, <2>8 DEF RecordsInv, RecordsStep
<1> QED
  BY <1>1, <1>2

\* A step that changes the records of a node and accepts nothing.
LEMMA AcceptedSame ==
  ASSUME RecordsInv, accepted' = accepted, RecordsSound', HoldersAnnounced',
         \A m \in Nodes, y \in Names : Lookup(records[m], y) \subseteq Lookup(records'[m], y),
         \A m \in Nodes : \A y, h : Findable(records[m], y, h) => Findable(records'[m], y, h)
  PROVE  RecordsStep
<1>1. \A m \in Nodes, y \in Names : accepted[m][y] # {} => Findable(records[m], y, m)
  BY PublishedIsFindableDef DEF RecordsInv
<1>2. PublishedIsFindable'
  <2>1. \A m \in Nodes, y \in Names : accepted'[m][y] # {} => Findable(records'[m], y, m)
    BY <1>1
  <2> QED
    BY <2>1 DEF PublishedIsFindable, Findable
<1> QED
  BY <1>2 DEF RecordsInv, RecordsStep

LEMMA ForwardHitKeeps ==
  ASSUME RecordsInv, NEW n \in Nodes, NEW x \in Names, ForwardHit(n, x)
  PROVE  RecordsStep
<1>1. /\ records' = [records EXCEPT ![n] = Announced(@, x, n)] /\ sent' = sent
      /\ announced' = announced \cup {<<x, n>>} /\ accepted' = accepted
  BY DEF ForwardHit
<1>2. /\ RecordsSound' /\ HoldersAnnounced'
      /\ \A m \in Nodes, y \in Names : Lookup(records[m], y) \subseteq Lookup(records'[m], y)
      /\ \A m \in Nodes : \A y, h : Findable(records[m], y, h) => Findable(records'[m], y, h)
  BY <1>1, AnnounceKeeps
<1> QED
  BY <1>1, <1>2, AcceptedSame

\* A copy of whatever age is merged.
LEMMA PutRecordKeeps ==
  ASSUME RecordsInv, NEW n \in Nodes, NEW rec \in sent, PutRecord(n, rec)
  PROVE  RecordsStep
<1>1. /\ rec.name \in Names /\ rec.holders \in Seq(Nodes) /\ Distinct(rec.holders)
      /\ \A h \in HolderSet(rec.holders) : <<rec.name, h>> \in announced
  <2>1. rec \in Record /\ ListSound(rec)
    BY DEF RecordsInv, RecordsSound
  <2>2. \A h \in HolderSet(rec.holders) : <<rec.name, h>> \in announced
    BY DEF RecordsInv, HoldersAnnounced
  <2> QED
    BY <2>1, <2>2 DEF Record, ListSound, Distinct
<1>2. /\ records' = [records EXCEPT ![n] = PutInto(@, rec.name, rec.holders)]
      /\ sent' = sent /\ announced' = announced /\ accepted' = accepted
  BY DEF PutRecord
<1>3. /\ RecordsSound' /\ HoldersAnnounced'
      /\ \A m \in Nodes, y \in Names : Lookup(records[m], y) \subseteq Lookup(records'[m], y)
      /\ \A m \in Nodes : \A y, h : Findable(records[m], y, h) => Findable(records'[m], y, h)
  BY <1>1, <1>2, PutKeeps
<1> QED
  BY <1>2, <1>3, AcceptedSame

\* A copy leaves: it is a record as sound and true as the table it is taken from.
LEMMA SendRecordKeeps ==
  ASSUME RecordsInv, NEW n \in Nodes, NEW k \in 1..MaxRecords, SendRecord(n, k)
  PROVE  RecordsStep
<1>1. /\ k \in DOMAIN records[n] /\ sent' = sent \cup {records[n][k]}
      /\ UNCHANGED <<records, announced, accepted>>
  BY DEF SendRecord
<1>2. records[n] \in Seq(Record)
  BY DEF RecordsInv, RecordsSound
<1>3. /\ records[n][k] \in Record /\ ListSound(records[n][k])
      /\ \A h \in HolderSet(records[n][k].holders) : <<records[n][k].name, h>> \in announced
  BY <1>1, <1>2 DEF RecordsInv, RecordsSound, HoldersAnnounced
<1>4. RecordsSound'
  BY <1>1, <1>3 DEF RecordsInv, RecordsSound
<1>5. HoldersAnnounced'
  BY <1>1, <1>3 DEF RecordsInv, HoldersAnnounced
<1>6. PublishedIsFindable'
  BY <1>1 DEF RecordsInv, PublishedIsFindable
<1> QED
  BY <1>1, <1>4, <1>5, <1>6 DEF RecordsInv, RecordsStep

\* Every step keeps the invariant and every holder.
LEMMA RecordsNext == RecordsInv /\ [Next]_vars => RecordsStep
<1> SUFFICES ASSUME RecordsInv, [Next]_vars PROVE RecordsStep
  OBVIOUS
<1> USE DiscoveryAssumption
<1>1. ASSUME NEW n \in Nodes, NEW x \in Names, Store(n, x) \/ Drop(n, x) PROVE RecordsStep
  BY <1>1, RecordsUntouched DEF Store, Drop, RecordsStep
<1>2. ASSUME NEW n \in Nodes, NEW x \in Names, ForwardHit(n, x) PROVE RecordsStep
  BY <1>2, ForwardHitKeeps
<1>3. ASSUME NEW n \in Publishers, NEW x \in Names, Subscribe(n, x) PROVE RecordsStep
  BY <1>3, RecordsUntouched DEF Subscribe, RecordsStep
<1>4. ASSUME NEW n \in Publishers, NEW x \in Names, NEW v \in Versions, Publish(n, x, v)
      PROVE  RecordsStep
  BY <1>4, PublishKeeps
<1>5. ASSUME NEW n \in Askers, NEW x \in Names, NEW nonce \in Nonces, ForwardSeen(n, x, nonce)
      PROVE  RecordsStep
  BY <1>5, RecordsUntouched DEF ForwardSeen, RecordsStep
<1>6. ASSUME NEW n \in Askers, NEW x \in Names, NEW nonce \in Nonces, NEW ttl \in {0, 1},
             NEW arrives \in BOOLEAN, ForwardNew(n, x, ttl, nonce, arrives)
      PROVE  RecordsStep
  BY <1>6, RecordsUntouched DEF ForwardNew, RecordsStep
<1>7. ASSUME NEW n \in Nodes, NEW k \in 1..MaxRecords, SendRecord(n, k) PROVE RecordsStep
  BY <1>7, SendRecordKeeps
<1>8. ASSUME NEW n \in Nodes, NEW rec \in sent, PutRecord(n, rec) PROVE RecordsStep
  BY <1>8, PutRecordKeeps
<1>9. ASSUME NEW n \in Routers, NEW addr \in Nodes, AddPeer(n, addr) PROVE RecordsStep
  BY <1>9, RecordsUntouched DEF AddPeer, RecordsStep
<1>10. CASE UNCHANGED vars
  BY <1>10, RecordsUntouched DEF vars, RecordsStep
<1> QED
  BY <1>1, <1>2, <1>3, <1>4, <1>5, <1>6, <1>7, <1>8, <1>9, <1>10 DEF Next

\* RecordsInv holds in every reachable state.
THEOREM RecordsSafe == Spec => []RecordsInv
<1>1. Init => RecordsInv
  BY DiscoveryAssumption
     DEF Init, RecordsInv, RecordsSound, HoldersAnnounced, PublishedIsFindable
<1>2. RecordsInv /\ [Next]_vars => RecordsInv'
  BY RecordsNext DEF RecordsStep
<1> QED
  BY <1>1, <1>2, PTL DEF Spec

\* However copies are delayed, repeated and merged (dht.c:146-158), each table has
\* one record for a name and each record each holder once.
THEOREM RecordsStaySound == Spec => []RecordsSound
<1>1. RecordsInv => RecordsSound
  BY DEF RecordsInv
<1> QED
  BY <1>1, RecordsSafe, PTL

\* Through any chain of merges, whoever is listed as a holder announced the name
\* itself (pubsub.c:50-54, mesh.c:410-413).
THEOREM HoldersAreTrue == Spec => []HoldersAnnounced
<1>1. RecordsInv => HoldersAnnounced
  BY DEF RecordsInv
<1> QED
  BY <1>1, RecordsSafe, PTL

\* An accepted version makes its publisher findable unless a table is full
\* (dht.c:131, 140).
THEOREM PublishersFindable == Spec => []PublishedIsFindable
<1>1. RecordsInv => PublishedIsFindable
  BY DEF RecordsInv
<1> QED
  BY <1>1, RecordsSafe, PTL

\* No step costs a holder its place (dht.c:139-143, 156).
THEOREM HoldersStay == Spec => HoldersKept
<1>1. RecordsInv /\ [Next]_vars =>
        [\A n \in Nodes, x \in Names : Lookup(records[n], x) \subseteq Lookup(records'[n], x)]_vars
  BY RecordsNext DEF RecordsStep
<1> QED
  BY <1>1, RecordsSafe, PTL DEF Spec, HoldersKept

----------------------------------------------------------------------------
(* Topics *)

\* One node's topics against the versions its publish accepted.
TopicsSound(table, acc) ==
  /\ table \in Seq(Topic)
  /\ \A k, l \in DOMAIN table : table[k].base = table[l].base => k = l
  /\ \A x \in Names : acc[x] # {} => \E k \in DOMAIN table : table[k].base = x
  /\ \A k \in DOMAIN table :
       /\ table[k].highest \in acc[table[k].base] \cup {0}
       /\ \A v \in acc[table[k].base] : v <= table[k].highest

\* find_topic finds the topic if there is one.
LEMMA FindTopicFacts ==
  ASSUME NEW table \in Seq(Topic), NEW x, NEW k, k = FindTopic(table, x)
  PROVE  /\ k \in 0..Len(table)
         /\ k # 0 => k \in DOMAIN table /\ table[k].base = x
         /\ k = 0 => \A l \in DOMAIN table : table[l].base # x
<1> DEFINE found == {l \in DOMAIN table : table[l].base = x}
<1>1. found \in SUBSET (1..Len(table)) /\ Len(table) \in Nat
  OBVIOUS
<1>2. \A l \in DOMAIN table : l \in found <=> table[l].base = x
  OBVIOUS
<1>3. k = IF found = {} THEN 0 ELSE First(found)
  BY DEF FindTopic
<1> HIDE DEF found
<1>4. found # {} => First(found) \in found
  BY <1>1, FirstType, Zenon
<1>5. CASE found = {}
  BY <1>1, <1>2, <1>3, <1>5
<1>6. CASE found # {}
  <2>1. k \in found
    BY <1>3, <1>4, <1>6
  <2>2. k \in 1..Len(table)
    BY <1>1, <2>1
  <2> QED
    BY <1>1, <1>2, <2>1, <2>2
<1> QED
  BY <1>5, <1>6

\* A topic nobody knew, with versions that are all those accepted for it.
LEMMA AppendTopic ==
  ASSUME NEW table, NEW acc, TopicsSound(table, acc), NEW x \in Names, NEW v \in Nat,
         \A l \in DOMAIN table : table[l].base # x, NEW more,
         \A y \in Names : more[y] = IF y = x THEN acc[x] \cup (more[x] \cap {v}) ELSE acc[y],
         v \in more[x] \cup {0},
         NEW new, new = Append(table, [base |-> x, highest |-> v])
  PROVE  TopicsSound(new, more)
<1> DEFINE e == [base |-> x, highest |-> v]
<1>1. e \in Topic /\ e.base = x /\ e.highest = v
  BY DEF Topic
<1>2. new = Append(table, e)
  OBVIOUS
<1> HIDE DEF e
<1>3. table \in Seq(Topic) /\ Len(table) \in Nat
  BY DEF TopicsSound
<1>4. /\ new \in Seq(Topic) /\ Len(new) = Len(table) + 1
      /\ \A l \in 1..Len(table) : new[l] = table[l]
      /\ new[Len(table) + 1] = e
  BY <1>1, <1>2, <1>3
<1>5. /\ DOMAIN table = 1..Len(table) /\ Len(table) + 1 \in DOMAIN new
      /\ \A l \in DOMAIN table : l \in DOMAIN new
      /\ \A l \in DOMAIN new : l \in DOMAIN table \/ l = Len(table) + 1
  BY <1>3, <1>4
<1>6. acc[x] = {}
  BY DEF TopicsSound
<1>7. more[x] \subseteq {v}
  BY <1>6
<1>8. \A l \in DOMAIN table : table[l].base \in Names
  <2> TAKE l \in DOMAIN table
  <2>1. table[l] \in Topic
    BY <1>3
  <2> QED
    BY <2>1 DEF Topic
<1>9. \A k, l \in DOMAIN new : new[k].base = new[l].base => k = l
  <2> SUFFICES ASSUME NEW k \in DOMAIN new, NEW l \in DOMAIN new, new[k].base = new[l].base
               PROVE  k = l
    OBVIOUS
  <2>1. CASE k \in DOMAIN table /\ l \in DOMAIN table
    BY <1>4, <1>5, <2>1 DEF TopicsSound
  <2>2. CASE k \in DOMAIN table /\ l = Len(table) + 1
    BY <1>1, <1>4, <1>5, <2>2
  <2>3. CASE l \in DOMAIN table /\ k = Len(table) + 1
    BY <1>1, <1>4, <1>5, <2>3
  <2> QED
    BY <1>5, <2>1, <2>2, <2>3
<1>10. ASSUME NEW y \in Names, more[y] # {} PROVE \E k \in DOMAIN new : new[k].base = y
  <2>1. CASE y = x
    BY <1>1, <1>4, <1>5, <2>1
  <2>2. CASE y # x
    BY <1>4, <1>5, <1>10, <2>2 DEF TopicsSound
  <2> QED
    BY <2>1, <2>2
<1>11. ASSUME NEW k \in DOMAIN new
       PROVE  /\ new[k].highest \in more[new[k].base] \cup {0}
              /\ \A w \in more[new[k].base] : w <= new[k].highest
  <2>1. CASE k \in DOMAIN table
    <3>1. new[k] = table[k] /\ table[k].base \in Names /\ table[k].base # x
      BY <1>4, <1>5, <1>8, <2>1
    <3>2. more[table[k].base] = acc[table[k].base]
      BY <3>1
    <3> QED
      BY <2>1, <3>1, <3>2 DEF TopicsSound
  <2>2. CASE k = Len(table) + 1
    BY <1>1, <1>4, <1>7, <2>2
  <2> QED
    BY <1>5, <2>1, <2>2
<1> QED
  BY <1>4, <1>9, <1>10, <1>11 DEF TopicsSound

\* A topic whose version grows to one that is accepted now.
LEMMA RaiseTopic ==
  ASSUME NEW table, NEW acc, TopicsSound(table, acc), NEW x \in Names, NEW v \in Nat,
         acc[x] \subseteq Nat, NEW k \in DOMAIN table, k = FindTopic(table, x), k # 0,
         table[k].base = x, v > table[k].highest, NEW more,
         \A y \in Names : more[y] = IF y = x THEN acc[x] \cup {v} ELSE acc[y],
         NEW new, new = Published(table, x, v)
  PROVE  TopicsSound(new, more)
<1> DEFINE e == [table[k] EXCEPT !.highest = v]
<1>1. table \in Seq(Topic) /\ \A l \in DOMAIN table : table[l] \in Topic
  BY DEF TopicsSound
<1>2. e \in Topic /\ e.base = x /\ e.highest = v /\ table[k].highest \in Nat
  <2>1. table[k] \in Topic
    BY <1>1
  <2> QED
    BY <2>1 DEF Topic
<1>3. new = [table EXCEPT ![k] = e]
  BY DEF Published
<1> HIDE DEF e
<1>4. /\ new \in Seq(Topic) /\ DOMAIN new = DOMAIN table /\ new[k] = e
      /\ \A l \in DOMAIN table : l # k => new[l] = table[l]
  BY <1>1, <1>2, <1>3
<1>5. \A l \in DOMAIN table : new[l].base = table[l].base /\ table[l].base \in Names
  <2> TAKE l \in DOMAIN table
  <2>1. table[l].base \in Names
    BY <1>1 DEF Topic
  <2> QED
    BY <1>2, <1>4, <2>1
<1>6. \A i, l \in DOMAIN new : new[i].base = new[l].base => i = l
  BY <1>4, <1>5 DEF TopicsSound
<1>7. ASSUME NEW y \in Names, more[y] # {} PROVE \E l \in DOMAIN new : new[l].base = y
  <2>1. CASE y = x
    BY <1>2, <1>4, <2>1
  <2>2. CASE y # x
    BY <1>4, <1>5, <1>7, <2>2 DEF TopicsSound
  <2> QED
    BY <2>1, <2>2
<1>8. ASSUME NEW l \in DOMAIN new
      PROVE  /\ new[l].highest \in more[new[l].base] \cup {0}
             /\ \A w \in more[new[l].base] : w <= new[l].highest
  <2>1. CASE l = k
    <3>1. more[x] = acc[x] \cup {v} /\ new[l].base = x /\ new[l].highest = v
      BY <1>2, <1>4, <2>1
    <3>2. \A w \in acc[x] : w <= table[k].highest /\ w \in Nat
      BY DEF TopicsSound
    <3>3. \A w \in acc[x] : w <= v
      BY <1>2, <3>2
    <3> QED
      BY <3>1, <3>2, <3>3
  <2>2. CASE l # k
    <3>1. new[l] = table[l] /\ table[l].base \in Names /\ table[l].base # x
      BY <1>4, <1>5, <2>2 DEF TopicsSound
    <3>2. more[table[l].base] = acc[table[l].base]
      BY <3>1
    <3> QED
      BY <1>4, <3>1, <3>2 DEF TopicsSound
  <2> QED
    BY <2>1, <2>2
<1> QED
  BY <1>4, <1>6, <1>7, <1>8 DEF TopicsSound

\* The inductive invariant of the topics.
TopicsInv ==
  /\ topics \in [Nodes -> Seq(Topic)]
  /\ accepted \in [Nodes -> [Names -> SUBSET Nat]]
  /\ \A n \in Nodes : TopicsSound(topics[n], accepted[n])

LEMMA SubscribeKeeps ==
  ASSUME TopicsInv, NEW n \in Nodes, NEW x \in Names, Subscribe(n, x)
  PROVE  TopicsInv'
<1> DEFINE table == topics[n]
           new   == Subscribed(table, x)
<1>1. table \in Seq(Topic) /\ TopicsSound(table, accepted[n])
      /\ accepted[n] \in [Names -> SUBSET Nat]
  BY DEF TopicsInv
<1>2. TopicsSound(new, accepted[n])
  <2>1. CASE FindTopic(table, x) # 0 \/ Len(table) >= MaxTopics
    <3>1. new = table
      BY <2>1 DEF Subscribed
    <3> QED
      BY <1>1, <3>1
  <2>2. CASE ~ (FindTopic(table, x) # 0 \/ Len(table) >= MaxTopics)
    <3>1. new = Append(table, [base |-> x, highest |-> 0])
      BY <2>2 DEF Subscribed
    <3>2. \A l \in DOMAIN table : table[l].base # x
      BY <1>1, <2>2, FindTopicFacts
    <3>3. accepted[n][x] = {}
      BY <1>1, <3>2 DEF TopicsSound
    <3>4. \A y \in Names : accepted[n][y] =
            IF y = x THEN accepted[n][x] \cup (accepted[n][x] \cap {0}) ELSE accepted[n][y]
      BY <3>3
    <3> HIDE DEF table, new
    <3> QED
      BY <1>1, <3>1, <3>2, <3>4, AppendTopic
  <2> QED
    BY <2>1, <2>2
<1>3. new \in Seq(Topic)
  BY <1>2 DEF TopicsSound
<1>4. topics' = [topics EXCEPT ![n] = new] /\ accepted' = accepted
  BY DEF Subscribe
<1> HIDE DEF new, table
<1>5. topics \in [Nodes -> Seq(Topic)]
  BY DEF TopicsInv
<1>6. topics' \in [Nodes -> Seq(Topic)] /\ topics'[n] = new
      /\ \A m \in Nodes : m # n => topics'[m] = topics[m]
  BY <1>3, <1>4, <1>5
<1> QED
  BY <1>2, <1>4, <1>6 DEF TopicsInv

LEMMA PublishKeepsTopics ==
  ASSUME TopicsInv, NEW n \in Nodes, NEW x \in Names, NEW v \in Versions, Publish(n, x, v)
  PROVE  TopicsInv'
<1> USE DiscoveryAssumption
<1>1. CASE ~Newer(topics[n], x, v)
  BY <1>1 DEF Publish, TopicsInv
<1>2. CASE Newer(topics[n], x, v)
  <2> DEFINE table == topics[n]
             new   == Published(table, x, v)
             k     == FindTopic(table, x)
             more  == accepted'[n]
  <2>1. table \in Seq(Topic) /\ TopicsSound(table, accepted[n]) /\ accepted[n][x] \subseteq Nat
    BY DEF TopicsInv
  <2>2. /\ topics' = [topics EXCEPT ![n] = new]
        /\ accepted' = [accepted EXCEPT ![n][x] = @ \cup {v}]
    BY <1>2 DEF Publish
  <2>3. accepted \in [Nodes -> [Names -> SUBSET Nat]] /\ topics \in [Nodes -> Seq(Topic)]
    BY DEF TopicsInv
  <2>4. /\ accepted' \in [Nodes -> [Names -> SUBSET Nat]]
        /\ \A m \in Nodes : m # n => accepted'[m] = accepted[m]
        /\ \A y \in Names : more[y] = IF y = x THEN accepted[n][x] \cup {v} ELSE accepted[n][y]
    BY <2>2, <2>3
  <2>5. /\ k # 0 => k \in DOMAIN table /\ table[k].base = x
        /\ k = 0 => \A l \in DOMAIN table : table[l].base # x
    <3> HIDE DEF table
    <3> QED
      BY <2>1, FindTopicFacts
  <2>6. TopicsSound(new, more)
    <3>1. CASE k = 0
      <4>1. new = Append(table, [base |-> x, highest |-> v])
        BY <3>1 DEF Published
      <4>2. accepted[n][x] = {}
        BY <2>1, <2>5, <3>1 DEF TopicsSound
      <4>3. v \in more[x] /\ \A y \in Names : more[y] =
              IF y = x THEN accepted[n][x] \cup (more[x] \cap {v}) ELSE accepted[n][y]
        BY <2>4, <4>2
      <4> HIDE DEF table, new, k, more
      <4> QED
        BY <2>1, <2>5, <3>1, <4>1, <4>3, AppendTopic
    <3>2. CASE k # 0
      <4>1. new = Published(table, x, v) /\ k = FindTopic(table, x)
        OBVIOUS
      <4>2. v > table[k].highest
        BY <1>2, <3>2 DEF Newer
      <4>3. v \in Nat
        OBVIOUS
      <4>4. k \in DOMAIN table /\ table[k].base = x
        BY <2>5, <3>2
      <4>5. /\ TopicsSound(table, accepted[n]) /\ accepted[n][x] \subseteq Nat
            /\ \A y \in Names : more[y] =
                 IF y = x THEN accepted[n][x] \cup {v} ELSE accepted[n][y]
        BY <2>1, <2>4
      <4> HIDE DEF table, new, k, more
      <4> QED
        BY <3>2, <4>1, <4>2, <4>3, <4>4, <4>5, RaiseTopic
    <3> QED
      BY <3>1, <3>2
  <2>7. new \in Seq(Topic)
    BY <2>6 DEF TopicsSound
  <2> HIDE DEF new, table, k
  <2>8. topics' \in [Nodes -> Seq(Topic)] /\ topics'[n] = new
        /\ \A m \in Nodes : m # n => topics'[m] = topics[m]
    BY <2>2, <2>3, <2>7
  <2>9. ASSUME NEW m \in Nodes PROVE TopicsSound(topics'[m], accepted'[m])
    <3>1. CASE m = n
      BY <2>6, <2>8, <3>1
    <3>2. CASE m # n
      BY <2>4, <2>8, <3>2 DEF TopicsInv
    <3> QED
      BY <3>1, <3>2
  <2> QED
    BY <2>4, <2>8, <2>9 DEF TopicsInv
<1> QED
  BY <1>1, <1>2

LEMMA TopicsNext == TopicsInv /\ [Next]_vars => TopicsInv'
<1> SUFFICES ASSUME TopicsInv, [Next]_vars PROVE TopicsInv'
  OBVIOUS
<1> USE DiscoveryAssumption
<1>1. ASSUME NEW n \in Publishers, NEW x \in Names, Subscribe(n, x) PROVE TopicsInv'
  BY <1>1, SubscribeKeeps
<1>2. ASSUME NEW n \in Publishers, NEW x \in Names, NEW v \in Versions, Publish(n, x, v)
      PROVE  TopicsInv'
  BY <1>2, PublishKeepsTopics
<1>3. CASE UNCHANGED <<topics, accepted>>
  BY <1>3 DEF TopicsInv
<1> QED
  BY <1>1, <1>2, <1>3
     DEF Next, vars, Store, Drop, ForwardHit, ForwardSeen, ForwardNew, SendRecord, PutRecord,
         AddPeer

\* Sound topics are truthful ones.
LEMMA TopicsInvTruthful == TopicsInv => TopicsTruthful
<1> SUFFICES ASSUME TopicsInv PROVE TopicsTruthful
  OBVIOUS
<1>1. ASSUME NEW n \in Nodes, NEW x \in Names
      PROVE  LET found == {k \in DOMAIN topics[n] : topics[n][k].base = x}
             IN  /\ Cardinality(found) <= 1
                 /\ accepted[n][x] # {} => found # {}
                 /\ \A k \in found :
                      /\ topics[n][k].highest \in accepted[n][x] \cup {0}
                      /\ \A v \in accepted[n][x] : v <= topics[n][k].highest
  <2> DEFINE found == {k \in DOMAIN topics[n] : topics[n][k].base = x}
  <2>1. TopicsSound(topics[n], accepted[n])
    BY DEF TopicsInv
  <2>2. Cardinality(found) <= 1
    <3>1. CASE found = {}
      BY <3>1, FS_EmptySet
    <3>2. ASSUME NEW k \in found PROVE Cardinality(found) <= 1
      <4>1. found = {k}
        BY <2>1 DEF TopicsSound
      <4>2. Cardinality({k}) = 1
        BY FS_Singleton
      <4> HIDE DEF found
      <4> QED
        BY <4>1, <4>2
    <3> QED
      BY <3>1, <3>2
  <2>3. accepted[n][x] # {} => found # {}
    BY <2>1 DEF TopicsSound
  <2>4. \A k \in found :
          /\ topics[n][k].highest \in accepted[n][x] \cup {0}
          /\ \A v \in accepted[n][x] : v <= topics[n][k].highest
    BY <2>1 DEF TopicsSound
  <2> HIDE DEF found
  <2>5. /\ Cardinality(found) <= 1
        /\ accepted[n][x] # {} => found # {}
        /\ \A k \in found :
             /\ topics[n][k].highest \in accepted[n][x] \cup {0}
             /\ \A v \in accepted[n][x] : v <= topics[n][k].highest
    BY <2>2, <2>3, <2>4
  <2> QED
    BY <2>5 DEF found
<1>2. ASSUME NEW n \in Publishers, NEW x \in Names, Polled(topics[n], x) # 0
      PROVE  Polled(topics[n], x) \in accepted[n][x]
  <2> DEFINE k == FindTopic(topics[n], x)
  <2>1. n \in Nodes
    BY DiscoveryAssumption
  <2>2. TopicsSound(topics[n], accepted[n]) /\ topics[n] \in Seq(Topic)
    BY <2>1 DEF TopicsInv
  <2>3. k # 0 /\ Polled(topics[n], x) = topics[n][k].highest
    BY <1>2 DEF Polled
  <2>4. k \in DOMAIN topics[n] /\ topics[n][k].base = x
    BY <2>2, <2>3, FindTopicFacts
  <2> HIDE DEF k
  <2> QED
    BY <1>2, <2>2, <2>3, <2>4 DEF TopicsSound
<1> QED
  BY <1>1, <1>2 DEF TopicsTruthful

\* Each name has one topic, whose version is the newest accepted one, and that is
\* what a poll answers with (pubsub.c:26-48, 59-62, 76-91).
THEOREM TopicsStayTruthful == Spec => []TopicsTruthful
<1>1. Init => TopicsInv
  BY DEF Init, TopicsInv, TopicsSound
<1> QED
  BY <1>1, TopicsNext, TopicsInvTruthful, PTL DEF Spec

----------------------------------------------------------------------------
(* Peers *)

\* No peer is ever dead, so none can be evicted.
PeersInv ==
  /\ peers \in [Nodes -> Seq(DhtPeer)]
  /\ \A n \in Nodes : \A i \in DOMAIN peers[n] : peers[n][i].alive

\* Every address of one table is in the other.
AddressesStay(table, new) ==
  \A i \in DOMAIN table : \E j \in DOMAIN new : new[j].addr = table[i].addr

\* dht_add_peer on a table without dead peers.
LEMMA TablesWithFacts ==
  ASSUME NEW table \in Seq(DhtPeer), \A i \in DOMAIN table : table[i].alive,
         NEW addr \in Nodes, NEW new \in TablesWith(table, addr)
  PROVE  /\ new \in Seq(DhtPeer) /\ \A i \in DOMAIN new : new[i].alive
         /\ AddressesStay(table, new)
<1> DEFINE p == [addr |-> addr, alive |-> TRUE]
<1>1. p \in DhtPeer /\ p.alive /\ p.addr = addr
  BY DEF DhtPeer
<1>2. DeadPeers(table) = {}
  BY DEF DeadPeers
<1>3. \/ SlotsOf(table, addr) # {} /\ new = [table EXCEPT ![First(SlotsOf(table, addr))] = p]
      \/ new = Append(table, p)
      \/ new = table
  BY <1>2 DEF TablesWith
<1> HIDE DEF p
<1>4. Len(table) \in Nat /\ DOMAIN table = 1..Len(table)
  OBVIOUS
<1>5. CASE SlotsOf(table, addr) # {} /\ new = [table EXCEPT ![First(SlotsOf(table, addr))] = p]
  <2> DEFINE k == First(SlotsOf(table, addr))
  <2>1. SlotsOf(table, addr) \in SUBSET (1..Len(table))
    BY DEF SlotsOf
  <2>2. k \in SlotsOf(table, addr)
    BY <1>4, <1>5, <2>1, FirstType
  <2>3. k \in DOMAIN table /\ table[k].addr = addr
    BY <2>2 DEF SlotsOf
  <2> HIDE DEF k
  <2>4. new = [table EXCEPT ![k] = p]
    BY <1>5 DEF k
  <2>5. /\ new \in Seq(DhtPeer) /\ DOMAIN new = DOMAIN table /\ new[k] = p
        /\ \A i \in DOMAIN table : i # k => new[i] = table[i]
    BY <1>1, <2>3, <2>4
  <2>6. \A i \in DOMAIN new : new[i].alive
    BY <1>1, <2>5
  <2>7. AddressesStay(table, new)
    BY <1>1, <2>3, <2>5 DEF AddressesStay
  <2> QED
    BY <2>5, <2>6, <2>7
<1>6. CASE new = Append(table, p)
  <2>1. /\ new \in Seq(DhtPeer) /\ Len(new) = Len(table) + 1
        /\ \A i \in 1..Len(table) : new[i] = table[i]
        /\ new[Len(table) + 1] = p
    BY <1>1, <1>6
  <2>2. /\ \A i \in DOMAIN table : i \in DOMAIN new
        /\ \A i \in DOMAIN new : i \in DOMAIN table \/ i = Len(table) + 1
    BY <1>4, <2>1
  <2>3. \A i \in DOMAIN new : new[i].alive
    BY <1>1, <1>4, <2>1, <2>2
  <2>4. AddressesStay(table, new)
    BY <1>4, <2>1, <2>2 DEF AddressesStay
  <2> QED
    BY <2>1, <2>3, <2>4
<1>7. CASE new = table
  BY <1>7 DEF AddressesStay
<1> QED
  BY <1>3, <1>5, <1>6, <1>7

\* A step keeps every peer alive and in its table.
PeersStep == PeersInv' /\ \A n \in Nodes : AddressesStay(peers[n], peers'[n])

LEMMA PeersNext == PeersInv /\ [Next]_vars => PeersStep
<1> SUFFICES ASSUME PeersInv, [Next]_vars PROVE PeersStep
  OBVIOUS
<1> USE DiscoveryAssumption
<1>1. ASSUME NEW n \in Routers, NEW addr \in Nodes, AddPeer(n, addr) PROVE PeersStep
  <2>1. PICK table \in TablesWith(peers[n], addr) : peers' = [peers EXCEPT ![n] = table]
    BY <1>1 DEF AddPeer
  <2>2. n \in Nodes /\ peers[n] \in Seq(DhtPeer) /\ \A i \in DOMAIN peers[n] : peers[n][i].alive
    BY DEF PeersInv
  <2>3. /\ table \in Seq(DhtPeer) /\ \A i \in DOMAIN table : table[i].alive
        /\ AddressesStay(peers[n], table)
    BY <2>2, TablesWithFacts
  <2>4. peers \in [Nodes -> Seq(DhtPeer)]
    BY DEF PeersInv
  <2>5. /\ peers' \in [Nodes -> Seq(DhtPeer)] /\ peers'[n] = table
        /\ \A m \in Nodes : m # n => peers'[m] = peers[m]
    BY <2>1, <2>2, <2>3, <2>4
  <2>6. ASSUME NEW m \in Nodes
        PROVE  /\ \A i \in DOMAIN peers'[m] : peers'[m][i].alive
               /\ AddressesStay(peers[m], peers'[m])
    <3>1. CASE m = n
      BY <2>3, <2>5, <3>1
    <3>2. CASE m # n
      BY <2>5, <3>2 DEF PeersInv, AddressesStay
    <3> QED
      BY <3>1, <3>2
  <2> QED
    BY <2>5, <2>6 DEF PeersStep, PeersInv
<1>2. CASE UNCHANGED peers
  BY <1>2 DEF PeersStep, PeersInv, AddressesStay
<1> QED
  BY <1>1, <1>2
     DEF Next, vars, Store, Drop, ForwardHit, ForwardSeen, ForwardNew, SendRecord, PutRecord,
         Publish, Subscribe

\* A peer once in a table stays there for good (dht.c:55-70): nothing marks one dead.
THEOREM PeersStayForGood == Spec => PeersStay
<1>1. Init => PeersInv
  BY DEF Init, PeersInv
<1>2. PeersInv /\ [Next]_vars => PeersInv'
  BY PeersNext DEF PeersStep
<1>3. PeersInv /\ [Next]_vars =>
        [\A n \in Nodes : \A i \in DOMAIN peers[n] :
           \E j \in DOMAIN peers'[n] : peers'[n][j].addr = peers[n][i].addr]_vars
  BY PeersNext DEF PeersStep, AddressesStay
<1> QED
  BY <1>1, <1>2, <1>3, PTL DEF Spec, PeersStay

----------------------------------------------------------------------------
(* The nearest peers *)

LiveSlots(table) == {i \in DOMAIN table : table[i].alive}
Live(table) == Compact([i \in DOMAIN table |-> i], LiveSlots(table))
Distances(table, target) == [i \in DOMAIN table |-> Dist[target, table[i].addr]]

\* The selection sort: one round for each position in w.
Sorted(c, w, d) == FoldLeft(LAMBDA o, i : Swapped(o, i, Best(o, i, d)), c, w)

\* The form the sort over n positions expands to: the value of a set of positions is
\* one round after the value of the set without its largest.
Sort(g, w, d, n, c) ==
  g = [s \in SUBSET (1..n) |->
         IF s = {} THEN c
         ELSE Swapped(g[s \ {Max(s)}], w[Max(s)], Best(g[s \ {Max(s)}], w[Max(s)], d))]

LEMMA SortExists ==
  ASSUME NEW w, NEW d, NEW n \in Nat, NEW c
  PROVE  \E g : Sort(g, w, d, n, c)
<1> DEFINE Round(o, k) == Swapped(o, w[k], Best(o, w[k], d))
           Val(g, s) == IF s = {} THEN c ELSE Round(g[s \ {Max(s)}], Max(s))
           Upto(g, m) == \A s \in SUBSET (1..m) : g[s] = Val(g, s)
           T == {m \in Nat : \E g : Upto(g, m)}
<1> HIDE DEF Round
<1>1. 0 \in T
  <2> DEFINE h == [s \in {{}} |-> c]
  <2>1. SUBSET (1..0) = {{}}
    OBVIOUS
  <2>2. Upto(h, 0)
    BY <2>1
  <2> QED
    BY <2>2
<1>2. ASSUME NEW m \in T PROVE m + 1 \in T
  <2>1. PICK g : Upto(g, m)
    OBVIOUS
  <2>2. m \in Nat /\ m + 1 \in Nat /\ m + 1 \notin 1..m
    OBVIOUS
  <2>3. \A s \in SUBSET (1..m+1) : s \ {m + 1} \in SUBSET (1..m)
    BY <2>2
  <2> DEFINE h == [s \in SUBSET (1..m+1) |->
                     IF m + 1 \in s THEN Round(g[s \ {m + 1}], m + 1) ELSE g[s]]
  <2>4. \A s \in SUBSET (1..m) : s \in SUBSET (1..m+1) /\ h[s] = g[s]
    BY <2>2
  <2>5. ASSUME NEW s \in SUBSET (1..m+1) PROVE h[s] = Val(h, s)
    <3>1. CASE m + 1 \in s
      <4>1. Max(s) = m + 1
        BY <2>2, <3>1, MaxOf
      <4>2. h[s] = Round(g[s \ {m + 1}], m + 1)
        BY <3>1
      <4>3. h[s \ {m + 1}] = g[s \ {m + 1}]
        BY <2>3, <2>4
      <4> QED
        BY <3>1, <4>1, <4>2, <4>3
    <3>2. CASE m + 1 \notin s
      <4>1. s \in SUBSET (1..m) /\ s \ {Max(s)} \in SUBSET (1..m)
        BY <2>3, <3>2
      <4>2. h[s] = g[s] /\ g[s] = Val(g, s) /\ h[s \ {Max(s)}] = g[s \ {Max(s)}]
        BY <2>1, <2>4, <4>1
      <4> QED
        BY <4>2
    <3> QED
      BY <3>1, <3>2
  <2>6. Upto(h, m + 1)
    BY <2>5
  <2> HIDE DEF Upto, h
  <2> QED
    BY <2>2, <2>6
<1>3. T = Nat
  <2> HIDE DEF T
  <2>1. T \in SUBSET Nat
    BY DEF T
  <2> QED
    BY <1>1, <1>2, <2>1, NumberInduction
<1>4. PICK g : Upto(g, n)
  BY <1>3
<1> DEFINE h == [s \in SUBSET (1..n) |-> g[s]]
<1>5. \A s \in SUBSET (1..n) : h[s] = Val(h, s)
  BY <1>4
<1>6. h = [s \in SUBSET (1..n) |-> Val(h, s)]
  BY <1>5
<1>7. Sort(h, w, d, n, c)
  BY <1>6 DEF Sort, Round
<1> QED
  BY <1>7

\* The sort round by round.
Rounds(a, c, w, d, n) ==
  /\ a[0] = c /\ a[n] = Sorted(c, w, d)
  /\ \A k \in 1..n : a[k] = Swapped(a[k-1], k, Best(a[k-1], k, d))

LEMMA SortRounds ==
  ASSUME NEW n \in Nat, NEW d, NEW c, NEW w, w = [i \in 1..n |-> i]
  PROVE  \E a : Rounds(a, c, w, d, n)
<1> DEFINE G == CHOOSE g : Sort(g, w, d, n, c)
<1>1. Sorted(c, w, d) = G[1..n]
  BY DEF Sorted, FoldLeft, MapThenFoldSet, Sort
<1>2. Sort(G, w, d, n, c)
  BY SortExists
<1> HIDE DEF G
<1>3. 1..0 = {} /\ {} \in SUBSET (1..n)
  OBVIOUS
<1>4. G[1..0] = c
  BY <1>2, <1>3 DEF Sort
<1>5. ASSUME NEW k \in 1..n
      PROVE  G[1..k] = Swapped(G[1..(k-1)], k, Best(G[1..(k-1)], k, d))
  <2>0. k \in Nat /\ 1 <= k /\ k <= n /\ w[k] = k
    OBVIOUS
  <2>1. 1..k \in SUBSET (1..n) /\ 1..k # {} /\ k \in 1..k /\ (1..k) \ {k} = 1..(k-1)
    <3>1. \A i \in 1..k : i \in 1..n
      BY <2>0
    <3>2. k \in 1..k
      BY <2>0
    <3>3. (1..k) \ {k} = 1..(k-1)
      BY <2>0
    <3> QED
      BY <3>1, <3>2, <3>3
  <2>2. Max(1..k) = k
    BY <2>0, <2>1, MaxOf
  <2>4. G[1..k] = Swapped(G[(1..k) \ {Max(1..k)}], w[Max(1..k)],
                          Best(G[(1..k) \ {Max(1..k)}], w[Max(1..k)], d))
    BY <1>2, <2>1 DEF Sort
  <2> QED
    BY <2>0, <2>1, <2>2, <2>4
<1> DEFINE a == [k \in 0..n |-> G[1..k]]
<1>6. Rounds(a, c, w, d, n)
  BY <1>1, <1>4, <1>5 DEF Rounds
<1> QED
  BY <1>6

\* The slot a round takes is one of those left, and none of them is nearer.
LEMMA BestFacts ==
  ASSUME NEW n \in Nat, NEW o, Len(o) = n, NEW d, \A l \in 1..n : d[o[l]] \in Nat,
         NEW i \in 1..n
  PROVE  /\ Best(o, i, d) \in i..n /\ Best(o, i, d) \in 1..n
         /\ \A l \in i..n : d[o[Best(o, i, d)]] <= d[o[l]]
<1> DEFINE V == {d[o[l]] : l \in i..n}
           S == {j \in i..n : \A l \in i..n : d[o[j]] <= d[o[l]]}
<1>0. i \in Nat /\ 1 <= i /\ i <= n /\ i \in i..n /\ \A l \in i..n : l \in 1..n
  OBVIOUS
<1>1. V \in SUBSET Nat /\ V # {}
  <2>1. \A l \in i..n : d[o[l]] \in Nat
    BY <1>0
  <2>2. d[o[i]] \in V
    BY <1>0
  <2> QED
    BY <2>1, <2>2
<1>2. PICK m \in V : \A v \in V : m <= v
  BY <1>1, LeastNumber
<1>3. PICK j \in i..n : m = d[o[j]]
  BY <1>2
<1>4. S \in SUBSET (1..n) /\ S # {}
  <2>1. \A l \in i..n : d[o[j]] <= d[o[l]]
    BY <1>2, <1>3
  <2>2. j \in S
    BY <2>1
  <2> QED
    BY <1>0, <2>2
<1>5. Best(o, i, d) = First(S)
  BY DEF Best
<1>6. First(S) \in S
  <2> HIDE DEF S
  <2> QED
    BY <1>4, FirstType
<1> QED
  BY <1>0, <1>5, <1>6

\* After k rounds: the same slots, each still once, and the first k in order before
\* the rest.
SortedUpto(o, c, d, n, k) ==
  /\ o = [i \in 1..n |-> o[i]]
  /\ \A i \in 1..n : d[o[i]] \in Nat
  /\ \A i, j \in 1..n : o[i] = o[j] => i = j
  /\ \A i \in 1..n : \E j \in 1..n : o[i] = c[j]
  /\ \A i \in 1..n : \E j \in 1..n : o[j] = c[i]
  /\ \A i \in 1..k : \A j \in i..n : d[o[i]] <= d[o[j]]

LEMMA RoundSorts ==
  ASSUME NEW n \in Nat, NEW o, NEW c, NEW d, NEW k \in 1..n, SortedUpto(o, c, d, n, k-1)
  PROVE  SortedUpto(Swapped(o, k, Best(o, k, d)), c, d, n, k)
<1> DEFINE b == Best(o, k, d)
           u == Swapped(o, k, b)
<1>0. k \in Nat /\ 1 <= k /\ k <= n
  OBVIOUS
<1>1. /\ o = [i \in 1..n |-> o[i]]
      /\ \A i \in 1..n : d[o[i]] \in Nat
      /\ \A i, j \in 1..n : o[i] = o[j] => i = j
      /\ \A i \in 1..n : \E j \in 1..n : o[i] = c[j]
      /\ \A i \in 1..n : \E j \in 1..n : o[j] = c[i]
      /\ \A i \in 1..k-1 : \A j \in i..n : d[o[i]] <= d[o[j]]
  BY DEF SortedUpto
<1>2. Len(o) = n /\ DOMAIN o = 1..n
  BY <1>1, ArrayIsSeq
<1>3. b \in k..n /\ b \in 1..n /\ \A l \in k..n : d[o[b]] <= d[o[l]]
  BY <1>1, <1>2, BestFacts
<1> HIDE DEF b
\* Where the slot at i was before the round.
<1> DEFINE was(i) == IF i = k THEN b ELSE IF i = b THEN k ELSE i
<1>4. /\ DOMAIN u = 1..n
      /\ \A i \in 1..n : was(i) \in 1..n /\ u[i] = o[was(i)] /\ was(was(i)) = i
      /\ u = [i \in 1..n |-> u[i]]
  <2>1. u = [i \in 1..n |-> o[was(i)]]
    BY <1>1, <1>2, <1>3 DEF Swapped
  <2> QED
    BY <1>3, <2>1
<1>5. \A i \in 1..k-1 : was(i) = i /\ \A j \in i..n : was(j) \in i..n
  BY <1>0, <1>3
<1>6. was(k) = b /\ \A j \in k..n : was(j) \in k..n /\ j \in 1..n
  BY <1>0, <1>3
<1> HIDE DEF u, was
<1>7. ASSUME NEW i \in 1..n PROVE d[u[i]] \in Nat /\ \E j \in 1..n : u[i] = c[j]
  <2>1. was(i) \in 1..n /\ u[i] = o[was(i)]
    BY <1>4
  <2> QED
    BY <1>1, <2>1
<1>8. ASSUME NEW i \in 1..n, NEW j \in 1..n, u[i] = u[j] PROVE i = j
  <2>1. was(i) \in 1..n /\ was(j) \in 1..n /\ o[was(i)] = o[was(j)]
    BY <1>4, <1>8
  <2>2. was(i) = was(j)
    BY <1>1, <2>1
  <2> QED
    BY <1>4, <2>2
<1>9. \A i \in 1..n : \E j \in 1..n : u[j] = c[i]
  <2> SUFFICES ASSUME NEW i \in 1..n PROVE \E j \in 1..n : u[j] = c[i]
    OBVIOUS
  <2>1. PICK j \in 1..n : o[j] = c[i]
    BY <1>1
  <2>2. was(j) \in 1..n /\ u[was(j)] = o[j]
    BY <1>4
  <2> QED
    BY <2>1, <2>2
<1>10. ASSUME NEW i \in 1..k, NEW j \in i..n PROVE d[u[i]] <= d[u[j]]
  <2>1. CASE i = k
    <3>1. u[i] = o[b] /\ was(j) \in k..n /\ u[j] = o[was(j)]
      BY <1>0, <1>4, <1>6, <2>1
    <3> QED
      BY <1>3, <3>1
  <2>2. CASE i \in 1..k-1
    <3>1. i \in 1..n /\ j \in 1..n
      BY <1>0
    <3>2. u[i] = o[i] /\ was(j) \in i..n /\ u[j] = o[was(j)]
      BY <1>4, <1>5, <2>2, <3>1
    <3> QED
      BY <1>1, <2>2, <3>2
  <2>3. i = k \/ i \in 1..k-1
    BY <1>0
  <2> QED
    BY <2>1, <2>2, <2>3
<1>11. SortedUpto(u, c, d, n, k)
  BY <1>4, <1>7, <1>8, <1>9, <1>10 DEF SortedUpto
<1> QED
  BY <1>11 DEF u, b

\* The sort puts an array of distinct slots in order of distance.
LEMMA SortedFacts ==
  ASSUME NEW n \in Nat, NEW c, NEW d, c = [i \in 1..n |-> c[i]],
         \A i \in 1..n : d[c[i]] \in Nat,
         \A i, j \in 1..n : c[i] = c[j] => i = j,
         NEW w, w = [i \in 1..n |-> i]
  PROVE  SortedUpto(Sorted(c, w, d), c, d, n, n)
<1>0. PICK a : Rounds(a, c, w, d, n)
  BY SortRounds
<1>1. /\ a[0] = c /\ a[n] = Sorted(c, w, d)
      /\ \A k \in 1..n : a[k] = Swapped(a[k-1], k, Best(a[k-1], k, d))
  BY <1>0 DEF Rounds
<1> DEFINE T == {k \in Nat : k <= n => SortedUpto(a[k], c, d, n, k)}
<1>2. 0 \in T
  BY <1>1 DEF SortedUpto
<1>3. ASSUME NEW m \in T PROVE m + 1 \in T
  <2>1. SUFFICES ASSUME m + 1 <= n PROVE SortedUpto(a[m+1], c, d, n, m+1)
    OBVIOUS
  <2>2. m + 1 \in 1..n /\ (m + 1) - 1 = m /\ m <= n
    BY <2>1
  <2>3. a[m+1] = Swapped(a[m], m+1, Best(a[m], m+1, d))
    BY <1>1, <2>2
  <2>4. SortedUpto(a[m], c, d, n, m)
    BY <2>2
  <2> HIDE DEF T
  <2> QED
    BY <2>2, <2>3, <2>4, RoundSorts
<1>4. T = Nat
  <2> HIDE DEF T
  <2>1. T \in SUBSET Nat
    BY DEF T
  <2> QED
    BY <1>2, <1>3, <2>1, NumberInduction
<1>5. SortedUpto(a[n], c, d, n, n)
  <2>1. n \in T
    BY <1>4
  <2> QED
    BY <2>1
<1> QED
  BY <1>1, <1>5

\* The slots of live peers, each once.
LEMMA LiveFacts ==
  ASSUME NEW table \in Seq(DhtPeer)
  PROVE  LET c == Live(table)
             n == Cardinality(LiveSlots(table))
         IN  /\ n \in Nat /\ c = [i \in 1..n |-> c[i]]
             /\ \A i \in 1..n : c[i] \in LiveSlots(table)
             /\ \A i, j \in 1..n : c[i] = c[j] => i = j
             /\ \A s \in LiveSlots(table) : \E i \in 1..n : c[i] = s
             /\ (\A i \in DOMAIN table : table[i].alive) => n = Len(table)
<1> DEFINE K == LiveSlots(table)
           n == Cardinality(K)
           c == Live(table)
           id == [i \in DOMAIN table |-> i]
<1>1. Len(table) \in Nat /\ DOMAIN table = 1..Len(table)
  OBVIOUS
<1>2. K \in SUBSET (1..Len(table))
  BY <1>1 DEF LiveSlots
<1>3. n \in Nat
  <2> HIDE DEF K
  <2> QED
    BY <1>1, <1>2, KeepFinite
<1>4. c = [i \in 1..n |-> id[Origin(K, i)]]
  BY DEF Live, Compact
<1> HIDE DEF c, K, n
<1>5. \A i \in 1..n : Origin(K, i) \in K /\ Rank(K, Origin(K, i)) = i
  BY <1>1, <1>2, RankOfOrigin DEF n
<1>6. \A i \in 1..n : c[i] = Origin(K, i)
  BY <1>1, <1>2, <1>4, <1>5
<1>7. c = [i \in 1..n |-> c[i]]
  BY <1>4
<1>8. \A i, j \in 1..n : c[i] = c[j] => i = j
  BY <1>5, <1>6
<1>9. ASSUME NEW s \in K PROVE \E i \in 1..n : c[i] = s
  <2>1. Rank(K, s) \in 1..n /\ Origin(K, Rank(K, s)) = s
    BY <1>1, <1>2, RankType, OriginOfRank DEF n
  <2> QED
    BY <1>6, <2>1
<1>10. ASSUME \A i \in DOMAIN table : table[i].alive PROVE n = Len(table)
  <2>1. K = 1..Len(table)
    BY <1>1, <1>10 DEF K, LiveSlots
  <2> QED
    BY <1>1, <2>1, FS_Interval DEF n
<1>11. \A i \in 1..n : c[i] \in K
  BY <1>5, <1>6
<1> QED
  BY <1>3, <1>7, <1>8, <1>9, <1>10, <1>11 DEF c, K, n

\* The nearest of n slots to a target, as many as there are or are wanted.
Nearest(table, target, outMax, n, out) ==
  LET D(i) == Dist[target, table[i].addr]
  IN  /\ Len(out) = IF n <= outMax THEN n ELSE outMax
      /\ \A a, b \in DOMAIN out : a < b => out[a] # out[b] /\ D(out[a]) <= D(out[b])
      /\ \A i \in LiveSlots(table) \ HolderSet(out) :
           \A a \in DOMAIN out : D(out[a]) <= D(i)

\* The peers returned, for a table of any size with any of its peers dead: distinct live
\* ones in order of distance, as many as there are or are wanted, none nearer left out.
LEMMA ClosestFacts ==
  ASSUME NEW table \in Seq(DhtPeer), NEW target \in Names, NEW outMax \in Nat
  PROVE  /\ Nearest(table, target, outMax, Cardinality(LiveSlots(table)),
                    ClosestPeers(table, target, outMax))
         /\ (\A i \in DOMAIN table : table[i].alive)
              => Cardinality(LiveSlots(table)) = Len(table)
<1> DEFINE out == ClosestPeers(table, target, outMax)
           K == LiveSlots(table)
           n == Cardinality(K)
           c == Live(table)
           d == Distances(table, target)
           D(i) == Dist[target, table[i].addr]
           w == [i \in DOMAIN c |-> i]
           o == Sorted(c, w, d)
           m == IF n <= outMax THEN n ELSE outMax
<1>1. /\ n \in Nat /\ c = [i \in 1..n |-> c[i]]
      /\ \A i \in 1..n : c[i] \in K
      /\ \A i, j \in 1..n : c[i] = c[j] => i = j
      /\ \A s \in K : \E i \in 1..n : c[i] = s
      /\ (\A i \in DOMAIN table : table[i].alive) => n = Len(table)
  BY LiveFacts
<1>2. Len(c) = n /\ DOMAIN c = 1..n
  <2> HIDE DEF c, n
  <2> QED
    BY <1>1, ArrayIsSeq
<1>3. out = [a \in 1..m |-> o[a]]
  <2>1. out = [a \in 1..(IF Len(c) <= outMax THEN Len(c) ELSE outMax) |-> o[a]]
    BY DEF ClosestPeers, Sorted, Live, LiveSlots, Distances, FoldLeftDomain, FoldLeft,
           MapThenFoldSet
  <2> HIDE DEF c, n, o, out
  <2> QED
    BY <1>2, <2>1
<1>4. \A i \in K : d[i] = D(i) /\ d[i] \in Nat
  <2>0. \A i \in DOMAIN table : table[i] \in DhtPeer
    OBVIOUS
  <2>1. \A i \in DOMAIN table : table[i].addr \in Nodes
    BY <2>0 DEF DhtPeer
  <2> QED
    BY <2>1, DiscoveryAssumption DEF Distances, LiveSlots
<1> HIDE DEF c, n, d, K, D
<1>5. \A i \in 1..n : d[c[i]] \in Nat
  BY <1>1, <1>4
<1>6. w = [i \in 1..n |-> i]
  BY <1>2
<1> HIDE DEF w
<1>7. SortedUpto(o, c, d, n, n)
  BY <1>1, <1>5, <1>6, SortedFacts
<1> HIDE DEF o
<1>8. m \in Nat /\ m <= n /\ \A a \in 1..m : a \in 1..n
  BY <1>1
<1>9. out = [a \in 1..m |-> out[a]] /\ \A a \in 1..m : out[a] = o[a]
  BY <1>3
<1> HIDE DEF out
<1>10. Len(out) = m /\ DOMAIN out = 1..m
  <2> HIDE DEF m
  <2> QED
    BY <1>8, <1>9, ArrayIsSeq
<1>11. /\ \A i \in 1..n : o[i] \in K
       /\ \A i \in K : \E j \in 1..n : o[j] = i
       /\ \A i, j \in 1..n : o[i] = o[j] => i = j
       /\ \A i \in 1..n : \A j \in i..n : d[o[i]] <= d[o[j]]
  <2>1. /\ \A i \in 1..n : \E j \in 1..n : o[i] = c[j]
        /\ \A i \in 1..n : \E j \in 1..n : o[j] = c[i]
        /\ \A i, j \in 1..n : o[i] = o[j] => i = j
        /\ \A i \in 1..n : \A j \in i..n : d[o[i]] <= d[o[j]]
    BY <1>7 DEF SortedUpto
  <2>2. \A i \in 1..n : o[i] \in K
    BY <1>1, <2>1
  <2>3. ASSUME NEW i \in K PROVE \E j \in 1..n : o[j] = i
    <3>1. PICK l \in 1..n : c[l] = i
      BY <1>1
    <3> QED
      BY <2>1, <3>1
  <2> QED
    BY <2>1, <2>2, <2>3
<1> HIDE DEF m
<1>12. ASSUME NEW a \in DOMAIN out, NEW b \in DOMAIN out, a < b
       PROVE  out[a] # out[b] /\ D(out[a]) <= D(out[b])
  <2>1. a \in 1..n /\ b \in 1..n /\ b \in a..n /\ out[a] = o[a] /\ out[b] = o[b]
    BY <1>1, <1>8, <1>9, <1>10, <1>12
  <2> QED
    BY <1>4, <1>11, <1>12, <2>1
<1>13. ASSUME NEW i \in K \ HolderSet(out), NEW a \in DOMAIN out PROVE D(out[a]) <= D(i)
  <2>1. PICK j \in 1..n : o[j] = i
    BY <1>11
  <2>2. ~(j \in 1..m)
    BY <1>9, <1>10, <2>1 DEF HolderSet
  <2>3. a \in 1..n /\ j \in a..n /\ out[a] = o[a]
    BY <1>1, <1>8, <1>9, <1>10, <2>2
  <2> QED
    BY <1>4, <1>11, <2>1, <2>3
<1> QED
  BY <1>1, <1>10, <1>12, <1>13 DEF Nearest, out, n, K, D, m

\* The nearest peers are what the name says, at every node and for every target.
THEOREM NearestPeersFound == Spec => []ClosestIsNearest
<1>1. Init => PeersInv
  BY DEF Init, PeersInv
<1>2. PeersInv /\ [Next]_vars => PeersInv'
  BY PeersNext DEF PeersStep
<1>3. PeersInv => ClosestIsNearest
  <2> SUFFICES ASSUME PeersInv PROVE ClosestIsNearest
    OBVIOUS
  <2>0. ASSUME NEW n \in Nodes, NEW x \in Names, NEW outMax \in 1..MaxDhtPeers
        PROVE  /\ Nearest(peers[n], x, outMax, Len(peers[n]), ClosestPeers(peers[n], x, outMax))
               /\ LiveSlots(peers[n]) = DOMAIN peers[n]
    <3>1. peers[n] \in Seq(DhtPeer) /\ \A i \in DOMAIN peers[n] : peers[n][i].alive
      BY DEF PeersInv
    <3>2. LiveSlots(peers[n]) = DOMAIN peers[n]
      BY <3>1 DEF LiveSlots
    <3>3. outMax \in Nat
      BY DiscoveryAssumption
    <3> QED
      BY <3>1, <3>2, <3>3, ClosestFacts
  <2>1. ASSUME NEW n \in Nodes, NEW x \in Names, NEW outMax \in 1..MaxDhtPeers
        PROVE  LET table == peers[n]
                   out   == ClosestPeers(table, x, outMax)
                   D(i)  == Dist[x, table[i].addr]
               IN  /\ Len(out) = IF Len(table) <= outMax THEN Len(table) ELSE outMax
                   /\ \A a, b \in DOMAIN out :
                        a < b => out[a] # out[b] /\ D(out[a]) <= D(out[b])
                   /\ \A i \in DOMAIN table \ HolderSet(out) :
                        \A a \in DOMAIN out : D(out[a]) <= D(i)
    <3> DEFINE out == ClosestPeers(peers[n], x, outMax)
    <3>1. Nearest(peers[n], x, outMax, Len(peers[n]), out) /\ LiveSlots(peers[n]) = DOMAIN peers[n]
      BY <2>0
    <3> HIDE DEF out
    <3>2. /\ Len(out) = IF Len(peers[n]) <= outMax THEN Len(peers[n]) ELSE outMax
          /\ \A a, b \in DOMAIN out :
               a < b => /\ out[a] # out[b]
                        /\ Dist[x, peers[n][out[a]].addr] <= Dist[x, peers[n][out[b]].addr]
          /\ \A i \in DOMAIN peers[n] \ HolderSet(out) : \A a \in DOMAIN out :
               Dist[x, peers[n][out[a]].addr] <= Dist[x, peers[n][i].addr]
      BY <3>1 DEF Nearest
    <3> QED
      BY <3>2 DEF out
  <2> QED
    BY <2>1, Zenon DEF ClosestIsNearest
<1> QED
  BY <1>1, <1>2, <1>3, PTL DEF Spec

----------------------------------------------------------------------------
(* Forwarded interests *)

\* What was sent on is remembered, as long as there was room to remember it.
ForwardInv ==
  /\ seen \in [Nodes -> Seq(Nonces)]
  /\ forwarded \in [Nodes -> SUBSET Nonces] /\ again \in [Nodes -> SUBSET Nonces]
  /\ \A n \in Nodes :
       /\ Len(seen[n]) <= MaxSeen
       /\ Len(seen[n]) < MaxSeen => forwarded[n] \subseteq HolderSet(seen[n]) /\ again[n] = {}
       /\ again[n] \cap HolderSet(seen[n]) = {}

\* What the dedup cache holds after one more nonce.
LEMMA RememberFacts ==
  ASSUME NEW cache \in Seq(Nonces), Len(cache) <= MaxSeen, NEW nonce \in Nonces,
         NEW new, new = Remember(cache, nonce)
  PROVE  /\ new \in Seq(Nonces) /\ Len(new) <= MaxSeen
         /\ Len(cache) < MaxSeen => HolderSet(new) = HolderSet(cache) \cup {nonce}
         /\ ~(Len(cache) < MaxSeen) => new = cache
<1> USE DiscoveryAssumption
<1>1. CASE Len(cache) < MaxSeen
  <2>1. new = Append(cache, nonce)
    BY <1>1 DEF Remember
  <2>2. /\ new \in Seq(Nonces) /\ Len(new) = Len(cache) + 1 /\ Len(cache) \in Nat
        /\ \A i \in 1..Len(cache) : new[i] = cache[i]
        /\ new[Len(cache) + 1] = nonce
    BY <2>1
  <2>3. /\ DOMAIN cache = 1..Len(cache) /\ Len(cache) + 1 \in DOMAIN new
        /\ \A i \in DOMAIN cache : i \in DOMAIN new
        /\ \A i \in DOMAIN new : i \in DOMAIN cache \/ i = Len(cache) + 1
    BY <2>2
  <2>4. HolderSet(new) = HolderSet(cache) \cup {nonce}
    BY <2>2, <2>3 DEF HolderSet
  <2>5. Len(new) <= MaxSeen
    BY <1>1, <2>2
  <2> QED
    BY <1>1, <2>2, <2>4, <2>5
<1>2. CASE ~(Len(cache) < MaxSeen)
  BY <1>2 DEF Remember
<1> QED
  BY <1>1, <1>2

LEMMA ForwardNewKeeps ==
  ASSUME ForwardInv, NEW n \in Nodes, NEW x \in Names, NEW nonce \in Nonces, NEW ttl,
         NEW arrives, ForwardNew(n, x, ttl, nonce, arrives)
  PROVE  ForwardInv'
<1> USE DiscoveryAssumption
<1> DEFINE new == Remember(seen[n], nonce)
<1>1. /\ seen \in [Nodes -> Seq(Nonces)] /\ seen[n] \in Seq(Nonces) /\ Len(seen[n]) <= MaxSeen
      /\ forwarded \in [Nodes -> SUBSET Nonces] /\ again \in [Nodes -> SUBSET Nonces]
      /\ Len(seen[n]) < MaxSeen =>
           forwarded[n] \subseteq HolderSet(seen[n]) /\ again[n] = {}
      /\ again[n] \cap HolderSet(seen[n]) = {}
  BY DEF ForwardInv
<1>2. nonce \notin HolderSet(seen[n]) /\ seen' = [seen EXCEPT ![n] = new]
  BY DEF ForwardNew
<1>3. \/ UNCHANGED <<forwarded, again>>
      \/ /\ forwarded' = [forwarded EXCEPT ![n] = @ \cup {nonce}]
         /\ again' = [again EXCEPT ![n] = IF nonce \in forwarded[n] THEN @ \cup {nonce} ELSE @]
  BY DEF ForwardNew
<1>4. /\ new \in Seq(Nonces) /\ Len(new) <= MaxSeen
      /\ Len(seen[n]) < MaxSeen => HolderSet(new) = HolderSet(seen[n]) \cup {nonce}
      /\ ~(Len(seen[n]) < MaxSeen) => new = seen[n]
  BY <1>1, RememberFacts
<1> HIDE DEF new
<1>5. /\ seen' \in [Nodes -> Seq(Nonces)] /\ seen'[n] = new
      /\ \A m \in Nodes : m # n => seen'[m] = seen[m]
  BY <1>1, <1>2, <1>4
<1>6. /\ forwarded' \in [Nodes -> SUBSET Nonces] /\ again' \in [Nodes -> SUBSET Nonces]
      /\ \A m \in Nodes : m # n => forwarded'[m] = forwarded[m] /\ again'[m] = again[m]
      /\ forwarded'[n] \subseteq forwarded[n] \cup {nonce}
      /\ again'[n] \subseteq again[n] \cup (forwarded[n] \cap {nonce})
  <2>1. CASE UNCHANGED <<forwarded, again>>
    BY <1>1, <2>1
  <2>2. CASE /\ forwarded' = [forwarded EXCEPT ![n] = @ \cup {nonce}]
             /\ again' = [again EXCEPT ![n] = IF nonce \in forwarded[n]
                                                THEN @ \cup {nonce} ELSE @]
    <3> DEFINE f == forwarded[n] \cup {nonce}
               a == IF nonce \in forwarded[n] THEN again[n] \cup {nonce} ELSE again[n]
    <3>1. f \in SUBSET Nonces /\ a \in SUBSET Nonces
      BY <1>1
    <3>2. forwarded' = [forwarded EXCEPT ![n] = f] /\ again' = [again EXCEPT ![n] = a]
      BY <2>2
    <3>3. /\ f \subseteq forwarded[n] \cup {nonce}
          /\ a \subseteq again[n] \cup (forwarded[n] \cap {nonce})
      OBVIOUS
    <3> HIDE DEF f, a
    <3>4. /\ forwarded' \in [Nodes -> SUBSET Nonces] /\ again' \in [Nodes -> SUBSET Nonces]
          /\ \A m \in Nodes : m # n => forwarded'[m] = forwarded[m] /\ again'[m] = again[m]
          /\ forwarded'[n] = f /\ again'[n] = a
      BY <1>1, <3>1, <3>2
    <3> QED
      BY <3>3, <3>4
  <2> QED
    BY <1>3, <2>1, <2>2
<1>7. /\ Len(seen'[n]) <= MaxSeen
      /\ Len(seen'[n]) < MaxSeen =>
           forwarded'[n] \subseteq HolderSet(seen'[n]) /\ again'[n] = {}
      /\ again'[n] \cap HolderSet(seen'[n]) = {}
  <2>1. CASE Len(seen[n]) < MaxSeen
    <3>1. nonce \notin forwarded[n] /\ again'[n] = {}
      BY <1>1, <1>2, <1>6, <2>1
    <3>2. forwarded'[n] \subseteq HolderSet(seen'[n])
      BY <1>1, <1>4, <1>5, <1>6, <2>1
    <3> QED
      BY <1>4, <1>5, <3>1, <3>2
  <2>2. CASE ~(Len(seen[n]) < MaxSeen)
    <3>1. seen'[n] = seen[n]
      BY <1>4, <1>5, <2>2
    <3>2. again'[n] \cap HolderSet(seen'[n]) = {}
      BY <1>1, <1>2, <1>6, <3>1
    <3> QED
      BY <1>1, <2>2, <3>1, <3>2
  <2> QED
    BY <2>1, <2>2
<1>8. ASSUME NEW m \in Nodes
      PROVE  /\ Len(seen'[m]) <= MaxSeen
             /\ Len(seen'[m]) < MaxSeen =>
                  forwarded'[m] \subseteq HolderSet(seen'[m]) /\ again'[m] = {}
             /\ again'[m] \cap HolderSet(seen'[m]) = {}
  <2>1. CASE m = n
    BY <1>7, <2>1
  <2>2. CASE m # n
    BY <1>5, <1>6, <2>2 DEF ForwardInv
  <2> QED
    BY <2>1, <2>2
<1> QED
  BY <1>5, <1>6, <1>8 DEF ForwardInv

LEMMA ForwardNext == ForwardInv /\ [Next]_vars => ForwardInv'
<1> SUFFICES ASSUME ForwardInv, [Next]_vars PROVE ForwardInv'
  OBVIOUS
<1>1. ASSUME NEW n \in Askers, NEW x \in Names, NEW nonce \in Nonces, NEW ttl \in {0, 1},
             NEW arrives \in BOOLEAN, ForwardNew(n, x, ttl, nonce, arrives)
      PROVE  ForwardInv'
  BY <1>1, ForwardNewKeeps, DiscoveryAssumption
<1>2. CASE UNCHANGED <<seen, forwarded, again>>
  BY <1>2 DEF ForwardInv
<1> QED
  BY <1>1, <1>2
     DEF Next, vars, Store, Drop, ForwardHit, ForwardSeen, SendRecord, PutRecord, AddPeer,
         Publish, Subscribe

\* A node sends the same interest, by its nonce, on twice only after its dedup cache
\* was full (mesh.c:416-430).
THEOREM SentTwiceOnlyWhenFull == Spec => []ForwardedOnce
<1>1. Init => ForwardInv
  BY DiscoveryAssumption DEF Init, ForwardInv, HolderSet
<1>2. ForwardInv => ForwardedOnce
  <2> SUFFICES ASSUME ForwardInv, NEW n \in Nodes, again[n] # {}
               PROVE  Len(seen[n]) = MaxSeen /\ again[n] \cap HolderSet(seen[n]) = {}
    BY DEF ForwardedOnce
  <2>1. /\ Len(seen[n]) \in Nat /\ Len(seen[n]) <= MaxSeen /\ ~(Len(seen[n]) < MaxSeen)
        /\ again[n] \cap HolderSet(seen[n]) = {}
    BY DEF ForwardInv
  <2> QED
    BY <2>1, DiscoveryAssumption
<1> QED
  BY <1>1, <1>2, ForwardNext, PTL DEF Spec
============================================================================
