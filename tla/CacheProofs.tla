---------------------------- MODULE CacheProofs ----------------------------
(***************************************************************************)
(* CacheInv is an invariant of the abstract cache for every set of paths,  *)
(* every budget and capacity: it is inductive as it stands.  The proof has *)
(* one step per action and one per conjunct the action can disturb.        *)
(***************************************************************************)
EXTENDS CacheSpec, FiniteSetTheorems, TLAPS

\* Dropping items keeps the invariant's facts about items: a set of items that
\* satisfies them satisfies them in every subset (remove, gc, eviction).
LEMMA SubsetKeepsInv ==
  ASSUME CacheAssumption, CacheInv, NEW K \in SUBSET held
  PROVE  /\ K \subseteq Item /\ IsFiniteSet(K)
         /\ \A x \in K : x.last_access_ns < now /\ x.timestamp < now
         /\ Cardinality(K) <= Capacity
         /\ \A x, y \in K : x.last_access_ns = y.last_access_ns => x = y
         /\ \A x, y \in K :
              ~x.path.hasVersion /\ ~y.path.hasVersion /\ x.path.base = y.path.base => x = y
<1>1. IsFiniteSet(K) /\ Cardinality(K) <= Cardinality(held) /\ Cardinality(K) \in Nat
      /\ Cardinality(held) \in Nat
  BY FS_Subset, FS_CardinalityType DEF CacheInv, TypeOK
<1>2. Cardinality(K) <= Capacity
  BY <1>1 DEF CacheAssumption, CacheInv, WithinCapacity
<1> QED
  BY <1>1, <1>2 DEF CacheInv, TypeOK, RecencyDistinct, PlainUnique

\* Replacing one item by one used now, with the same path, keeps the cache
\* within capacity, recency distinct and plain names unique (lookup, update).
LEMMA SwapKeepsInv ==
  ASSUME CacheAssumption, CacheInv, NEW x \in held, NEW z \in Item,
         z.path = x.path, z.last_access_ns = now, z.timestamp <= now,
         now' = now + 1, max_bytes' = max_bytes,
         held' = (held \ {x}) \cup {z}
  PROVE  CacheInv'
<1> USE DEF CacheAssumption
<1>1. IsFiniteSet(held \ {x}) /\ Cardinality(held \ {x}) = Cardinality(held) - 1
  BY FS_RemoveElement DEF CacheInv, TypeOK
<1>2. IsFiniteSet(held') /\ Cardinality(held') <= Cardinality(held)
  <2> DEFINE rest == held \ {x}
  <2>1. Cardinality(held) \in Nat /\ Cardinality(rest) \in Nat /\ IsFiniteSet(rest)
    BY <1>1, FS_CardinalityType DEF CacheInv, TypeOK
  <2>2. Cardinality(rest) = Cardinality(held) - 1
    BY <1>1
  <2> HIDE DEF rest
  <2>3. /\ IsFiniteSet(rest \cup {z})
        /\ Cardinality(rest \cup {z}) =
             IF z \in rest THEN Cardinality(rest) ELSE Cardinality(rest) + 1
    BY <2>1, FS_AddElement
  <2>4. held' = rest \cup {z}
    BY DEF rest
  <2>5. Cardinality(rest \cup {z}) <= Cardinality(held)
    BY <2>1, <2>2, <2>3
  <2> QED
    BY <2>3, <2>4, <2>5
<1>3. \A y \in held \ {x} : y.last_access_ns < now /\ y.timestamp < now /\ y \in Item
  BY DEF CacheInv, TypeOK
<1>4. TypeOK'
  BY <1>2, <1>3 DEF CacheInv, TypeOK, Item
<1>5. WithinCapacity'
  <2>1. Cardinality(held) \in Nat /\ Cardinality(held') \in Nat
    BY <1>2, FS_CardinalityType DEF CacheInv, TypeOK
  <2> QED
    BY <1>2, <2>1 DEF CacheInv, WithinCapacity
<1>6. RecencyDistinct'
  BY <1>3 DEF CacheInv, TypeOK, RecencyDistinct, Item
<1>7. PlainUnique'
  BY DEF CacheInv, PlainUnique
<1> QED
  BY <1>4, <1>5, <1>6, <1>7 DEF CacheInv

\* A subset of the items is what is left: the invariant holds again.
LEMMA ShrinkKeepsInv ==
  ASSUME CacheAssumption, CacheInv, held' \in SUBSET held, now' = now + 1, max_bytes' \in Nat
  PROVE  CacheInv'
<1>1. \A x \in held' : x.last_access_ns < now' /\ x.timestamp < now'
  BY SubsetKeepsInv DEF CacheInv, TypeOK, Item
<1> QED
  BY <1>1, SubsetKeepsInv
     DEF CacheInv, TypeOK, WithinCapacity, RecencyDistinct, PlainUnique

\* Inserting a new item, used now, with no equal unversioned name around, keeps
\* the invariant whatever the budget then evicts.
LEMMA InsertKeepsInv ==
  ASSUME CacheAssumption, CacheInv, NEW p \in Paths, NEW n \in Lengths, NEW f \in Lifetimes,
         StoreInsert(p, n, f)
  PROVE  CacheInv'
<1> USE DEF CacheAssumption
<1> DEFINE new == [path |-> p, data |-> p, data_len |-> n, timestamp |-> now,
                   freshness_ms |-> f, last_access_ns |-> now]
           all == held \cup {new}
<1>1. held' \subseteq all /\ now' = now + 1 /\ max_bytes' = max_bytes
  BY DEF StoreInsert, Clock, Room
<1>2. new \in Item /\ new.last_access_ns = now /\ new.timestamp = now /\ new.path = p
  BY DEF CacheInv, TypeOK, Item
<1>3. IsFiniteSet(all) /\ Cardinality(all) <= Capacity /\ Cardinality(all) \in Nat
  <2>1. Cardinality(held) \in Nat /\ Cardinality(held) < Capacity
    BY FS_CardinalityType DEF CacheInv, TypeOK, StoreInsert, Room
  <2> HIDE DEF new
  <2>2. /\ IsFiniteSet(all)
        /\ Cardinality(all) =
             IF new \in held THEN Cardinality(held) ELSE Cardinality(held) + 1
    BY FS_AddElement DEF CacheInv, TypeOK
  <2> QED
    BY <2>1, <2>2
<1>4. IsFiniteSet(held') /\ Cardinality(held') <= Capacity
  <2>1. Cardinality(held') <= Cardinality(all) /\ Cardinality(held') \in Nat
        /\ IsFiniteSet(held')
    BY <1>1, <1>3, FS_Subset, FS_CardinalityType
  <2> QED
    BY <2>1, <1>3
<1>5. \A x \in held : x.last_access_ns < now /\ x.timestamp < now /\ x \in Item
  BY DEF CacheInv, TypeOK
<1>6. TypeOK'
  BY <1>1, <1>2, <1>4, <1>5 DEF CacheInv, TypeOK, Item
<1>7. RecencyDistinct'
  BY <1>1, <1>2, <1>5 DEF CacheInv, TypeOK, RecencyDistinct, Item
<1>8. PlainUnique'
  <2>1. ~p.hasVersion => \A x \in held : x.path.base # p.base
    BY DEF StoreInsert, Replaceable
  <2> QED
    BY <1>1, <1>2, <2>1 DEF CacheInv, PlainUnique
<1> QED
  BY <1>4, <1>6, <1>7, <1>8 DEF CacheInv, WithinCapacity

\* Every step keeps the invariant.
LEMMA CacheInvStep ==
  ASSUME CacheAssumption, CacheInv, [Next]_vars
  PROVE  CacheInv'
<1> USE DEF CacheAssumption
<1>1. ASSUME NEW b \in Budgets, SetBudget(b) PROVE CacheInv'
  BY <1>1, ShrinkKeepsInv DEF SetBudget, Clock
<1>2. ASSUME NEW p \in Paths, NEW n \in Lengths, StoreReject(p, n) PROVE CacheInv'
  BY <1>2, ShrinkKeepsInv DEF StoreReject, Clock, CacheInv, TypeOK
<1>3. ASSUME NEW p \in Paths, NEW n \in Lengths, NEW f \in Lifetimes, StoreReplace(p, n, f)
      PROVE  CacheInv'
  <2>1. PICK x \in Replaceable(p) :
          held' = (held \ {x}) \cup
                    {[path |-> x.path, data |-> p, data_len |-> n, timestamp |-> now,
                      freshness_ms |-> f, last_access_ns |-> now]}
    BY <1>3 DEF StoreReplace
  <2> DEFINE z == [path |-> x.path, data |-> p, data_len |-> n, timestamp |-> now,
                   freshness_ms |-> f, last_access_ns |-> now]
  <2>2. x \in held /\ x \in Item
    BY DEF Replaceable, CacheInv, TypeOK
  <2>3. z \in Item /\ z.path = x.path /\ z.last_access_ns = now /\ z.timestamp <= now
    BY <2>2 DEF CacheInv, TypeOK, Item
  <2>4. now' = now + 1 /\ max_bytes' = max_bytes
    BY <1>3 DEF StoreReplace, Clock
  <2> HIDE DEF z
  <2>5. held' = (held \ {x}) \cup {z}
    BY <2>1 DEF z
  <2> QED
    BY <2>2, <2>3, <2>4, <2>5, SwapKeepsInv
<1>4. ASSUME NEW p \in Paths, NEW n \in Lengths, NEW f \in Lifetimes, StoreInsert(p, n, f)
      PROVE  CacheInv'
  BY <1>4, InsertKeepsInv
<1>5. ASSUME NEW p \in Paths, LookupHit(p) PROVE CacheInv'
  <2>1. PICK x \in Answers(p) :
          held' = (held \ {x}) \cup {[x EXCEPT !.last_access_ns = now]}
    BY <1>5 DEF LookupHit
  <2> DEFINE z == [x EXCEPT !.last_access_ns = now]
  <2>2. x \in held /\ x \in Item /\ x.timestamp < now
    BY DEF Answers, CacheInv, TypeOK
  <2>3. z \in Item /\ z.path = x.path /\ z.last_access_ns = now /\ z.timestamp <= now
    BY <2>2 DEF CacheInv, TypeOK, Item
  <2>4. now' = now + 1 /\ max_bytes' = max_bytes
    BY <1>5 DEF LookupHit, Clock
  <2> HIDE DEF z
  <2>5. held' = (held \ {x}) \cup {z}
    BY <2>1 DEF z
  <2> QED
    BY <2>2, <2>3, <2>4, <2>5, SwapKeepsInv
<1>6. ASSUME NEW p \in Paths, LookupMiss(p) PROVE CacheInv'
  BY <1>6, ShrinkKeepsInv DEF LookupMiss, Clock, CacheInv, TypeOK
<1>7. ASSUME NEW p \in Paths, RemoveHit(p) PROVE CacheInv'
  BY <1>7, ShrinkKeepsInv DEF RemoveHit, Clock, CacheInv, TypeOK
<1>8. ASSUME NEW p \in Paths, RemoveMiss(p) PROVE CacheInv'
  BY <1>8, ShrinkKeepsInv DEF RemoveMiss, Clock, CacheInv, TypeOK
<1>9. CASE Gc
  <2>1. held' \subseteq held /\ now' = now + 1 /\ max_bytes' = max_bytes
    BY <1>9 DEF Gc, Clock
  <2> QED
    BY <2>1, ShrinkKeepsInv DEF CacheInv, TypeOK
<1>10. CASE UNCHANGED vars
  BY <1>10 DEF vars, CacheInv, TypeOK, WithinCapacity, RecencyDistinct, PlainUnique
<1> QED
  BY <1>1, <1>2, <1>3, <1>4, <1>5, <1>6, <1>7, <1>8, <1>9, <1>10 DEF Next

\* Whatever is stored, looked up, removed, evicted or collected, the cache stays
\* within its capacity, its recency order is total and plain names are unique
\* (psirp.c:355-510).
THEOREM CacheSafe ==
  ASSUME CacheAssumption
  PROVE  Spec => []CacheInv
<1>1. Init => CacheInv
  <2> SUFFICES ASSUME Init PROVE CacheInv
    OBVIOUS
  <2>1. IsFiniteSet(held) /\ Cardinality(held) = 0
    BY FS_EmptySet DEF Init
  <2> QED
    BY <2>1
       DEF CacheAssumption, Init, CacheInv, TypeOK, WithinCapacity, RecencyDistinct, PlainUnique
<1> QED
  BY <1>1, CacheInvStep, PTL DEF Spec
============================================================================
