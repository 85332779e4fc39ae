----------------------------- MODULE CacheSpec -----------------------------
(***************************************************************************)
(* What the content store promises a single-threaded caller, without its   *)
(* table, its slots, its scans or its byte counter: a set of items, a byte *)
(* budget, and eviction of the least recently used items.  Where several   *)
(* items could be meant (two stores of the same version leave two) any of  *)
(* them may be.  ContentStore is checked and proved to implement this      *)
(* module, whose own invariant is proved in CacheProofs.                   *)
(*                                                                         *)
(* A versioned name finds nothing and removes nothing here, because that   *)
(* is what the code does: an item's hash covers its components only, the   *)
(* hash of a name "/base@v" covers the version too (psirp.c:102-107, 394).  *)
(***************************************************************************)
EXTENDS Integers, FiniteSets, FiniteSetsExt

CONSTANTS Paths, Lengths, Lifetimes, Budgets, Capacity, MaxData, NsPerMs, MaxTime

\* What the proofs about the cache take of its parameters.
CacheAssumption ==
  /\ \A p \in Paths : p.version \in Nat /\ p.hasVersion \in BOOLEAN
  /\ \A p \in Paths : ~p.hasVersion => p.version = 0
  /\ Lengths \subseteq Nat /\ Lifetimes \subseteq Nat /\ Budgets \subseteq Nat
  /\ Capacity \in Nat \ {0} /\ MaxData \in Nat /\ NsPerMs \in Nat \ {0}
  /\ MaxTime \in Nat

VARIABLES
  held,         \* the items
  max_bytes,    \* the budget, 0 = unlimited
  now,          \* the clock
  ret           \* the last call and its reply

vars == <<held, max_bytes, now, ret>>

Item ==
  [path : Paths, data : Paths, data_len : Nat, timestamp : Nat,
   freshness_ms : Nat, last_access_ns : Nat]

Reply(op, path, ok, version) == [op |-> op, path |-> path, ok |-> ok, version |-> version]

NoPath == [base |-> "none", version |-> 0, hasVersion |-> FALSE]

Expired(x) == x.freshness_ms # 0 /\ (now - x.timestamp) \div NsPerMs > x.freshness_ms

TotalBytes(S) == MapThenSumSet(LAMBDA x : x.data_len, S)

\* K is what the budget leaves of S: the longest run of most recently used
\* items that fits.
Trimmed(S, K) ==
  /\ K \subseteq S
  /\ max_bytes = 0 => K = S
  /\ max_bytes > 0 =>
       /\ TotalBytes(K) <= max_bytes
       /\ \A lost \in S \ K :
            /\ \A kept \in K : lost.last_access_ns < kept.last_access_ns
            /\ TotalBytes({x \in S : x.last_access_ns >= lost.last_access_ns}) > max_bytes

----------------------------------------------------------------------------

Init ==
  /\ held = {}
  /\ max_bytes = 0
  /\ now = 0
  /\ ret = Reply("init", NoPath, TRUE, 0)

Clock == now < MaxTime /\ now' = now + 1

SetBudget(b) ==
  /\ Clock
  /\ max_bytes' = b
  /\ ret' = Reply("set_budget", NoPath, TRUE, 0)
  /\ UNCHANGED held

\* An unversioned name may replace any item with its components.
Replaceable(path) == {x \in held : ~path.hasVersion /\ x.path.base = path.base}

Room == Cardinality(held) < Capacity

Sizable(len) == len # 0 /\ len <= MaxData

StoreReject(path, len) ==
  /\ Clock
  /\ \/ ~Sizable(len)
     \/ Replaceable(path) = {} /\ ~Room
  /\ ret' = Reply("store", path, FALSE, 0)
  /\ UNCHANGED <<held, max_bytes>>

StoreReplace(path, len, freshness) ==
  /\ Clock
  /\ Sizable(len)
  /\ \E x \in Replaceable(path) :
       held' = (held \ {x}) \cup
                 {[path |-> x.path, data |-> path, data_len |-> len, timestamp |-> now,
                   freshness_ms |-> freshness, last_access_ns |-> now]}
  /\ ret' = Reply("store", path, TRUE, 0)
  /\ UNCHANGED max_bytes

StoreInsert(path, len, freshness) ==
  /\ Clock
  /\ Sizable(len)
  /\ Replaceable(path) = {} /\ Room
  /\ LET new == [path |-> path, data |-> path, data_len |-> len, timestamp |-> now,
                 freshness_ms |-> freshness, last_access_ns |-> now]
     IN  \E K \in SUBSET (held \cup {new}) : Trimmed(held \cup {new}, K) /\ held' = K
  /\ ret' = Reply("store", path, TRUE, 0)
  /\ UNCHANGED max_bytes

\* The unexpired items an unversioned name may be answered with: the newest.
Answers(path) ==
  LET live == {x \in held : ~path.hasVersion /\ x.path.base = path.base /\ ~Expired(x)}
  IN  {x \in live : \A y \in live : y.path.version <= x.path.version}

LookupHit(path) ==
  /\ Clock
  /\ \E x \in Answers(path) :
       /\ held' = (held \ {x}) \cup {[x EXCEPT !.last_access_ns = now]}
       /\ ret' = Reply("lookup", path, TRUE, x.path.version)
  /\ UNCHANGED max_bytes

LookupMiss(path) ==
  /\ Clock
  /\ Answers(path) = {}
  /\ ret' = Reply("lookup", path, FALSE, 0)
  /\ UNCHANGED <<held, max_bytes>>

RemoveHit(path) ==
  /\ Clock
  /\ \E x \in Replaceable(path) : held' = held \ {x}
  /\ ret' = Reply("remove", path, TRUE, 0)
  /\ UNCHANGED max_bytes

RemoveMiss(path) ==
  /\ Clock
  /\ Replaceable(path) = {}
  /\ ret' = Reply("remove", path, FALSE, 0)
  /\ UNCHANGED <<held, max_bytes>>

Gc ==
  /\ Clock
  /\ LET live == {x \in held : ~Expired(x)}
     IN  \E K \in SUBSET live : Trimmed(live, K) /\ held' = K
  /\ ret' = Reply("gc", NoPath, held' # held, 0)
  /\ UNCHANGED max_bytes

Next ==
  \/ \E b \in Budgets : SetBudget(b)
  \/ \E p \in Paths, n \in Lengths : StoreReject(p, n)
  \/ \E p \in Paths, n \in Lengths, f \in Lifetimes :
       StoreReplace(p, n, f) \/ StoreInsert(p, n, f)
  \/ \E p \in Paths : LookupHit(p) \/ LookupMiss(p) \/ RemoveHit(p) \/ RemoveMiss(p)
  \/ Gc

Spec == Init /\ [][Next]_vars

----------------------------------------------------------------------------
(* Properties *)

\* The items are a finite set of well-formed records and no clock value in them
\* is ahead of the clock.
TypeOK ==
  /\ held \subseteq Item /\ IsFiniteSet(held)
  /\ max_bytes \in Nat /\ now \in Nat
  /\ \A x \in held : x.last_access_ns < now /\ x.timestamp < now

\* Capacity: the table never holds more than `capacity' entries, although a
\* replacement does not look at the count (psirp.c:363-380).
WithinCapacity == Cardinality(held) <= Capacity

\* No two items were last used at the same time: least recently used is one
\* item, so the eviction order does not depend on the slots (psirp.c:413-415).
RecencyDistinct == \A x, y \in held : x.last_access_ns = y.last_access_ns => x = y

\* At most one unversioned item per base, through updates, evictions, expiry
\* and removal (psirp.c:362-377).
PlainUnique ==
  \A x, y \in held :
    ~x.path.hasVersion /\ ~y.path.hasVersion /\ x.path.base = y.path.base => x = y

CacheInv == TypeOK /\ WithinCapacity /\ RecencyDistinct /\ PlainUnique
============================================================================
