--------------------------- MODULE ContentStore ---------------------------
(***************************************************************************)
(* The content store (psirp_cs, psirp.c:328-510) driven by one thread: the *)
(* calls happen one at a time, each reads the nanosecond clock once when   *)
(* it starts, and the clock has moved on when the next one reads it.       *)
(***************************************************************************)
EXTENDS CsOps

CONSTANTS
  Paths,        \* the paths callers use
  Lengths,      \* the data_len values callers pass
  Lifetimes,    \* the freshness_ms values callers pass, 0 = forever
  Budgets,      \* the max_bytes values callers set, 0 = unlimited
  MaxTime       \* bound: the clock value at which a behaviour ends

ASSUME ContentStoreAssumption ==
  /\ Paths \subseteq [base : {p.base : p \in Paths}, version : Nat, hasVersion : BOOLEAN]
  /\ \A p \in Paths : ~p.hasVersion => p.version = 0
  /\ Lengths \subseteq Nat /\ Lifetimes \subseteq Nat /\ Budgets \subseteq Nat
  /\ MaxTime \in Nat
  /\ MaxTime < Wrap         \* the clock does not reach 2^64 ns, 584 years

VARIABLES
  cs,           \* the store: entries, bytes_used, max_bytes
  now,          \* the clock
  ret           \* the last call and what it returned

vars == <<cs, now, ret>>

Bases == {p.base : p \in Paths}

\* The path of a stored name.
PathOf(name) == Path(name.base, name.version, name.hasVersion)

Reply(op, path, ok, version) == [op |-> op, path |-> path, ok |-> ok, version |-> version]

NoPath == Path("none", 0, FALSE)

----------------------------------------------------------------------------

Init ==
  /\ cs = EmptyStore
  /\ now = 0
  /\ ret = Reply("init", NoPath, TRUE, 0)

\* Every call finds a clock value no earlier call has seen.
Clock == now < MaxTime /\ now' = now + 1

\* psirp_cs_set_budget stores the limit and evicts nothing.
SetBudget(b) ==
  /\ Clock
  /\ cs' = [cs EXCEPT !.max_bytes = b]
  /\ ret' = Reply("set_budget", NoPath, TRUE, 0)

\* psirp_cs_store of a payload published under `path'.
Store(path, len, freshness) ==
  /\ Clock
  /\ LET r == CsStore(cs, NameInit(path), HashText(path), len, freshness, now)
     IN  cs' = r.cs /\ ret' = Reply("store", path, r.ok, 0)

\* psirp_cs_lookup; on a hit the version of the entry is returned.
Lookup(path) ==
  /\ Clock
  /\ LET i == LookupSlot(cs, NameInit(path), now)
     IN  /\ cs' = Touch(cs, i, now)
         /\ ret' = Reply("lookup", path, i # 0,
                         IF i = 0 THEN 0 ELSE cs.entries[i].name.version)

Remove1(path) ==
  /\ Clock
  /\ LET r == CsRemove(cs, NameInit(path))
     IN  cs' = r.cs /\ ret' = Reply("remove", path, r.ok, 0)

Gc ==
  /\ Clock
  /\ cs' = CsGc(cs, now)
  /\ ret' = Reply("gc", NoPath, GcCount(cs, now) > 0, 0)

Next ==
  \/ \E b \in Budgets : SetBudget(b)
  \/ \E p \in Paths, n \in Lengths, f \in Lifetimes : Store(p, n, f)
  \/ \E p \in Paths : Lookup(p)
  \/ \E p \in Paths : Remove1(p)
  \/ Gc

Spec == Init /\ [][Next]_vars

----------------------------------------------------------------------------
(* Properties *)

Names ==
  [base : Bases, version : {p.version : p \in Paths}, hasVersion : BOOLEAN,
   hash : {HashText(p) : p \in Paths} \cup {HashText(Unversioned(b)) : b \in Bases}]

Entries ==
  [name : Names, data : {HashText(p) : p \in Paths}, data_len : Lengths,
   timestamp : 0..MaxTime, freshness_ms : Lifetimes, last_access_ns : 0..MaxTime]

Calls == {"init", "set_budget", "store", "lookup", "remove", "gc"}

Stores == [entries : Seq(Entries), bytes_used : Nat, max_bytes : Budgets \cup {0}]

\* The store is a table of at most `capacity' entries of the callers' data.
TypeOK ==
  /\ cs \in Stores /\ Len(cs.entries) <= Capacity
  /\ now \in 0..MaxTime
  /\ ret \in [op : Calls, path : Paths \cup {NoPath}, ok : BOOLEAN, version : Nat]

\* bytes_used, kept up by five separate += and -= statements in store, remove
\* and gc (psirp.c:369-375, 407, 416, 469, 487, 501), is the sum of data_len
\* over the table: the budget is compared with what is really held.
BytesAccounted == cs.bytes_used = BytesHeld(cs)

\* No two entries without a version share their components, whatever updates,
\* evictions and swap-removes came before: the duplicate scan of psirp_cs_store
\* (psirp.c:363) keeps plain names unique.
PlainNamesUnique ==
  \A i, j \in DOMAIN cs.entries :
    /\ ~cs.entries[i].name.hasVersion /\ ~cs.entries[j].name.hasVersion
    /\ cs.entries[i].name.base = cs.entries[j].name.base
    => i = j

\* Every entry's hash covers its components only (psirp.c:394), its stamps lie in
\* the past, and no two entries were last used at the same time, through updates,
\* lookups and swap-removes: the least recently used slot of psirp.c:413-415 is
\* one slot, and the unsigned age of an entry never wraps.
EntriesSound ==
  /\ \A e \in EntrySet(cs) :
       /\ PathOf(e.name) \in Paths /\ e.name.hash = HashText(Unversioned(e.name.base))
       /\ e.timestamp < now /\ e.last_access_ns < now
  /\ \A i, j \in DOMAIN cs.entries :
       cs.entries[i].last_access_ns = cs.entries[j].last_access_ns => i = j

\* What holds of the store between any two calls.
StoreInv == TypeOK /\ BytesAccounted /\ PlainNamesUnique /\ EntriesSound

\* After psirp_cs_gc no entry is left that had expired when it read the clock,
\* although the pass moves the last entry into every slot it frees
\* (psirp.c:484-494), and the byte budget holds.
GcLeavesNothingExpired ==
  [][ret'.op = "gc" =>
       /\ \A e \in EntrySet(cs') : ~EntryExpired(e, now)
       /\ cs'.max_bytes > 0 => cs'.bytes_used <= cs'.max_bytes]_vars

\* Making room drops what was used least recently, so the object just stored goes
\* last: a store that succeeds and leaves anything in the table leaves the new
\* object in it, although psirp_cs_store reports success even when its own eviction
\* loop has dropped that object with everything else (psirp.c:408-424).
StoreSparesNewest ==
  [][(ret'.op = "store" /\ ret'.ok /\ cs'.entries # <<>>) =>
        \E e \in EntrySet(cs') : e.last_access_ns = now]_vars

----------------------------------------------------------------------------
(* What the documentation says and the code does not do *)

\* psirp.h:44-46, README.md:203: "/news@42" addresses a specific version.  A
\* stored, unexpired version is found under its versioned name.
VersionIsAddressable ==
  \A i \in DOMAIN cs.entries :
    LET e == cs.entries[i]
    IN  e.name.hasVersion /\ ~EntryExpired(e, now)
          => LookupSlot(cs, NameInit(PathOf(e.name)), now) # 0

----------------------------------------------------------------------------
(* Refinement: the table as the set of its entries, hashes forgotten.      *)

DataPath(text) == CHOOSE p \in Paths : HashText(p) = text

AsItem(e) ==
  [path |-> PathOf(e.name), data |-> DataPath(e.data), data_len |-> e.data_len,
   timestamp |-> e.timestamp, freshness_ms |-> e.freshness_ms,
   last_access_ns |-> e.last_access_ns]

Cache == INSTANCE CacheSpec WITH
           held <- {AsItem(e) : e \in EntrySet(cs)},
           max_bytes <- cs.max_bytes

\* Every call on the table (psirp.c:355-510) replies and evicts as the abstract
\* cache may: the answer is the newest live version, the least recently used
\* entries go first and only as many as the budget asks for, and expired entries
\* go only to gc.
RefinesCache == Cache!Spec
============================================================================
