------------------------------- MODULE CsOps -------------------------------
(***************************************************************************)
(* The content store of psirp.c as operators on a store record: what       *)
(* psirp_cs_store, psirp_cs_lookup, psirp_cs_remove and psirp_cs_gc do to  *)
(* the entry table and to bytes_used, given the clock value they read on   *)
(* entry.  The state machine of ContentStore is built from these           *)
(* operators.                                                              *)
(*                                                                         *)
(* Data abstraction.  A name's path is its base (the components without    *)
(* "@version") and an optional version.  The FNV-1a hash is taken to be    *)
(* free of collisions and is identified with the text it is computed over. *)
(* A payload is identified with the text of the name it was published      *)
(* under; only its length matters to the store.                            *)
(***************************************************************************)
EXTENDS Integers, Sequences, SequencesExt

CONSTANTS
  Capacity,     \* PSIRP_CS_MAX_ENTRIES
  MaxData,      \* PSIRP_MAX_DATA, in the unit of data_len
  NsPerMs,      \* clock ticks per freshness unit (1000000 in the code)
  Wrap          \* 2^64: the clock difference is unsigned

ASSUME CsOpsAssumption ==
  /\ Capacity \in Nat \ {0} /\ MaxData \in Nat \ {0}
  /\ NsPerMs \in Nat \ {0} /\ Wrap \in Nat \ {0}

----------------------------------------------------------------------------
(* Names *)

\* A path as the caller writes it: "/base" or "/base@version".
Path(base, version, hasVersion) ==
  [base |-> base, version |-> version, hasVersion |-> hasVersion]

Unversioned(base) == Path(base, 0, FALSE)

\* The text a path's hash is computed over.
HashText(path) == IF path.hasVersion THEN <<path.base, path.version>> ELSE <<path.base>>

\* psirp_name_init: the version is parsed off the last component, and the hash
\* is taken over the full text, version included.
NameInit(path) ==
  [base |-> path.base, version |-> path.version, hasVersion |-> path.hasVersion,
   hash |-> HashText(path)]

\* psirp_name_init_components on the (already version-free) components.
NameInitComponents(base) == NameInit(Unversioned(base))

\* psirp_name_equal: hash and components, not the version fields.
NameEqual(a, b) == a.hash = b.hash /\ a.base = b.base

NameBaseEqual(a, b) == a.base = b.base

----------------------------------------------------------------------------
(* The entry table *)

EmptyStore == [entries |-> <<>>, bytes_used |-> 0, max_bytes |-> 0]

\* entry_expired: now - timestamp is unsigned 64-bit.
EntryExpired(e, now) ==
  /\ e.freshness_ms # 0
  /\ ((now - e.timestamp) % Wrap) \div NsPerMs > e.freshness_ms

\* free_entry and swap-remove: the last entry moves into the freed slot.
DropEntry(cs, i) ==
  LET last == Len(cs.entries)
  IN  [cs EXCEPT
        !.entries = [j \in 1..last-1 |-> IF j = i THEN @[last] ELSE @[j]],
        !.bytes_used = @ - cs.entries[i].data_len]

\* Mutation: the eviction loop picks the most recently used slot.
MruSlot(entries) ==
  Min({i \in DOMAIN entries :
         \A j \in DOMAIN entries : entries[i].last_access_ns >= entries[j].last_access_ns})

\* The least recently used slot, the lowest one among equals.
LruSlot(entries) ==
  Min({i \in DOMAIN entries :
         \A j \in DOMAIN entries : entries[i].last_access_ns <= entries[j].last_access_ns})

\* The eviction loop: while over budget and not empty, drop the LRU slot.
EnforceBudget(cs) ==
  FoldLeftDomain(
    LAMBDA c, k : IF c.max_bytes > 0 /\ c.bytes_used > c.max_bytes
                    THEN DropEntry(c, LruSlot(c.entries)) ELSE c,
    cs, cs.entries)

\* Mutation: the duplicate scan stops one entry early.
EqualSlotsShort(cs, name) ==
  {i \in DOMAIN cs.entries : i < Len(cs.entries) /\ NameEqual(cs.entries[i].name, name)}

\* The slots a name is found in by psirp_name_equal, in table order.
EqualSlots(cs, name) == {i \in DOMAIN cs.entries : NameEqual(cs.entries[i].name, name)}

----------------------------------------------------------------------------
(* Operations *)

\* Mutation: the LRU stamp of a new entry is left at 0.
NewEntryUnstamped(name, data, len, freshness, now) ==
  [name |-> [NameInitComponents(name.base) EXCEPT !.version = name.version,
                                                  !.hasVersion = name.hasVersion],
   data |-> data, data_len |-> len, timestamp |-> now, freshness_ms |-> freshness,
   last_access_ns |-> 0]

\* The entry's name is rebuilt from the components, so its hash covers the base
\* only; the version fields are copied afterwards.
NewEntry(name, data, len, freshness, now) ==
  [name |-> [NameInitComponents(name.base) EXCEPT !.version = name.version,
                                                  !.hasVersion = name.hasVersion],
   data |-> data, data_len |-> len, timestamp |-> now, freshness_ms |-> freshness,
   last_access_ns |-> now]

\* Mutation: an update counts the new payload and forgets to uncount the old one.
UpdateLeaks(cs, i, data, len, freshness, now) ==
  [cs EXCEPT !.entries[i] = [@ EXCEPT !.data = data, !.data_len = len, !.timestamp = now,
                                      !.freshness_ms = freshness, !.last_access_ns = now],
             !.bytes_used = @ + len]

\* The duplicate branch of psirp_cs_store: everything but the name is replaced,
\* and the call returns before the budget is enforced.
UpdateInPlace(cs, i, data, len, freshness, now) ==
  [cs EXCEPT !.entries[i] = [@ EXCEPT !.data = data, !.data_len = len, !.timestamp = now,
                                      !.freshness_ms = freshness, !.last_access_ns = now],
             !.bytes_used = @ - cs.entries[i].data_len + len]

AddEntry(cs, e) ==
  [cs EXCEPT !.entries = Append(@, e), !.bytes_used = @ + e.data_len]

\* Mutation: a capacity check that lets one entry too many in.
FullLate(cs) == Len(cs.entries) > Capacity

Full(cs) == Len(cs.entries) >= Capacity

\* psirp_cs_store: [ok, cs] are its result and the store it leaves.
CsStore(cs, name, data, len, freshness, now) ==
  IF len = 0 \/ len > MaxData
    THEN [ok |-> FALSE, cs |-> cs]
  ELSE IF EqualSlots(cs, name) # {}
    THEN [ok |-> TRUE,
          cs |-> UpdateInPlace(cs, Min(EqualSlots(cs, name)), data, len, freshness, now)]
  ELSE IF Full(cs)
    THEN [ok |-> FALSE, cs |-> cs]
  ELSE [ok |-> TRUE,
        cs |-> EnforceBudget(AddEntry(cs, NewEntry(name, data, len, freshness, now)))]

\* The slots psirp_cs_lookup accepts: unexpired, and equal (versioned name) or
\* base-equal (unversioned name).
LookupSlots(cs, name, now) ==
  {i \in DOMAIN cs.entries :
     /\ ~EntryExpired(cs.entries[i], now)
     /\ IF name.hasVersion THEN NameEqual(cs.entries[i].name, name)
                           ELSE NameBaseEqual(cs.entries[i].name, name)}

\* Mutation: an unversioned name is answered with its first live match.
LookupFirst(cs, name, now) ==
  IF LookupSlots(cs, name, now) = {} THEN 0 ELSE Min(LookupSlots(cs, name, now))

\* The slot it returns, 0 for NULL: the first match of a versioned name, the
\* first of the newest ones for an unversioned name.
LookupSlot(cs, name, now) ==
  LET found  == LookupSlots(cs, name, now)
      newest == {i \in found : \A j \in found :
                   cs.entries[j].name.version <= cs.entries[i].name.version}
  IN  IF found = {} THEN 0 ELSE IF name.hasVersion THEN Min(found) ELSE Min(newest)

\* A hit refreshes the entry's LRU stamp.
Touch(cs, i, now) ==
  IF i = 0 THEN cs ELSE [cs EXCEPT !.entries[i].last_access_ns = now]

\* psirp_cs_remove: [ok, cs].
CsRemove(cs, name) ==
  IF EqualSlots(cs, name) = {}
    THEN [ok |-> FALSE, cs |-> cs]
    ELSE [ok |-> TRUE, cs |-> DropEntry(cs, Min(EqualSlots(cs, name)))]

\* Mutation: the pass goes upward and skips what it has just moved down.
DropExpiredUpward(cs, now) ==
  FoldLeft(LAMBDA c, i : IF i \in DOMAIN c.entries /\ EntryExpired(c.entries[i], now)
                           THEN DropEntry(c, i) ELSE c,
           cs, [i \in DOMAIN cs.entries |-> i])

\* psirp_cs_gc: one downward pass that drops the expired entries, then the
\* eviction loop.
DropExpired(cs, now) ==
  FoldLeft(LAMBDA c, i : IF EntryExpired(c.entries[i], now) THEN DropEntry(c, i) ELSE c,
           cs, Reverse([i \in DOMAIN cs.entries |-> i]))

CsGc(cs, now) == EnforceBudget(DropExpired(cs, now))

\* The number of entries psirp_cs_gc reports as evicted.
GcCount(cs, now) == Len(cs.entries) - Len(CsGc(cs, now).entries)

----------------------------------------------------------------------------
(* Facts about one store, shared by the state machines *)

BytesHeld(cs) == MapThenSumSet(LAMBDA i : cs.entries[i].data_len, DOMAIN cs.entries)

EntrySet(cs) == {cs.entries[i] : i \in DOMAIN cs.entries}
============================================================================
