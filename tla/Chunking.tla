----------------------------- MODULE Chunking -----------------------------
(***************************************************************************)
(* Large content in the content store (psirp.c:512-611): it is cut into    *)
(* chunks stored as "/name/chunk/<i>" and a manifest stored as             *)
(* "/name/chunks", each by a psirp_cs_store of its own, and put together   *)
(* again chunk by chunk.  The calls happen one at a time, between those of *)
(* the store itself (ContentStore); every store and lookup inside a call   *)
(* reads the clock anew.                                                   *)
(*                                                                         *)
(* Data abstraction.  Content is identified by the call that stored it: a  *)
(* chunk holds the number of that call and its own index.                  *)
(***************************************************************************)
EXTENDS ContentStore

CONSTANTS
  OutCaps,      \* the buffer sizes callers pass to a lookup
  ChunkSize,    \* PSIRP_CHUNK_SIZE
  MaxChunks,    \* chunks in a psirp_manifest
  ManifestLen,  \* sizeof(psirp_manifest)
  MaxCalls      \* bound: the calls of a behaviour

ASSUME ChunkingAssumption ==
  /\ \A p \in Paths : p.base = <<p.base[1]>>     \* the paths are those of the objects
  /\ OutCaps \subseteq Nat /\ MaxCalls \in Nat
  /\ ChunkSize \in Nat \ {0} /\ MaxChunks \in Nat \ {0} /\ ManifestLen \in Nat \ {0}
  /\ ChunkSize <= MaxData /\ ManifestLen <= MaxData
  /\ MaxTime + 2 * (MaxChunks + 2) < Wrap      \* nor does it within the last call

VARIABLES
  puts,         \* history: the calls of psirp_cs_store_chunked
  buf,          \* what the last call put into the caller's buffer
  calls         \* history: the number of calls so far

chunkedVars == <<cs, now, ret, puts, buf, calls>>

----------------------------------------------------------------------------
(* Names and pieces *)

Object(path) == path.base[1]
ManifestName(o) == NameInit(Unversioned(<<o, "chunks">>))
ChunkName(o, i) == NameInit(Unversioned(<<o, "chunk", i>>))

\* Mutation: the part of a chunk at the end is forgotten.
ChunkCountDown(len) == Min({len \div ChunkSize, MaxChunks})

\* The loop stops when the content or the manifest's array ends.
ChunkCount(len) == Min({(len + ChunkSize - 1) \div ChunkSize, MaxChunks})

ChunkLen(len, i) == Min({ChunkSize, len - i * ChunkSize})

Indices(n) == [k \in 1..n |-> k - 1]

Piece(id, i) == [id |-> id, part |-> i]
Manifest(len) == [total_len |-> len, chunk_count |-> ChunkCount(len)]

----------------------------------------------------------------------------
(* psirp_cs_store_chunked *)

\* A call in progress: it goes on while ok.
Progress(ok, store, t) == [ok |-> ok, cs |-> store, now |-> t]

\* One psirp_cs_store inside the call.
StoreIn(s, name, data, len, freshness) ==
  LET r == CsStore(s.cs, name, data, len, freshness, s.now)
  IN  Progress(r.ok, r.cs, s.now + 1)

\* Mutation: a chunk whose name is held already is taken for a duplicate.
StoreMissingChunk(s, o, id, i, len, freshness) ==
  IF EqualSlots(s.cs, ChunkName(o, i)) # {} THEN s
  ELSE StoreIn(s, ChunkName(o, i), Piece(id, i), ChunkLen(len, i), freshness)

StoreChunk(s, o, id, i, len, freshness) ==
  StoreIn(s, ChunkName(o, i), Piece(id, i), ChunkLen(len, i), freshness)

\* The chunks in turn until one is refused, then the manifest.
StoreLarge(s, o, id, len, freshness) ==
  LET chunked == FoldLeft(LAMBDA c, i : IF c.ok THEN StoreChunk(c, o, id, i, len, freshness)
                                        ELSE c,
                          s, Indices(ChunkCount(len)))
  IN  IF chunked.ok
        THEN StoreIn(chunked, ManifestName(o), Manifest(len), ManifestLen, freshness)
        ELSE chunked

\* Content of one chunk is stored under the name itself.  A chunk name behind a
\* version, "/o@v/chunk/0", is not a name: everything up to its end would have to
\* be the version's digits.
StoreChunked(s, path, id, len, freshness) ==
  IF len <= ChunkSize
    THEN StoreIn(s, NameInit(path), Piece(id, 0), len, freshness)
  ELSE IF path.hasVersion
    THEN [s EXCEPT !.ok = FALSE]
  ELSE StoreLarge(s, Object(path), id, len, freshness)

----------------------------------------------------------------------------
(* psirp_cs_lookup_chunked *)

Reading(ok, store, t, data, off) ==
  [ok |-> ok, cs |-> store, now |-> t, data |-> data, off |-> off]

\* One psirp_cs_lookup inside the call; a hit appends the entry's data.
LookupIn(s, name) ==
  LET i == LookupSlot(s.cs, name, s.now)
  IN  Reading(i # 0, Touch(s.cs, i, s.now), s.now + 1,
              IF i = 0 THEN s.data ELSE Append(s.data, s.cs.entries[i].data),
              IF i = 0 THEN s.off ELSE s.off + s.cs.entries[i].data_len)

\* Mutation: the length put together is not compared with the manifest's.
CompleteAnyway(s, m) == s.ok

\* The call succeeds if no chunk was missing and the lengths add up.
Complete(s, m) == s.ok /\ s.off = m.total_len

ReadChunks(s, o, m) ==
  LET got == FoldLeft(LAMBDA c, i : IF c.ok THEN LookupIn(c, ChunkName(o, i)) ELSE c,
                      s, Indices(m.chunk_count))
  IN  [got EXCEPT !.ok = Complete(got, m)]

LookupChunked(store, path, out_cap, t) ==
  LET start  == Reading(FALSE, store, t, <<>>, 0)
      m      == LookupIn(start, ManifestName(Object(path)))
      direct == LookupIn(m, NameInit(path))
  IN  IF path.hasVersion THEN start
      ELSE IF ~m.ok THEN [direct EXCEPT !.ok = @ /\ direct.off <= out_cap]
      ELSE IF m.data[1].total_len > out_cap THEN [m EXCEPT !.ok = FALSE]
      ELSE ReadChunks([m EXCEPT !.data = <<>>, !.off = 0], Object(path), m.data[1])

----------------------------------------------------------------------------
(* The calls *)

Buffer(data, len) == [data |-> data, len |-> len]
Untouched == Buffer(<<>>, 0)

ChunkedInit ==
  /\ \E b \in Budgets : cs = [EmptyStore EXCEPT !.max_bytes = b]
  /\ now = 0
  /\ ret = Reply("init", NoPath, TRUE, 0)
  /\ puts = <<>>
  /\ buf = Untouched
  /\ calls = 0

Call == calls < MaxCalls /\ now < MaxTime /\ calls' = calls + 1

Put(path, len, freshness) ==
  /\ Call
  /\ LET r == StoreChunked(Progress(TRUE, cs, now), path, Len(puts) + 1, len, freshness)
     IN  /\ cs' = r.cs
         /\ now' = r.now
         /\ puts' = Append(puts, [path |-> path, len |-> len, ok |-> r.ok])
         /\ ret' = Reply("put", path, r.ok, 0)
  /\ buf' = Untouched

Get(path, out_cap) ==
  /\ Call
  /\ LET r == LookupChunked(cs, path, out_cap, now)
     IN  /\ cs' = r.cs
         /\ now' = r.now
         /\ ret' = Reply("get", path, r.ok, 0)
         /\ buf' = IF r.ok THEN Buffer(r.data, r.off) ELSE Untouched
  /\ UNCHANGED puts

\* psirp_cs_remove of an object's own name, after which chunks and manifest stay,
\* or psirp_cs_gc.
Other ==
  /\ Call
  /\ (\E p \in Paths : Remove1(p)) \/ Gc
  /\ buf' = Untouched
  /\ UNCHANGED puts

ChunkedNext ==
  \/ \E p \in Paths, n \in Lengths, f \in Lifetimes : Put(p, n, f)
  \/ \E p \in Paths, c \in OutCaps : Get(p, c)
  \/ Other

ChunkedSpec == ChunkedInit /\ [][ChunkedNext]_chunkedVars

----------------------------------------------------------------------------
(* Properties *)

PutOf(P, o) == {k \in DOMAIN P : Object(P[k].path) = o}

\* The calls that tried to store the object in chunks, and those that stored it
\* whole.
LargeTries(P, o) == {k \in PutOf(P, o) : ~P[k].path.hasVersion /\ P[k].len > ChunkSize}
SmallStores(P, o) == {k \in PutOf(P, o) : P[k].ok /\ P[k].len <= ChunkSize}

Read == ret.op = "get" /\ ret.ok

\* The content returned is a beginning of what call k stored.
BeginningOf(k) ==
  /\ Len(buf.data) \in 1..ChunkCount(puts[k].len)
  /\ buf.data = [j \in 1..Len(buf.data) |-> Piece(k, j - 1)]

\* A lookup never mixes two contents, although the chunks of the new one replace
\* those of the old one in place, one by one, under the same names, and may be
\* refused or evicted in between (psirp.c:529-548, 599-607): what it returns is
\* from the last call that stored chunks under the name, or, without a manifest,
\* content stored directly, the latest if no version is in play.
NeverMixed ==
  Read =>
    LET o == Object(ret.path)
    IN  \/ LargeTries(puts, o) # {} /\ BeginningOf(Max(LargeTries(puts, o)))
        \/ \E k \in SmallStores(puts, o) :
             /\ buf.data = <<Piece(k, 0)>>
             /\ (\A j \in SmallStores(puts, o) : ~puts[j].path.hasVersion)
                  => k = Max(SmallStores(puts, o))

\* What a lookup returns is whole unless the store of that content was refused
\* part way (its first chunks are then read through the older manifest,
\* psirp.c:541): content of more chunks than a manifest has, which is cut and
\* reported as stored (psirp.c:529), is not returned cut (psirp.c:610).
WholeUnlessRefused ==
  Read => LET k == buf.data[1].id IN buf.len = puts[k].len \/ ~puts[k].ok

\* Some entry of the object expires before a lookup that starts now is through.
Lapses(o) ==
  \E e \in EntrySet(cs) : e.name.base[1] = o /\ EntryExpired(e, now + MaxChunks + 1)

OverBudget(len) ==
  cs.max_bytes > 0 /\ len + (IF len > ChunkSize THEN ManifestLen ELSE 0) > cs.max_bytes

\* Content just stored can be read back whole, whatever was evicted for it and
\* whatever older chunks its name has.  The exceptions are the code's: content of
\* too many chunks (psirp.c:529), larger than the budget, or expiring at once;
\* and a small content behind the manifest of an older, larger one, which the
\* lookup finds first (psirp.c:585), or behind a version.
StoredIsReadable ==
  ret.op = "put" /\ ret.ok /\ ~ret.path.hasVersion =>
    LET o   == Object(ret.path)
        len == puts[Len(puts)].len
        r   == LookupChunked(cs, ret.path, len, now)
    IN  \/ r.ok /\ r.off = len /\ r.data[1].id = Len(puts)
        \/ len > MaxChunks * ChunkSize
        \/ OverBudget(len)
        \/ Lapses(o)
        \/ /\ len <= ChunkSize
           /\ \/ LookupSlot(cs, ManifestName(o), now) # 0
              \/ \E k \in SmallStores(puts, o) : puts[k].path.hasVersion

----------------------------------------------------------------------------
(* What the table says of the calls, for the calls P and the entries S *)

Of(S, base) == {e \in S : e.name.base = base}

\* The content stored directly is the latest, or of some call if a version is in
\* play.
DirectRight(S, P, o) ==
  \A e \in Of(S, <<o>>) :
    /\ \E k \in SmallStores(P, o) :
         /\ e.data = Piece(k, 0) /\ e.data_len = P[k].len
         /\ (\A j \in SmallStores(P, o) : ~P[j].path.hasVersion)
              => \A j \in SmallStores(P, o) : j <= k
    /\ e.name.hasVersion => \E j \in SmallStores(P, o) : P[j].path.hasVersion

\* The chunks below n, as far as they are held, are those of call k.
ChunksOf(S, P, o, k, n) ==
  \A i \in 0..n-1 : \A e \in Of(S, <<o, "chunk", i>>) :
    e.data = Piece(k, i) /\ e.data_len = ChunkLen(P[k].len, i)

\* The last call that stored chunks got as far as chunk n, which is not there, or
\* it wrote them all and any manifest is its own.
GotTo(S, P, o, k, n) ==
  /\ ChunksOf(S, P, o, k, n)
  /\ \/ /\ n < ChunkCount(P[k].len) /\ ~P[k].ok
        /\ Of(S, <<o, "chunk", n>>) = {}
     \/ /\ n = ChunkCount(P[k].len)
        /\ \A e \in Of(S, <<o, "chunks">>) : e.data = Manifest(P[k].len)

ChunksRight(S, P, o) ==
  \A k \in LargeTries(P, o) :
    (\A j \in LargeTries(P, o) : j <= k)
      => \E n \in 0..ChunkCount(P[k].len) : GotTo(S, P, o, k, n)

ManifestsRight(S, P, o) ==
  \A e \in Of(S, <<o, "chunks">>) : \E k \in LargeTries(P, o) : e.data = Manifest(P[k].len)

ObjectRight(S, P, o) ==
  DirectRight(S, P, o) /\ ChunksRight(S, P, o) /\ ManifestsRight(S, P, o)

\* Names are well-formed and stamps lie in the past; a version-free name is held
\* once.
Sorted(S, t) ==
  /\ \A e \in S :
       /\ e.name.hash = HashText(Unversioned(e.name.base))
       /\ e.timestamp < t /\ e.last_access_ns < t
       /\ e.name.hasVersion => \E p \in Paths : e.name.base = p.base
  /\ \A e, f \in S :
       ~e.name.hasVersion /\ ~f.name.hasVersion /\ e.name.base = f.name.base => e = f

\* Between calls the table is what the calls made of it, although a call of
\* psirp_cs_store_chunked overwrites an object's chunks one after the other and may
\* be refused at any of them (psirp.c:529-548), and eviction, expiry and removal
\* take entries one by one: under the object's name is content stored whole, the
\* latest unless a version is in play; the chunks below the first one that the last
\* chunked store did not write are that store's; and a manifest is of a call that
\* stored chunks, of the last one if that wrote them all.
ContentsRight ==
  Sorted(EntrySet(cs), now) /\ \A p \in Paths : ObjectRight(EntrySet(cs), puts, Object(p))
=============================================================================
