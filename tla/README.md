# TLA+ models of the PSIRP browser

The repository is a small content-centric network stack in C and the programs on
top of it: content is fetched by *name* from whichever node holds it, a node
caches what passes through it, a mesh of peers announces content prefixes in
beacons, a DHT records who holds what, and a browser fetches pages and their
sub-resources through that stack. This directory holds TLA+ models of the stack,
TLC configurations that check them on small instances, and TLAPS proofs of the
central invariants.

    tlc -workers 2 -config ContentStore.cfg MCContentStore     # one run
    tlapm FetchProofs.tla                                      # one proof module

Source references are to files of the repository (`psirp.c:355` is `src/psirp.c`).


## 1. The system

### Components

| component | state | operations | correct when |
|---|---|---|---|
| names (`psirp.c:24-170`) | — | `psirp_name_init`, `_init_components`, `_equal`, `name_base_equal`, `_is_prefix` | equal names compare equal however they were built; a version addresses that version |
| content store (`psirp.c:328-510`) | entry table (4096), `bytes_used`, `max_bytes` | `store`, `lookup`, `remove`, `gc`, `set_budget` | bytes accounted, budget held, LRU order, newest live version answered, expired content dropped |
| chunking (`psirp.c:514-611`) | entries of the store: a manifest and the chunks | `store_chunked`, `lookup_chunked` | what is looked up is one content that was stored, whole |
| wire packets (`psirp.c:172-326`) | — | serialize and deserialize Interest and Data | round trip |
| node FIB (`psirp.c:613-647`) | prefix table (256) | `psirp_fib_add`, `psirp_fib_lookup` | longest matching prefix |
| network node (`net.c`) | peers (64), pending interests (256), store, FIB, sockets | `fetch`, `interest`, `publish`, receiver thread | a fetch returns, with the content if it arrived in time; a retry gets through; content does not outlive its freshness by more than its hops account for |
| mesh tables (`mesh.c:92-245, 339-399`) | peers (32), FIB whose entries hold a peer *index* | add, remove, seen, timeouts, add/remove/prune route, process beacon | a route leads to the peer that announced it |
| mesh threads (`mesh_demo.c`) | the mesh tables, unlocked | receiver thread; maintenance in the main loop | a live peer is kept |
| mesh forwarding (`mesh.c:213-230, 400-495`) | dedup cache (256) | `mesh_fib_lookup`, `mesh_forward_interest` | a node does not send the same interest (nonce) on twice |
| DHT (`dht.c`) | peers (512), records hash → holders (8) | `add_peer`, `closest_peers`, `announce`, `put_record`, `lookup` | the k closest peers; holders found, true and kept |
| publish/subscribe (`pubsub.c`) | topics and highest versions | `publish`, `subscribe`, `poll` | versions only grow; what is published is findable |
| page pipeline (`dso_psirp.c`) | items (64), the page, the parsed resources, a task graph | `fetch_page` and its tasks | items belong to the page shown, and none is forgotten |
| HTML parser (`html_parse.c`) | result arrays | `html_parse`, `html_resolve_url` | the page's resources in order, their URLs resolved against the page |
| compute, signing (`compute.c`, `signing.c`) | — | packet formats, wrappers of a library | round trip |
| programs (`publisher.cpp`, `client.cpp`, `browser.cpp`, `terminal_browser.c`) | UI | start-up, loops | — |

### Interactions

* The **network node** owns a content store. Its receiver thread
  (`net.c:139-245`) answers Interests from the store or sends Interests of its own
  along the FIB, and stores every Data packet; the application's threads call
  `psirp_net_fetch`, which looks in the store, sends Interests to the known peers
  and polls store and pending table every 100 µs. There is no lock between them.
* The **mesh** adds a second receiver thread (`mesh_demo.c:50-68`) that feeds
  beacons to `mesh_process_beacon`, while the main thread runs timeouts and
  pruning after each line of user input. Again no lock.
* **Mesh forwarding** answers an Interest from the local store (and then announces
  itself in the **DHT**), or looks for a route in the mesh FIB; without one it sends
  an Interest to each holder the DHT knows. Then it calls `psirp_net_fetch`, which
  asks the node's own peers: the route's peer only decides whether it is called.
* **Publish/subscribe** keeps the newest version of each topic, and announces the
  publishing node in the DHT as a holder of the topic's name; a poll reads the topic
  table. No program attaches a DHT yet; tests do.
* The **page pipeline** builds a task graph that an external scheduler runs; its
  tasks call `psirp_net_fetch` and append to one table of items.
* The **publisher** runs `psirp_cs_gc` in its main loop next to the node's receiver
  thread (`publisher.cpp:185-192`).

### What is hard

* *Two threads without locks.* Clock readings taken before another thread's
  update and used after it (mesh timeouts, gc); indices held over a removal; a
  counter incremented by two threads; an interest sent before it is tracked.
* *References by position.* The mesh FIB names peers by index, the store deletes
  by moving the last entry into the hole: each removal renumbers something.
* *Tables at their limit.* Several have a capacity test in front of the
  duplicate test, or are never reclaimed (pending interests, dedup cache, DHT
  peers, items of a page), and the caller is not told.
* *Lossy, duplicating, reordering network.* UDP, and Data pushed unasked; copies
  of DHT records merged late and repeatedly.
* *One content in many entries.* A chunked object is overwritten, evicted, expired
  and refused chunk by chunk.
* *State left over.* A page load finds the items, the page and the parse result of
  the load before it.
* *Names that are equal in one function and not in another.*

The full list, with lines, is under `hazards` in `PROJECT.json`, each with the
properties that cover it or the reason none does.


## 2. The modules

| module | models | checked by | proved in |
|---|---|---|---|
| `CsOps` | names and the content store's operations as operators on a store record | through `ContentStore` | `ContentStoreProofs` |
| `ContentStore` | the store driven by one thread | `MCContentStore`: 2 cfgs | `ContentStoreProofs` |
| `CacheSpec` | abstract specification of the store: a set of items and a budget | as `RefinesCache` in `ContentStore.cfg` | `CacheProofs` |
| `Chunking` | large content in the store, on `ContentStore` | `MCChunking` | `ContentStoreProofs` |
| `Compaction` | keeping a subset of a sequence: renumbering by rank | through `MeshTable`, `Discovery`, `Pipeline` | `TableLemmas` |
| `MeshTable` | the mesh's peer table, FIB and beacon processing | `MCMeshTable`: 2 cfgs | `MeshProofs` |
| `MeshDemo` | the two threads of `mesh_demo.c` on `MeshTable` | `MCMeshDemo` | |
| `FetchNode` | `psirp_net_fetch` against the receiver thread of one node | `FetchNode`: 2 cfgs | `FetchProofs` |
| `Prefixes` | the prefix test and the longest match | through `Network`, `Discovery` | |
| `Network` | several nodes: publish, fetch, answer, forward | `MCNetwork` | `NetworkProofs` |
| `Discovery` | DHT, publish/subscribe and mesh forwarding of several nodes | `MCDiscovery` | `DiscoveryProofs` |
| `HtmlParse` | the HTML parser and URL resolution | through `Pipeline` | `PipelineProofs` |
| `Pipeline` | page loads, on `HtmlParse` | `MCPipeline`: 2 cfgs | `PipelineProofs` |

Definitions carry the name of the C function they stand for where TLA+ allows;
`map` in `PROJECT.json` gives the lines of each. Operators marked "Mutation" are
plausible bugs, defined beside the definition they change; they are used only to
show that each property can fail.

### Content store: `CsOps`, `ContentStore`, `CacheSpec`

One action per public call; `CsOps` holds the table, slot order, swap-removal and
the separate `+=`/`-=` on `bytes_used` exactly as the code does them, so that an
accounting error or a scan that misses a slot is visible. `CacheSpec` forgets all
of that: a set of items, a non-deterministic choice where the code's choice
depends on slots, and eviction described by its result (`Trimmed`: the longest run
of most recently used items that fits the budget). `Cache!Spec` is checked as a
property of `ContentStore` under the mapping `held <- {AsItem(e) : ...}`; the reply
of every call is part of the mapping, so a wrong answer breaks it as well as a
wrong table.

Abstractions: FNV-1a has no collisions (a hash is the text it is taken over); a
payload is the name it was published under plus a length; `malloc` succeeds;
callers write canonical paths (a trailing or doubled slash changes the hash,
`psirp.c:102-107`); the clock moves on between two calls.

### Large content: `Chunking`

`Chunking` extends `ContentStore` with the calls `psirp_cs_store_chunked` (`Put`) and
`psirp_cs_lookup_chunked` (`Get`), folds over the chunk indices whose turns are
`CsStore` and `LookupSlot` of `CsOps`, each reading the clock anew: eviction, refusal
and expiry happen *between* the chunks of one call. Between the calls, `Other` is the
store's own `psirp_cs_remove` of an object's name, or `psirp_cs_gc`. Variables besides
those of the store: `buf`, what a lookup put into the caller's buffer, and the
histories `puts` (the stores, with their length and answer) and `calls` (their number,
a bound). Chunk content is the pair (call that stored it, index), so a mixture of two
contents is visible; single-entry content comes from `Put` with a small length. An
object's name has one component, which the names derived from it extend.

### Mesh: `Compaction`, `MeshTable`, `MeshDemo`

`MeshTable` is the single-threaded API. `mesh_process_beacon` is split: one step
for the peer, one per prefix; in `MeshTable` no other call starts in between, in
`MeshDemo` the main thread's calls may. The index loops of `mesh_remove_peer` and
`mesh_check_timeouts` become one `Compact` (keep these positions, renumber by
rank): a loop of shift-and-decrement removals has that result, and the check
`RouteLeadsToAnnouncer` would see it if it had not. A route carries a history
field `via`, the peer name it was added for; `AddFib`'s guard keeps to indices that
exist, as the code's test (`mesh.c:179`) does.

`MeshDemo` takes a call as a step. The accesses inside a call race too, but what
the run shows happens with atomic calls already.

### One node: `FetchNode`

The calling thread's program counter follows `net.c:382-428`, the receiver's
`net.c:148-221`. Taking a pending slot is five steps, as both threads do it without a
lock: the bound test (`CheckRoom`, `net.c:297`), the read and the write of
`pending_count++` (`LoadCount`, `BumpCount`, `net.c:298`; the count is `volatile`, so
the test and the increment each read it), the `memset` (`ZeroSlot`) and the rest of
the slot, whose `active` comes last (`FillSlot`). The other thread may take any steps
in between. So both may pass the test with one place left, and the second then takes
slot 256, which is not in the table.

What a write to that slot does follows from the layout of `psirp_node`
(`net.h:57-58`): the first bytes behind the table are `pending_count` itself, so the
`memset` clears the count, and the name's first field then makes an address of it.
The model goes on with that: `pending_count` is 0 and then `Past`, which stands for
257 and every larger number, and a scan that runs past the table may or may not see
an active slot of its name (`Behind`). What lies behind the count (the peers) is not
followed, and that the process survives reading and writing there is assumed.
`overrun` records that it happened, `crossed` that a thread wrote back a count the
other had changed.

The network is an environment: any Data or Interest may arrive at any time, or never,
so loss, duplication, delay and reordering need no state. There is one fetching
thread; the peer table does not change during the run; the FIB is the set of names
with a next hop; names have no version; the content store is the slots in use and
the ticks of freshness left, never collected (the clients of `psirp_net_fetch`
never call `psirp_cs_gc`).

### Several nodes: `Prefixes`, `Network`

`Network` follows one name through any number of nodes: publishing to peers,
fetching, answering from the store, and the forwarding of an Interest as a *new*
one along the longest matching prefix. Nothing sends Data back further than to the
node that asked. Packets may be lost, repeated and delayed (Data for at most
`MaxTransit` ticks, which keeps ages finite). A copy records the ticks since it was
stored (all the code knows) and, as history, its true age and its hops. How one
fetch waits is `FetchNode`'s matter; here it sends Interests and may be called
again.

### Finding content: `Discovery`

Each node has a DHT table of records, a DHT peer table, topics, and the dedup cache
of mesh forwarding; one action per call of `dht.c` and `pubsub.c`, and three for the
exits of `mesh_forward_interest` (local hit, seen before, sent on). What
`psirp_net_fetch` does inside the last is a choice: the content arrives from a node
that was asked and holds it, or not. Copies of records travel between nodes and
stay in `sent` for ever, so they are merged in any order, late and repeatedly.
The distance of a name and a peer is a constant function (the exclusive or of hash
and id in the instance); an address stands for the id derived from it.
`dht_closest_peers` is the code's selection sort of all live peers, turn by turn, cut
off at the number wanted. Every peer is live, as nothing in the code marks one dead.
A forwarded interest is identified by its nonce. Each hop sends it under a new one
(`net.c:265`, `mesh_demo.c:86`), so the dedup cache keeps a node from sending *one*
interest on twice; it does not detect a loop through other nodes, and `ForwardedOnce`
does not say that it does.

### Pages: `HtmlParse`, `Pipeline`

A document is the sequence of tags the scanner meets; `ParseTag` is one turn of
`html_parse`'s loop over the state (resources so far, inside a style element).
`Resolve` is `html_resolve_url` with its three forms of URL and its two forms of
base. `Expected` is the reference the parser is checked against: positions of the
tags that count, those hidden by a style element taken out, cut at the size of the
table. `Pipeline` has the task graph with its dependencies and one action per
task; the scheduler runs ready tasks in any order. Nothing is emptied between
loads, as in the code.


## 3. The runs

| run | distinct states | shows |
|---|---|---|
| `content_store` | 134 k | two bases, one of them with a version, a capacity of 3, a budget, a zero and an oversized length: in five calls bytes stay accounted, plain names unique and the entries' hashes and stamps sound, gc leaves nothing expired, a store drops the new object only with everything else, and every call is a step of `CacheSpec` |
| `chunking` | 460 k | four calls on two objects, content of one to four chunks where a manifest has three, a store of four slots with and without a budget: every entry is one the calls account for (`ContentsRight`), lookups never mix contents, return whole content unless its store was refused, and what was just stored is readable but for the named limits |
| `mesh_table` | 590 k | two peers with and without the leading slash, three peer slots, two routes, timeouts and beacons of up to three prefixes: routes lead to their announcers, stay unique, and go only with their peer, by their own removal, or after their lifetime |
| `fetch_node` | 1.01 M | two fetches of two names, one routed, a one-slot store and three pending slots: every fetch returns, and returns early without content only for the reasons named |
| `network` | 92 k | a client, a relay and a publisher whose routes allow a round trip: a client that keeps asking is answered, and content is used no longer than its hops account for |
| `discovery` | 260 k | six calls at three nodes, with records, holder lists, topics and dedup cache of one or two places: records stay sound and true and lose no holder, what is published is findable, polls tell the newest version, an interest with one nonce goes out once while the dedup cache has room, the k closest peers are the k closest |
| `pipeline` | 1.18 M | two loads of three pages, with every document of up to three tags, every order of tasks, every fetch that may fail and a table of five items: what is parsed, fetched and shown belongs to the page, and nothing is forgotten, but for the reasons named |
| `cs_version_lookup` | violated | a stored version is not found under its versioned name |
| `mesh_duplicate_peer` | violated | a peer added by a call of the API is in the table twice after one beacon of its own |
| `mesh_demo_timeout` | violated | a peer heard a moment ago is removed as timed out |
| `pipeline_names` | violated | on one page, `i.png` becomes `si.png` and `http://cdn/x.js` becomes `/x.js`; `html_parse.h` gives `/site/i.png` and `/cdn/x.js` |
| `fetch_overrun` | violated | both threads pass the bound test of the pending table with one place left, and the second writes behind it |

**Why the bounds are enough.** *Store*: a duplicate, a version and another base need
three paths; swap-removal has its interesting cases with two or three entries
(remove the first, the last, two in one gc). `Wrap` is 1000 because 2^64 only has to
be larger than any time: an age that wraps is then larger than every limit.
*Chunking*: two chunks of the new content over three of the old, a chunk refused
because the slots are gone, a cut and an uncut object all fit four calls (`MaxCalls`;
`MaxTime` keeps the clock below `Wrap`); sizes are one chunk, a multiple, one between
multiples, and more than a manifest describes. *Mesh*: three peer slots show a removal in the middle and
two at once; `MaxFib = 2` makes the FIB full while a peer is removed. *Fetch*:
`NumPeers = 1` and `MaxPending = 3` let the caller and the receiver cross on the
counter, fill the table and leave it within two fetches; `Freshness = Timeout = 2` lets content
expire during a wait. *Network*: three nodes are the least with a forwarding one;
`MaxPackets = 1` per link, with the choice of what gives way, still delivers old
content after new; `MaxHops = 3` covers a round trip. *Discovery*: the tables have one
place where being full matters and two where order does; six calls suffice to announce
at one node, carry the record to another and back, and forward. With `MaxHolders = 2`
no publisher meets a full holder list in six calls: that exception of
`PublishedIsFindable` is covered by the theorem only. *Pipeline*: a style
element needs three tags to hide something, and five items are full in the second
load.

**Symmetry** is used where identities are interchangeable and no liveness is
checked: peers in `mesh_table` and `mesh_duplicate_peer`, objects in `chunking`.

**Deadlock** is checked except where a bound ends behaviours: the clock of
`ContentStore`, the calls of `Chunking` and `Discovery`, the loads of
`Pipeline`. In `FetchNode` and `Network` a packet or the clock can always move, so
TLC's deadlock check alone says little; `FetchReturns` and `RetryReaches` are the
statements that count.

**Fairness.**

* `FetchNode!FairSpec`: weak fairness of the calling thread, which the operating
  system schedules, and of the clock. The receiver and the network owe nothing: no
  answer need come. The proof obligation of the code is that its wait is bounded by
  the deadline alone, and `FetchReturns` checks that.
* `Network!FairSpec`: a client calls fetch again and again (weak fairness: `Fetch` is
  always possible), time passes (weak), and each node's receiver thread runs while not
  everything sent to it is lost: strong fairness for handling some Interest, and for
  taking some Data, *per node*. Nothing is promised of a particular packet, link or
  order. `RetryReaches` asks nothing of Data beyond the first hop, which the code does
  not deliver; it holds because each retry is forwarded one hop further.

**`EarlyNullExplained`** deserves a word. A fetch that returns NULL before its
deadline looked like a race bug (the receiver stores content and clears the
interest between the caller's lookup and its scan); the last lookup at
`net.c:427` closes it. What is left are five causes, which the property
lists: a thread wrote back a count the other had changed (`crossed`); a slot behind
the table was written (`overrun`), after which the count means nothing; the table is
full, or the count stands past it; the store refused the content, or let it expire
(`lapsed`).


## 4. What is proved

With TLAPS, for all values of the constants that satisfy the named assumptions
(`CacheAssumption`, `CsOpsAssumption`, `ContentStoreAssumption`, `ChunkingAssumption`,
`MeshAssumption`, `FetchAssumption`, `NetworkAssumption`, `DiscoveryAssumption`, `HtmlAssumption`,
`PipelineAssumption`: sizes are naturals, positive where the code needs it, name sets
finite where a table's size is counted, an unversioned path has version 0, the clock
stays below 2^64 ns, a document is a sequence).

* `CacheProofs!CacheSafe`: `Spec => []CacheInv` for constants that satisfy
  `CacheAssumption`, a hypothesis of the theorem. `CacheInv` conjoins types, capacity,
  distinct last-use times and uniqueness of unversioned names. It is inductive as
  it stands; the two parts that need each other are types and recency: every time in
  an item is *before* the clock, so a touched item gets a time no other has. Each
  action either shrinks the set (`ShrinkKeepsInv`), swaps one item for another of
  the same path (`SwapKeepsInv`) or inserts one (`InsertKeepsInv`).
* `MeshProofs!MeshTablesSafe`: `Spec => []MeshInv`. `RouteLeadsToAnnouncer` is not
  inductive alone: while a beacon is being processed its peer index is kept
  outside the tables, so `BeaconSound` joins it; and `RoutesUnique` survives a removal
  only because renumbering is injective on the indices that remain
  (`TableLemmas!RankInjective`), which in turn needs every index in range.
  `DropPeersFacts` states once what removal leaves, and one lemma per operation
  does the step. Consequences: `RoutesLeadToAnnouncer`, `RoutesStayUnique`,
  `MeshTypesHold`, and the action property `OthersKeepTheirRoutes`, in two halves: a step
  that shortens the peer table (`RemovalStep`) keeps every route but those of a peer
  that goes, counted by copies of its record; any other step (`OrdinaryStep`) keeps
  every route but the one removed and those pruned after their lifetime.
* `ContentStoreProofs!StoreSafe`: `Spec => []StoreInv`. The proof sees the table as
  the set of its entries. That is exact because no two entries have the same
  `last_access_ns`, the part of `EntriesSound` the others need: a swap-remove then takes
  one entry out of the set whatever slots move (`DropEntryTable`), and `bytes_used` is
  the sum over the set. The loops of eviction and gc are taken round by round
  (`EnforceBudgetRounds`, `DropExpiredRounds`): eviction leaves the most recently used
  part (`EnforceBudgetEvicts`), the downward pass leaves exactly the unexpired entries
  although it moves entries over the ones it has still to see (`DropExpiredDrops`).
  One lemma per operation says what it does to the set. Consequences:
  `StoreTypesHold`, `BytesStayAccounted`, `PlainNamesStayUnique`, `EntriesStaySound`,
  and the action properties `GcLeaves` and `StoreKeepsNewest`: the entry just stored has
  the latest last use, so each round of eviction takes another while there is one
  (`StoreLeavesNew`).
* `ContentStoreProofs!StoreRefinesCache`: `Spec => RefinesCache`. The initial states
  correspond, and each call is the abstract call of the same name or a stutter
  (`StoreRefines`, `LookupRefines`, `RemoveRefines`, `GcRefines`); the work is in
  `EvictedTrims`, that what the eviction loop leaves is `CacheSpec!Trimmed`.
* `TableLemmas` is what the proofs about tables rest on. *Induction*: the library's
  induction theorems take a predicate as a parameter, which the installed provers cannot
  instantiate; here a set stands for the predicate (`NumberInduction`: a set of numbers
  that holds 0 and every successor of a member is `Nat`; `SmallerSetInduction` for finite
  sets). *Sums* over finite sets do not depend on the order. *Compaction*: the rank of
  an element in a finite set of positions is a bijection onto `1..n`, increasing, with
  inverse `Origin`.
* `FetchProofs!FetchSafe`: `Spec => []FetchInv`, in three layers. `FetchTypes`: the
  types, with what the threads' registers hold at each program counter. It says nothing
  of where a slot lies: a thread past the test may read any count. `SlotsApart`: while
  no count was overwritten (`crossed`) and no slot behind the table written
  (`overrun`), a slot of the table that is about to be written is below the count, and
  the two threads' slots differ. `Accounted`: a caller that has sent an interest holds
  the content, or has an active slot that the receiver is not about to overwrite, or
  has one of the excuses; it can leave the wait only by losing that slot to
  `ClearPending`, which follows the store of the content. Consequences:
  `FetchTypesHold` and `EarlyNullsExplained`. A full table stays an excuse only because
  a thread that brings the count down again has crossed the other or written behind
  the table (`ExcuseStays`).
* `FetchProofs!OneTakerStaysInTable`: with no route for the receiver to forward along,
  the caller alone takes slots and `SlotsInTable` holds for tables of any size. The
  violation in `fetch_overrun` is thus the second thread's doing, not an off-by-one.
* `NetworkProofs!NetworkSafe`: every copy is at most `Span(hops)` plus its time in the
  store old, and Data on its way at most `Span(hops)` less the transit it has left:
  the two bounds need each other, as a copy's age comes from Data and the Data's from
  a copy. `AgesAreBounded` follows.
* `DiscoveryProofs`: `RecordsSafe` takes `RecordsSound`, `HoldersAnnounced` and
  `PublishedIsFindable` together, for the tables of all nodes and the copies on their
  way: a merge keeps a list sound because it was, true because the copy is, and a
  publisher findable because a holder once listed stays and a full table stays full
  (`PutKeeps`). Consequences: `RecordsStaySound`, `HoldersAreTrue`,
  `PublishersFindable` and the action property `HoldersStay`. `TopicsStayTruthful`,
  `PeersStayForGood` (every peer is alive, so none is evicted) and `SentTwiceOnlyWhenFull`
  (what was sent on is in the cache, or the cache is full) have invariants of their own.

  `NearestPeersFound` (`Spec => []ClosestIsNearest`) goes through the turns of the
  selection sort: after each, the places filled hold the nearest so far, and all places
  together are a rearrangement of the live peers.
* `PipelineProofs!ParseIsExpected`: for every base, document and table size, one scan
  lists what the reference `Expected` says. After each tag, the resources so far are the
  first `Rank` positions of `Listed`, and the scanner is in a style element exactly when
  the reference says the next position is hidden.
* `PipelineProofs`: `PipelineInv` adds to the checked invariants `Context` (the types of
  the items and resources), `Order` (the tasks done are closed under the graph's
  dependencies) and `Progress` (each finished task of this load has left its
  resources, unless the table was full). `StalePageExplained` and `PageComplete` speak of
  finished loads only and are not inductive: `Progress` says the same task by task.
  Consequences: `PipelineTyped`, `ParsedRight`, `ItemsAreOfTheirPage`, `PagesComplete`,
  `StalePagesExplained`, in every order the scheduler may take.

* `ContentStoreProofs!ContentsStayRight`: `ChunkedSpec => []ContentsRight`. The checked
  properties of `Chunking` speak of a call just made and are not inductive.
  `ContentsRight` says what every entry of an object has to do with the calls so far, by
  name: of the last chunked store there is an `n` such that the chunks below `n` that
  are held are its own, and either chunk `n` is missing, or it wrote them all and any
  manifest is its own; a lookup that needs chunk `n` fails there, whatever older chunks
  lie behind. `ChunkedInv` adds the types of the table and of `puts`. The argument goes
  up the calls: `StoreStep` says what one `psirp_cs_store` does to entries of its own
  name (`Stored`) and to those of others, and which it evicts (`Spared`); `StoreRounds`
  and `ReadRounds` take a call's fold round by round, by induction over the chunks;
  `LargeIsStored` and `LookupGets` are what the rounds of a store and of a lookup add up
  to. `SmallPutRight` and `LargePutRight` then re-establish the invariant (`PutStep`),
  `GetStep` and `ShrinkStep` keep it through the calls that write no content.
  Consequences, by `ReadRight` and the lemmas `...Readable`: `ContentNeverMixed`,
  `ReadsAreWhole` and
  `StoredCanBeRead`, for any number of chunks, objects and calls. Assumed
  (`ChunkingAssumption`): a chunk and a manifest are no longer than the store takes, and
  the clock does not wrap within the last call.

Only model-checked: liveness (`FetchReturns`, `RetryReaches`), which is outside what
TLAPS proves here. The `violation` runs are counterexamples and have nothing to prove.


## 5. Where code and documentation disagree

With a run: see `findings` in `PROJECT.json` and the five violated runs above.
Without one:

Content store and chunks

* `psirp.h` documents `psirp_cs_store` as "false if full or duplicate"; a duplicate
  is updated in place and returns true (`psirp.c:363-377`).
* `psirp.h:164`: "When total bytes exceed max_bytes, least-recently-used entries are
  evicted". An update in place evicts nothing (`psirp.c:376`), nor does
  `psirp_cs_set_budget`: the budget is enforced by the next store of a new name, or gc.
* An object larger than the budget evicts everything, itself included, and the
  store returns true (`psirp.c:408-424`); `CacheSpec!Trimmed` allows exactly that.
* An unversioned store overwrites the first entry with its components, whatever
  version it has, and keeps that version as its label (`psirp.c:363-377`), although
  "each version is content-addressable" (`README.md:204`).
* Large content under a versioned name stores and finds nothing: the name of a chunk,
  `/x@3/chunk/0`, does not parse. "Dedup by hash" (`README.md:210`) does not happen:
  chunks are named by index.

Network

* A node without peers multicasts its Interest (`net.c:399`), and receivers take only
  PUBLISH packets from that socket (`net.c:230`), which nobody sends.
  `psirp_net_add_peer` would swap the bytes of the port a second time (`net.c:232, 337`).
* "Data follows reverse path" (`mesh.h:8`): an Interest is sent on as a new one and its
  origin forgotten; the answer stops one hop short of the asker.
* Freshness starts again at each hop (`psirp.c:374`); the packet's timestamp is not
  read.
* The pending table's slots are never reused; once it is full a fetch gives up at its
  first look (`net.c:297, 420`), after one more lookup.

Mesh, DHT, publish/subscribe

* `mesh_add_peer` and `mesh_add_fib` test capacity before they look for the entry
  (`mesh.c:93, 180`), so a known peer or route is not refreshed in a full table.
* The dedup cache is there to "prevent loops" (`mesh.c:416`, `mesh.h:229`); the interests
  that forwarding sends carry a nonce of their own, so a loop through other nodes is not
  recognised, whether the cache has room or not.
* `mesh_fib_lookup` is documented to return a peer index and returns a FIB index.
* `MESH_PEER_DEAD` is never assigned; peers that time out are removed. Likewise the
  DHT never marks a peer dead, so it never evicts one (`dht.c:57-68`).
* A route whose peer is not connected ends forwarding with NULL: the DHT is consulted
  only without a route. The route's peer itself is never asked: `psirp_net_fetch` asks
  the node's own peers.
* `pubsub_poll` is documented to report a version newer than last seen (`pubsub.h:62`);
  it reports any version it knows. The DHT's record is under the hash of the base name,
  which a lookup of the versioned name does not use.
* `mesh_process_beacon` is called by `mesh_demo.c` only; the other programs never learn
  routes.

Pages

* `dso_psirp_fetch_page` ignores `timeout_ms`; nothing is reset between loads; `get_css`
  and `get_image` count from the oldest items of the context. No program calls the
  pipeline.
* `<base href>` is recorded and not used. Comments and the text of scripts are scanned
  for tags.


## 6. Not modelled, and the plan

* *Sockets and start-up of `net.c`*, the byte layout of packets and the byte-level
  parsing of names: input and output without shared state. Only what a packet carries
  and what it loses is modelled.
* *Compute and signing*: stateless packet formats and wrappers of a library.
* *Programs*: user interface. Their calls into the stack are those the other modules
  take, except the next item.
* *The publisher's gc next to its receiver thread* (`publisher.cpp:185-192`): the two
  race inside the entry table, below the grain of the store's calls. The clock part of
  that race (`psirp.c:351, 482`) has the shape `MeshDemo` shows for the mesh.
* *Memory lifetimes*: pointers into the entry table returned by lookup and fetch.
* *HTML*: title, `<base>`, `html_guess_type`, comments; a document's inline CSS is
  assumed to fit its buffer.
* *The scheduler* is a library outside the repository: assumed to run one ready task
  at a time and to accept the constant graph.

`PROJECT.json` gives the status of each component. What would come next: the publisher's
two threads with the loops of gc and store taken turn by turn; `FetchNode` with several
callers, as the pipeline would have with a parallel scheduler; and a second half of
`MeshDemo` with the prefixes of a beacon under a removal (`mesh.c:358`).
