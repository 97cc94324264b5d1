# A TLA+ model of sim_replay

`sim_replay` replays a block trace through a simulated storage stack: a page
(sector) cache, deduplication metadata, a content cache and a simulated disk.
It measures what deduplication saves, so its results are only as good as the
agreement of these parts: a stale entry in one of them does not crash anything,
it answers a read with a wrong content or counts it in a wrong column.

This directory holds TLA+ modules for the parts that carry that logic, TLC
configurations for small instances, and proofs, checked by TLAPS, for all
instances. The build that is modelled is the one of the Makefile:
`SYNCIO`, `SIM_REPLAY`, `SIMULATED_DISK`, `SIMREPLAY_DEBUG_SS`,
`IOMETADATAUPDATE_UPON_WRITES`, `NONSPANNING_PROVIDE` on; `ASYNCIO`,
`CONTENTDEDUP`, `INCONSISTENT_TRACES`, `METADATAUPDATE_UPON_WRITES` and
`STRICT_NO_HASH_COLLISION` off. `IoReplay` also models the build without
`IOMETADATAUPDATE_UPON_WRITES`, in which a written block stays dirty until it is
next read from the disk. `AsyncReplay` models the code that `ASYNCIO` would
compile: the Makefile does not set it, and as it stands that build does not
compile (`add_input_file` uses a field that its `thr_info` lacks).

## 1. Inventory

| component | state | operations | interacts with | what makes it correct |
|---|---|---|---|---|
| ARC content cache (`ARC-cache`, `content-cache`) | four lists of objects, target `p`, hash table; content and block number of an object | lookup, add, balance, destroy | called by the IODEDUP read and write paths | lists disjoint and bounded, contents only in resident objects, eviction by recency, block number stable while resident |
| LRU sector cache (`LRU-cache`, `sector-cache`) | a hash table whose iteration order is recency | find, add with pruning, free | first and last station of a read, first of a write | one entry per block, last content, the most recent blocks |
| IODEDUP metadata (`iodedup`) | `p2dmaps` (block to identifier, dirty flag), `dedupmap_by_did` (identifier to element), `deduptab` (key to element), list of reusable identifiers, `dedupNum` | trim, lookup, update | read at a lookup, invalidated before a write, updated after the disk | the tables agree; identifiers neither lost nor duplicated; a valid mapping names the content of the disk |
| IODEDUP replay loop (`sim-replay-generic.c`, `runtime-fixed`) | the request in progress, the flags of `preq_spec` and the globals set by one call and read by a later one (`cmaphit_flag`, `ccache_already_had_flag`) | one block of a read or a write; end of the warm-up | calls all of the above in a fixed order | a read returns what was written last, whatever was cached, evicted or deduplicated |
| Counters (`main_sim_replay.c` and many others) | some thirty global counters | incremented along the path of a request | asserted on at exit | they add up |
| Simulated disk (`simdisk-runtime`, `blkID-hashtab`, `content-simfile.c`) | hash table of block keys, content file | write, read with consistency check | trace conversion, writes, content fetch | one content per block; every key is found; no two blocks share a file place |
| Replay threads (`generic-replay`) | condition variables, iteration and completion counts, lists of input files | start, iterate, finish, reclaim | main thread, replay thread, warm-up thread | no lost wake-up, warm-up and replay apart, whole iterations, everything ends |
| Asynchronous replay (`asyncio`, `ASYNCIO` only) | free and used iocb lists, `send_done`, `send_wait`, `reap_wait` | submit, reclaim | two threads per input | control blocks neither lost nor given out twice, both threads end |
| CONFIDED metadata (`confided`) | volume/block to fixed identifier, identifier to blocks with one marked `dedupfetch`, hash table, reusable identifiers | as IODEDUP, with redirection to a leader block | read path before the sector cache | as IODEDUP; one leader per element; a redirected read gets the same content |
| PROVIDED metadata (`provided`) | block to the list of its chunks, chunk to the places that hold it with one marked, hash table | read map, stitching, chunk invalidation, re-chunking | as CONFIDED | as CONFIDED, for every chunk of a block; the pieces of a block put it together |
| Volumes and physical map (`controller-utils`, `standard`) | numbers of names, base and capacity of each volume | read a mapping file, number a name, grow, look up | all modes | two volumes share a physical block only if that was reported |
| Standard replay (`standard`, `sim-replay-generic.c`) | the record and the bunch in progress | convert a record, one block of a read or a write | volumes, simulated disk, sector cache | a read returns what was written last |
| Chunk boundary detection (`provided/rabin.c`, `chunking.c`) | window, fingerprint, leftover, static offset of the next chunk | split a block | `provided` | a cut depends on the content alone; the loop ends |
| Duplicate counters (`contentdedup`, `CONTENTDEDUP` only) | reference count per content for cache and disk | insert, delete, overwrite | caches, disk | count is the number of copies |
| Containers (`utils`) | hash table, singly linked list, sparse vectors | insert, search, remove | everything | the abstract data type |
| Trace input (`pddparse`, `vmbunchio`, `apriori-*`) | file offset, record in progress, what a pass keeps of the record before; bunch in progress and counts | read a record, scan, warm up, replay; write and read bunches | main, scan and replay threads | whole records, once, in order; scan and replay number blocks alike; bunches are the trace |
| Main program (`main_sim_replay.c`, `replay-plugins.c`) | options, tables and files that exist, stage of main | parse options, create, scan, start, join, release, exit | everything | nothing used before it exists; caches fit the memory; a file is read in its own format |
| Disk scans, content generation | - | - | - | raw devices, pure computation: not modelled |
| Java GUI, rabin tool, openssl, indexes | - | - | - | vendored or generated, not part of the program |

The hard behaviours of this code are:

* **Order.** A request goes through five parts; each reads what an earlier one
  wrote and leaves flags for a later one. The write path changes the sector
  cache, then invalidates the mapping, then changes the content cache, then the
  disk, then the metadata: in between, the parts disagree.
* **Staleness.** A dirty block keeps its old identifier; an object's ghost comes
  back under another block number; the leader of a key is kept in two places;
  a read that is redirected fetches another block, which may since be written.
* **Recycling.** Identifiers are freed by one list operation and reused by
  another.
* **Bounds.** Caches at their capacity, the ARC target, 32-bit sizes.
* **Partial input.** Traces and files of bunches may end anywhere, `read` may return
  less than asked for, and the callers take an error for TRUE.
* **Threads.** In the synchronous build a worker is always joined at once; the
  main and the replay thread synchronise by condition variables, and a signal
  may end a replay at any point. The asynchronous build has two threads per
  input that share one condition variable, and a device that completes packets
  in any order, also before they have been counted.

`PROJECT.json` lists the hazards line by line, with the properties that cover them.

## 2. Plan

Written, in this order:

1. `Store`, `ArcCache`, `LruCache`: the caches and the one promise the rest needs.
2. `ContentMap`, `Iodedup`: the metadata and what they promise.
3. `BlockDevice`, `IoReplay`: the composition and the device it implements.
4. `IoReplayStats`: the counters over the composition.
5. `CondVars`, `ReplayThreads`: main, warm-up and replay thread.
6. `AsyncReplay`: sender, reclaimer and device, over `CondVars`.
7. `Confided`, `ConfidedReplay`: fixed-size deduplication with redirection to a
   leader; `BlockDevice` again.
8. `Provided`, `ProvidedReplay`: chunks of blocks, redirection piece by piece and
   stitching; `BlockDevice` again.
9. `HashTab`, `DedupTables`: the chained hash table, and the metadata of `Iodedup` on
   the program's own containers.
10. `SimDisk`, `Volumes`, `StandardReplay`: the replay without deduplication, down to
    hash keys, file places and physical blocks; `BlockDevice` again.
11. `Chunking`: the rolling fingerprint and the loop that splits a block.
12. `Startup`, `TraceInput`, `Bunching`: the program from its command line to its
    exit, and what it reads.
13. The proofs, a module for each group of components: `IodedupProofs` (2, 3, 4 and the
    containers of 9), `ConfidedProofs` (7), `ProvidedProofs` (8), `HashTabProofs` (9),
    `StandardProofs` (10 with the sector cache of 1, and the threads of 5 and 6),
    `ContentProofs` (what becomes of a content: the content cache of 1, and 11),
    `ProgramProofs` (12), and `SequenceFacts`, the lemmas on sequences, finite sets and
    least elements that they share.

Which module rests on which: `IoReplay` extends `Iodedup`, `ConfidedReplay` extends
`Confided` and `ProvidedReplay` extends `Provided`, each with two instances of
`Store` or one for its caches and one of `BlockDevice` as its abstract
specification; `IoReplayStats` extends `IoReplay`; `ReplayThreads` and `AsyncReplay`
extend `CondVars`; `DedupTables` extends `Iodedup` and `HashTab`; `SimDisk` extends
`HashTab`; `StandardReplay` extends `LruCache`, `SimDisk` and `Volumes`. `MCCaches`,
`MCParts` and `MCProgram` put modules side by side whose state is small, so that
one run chooses one of them in its initial state; what belongs to the others does not
change then. A module of proofs extends the
modules it is about, and those of the run's modules that a property is stated in
(`MCArcCache`, `MCLruCache`, `MCStandardReplay`).

Left for later, in order of worth:

14. `DupCounters`, the counts of copies of a content that `CONTENTDEDUP` would compile.

## 3. Modules

### Store
The abstract cache: a partial function, with `Insert` (which may evict anything
else), `Update` or `Touch` of a present name, and `Clear`. Everything the replay
relies on is here: a hit returns what was put last under the name (sector cache)
or first since it is resident (content cache), and the entry just put is present.

### ArcCache (arc.c, arc.h, contentcache.c)
`lists` is the four `__arc_state` lists, head first; an object is its key, since
keys are unique. Sizes are lengths times `ObjectSize`. `content` is the set of
objects whose `content` pointer is not NULL, `owner` their `ioblkID`.
`LookupHit`, `LookupMiss` are `__arc_lookup`; `AddResident`, `AddMruGhost`,
`AddMfuGhost`, `AddNew` the branches of `__arc_add`; `BringIn` is `__arc_move`
from a ghost list or from nowhere: `Balance`, then the object at the head with
its content. The two loops of `__arc_balance` have a closed form (`Evict`,
`Forget`); `MCArcCache` states the loops turn by turn, as functions of the number of
turns taken, and compares.
The int cast of the new target is kept (`IntLimit`).

### LruCache (lru_cache.c, sectorcache.c)
`entries` is the hash table in iteration order. `AddToCache` removes an entry of
the same key, appends and prunes; `FindHit` moves the entry to the end.
`MCLruCache` adds `recency`, the blocks in the order of their last use, to say what
"most recent" means without the cache's own order.

### ContentMap, Iodedup (iodedup/*)
`p2d`, `d2pv`, `deduptab`, `reusable` and `dedupNum` are the variables of the code by
their names; the list `d2pmaps` of an element is a set of blocks (its order is
never read). `Trim*` is `mappingTrimScanIO` with `resetMappingsIO` and
`recycleiodedupID`; `ConfirmMapping`, `JoinElement` and `NewElement` are the
three paths of `resumeDeduping`, with the leader the content cache passes. Which is
taken is decided by what the lookup noted (`CmapHitID`: `cmaphit_flag` and
`cmaphit_iodedupID`), not by the mapping as it is by then; a path whose assertion would
fail has no step. The list of reusable identifiers is one queue: every new list has one element and is
appended to the current list before the next operation. `ContentMap` is
the abstract map from blocks to keys: a trim makes its own block unknown, an
update makes its own block known, and nothing else ever changes.

### BlockDevice, IoReplay (sim-replay-generic.c and all it calls)
`stage` is the program point of `sim_map_n_process_bunch` for the block in
progress, `req` the block with what the lookup noted of its mapping (`cmaphit`: written
by `NoteHit` before the disk is read, used by `UpdateMap` at the end, reset by
`TakeUp` alone), `had` the two globals that `__arc_add` leaves for `resumeDeduping`. Each action is one call: see the map in `PROJECT.json`.
The two caches are `Store`s, so what is shown here holds for any replacement
policy and any capacity, in particular for `ArcCache` and `LruCache`.
`BlockDevice` is a device that answers a read with the content last written.

`warmup` is `warmupflag`; `mapUponWrites` says which of the two builds runs. It is
chosen in the initial state and never changes. In the default build a write maps
its block again before the next request, so that no mapping is dirty between
requests; without the flag, dirty blocks with identifiers that have since been
recycled, and read misses of such blocks, are common. Both builds are checked
and proved.

A read of a block that the disk has is taken up only with the disk's content:
`disk_read_checkconsistency` corrects the packet when the trace is wrong. The
program is sequential here (the metadata-update thread of a write is joined at
once), so an action per call and no interleaving is what the code does.

### IoReplayStats (counters of all files, sim_replay_exit)
Every action of `IoReplay` with the counters it increments. `ReadMiss`, `MapLeader`
and `UpdateHits` are the classifications made in the code. `counted` is the set of
the counters that the request in progress has incremented. The assertions of
`sim_replay_exit` are linear equations between totals, so they hold of any replay
if every request keeps the balance; no bound on the number of requests is needed.

### CondVars, ReplayThreads (replay-generic.c, replay-plugins.c, per-input-file.c, main_sim_replay.c)
`CondVars` is `__set_cv`, `__wait_cv` and their callers: a counter, a mutex and a
condition variable each. A critical section is one step; a thread in
`pthread_cond_wait` is in `asleep`, is woken by a signal or for no reason, and then
looks at the counter again. `main`, `warm` and `sub` are the program counters of the
three threads. `Interrupt` is `set_signal_done`, at any time. What matters of a trace
is its format, its length, the offset of the file (`ifd`, in requests) and whether
that offset is the start of a request (`aligned`): `ResetInputFile` reads a header
after it has sought to the start, and a trace of events has none. `NextIoTip` on
an offset that is not the start of a request returns `LOG_ERR`, which the loop takes
for TRUE, so that a request without content (`current` = 0) is processed, which is
fatal (`died`).

### AsyncReplay (async-replay-generic.c, iocbs.c, reclaim-generic.c)
The free and used lists of control blocks are their lengths. `NFreeCurrent`,
`IocbsMap`, `IoSubmit`, `CountSubmitted` are the loop of the sender over the packets
of a request: between the last two the mutex is free, the packets are with the
device and not yet counted. `ReapCheck`, `ReapWaitAios`, `GetEvents`, `ReclaimIos` are
the reclaimer, with its own copy `recOut` of the number outstanding. `TipSignal` wakes
one of the threads asleep on the condition variable they share, and only if the
flag `sendWait` or `reapWait` is set. `Complete` is the device.

### Confided, ConfidedReplay (confided/*, sim-replay-generic.c)
`v2f`, `fixedmap`, `fixedtab`, `reusable` and `fixedNum` are the variables of the code.
Other than in `Iodedup` the list of an element's blocks is a sequence, latest first,
of tuples with their mark `dedupfetch`: which tuple is marked decides which block a
read goes to, `Unmark` and `MarkAnother` look for the first one, and a list without
a mark stops the program. `RecycleFixedID` with `DelF2V` is `recyclefixedID`, with the
mark handed on. In `ConfidedReplay` the metadata come before the caches:
`Redirect` or `FallBack`, then the sector cache under the number of the block that
is to be fetched, the disk, `resumeFixing`, the sector cache again. What is answered
is what the fetched block holds, so that `RedirectedImplementsDevice` is about the
redirection.

### Provided, ProvidedReplay (provided/*, sim-replay-generic.c)
As the two before, for the pieces of a block. A content is a sequence of letters, and
`ChunksOf` gives the chunks of each: a function of the content alone, as
`NONSPANNING_PROVIDE` has it, since `invokeRabin` starts afresh for every block.
`ChunkAssumption` asks that they follow one another from the first letter to the last
(`Tiles`); any such cut will do, and `CutTiles` of `ContentProofs` shows it of the program's.
A block that holds a chunk twice is twice in the chunk's list, and the
chunks of a block are popped one by one when it is trimmed; the loops over the
chunks of a block are recursive functions of the turns taken. `PiecesOf` makes the
list of what is to be fetched, `AddPiece` merging parts that continue each other, and
`Stitch` puts the pieces together. `counted` is a bag here: a read counts once for
each piece. Some counters are not kept out of the warm-up, as in the code.

### HashTab, DedupTables (uhashtab.c, vector32.c, p2d-map.c, d2pv-map.c, deduptab.c)
`HashTab` is `hashtab_insert`, `hashtab_search` and `hashtab_remove` on the chain of a
bucket, for any comparison: a walk goes on while the comparison says that the key
is larger, an insertion puts the node where the walk stopped. `DedupTables` runs
`Iodedup` beside its containers: `p2dmaps` and `dedupmap_by_did` as vectors that double
when an index is behind their end, `deduptab` as buckets of chains. The doubling
of a 32-bit size is excluded from wrapping by `TablesAssumption`.

### SimDisk, Volumes, StandardReplay (simdisk-API.c, v2p-map.c, std_serveio.c, sim-replay-generic.c)
`SimDisk` finds a block by the text of its key, `name:number`, in a table whose
comparison looks at lengths first, so that of two keys of different lengths each
is the larger: the chains are not sorted. The place of a content in the file is a
32-bit product (`Wrap` is 2^27; no run comes near it). The table's size is prime but
the bucket is taken with `& (size - 1)`, which leaves buckets unused.
`Volumes` numbers names as they are met, reads the lines of a mapping file with their
checks (an overlap in the file ends the program) and lets a volume grow with the
trace (an overlap is only logged). A name that gets no number gives -999 and a
NULL pointer (`TakeUpUnknown`, "crashed"). The last block of an empty volume at block 0
is 2^32 - 1 (`TestOverlapVM`), so every volume is found to overlap with it, and so is one that
has an empty one inside it; `FoundInside` names these, and `LinesRefused`, a part of
`OverlapsReported`, says that no other line is refused wrongly. `base + cap` stays below
2^32 by `VolumesAssumption`.
`StandardReplay` converts a record block by block (blocks of zeroes are dropped if
contents are whole), corrects reads from the disk and then replays the bunch.
With whole contents the sector cache stores the letters `cf` and a hit is answered
from the file; with hashes a hit that differs fails the assertion of
`sectorcache_lookup` (`AssertionFails`). `MCStandardReplay` keeps a copy of what is on
the disk, `image`, so that the refinement is checked on a variable.

### Chunking (rabin.c, chunking.c, c2pv-map.c)
The fingerprint with its two tables, the window, the boundary test with minimum and
maximum sizes, and the loop of `resumeChunking` over a block. Letters, words and the
polynomial are small. `processChunk` keeps the offset of the next chunk in a static
variable; `ChunksAsCut` compares it with a definition of the cuts from the content
(`CutOf`), and `RollingPrint` compares the print that is slid along with the remainder of
the window's polynomial (`PrintOf`), which is a definition from the letters alone: a
term is in it if an odd number of the powers it is the remainder of have it.

### Startup (main_sim_replay.c, replay-plugins.c, per-input-file.c)
`Option` is one turn of the `getopt_long` loop, `HandleArgs` the checks after it in
their order, and each further action a section of `main` or `pdd_replay_init`; `live`
is the set of tables and files that exist. What stops the program on the way is
part of the model:

* the exit handler prints to `ftimeptr` unless `warmupflag` is 1, so an error after
  `atexit` and before `outputtimefn_init` crashes (`SimReplayExit`);
* with a device name in one of six formats main frees `optarg` (`ReleaseFiles`, "aborted");
  in the others `vm_rem_input_file` is called, on a NULL pointer if the trace was not
  opened for a scan;
* a trace scan with no `-f` calls `strstr` on NULL (`NameMissing`);
* a scan in parallel (`-S`) is never joined; real-disk replays and scans of a trace
  in the wrong format abort on an assertion;
* after a scan `blkidtab` is never created, though the replay searches it;
* a sector cache of 2048 MB or more overflows an int (`SectorLimit`), which is
  undefined: the product wraps, so that the limit is negative and then, unsigned,
  very large (of 4096 MB it is 0), or the compiler folds it with the quotient that
  follows, as gcc does, and the limit is right. `HandleArgs` takes either;
* a content cache of 4096 MB or more loses the multiples of 4096 (`ContentLimit`);
* `-w` is in the table of options and has no case, so it is refused;
* `mapdumpflag` cannot be set, so that a read-up (`-i`) finds no dumps and fails.

At the end of a replay with run-time maps main writes the mapping file again
(`ReleaseTables`). Device or input names with both format words in them are left out.

### TraceInput (parse-generic.c, parse_pdd_events.c, scandisk.c, fscandisk.c, sim-replay-generic.c)
A file is a number of cells; `Read` returns any part of what was asked for.
`HeaderRead`, `BodyRead`, `RestRead` are `next_record`, `ScanReturns` is `next_io` with the
two scans, `TipReturns` is `next_io_tip` with the loops of warm-up and replay. A header
that is cut short counts as the clean end of the file, a body that is cut short as
an error. The loops take an error for a record and go on with the one before
(`TakesErrorForRecord`): they skip it, if its kind is disabled, or convert it again, status
"stale", which `RecoveredOnly` finds. Its content was freed and set to NULL by then, or
was never set, so the model ends there. A scan ends
without a word on any error. The trailer of a trace is read as a line into a buffer
that was never set up ("crashed" is one outcome). Warm-up and replay share one
static counter of blocks, and requests of a kind that is disabled are not
counted. `ReplayedAsScanned` says what that comes to: the number of the replay is the scan's,
plus the requests of the machine in the warm-up (`WarmedUp`), less those left out
before (`LeftOut`). So the two agree if nothing was warmed up and both kinds are
enabled, and otherwise every block is looked up under the number of another.

### Bunching (vmfile-bunching.c, vmbunching-generic.c, replay-generic.c)
`StreamAddIo` and `StreamClose` write a file of bunches, `AddBunches` and `NextBunch` read
it, whole or cut. `stream_close` takes the counts for the header before it flushes
the last bunch, so they are short of it (`HeaderCounts` fails). A trace that fits in one
bunch has a header of none and is left out of the replay; longer files are read to
their end whatever the header says. `BunchesKeepTrace` says that only such a trace can
be left out, and that the replay of a file that is whole has all the packets. (The writer
is in the repository but in no object list of the Makefile.)

## 4. Runs

| run | what it asks | bounds | why they are enough |
|---|---|---|---|
| `caches` | ARC: list discipline, contents, bounds, recency, closed form of balancing, `Store`; LRU: recency, `Store` (the cache is chosen in the initial state) | ARC: 6 keys, 2 block numbers, objects of size 2, capacity 5 (2 objects and a remainder), target in bytes; LRU: 4 blocks, 2 contents, 3 entries | ARC: one object more than the four lists may hold, so that both loops run and all their branches are taken; the target and the capacity take values that are not multiples of the object size; ghost hits under another block number. LRU: one block more than entries, so that a block is pruned and added again |
| `parts` | default build: warm-up and replay apart, whole iterations, the program ends | traces of up to 3 requests, up to 3 iterations of bunches and one of events, with and without warm-up, an empty trace of either format | main's and the replay's loop both go round more than once, so that every handshake follows another |
| | `ASYNCIO`: accounting of control blocks, the sender ends | 3 control blocks, up to 3 requests of up to 4 packets | a request has more packets than there are control blocks, and packets of two requests are out at once |
| | cutting: the fingerprint is that of the window, chunks are as cut and tile the block, the loop ends | blocks of 13 letters, a window of 5, chunks of 6 to 8, letters of 2 bits, words of 8 | every place of a boundary and none, the maximum size reached (the default build has a maximum above the block size and never reaches it), blocks of three chunks |
| | IODEDUP's metadata: agreement of the tables and of the program's containers with them, identifiers, `ContentMap` | 3 blocks, 4 keys, 2 buckets, vectors of 4 at first | shared and unshared elements, two reusable identifiers at once, a stale identifier that names another element; blocks 0, 1 and 4, so that a vector grows; chains of two and more, removals at either end |
| `replay` | freshness of both caches and mappings, leaders, counters, `BlockDevice` | 3 blocks, 2 keys, unbounded requests, with and without warm-up, both builds: 1.1 million states | two blocks share an element while a third leaves or joins; every eviction is possible at every put |
| `confided` | one leader per element, agreement of the maps, freshness, counters, `BlockDevice` | 3 blocks, 2 keys, unbounded requests | a leader is trimmed with two blocks left to choose from; an identifier is reused while a dirty block still names it |
| `event_iterations` | whole iterations, with events replayed twice (a bug, below) | 2 requests, 2 iterations | - |
| `reclaim_ends` | the reclaimer ends (a bug, below) | 2 control blocks, 2 requests | - |
| `recovered_only` | warm-up and replay go on with records that were read (a bug, below) | as `program` | - |
| `header_counts` | a header counts the bunches behind it (a bug, below) | as `program` | - |
| `provided` | agreement of the maps, freshness, counters, `BlockDevice` | 3 blocks of three letters; contents `bba` and `abb`, where `b` ends a chunk | one content is cut in three chunks, one of them twice, the other in two, one shared with the first at another offset: pieces of other blocks and of the same, merged or not |
| `packets_by_kind` | the counters of packets by kind (a bug, below) | 2 blocks, the same contents | - |
| `standard` | the disk's table finds every block, overlaps are reported and lines refused for an overlap, `BlockDevice` | 3 contents, one of them the block of zeroes, block numbers of 32 values, a cache of one entry, mapping files of up to two of the lines `a 10 0`, `b 0 10`, `b 1 9`, `b 0 0`, `b 0 5`, records of one and two blocks of two volumes, which the mapping file names or not | a volume grows over the other; an empty volume behind another, inside it and at block 0; keys of one and two digits; a block is evicted and read again; both kinds of contents |
| `program` | the input is read in its own format, nothing is missing, the caches fit the memory, records are handed on whole and in order, scan and replay number alike, bunches are the trace (the part is chosen in the initial state) | command lines of all modes, sources of mappings, formats, names and sizes; a word of 8 MB; traces of up to 3 records of two machines, whole or cut in the last record or behind it, and records that a pass refuses; up to 4 packets in bunches of up to 2: 2.88 million states | every pair of mode and source of mappings, valid or not; sizes on both sides of the overflow of either cache; a warm-up of two machines, and replays with one kind of request left out; every place where a file can end with every split of a read; full and late bunches, a last bunch that is cut |

The symmetry of `caches`, `replay`, `confided`, `provided` and `standard` is sound: no
property of these runs is a liveness property, and no definition tells apart what is
permuted. The letters of `provided` are not, nor is the block of zeroes of `standard`.

**Bounds.** The requests of `replay`, `confided` and `provided` are not bounded: the state
of the caches, the metadata and the disk is finite, since `IdsAccountedFor` (and in
the other two the same queue of reusable identifiers) keeps the identifiers
within the number of blocks or chunks. `MaxRequests`, `BunchIterations`,
`EventIterations` and `MaxPackets` bound the traces of the thread models.

**Fairness.** `ThreadsSpec`, `AsyncSpec` and `ChunkingSpec` have fairness, and `PartsSpec` of
`MCParts`, which is one of the three, or the metadata. `ThreadsSpec` assumes weak fairness of each of
main, warm-up and replay thread: the scheduler runs a thread that can go on, and the
mutexes are held for a step only. `AsyncSpec` assumes it of the sender, the reclaimer,
main and the device, which completes what it was given. Signals, failures and
spurious wake-ups are under no fairness: none need ever come. `ChunkingSpec` assumes
weak fairness of its one thread. The other specifications have no fairness, and all
their properties are safety properties.

**Deadlock** is checked but where the program really ends or stops: in `parts` and
`reclaim_ends` an asynchronous replay that has ended or been aborted has no step left,
in `standard` a program that crashed or aborted, in `program` one that has ended.
In `parts`, everyone waiting on everyone would violate `DefaultEnds` or
`AsyncSubmitEnds`, since in such a state no thread could take a further step.

**Divergences and bugs.**

* `event_iterations`: a trace may be replayed several times, says the comment at
  `main_sim_replay.c:1489`. `reset_input_file` rewinds past a header, which a trace of
  events does not have: the second iteration starts within the first event.
* `reclaim_ends`: `reap_wait_aios` looks at `send_done` once, without the mutex, and then
  sleeps until something is outstanding. When the last packets are reclaimed
  before the sender sets `send_done`, which it does without a signal, the reclaimer
  sleeps for ever and main with it.
* `packets_by_kind`: `pro_fallback_blkread` and `pro_blkread` are incremented during the
  warm-up and `ptotalblkread` is not, so the assertion at `main_sim_replay.c:1612`
  fails after a warm-up with a read.

* `recovered_only`: `next_io_tip` returns TRUE if something was read, says the comment at
  `replay-plugins.c:743`. After a record that is cut or broken it returns -999, which
  the loops take for TRUE; they convert the request before once more, whose content is
  NULL by then.
* `header_counts`: a header has the "Number of bunches put into the file", says
  `vmbunching_structs.h:18`. `stream_close` counts before it writes the last one.

Three more are not runs of their own, since a property says exactly what happens
instead:

* The comment of `__arc_balance` says that it makes the object fit, but the loop gives
  up when `mru` is within the target and `mfu` is empty (`arc.c:146-148`): resident data
  may exceed the capacity, by one object and no more, as `ContentBounded` shows.
* The sector cache "will be reduced accordingly" where a content cache takes a part of the
  memory, says the comment at `sectorcache.c:73`. It is reduced by the content cache's
  megabytes, but the limit of the content cache is counted in 32 bits
  (`contentcache.c:267`), and the sector cache's own bytes in an `int`: a content cache of
  4096 MB has room for nothing, and a sector cache whose bytes wrap to a negative number
  has room for everything. `CachesWithinMemory` says which sizes these are.
* `testOverlapVM` tests "the overlap between the pblk ranges of a VM pair", says the comment
  at `v2p-map.c:305`; it finds one as well for an empty volume at block 0, or inside
  another, and the program refuses the mapping file. `OverlapsReported` says that those
  are the only ones.

Each property was seen to fail on a faulty variant of the code it is about; these
variants are the definitions marked "Faulty variant" and are used nowhere else.

## 5. Proofs

Everything here is checked by TLAPS for all values of the constants that the named
assumptions admit. TLC checked each inductive invariant on the run of its module
(where it speaks of all numbers or of all functions, over bounded ones) before it was
relied on.

### IODEDUP: `IodedupProofs`

For any finite set of blocks (block numbers are 32 bits), any set of keys and
replays of any length:

* **The metadata** (`MetaInvariant`): the inductive invariant `MetaInv` is type
  correctness, `BlocksAndElementsAgree`, `TableAgrees`, `NoEmptyElement` and
  `IdsAccountedFor`. Neither is inductive alone: a trim frees the element with
  its last block, so that it takes both directions of the agreement to know that no
  other clean block names the element; a new element is the only one of its key
  because the table has every element; and its identifier is fresh because the
  identifiers in use and the reusable ones are exactly the numbers handed out.
  `MetadataTheorem` is the part of it that the run `parts` checks, `MetadataAgrees`.
* **The counter** (`DedupNumTheorem`): the counter advances only when nothing is
  reusable, when all identifiers handed out are in use, each by a block of its
  own other than the one being updated (an injection from elements to
  blocks). So `dedupNum` is bounded by the number of blocks, however long the
  replay; the roll-over that a comment fears (`d2pv-map.c:170`) needs 2^32
  distinct blocks.
* **The map** (`ContentMapTheorem`): the metadata implement `ContentMap`.
* **The containers** (`ContainersTheorem`): `TablesInv` adds to `MetaInv` and the bound on
  the counter that each vector holds just its map, below its size, and that the
  nodes of the hash table are the entries of `deduptab`, one for each. The bound is
  needed to know that no vector's size wraps while it doubles, and that every
  identifier is one the table may hold.
* **The replay** (`ReplayInvariant`): `ReplayInv` is `MetaInv`, `ReplayTypeOK`,
  `SectorCacheFresh`, `CleanOnDisk`, `LeadersAgree` and `RequestOnDisk`, which
  says what is known of the request at each stage: a read carries the disk's
  content, and the mapping of a written block is invalid until the disk has
  the content. With it goes `Noted`, what the lookup noted of the mapping of the
  request: an identifier is noted while the block is clean and its element is that of
  the key on the disk, and none for a write or once the block is dirty. It stands until the
  metadata is updated since no step of a read before that changes the metadata
  (`MappingTheorem`). `CachesFresh`, which the run checks, follows from
  `ReplayTypeOK` and `SectorCacheFresh` (`CachesTheorem`). `UsesMetadata` shows that the replay takes only steps of the
  metadata's specification, so that all of the above holds of it.
* **The device** (`DeviceTheorem`): the replay implements `BlockDevice`, with any
  caches that implement `Store`.
* **The counters** (`CountersTheorem`, of `CountersBalance`): with the counters added a
  replay is still a replay (`StatsReplays`), so the invariant above is at hand. The
  inductive invariant `StatsInv` says for each stage what has been counted so far.
  All balances but one follow from the paths through the code; that of the
  leaders does not, since the metadata and the content cache each count by the
  leader they know. There the proof needs `LeadersAgree` and `TableAgrees`
  (`OneLeaderOnHit`).

Assumptions: `MetaAssumption`, the set of blocks is finite; for the containers
`HashTabAssumption` and `TablesAssumption`, the comparison orders the keys as far as
the table needs it and twice the number of blocks is below the word.

### The caches: `ContentProofs`, `StandardProofs`

For any capacity, any size of an object and any keys (`ArcAssumption`):

* **The lists** (`ArcInvariant`): `ArcInv` says that the four lists are without
  repetition and without overlap, that `p` is within the capacity, that the objects
  with a content are the resident ones, and bounds the lists in numbers of objects.
  The bounds in bytes follow, since a list's size is a multiple of an object's
  (`ContentTheorem`). The resident lists are bounded by one object more than fit: the
  loop of `__arc_balance` gives up when `mru` is within the target and `mfu` is empty.
* **Eviction** (`EvictionTheorem`): a resident list loses its tail first.
* **The loops** (`BalanceTheorem`): the closed form is what the loops compute. The state
  after n turns is given outright: so many objects of the one list and so many of the other
  have moved, in that order. That is true of no turns, and of n + 1 if of n, by
  the definition of a turn; a least n for which it is false does not exist.
* **The promise** (`ArcStoreTheorem`): to the caller the content cache is a `Store`.

For any number of entries of the sector cache (`LruAssumption`):

* **The promise** (`LruTypeTheorem`, `LruStoreTheorem`): a key has one entry, and
  an addition of a key that is present evicts nothing else. Both go by the set of
  the entries, not by their order.
* **Recency** (`RecencyTheorem`): `UsedInv` relates every entry to its place in the
  history: the entries are the end of `recency`, in order. It is stronger than
  `HoldsMostRecent`, which speaks of sets, and is needed since a pruning takes the
  first entry.

### The standard replay: `StandardProofs`

For any mapping file, trace, set of contents and size of the words, with
`SimDiskAssumption`, `VolumesAssumption` and `StandardAssumption`:

* **The table** (`BlkidOrderTheorem`): the comparison of `SimDisk`, by which two keys of
  different lengths are each the larger, satisfies `HashTabAssumption`, so what is
  proved of the table holds of the disk.
* **The invariant** (`StandardInvariant`): `StandardInv` says that the numbers of the blocks on
  the disk are those handed out and their places in the file are filled (`DiskInv`),
  that no two names have the same number and two volumes overlap only where that was
  reported (`VolumesInv`), what is known of the request and of each packet still to be
  replayed (`RequestInv`), and that what the sector cache holds for a physical
  block is what the disk has of a block mapped to it (`CacheTrue`).
* **The disk** (`DiskTheorem`): every block is found under its number, with its content,
  as long as `DiskFits`: the numbers fit the positions that a 32-bit product has.
  `SmallDiskTheorem` drops that condition for a disk of no more than `Wrap` (2^27)
  blocks, by counting. Beyond it the file's places would be shared: the condition is
  necessary.
* **Overlaps** (`OverlapsTheorem`): volumes that share a physical block were reported,
  and a line of the mapping is refused exactly for a shared block or for an empty volume at
  block 0 or inside another (`OverlapFound`, on ranges modulo the word), as long as `DiskFits` and `TraceFits`, that base and block numbers of the trace
  add up within the word. The program checks this of the mapping file and not of the
  trace.
* **The device** (`VanillaTheorem`): the replay implements `BlockDevice`, under `DiskFits`.

### CONFIDED: `ConfidedProofs`

For any finite set of blocks and any set of keys (`FixedAssumption`):

* **The metadata** (`FixedInvariant`, `FixedMapsTheorem`): `FixedInv` is type correctness,
  `ListsGood` (an element's list has one mark and each block once), `BlocksAgree` (the
  lists are those of the clean blocks), `FixedTabAgrees` and `FixedIdsAccounted`. The
  lemmas on lists say what each operation leaves: `NewList`, `JoinedList` (the mark
  moves to the block that joins), `LeftList` (the mark is handed on if the block that
  leaves has it), `LastList` (the element goes). That one tuple is marked is a
  cardinality only in `OneMarkEach`.
* **The replay** (`ReplayInvariant`, `RedirectsTheorem`): `ReplayInv` adds what the request
  relies on at each stage, that the sector cache is never outdated, and `KeysFresh`: a clean
  mapping leads to the key of what is on the disk. From the last, a block
  and the leader of its element have the same content (`LeaderOfElement`), so a
  redirected read may fetch the other block. `KeysFresh` is kept by a write because
  the mapping is dirty from before the disk changes until after it.
* **The device** (`DeviceTheorem`): the replay implements `BlockDevice`.
* **The counters** (`AccountedTheorem`): `CountInv` says for each stage what is counted.

### PROVIDED: `ProvidedProofs`

For any set of blocks, any contents and any way to cut them (`ChunkAssumption`), so for
blocks that hold the same chunk several times too:

* **The metadata** (`ProvidedInvariant`, `ChunkMapsTheorem`): `ChunkInv` says that a clean
  block names the chunks of the content the disk has for it, in order, and that the
  tables are just those of all such blocks (`Mapping`): a block is in the list of a
  chunk as often as its content holds the chunk (`TimesRight`), at the offsets where it
  does (`PlacesRight`, `PlacesFound`), each list has one mark, the hash table finds each
  chunk and no other, and the identifiers in use and the reusable ones are those
  handed out (`Sound`). `ChunkMapsAgree` is not inductive, since an operation goes through
  the chunks of a block one by one, and in between a block is in some lists and not
  yet, or no longer, in others. So the invariant of the loops (`Fits`) has a parameter:
  for each block, which of its chunks count. A turn of `resetMappings` takes one away
  (of a chunk's tuples of a block it drops the first, whichever of the block's
  equal chunks it is at), a turn of `resumeChunking` adds one, a turn of the marking moves a mark
  and changes none of this.
* **The replay** (`ChunksFreshTheorem`): `ReplayInv` adds that the pieces of a read, each a
  part of what the disk has of some block, have the letters of the requested content
  one after the other (`Assembles`), until they are stitched, and that the sector cache
  is not outdated. A chunk's place may be fetched for any other, since both hold its
  letters; merging two pieces keeps this as they continue each other in one block.
* **The device** (`StitchedDeviceTheorem`): the replay implements `BlockDevice`.
* **The counters** (`ProvidedAccountedTheorem`): `CountInv` says for each stage what is counted
  of the pieces looked up so far (`Reading`), and how hits and misses of the sector
  cache are booked once the metadata have called the block a hit, a miss or
  dirty (`Settled`).

### The cutting: `ContentProofs`

For any modulus, word, window, letters and bounds on a chunk (`RabinAssumption`: a word is
a number of letters, the window is longer than four letters and shorter than
a chunk, the constant term of the modulus is 1):

* **The print** (`RollingTheorem`): multiplication by a power of t modulo the polynomial is
  linear in XOR (`Times`), so the remainder of a window is the XOR of the remainders of its
  terms, which are powers of t (`PrintOf`, a matter of odd and even cardinalities). To put a letter behind a
  window shifts it and adds the letter, to take the first one away adds the letter
  times the window's power; the two tables are these products. They are computed by
  reductions of a whole word and a shift for what is left, which comes to the same
  power, as the shift of a letter loses no bit.
* **The cut** (`CutInvariant`, `CutTheorem`): `CutInv` says for each stage of
  `resumeChunking` that the chunks handed on, the buffer and what is left over are the
  block, that no letter passed so far was a boundary, and that the static offset is
  that of the chunk to come, or in the end of the next block's first. What is
  still to be cut is what `CutFrom` has there, so that at the end the cut is `CutOf`.
* **What PROVIDED assumes** (`CutTiles`): the cut of any content tiles it.

### Threads: `StandardProofs`

For traces of any length and any number of iterations (`ThreadsAssumption`):

* `ThreadsApart`: warm-up, replay and main's start and end of an iteration exclude each
  other. `WarmupApart` is not inductive: `IterationHandshake` relates the two counters
  of an iteration to the program counters (a start that is pending or an end that
  is counted finds the replay thread not at work and main waiting), and
  `CreationInOrder` says what exists before and after the join.
* `ThreadsWhole`: every iteration replays the whole trace, from the first request to
  the last, if a trace of events has one iteration only; `EventsOnce` is where the
  proof needs that condition, which `event_iterations` shows to be necessary.

For any number of control blocks, requests and packets (`AsyncAssumption`):

* `AsyncAccounted`: the control blocks are accounted for. The strengthening
  is what each of the two threads may rely on while the other one runs: the sender
  that nothing free is taken from it between its look and its use (`TodoFits`), the
  reclaimer that nothing it knows to be out is taken back by another
  (`ReclaimFits`).

### The hash table: `HashTabProofs`

For any chains and any comparison that `HashTabAssumption` admits: an insertion or a
removal changes one node of one chain (with the facts on lists of `SequenceFacts`),
and `HashInv`, that chains are sorted as far as the comparison goes, holds after
each, so that a walk meets every node there is (`NodesMetTheorem`).

### The program: `ProgramProofs`

* **What exists** (`ReaderTheorem`, `NothingMissingTheorem`), for any command lines and any
  failing file: `StartInv` says for each stage of main what the options are known to
  satisfy, which tables and files exist and whether a scan has been started, is running
  or has ended. Both theorems have the hypothesis `NamesOneKind`: no file name has
  both "pioevents" and "vmbunch" in it. The code looks for one or the other in
  different places, so a file of such a name is scanned as a trace of events and is
  replayed as bunches; those names are left out of the run too.
* **The caches** (`CachesTheorem`), for any command lines, word, block size and default
  sizes (`StartupAssumption`, by which the defaults can be counted in bytes), and for
  any sizes that are accepted: below the overflow of either word the caches take
  exactly the memory that was given; beyond it they take no more, but where the sector
  cache's bytes wrap to a negative number. That they may then take less, or far more, is
  what the code does (under Startup).
* **The bunches** (`BunchesTheorem`), for any times and any bounds
  (`BunchingAssumption`): `BunchInv` says that the bunches in the file follow one another
  up to the packets taken, or to the bunch that is being filled, and that those
  read are the first of them. A file that is left out is of one bunch, since the
  counts are those of all bunches but the last. So nothing is lost of a file that is
  whole but for a trace of one bunch; that such a trace may be lost is the bug of
  `header_counts`.
* **The trace** (`HandedTheorem`, `ScannedTheorem`), for any traces and files to
  warm up with, with any cells (`TraceAssumption`: sizes are positive, and only the
  contents that the parsers read on for were preprocessed). `TraceInv` says in which
  record the stream is (`InRecord`: the place where the next one would begin is one of
  them), so that a read of any length leaves it there, and what each pass relies
  on: the scan looks for the record after the last it was handed, and has numbered
  the blocks of each machine by how many there were before (`ScanOK`); the replay,
  without an error so far, looks for the record after the last it was handed
  (`NoneLeftOut`), and with one it is behind that record at least (`Behind`), so that
  no record is handed on twice. Its numbers are those of the records before (`CountBefore`),
  by machine, all of them for the scan and those of the enabled kinds for the replay, so
  that the two differ by the others and by the warm-up's (`CountSplit`,
  `WarmedUpWhole`). `Legit` is what every return of `next_record` keeps: a
  record that is whole, with the stream behind it, or the end when all whole records were before
  (`WholeBefore`). Where the records begin is a sum, defined by a recursive function; that it
  exists and is monotonic is shown from the least counterexample (`StartsExist`,
  `StartsInOrder`).

### Only model-checked

* all liveness: `DefaultEnds`, `AsyncSubmitEnds`, `ChunkingEnds`. Fairness and
  ENABLED are outside of the prover's reach. Every other property of a passing run is
  stated by a theorem;
* the findings, whose runs are counterexamples.

## 6. Not modelled

* The maps that an a-priori scan builds: scans of a device read a raw disk, and those
  of a trace are modelled only for what they hand on (`TraceInput`). With a scan the
  replay searches a table that was never created, so no replay follows it.
* Map dumps and their read-up: no option turns dumping on.
* Zero blocks (dropped by `convert_spec_to_bunch` when contents are whole
  blocks) and hash collisions: a key stands for its content.
* `read_enabled`/`write_enabled` off, but in `TraceInput`: requests are then skipped, and
  reads may disagree with the caches by design.
* Contents as bytes, time stamps, logging and memory management.
* The volume-by-volume mode of CONFIDED and PROVIDED (`intraonlyflag`).
* Requests of several blocks: `replay-generic` asserts that a request to a simulated
  disk has one. The loops over blocks in the trims are modelled for one block.
* Chunks that span blocks: not compiled with `NONSPANNING_PROVIDE`, and that code does
  not compile without it.
* Stalls between requests (disabled), CPU pinning (compiled out), real devices.
* The splitting of a trace record or a line of the mapping file into its fields,
  content generation and hashing, and what is only printed.
* The linked lists, `vector16`, `vector64` and memory buffers (`utils`): the modules use
  sequences, functions and sets, as the callers do.
* Failures of the content file (every one ends the program) and of memory allocation.
* The components marked "not modelled" in `PROJECT.json`, each with its reason.
  Much of `src/` is not the replay program: vendored, generated and unused files.
