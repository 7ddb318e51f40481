-------------------------- MODULE PreparedDatasets --------------------------
(***************************************************************************)
(* The market data of a backtest: PreparedDatasetCache, a directory per    *)
(* annual chunk that the processes of all runs share, and                  *)
(* MarketDatasetPipeline, a thread of each run that opens or builds the    *)
(* chunks one ahead of the run's main thread.                              *)
(*                                                                         *)
(* The runs here ask for the same manifest. The maintenance gate keeps the *)
(* update, which removes every entry, away from them                       *)
(* (MarketDataMaintenance), so the source data is the same for all.        *)
(***************************************************************************)
EXTENDS Naturals, Sequences

CONSTANTS
  Runs,        \* backtest runs, each in a worker process of its own
  NoRun,
  NChunks,     \* years of the manifest
  Empty,       \* chunks in which the universe has no row
  MaxCrashes   \* bound on processes killed

Chunks == 1 .. NChunks

ASSUME RunsAssumption == NoRun \notin Runs
ASSUME ChunksAssumption == NChunks \in Nat \ {0} /\ Empty \subseteq Chunks
ASSUME CacheBoundsAssumption == MaxCrashes \in Nat

VARIABLES
  metadata,   \* metadata.json of each entry: none, full, or bare of the splits
  arrays,     \* entries whose two array files are there
  flock,      \* who holds the lock file of each entry
  main,       \* program counter of each main thread
  producer,   \* program counter of each producer thread
  at,         \* the chunk the preflight or the producer is at
  splits,     \* the run has read its split adjustments
  warm,       \* its own preflight found every chunk: the run opens and never builds
  sidecar,    \* the metadata an open() under way has read
  item,       \* what the producer offers: a chunk, "error" or "end"
  queue,      \* Queue(maxsize=1)
  stop,       \* the Event
  hand,       \* the chunk the main thread computes on
  mapped,     \* chunks of the run whose arrays are mapped
  taken,      \* chunks computed so far, each with its metadata
  verdict,    \* how the main thread leaves the pipeline
  crashes,
  halfway     \* kills have left two entries torn, or have come between the removal
              \* of a torn entry and its replacement

cacheVars  == <<metadata, arrays, flock>>
threadVars == <<producer, at, splits, warm, sidecar, item>>
pipeVars   == <<queue, stop, mapped>>
mainVars   == <<main, hand, taken, verdict>>
dataVars   == <<cacheVars, threadVars, pipeVars, mainVars, crashes, halfway>>

Set(f, r, v) == [f EXCEPT ![r] = v]
Go(r, pc)    == producer' = Set(producer, r, pc)
MainGo(r, pc) == main' = Set(main, r, pc)
Leave(r, v)  == verdict' = Set(verdict, r, v) /\ MainGo(r, "closing")

-----------------------------------------------------------------------------
(* The main thread up to the pipeline: _load_prepared_dataset.              *)

StartPipeline(r) ==
  /\ MainGo(r, "hydrating") /\ Go(r, "checking") /\ at' = Set(at, r, 1)

\* Fault: one prepared chunk is enough to do without the splits.
PreflightAny(r) ==
  /\ main[r] = "preflight"
  /\ \/ metadata[at[r]] # "none" /\ StartPipeline(r)
     \/ /\ metadata[at[r]] = "none"
        /\ IF at[r] < NChunks THEN at' = Set(at, r, at[r] + 1) /\ UNCHANGED main
                              ELSE MainGo(r, "loading") /\ UNCHANGED at
        /\ UNCHANGED producer
  /\ UNCHANGED <<cacheVars, splits, warm, sidecar, item, pipeVars, hand, taken, verdict, crashes, halfway>>

\* If the metadata of every chunk is there, the splits are not read.
Preflight(r) ==
  /\ main[r] = "preflight"
  /\ \/ /\ metadata[at[r]] # "none"
        /\ IF at[r] < NChunks
           THEN at' = Set(at, r, at[r] + 1) /\ UNCHANGED <<main, producer>>
           ELSE StartPipeline(r)
     \/ /\ metadata[at[r]] = "none"
        /\ MainGo(r, "loading") /\ UNCHANGED <<at, producer>>
  /\ UNCHANGED <<cacheVars, splits, warm, sidecar, item, pipeVars, hand, taken, verdict, crashes, halfway>>

\* _split_adjustments.
LoadSplits(r) ==
  /\ main[r] = "loading"
  /\ splits' = Set(splits, r, TRUE)
  /\ StartPipeline(r)
  /\ UNCHANGED <<cacheVars, warm, sidecar, item, pipeVars, hand, taken, verdict, crashes, halfway>>

\* _support_hydration, and the risk context: what raises closes the pipeline.
Hydrate(r) ==
  /\ main[r] = "hydrating"
  /\ \/ MainGo(r, "taking") /\ UNCHANGED verdict
     \/ Leave(r, "raised")
  /\ UNCHANGED <<cacheVars, threadVars, pipeVars, hand, taken, crashes, halfway>>

-----------------------------------------------------------------------------
(* The producer thread: _produce_chunks, _build_pipeline_chunk, build.      *)

\* What the producer wants to hand over next; an error is followed by the end.
Offering(r, what) == Go(r, "offering") /\ item' = Set(item, r, what)
Raises(r) == Offering(r, "error")

\* After the last chunk; a universe without any row is an error.
Finished(r) == Offering(r, IF Empty = Chunks THEN "error" ELSE "end")

\* The next chunk of the loop.
Advance(r) ==
  IF at[r] < NChunks
  THEN at' = Set(at, r, at[r] + 1) /\ Go(r, "opening") /\ UNCHANGED item
  ELSE Finished(r) /\ UNCHANGED at

\* The same preflight again, in the thread. A run that builds exports a snapshot
\* and reads the instruments, or the database fails.
Check(r) ==
  /\ producer[r] = "checking"
  /\ \/ /\ metadata[at[r]] # "none" /\ at[r] < NChunks
        /\ at' = Set(at, r, at[r] + 1) /\ UNCHANGED <<producer, warm, item>>
     \/ /\ metadata[at[r]] # "none" /\ at[r] = NChunks
        /\ at' = Set(at, r, 1) /\ Go(r, "opening") /\ warm' = Set(warm, r, TRUE)
        /\ UNCHANGED item
     \/ /\ metadata[at[r]] = "none"
        /\ at' = Set(at, r, 1) /\ UNCHANGED warm
        /\ Raises(r) \/ (Go(r, "opening") /\ UNCHANGED item)
  /\ UNCHANGED <<cacheVars, splits, sidecar, pipeVars, mainVars, crashes, halfway>>

\* open() answered None: a run that trusted its preflight gives up, another reads
\* the shards of the chunk, each built under a lock file of its own, or fails.
GiveUp(r)     == warm[r] /\ Raises(r)
LoadShards(r) == ~warm[r] /\ (Raises(r) \/ (Go(r, "waiting") /\ UNCHANGED item))
Missing(r)    == GiveUp(r) \/ LoadShards(r)

\* The loop of a run that builds asks for the Event, the other one does not.
Heeds(r) == producer[r] = "opening" /\ ~warm[r] /\ stop[r]
Stopped(r) ==
  /\ Heeds(r)
  /\ Offering(r, "end")
  /\ UNCHANGED <<cacheVars, at, splits, warm, sidecar, pipeVars, mainVars, crashes, halfway>>

\* Entries that open() can read: the arrays of a torn one are not there, or are
\* not what the metadata says.
Readable(c) == metadata[c] # "none" /\ c \in arrays

Unlocked(r) == flock' = [flock EXCEPT ![at[r]] = NoRun]

\* A chunk without rows is closed at once and the loop goes on.
Opened(r, s) ==
  IF at[r] \in Empty
  THEN Advance(r) /\ sidecar' = Set(sidecar, r, "unread") /\ UNCHANGED mapped
  ELSE /\ Offering(r, "chunk") /\ sidecar' = Set(sidecar, r, s)
       /\ mapped' = Set(mapped, r, mapped[r] \cup {at[r]}) /\ UNCHANGED at

\* open() without the lock reads the metadata and then maps the arrays.
OpenMetadata(r) ==
  /\ producer[r] = "opening" /\ ~Heeds(r)
  /\ IF metadata[at[r]] # "none"
     THEN Go(r, "mapping") /\ sidecar' = Set(sidecar, r, metadata[at[r]]) /\ UNCHANGED item
     ELSE Missing(r) /\ UNCHANGED sidecar
  /\ UNCHANGED <<cacheVars, at, splits, warm, pipeVars, mainVars, crashes, halfway>>

OpenArrays(r) ==
  /\ producer[r] = "mapping"
  /\ IF at[r] \in arrays
     THEN Opened(r, sidecar[r])
     ELSE Missing(r) /\ sidecar' = Set(sidecar, r, "unread") /\ UNCHANGED <<at, mapped>>
  /\ UNCHANGED <<cacheVars, splits, warm, queue, stop, mainVars, crashes, halfway>>

\* build() waits for the lock file and opens the entry again: another run may
\* have built it.
Locking(r) == producer[r] = "waiting" /\ flock[at[r]] = NoRun

Reuse(r) ==
  /\ Locking(r) /\ Readable(at[r])
  /\ Opened(r, metadata[at[r]])
  /\ UNCHANGED <<cacheVars, splits, warm, queue, stop, mainVars, crashes, halfway>>

\* Otherwise a new entry is written to a directory of its own, or that fails.
Write(r) ==
  /\ Locking(r) /\ ~Readable(at[r])
  /\ \/ /\ Go(r, IF metadata[at[r]] = "none" THEN "replacing" ELSE "unlinking")
        /\ flock' = [flock EXCEPT ![at[r]] = r]
        /\ UNCHANGED item
     \/ Raises(r) /\ UNCHANGED flock
  /\ UNCHANGED <<metadata, arrays, at, splits, warm, sidecar, pipeVars, mainVars, crashes, halfway>>

\* What is left of a torn entry is removed first.
Unlink(r) ==
  /\ producer[r] = "unlinking"
  /\ metadata' = [metadata EXCEPT ![at[r]] = "none"] /\ Go(r, "refilling")
  /\ UNCHANGED <<arrays, flock, at, splits, warm, sidecar, item, pipeVars, mainVars, crashes, halfway>>

\* os.replace publishes both arrays and metadata, and the last open() is still
\* under the lock.
Replace(r) ==
  /\ producer[r] \in {"replacing", "refilling"}
  /\ arrays' = arrays \cup {at[r]}
  /\ metadata' = [metadata EXCEPT ![at[r]] = IF splits[r] THEN "full" ELSE "bare"]
  /\ Opened(r, metadata'[at[r]]) /\ Unlocked(r)
  /\ UNCHANGED <<splits, warm, queue, stop, mainVars, crashes, halfway>>

-----------------------------------------------------------------------------
(* The queue between the threads.                                           *)

NoItem  == [what |-> "none", chunk |-> 0, sidecar |-> "unread"]
Item(r) == [what |-> item[r], chunk |-> at[r], sidecar |-> sidecar[r]]
MappedBy(r, i) == IF i.what = "chunk" THEN {i.chunk} ELSE {}
Unmap(r, i) == mapped' = Set(mapped, r, mapped[r] \ MappedBy(r, i))

\* _offer: the Event is asked for before every put. An item that cannot be
\* offered is closed, and nothing more is offered.
Offer(r) ==
  /\ producer[r] = "offering"
  /\ IF stop[r]
     THEN /\ Unmap(r, Item(r)) /\ sidecar' = Set(sidecar, r, "unread")
          /\ IF item[r] = "end" THEN Go(r, "dead") /\ UNCHANGED item ELSE Offering(r, "end")
     ELSE Go(r, "putting") /\ UNCHANGED <<item, sidecar, mapped>>
  /\ UNCHANGED <<cacheVars, at, splits, warm, queue, stop, mainVars, crashes, halfway>>

\* What follows an item that was put.
AfterPut(r) ==
  \/ item[r] = "chunk" /\ Advance(r)
  \/ item[r] = "error" /\ Offering(r, "end") /\ UNCHANGED at
  \/ item[r] = "end" /\ Go(r, "dead") /\ UNCHANGED <<item, at>>

\* The put waits for room; it times out to look at the Event.
Put(r) ==
  /\ producer[r] = "putting"
  /\ \/ /\ Len(queue[r]) = 0 /\ queue' = Set(queue, r, <<Item(r)>>)
        /\ AfterPut(r) /\ sidecar' = Set(sidecar, r, "unread")
     \/ /\ Len(queue[r]) > 0 /\ stop[r]
        /\ Go(r, "offering") /\ UNCHANGED <<queue, item, at, sidecar>>
  /\ UNCHANGED <<cacheVars, splits, warm, stop, mapped, mainVars, crashes, halfway>>

\* __next__: an error is raised; after the end finish() gives the result, or raises.
Take(r) ==
  /\ main[r] = "taking" /\ queue[r] # <<>>
  /\ queue' = Set(queue, r, <<>>)
  /\ LET i == Head(queue[r]) IN
       \/ i.what = "chunk" /\ hand' = Set(hand, r, i) /\ MainGo(r, "computing") /\ UNCHANGED verdict
       \/ i.what = "end" /\ (\E v \in {"done", "raised"} : Leave(r, v)) /\ UNCHANGED hand
       \/ i.what = "error" /\ Leave(r, "raised") /\ UNCHANGED hand
  /\ UNCHANGED <<cacheVars, threadVars, stop, mapped, taken, crashes, halfway>>

\* The kernel session consumes the chunk, which is then closed whatever came of
\* it; it asks whether the job is to be cancelled.
Compute(r) ==
  /\ main[r] = "computing"
  /\ Unmap(r, hand[r])
  /\ \/ taken' = Set(taken, r, Append(taken[r], hand[r])) /\ MainGo(r, "taking")
          /\ UNCHANGED verdict
     \/ Leave(r, "raised") /\ UNCHANGED taken
  /\ UNCHANGED <<cacheVars, threadVars, queue, stop, hand, crashes, halfway>>

\* The local variables that nobody reads any more.
Forget(r) ==
  /\ at' = Set(at, r, 1) /\ splits' = Set(splits, r, FALSE) /\ warm' = Set(warm, r, FALSE)
  /\ item' = Set(item, r, "none") /\ hand' = Set(hand, r, NoItem)

\* close(): the Event is set, the queue is emptied until the thread has ended
\* and once more after that.
SetStop(r) ==
  /\ main[r] = "closing"
  /\ stop' = Set(stop, r, TRUE) /\ MainGo(r, "draining")
  /\ UNCHANGED <<cacheVars, threadVars, queue, mapped, hand, taken, verdict, crashes, halfway>>

Discard(r) ==
  /\ queue[r] # <<>>
  /\ queue' = Set(queue, r, <<>>) /\ Unmap(r, Head(queue[r]))

Drain(r) ==
  /\ main[r] = "draining"
  /\ \/ Discard(r) /\ UNCHANGED main
     \/ producer[r] = "dead" /\ MainGo(r, "sweeping") /\ UNCHANGED <<queue, mapped>>
  /\ UNCHANGED <<cacheVars, threadVars, stop, hand, taken, verdict, crashes, halfway>>

Sweep(r) ==
  /\ main[r] = "sweeping"
  /\ \/ Discard(r) /\ UNCHANGED main
        /\ UNCHANGED <<at, splits, warm, item, hand, taken>>
     \/ queue[r] = <<>> /\ MainGo(r, "closed") /\ UNCHANGED <<queue, mapped>>
        /\ Forget(r) /\ taken' = Set(taken, r, IF verdict[r] = "done" THEN taken[r] ELSE <<>>)
  /\ UNCHANGED <<cacheVars, producer, sidecar, stop, verdict, crashes, halfway>>

-----------------------------------------------------------------------------
\* The process is killed: the kernel drops its lock files and its mappings.
Vanish(r) ==
  /\ crashes < MaxCrashes /\ crashes' = crashes + 1
  /\ flock' = [c \in Chunks |-> IF flock[c] = r THEN NoRun ELSE flock[c]]
  /\ Go(r, "dead")
  /\ queue' = Set(queue, r, <<>>) /\ mapped' = Set(mapped, r, {})
  /\ Forget(r) /\ stop' = Set(stop, r, FALSE) /\ sidecar' = Set(sidecar, r, "unread")
  /\ taken' = Set(taken, r, <<>>) /\ verdict' = Set(verdict, r, "none")
  /\ halfway' = (halfway \/ producer[r] = "refilling")
  /\ UNCHANGED <<metadata, arrays>>

\* An entry is torn if its removal (the files go one by one, the metadata after
\* the arrays) was cut short.
DataInit ==
  /\ metadata \in [Chunks -> {"none", "full"}]
  /\ arrays \in SUBSET {c \in Chunks : metadata[c] = "full"}
  /\ flock = [c \in Chunks |-> NoRun]
  /\ main = [r \in Runs |-> "idle"]
  /\ producer = [r \in Runs |-> "none"]
  /\ at = [r \in Runs |-> 1]
  /\ splits = [r \in Runs |-> FALSE] /\ warm = [r \in Runs |-> FALSE]
  /\ sidecar = [r \in Runs |-> "unread"] /\ item = [r \in Runs |-> "none"]
  /\ queue = [r \in Runs |-> <<>>] /\ stop = [r \in Runs |-> FALSE]
  /\ hand = [r \in Runs |-> NoItem]
  /\ mapped = [r \in Runs |-> {}]
  /\ taken = [r \in Runs |-> <<>>]
  /\ verdict = [r \in Runs |-> "none"]
  /\ crashes = 0
  /\ halfway = \E c, d \in Chunks :
                 c # d /\ {c, d} \cap arrays = {} /\ "none" \notin {metadata[c], metadata[d]}

ProducerStep(r) ==
  \/ Check(r) \/ Stopped(r) \/ OpenMetadata(r) \/ OpenArrays(r)
  \/ Reuse(r) \/ Write(r) \/ Unlink(r) \/ Replace(r)
  \/ Offer(r) \/ Put(r)

ConsumerStep(r) ==
  \/ Preflight(r) \/ LoadSplits(r) \/ Hydrate(r)
  \/ Take(r) \/ Compute(r) \/ SetStop(r) \/ Drain(r) \/ Sweep(r)
=============================================================================
