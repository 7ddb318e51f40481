------------------------- MODULE BacktestRunsProofs -------------------------
(***************************************************************************)
(* Proofs about BacktestRuns and PreparedDatasets: for any number of runs, *)
(* paper runs, chunks and killed processes a completed run has computed on *)
(* the whole of its window, a run leaves nothing of its pipeline behind,   *)
(* and the materialization they share is built once, but after a recorded  *)
(* failure, and never taken back.                                          *)
(***************************************************************************)
EXTENDS BacktestRuns, TLAPS

\* Where a main thread is: before the pipeline, with it, on the way out of it, and
\* after close().
Early   == {"idle", "preflight", "loading"}
Working == {"hydrating", "taking", "computing"}
Leaving == {"closing", "draining", "sweeping"}
Builds  == {"seeking", "locking", "looking", "inserting", "clashed", "building", "attaching",
            "committing", "aborting", "over"}
Later   == Builds \cup {"closed"}
Gone    == Later \cup {"killed"}

\* Where a producer thread is.
Loop     == {"opening", "mapping", "waiting", "replacing", "unlinking", "refilling"}
Handing  == {"offering", "putting"}
Writing  == {"replacing", "unlinking", "refilling"}
Threads  == Loop \cup Handing \cup {"none", "checking", "dead"}

Sidecars == {"unread", "full", "bare"}
Items == [what : {"none", "chunk", "error", "end"}, chunk : 0 .. NChunks, sidecar : Sidecars]

DataTypeOK ==
  /\ metadata \in [Chunks -> {"none", "full", "bare"}] /\ arrays \subseteq Chunks
  /\ flock \in [Chunks -> Runs \cup {NoRun}]
  /\ main \in [Runs -> Early \cup Working \cup Leaving \cup Gone]
  /\ producer \in [Runs -> Threads]
  /\ at \in [Runs -> Chunks]
  /\ splits \in [Runs -> BOOLEAN] /\ warm \in [Runs -> BOOLEAN] /\ stop \in [Runs -> BOOLEAN]
  /\ sidecar \in [Runs -> Sidecars]
  /\ item \in [Runs -> {"none", "chunk", "error", "end"}]
  /\ queue \in [Runs -> {<<>>} \cup {<<i>> : i \in Items}]
  /\ hand \in [Runs -> Items]
  /\ mapped \in [Runs -> SUBSET Chunks]
  /\ taken \in [Runs -> Seq(Items)]
  /\ verdict \in [Runs -> {"none", "done", "raised"}]
  /\ halfway \in BOOLEAN

-----------------------------------------------------------------------------
(* The pipeline of one run.                                                 *)

\* The chunks computed on, in the hands of the main thread, in the queue, and the
\* one the producer is at.
Taken(r)  == {taken[r][i].chunk : i \in DOMAIN taken[r]}
InHand(r) == IF main[r] = "computing" THEN {hand[r].chunk} ELSE {}
Queued(r) == IF queue[r] = <<>> THEN {} ELSE MappedBy(r, Head(queue[r]))
OffersChunk(r) == producer[r] \in Handing /\ item[r] = "chunk"
Offered(r) == IF OffersChunk(r) THEN {at[r]} ELSE {}
Coming(r)  == IF OffersChunk(r) \/ producer[r] \in Loop THEN {at[r]} ELSE {}

Got(r) == Taken(r) \cup InHand(r) \cup Queued(r)
Wanted == Chunks \ Empty

InQueue(r, what) == queue[r] # <<>> /\ Head(queue[r]).what = what

\* The thread and the queue are there between the start of the pipeline and close().
InPlace(r) ==
  /\ main[r] \in Early => producer[r] = "none" /\ ~stop[r]
  /\ main[r] \in Working \cup Leaving => producer[r] # "none"
  /\ main[r] \in Working \cup {"closing"} => ~stop[r]
  /\ main[r] \in Early \cup Working => verdict[r] = "none"
  /\ main[r] \in {"sweeping"} \cup Gone => producer[r] = "dead"
  /\ main[r] \in Gone => queue[r] = <<>>
  /\ main[r] = "computing" => hand[r].what = "chunk"
  /\ producer[r] \in {"none", "checking"} =>
       main[r] # "computing" /\ queue[r] = <<>> /\ taken[r] = <<>>

\* What is mapped is on its way and nothing else.
MappedIsUsed(r) == mapped[r] = Offered(r) \cup Queued(r) \cup InHand(r)

\* Chunks come in order, each once.
Ordered(r) ==
  /\ \A i, j \in DOMAIN taken[r] : i < j => taken[r][i].chunk < taken[r][j].chunk
  /\ \A c \in Taken(r), d \in InHand(r) \cup Queued(r) \cup Coming(r) : c < d
  /\ \A c \in InHand(r), d \in Queued(r) \cup Coming(r) : c < d
  /\ \A c \in Queued(r), d \in Coming(r) : c < d

\* Nothing is passed over: an end comes after all of the window, or after an error
\* that the main thread finds first.
NothingMissed(r) ==
  /\ OffersChunk(r) => at[r] \in Wanted
  /\ main[r] \in Working =>
       /\ producer[r] \in Loop \/ OffersChunk(r) => Got(r) = {c \in Wanted : c < at[r]}
       /\ producer[r] \in Handing /\ item[r] = "end" =>
            InQueue(r, "error") \/ Got(r) = Wanted
       /\ InQueue(r, "end") => Got(r) = Wanted
  /\ verdict[r] = "done" => Taken(r) = Wanted

Pipe(r) == InPlace(r) /\ MappedIsUsed(r) /\ Ordered(r) /\ NothingMissed(r)

PipeInv == \A r \in Runs : Pipe(r)

-----------------------------------------------------------------------------
(* The entries.                                                             *)

\* Entries whose metadata promises arrays that are gone, and those a run has
\* removed and is about to publish again.
Torn == {c \in Chunks : metadata[c] # "none" /\ c \notin arrays}
Refilled(c) == \E r \in Runs : producer[r] = "refilling" /\ at[r] = c
Present(c) == metadata[c] # "none" \/ Refilled(c)

\* Who writes an entry holds its lock file, and what is removed was torn.
WritersLock(r) ==
  /\ producer[r] \in Writing => flock[at[r]] = r
  /\ producer[r] = "unlinking" => at[r] \in Torn
  /\ producer[r] = "waiting" => ~warm[r]

\* There is one entry at most that is torn or about to be published again.
EntriesWhole ==
  /\ \A c \in Chunks : metadata[c] # "bare"
  /\ \A c, d \in Chunks : (c \in Torn \/ Refilled(c)) /\ (d \in Torn \/ Refilled(d)) => c = d

\* A run that has not read its splits has seen every entry, and each is there or about
\* to be; if it has to build all the same, the torn one is being mended, and it will
\* find nothing left to write.
SplitsRead(r) ==
  /\ main[r] = "idle" => at[r] = 1
  /\ main[r] = "preflight" => \A c \in Chunks : c < at[r] => Present(c)
  /\ producer[r] \notin {"none", "dead"} /\ ~splits[r] => \A c \in Chunks : Present(c)
  /\ producer[r] \notin {"none", "checking", "dead"} /\ ~splits[r] /\ ~warm[r] => Torn = {}
  /\ producer[r] \in Writing => splits[r]

\* A chunk is handed over with its split adjustments.
WithSplits(r) ==
  /\ producer[r] = "mapping" \/ OffersChunk(r) => sidecar[r] = "full"
  /\ InQueue(r, "chunk") => Head(queue[r]).sidecar = "full"
  /\ main[r] = "computing" => hand[r].sidecar = "full"
  /\ \A i \in DOMAIN taken[r] : taken[r][i].sidecar = "full"

\* The splits are sure until kills have torn what one run can mend.
CacheInv ==
  /\ \A r \in Runs : WritersLock(r)
  /\ ~halfway => EntriesWhole /\ \A r \in Runs : SplitsRead(r) /\ WithSplits(r)

-----------------------------------------------------------------------------
(* The materialization.                                                     *)

BuildTypeOK ==
  /\ live \in {"none", "failed", "completed"}
  /\ keyLock \in Builders \cup {NoRun} /\ inserting \in Builders \cup {NoRun}
  /\ built \subseteq Builders /\ recorded \in BOOLEAN
  /\ stale \subseteq Builders /\ made \subseteq Builders
  /\ status \in [Runs -> {"none", "running", "completed", "failed"}]
  /\ paper \in [Papers -> Builds \cup {"failing", "recording", "noting", "noted"}]

\* Who looks under the lock has it until its transaction ends.
BuildersLock ==
  \A b \in Builders :
    Stands(b) \in {"looking", "inserting", "clashed", "building"} \/ b \in built => keyLock = b

\* A row is built by the one who inserted it or on one that is there already, and only
\* a built or completed one is attached to.
RowsOwned ==
  \A b \in Builders :
    /\ (Stands(b) = "building" \/ b \in built) /\ live = "none" => inserting = b
    /\ Stands(b) \in {"attaching", "committing"} => b \in built \/ live = "completed"
    /\ Stands(b) = "inserting" => live = "none" \/ recorded

\* The record of a failure is inserted where there is no row.
RecordsAlone ==
  \A p \in Papers : paper[p] = "noted" => inserting = p /\ live = "none"

\* What a transaction has built stays; whoever builds after it had loaded the row while
\* it was failed, and failed it was only after a record.
LaterAreStale ==
  /\ live = "failed" \/ stale # {} => recorded
  /\ made # {} => live = "completed"
  /\ \A b \in Builders : (Stands(b) = "building" \/ b \in built) /\ made # {} => b \in stale

BuildInv ==
  BuildTypeOK /\ BuildersLock /\ RowsOwned /\ RecordsAlone /\ LaterAreStale /\ BuiltOnce

-----------------------------------------------------------------------------
(* Types.                                                                   *)

LEMMA QueueIs ==
  ASSUME DataTypeOK, NEW r \in Runs
  PROVE  \/ queue[r] = <<>> /\ Len(queue[r]) = 0
         \/ /\ queue[r] # <<>> /\ Len(queue[r]) = 1
            /\ \E i \in Items : queue[r] = <<i>> /\ Head(queue[r]) = i
<1>1. queue[r] \in {<<>>} \cup {<<i>> : i \in Items}
  BY DEF DataTypeOK
<1>2. CASE queue[r] = <<>>
  BY <1>2
<1>3. ASSUME NEW i \in Items, queue[r] = <<i>>
      PROVE  queue[r] # <<>> /\ Len(queue[r]) = 1 /\ Head(queue[r]) = i
  BY <1>3
<1>. QED
  BY <1>1, <1>2, <1>3

LEMMA ItemIs ==
  ASSUME DataTypeOK, NEW r \in Runs
  PROVE  Item(r) \in Items /\ NoItem \in Items
BY ChunksAssumption DEF DataTypeOK, Item, Items, NoItem, Sidecars, Chunks

LEMMA ChunkOne == 1 \in Chunks /\ \A c \in Chunks : c \in Nat /\ (c < NChunks => c + 1 \in Chunks)
BY ChunksAssumption DEF Chunks

Whats == {"none", "chunk", "error", "end"}

\* What a step of the producer of r writes.
ProducerMoves(r) ==
  /\ producer' = producer \/ \E p \in Threads : producer' = Set(producer, r, p)
  /\ at' = at \/ \E a \in Chunks : at' = Set(at, r, a)
  /\ warm' = warm \/ warm' = Set(warm, r, TRUE)
  /\ sidecar' = sidecar \/ \E s \in Sidecars : sidecar' = Set(sidecar, r, s)
  /\ item' = item \/ \E w \in Whats : item' = Set(item, r, w)
  /\ queue' = queue \/ queue' = Set(queue, r, <<Item(r)>>)
  /\ mapped' = mapped \/ \E m \in SUBSET Chunks : mapped' = Set(mapped, r, m)
  /\ flock' = flock \/ \E h \in {r, NoRun} : flock' = [flock EXCEPT ![at[r]] = h]
  /\ arrays' = arrays \/ arrays' = arrays \cup {at[r]}
  /\ metadata' = metadata \/ \E m \in {"none", "full", "bare"} : metadata' = [metadata EXCEPT ![at[r]] = m]
  /\ UNCHANGED <<mainVars, splits, stop, crashes, halfway>>

LEMMA OfferingMoves ==
  ASSUME NEW r, NEW w \in Whats, Offering(r, w)
  PROVE  /\ \E p \in Threads : producer' = Set(producer, r, p)
         /\ \E v \in Whats : item' = Set(item, r, v)
BY DEF Offering, Go, Threads, Handing

LEMMA GoMoves ==
  ASSUME NEW r, NEW p \in Threads, Go(r, p)
  PROVE  \E q \in Threads : producer' = Set(producer, r, q)
BY DEF Go

LEMMA OpenedMoves ==
  ASSUME DataTypeOK, NEW r \in Runs, NEW s \in Sidecars, Opened(r, s)
  PROVE  /\ producer' = producer \/ \E p \in Threads : producer' = Set(producer, r, p)
         /\ at' = at \/ \E a \in Chunks : at' = Set(at, r, a)
         /\ \E v \in Sidecars : sidecar' = Set(sidecar, r, v)
         /\ item' = item \/ \E w \in Whats : item' = Set(item, r, w)
         /\ mapped' = mapped \/ \E m \in SUBSET Chunks : mapped' = Set(mapped, r, m)
<1>1. at[r] \in Chunks /\ mapped[r] \in SUBSET Chunks
  BY DEF DataTypeOK
<1>2. CASE at[r] \in Empty
  BY <1>1, <1>2, ChunkOne DEF Opened, Advance, Finished, Offering, Go, Threads, Loop, Handing, Whats,
                              Sidecars
<1>3. CASE at[r] \notin Empty
  BY <1>1, <1>3 DEF Opened, Offering, Go, Threads, Handing, Whats
<1>. QED
  BY <1>2, <1>3

LEMMA ProducerWrites ==
  ASSUME DataTypeOK, NEW r \in Runs, ProducerStep(r)
  PROVE  ProducerMoves(r)
<1>0. at[r] \in Chunks /\ mapped[r] \in SUBSET Chunks /\ sidecar[r] \in Sidecars
      /\ metadata[at[r]] \in {"none", "full", "bare"}
  BY DEF DataTypeOK
<1>1. CASE Check(r)
  BY <1>0, <1>1, ChunkOne DEF Check, ProducerMoves, Go, Raises, Offering, cacheVars, pipeVars, mainVars,
              Threads, Loop, Handing, Whats
<1>2. CASE Stopped(r)
  BY <1>2 DEF Stopped, ProducerMoves, Go, Offering, cacheVars, pipeVars, mainVars,
              Threads, Loop, Handing, Whats
<1>3. CASE OpenMetadata(r)
  BY <1>0, <1>3 DEF OpenMetadata, Missing, GiveUp, LoadShards, Raises, ProducerMoves, Go, Offering,
              cacheVars, pipeVars, mainVars, Threads, Loop, Handing, Sidecars, Whats
<1>4. CASE OpenArrays(r)
  BY <1>0, <1>4, OpenedMoves DEF OpenArrays, Missing, GiveUp, LoadShards, Raises, Whats,
              ProducerMoves, Go, Offering, cacheVars, mainVars, Threads, Loop, Handing, Sidecars
<1>5. CASE Reuse(r)
  BY <1>0, <1>5, OpenedMoves DEF Reuse, Readable, ProducerMoves, cacheVars, mainVars, Sidecars
<1>6. CASE Write(r)
  BY <1>0, <1>6 DEF Write, Raises, Locking, Whats,
              ProducerMoves, Go, Offering, pipeVars, mainVars, Threads, Loop, Handing, Sidecars
<1>7. CASE Unlink(r)
  BY <1>0, <1>7 DEF Unlink, ProducerMoves, Go, pipeVars, mainVars, Threads, Loop, Handing, Sidecars
<1>8. CASE Replace(r)
  <2>1. /\ \E m \in {"full", "bare"} : metadata' = [metadata EXCEPT ![at[r]] = m]
        /\ metadata \in [Chunks -> {"none", "full", "bare"}]
    BY <1>8 DEF Replace, DataTypeOK
  <2>2. metadata'[at[r]] \in Sidecars
    BY <1>0, <2>1 DEF Sidecars
  <2>. QED
    BY <1>0, <1>8, <2>1, <2>2, OpenedMoves DEF Replace, Unlocked, ProducerMoves, mainVars
<1>9. CASE Offer(r)
  BY <1>0, <1>9 DEF Offer, Unmap, ProducerMoves, Go, Offering, cacheVars, mainVars, Threads, Loop,
              Handing, Sidecars, Whats
<1>10. CASE Put(r)
  BY <1>0, <1>10, ChunkOne DEF Put, AfterPut, Advance, Finished, ProducerMoves, Go, Offering, cacheVars,
              mainVars, Threads, Loop, Handing, Sidecars, Whats
<1>. QED
  BY <1>1, <1>2, <1>3, <1>4, <1>5, <1>6, <1>7, <1>8, <1>9, <1>10 DEF ProducerStep

\* What another run has is not touched.
Untouched(q) ==
  /\ main'[q] = main[q] /\ producer'[q] = producer[q] /\ at'[q] = at[q] /\ splits'[q] = splits[q]
  /\ warm'[q] = warm[q] /\ sidecar'[q] = sidecar[q] /\ item'[q] = item[q] /\ queue'[q] = queue[q]
  /\ stop'[q] = stop[q] /\ hand'[q] = hand[q] /\ mapped'[q] = mapped[q] /\ taken'[q] = taken[q]
  /\ verdict'[q] = verdict[q]

LEMMA ProducerTyped ==
  ASSUME DataTypeOK, NEW r \in Runs, ProducerStep(r)
  PROVE  DataTypeOK' /\ \A q \in Runs \ {r} : Untouched(q)
<1>1. ProducerMoves(r)
  BY ProducerWrites
<1>2. at[r] \in Chunks
  BY DEF DataTypeOK
<1>3. producer' \in [Runs -> Threads] /\ \A q \in Runs \ {r} : producer'[q] = producer[q]
  <2>1. producer' = producer \/ \E p \in Threads : producer' = Set(producer, r, p)
    BY <1>1 DEF ProducerMoves
  <2>2. producer \in [Runs -> Threads]
    BY DEF DataTypeOK, Whats
  <2>. QED
    BY <2>1, <2>2 DEF Set
<1>4. at' \in [Runs -> Chunks] /\ \A q \in Runs \ {r} : at'[q] = at[q]
  <2>1. at' = at \/ \E a \in Chunks : at' = Set(at, r, a)
    BY <1>1 DEF ProducerMoves
  <2>2. at \in [Runs -> Chunks]
    BY DEF DataTypeOK, Whats
  <2>. QED
    BY <2>1, <2>2 DEF Set
<1>5. warm' \in [Runs -> BOOLEAN] /\ \A q \in Runs \ {r} : warm'[q] = warm[q]
  <2>1. warm' = warm \/ warm' = Set(warm, r, TRUE)
    BY <1>1 DEF ProducerMoves
  <2>2. warm \in [Runs -> BOOLEAN]
    BY DEF DataTypeOK, Whats
  <2>. QED
    BY <2>1, <2>2 DEF Set
<1>6. sidecar' \in [Runs -> Sidecars] /\ \A q \in Runs \ {r} : sidecar'[q] = sidecar[q]
  <2>1. sidecar' = sidecar \/ \E s \in Sidecars : sidecar' = Set(sidecar, r, s)
    BY <1>1 DEF ProducerMoves
  <2>2. sidecar \in [Runs -> Sidecars]
    BY DEF DataTypeOK, Whats
  <2>. QED
    BY <2>1, <2>2 DEF Set
<1>7. item' \in [Runs -> Whats] /\ \A q \in Runs \ {r} : item'[q] = item[q]
  <2>1. item' = item \/ \E w \in Whats : item' = Set(item, r, w)
    BY <1>1 DEF ProducerMoves
  <2>2. item \in [Runs -> Whats]
    BY DEF DataTypeOK, Whats
  <2>. QED
    BY <2>1, <2>2 DEF Set
<1>8. queue' \in [Runs -> {<<>>} \cup {<<i>> : i \in Items}] /\ \A q \in Runs \ {r} : queue'[q] = queue[q]
  <2>1. queue' = queue \/ queue' = Set(queue, r, <<Item(r)>>)
    BY <1>1 DEF ProducerMoves
  <2>2. queue \in [Runs -> {<<>>} \cup {<<i>> : i \in Items}]
    BY DEF DataTypeOK, Whats
  <2>3. <<Item(r)>> \in {<<>>} \cup {<<i>> : i \in Items}
    BY ItemIs
  <2>. QED
    BY <2>1, <2>2, <2>3 DEF Set
<1>9. mapped' \in [Runs -> SUBSET Chunks] /\ \A q \in Runs \ {r} : mapped'[q] = mapped[q]
  <2>1. mapped' = mapped \/ \E m \in SUBSET Chunks : mapped' = Set(mapped, r, m)
    BY <1>1 DEF ProducerMoves
  <2>2. mapped \in [Runs -> SUBSET Chunks]
    BY DEF DataTypeOK, Whats
  <2>. QED
    BY <2>1, <2>2 DEF Set
<1>10. flock' \in [Chunks -> Runs \cup {NoRun}]
  <2>1. flock' = flock \/ \E h \in {r, NoRun} : flock' = [flock EXCEPT ![at[r]] = h]
    BY <1>1 DEF ProducerMoves
  <2>2. flock \in [Chunks -> Runs \cup {NoRun}]
    BY DEF DataTypeOK
  <2>. QED
    BY <1>2, <2>1, <2>2
<1>11. arrays' \subseteq Chunks
  BY <1>1, <1>2 DEF ProducerMoves, DataTypeOK
<1>12. metadata' \in [Chunks -> {"none", "full", "bare"}]
  <2>1. metadata' = metadata
        \/ \E m \in {"none", "full", "bare"} : metadata' = [metadata EXCEPT ![at[r]] = m]
    BY <1>1 DEF ProducerMoves
  <2>2. metadata \in [Chunks -> {"none", "full", "bare"}]
    BY DEF DataTypeOK
  <2>. QED
    BY <1>2, <2>1, <2>2
<1>. QED
  BY <1>1, <1>3, <1>4, <1>5, <1>6, <1>7, <1>8, <1>9, <1>10, <1>11, <1>12
  DEF ProducerMoves, DataTypeOK, Untouched, mainVars, Whats

\* What a step of the main thread of r writes up to the end of close().
ConsumerMoves(r) ==
  /\ main' = main \/ \E p \in Working \cup Leaving \cup {"loading", "closed"} : main' = Set(main, r, p)
  /\ producer' = producer \/ producer' = Set(producer, r, "checking")
  /\ at' = at \/ \E a \in Chunks : at' = Set(at, r, a)
  /\ splits' = splits \/ \E b \in BOOLEAN : splits' = Set(splits, r, b)
  /\ warm' = warm \/ warm' = Set(warm, r, FALSE)
  /\ item' = item \/ item' = Set(item, r, "none")
  /\ queue' = queue \/ queue' = Set(queue, r, <<>>)
  /\ stop' = stop \/ stop' = Set(stop, r, TRUE)
  /\ mapped' = mapped \/ \E m \in SUBSET Chunks : mapped' = Set(mapped, r, m)
  /\ hand' = hand \/ \E h \in Items : hand' = Set(hand, r, h)
  /\ taken' = taken \/ \E t \in Seq(Items) : taken' = Set(taken, r, t)
  /\ verdict' = verdict \/ \E v \in {"done", "raised"} : verdict' = Set(verdict, r, v)
  /\ UNCHANGED <<cacheVars, sidecar, halfway>>

LEMMA ConsumerWrites ==
  ASSUME DataTypeOK, NEW r \in Runs, ConsumerStep(r)
  PROVE  ConsumerMoves(r)
<1>0. at[r] \in Chunks /\ mapped[r] \in SUBSET Chunks /\ taken[r] \in Seq(Items) /\ hand[r] \in Items
      /\ Append(taken[r], hand[r]) \in Seq(Items) /\ <<>> \in Seq(Items) /\ NoItem \in Items
  BY ItemIs DEF DataTypeOK
<1> USE DEF Set, Go, MainGo, Leave, threadVars, pipeVars, Working, Leaving
<1>1. CASE Preflight(r)
  BY <1>0, <1>1, ChunkOne, Zenon DEF Preflight, StartPipeline, ConsumerMoves
<1>2. CASE LoadSplits(r)
  BY <1>0, <1>2, ChunkOne DEF LoadSplits, StartPipeline, ConsumerMoves
<1>3. CASE Hydrate(r)
  BY <1>3 DEF Hydrate, ConsumerMoves
<1>4. CASE Take(r)
  <2>1. Head(queue[r]) \in Items
    BY <1>4, QueueIs DEF Take
  <2>. QED
    BY <1>4, <2>1 DEF Take, ConsumerMoves
<1>5. CASE Compute(r)
  BY <1>0, <1>5 DEF Compute, Unmap, ConsumerMoves
<1>6. CASE SetStop(r)
  BY <1>6 DEF SetStop, ConsumerMoves
<1>7. CASE Drain(r)
  BY <1>0, <1>7 DEF Drain, Discard, Unmap, ConsumerMoves
<1>8. CASE Sweep(r)
  BY <1>0, <1>8, ChunkOne DEF Sweep, Discard, Unmap, Forget, ConsumerMoves
<1>. QED
  BY <1>1, <1>2, <1>3, <1>4, <1>5, <1>6, <1>7, <1>8 DEF ConsumerStep

LEMMA ConsumerTyped ==
  ASSUME DataTypeOK, NEW r \in Runs, ConsumerStep(r)
  PROVE  DataTypeOK' /\ \A q \in Runs \ {r} : Untouched(q)
<1>1. ConsumerMoves(r)
  BY ConsumerWrites
<1>2. main' \in [Runs -> Early \cup Working \cup Leaving \cup Gone]
      /\ \A q \in Runs \ {r} : main'[q] = main[q]
  <2>1. main' = main \/ \E p \in Working \cup Leaving \cup {"loading", "closed"} : main' = Set(main, r, p)
    BY <1>1 DEF ConsumerMoves
  <2>2. main \in [Runs -> Early \cup Working \cup Leaving \cup Gone]
    BY DEF DataTypeOK, Whats
  <2>. QED
    BY <2>1, <2>2 DEF Set, Early, Gone, Later
<1>3. producer' \in [Runs -> Threads]
      /\ \A q \in Runs \ {r} : producer'[q] = producer[q]
  <2>1. producer' = producer \/ producer' = Set(producer, r, "checking")
    BY <1>1 DEF ConsumerMoves
  <2>2. producer \in [Runs -> Threads]
    BY DEF DataTypeOK, Whats
  <2>. QED
    BY <2>1, <2>2 DEF Set, Threads
<1>4. at' \in [Runs -> Chunks]
      /\ \A q \in Runs \ {r} : at'[q] = at[q]
  <2>1. at' = at \/ \E a \in Chunks : at' = Set(at, r, a)
    BY <1>1 DEF ConsumerMoves
  <2>2. at \in [Runs -> Chunks]
    BY DEF DataTypeOK, Whats
  <2>. QED
    BY <2>1, <2>2 DEF Set
<1>5. splits' \in [Runs -> BOOLEAN]
      /\ \A q \in Runs \ {r} : splits'[q] = splits[q]
  <2>1. splits' = splits \/ \E b \in BOOLEAN : splits' = Set(splits, r, b)
    BY <1>1 DEF ConsumerMoves
  <2>2. splits \in [Runs -> BOOLEAN]
    BY DEF DataTypeOK, Whats
  <2>. QED
    BY <2>1, <2>2 DEF Set
<1>6. warm' \in [Runs -> BOOLEAN]
      /\ \A q \in Runs \ {r} : warm'[q] = warm[q]
  <2>1. warm' = warm \/ warm' = Set(warm, r, FALSE)
    BY <1>1 DEF ConsumerMoves
  <2>2. warm \in [Runs -> BOOLEAN]
    BY DEF DataTypeOK, Whats
  <2>. QED
    BY <2>1, <2>2 DEF Set
<1>7. item' \in [Runs -> Whats]
      /\ \A q \in Runs \ {r} : item'[q] = item[q]
  <2>1. item' = item \/ item' = Set(item, r, "none")
    BY <1>1 DEF ConsumerMoves
  <2>2. item \in [Runs -> Whats]
    BY DEF DataTypeOK, Whats
  <2>. QED
    BY <2>1, <2>2 DEF Set, Whats
<1>8. queue' \in [Runs -> {<<>>} \cup {<<i>> : i \in Items}]
      /\ \A q \in Runs \ {r} : queue'[q] = queue[q]
  <2>1. queue' = queue \/ queue' = Set(queue, r, <<>>)
    BY <1>1 DEF ConsumerMoves
  <2>2. queue \in [Runs -> {<<>>} \cup {<<i>> : i \in Items}]
    BY DEF DataTypeOK, Whats
  <2>. QED
    BY <2>1, <2>2 DEF Set
<1>9. stop' \in [Runs -> BOOLEAN]
      /\ \A q \in Runs \ {r} : stop'[q] = stop[q]
  <2>1. stop' = stop \/ stop' = Set(stop, r, TRUE)
    BY <1>1 DEF ConsumerMoves
  <2>2. stop \in [Runs -> BOOLEAN]
    BY DEF DataTypeOK, Whats
  <2>. QED
    BY <2>1, <2>2 DEF Set
<1>10. mapped' \in [Runs -> SUBSET Chunks]
      /\ \A q \in Runs \ {r} : mapped'[q] = mapped[q]
  <2>1. mapped' = mapped \/ \E m \in SUBSET Chunks : mapped' = Set(mapped, r, m)
    BY <1>1 DEF ConsumerMoves
  <2>2. mapped \in [Runs -> SUBSET Chunks]
    BY DEF DataTypeOK, Whats
  <2>. QED
    BY <2>1, <2>2 DEF Set
<1>11. hand' \in [Runs -> Items]
      /\ \A q \in Runs \ {r} : hand'[q] = hand[q]
  <2>1. hand' = hand \/ \E h \in Items : hand' = Set(hand, r, h)
    BY <1>1 DEF ConsumerMoves
  <2>2. hand \in [Runs -> Items]
    BY DEF DataTypeOK, Whats
  <2>. QED
    BY <2>1, <2>2 DEF Set
<1>12. taken' \in [Runs -> Seq(Items)]
      /\ \A q \in Runs \ {r} : taken'[q] = taken[q]
  <2>1. taken' = taken \/ \E t \in Seq(Items) : taken' = Set(taken, r, t)
    BY <1>1 DEF ConsumerMoves
  <2>2. taken \in [Runs -> Seq(Items)]
    BY DEF DataTypeOK, Whats
  <2>. QED
    BY <2>1, <2>2 DEF Set
<1>13. verdict' \in [Runs -> {"none", "done", "raised"}]
      /\ \A q \in Runs \ {r} : verdict'[q] = verdict[q]
  <2>1. verdict' = verdict \/ \E v \in {"done", "raised"} : verdict' = Set(verdict, r, v)
    BY <1>1 DEF ConsumerMoves
  <2>2. verdict \in [Runs -> {"none", "done", "raised"}]
    BY DEF DataTypeOK, Whats
  <2>. QED
    BY <2>1, <2>2 DEF Set
<1>. QED
  BY <1>1, <1>2, <1>3, <1>4, <1>5, <1>6, <1>7, <1>8, <1>9, <1>10, <1>11, <1>12, <1>13
  DEF ConsumerMoves, DataTypeOK, Untouched, cacheVars, Whats

-----------------------------------------------------------------------------
(* The pipeline of a run: what its producer does.                           *)

LEMMA Elsewhere ==
  ASSUME NEW q \in Runs, Pipe(q), Untouched(q)
  PROVE  Pipe(q)'
BY DEF Pipe, Untouched, InPlace, MappedIsUsed, Ordered, NothingMissed, Taken, InHand, Queued,
       OffersChunk, Offered, Coming, Got, InQueue, MappedBy

\* The main thread's part of a run.
MainStays(r) ==
  /\ main'[r] = main[r] /\ stop'[r] = stop[r] /\ hand'[r] = hand[r] /\ taken'[r] = taken[r]
  /\ verdict'[r] = verdict[r]

LEMMA GoesRound ==
  ASSUME NEW r \in Runs, Pipe(r), MainStays(r), producer[r] \in Loop, producer'[r] \in Loop,
         at'[r] = at[r], queue'[r] = queue[r], mapped'[r] = mapped[r]
  PROVE  Pipe(r)'
BY DEF Pipe, MainStays, InPlace, MappedIsUsed, Ordered, NothingMissed, Taken, InHand, Queued,
       OffersChunk, Offered, Coming, Got, InQueue, MappedBy, Loop, Handing, Working, Gone, Later, Builds,
       Early

LEMMA OffersWord ==
  ASSUME NEW r \in Runs, Pipe(r), MainStays(r), producer[r] \in Loop \cup {"checking"},
         producer'[r] = "offering", item'[r] \in {"error", "end"},
         queue'[r] = queue[r], mapped'[r] = mapped[r],
         item'[r] = "end" => main[r] \notin Working \/ Got(r) = Wanted
  PROVE  Pipe(r)'
<1>1. /\ ~OffersChunk(r) /\ ~OffersChunk(r)' /\ Coming(r)' = {} /\ producer'[r] \notin Loop
      /\ Offered(r) = {} /\ Offered(r)' = {}
  BY DEF OffersChunk, Coming, Offered, Loop, Handing
<1>2. /\ Taken(r)' = Taken(r) /\ InHand(r)' = InHand(r) /\ Queued(r)' = Queued(r)
      /\ Got(r)' = Got(r)
  BY DEF MainStays, Taken, InHand, Queued, Got, MappedBy
<1>3. MappedIsUsed(r)'
  BY <1>1, <1>2 DEF Pipe, MappedIsUsed
<1>4. InPlace(r)'
  BY DEF Pipe, InPlace, MainStays, Loop
<1>5. Ordered(r)'
  BY <1>1, <1>2 DEF Pipe, Ordered, MainStays
<1>6. NothingMissed(r)'
  BY <1>1, <1>2 DEF Pipe, NothingMissed, MainStays, InQueue
<1>. QED
  BY <1>3, <1>4, <1>5, <1>6 DEF Pipe

LEMMA OffersRows ==
  ASSUME DataTypeOK, NEW r \in Runs, Pipe(r), MainStays(r), producer[r] \in Loop,
         at[r] \notin Empty, producer'[r] = "offering", item'[r] = "chunk", at'[r] = at[r],
         queue'[r] = queue[r], mapped'[r] = mapped[r] \cup {at[r]}
  PROVE  Pipe(r)'
<1>1. at[r] \in Wanted
  BY DEF DataTypeOK, Wanted
<1>2. ~OffersChunk(r) /\ OffersChunk(r)' /\ Coming(r)' = Coming(r)
      /\ Offered(r) = {} /\ Offered(r)' = {at[r]}
  BY DEF OffersChunk, Coming, Offered, Loop, Handing
<1>3. /\ Taken(r)' = Taken(r) /\ InHand(r)' = InHand(r) /\ Queued(r)' = Queued(r)
      /\ Got(r)' = Got(r)
  BY DEF MainStays, Taken, InHand, Queued, Got, MappedBy
<1>4. InPlace(r)' /\ MappedIsUsed(r)'
  BY <1>2, <1>3 DEF Pipe, InPlace, MappedIsUsed, MainStays, Loop
<1>5. Ordered(r)'
  BY <1>2, <1>3 DEF Pipe, Ordered, MainStays
<1>6. NothingMissed(r)'
  BY <1>1, <1>2, <1>3 DEF Pipe, NothingMissed, MainStays, InQueue
<1>. QED
  BY <1>4, <1>5, <1>6 DEF Pipe

\* Chunks are numbers.
LEMMA GotNumbers ==
  ASSUME DataTypeOK, NEW r \in Runs
  PROVE  /\ Taken(r) \subseteq 0 .. NChunks /\ InHand(r) \subseteq 0 .. NChunks
         /\ Queued(r) \subseteq 0 .. NChunks /\ Got(r) \subseteq 0 .. NChunks
<1>1. Taken(r) \subseteq 0 .. NChunks
  <2>1. taken[r] \in Seq(Items)
    BY DEF DataTypeOK
  <2>2. \A i \in DOMAIN taken[r] : taken[r][i] \in Items
    BY <2>1
  <2>. QED
    BY <2>2 DEF Taken, Items
<1>2. InHand(r) \subseteq 0 .. NChunks
  BY DEF DataTypeOK, InHand, Items
<1>3. Queued(r) \subseteq 0 .. NChunks
  BY QueueIs DEF Queued, MappedBy, Items
<1>. QED
  BY <1>1, <1>2, <1>3 DEF Got

LEMMA PassesOver ==
  ASSUME DataTypeOK, NEW r \in Runs, Pipe(r), MainStays(r), producer[r] \in Loop,
         at[r] \in Empty, at[r] < NChunks, producer'[r] = "opening", at'[r] = at[r] + 1,
         queue'[r] = queue[r], mapped'[r] = mapped[r]
  PROVE  Pipe(r)'
<1>1. at[r] \in Nat /\ {c \in Wanted : c < at[r] + 1} = {c \in Wanted : c < at[r]}
  BY ChunksAssumption DEF DataTypeOK, Wanted, Chunks
<1>2. ~OffersChunk(r) /\ ~OffersChunk(r)' /\ Coming(r)' = {at[r] + 1} /\ Coming(r) = {at[r]}
  BY DEF OffersChunk, Coming, Loop, Handing
<1>3. /\ Taken(r)' = Taken(r) /\ InHand(r)' = InHand(r) /\ Queued(r)' = Queued(r)
      /\ Got(r)' = Got(r) /\ Offered(r)' = Offered(r)
  BY <1>2 DEF MainStays, Taken, InHand, Queued, Got, Offered, MappedBy
<1>4. \A c \in Got(r) : c < at[r] + 1
  <2>1. \A c \in Got(r) : c < at[r]
    BY <1>2 DEF Pipe, Ordered, Got
  <2>2. \A c \in Got(r) : c \in Nat
    BY GotNumbers, ChunksAssumption
  <2>. QED
    BY <1>1, <2>1, <2>2
<1>5. InPlace(r)' /\ MappedIsUsed(r)'
  BY <1>2, <1>3 DEF Pipe, InPlace, MappedIsUsed, MainStays, Loop
<1>6. Ordered(r)'
  BY <1>2, <1>3, <1>4 DEF Pipe, Ordered, MainStays, Got
<1>7. NothingMissed(r)'
  BY <1>1, <1>2, <1>3 DEF Pipe, NothingMissed, MainStays, InQueue, Loop, Handing
<1>. QED
  BY <1>5, <1>6, <1>7 DEF Pipe

LEMMA TurnsBack ==
  ASSUME NEW r \in Runs, Pipe(r), MainStays(r), producer[r] \in Handing, producer'[r] \in Handing,
         at'[r] = at[r], item'[r] = item[r], queue'[r] = queue[r], mapped'[r] = mapped[r]
  PROVE  Pipe(r)'
<1>1. /\ OffersChunk(r)' = OffersChunk(r) /\ Coming(r)' = Coming(r) /\ Offered(r)' = Offered(r)
      /\ producer[r] \notin Loop /\ producer'[r] \notin Loop
  BY DEF OffersChunk, Coming, Offered, Loop, Handing
<1>2. /\ Taken(r)' = Taken(r) /\ InHand(r)' = InHand(r) /\ Queued(r)' = Queued(r)
      /\ Got(r)' = Got(r)
  BY DEF MainStays, Taken, InHand, Queued, Got, MappedBy
<1>3. MappedIsUsed(r)'
  BY <1>1, <1>2 DEF Pipe, MappedIsUsed
<1>4. InPlace(r)'
  BY DEF Pipe, InPlace, MainStays, Handing
<1>5. Ordered(r)'
  BY <1>1, <1>2 DEF Pipe, Ordered, MainStays
<1>6. NothingMissed(r)'
  BY <1>1, <1>2 DEF Pipe, NothingMissed, MainStays, InQueue
<1>. QED
  BY <1>3, <1>4, <1>5, <1>6 DEF Pipe

\* After the Event is set an item is closed and only the end is left to offer.
LEMMA GivesUp ==
  ASSUME DataTypeOK, NEW r \in Runs, Pipe(r), MainStays(r), producer[r] = "offering", stop[r],
         producer'[r] = "dead" \/ (producer'[r] = "offering" /\ item'[r] = "end"),
         producer'[r] = "dead" => item[r] = "end",
         queue'[r] = queue[r], mapped'[r] = mapped[r] \ Offered(r)
  PROVE  Pipe(r)'
<1>1. /\ ~OffersChunk(r)' /\ Coming(r)' = {} /\ Offered(r)' = {}
      /\ main[r] \notin Working
  BY DEF OffersChunk, Coming, Offered, Loop, Handing, Pipe, InPlace
<1>2. /\ Taken(r)' = Taken(r) /\ InHand(r)' = InHand(r) /\ Queued(r)' = Queued(r)
      /\ Got(r)' = Got(r)
  BY DEF MainStays, Taken, InHand, Queued, Got, MappedBy
<1>3. MappedIsUsed(r)'
  <2>1. Offered(r) \cap Queued(r) = {}
    <3>1. Offered(r) \subseteq Coming(r)
      BY DEF Offered, Coming
    <3>2. \A c \in Queued(r), d \in Offered(r) : c < d
      BY <3>1 DEF Pipe, Ordered
    <3>3. Queued(r) \subseteq Nat
      BY GotNumbers, ChunksAssumption
    <3>. QED
      BY <3>2, <3>3
  <2>2. InHand(r) = {}
    BY <1>1 DEF InHand, Working
  <2>. QED
    BY <1>1, <1>2, <2>1, <2>2 DEF Pipe, MappedIsUsed
<1>4. InPlace(r)'
  BY <1>1 DEF Pipe, InPlace, MainStays, Working, Early
<1>5. Ordered(r)'
  BY <1>1, <1>2 DEF Pipe, Ordered, MainStays
<1>6. NothingMissed(r)'
  BY <1>1, <1>2 DEF Pipe, NothingMissed, MainStays, InQueue
<1>. QED
  BY <1>3, <1>4, <1>5, <1>6 DEF Pipe

LEMMA PutsPipe ==
  ASSUME DataTypeOK, NEW r \in Runs, Pipe(r), MainStays(r), producer[r] = "putting",
         queue[r] = <<>>, queue'[r] = <<Item(r)>>, mapped'[r] = mapped[r],
         \/ /\ item[r] = "chunk" /\ at[r] < NChunks
            /\ producer'[r] = "opening" /\ at'[r] = at[r] + 1
         \/ /\ item[r] = "chunk" /\ ~(at[r] < NChunks) /\ at'[r] = at[r]
            /\ producer'[r] = "offering"
            /\ item'[r] = IF Empty = Chunks THEN "error" ELSE "end"
         \/ /\ item[r] = "error" /\ item'[r] = "end" /\ producer'[r] = "offering" /\ at'[r] = at[r]
         \/ /\ item[r] = "end" /\ producer'[r] = "dead" /\ item'[r] = item[r] /\ at'[r] = at[r]
  PROVE  Pipe(r)'
<1>1. /\ Head(queue'[r]).what = item[r] /\ Head(queue'[r]).chunk = at[r] /\ queue'[r] # <<>>
      /\ \A what : InQueue(r, what)' <=> item[r] = what
  BY DEF Item, InQueue
<1>2. /\ Queued(r) = {} /\ Queued(r)' = IF item[r] = "chunk" THEN {at[r]} ELSE {}
      /\ \A what : ~InQueue(r, what)
  BY <1>1 DEF Queued, MappedBy, InQueue
<1>3. /\ Taken(r)' = Taken(r) /\ InHand(r)' = InHand(r)
      /\ Got(r)' = Got(r) \cup Queued(r)'
  BY <1>2 DEF MainStays, Taken, InHand, Got
<1>4. /\ Offered(r) = Queued(r)' /\ ~OffersChunk(r)' /\ Offered(r)' = {}
      /\ Coming(r)' = IF item[r] = "chunk" /\ at[r] < NChunks THEN {at[r] + 1} ELSE {}
      /\ Coming(r) = Offered(r) /\ (OffersChunk(r) <=> item[r] = "chunk")
      /\ (producer'[r] \in Loop <=> item[r] = "chunk" /\ at[r] < NChunks)
  BY <1>2 DEF Offered, OffersChunk, Coming, Handing, Loop
<1>5. at[r] \in Nat /\ at[r] <= NChunks /\ NChunks \in Nat
  BY ChunksAssumption DEF DataTypeOK, Chunks
<1>6. MappedIsUsed(r)'
  BY <1>2, <1>3, <1>4 DEF Pipe, MappedIsUsed
<1>7. InPlace(r)'
  BY DEF Pipe, InPlace, MainStays, Gone, Later, Builds
<1>8. Ordered(r)'
  <2>1. \A c \in Taken(r) \cup InHand(r) : c \in Nat
    BY GotNumbers, <1>5
  <2>2. \A c \in Taken(r) \cup InHand(r), d \in Queued(r)' : c < d
    BY <1>4 DEF Pipe, Ordered
  <2>3. \A c \in Taken(r) \cup InHand(r), d \in Coming(r)' : c < d
    <3>1. CASE item[r] = "chunk" /\ at[r] < NChunks
      <4>1. \A c \in Taken(r) \cup InHand(r) : c < at[r]
        BY <1>2, <2>2, <3>1
      <4>. QED
        BY <1>4, <1>5, <2>1, <3>1, <4>1
    <3>2. CASE ~(item[r] = "chunk" /\ at[r] < NChunks)
      BY <1>4, <3>2
    <3>. QED
      BY <3>1, <3>2
  <2>4. \A c \in Queued(r)', d \in Coming(r)' : c < d
    BY <1>2, <1>4, <1>5
  <2>5. \A c \in Taken(r), d \in InHand(r) : c < d
    BY DEF Pipe, Ordered
  <2>. QED
    BY <1>3, <2>2, <2>3, <2>4, <2>5 DEF Pipe, Ordered, MainStays
<1>9. NothingMissed(r)'
  <2>1. CASE item[r] = "chunk"
    <3>1. at[r] \in Wanted /\ Empty # Chunks
      BY <1>4, <2>1 DEF Pipe, NothingMissed, Wanted
    <3>2. main[r] \in Working => Got(r)' = {c \in Wanted : c < at[r]} \cup {at[r]}
      BY <1>2, <1>3, <1>4, <2>1 DEF Pipe, NothingMissed
    <3>3. {c \in Wanted : c < at[r]} \cup {at[r]} = {c \in Wanted : c < at[r] + 1}
      BY <1>5, <3>1 DEF Wanted, Chunks
    <3>4. ~(at[r] < NChunks) => {c \in Wanted : c < at[r] + 1} = Wanted
      BY <1>5 DEF Wanted, Chunks
    <3>5. CASE at[r] < NChunks
      BY <1>1, <1>3, <1>4, <2>1, <3>2, <3>3, <3>5 DEF Pipe, NothingMissed, MainStays, Handing
    <3>6. CASE ~(at[r] < NChunks)
      BY <1>1, <1>3, <1>4, <2>1, <3>1, <3>2, <3>3, <3>4, <3>6
      DEF Pipe, NothingMissed, MainStays, Handing
    <3>. QED
      BY <3>5, <3>6
  <2>2. CASE item[r] # "chunk"
    <3>1. Got(r)' = Got(r)
      BY <1>2, <1>3, <2>2
    <3>2. item[r] = "end" => (main[r] \in Working => Got(r) = Wanted)
      BY <1>2 DEF Pipe, NothingMissed, Handing
    <3>. QED
      BY <1>1, <1>3, <1>4, <2>2, <3>1, <3>2 DEF Pipe, NothingMissed, MainStays, Handing
  <2>. QED
    BY <2>1, <2>2
<1>. QED
  BY <1>6, <1>7, <1>8, <1>9 DEF Pipe

\* The thread has found where to begin.
LEMMA Begins ==
  ASSUME DataTypeOK, NEW r \in Runs, Pipe(r), MainStays(r), producer[r] = "checking",
         \/ producer'[r] = "opening" /\ at'[r] = 1
         \/ producer'[r] = "checking",
         queue'[r] = queue[r], mapped'[r] = mapped[r]
  PROVE  Pipe(r)'
<1>1. /\ Taken(r) = {} /\ InHand(r) = {} /\ Queued(r) = {} /\ Got(r) = {} /\ taken[r] = <<>>
      /\ \A what : ~InQueue(r, what)
  BY DEF Pipe, InPlace, Taken, InHand, Queued, Got, InQueue
<1>2. /\ Taken(r)' = {} /\ InHand(r)' = {} /\ Queued(r)' = {} /\ Got(r)' = {} /\ taken'[r] = <<>>
      /\ \A what : ~InQueue(r, what)'
  BY <1>1 DEF MainStays, Taken, InHand, Queued, Got, MappedBy, InQueue
<1>3. /\ Offered(r) = {} /\ Offered(r)' = {} /\ ~OffersChunk(r)' /\ producer'[r] \notin Handing
      /\ producer'[r] \in Loop => at'[r] = 1
  BY DEF Offered, OffersChunk, Handing, Loop
<1>4. {c \in Wanted : c < 1} = {}
  BY DEF Wanted, Chunks
<1>5. MappedIsUsed(r)'
  BY <1>1, <1>2, <1>3 DEF Pipe, MappedIsUsed
<1>6. InPlace(r)'
  BY <1>2 DEF Pipe, InPlace, MainStays
<1>7. Ordered(r)'
  BY <1>2 DEF Ordered
<1>8. NothingMissed(r)'
  BY <1>1, <1>2, <1>3, <1>4 DEF Pipe, NothingMissed, MainStays
<1>. QED
  BY <1>5, <1>6, <1>7, <1>8 DEF Pipe

LEMMA OpenedPipe ==
  ASSUME DataTypeOK, NEW r \in Runs, Pipe(r), MainStays(r), producer[r] \in Loop,
         queue'[r] = queue[r], NEW s, Opened(r, s)
  PROVE  Pipe(r)'
<1>1. /\ producer \in [Runs -> Threads] /\ at \in [Runs -> Chunks] /\ item \in [Runs -> Whats]
      /\ mapped \in [Runs -> SUBSET Chunks]
  BY DEF DataTypeOK, Whats
<1>2. at[r] \in Nat /\ at[r] <= NChunks /\ NChunks \in Nat /\ 1 \in Chunks
  BY <1>1, ChunksAssumption DEF Chunks
<1>3. CASE at[r] \notin Empty
  <2>1. /\ producer'[r] = "offering" /\ item'[r] = "chunk" /\ at'[r] = at[r]
        /\ mapped'[r] = mapped[r] \cup {at[r]}
    BY <1>1, <1>3 DEF Opened, Offering, Go, Set
  <2>. QED
    BY <1>3, <2>1, OffersRows
<1>4. CASE at[r] \in Empty /\ at[r] < NChunks
  <2>1. producer'[r] = "opening" /\ at'[r] = at[r] + 1 /\ mapped'[r] = mapped[r]
    BY <1>1, <1>4 DEF Opened, Advance, Go, Set
  <2>. QED
    BY <1>4, <2>1, PassesOver
<1>5. CASE at[r] \in Empty /\ ~(at[r] < NChunks)
  <2>1. /\ producer'[r] = "offering" /\ item'[r] = IF Empty = Chunks THEN "error" ELSE "end"
        /\ mapped'[r] = mapped[r]
    BY <1>1, <1>5 DEF Opened, Advance, Finished, Offering, Go, Set
  <2>2. main[r] \in Working => Got(r) = {c \in Wanted : c < at[r]}
    BY DEF Pipe, NothingMissed
  <2>3. {c \in Wanted : c < at[r]} = Wanted
    BY <1>2, <1>5 DEF Wanted, Chunks
  <2>. QED
    BY <2>1, <2>2, <2>3, OffersWord
<1>. QED
  BY <1>3, <1>4, <1>5

LEMMA RaisesPipe ==
  ASSUME DataTypeOK, NEW r \in Runs, Pipe(r), MainStays(r), producer[r] \in Loop \cup {"checking"},
         queue'[r] = queue[r], mapped'[r] = mapped[r], Raises(r)
  PROVE  Pipe(r)'
<1>1. producer'[r] = "offering" /\ item'[r] = "error"
  BY DEF DataTypeOK, Raises, Offering, Go, Set
<1>. QED
  BY <1>1, OffersWord

LEMMA ProducerPipe ==
  ASSUME DataTypeOK, NEW r \in Runs, Pipe(r), ProducerStep(r)
  PROVE  Pipe(r)'
<1>1. /\ producer \in [Runs -> Threads] /\ at \in [Runs -> Chunks] /\ item \in [Runs -> Whats]
      /\ mapped \in [Runs -> SUBSET Chunks] /\ queue \in [Runs -> {<<>>} \cup {<<i>> : i \in Items}]
  BY DEF DataTypeOK, Whats
<1>2. MainStays(r)
  BY ProducerWrites DEF ProducerMoves, MainStays, mainVars
<1>3. \A p : Go(r, p) => producer'[r] = p
  BY <1>1 DEF Go, Set
<1>4. CASE Check(r)
  <2>1. /\ producer[r] = "checking" /\ queue'[r] = queue[r] /\ mapped'[r] = mapped[r]
    BY <1>4 DEF Check, pipeVars
  <2>2. \/ producer'[r] = "opening" /\ at'[r] = 1
        \/ producer'[r] = "checking"
        \/ Raises(r)
    BY <1>1, <1>3, <1>4, <2>1 DEF Check, Set
  <2>. QED
    BY <1>2, <2>1, <2>2, Begins, RaisesPipe
<1>5. CASE Stopped(r)
  <2>1. /\ producer[r] = "opening" /\ producer'[r] = "offering" /\ item'[r] = "end" /\ stop[r]
        /\ queue'[r] = queue[r] /\ mapped'[r] = mapped[r]
    BY <1>1, <1>3, <1>5 DEF Stopped, Heeds, Offering, Set, pipeVars
  <2>2. main[r] \notin Working /\ producer[r] \in Loop
    BY <2>1 DEF Pipe, InPlace, Loop
  <2>. QED
    BY <1>2, <2>1, <2>2, OffersWord
<1>6. CASE OpenMetadata(r)
  <2>1. /\ producer[r] \in Loop /\ queue'[r] = queue[r] /\ mapped'[r] = mapped[r] /\ at'[r] = at[r]
    BY <1>6 DEF OpenMetadata, Loop, pipeVars
  <2>2. producer'[r] \in Loop \/ Raises(r)
    BY <1>3, <1>6 DEF OpenMetadata, Missing, GiveUp, LoadShards, Loop
  <2>. QED
    BY <1>2, <2>1, <2>2, GoesRound, RaisesPipe
<1>7. CASE OpenArrays(r)
  <2>1. /\ producer[r] \in Loop /\ queue'[r] = queue[r]
    BY <1>7 DEF OpenArrays, Loop
  <2>2. \/ Opened(r, sidecar[r])
        \/ mapped'[r] = mapped[r] /\ at'[r] = at[r] /\ (producer'[r] \in Loop \/ Raises(r))
    BY <1>3, <1>7 DEF OpenArrays, Missing, GiveUp, LoadShards, Loop
  <2>. QED
    BY <1>2, <2>1, <2>2, GoesRound, RaisesPipe, OpenedPipe
<1>8. CASE Reuse(r)
  <2>1. /\ producer[r] \in Loop /\ queue'[r] = queue[r] /\ Opened(r, metadata[at[r]])
    BY <1>8 DEF Reuse, Locking, Loop
  <2>. QED
    BY <1>2, <2>1, OpenedPipe
<1>9. CASE Write(r)
  <2>1. /\ producer[r] \in Loop /\ queue'[r] = queue[r] /\ mapped'[r] = mapped[r] /\ at'[r] = at[r]
        /\ producer'[r] \in Loop \/ Raises(r)
    BY <1>3, <1>9 DEF Write, Locking, Loop, pipeVars
  <2>. QED
    BY <1>2, <2>1, GoesRound, RaisesPipe
<1>10. CASE Unlink(r)
  <2>1. /\ producer[r] \in Loop /\ queue'[r] = queue[r] /\ mapped'[r] = mapped[r] /\ at'[r] = at[r]
        /\ producer'[r] \in Loop
    BY <1>3, <1>10 DEF Unlink, Loop, pipeVars
  <2>. QED
    BY <1>2, <2>1, GoesRound
<1>11. CASE Replace(r)
  <2>1. /\ producer[r] \in Loop /\ queue'[r] = queue[r] /\ Opened(r, metadata'[at[r]])
    BY <1>11 DEF Replace, Loop
  <2>. QED
    BY <1>2, <2>1, OpenedPipe
<1>12. CASE Offer(r)
  <2>1. producer[r] = "offering" /\ queue'[r] = queue[r] /\ at'[r] = at[r]
    BY <1>12 DEF Offer
  <2>2. CASE stop[r]
    <3>1. MappedBy(r, Item(r)) = Offered(r)
      BY <2>1 DEF MappedBy, Item, Offered, OffersChunk, Handing
    <3>2. mapped'[r] = mapped[r] \ Offered(r)
      BY <1>1, <1>12, <2>2, <3>1 DEF Offer, Unmap, Set
    <3>3. \/ producer'[r] = "dead" /\ item[r] = "end"
          \/ producer'[r] = "offering" /\ item'[r] = "end"
      BY <1>1, <1>3, <1>12, <2>2 DEF Offer, Offering, Set
    <3>. QED
      BY <1>2, <2>1, <2>2, <3>2, <3>3, GivesUp
  <2>3. CASE ~stop[r]
    <3>1. producer'[r] = "putting" /\ item'[r] = item[r] /\ mapped'[r] = mapped[r]
      BY <1>3, <1>12, <2>3 DEF Offer
    <3>. QED
      BY <1>2, <2>1, <3>1, TurnsBack DEF Handing
  <2>. QED
    BY <2>2, <2>3
<1>13. CASE Put(r)
  <2>1. producer[r] = "putting" /\ mapped'[r] = mapped[r]
    BY <1>13 DEF Put
  <2>2. CASE /\ Len(queue[r]) > 0 /\ Go(r, "offering") /\ UNCHANGED <<queue, item, at>>
    BY <1>2, <1>3, <2>1, <2>2, TurnsBack DEF Handing
  <2>3. CASE /\ Len(queue[r]) = 0 /\ queue' = Set(queue, r, <<Item(r)>>) /\ AfterPut(r)
    <3>1. queue[r] = <<>> /\ queue'[r] = <<Item(r)>>
      BY <1>1, <2>3, QueueIs DEF Set
    <3>2. CASE item[r] = "chunk" /\ Advance(r) /\ at[r] < NChunks
      <4>1. producer'[r] = "opening" /\ at'[r] = at[r] + 1
        BY <1>1, <1>3, <3>2 DEF Advance, Set
      <4>. QED
        BY <1>2, <2>1, <3>1, <3>2, <4>1, PutsPipe
    <3>3. CASE item[r] = "chunk" /\ Advance(r) /\ ~(at[r] < NChunks)
      <4>1. /\ producer'[r] = "offering" /\ at'[r] = at[r]
            /\ item'[r] = IF Empty = Chunks THEN "error" ELSE "end"
        BY <1>1, <1>3, <3>3 DEF Advance, Finished, Offering, Set
      <4>. QED
        BY <1>2, <2>1, <3>1, <3>3, <4>1, PutsPipe
    <3>4. CASE item[r] = "error" /\ Offering(r, "end") /\ UNCHANGED at
      <4>1. producer'[r] = "offering" /\ item'[r] = "end" /\ at'[r] = at[r]
        BY <1>1, <1>3, <3>4 DEF Offering, Set
      <4>. QED
        BY <1>2, <2>1, <3>1, <3>4, <4>1, PutsPipe
    <3>5. CASE item[r] = "end" /\ Go(r, "dead") /\ UNCHANGED <<item, at>>
      <4>1. producer'[r] = "dead" /\ item'[r] = item[r] /\ at'[r] = at[r]
        BY <1>3, <3>5
      <4>. QED
        BY <1>2, <2>1, <3>1, <3>5, <4>1, PutsPipe
    <3>. QED
      BY <2>3, <3>2, <3>3, <3>4, <3>5 DEF AfterPut
  <2>. QED
    BY <1>13, <2>2, <2>3 DEF Put
<1>. QED
  BY <1>4, <1>5, <1>6, <1>7, <1>8, <1>9, <1>10, <1>11, <1>12, <1>13 DEF ProducerStep

-----------------------------------------------------------------------------
(* The pipeline of a run: what its main thread does.                        *)

\* The thread's part of a run.
ThreadStays(r) ==
  /\ producer'[r] = producer[r] /\ at'[r] = at[r] /\ item'[r] = item[r]

\* Before there is a thread.
LEMMA PreparesPipe ==
  ASSUME NEW r \in Runs, Pipe(r), main[r] \in Early,
         \/ main'[r] \in Early /\ producer'[r] = producer[r]
         \/ main'[r] = "hydrating" /\ producer'[r] = "checking",
         stop'[r] = stop[r], queue'[r] = queue[r], mapped'[r] = mapped[r], taken'[r] = taken[r],
         verdict'[r] = verdict[r]
  PROVE  Pipe(r)'
<1>1. /\ producer[r] = "none" /\ ~stop[r] /\ verdict[r] = "none" /\ queue[r] = <<>> /\ taken[r] = <<>>
      /\ main[r] # "computing" /\ main'[r] # "computing"
      /\ producer'[r] \in {"none", "checking"}
  BY DEF Pipe, InPlace, Early
<1>2. /\ Taken(r)' = {} /\ InHand(r)' = {} /\ Queued(r)' = {} /\ Coming(r)' = {} /\ Offered(r)' = {}
      /\ Taken(r) = {} /\ InHand(r) = {} /\ Queued(r) = {} /\ Coming(r) = {} /\ Offered(r) = {}
      /\ ~OffersChunk(r)' /\ producer'[r] \notin Loop \cup Handing /\ \A what : ~InQueue(r, what)'
  BY <1>1 DEF Taken, InHand, Queued, Coming, Offered, OffersChunk, Loop, Handing, InQueue
<1>3. InPlace(r)'
  BY <1>1 DEF InPlace, Early, Working, Leaving, Gone, Later, Builds
<1>4. MappedIsUsed(r)'
  BY <1>2 DEF Pipe, MappedIsUsed
<1>5. Ordered(r)' /\ NothingMissed(r)'
  BY <1>1, <1>2 DEF Ordered, NothingMissed
<1>. QED
  BY <1>3, <1>4, <1>5 DEF Pipe

\* The main thread goes on to close() with a verdict.
LEMMA LeavesPipe ==
  ASSUME NEW r \in Runs, Pipe(r), ThreadStays(r), main[r] \in Working, main'[r] = "closing",
         stop'[r] = stop[r], taken'[r] = taken[r],
         queue'[r] = queue[r] \/ queue'[r] = <<>>,
         mapped'[r] = Offered(r) \cup Queued(r)',
         \/ verdict'[r] = "raised"
         \/ verdict'[r] = "done" /\ Taken(r) = Wanted
  PROVE  Pipe(r)'
<1>1. /\ Taken(r)' = Taken(r) /\ InHand(r)' = {} /\ Queued(r)' \subseteq Queued(r)
      /\ Coming(r)' = Coming(r) /\ Offered(r)' = Offered(r) /\ (OffersChunk(r)' <=> OffersChunk(r))
  BY DEF ThreadStays, Taken, InHand, Queued, Coming, Offered, OffersChunk, MappedBy
<1>2. InPlace(r)'
  BY DEF Pipe, InPlace, ThreadStays, Early, Working, Leaving, Gone, Later, Builds
<1>3. MappedIsUsed(r)'
  BY <1>1 DEF MappedIsUsed
<1>4. Ordered(r)'
  BY <1>1 DEF Pipe, Ordered
<1>5. NothingMissed(r)'
  BY <1>1 DEF Pipe, NothingMissed, ThreadStays, Working
<1>. QED
  BY <1>2, <1>3, <1>4, <1>5 DEF Pipe

LEMMA TakesPipe ==
  ASSUME NEW r \in Runs, Pipe(r), ThreadStays(r), main[r] = "taking", main'[r] = "computing",
         InQueue(r, "chunk"), hand'[r] = Head(queue[r]), queue'[r] = <<>>,
         stop'[r] = stop[r], taken'[r] = taken[r], mapped'[r] = mapped[r], verdict'[r] = verdict[r]
  PROVE  Pipe(r)'
<1>1. /\ Taken(r)' = Taken(r) /\ InHand(r) = {} /\ InHand(r)' = Queued(r) /\ Queued(r)' = {}
      /\ Got(r)' = Got(r)
      /\ Coming(r)' = Coming(r) /\ Offered(r)' = Offered(r) /\ (OffersChunk(r)' <=> OffersChunk(r))
      /\ \A what : ~InQueue(r, what)'
      /\ ~InQueue(r, "error") /\ queue[r] # <<>>
  BY DEF ThreadStays, Taken, InHand, Queued, Got, Coming, Offered, OffersChunk, MappedBy, InQueue
<1>2. InPlace(r)'
  BY <1>1 DEF Pipe, InPlace, ThreadStays, InQueue, Early, Working, Gone, Later, Builds
<1>3. MappedIsUsed(r)'
  BY <1>1 DEF Pipe, MappedIsUsed
<1>4. Ordered(r)'
  BY <1>1 DEF Pipe, Ordered
<1>5. NothingMissed(r)'
  BY <1>1 DEF Pipe, NothingMissed, ThreadStays, Working
<1>. QED
  BY <1>2, <1>3, <1>4, <1>5 DEF Pipe

\* What is in hand and in the queue, and what is offered, are different chunks.
LEMMA Apart ==
  ASSUME DataTypeOK, NEW r \in Runs, Pipe(r)
  PROVE  /\ InHand(r) \cap (Queued(r) \cup Offered(r)) = {}
         /\ Queued(r) \cap Offered(r) = {}
<1>1. Offered(r) \subseteq Coming(r)
  BY DEF Offered, Coming
<1>2. InHand(r) \subseteq Nat /\ Queued(r) \subseteq Nat
  BY GotNumbers, ChunksAssumption
<1>. QED
  BY <1>1, <1>2 DEF Pipe, Ordered

LEMMA ComputesPipe ==
  ASSUME DataTypeOK, NEW r \in Runs, Pipe(r), ThreadStays(r), main[r] = "computing",
         main'[r] = "taking", taken'[r] = Append(taken[r], hand[r]), queue'[r] = queue[r],
         stop'[r] = stop[r], mapped'[r] = mapped[r] \ InHand(r), verdict'[r] = verdict[r]
  PROVE  Pipe(r)'
<1>1. taken[r] \in Seq(Items) /\ hand[r] \in Items
  BY DEF DataTypeOK
<1>2. /\ DOMAIN taken'[r] = DOMAIN taken[r] \cup {Len(taken[r]) + 1}
      /\ \A i \in DOMAIN taken[r] : taken'[r][i] = taken[r][i] /\ i < Len(taken[r]) + 1
      /\ taken'[r][Len(taken[r]) + 1] = hand[r]
      /\ DOMAIN taken[r] \subseteq Nat /\ Len(taken[r]) \in Nat
  BY <1>1
<1>3. Taken(r)' = Taken(r) \cup InHand(r) /\ InHand(r) = {hand[r].chunk}
  BY <1>2 DEF Taken, InHand
<1>4. /\ InHand(r)' = {} /\ Queued(r)' = Queued(r) /\ Got(r)' = Got(r)
      /\ Coming(r)' = Coming(r) /\ Offered(r)' = Offered(r) /\ (OffersChunk(r)' <=> OffersChunk(r))
      /\ \A what : InQueue(r, what)' <=> InQueue(r, what)
  BY <1>3 DEF ThreadStays, InHand, Queued, Got, Coming, Offered, OffersChunk, MappedBy, InQueue
<1>5. InPlace(r)'
  BY DEF Pipe, InPlace, ThreadStays, Early, Working, Leaving, Gone, Later, Builds
<1>6. MappedIsUsed(r)'
  BY <1>4, Apart DEF Pipe, MappedIsUsed
<1>7. Ordered(r)'
  <2>1. \A i \in DOMAIN taken[r] : taken[r][i].chunk < hand[r].chunk
    BY <1>3 DEF Pipe, Ordered, Taken
  <2>2. \A i, j \in DOMAIN taken'[r] : i < j => taken'[r][i].chunk < taken'[r][j].chunk
    <3>1. SUFFICES ASSUME NEW i \in DOMAIN taken'[r], NEW j \in DOMAIN taken'[r], i < j
                   PROVE  taken'[r][i].chunk < taken'[r][j].chunk
      OBVIOUS
    <3>2. i \in DOMAIN taken[r]
      BY <1>2, <3>1
    <3>3. CASE j \in DOMAIN taken[r]
      BY <1>2, <3>1, <3>2, <3>3 DEF Pipe, Ordered
    <3>4. CASE j = Len(taken[r]) + 1
      BY <1>2, <2>1, <3>2, <3>4
    <3>. QED
      BY <1>2, <3>3, <3>4
  <2>. QED
    BY <1>3, <1>4, <2>2 DEF Pipe, Ordered
<1>8. NothingMissed(r)'
  <2>1. verdict'[r] # "done"
    BY DEF Pipe, InPlace, Working
  <2>. QED
    BY <1>4, <2>1 DEF Pipe, NothingMissed, ThreadStays, Working
<1>. QED
  BY <1>5, <1>6, <1>7, <1>8 DEF Pipe

\* close().
LEMMA ClosesPipe ==
  ASSUME DataTypeOK, NEW r \in Runs, Pipe(r), ThreadStays(r), main[r] \in Leaving,
         main'[r] \in {"draining", "sweeping"}, producer[r] = "dead" \/ main'[r] = "draining",
         taken'[r] = taken[r], verdict'[r] = verdict[r],
         \/ queue'[r] = queue[r] /\ mapped'[r] = mapped[r]
         \/ queue'[r] = <<>> /\ mapped'[r] = mapped[r] \ Queued(r)
  PROVE  Pipe(r)'
<1>1. /\ Taken(r)' = Taken(r) /\ InHand(r) = {} /\ InHand(r)' = {} /\ Queued(r)' \subseteq Queued(r)
      /\ Coming(r)' = Coming(r) /\ Offered(r)' = Offered(r) /\ (OffersChunk(r)' <=> OffersChunk(r))
      /\ producer[r] # "none"
      /\ (queue'[r] = <<>> => Queued(r)' = {}) /\ (queue'[r] = queue[r] => Queued(r)' = Queued(r))
  BY DEF ThreadStays, Taken, InHand, Queued, Coming, Offered, OffersChunk, MappedBy, Leaving, Pipe,
         InPlace, Gone
<1>2. InPlace(r)'
  BY <1>1 DEF Pipe, InPlace, ThreadStays, Early, Working, Leaving, Gone, Later, Builds
<1>3. MappedIsUsed(r)'
  BY <1>1, Apart DEF Pipe, MappedIsUsed
<1>4. Ordered(r)'
  BY <1>1 DEF Pipe, Ordered
<1>5. NothingMissed(r)'
  BY <1>1 DEF Pipe, NothingMissed, ThreadStays, Working
<1>. QED
  BY <1>2, <1>3, <1>4, <1>5 DEF Pipe

\* After close() there is nothing left.
LEMMA OverPipe ==
  ASSUME NEW r \in Runs, main'[r] \in Gone, producer'[r] = "dead", queue'[r] = <<>>, mapped'[r] = {},
         \/ taken'[r] = taken[r] /\ Pipe(r) /\ (verdict'[r] = "done" => verdict[r] = "done")
         \/ taken'[r] = <<>> /\ verdict'[r] # "done"
  PROVE  Pipe(r)'
<1>1. InPlace(r)'
  BY DEF InPlace, Early, Working, Leaving, Gone, Later, Builds
<1>2. /\ InHand(r)' = {} /\ Queued(r)' = {} /\ Coming(r)' = {} /\ Offered(r)' = {} /\ ~OffersChunk(r)'
  BY DEF InHand, Queued, Coming, Offered, OffersChunk, Loop, Handing, Gone, Later, Builds
<1>3. MappedIsUsed(r)'
  BY <1>2 DEF MappedIsUsed
<1>4. Ordered(r)' /\ NothingMissed(r)'
  <2>1. main'[r] \notin Working
    BY DEF Working, Gone, Later, Builds
  <2>2. CASE taken'[r] = taken[r] /\ Pipe(r) /\ (verdict'[r] = "done" => verdict[r] = "done")
    <3>1. Taken(r)' = Taken(r)
      BY <2>2 DEF Taken
    <3>. QED
      BY <1>2, <2>1, <2>2, <3>1 DEF Pipe, Ordered, NothingMissed
  <2>3. CASE taken'[r] = <<>> /\ verdict'[r] # "done"
    BY <1>2, <2>1, <2>3 DEF Ordered, NothingMissed, Taken
  <2>. QED
    BY <2>2, <2>3
<1>. QED
  BY <1>1, <1>3, <1>4 DEF Pipe

LEMMA ConsumerPipe ==
  ASSUME DataTypeOK, NEW r \in Runs, Pipe(r), ConsumerStep(r)
  PROVE  Pipe(r)'
<1>1. /\ main \in [Runs -> Early \cup Working \cup Leaving \cup Gone] /\ producer \in [Runs -> Threads]
      /\ queue \in [Runs -> {<<>>} \cup {<<i>> : i \in Items}] /\ hand \in [Runs -> Items]
      /\ mapped \in [Runs -> SUBSET Chunks] /\ taken \in [Runs -> Seq(Items)]
      /\ verdict \in [Runs -> {"none", "done", "raised"}]
  BY DEF DataTypeOK
<1>2. /\ \A pc : MainGo(r, pc) => main'[r] = pc
      /\ \A p : Go(r, p) => producer'[r] = p
      /\ \A v : Leave(r, v) => main'[r] = "closing" /\ verdict'[r] = v
      /\ \A i : Unmap(r, i) => mapped'[r] = mapped[r] \ MappedBy(r, i)
  BY <1>1 DEF MainGo, Go, Leave, Unmap, Set
<1>3. \A h \in Items : h.what = "chunk" => MappedBy(r, h) = {h.chunk}
  BY DEF MappedBy
<1>4. Discard(r) => queue'[r] = <<>> /\ mapped'[r] = mapped[r] \ Queued(r)
  BY <1>1, <1>2 DEF Discard, Queued, Set
<1>5. CASE Preflight(r) \/ LoadSplits(r)
  <2>1. /\ main[r] \in Early
        /\ \/ main'[r] \in Early /\ producer'[r] = producer[r]
           \/ main'[r] = "hydrating" /\ producer'[r] = "checking"
    BY <1>2, <1>5 DEF Preflight, LoadSplits, StartPipeline, Early
  <2>2. /\ stop'[r] = stop[r] /\ queue'[r] = queue[r] /\ mapped'[r] = mapped[r]
        /\ taken'[r] = taken[r] /\ verdict'[r] = verdict[r]
    BY <1>5 DEF Preflight, LoadSplits, pipeVars
  <2>. QED
    BY <2>1, <2>2, PreparesPipe
<1>6. CASE Hydrate(r)
  <2>1. /\ main[r] = "hydrating" /\ ThreadStays(r) /\ stop'[r] = stop[r] /\ queue'[r] = queue[r]
        /\ mapped'[r] = mapped[r] /\ taken'[r] = taken[r]
        /\ \/ main'[r] = "taking" /\ verdict'[r] = verdict[r]
           \/ main'[r] = "closing" /\ verdict'[r] = "raised"
    BY <1>2, <1>6 DEF Hydrate, ThreadStays, threadVars, pipeVars
  <2>2. InHand(r) = {} /\ Queued(r)' = Queued(r)
    BY <2>1 DEF InHand, Queued, MappedBy
  <2>3. CASE main'[r] = "closing" /\ verdict'[r] = "raised"
    BY <2>1, <2>2, <2>3, LeavesPipe DEF Working, Pipe, MappedIsUsed
  <2>4. CASE main'[r] = "taking" /\ verdict'[r] = verdict[r]
    BY <2>1, <2>2, <2>4
    DEF Pipe, InPlace, MappedIsUsed, Ordered, NothingMissed, ThreadStays, Taken, InHand, Queued, Got,
        Coming, Offered, OffersChunk, InQueue, MappedBy, Early, Working, Leaving, Gone, Later, Builds
  <2>. QED
    BY <2>1, <2>3, <2>4
<1>7. CASE Take(r)
  <2>1. /\ main[r] = "taking" /\ queue[r] # <<>> /\ queue'[r] = <<>> /\ ThreadStays(r)
        /\ stop'[r] = stop[r] /\ mapped'[r] = mapped[r] /\ taken'[r] = taken[r]
    BY <1>1, <1>7 DEF Take, Set, ThreadStays, threadVars
  <2>2. InHand(r) = {} /\ Queued(r)' = {} /\ mapped[r] = Offered(r) \cup Queued(r)
    BY <2>1 DEF InHand, Queued, Pipe, MappedIsUsed
  <2>3. CASE InQueue(r, "chunk")
    <3>1. main'[r] = "computing" /\ hand'[r] = Head(queue[r]) /\ verdict'[r] = verdict[r]
      BY <1>1, <1>2, <1>7, <2>3 DEF Take, InQueue, Set
    <3>. QED
      BY <2>1, <2>3, <3>1, TakesPipe
  <2>4. CASE ~InQueue(r, "chunk")
    <3>1. Queued(r) = {}
      BY <2>4 DEF Queued, MappedBy, InQueue
    <3>2. /\ main'[r] = "closing" /\ verdict'[r] \in {"done", "raised"}
          /\ verdict'[r] = "done" => InQueue(r, "end")
      BY <1>2, <1>7, <2>1, <2>4 DEF Take, InQueue
    <3>3. InQueue(r, "end") => Taken(r) = Wanted
      BY <2>1, <2>2, <3>1 DEF Pipe, NothingMissed, Working, Got
    <3>. QED
      BY <2>1, <2>2, <3>1, <3>2, <3>3, LeavesPipe DEF Working
  <2>. QED
    BY <2>3, <2>4
<1>8. CASE Compute(r)
  <2>1. /\ main[r] = "computing" /\ ThreadStays(r) /\ stop'[r] = stop[r] /\ queue'[r] = queue[r]
    BY <1>8 DEF Compute, ThreadStays, threadVars
  <2>2. mapped'[r] = mapped[r] \ InHand(r) /\ Queued(r)' = Queued(r)
    BY <1>1, <1>2, <1>3, <1>8, <2>1 DEF Compute, InHand, Pipe, InPlace, Queued, MappedBy
  <2>3. \/ /\ taken'[r] = Append(taken[r], hand[r]) /\ main'[r] = "taking" /\ verdict'[r] = verdict[r]
        \/ main'[r] = "closing" /\ verdict'[r] = "raised" /\ taken'[r] = taken[r]
    BY <1>1, <1>2, <1>8 DEF Compute, Set
  <2>4. mapped'[r] = Offered(r) \cup Queued(r)'
    BY <2>2, Apart DEF Pipe, MappedIsUsed
  <2>. QED
    BY <2>1, <2>2, <2>3, <2>4, ComputesPipe, LeavesPipe DEF Working
<1>9. CASE SetStop(r) \/ Drain(r)
  <2>1. /\ main[r] \in {"closing", "draining"} /\ ThreadStays(r)
        /\ taken'[r] = taken[r] /\ verdict'[r] = verdict[r]
    BY <1>9 DEF SetStop, Drain, ThreadStays, threadVars
  <2>2. /\ main'[r] \in {"draining", "sweeping"} /\ (producer[r] = "dead" \/ main'[r] = "draining")
        /\ \/ queue'[r] = queue[r] /\ mapped'[r] = mapped[r]
           \/ queue'[r] = <<>> /\ mapped'[r] = mapped[r] \ Queued(r)
    BY <1>2, <1>4, <1>9 DEF SetStop, Drain
  <2>. QED
    BY <2>1, <2>2, ClosesPipe DEF Leaving
<1>10. CASE Sweep(r)
  <2>1. /\ main[r] = "sweeping" /\ producer'[r] = producer[r] /\ verdict'[r] = verdict[r]
        /\ producer[r] = "dead"
    BY <1>10 DEF Sweep, Pipe, InPlace
  <2>2. CASE Discard(r) /\ UNCHANGED <<main, at, item, taken>>
    BY <1>4, <2>1, <2>2, ClosesPipe DEF Leaving, ThreadStays
  <2>3. CASE /\ queue[r] = <<>> /\ MainGo(r, "closed") /\ UNCHANGED <<queue, mapped>>
             /\ taken' = Set(taken, r, IF verdict[r] = "done" THEN taken[r] ELSE <<>>)
    <3>1. main'[r] = "closed" /\ queue'[r] = <<>> /\ mapped'[r] = {}
      BY <1>2, <2>1, <2>3 DEF Pipe, MappedIsUsed, Offered, OffersChunk, Handing, Queued, InHand
    <3>2. taken'[r] = IF verdict[r] = "done" THEN taken[r] ELSE <<>>
      BY <1>1, <2>3 DEF Set
    <3>. QED
      BY <2>1, <3>1, <3>2, OverPipe DEF Gone, Later
  <2>. QED
    BY <1>10, <2>2, <2>3 DEF Sweep
<1>. QED
  BY <1>5, <1>6, <1>7, <1>8, <1>9, <1>10 DEF ConsumerStep

-----------------------------------------------------------------------------
(* The rest of a run.                                                       *)

\* What a step of a run after close() writes.
LaterMoves(r) ==
  /\ main[r] \in Later /\ \E p \in Builds : main' = Set(main, r, p)
  /\ verdict' = verdict \/ verdict' = Set(verdict, r, "raised")
  /\ UNCHANGED mainRest

LEMMA LaterWrites ==
  ASSUME BuildTypeOK, NEW r \in Runs, WriteDetails(r) \/ Persist(r)
  PROVE  LaterMoves(r)
<1> USE DEF LaterMoves, Stands, Moves, Proceeds, Aborts, MainGo, Later, Builds
<1>1. CASE WriteDetails(r)
  BY <1>1 DEF WriteDetails
<1>2. CASE Seek(r)
  BY <1>2 DEF Seek
<1>3. CASE LockKey(r) \/ Commit(r)
  BY <1>3 DEF LockKey, Commit
<1>4. CASE InsertRow(r)
  <2>1. main[r] = "inserting" /\ UNCHANGED mainRest /\ (Moves(r, "building") \/ Moves(r, "clashed"))
    BY <1>4 DEF InsertRow
  <2>. QED
    BY <2>1
<1>5. CASE Look(r)
  BY <1>5 DEF Look, BuildTypeOK
<1>6. CASE Clash(r) \/ Build(r) \/ Attach(r)
  BY <1>6 DEF Clash, Build, Attach, Raised, BuildRaised
<1>7. CASE Abort(r)
  BY <1>7 DEF Abort
<1>. QED
  BY <1>1, <1>2, <1>3, <1>5, <1>6, <1>7, <1>4 DEF Persist

LEMMA LaterPipe ==
  ASSUME DataTypeOK, NEW r \in Runs, Pipe(r), LaterMoves(r)
  PROVE  DataTypeOK' /\ Pipe(r)' /\ \A q \in Runs \ {r} : Untouched(q)
<1>1. /\ main \in [Runs -> Early \cup Working \cup Leaving \cup Gone]
      /\ verdict \in [Runs -> {"none", "done", "raised"}]
  BY DEF DataTypeOK
<1>2. PICK p \in Builds : main' = Set(main, r, p)
  BY DEF LaterMoves
<1>3. /\ main' \in [Runs -> Early \cup Working \cup Leaving \cup Gone] /\ main'[r] \in Gone
      /\ \A q \in Runs \ {r} : main'[q] = main[q]
  BY <1>1, <1>2 DEF Set, Gone, Later
<1>4. /\ verdict' \in [Runs -> {"none", "done", "raised"}]
      /\ \A q \in Runs \ {r} : verdict'[q] = verdict[q]
      /\ verdict'[r] = "done" => verdict[r] = "done"
  BY <1>1 DEF LaterMoves, Set
<1>5. UNCHANGED mainRest
  BY DEF LaterMoves
<1>6. DataTypeOK' /\ \A q \in Runs \ {r} : Untouched(q)
  BY <1>3, <1>4, <1>5 DEF mainRest, cacheVars, threadVars, pipeVars, DataTypeOK, Untouched
<1>7. producer'[r] = "dead" /\ queue'[r] = <<>> /\ mapped'[r] = {} /\ taken'[r] = taken[r]
  <2>1. main[r] \in Gone /\ main[r] # "computing"
    BY DEF LaterMoves, Gone, Later, Builds
  <2>2. producer[r] = "dead" /\ queue[r] = <<>>
    BY <2>1 DEF Pipe, InPlace
  <2>3. mapped[r] = {}
    BY <2>1, <2>2 DEF Pipe, MappedIsUsed, Offered, OffersChunk, Handing, Queued, InHand
  <2>. QED
    BY <1>5, <2>2, <2>3 DEF mainRest, threadVars, pipeVars
<1>. QED
  BY <1>3, <1>4, <1>6, <1>7, OverPipe

-----------------------------------------------------------------------------
(* The materialization: where its transactions stand.                       *)

Statuses == {"none", "running", "completed", "failed"}
Recording == {"failing", "recording", "noting", "noted"}

\* Only the transaction of b moves, to pc.
Steps(b, pc) ==
  /\ Stands(b)' = pc /\ \A a \in Builders \ {b} : Stands(a)' = Stands(a)
  /\ paper' \in [Papers -> Builds \cup Recording]

LEMMA PaperStands ==
  ASSUME NEW p \in Papers
  PROVE  p \in Builders /\ p \notin Runs /\ Stands(p) = paper[p] /\ p # NoRun
BY PapersAssumption DEF Builders, Stands

LEMMA RunStands ==
  ASSUME NEW r \in Runs
  PROVE  r \in Builders /\ Stands(r) = main[r] /\ r # NoRun
BY RunsAssumption DEF Builders, Stands

\* A run goes on while the paper runs stay where they are.
LEMMA RunSteps ==
  ASSUME DataTypeOK, BuildTypeOK, NEW r \in Runs, NEW pc, main' = Set(main, r, pc), UNCHANGED paper
  PROVE  Steps(r, pc)
<1>1. main \in [Runs -> Early \cup Working \cup Leaving \cup Gone]
      /\ paper \in [Papers -> Builds \cup Recording]
  BY DEF DataTypeOK, BuildTypeOK, Recording
<1>2. main'[r] = pc /\ \A a \in Runs \ {r} : main'[a] = main[a]
  BY <1>1 DEF Set
<1>. QED
  BY <1>1, <1>2 DEF Steps, Stands

LEMMA PaperSteps ==
  ASSUME BuildTypeOK, NEW p \in Papers, NEW pc \in Builds \cup Recording,
         paper' = Set(paper, p, pc), UNCHANGED main
  PROVE  Steps(p, pc)
<1>1. paper \in [Papers -> Builds \cup Recording] /\ p \notin Runs
  BY PaperStands DEF BuildTypeOK, Recording
<1>2. /\ paper'[p] = pc /\ paper' \in [Papers -> Builds \cup Recording]
      /\ \A a \in Papers \ {p} : paper'[a] = paper[a]
  BY <1>1 DEF Set
<1>. QED
  BY <1>1, <1>2 DEF Steps, Stands, Builders

LEMMA MovesSteps ==
  ASSUME DataTypeOK, BuildTypeOK, NEW b \in Builders, NEW pc \in Builds, Moves(b, pc)
  PROVE  Steps(b, pc)
BY RunSteps, PaperSteps DEF Moves, Proceeds, MainGo, Builders

LEMMA RaisedSteps ==
  ASSUME DataTypeOK, BuildTypeOK, NEW b \in Builders
  PROVE  /\ Raised(b) => Steps(b, "aborting")
         /\ BuildRaised(b) => Steps(b, "aborting") \/ Steps(b, "failing")
<1>1. Raised(b) => Steps(b, "aborting")
  BY RunSteps, PaperSteps DEF Raised, Aborts, MainGo, Builders, Builds
<1>2. BuildRaised(b) => Steps(b, "aborting") \/ Steps(b, "failing")
  BY <1>1, PaperSteps DEF BuildRaised, Builders, Recording
<1>. QED
  BY <1>1, <1>2

\* A step that leaves the row, the lock and the transactions as they are, outside of the
\* places where they matter.
LEMMA BuildAside ==
  ASSUME BuildInv, NEW b \in Builders, NEW pc, Steps(b, pc), UNCHANGED buildVars,
         UNCHANGED recorded, status' \in [Runs -> Statuses],
         \A r \in Runs : status'[r] = "completed" => status[r] = "completed",
         pc \notin {"looking", "inserting", "clashed", "building", "attaching", "committing", "noted"}
  PROVE  BuildInv'
<1>1. BuildTypeOK'
  BY DEF BuildInv, BuildTypeOK, buildVars, Steps, Statuses, Recording
<1>2. BuildersLock'
  BY DEF BuildInv, BuildersLock, buildVars, Steps
<1>3. RowsOwned'
  BY DEF BuildInv, RowsOwned, buildVars, Steps
<1>4. RecordsAlone'
  BY PaperStands DEF BuildInv, RecordsAlone, buildVars, Steps, Stands
<1>5. LaterAreStale'
  BY DEF BuildInv, LaterAreStale, buildVars, Steps
<1>6. BuiltOnce'
  BY DEF BuildInv, BuiltOnce, OneBuilds, BuildersShare, AttachedIsCompleted, buildVars, Steps
<1>. QED
  BY <1>1, <1>2, <1>3, <1>4, <1>5, <1>6 DEF BuildInv

LEMMA BuilderIsNotNoRun == NoRun \notin Builders
BY RunsAssumption, PapersAssumption DEF Builders

LEMMA NotedStays ==
  ASSUME NEW b, NEW pc, pc # "noted", Steps(b, pc), NEW p \in Papers, paper'[p] = "noted"
  PROVE  p # b /\ paper[p] = "noted"
<1>1. p \in Builders /\ Stands(p) = paper[p] /\ Stands(p)' = paper'[p]
  BY PaperStands DEF Stands
<1>. QED
  BY <1>1 DEF Steps

LEMMA SeekBuild ==
  ASSUME DataTypeOK, BuildInv, NEW b \in Builders, Seek(b) \/ Look(b)
  PROVE  BuildInv'
<1>1. PICK pc \in Builds : Steps(b, pc) /\ Moves(b, pc)
      /\ \/ pc = "locking"
         \/ pc = "attaching" /\ live = "completed"
         \/ pc = "building" /\ Stands(b) = "looking" /\ live # "none"
            /\ (live = "failed" \/ b \in stale)
         \/ pc = "inserting" /\ live = "none" /\ Stands(b) = "looking"
  <2>1. live \in {"none", "failed", "completed"} /\ BuildTypeOK
    BY DEF BuildInv, BuildTypeOK
  <2>2. {"locking", "attaching", "building", "inserting"} \subseteq Builds
    BY DEF Builds
  <2>3. CASE Seek(b)
    BY <2>1, <2>2, <2>3, MovesSteps DEF Seek
  <2>4. CASE Look(b)
    BY <2>1, <2>2, <2>4, MovesSteps DEF Look
  <2>. QED
    BY <2>3, <2>4
<1>2. UNCHANGED <<status, live, keyLock, inserting, built, made, recorded>>
  BY DEF Seek, Look, buildVars
<1>3. stale' = stale \/ (stale' = stale \cup {b} /\ live = "failed")
  BY DEF Seek, Look, buildVars
<1>4. BuildTypeOK'
  BY <1>1, <1>2, <1>3 DEF BuildInv, BuildTypeOK, Steps, Recording
<1>5. BuildersLock'
  BY <1>1, <1>2 DEF BuildInv, BuildersLock, Steps
<1>6. RowsOwned'
  BY <1>1, <1>2 DEF BuildInv, RowsOwned, Steps
<1>7. RecordsAlone'
  BY <1>1, <1>2, NotedStays DEF BuildInv, RecordsAlone
<1>8. LaterAreStale'
  BY <1>1, <1>2, <1>3 DEF BuildInv, LaterAreStale, Steps
<1>9. BuiltOnce'
  <2>1. OneBuilds'
    BY <1>2, <1>3 DEF BuildInv, BuiltOnce, OneBuilds
  <2>. QED
    BY <1>1, <1>2, <2>1 DEF BuildInv, BuiltOnce, BuildersShare, AttachedIsCompleted, Steps
<1>. QED
  BY <1>4, <1>5, <1>6, <1>7, <1>8, <1>9 DEF BuildInv

LEMMA LockKeyBuild ==
  ASSUME DataTypeOK, BuildInv, NEW b \in Builders, LockKey(b)
  PROVE  BuildInv'
<1>1. Steps(b, "looking")
  BY MovesSteps DEF LockKey, BuildInv, Builds
<1>2. keyLock = NoRun /\ keyLock' = b /\ UNCHANGED <<status, live, inserting, built, stale, made, recorded>>
  BY DEF LockKey
<1>3. BuildTypeOK'
  BY <1>1, <1>2 DEF BuildInv, BuildTypeOK, Steps, Recording
<1>4. BuildersLock'
  BY <1>1, <1>2, BuilderIsNotNoRun DEF BuildInv, BuildersLock, Steps
<1>5. RowsOwned'
  BY <1>1, <1>2 DEF BuildInv, RowsOwned, Steps
<1>6. RecordsAlone'
  BY <1>1, <1>2, NotedStays DEF BuildInv, RecordsAlone
<1>7. LaterAreStale'
  BY <1>1, <1>2 DEF BuildInv, LaterAreStale, Steps
<1>8. BuiltOnce'
  BY <1>1, <1>2 DEF BuildInv, BuiltOnce, OneBuilds, BuildersShare, AttachedIsCompleted, Steps
<1>. QED
  BY <1>3, <1>4, <1>5, <1>6, <1>7, <1>8 DEF BuildInv

LEMMA InsertRowBuild ==
  ASSUME DataTypeOK, BuildInv, NEW b \in Builders, InsertRow(b)
  PROVE  BuildInv'
<1>1. /\ Stands(b) = "inserting" /\ inserting = NoRun
      /\ \/ live = "none" /\ inserting' = b /\ Steps(b, "building")
         \/ live # "none" /\ inserting' = inserting /\ Steps(b, "clashed")
  BY MovesSteps DEF InsertRow, BuildInv, Builds
<1>2. UNCHANGED <<status, live, keyLock, built, stale, made, recorded>>
  BY DEF InsertRow
<1>3. BuildTypeOK'
  BY <1>1, <1>2 DEF BuildInv, BuildTypeOK, Steps, Recording
<1>4. BuildersLock'
  BY <1>1, <1>2 DEF BuildInv, BuildersLock, Steps
<1>5. RowsOwned'
  BY <1>1, <1>2, BuilderIsNotNoRun DEF BuildInv, RowsOwned, Steps
<1>6. RecordsAlone'
  <2>1. ASSUME NEW p \in Papers, paper'[p] = "noted"
        PROVE  FALSE
    <3>1. paper[p] = "noted"
      BY <1>1, <2>1, NotedStays
    <3>. QED
      BY <1>1, <3>1, PaperStands DEF BuildInv, RecordsAlone
  <2>. QED
    BY <2>1 DEF RecordsAlone
<1>7. LaterAreStale'
  BY <1>1, <1>2 DEF BuildInv, LaterAreStale, Steps
<1>8. BuiltOnce'
  BY <1>1, <1>2 DEF BuildInv, RowsOwned, BuiltOnce, OneBuilds, BuildersShare, AttachedIsCompleted, Steps
<1>. QED
  BY <1>3, <1>4, <1>5, <1>6, <1>7, <1>8 DEF BuildInv

\* Clash, Attach and a Build that raises.
LEMMA AttachBuild ==
  ASSUME DataTypeOK, BuildInv, NEW b \in Builders, Clash(b) \/ Build(b) \/ Attach(b)
  PROVE  BuildInv'
<1>1. PICK pc \in {"attaching", "committing", "aborting", "failing"} :
        /\ Steps(b, pc)
        /\ pc = "attaching" => b \in built'
        /\ pc = "committing" => Stands(b) = "attaching"
  BY MovesSteps, RaisedSteps DEF Clash, Build, Attach, BuildInv, Builds
<1>2. /\ UNCHANGED <<status, live, keyLock, inserting, stale, made, recorded>>
      /\ \/ UNCHANGED built
         \/ Stands(b) = "building" /\ built' = built \cup {b}
  BY DEF Clash, Build, Attach, buildVars
<1>3. BuildTypeOK'
  BY <1>1, <1>2 DEF BuildInv, BuildTypeOK, Steps, Recording
<1>4. BuildersLock'
  BY <1>1, <1>2 DEF BuildInv, BuildersLock, Steps
<1>5. RowsOwned'
  BY <1>1, <1>2 DEF BuildInv, RowsOwned, Steps
<1>6. RecordsAlone'
  BY <1>1, <1>2, NotedStays DEF BuildInv, RecordsAlone
<1>7. LaterAreStale'
  BY <1>1, <1>2 DEF BuildInv, LaterAreStale, Steps
<1>8. BuiltOnce'
  BY <1>1, <1>2 DEF BuildInv, BuiltOnce, OneBuilds, BuildersShare, AttachedIsCompleted, Steps
<1>. QED
  BY <1>3, <1>4, <1>5, <1>6, <1>7, <1>8 DEF BuildInv

LEMMA StatusTyped ==
  ASSUME BuildTypeOK, NEW b, NEW s \in Statuses, StatusOf(b, s)
  PROVE  /\ status' \in [Runs -> Statuses]
         /\ \A r \in Runs : status'[r] = status[r] \/ (r = b /\ status'[r] = s)
BY DEF BuildTypeOK, StatusOf, Set, Statuses

\* The row is as it was, or of the transaction that has built it.
LeavesBehind(b) ==
  \/ UNCHANGED <<live, made>>
  \/ b \in built /\ live' = "completed" /\ made' = made \cup {b}

\* The end of a transaction: its lock and what it has inserted are gone with it.
LEMMA ReleaseBuild ==
  ASSUME BuildInv, NEW b \in Builders, NEW pc, Release(b), Steps(b, pc),
         pc \in {"over", "killed", "recording"}, UNCHANGED <<stale, recorded>>,
         LeavesBehind(b),
         status' \in [Runs -> Statuses],
         \A r \in Runs : status'[r] = "completed" => status[r] = "completed" \/ live' = "completed"
  PROVE  BuildInv'
<1> USE DEF LeavesBehind
<1>1. BuildTypeOK'
  BY DEF BuildInv, BuildTypeOK, Steps, Recording, Release, Statuses
<1>2. BuildersLock'
  BY DEF BuildInv, BuildersLock, Steps, Release
<1>3. RowsOwned'
  <2>1. ASSUME NEW a \in Builders, Stands(a)' = "inserting", live' # live
        PROVE  FALSE
    BY <2>1, BuilderIsNotNoRun DEF BuildInv, BuildersLock, Steps
  <2>2. ASSUME NEW a \in Builders, Stands(a)' = "building" \/ a \in built', live' = "none"
        PROVE  inserting' = a
    <3>1. a # b /\ (Stands(a) = "building" \/ a \in built) /\ live = "none"
      BY <2>2 DEF Steps, Release
    <3>. QED
      BY <3>1 DEF BuildInv, RowsOwned, Release
  <2>3. ASSUME NEW a \in Builders, Stands(a)' \in {"attaching", "committing"}
        PROVE  a \in built' \/ live' = "completed"
    BY <2>3 DEF BuildInv, RowsOwned, Steps, Release
  <2>4. ASSUME NEW a \in Builders, Stands(a)' = "inserting"
        PROVE  live' = "none" \/ recorded'
    BY <2>1, <2>4 DEF BuildInv, RowsOwned, Steps
  <2>. QED
    BY <2>2, <2>3, <2>4 DEF RowsOwned
<1>4. RecordsAlone'
  <2>1. SUFFICES ASSUME NEW p \in Papers, paper'[p] = "noted"
                 PROVE  inserting' = p /\ live' = "none"
    BY DEF RecordsAlone
  <2>2. p \in Builders /\ Stands(p)' = "noted" /\ p # b
    BY <2>1, PaperStands DEF Steps, Stands
  <2>3. inserting = p /\ live = "none"
    BY <2>1, NotedStays DEF BuildInv, RecordsAlone
  <2>4. b \notin built
    BY <2>2, <2>3 DEF BuildInv, RowsOwned
  <2>. QED
    BY <2>2, <2>3, <2>4 DEF Release
<1>5. LaterAreStale'
  <2>1. ASSUME NEW a \in Builders, Stands(a)' = "building" \/ a \in built', made' # {}
        PROVE  a \in stale'
    <3>1. a # b /\ (Stands(a) = "building" \/ a \in built)
      BY <2>1 DEF Steps, Release
    <3>2. b \notin built
      BY <3>1 DEF BuildInv, BuildersLock
    <3>. QED
      BY <2>1, <3>1, <3>2 DEF BuildInv, LaterAreStale
  <2>. QED
    BY <2>1 DEF BuildInv, LaterAreStale
<1>6. OneBuilds'
  <2>1. CASE UNCHANGED made
    BY <2>1 DEF BuildInv, BuiltOnce, OneBuilds
  <2>2. CASE b \in built /\ made' = made \cup {b}
    <3>1. made # {} => b \in stale /\ recorded
      BY <2>2 DEF BuildInv, LaterAreStale
    <3>. QED
      BY <2>2, <3>1 DEF BuildInv, BuiltOnce, OneBuilds
  <2>. QED
    BY <2>1, <2>2
<1>7. BuiltOnce'
  BY <1>6 DEF BuildInv, BuiltOnce, BuildersShare, AttachedIsCompleted, Steps
<1>. QED
  BY <1>1, <1>2, <1>3, <1>4, <1>5, <1>7 DEF BuildInv

LEMMA PersistBuild ==
  ASSUME DataTypeOK, BuildInv, NEW b \in Builders, Persist(b)
  PROVE  BuildInv'
<1>1. CASE Commit(b)
  <2>1. Steps(b, "over") /\ BuildTypeOK
    BY <1>1, MovesSteps DEF Commit, BuildInv, Builds
  <2>2. b \in built \/ live = "completed"
    BY <1>1 DEF Commit, BuildInv, RowsOwned
  <2>3. /\ Release(b) /\ UNCHANGED <<stale, recorded>> /\ StatusOf(b, "completed")
        /\ IF b \in built THEN live' = "completed" /\ made' = made \cup {b}
                          ELSE UNCHANGED <<live, made>>
    BY <1>1 DEF Commit
  <2>4. live' = "completed" /\ LeavesBehind(b)
    BY <2>2, <2>3 DEF LeavesBehind
  <2>5. /\ status' \in [Runs -> Statuses]
        /\ \A r \in Runs : status'[r] = "completed" => status[r] = "completed" \/ live' = "completed"
    BY <2>1, <2>3, <2>4, StatusTyped DEF Statuses
  <2>. QED
    BY <2>1, <2>3, <2>4, <2>5, ReleaseBuild
<1>2. CASE Abort(b)
  <2>1. Steps(b, "over") /\ BuildTypeOK
    BY <1>2, MovesSteps DEF Abort, BuildInv, Builds
  <2>2. Release(b) /\ UNCHANGED <<live, stale, made, recorded>> /\ StatusOf(b, "failed")
    BY <1>2 DEF Abort
  <2>3. status' \in [Runs -> Statuses]
        /\ \A r \in Runs : status'[r] = "completed" => status[r] = "completed"
    BY <2>1, <2>2, StatusTyped DEF Statuses
  <2>4. LeavesBehind(b)
    BY <2>2 DEF LeavesBehind
  <2>. QED
    BY <2>1, <2>2, <2>3, <2>4, ReleaseBuild
<1>. QED
  BY <1>1, <1>2, SeekBuild, LockKeyBuild, InsertRowBuild, AttachBuild DEF Persist

\* The record of a failure.
LEMMA RecordBuild ==
  ASSUME DataTypeOK, BuildInv, NEW p \in Papers,
         RollBack(p) \/ Record(p) \/ NoteInsert(p) \/ NoteCommit(p)
  PROVE  BuildInv'
<1>1. p \in Builders /\ p \notin Runs /\ Stands(p) = paper[p] /\ BuildTypeOK
  BY PaperStands DEF BuildInv
<1>2. \A pc \in Builds \cup Recording : PaperGo(p, pc) /\ UNCHANGED main => Steps(p, pc)
  BY <1>1, PaperSteps DEF PaperGo
<1>3. UNCHANGED main /\ UNCHANGED status /\ status \in [Runs -> Statuses]
  BY <1>1 DEF RollBack, Record, NoteInsert, NoteCommit, dataVars, mainVars, BuildTypeOK, Statuses
<1>4. CASE RollBack(p)
  <2>1. Steps(p, "recording") /\ Release(p) /\ UNCHANGED <<live, stale, made, recorded>>
    BY <1>2, <1>3, <1>4 DEF RollBack, Recording
  <2>2. LeavesBehind(p)
    BY <2>1 DEF LeavesBehind
  <2>. QED
    BY <1>1, <1>3, <2>1, <2>2, ReleaseBuild
<1>5. CASE Record(p)
  <2>1. PICK pc \in {"noting", "over"} : Steps(p, pc)
    BY <1>2, <1>3, <1>5 DEF Record, Recording, Builds
  <2>2. UNCHANGED buildVars /\ UNCHANGED recorded
    BY <1>5 DEF Record
  <2>3. BuildTypeOK' /\ BuildersLock' /\ RowsOwned'
    BY <1>1, <1>3, <2>1, <2>2
    DEF BuildInv, BuildTypeOK, BuildersLock, RowsOwned, Steps, Recording, buildVars
  <2>4. RecordsAlone' /\ BuiltOnce'
    BY <1>3, <2>1, <2>2, NotedStays
    DEF BuildInv, RecordsAlone, BuiltOnce, OneBuilds, BuildersShare, AttachedIsCompleted, Steps,
        buildVars
  <2>5. LaterAreStale'
    BY <2>1, <2>2 DEF BuildInv, LaterAreStale, Steps, buildVars
  <2>. QED
    BY <2>3, <2>4, <2>5 DEF BuildInv
<1>6. CASE NoteInsert(p)
  <2>1. inserting = NoRun /\ UNCHANGED <<live, keyLock, built, stale, made, recorded>>
    BY <1>6 DEF NoteInsert
  <2>2. \/ live = "none" /\ inserting' = p /\ Steps(p, "noted")
        \/ inserting' = inserting /\ Steps(p, "over")
    BY <1>2, <1>3, <1>6 DEF NoteInsert, Recording, Builds
  <2>3. BuildTypeOK' /\ BuildersLock'
    BY <1>1, <1>3, <2>1, <2>2 DEF BuildInv, BuildTypeOK, BuildersLock, Steps, Recording
  <2>4. RowsOwned'
    BY <2>1, <2>2, BuilderIsNotNoRun DEF BuildInv, RowsOwned, Steps
  <2>5. RecordsAlone'
    <3>1. ASSUME NEW q \in Papers, paper'[q] = "noted"
          PROVE  inserting' = q /\ live' = "none"
      <4>1. q \in Builders /\ Stands(q) = paper[q] /\ Stands(q)' = paper'[q] /\ q # NoRun
        BY PaperStands DEF Stands
      <4>2. q = p
        BY <2>1, <2>2, <3>1, <4>1 DEF Steps, BuildInv, RecordsAlone
      <4>. QED
        BY <2>1, <2>2, <3>1, <4>1, <4>2 DEF Steps
    <3>. QED
      BY <3>1 DEF RecordsAlone
  <2>6. BuiltOnce'
    BY <1>3, <2>1, <2>2
    DEF BuildInv, BuiltOnce, OneBuilds, BuildersShare, AttachedIsCompleted, Steps
  <2>7. LaterAreStale'
    BY <2>1, <2>2 DEF BuildInv, LaterAreStale, Steps
  <2>. QED
    BY <2>3, <2>4, <2>5, <2>6, <2>7 DEF BuildInv
<1>7. CASE NoteCommit(p)
  <2>1. /\ live' = "failed" /\ recorded' = TRUE /\ Release(p) /\ paper[p] = "noted"
        /\ Steps(p, "over") /\ UNCHANGED <<stale, made>>
    BY <1>2, <1>3, <1>7 DEF NoteCommit, Builds
  <2>2. inserting = p /\ live = "none"
    BY <2>1 DEF BuildInv, RecordsAlone
  <2>3. BuildTypeOK' /\ BuildersLock'
    BY <1>1, <1>3, <2>1 DEF BuildInv, BuildTypeOK, BuildersLock, Steps, Recording, Release
  <2>4. RowsOwned'
    BY <2>1, <2>2 DEF BuildInv, RowsOwned, Steps, Release
  <2>5. RecordsAlone'
    BY <2>1, <2>2, NotedStays DEF BuildInv, RecordsAlone
  <2>6. BuiltOnce'
    BY <1>3, <2>1, <2>2
    DEF BuildInv, BuiltOnce, OneBuilds, BuildersShare, AttachedIsCompleted, Steps
  <2>7. LaterAreStale'
    BY <2>1, <2>2 DEF BuildInv, LaterAreStale, Steps
  <2>. QED
    BY <2>3, <2>4, <2>5, <2>6, <2>7 DEF BuildInv
<1>. QED
  BY <1>4, <1>5, <1>6, <1>7

-----------------------------------------------------------------------------
(* Every step.                                                              *)

LEMMA BeginTyped ==
  ASSUME DataTypeOK, NEW r \in Runs, Begin(r), Pipe(r)
  PROVE  DataTypeOK' /\ Pipe(r)' /\ \A q \in Runs \ {r} : Untouched(q)
<1>1. main \in [Runs -> Early \cup Working \cup Leaving \cup Gone]
  BY DEF DataTypeOK
<1>2. /\ main[r] = "idle" /\ main' = Set(main, r, "preflight")
      /\ UNCHANGED <<cacheVars, threadVars, pipeVars, hand, taken, verdict, halfway>>
  BY DEF Begin, MainGo
<1>3. /\ main' \in [Runs -> Early \cup Working \cup Leaving \cup Gone] /\ main'[r] = "preflight"
      /\ \A q \in Runs \ {r} : main'[q] = main[q]
  BY <1>1, <1>2 DEF Set, Early
<1>4. DataTypeOK' /\ \A q \in Runs \ {r} : Untouched(q)
  BY <1>2, <1>3 DEF cacheVars, threadVars, pipeVars, DataTypeOK, Untouched
<1>. QED
  BY <1>2, <1>3, <1>4, PreparesPipe DEF threadVars, pipeVars, Early

LEMMA CrashTyped ==
  ASSUME DataTypeOK, NEW r \in Runs, Crash(r)
  PROVE  DataTypeOK' /\ Pipe(r)' /\ \A q \in Runs \ {r} : Untouched(q)
<1>1. /\ flock' = [c \in Chunks |-> IF flock[c] = r THEN NoRun ELSE flock[c]]
      /\ main' = Set(main, r, "killed") /\ producer' = Set(producer, r, "dead")
      /\ queue' = Set(queue, r, <<>>) /\ mapped' = Set(mapped, r, {})
      /\ at' = Set(at, r, 1) /\ splits' = Set(splits, r, FALSE) /\ warm' = Set(warm, r, FALSE)
      /\ item' = Set(item, r, "none") /\ hand' = Set(hand, r, NoItem)
      /\ stop' = Set(stop, r, FALSE) /\ sidecar' = Set(sidecar, r, "unread")
      /\ taken' = Set(taken, r, <<>>) /\ verdict' = Set(verdict, r, "none")
      /\ halfway' = (halfway \/ producer[r] = "refilling") /\ UNCHANGED <<metadata, arrays>>
  BY DEF Crash, Vanish, Forget, Go, MainGo
<1>2. /\ flock \in [Chunks -> Runs \cup {NoRun}]
      /\ main \in [Runs -> Early \cup Working \cup Leaving \cup Gone] /\ producer \in [Runs -> Threads]
      /\ queue \in [Runs -> {<<>>} \cup {<<i>> : i \in Items}] /\ mapped \in [Runs -> SUBSET Chunks]
      /\ at \in [Runs -> Chunks] /\ splits \in [Runs -> BOOLEAN] /\ warm \in [Runs -> BOOLEAN]
      /\ item \in [Runs -> Whats] /\ hand \in [Runs -> Items]
      /\ stop \in [Runs -> BOOLEAN] /\ sidecar \in [Runs -> Sidecars]
      /\ taken \in [Runs -> Seq(Items)] /\ verdict \in [Runs -> {"none", "done", "raised"}]
  BY DEF DataTypeOK, Whats
<1>3. <<>> \in Seq(Items) /\ NoItem \in Items
  BY ItemIs
<1>4. /\ flock' \in [Chunks -> Runs \cup {NoRun}]
      /\ main' \in [Runs -> Early \cup Working \cup Leaving \cup Gone] /\ producer' \in [Runs -> Threads]
  BY <1>1, <1>2 DEF Set, Gone, Threads
<1>5. /\ queue' \in [Runs -> {<<>>} \cup {<<i>> : i \in Items}] /\ mapped' \in [Runs -> SUBSET Chunks]
      /\ at' \in [Runs -> Chunks]
  BY <1>1, <1>2, ChunkOne DEF Set
<1>6. /\ splits' \in [Runs -> BOOLEAN] /\ warm' \in [Runs -> BOOLEAN] /\ stop' \in [Runs -> BOOLEAN]
      /\ item' \in [Runs -> Whats] /\ sidecar' \in [Runs -> Sidecars]
  BY <1>1, <1>2 DEF Set, Whats, Sidecars
<1>7. /\ hand' \in [Runs -> Items] /\ taken' \in [Runs -> Seq(Items)]
      /\ verdict' \in [Runs -> {"none", "done", "raised"}]
  BY <1>1, <1>2, <1>3 DEF Set
<1>8. DataTypeOK'
  BY <1>1, <1>4, <1>5, <1>6, <1>7 DEF DataTypeOK, Whats
<1>9. \A q \in Runs \ {r} : Untouched(q)
  BY <1>1, <1>2 DEF Set, Untouched
<1>10. /\ main'[r] = "killed" /\ producer'[r] = "dead" /\ queue'[r] = <<>> /\ mapped'[r] = {}
       /\ taken'[r] = <<>> /\ verdict'[r] = "none"
  BY <1>1, <1>2 DEF Set
<1>. QED
  BY <1>8, <1>9, <1>10, OverPipe DEF Gone

\* What a paper run does leaves the pipelines alone.
LEMMA PaperAway ==
  ASSUME BuildTypeOK, NEW p \in Papers, PaperStep(p)
  PROVE  UNCHANGED <<cacheVars, threadVars, pipeVars, mainVars, halfway>>
<1>1. p \notin Runs
  BY PaperStands
<1>2. \A pc : Moves(p, pc) => UNCHANGED <<main, verdict>>
  BY <1>1 DEF Moves
<1>3. Raised(p) \/ BuildRaised(p) => UNCHANGED <<main, verdict>>
  BY <1>1 DEF Raised, BuildRaised
<1>4. CASE Persist(p)
  <2>1. UNCHANGED mainRest
    BY <1>4 DEF Persist, Seek, LockKey, Look, InsertRow, Clash, Build, Attach, Commit, Abort
  <2>2. UNCHANGED <<main, verdict>>
    <3>1. CASE Seek(p) \/ LockKey(p) \/ Look(p) \/ InsertRow(p)
      BY <1>2, <3>1 DEF Seek, LockKey, Look, InsertRow
    <3>2. CASE Clash(p) \/ Build(p) \/ Attach(p)
      BY <1>2, <1>3, <3>2 DEF Clash, Build, Attach
    <3>3. CASE Commit(p) \/ Abort(p)
      BY <1>2, <3>3 DEF Commit, Abort
    <3>. QED
      BY <1>4, <3>1, <3>2, <3>3 DEF Persist
  <2>. QED
    BY <2>1, <2>2 DEF mainRest, mainVars
<1>5. CASE RollBack(p) \/ Record(p) \/ NoteInsert(p) \/ NoteCommit(p)
  BY <1>5 DEF RollBack, Record, NoteInsert, NoteCommit, dataVars
<1>. QED
  BY <1>4, <1>5 DEF PaperStep

LEMMA SamePipes ==
  ASSUME DataTypeOK, PipeInv, UNCHANGED <<cacheVars, threadVars, pipeVars, mainVars, halfway>>
  PROVE  DataTypeOK' /\ PipeInv'
<1>1. DataTypeOK' /\ \A q \in Runs : Untouched(q)
  BY DEF DataTypeOK, Untouched, cacheVars, threadVars, pipeVars, mainVars
<1>. QED
  BY <1>1, Elsewhere DEF PipeInv

LEMMA StepPipe ==
  ASSUME DataTypeOK, BuildTypeOK, PipeInv, [Next]_vars
  PROVE  DataTypeOK' /\ PipeInv'
<1>1. ASSUME NEW r \in Runs, DataTypeOK', Pipe(r)', \A q \in Runs \ {r} : Untouched(q)
      PROVE  DataTypeOK' /\ PipeInv'
  BY <1>1, Elsewhere DEF PipeInv
<1>2. CASE \E r \in Runs : MainStep(r) \/ ThreadStep(r) \/ Crash(r)
  <2>1. PICK r \in Runs : MainStep(r) \/ ThreadStep(r) \/ Crash(r)
    BY <1>2
  <2>2. Pipe(r)
    BY DEF PipeInv
  <2>3. CASE Begin(r)
    BY <1>1, <2>2, <2>3, BeginTyped
  <2>4. CASE ConsumerStep(r)
    BY <1>1, <2>2, <2>4, ConsumerTyped, ConsumerPipe
  <2>5. CASE WriteDetails(r) \/ Persist(r)
    BY <1>1, <2>2, <2>5, LaterWrites, LaterPipe
  <2>6. CASE ProducerStep(r)
    BY <1>1, <2>2, <2>6, ProducerTyped, ProducerPipe
  <2>7. CASE Crash(r)
    BY <1>1, <2>7, CrashTyped
  <2>. QED
    BY <2>1, <2>3, <2>4, <2>5, <2>6, <2>7 DEF MainStep, ThreadStep
<1>3. CASE \E p \in Papers : PaperStep(p)
  BY <1>3, PaperAway, SamePipes
<1>4. CASE UNCHANGED vars
  BY <1>4, SamePipes DEF vars, dataVars
<1>. QED
  BY <1>2, <1>3, <1>4 DEF Next, Rest

LEMMA StepBuild ==
  ASSUME DataTypeOK, BuildInv, [Next]_vars
  PROVE  BuildInv'
<1>1. ASSUME UNCHANGED <<main, runVars>>
      PROVE  BuildInv'
  <2>1. \A b \in Builders : Stands(b)' = Stands(b)
    BY <1>1 DEF Stands, runVars
  <2>2. BuildTypeOK' /\ BuildersLock' /\ RowsOwned' /\ RecordsAlone'
    BY <1>1, <2>1
    DEF BuildInv, BuildTypeOK, BuildersLock, RowsOwned, RecordsAlone, runVars, buildVars
  <2>3. LaterAreStale' /\ BuiltOnce'
    BY <1>1, <2>1
    DEF BuildInv, LaterAreStale, BuiltOnce, OneBuilds, BuildersShare, AttachedIsCompleted, runVars,
        buildVars
  <2>. QED
    BY <2>2, <2>3 DEF BuildInv
<1>2. BuildTypeOK /\ status \in [Runs -> Statuses]
  BY DEF BuildInv, BuildTypeOK, Statuses
<1>3. ASSUME NEW r \in Runs, NEW pc, main' = Set(main, r, pc), UNCHANGED <<buildVars, paper, recorded>>,
             status' \in [Runs -> Statuses],
             \A q \in Runs : status'[q] = "completed" => status[q] = "completed",
             pc \in Working \cup Leaving \cup {"preflight", "loading", "closed", "seeking", "aborting"}
      PROVE  BuildInv'
  <2>1. Steps(r, pc) /\ r \in Builders
    BY <1>2, <1>3, RunSteps, RunStands
  <2>2. pc \notin {"looking", "inserting", "clashed", "building", "attaching", "committing", "noted"}
    BY <1>3 DEF Working, Leaving
  <2>. QED
    BY <1>3, <2>1, <2>2, BuildAside
<1>4. CASE \E r \in Runs : MainStep(r) \/ ThreadStep(r) \/ Crash(r)
  <2>1. PICK r \in Runs : MainStep(r) \/ ThreadStep(r) \/ Crash(r)
    BY <1>4
  <2>2. CASE Begin(r)
    <3>1. main' = Set(main, r, "preflight") /\ status' = Set(status, r, "running")
          /\ UNCHANGED <<buildVars, paper, recorded>>
      BY <2>2 DEF Begin, MainGo
    <3>2. status' \in [Runs -> Statuses]
          /\ \A q \in Runs : status'[q] = "completed" => status[q] = "completed"
      BY <1>2, <3>1 DEF Set, Statuses
    <3>. QED
      BY <1>3, <3>1, <3>2
  <2>3. CASE ConsumerStep(r) /\ UNCHANGED runVars
    <3>1. main' = main \/ \E p \in Working \cup Leaving \cup {"loading", "closed"} : main' = Set(main, r, p)
      BY <2>3, ConsumerWrites DEF ConsumerMoves
    <3>. QED
      BY <1>1, <1>2, <1>3, <2>3, <3>1 DEF runVars
  <2>4. CASE WriteDetails(r)
    <3>1. UNCHANGED runVars /\ \E p \in {"seeking", "aborting"} : main' = Set(main, r, p)
      BY <2>4 DEF WriteDetails, Proceeds, Aborts, MainGo
    <3>. QED
      BY <1>2, <1>3, <3>1 DEF runVars
  <2>5. CASE Persist(r)
    BY <2>5, PersistBuild, RunStands
  <2>6. CASE ThreadStep(r)
    <3>1. UNCHANGED mainVars
      BY <2>6, ProducerWrites DEF ThreadStep, ProducerMoves
    <3>. QED
      BY <1>1, <2>6, <3>1 DEF ThreadStep, mainVars
  <2>7. CASE Crash(r)
    <3>1. main' = Set(main, r, "killed") /\ Release(r) /\ UNCHANGED <<status, live, stale, made, paper, recorded>>
      BY <2>7 DEF Crash, MainGo
    <3>2. Steps(r, "killed") /\ r \in Builders
      BY <1>2, <3>1, RunSteps, RunStands
    <3>3. LeavesBehind(r)
      BY <3>1 DEF LeavesBehind
    <3>. QED
      BY <1>2, <3>1, <3>2, <3>3, ReleaseBuild
  <2>. QED
    BY <2>1, <2>2, <2>3, <2>4, <2>5, <2>6, <2>7 DEF MainStep
<1>5. CASE \E p \in Papers : PaperStep(p)
  BY <1>5, PersistBuild, RecordBuild, PaperStands DEF PaperStep
<1>6. CASE UNCHANGED vars
  BY <1>1, <1>6 DEF vars, dataVars, mainVars
<1>. QED
  BY <1>4, <1>5, <1>6 DEF Next, Rest

-----------------------------------------------------------------------------
(* The entries: what a step of a run leaves to the others.                  *)

LEMMA CacheStep ==
  ASSUME DataTypeOK, CacheInv, NEW r \in Runs, \A q \in Runs \ {r} : Untouched(q),
         ~halfway' => ~halfway /\ EntriesWhole' /\ \A c \in Chunks : Present(c) => Present(c)',
         Torn' \subseteq Torn,
         \A c \in Torn : c \in Torn' \/ flock[c] = r,
         \A c \in Chunks : flock'[c] = flock[c] \/ flock[c] \in {NoRun, r},
         WritersLock(r)', ~halfway' => SplitsRead(r)' /\ WithSplits(r)'
  PROVE  CacheInv'
<1>1. ASSUME NEW q \in Runs \ {r}
      PROVE  WritersLock(q)'
  <2>1. q # NoRun /\ at[q] \in Chunks /\ WritersLock(q)
    BY RunsAssumption DEF DataTypeOK, CacheInv
  <2>2. producer'[q] = producer[q] /\ at'[q] = at[q] /\ warm'[q] = warm[q]
    BY DEF Untouched
  <2>3. flock[at[q]] = q => flock'[at[q]] = q
    BY <2>1
  <2>. QED
    BY <2>1, <2>2, <2>3 DEF WritersLock, Writing
<1>2. ASSUME NEW q \in Runs \ {r}, ~halfway'
      PROVE  SplitsRead(q)' /\ WithSplits(q)'
  <2>1. SplitsRead(q) /\ WithSplits(q) /\ Untouched(q) /\ (\A c \in Chunks : Present(c) => Present(c)')
    BY <1>2 DEF CacheInv
  <2>2. SplitsRead(q)'
    BY <2>1 DEF SplitsRead, Untouched
  <2>3. WithSplits(q)'
    BY <2>1 DEF WithSplits, Untouched, OffersChunk, InQueue
  <2>. QED
    BY <2>2, <2>3
<1>. QED
  BY <1>1, <1>2 DEF CacheInv

\* The entries stay, and nobody begins or ends to refill one.
LEMMA CacheStays ==
  ASSUME DataTypeOK, CacheInv, NEW r \in Runs, \A q \in Runs \ {r} : Untouched(q),
         UNCHANGED <<metadata, arrays, halfway>>,
         producer[r] # "refilling", producer'[r] # "refilling",
         \A c \in Chunks : flock'[c] = flock[c] \/ flock[c] \in {NoRun, r},
         WritersLock(r)', ~halfway => SplitsRead(r)' /\ WithSplits(r)'
  PROVE  CacheInv'
<1>1. Torn' = Torn
  BY DEF Torn
<1>2. \A c \in Chunks : (Refilled(c)' <=> Refilled(c)) /\ (Present(c)' <=> Present(c))
  BY DEF Refilled, Present, Untouched
<1>3. EntriesWhole => EntriesWhole'
  BY <1>1, <1>2 DEF EntriesWhole
<1>. QED
  BY <1>1, <1>2, <1>3, CacheStep DEF CacheInv

\* Two runs do not write one entry.
LEMMA WritersApart ==
  ASSUME CacheInv, NEW r \in Runs, NEW q \in Runs, producer[r] \in Writing, producer[q] \in Writing,
         at[q] = at[r]
  PROVE  q = r
BY DEF CacheInv, WritersLock

\* What the thread has read of the splits.
LEMMA ThreadReads ==
  ASSUME NEW r \in Runs, Pipe(r), SplitsRead(r), MainStays(r), splits'[r] = splits[r],
         producer[r] \notin {"none", "dead"}, Torn' \subseteq Torn,
         \A c \in Chunks : Present(c) => Present(c)',
         producer'[r] \in Writing => splits[r],
         \/ warm'[r] = warm[r] /\ producer[r] # "checking"
         \/ producer'[r] = "checking"
         \/ warm'[r]
         \/ splits[r] \/ Torn' = {}
  PROVE  SplitsRead(r)'
BY DEF SplitsRead, MainStays, Pipe, InPlace, Early

LEMMA ThreadKeeps ==
  ASSUME NEW r \in Runs, WithSplits(r), MainStays(r), queue'[r] = queue[r],
         producer'[r] = "mapping" \/ OffersChunk(r)' => sidecar'[r] = "full"
  PROVE  WithSplits(r)'
BY DEF WithSplits, MainStays, InQueue

LEMMA OpenedRead ==
  ASSUME DataTypeOK, NEW r \in Runs, NEW s, Opened(r, s)
  PROVE  /\ producer'[r] \in {"opening", "offering"}
         /\ OffersChunk(r)' => sidecar'[r] = s
<1>1. /\ producer \in [Runs -> Threads] /\ item \in [Runs -> Whats] /\ sidecar \in [Runs -> Sidecars]
  BY DEF DataTypeOK, Whats
<1>2. CASE at[r] \in Empty
  <2>1. \/ producer' = Set(producer, r, "opening")
        \/ producer' = Set(producer, r, "offering") /\ item' = Set(item, r, IF Empty = Chunks THEN "error" ELSE "end")
    BY <1>2 DEF Opened, Advance, Finished, Offering, Go
  <2>. QED
    BY <1>1, <2>1 DEF Set, OffersChunk, Handing
<1>3. CASE at[r] \notin Empty
  <2>1. producer' = Set(producer, r, "offering") /\ sidecar' = Set(sidecar, r, s)
    BY <1>3 DEF Opened, Offering, Go
  <2>. QED
    BY <1>1, <2>1 DEF Set
<1>. QED
  BY <1>2, <1>3

\* The steps of a producer that write no entry: they leave the thread where it holds no
\* lock file, or take it there.
LEMMA ThreadCache ==
  ASSUME DataTypeOK, CacheInv, NEW r \in Runs, Pipe(r), \A q \in Runs \ {r} : Untouched(q), MainStays(r),
         splits' = splits, UNCHANGED <<metadata, arrays, halfway>>,
         producer[r] \notin {"none", "dead", "refilling"}, producer'[r] \notin {"refilling"},
         \A c \in Chunks : flock'[c] = flock[c] \/ flock[c] \in {NoRun, r},
         WritersLock(r)',
         ~halfway => /\ producer'[r] \in Writing => splits[r]
                     /\ \/ warm'[r] = warm[r] /\ producer[r] # "checking"
                        \/ producer'[r] = "checking"
                        \/ warm'[r]
                        \/ splits[r] \/ Torn = {}
                     /\ WithSplits(r)'
  PROVE  CacheInv'
<1>1. Torn' = Torn
  BY DEF Torn
<1>2. \A c \in Chunks : Present(c) => Present(c)'
  BY DEF Refilled, Present, Untouched
<1>3. ~halfway => SplitsRead(r)'
  BY <1>1, <1>2, ThreadReads DEF CacheInv
<1>. QED
  BY <1>3, CacheStays

LEMMA ProducerCache ==
  ASSUME DataTypeOK, CacheInv, NEW r \in Runs, Pipe(r), ProducerStep(r)
  PROVE  CacheInv'
<1>1. ProducerMoves(r) /\ \A q \in Runs \ {r} : Untouched(q)
  BY ProducerWrites, ProducerTyped
<1>2. MainStays(r) /\ splits' = splits /\ halfway' = halfway
  BY <1>1 DEF ProducerMoves, MainStays, mainVars
<1>3. /\ metadata \in [Chunks -> {"none", "full", "bare"}] /\ flock \in [Chunks -> Runs \cup {NoRun}]
      /\ producer \in [Runs -> Threads] /\ at \in [Runs -> Chunks] /\ warm \in [Runs -> BOOLEAN]
      /\ sidecar \in [Runs -> Sidecars] /\ item \in [Runs -> Whats]
      /\ queue \in [Runs -> {<<>>} \cup {<<i>> : i \in Items}]
  BY DEF DataTypeOK, Whats
<1>4. at[r] \in Chunks /\ r # NoRun
  BY <1>3, RunsAssumption
<1>5. /\ \A p : Go(r, p) => producer'[r] = p
      /\ \A w : Offering(r, w) => producer'[r] = "offering" /\ item'[r] = w
  BY <1>3 DEF Go, Offering, Set
<1>6. WritersLock(r) /\ (~halfway => EntriesWhole /\ SplitsRead(r) /\ WithSplits(r))
  BY DEF CacheInv
<1>7. CASE Check(r)
  <2>1. /\ producer[r] = "checking" /\ queue' = queue /\ UNCHANGED <<metadata, arrays, flock>>
        /\ \/ producer'[r] = "checking"
           \/ producer'[r] = "opening" /\ warm'[r]
           \/ metadata[at[r]] = "none" /\ producer'[r] = "opening"
           \/ metadata[at[r]] = "none" /\ producer'[r] = "offering" /\ item'[r] = "error"
    BY <1>3, <1>5, <1>7 DEF Check, Raises, cacheVars, pipeVars, Set
  <2>2. ~OffersChunk(r)'
    BY <2>1 DEF OffersChunk, Handing
  <2>3. WritersLock(r)'
    BY <2>1 DEF WritersLock, Writing
  <2>4. ~halfway => WithSplits(r)'
    BY <1>2, <1>6, <2>1, <2>2, ThreadKeeps
  <2>5. ~halfway /\ metadata[at[r]] = "none" /\ ~splits[r] => Torn = {}
    <3>1. SUFFICES ASSUME ~halfway, metadata[at[r]] = "none", ~splits[r], NEW c \in Torn
                   PROVE  FALSE
      OBVIOUS
    <3>2. Refilled(at[r])
      BY <1>4, <1>6, <2>1, <3>1 DEF SplitsRead, Present
    <3>3. c = at[r]
      BY <1>4, <1>6, <3>1, <3>2 DEF EntriesWhole, Torn
    <3>. QED
      BY <3>1, <3>3 DEF Torn
  <2>6. splits[r] \in BOOLEAN
    BY DEF DataTypeOK
  <2>. QED
    BY <1>1, <1>2, <2>1, <2>3, <2>4, <2>5, <2>6, ThreadCache DEF Writing
<1>8. CASE Stopped(r)
  <2>1. /\ producer[r] = "opening" /\ producer'[r] = "offering" /\ item'[r] = "end"
        /\ queue' = queue /\ UNCHANGED <<metadata, arrays, flock, warm>>
    BY <1>5, <1>8 DEF Stopped, Heeds, cacheVars, pipeVars
  <2>2. WritersLock(r)' /\ ~OffersChunk(r)'
    BY <2>1 DEF WritersLock, Writing, OffersChunk
  <2>. QED
    BY <1>1, <1>2, <1>6, <2>1, <2>2, ThreadKeeps, ThreadCache DEF Writing
<1>9. CASE OpenMetadata(r)
  <2>1. /\ producer[r] = "opening" /\ queue' = queue /\ UNCHANGED <<metadata, arrays, flock, warm>>
        /\ \/ producer'[r] = "mapping" /\ metadata[at[r]] # "none" /\ sidecar'[r] = metadata[at[r]]
           \/ producer'[r] = "waiting" /\ ~warm[r]
           \/ producer'[r] = "offering" /\ item'[r] = "error"
    BY <1>3, <1>5, <1>9 DEF OpenMetadata, Missing, GiveUp, LoadShards, Raises, cacheVars, pipeVars, Set
  <2>2. WritersLock(r)' /\ ~OffersChunk(r)'
    BY <2>1 DEF WritersLock, Writing, OffersChunk, Handing
  <2>3. ~halfway /\ producer'[r] = "mapping" => sidecar'[r] = "full"
    BY <1>3, <1>4, <1>6, <2>1 DEF EntriesWhole
  <2>4. ~halfway => WithSplits(r)'
    BY <1>2, <1>6, <2>1, <2>2, <2>3, ThreadKeeps
  <2>. QED
    BY <1>1, <1>2, <2>1, <2>2, <2>4, ThreadCache DEF Writing
<1>10. CASE OpenArrays(r)
  <2>1. /\ producer[r] = "mapping" /\ queue' = queue /\ UNCHANGED <<metadata, arrays, flock, warm>>
        /\ \/ Opened(r, sidecar[r])
           \/ producer'[r] = "waiting" /\ ~warm[r]
           \/ producer'[r] = "offering" /\ item'[r] = "error"
    BY <1>3, <1>5, <1>10 DEF OpenArrays, Missing, GiveUp, LoadShards, Raises, cacheVars
  <2>2. /\ producer'[r] \in {"opening", "offering", "waiting"}
        /\ OffersChunk(r)' => sidecar'[r] = sidecar[r]
        /\ producer'[r] = "waiting" => ~warm[r]
    BY <2>1, OpenedRead DEF OffersChunk, Handing
  <2>3. WritersLock(r)'
    BY <2>1, <2>2 DEF WritersLock, Writing
  <2>4. ~halfway => WithSplits(r)'
    <3>1. ~halfway => sidecar[r] = "full"
      BY <1>6, <2>1 DEF WithSplits
    <3>. QED
      BY <1>2, <1>6, <2>1, <2>2, <3>1, ThreadKeeps
  <2>. QED
    BY <1>1, <1>2, <2>1, <2>2, <2>3, <2>4, ThreadCache DEF Writing
<1>11. CASE Reuse(r)
  <2>1. /\ producer[r] = "waiting" /\ queue' = queue /\ UNCHANGED <<metadata, arrays, flock, warm>>
        /\ metadata[at[r]] # "none" /\ Opened(r, metadata[at[r]])
    BY <1>11 DEF Reuse, Locking, Readable, cacheVars
  <2>2. /\ producer'[r] \in {"opening", "offering"}
        /\ OffersChunk(r)' => sidecar'[r] = metadata[at[r]]
    BY <2>1, OpenedRead
  <2>3. WritersLock(r)'
    BY <2>1, <2>2 DEF WritersLock, Writing
  <2>4. ~halfway => WithSplits(r)'
    <3>1. ~halfway => metadata[at[r]] = "full"
      BY <1>3, <1>4, <1>6, <2>1 DEF EntriesWhole
    <3>. QED
      BY <1>2, <1>6, <2>1, <2>2, <3>1, ThreadKeeps
  <2>. QED
    BY <1>1, <1>2, <2>1, <2>2, <2>3, <2>4, ThreadCache DEF Writing
<1>12. CASE Write(r)
  <2>1. /\ producer[r] = "waiting" /\ flock[at[r]] = NoRun /\ ~Readable(at[r])
        /\ queue' = queue /\ UNCHANGED <<metadata, arrays, warm>>
        /\ \/ /\ producer'[r] = IF metadata[at[r]] = "none" THEN "replacing" ELSE "unlinking"
              /\ flock' = [flock EXCEPT ![at[r]] = r] /\ UNCHANGED at
           \/ producer'[r] = "offering" /\ item'[r] = "error" /\ UNCHANGED flock
    BY <1>5, <1>12 DEF Write, Locking, Raises, pipeVars
  <2>2. WritersLock(r)'
    <3>1. CASE producer'[r] = "offering"
      BY <3>1 DEF WritersLock, Writing
    <3>2. CASE producer'[r] # "offering"
      <4>1. flock'[at[r]] = r /\ at'[r] = at[r] /\ producer'[r] # "waiting"
        BY <1>3, <1>4, <2>1, <3>2
      <4>2. producer'[r] = "unlinking" => at[r] \in Torn'
        BY <1>4, <2>1, <3>2 DEF Torn, Readable
      <4>. QED
        BY <4>1, <4>2 DEF WritersLock
    <3>. QED
      BY <3>1, <3>2
  <2>3. /\ producer'[r] \in {"replacing", "unlinking", "offering"} /\ ~OffersChunk(r)'
        /\ \A c \in Chunks : flock'[c] = flock[c] \/ flock[c] \in {NoRun, r}
    BY <1>3, <1>4, <2>1 DEF OffersChunk, Handing
  <2>4. ~halfway => WithSplits(r)' /\ splits[r]
    <3>1. SUFFICES ASSUME ~halfway
                   PROVE  WithSplits(r)' /\ splits[r]
      OBVIOUS
    <3>2. WithSplits(r)'
      BY <1>2, <1>6, <2>1, <2>3, <3>1, ThreadKeeps
    <3>3. ASSUME ~splits[r]
          PROVE  FALSE
      <4>1. Torn = {} /\ Present(at[r])
        BY <1>4, <1>6, <2>1, <3>1, <3>3 DEF SplitsRead, WritersLock
      <4>2. metadata[at[r]] = "none"
        BY <1>4, <2>1, <4>1 DEF Torn, Readable
      <4>3. PICK q \in Runs : producer[q] = "refilling" /\ at[q] = at[r]
        BY <4>1, <4>2 DEF Present, Refilled
      <4>4. flock[at[r]] = q /\ q # NoRun
        BY <4>3, RunsAssumption DEF CacheInv, WritersLock, Writing
      <4>. QED
        BY <2>1, <4>4
    <3>. QED
      BY <3>2, <3>3
  <2>. QED
    BY <1>1, <1>2, <2>1, <2>2, <2>3, <2>4, ThreadCache DEF Writing
<1>13. CASE Unlink(r)
  <2>1. /\ producer[r] = "unlinking" /\ producer'[r] = "refilling"
        /\ metadata' = [metadata EXCEPT ![at[r]] = "none"]
        /\ UNCHANGED <<arrays, flock, at, warm, queue>>
    BY <1>5, <1>13 DEF Unlink, pipeVars
  <2>2. flock[at[r]] = r /\ at[r] \in Torn
    BY <1>6, <2>1 DEF WritersLock, Writing
  <2>3. Torn' = Torn \ {at[r]}
    BY <1>3, <1>4, <2>1 DEF Torn
  <2>4. \A c \in Chunks : Refilled(c)' => Refilled(c) \/ c = at[r]
    BY <1>1, <2>1 DEF Refilled, Untouched
  <2>5. \A c \in Chunks : Present(c) => Present(c)'
    <3>1. SUFFICES ASSUME NEW c \in Chunks, Present(c)
                   PROVE  Present(c)'
      OBVIOUS
    <3>2. CASE c = at[r]
      BY <2>1, <3>2 DEF Present, Refilled
    <3>3. CASE c # at[r] /\ metadata[c] # "none"
      BY <1>3, <2>1, <3>3 DEF Present
    <3>4. CASE Refilled(c)
      <4>1. PICK q \in Runs : producer[q] = "refilling" /\ at[q] = c
        BY <3>4 DEF Refilled
      <4>2. producer'[q] = "refilling" /\ at'[q] = c
        BY <1>1, <2>1, <4>1 DEF Untouched
      <4>. QED
        BY <4>2 DEF Present, Refilled
    <3>. QED
      BY <3>1, <3>2, <3>3, <3>4 DEF Present
  <2>6. ~halfway => EntriesWhole'
    <3>1. SUFFICES ASSUME EntriesWhole
                   PROVE  EntriesWhole'
      BY <1>6
    <3>2. \A c \in Chunks : metadata'[c] # "bare"
      BY <1>3, <1>4, <2>1, <3>1 DEF EntriesWhole
    <3>3. \A c \in Chunks : c \in Torn' \/ Refilled(c)' => c \in Torn \/ Refilled(c)
      BY <2>2, <2>3, <2>4
    <3>. QED
      BY <3>1, <3>2, <3>3 DEF EntriesWhole
  <2>7. WritersLock(r)'
    BY <2>1, <2>2 DEF WritersLock, Writing
  <2>8. ~halfway => SplitsRead(r)' /\ WithSplits(r)'
    <3>1. ~OffersChunk(r)'
      BY <2>1 DEF OffersChunk, Handing
    <3>2. ~halfway => splits[r]
      BY <1>6, <2>1 DEF SplitsRead, Writing
    <3>3. ~halfway => SplitsRead(r)'
      BY <1>2, <1>6, <2>1, <2>3, <2>5, <3>2, ThreadReads
    <3>. QED
      BY <1>2, <1>6, <2>1, <3>1, <3>3, ThreadKeeps
  <2>. QED
    BY <1>1, <1>2, <2>1, <2>2, <2>3, <2>5, <2>6, <2>7, <2>8, CacheStep
<1>14. CASE Replace(r)
  <2>1. /\ producer[r] \in {"replacing", "refilling"} /\ arrays' = arrays \cup {at[r]}
        /\ metadata' = [metadata EXCEPT ![at[r]] = IF splits[r] THEN "full" ELSE "bare"]
        /\ flock' = [flock EXCEPT ![at[r]] = NoRun]
        /\ Opened(r, metadata'[at[r]]) /\ UNCHANGED <<warm, queue>>
    BY <1>14 DEF Replace, Unlocked
  <2>2. flock[at[r]] = r
    BY <1>6, <2>1 DEF WritersLock, Writing
  <2>3. /\ producer'[r] \in {"opening", "offering"}
        /\ OffersChunk(r)' => sidecar'[r] = metadata'[at[r]]
    BY <2>1, OpenedRead
  <2>4. Torn' = Torn \ {at[r]}
    BY <1>3, <1>4, <2>1 DEF Torn
  <2>5. \A c \in Chunks : Refilled(c)' => Refilled(c)
    BY <1>1, <2>3 DEF Refilled, Untouched
  <2>6. \A c \in Chunks : Present(c) => Present(c)'
    <3>1. SUFFICES ASSUME NEW c \in Chunks, Present(c)
                   PROVE  Present(c)'
      OBVIOUS
    <3>2. CASE c = at[r]
      BY <1>3, <1>4, <2>1, <3>2 DEF Present
    <3>3. CASE c # at[r] /\ metadata[c] # "none"
      BY <1>3, <2>1, <3>3 DEF Present
    <3>4. CASE c # at[r] /\ Refilled(c)
      <4>1. PICK q \in Runs : producer[q] = "refilling" /\ at[q] = c
        BY <3>4 DEF Refilled
      <4>2. producer'[q] = "refilling" /\ at'[q] = c
        BY <1>1, <3>4, <4>1 DEF Untouched
      <4>. QED
        BY <4>2 DEF Present, Refilled
    <3>. QED
      BY <3>1, <3>2, <3>3, <3>4 DEF Present
  <2>7. ~halfway => metadata'[at[r]] = "full" /\ splits[r]
    BY <1>3, <1>4, <1>6, <2>1 DEF SplitsRead, Writing
  <2>8. ~halfway => EntriesWhole'
    <3>1. SUFFICES ASSUME ~halfway
                   PROVE  EntriesWhole'
      OBVIOUS
    <3>2. \A c \in Chunks : metadata'[c] # "bare"
      BY <1>3, <1>4, <1>6, <2>1, <2>7, <3>1 DEF EntriesWhole
    <3>. QED
      BY <1>6, <2>4, <2>5, <3>1, <3>2 DEF EntriesWhole
  <2>9. WritersLock(r)'
    BY <2>3 DEF WritersLock, Writing
  <2>10. ~halfway => SplitsRead(r)' /\ WithSplits(r)'
    <3>1. ~halfway => SplitsRead(r)'
      BY <1>2, <1>6, <2>1, <2>4, <2>6, <2>7, ThreadReads
    <3>. QED
      BY <1>2, <1>6, <2>1, <2>3, <2>7, <3>1, ThreadKeeps
  <2>11. \A c \in Chunks : flock'[c] = flock[c] \/ flock[c] \in {NoRun, r}
    BY <1>3, <1>4, <2>1, <2>2
  <2>12. \A c \in Torn : c \in Torn' \/ flock[c] = r
    BY <2>2, <2>4
  <2>. QED
    BY <1>1, <1>2, <2>4, <2>6, <2>8, <2>9, <2>10, <2>11, <2>12, CacheStep
<1>15. CASE Offer(r)
  <2>1. /\ producer[r] = "offering" /\ queue' = queue /\ UNCHANGED <<metadata, arrays, flock, warm>>
        /\ \/ producer'[r] = "dead"
           \/ producer'[r] = "offering" /\ item'[r] = "end"
           \/ producer'[r] = "putting" /\ UNCHANGED <<item, sidecar>>
    BY <1>3, <1>5, <1>15 DEF Offer, cacheVars, Set
  <2>2. WritersLock(r)' /\ (OffersChunk(r)' => OffersChunk(r) /\ sidecar' = sidecar)
    BY <2>1 DEF WritersLock, Writing, OffersChunk, Handing
  <2>3. ~halfway => WithSplits(r)'
    <3>1. ~halfway /\ OffersChunk(r)' => sidecar'[r] = "full"
      BY <1>6, <2>2 DEF WithSplits
    <3>. QED
      BY <1>2, <1>6, <2>1, <3>1, ThreadKeeps
  <2>. QED
    BY <1>1, <1>2, <2>1, <2>2, <2>3, ThreadCache DEF Writing
<1>16. CASE Put(r)
  <2>1. /\ producer[r] = "putting" /\ UNCHANGED <<metadata, arrays, flock, warm>>
        /\ \/ /\ queue' = Set(queue, r, <<Item(r)>>)
              /\ \/ producer'[r] \in {"opening", "dead"}
                 \/ producer'[r] = "offering" /\ item'[r] \in {"error", "end"}
           \/ queue' = queue /\ producer'[r] = "offering" /\ UNCHANGED <<item, sidecar>>
    BY <1>5, <1>16 DEF Put, AfterPut, Advance, Finished, cacheVars
  <2>2. WritersLock(r)'
    BY <2>1 DEF WritersLock, Writing
  <2>3. ~halfway => WithSplits(r)'
    <3>1. SUFFICES ASSUME WithSplits(r)
                   PROVE  WithSplits(r)'
      BY <1>6
    <3>2. CASE queue' = queue
      <4>1. OffersChunk(r)' => OffersChunk(r) /\ sidecar'[r] = sidecar[r]
        BY <2>1, <3>2 DEF OffersChunk, Handing
      <4>2. producer'[r] = "mapping" \/ OffersChunk(r)' => sidecar'[r] = "full"
        BY <2>1, <3>1, <4>1 DEF WithSplits
      <4>. QED
        BY <1>2, <3>1, <3>2, <4>2, ThreadKeeps
    <3>3. CASE queue' = Set(queue, r, <<Item(r)>>) /\ queue' # queue
      <4>1. Head(queue'[r]) = Item(r) /\ Item(r).what = item[r] /\ Item(r).sidecar = sidecar[r]
        BY <1>3, <3>3 DEF Set, Item
      <4>2. InQueue(r, "chunk")' => OffersChunk(r)
        BY <2>1, <4>1 DEF InQueue, OffersChunk, Handing
      <4>3. ~OffersChunk(r)' /\ producer'[r] # "mapping"
        BY <2>1, <3>3 DEF OffersChunk, Handing
      <4>. QED
        BY <1>2, <3>1, <4>1, <4>2, <4>3 DEF WithSplits, MainStays
    <3>. QED
      BY <2>1, <3>2, <3>3
  <2>. QED
    BY <1>1, <1>2, <2>1, <2>2, <2>3, ThreadCache DEF Writing
<1>. QED
  BY <1>7, <1>8, <1>9, <1>10, <1>11, <1>12, <1>13, <1>14, <1>15, <1>16 DEF ProducerStep

\* The main thread writes no entry and holds no lock file.
LEMMA MainCache ==
  ASSUME DataTypeOK, CacheInv, NEW r \in Runs, \A q \in Runs \ {r} : Untouched(q),
         UNCHANGED <<cacheVars, halfway>>, producer[r] # "refilling" \/ UNCHANGED <<at, warm>>,
         \/ producer'[r] = producer[r] /\ (producer[r] = "dead" \/ UNCHANGED <<at, warm, splits>>)
         \/ producer'[r] \in {"none", "checking"} /\ producer[r] = "none",
         ~halfway => SplitsRead(r)' /\ WithSplits(r)'
  PROVE  CacheInv'
<1>1. /\ Torn' = Torn /\ flock' = flock /\ metadata' = metadata
  BY DEF Torn, cacheVars
<1>2. \A c \in Chunks : (Refilled(c)' <=> Refilled(c)) /\ (Present(c)' <=> Present(c))
  BY <1>1 DEF Refilled, Present, Untouched
<1>3. EntriesWhole => EntriesWhole'
  BY <1>1, <1>2 DEF EntriesWhole
<1>4. WritersLock(r)'
  BY <1>1 DEF CacheInv, WritersLock, Writing
<1>. QED
  BY <1>1, <1>2, <1>3, <1>4, CacheStep DEF CacheInv

\* Its thread goes on as it was.
LEMMA MainReads ==
  ASSUME NEW r \in Runs, SplitsRead(r), UNCHANGED cacheVars, UNCHANGED producer, UNCHANGED at,
         producer[r] = "dead" \/ UNCHANGED <<splits, warm>>,
         main'[r] \notin {"idle", "preflight"}
  PROVE  SplitsRead(r)'
<1>1. Torn' = Torn /\ \A c \in Chunks : Present(c)' <=> Present(c)
  BY DEF Torn, Present, Refilled, cacheVars
<1>. QED
  BY <1>1 DEF SplitsRead, Writing

LEMMA ConsumerCache ==
  ASSUME DataTypeOK, CacheInv, NEW r \in Runs, Pipe(r), ConsumerStep(r)
  PROVE  CacheInv'
<1>1. ConsumerMoves(r) /\ \A q \in Runs \ {r} : Untouched(q)
  BY ConsumerWrites, ConsumerTyped
<1>2. UNCHANGED <<cacheVars, sidecar, halfway>>
  BY <1>1 DEF ConsumerMoves
<1>3. /\ main \in [Runs -> Early \cup Working \cup Leaving \cup Gone] /\ producer \in [Runs -> Threads]
      /\ at \in [Runs -> Chunks] /\ splits \in [Runs -> BOOLEAN]
      /\ queue \in [Runs -> {<<>>} \cup {<<i>> : i \in Items}] /\ hand \in [Runs -> Items]
      /\ taken \in [Runs -> Seq(Items)] /\ verdict \in [Runs -> {"none", "done", "raised"}]
  BY DEF DataTypeOK
<1>4. /\ \A pc : MainGo(r, pc) => main'[r] = pc
      /\ \A p : Go(r, p) => producer'[r] = p
      /\ \A v : Leave(r, v) => main'[r] = "closing"
  BY <1>3 DEF MainGo, Go, Leave, Set
<1>5. ~halfway => SplitsRead(r) /\ WithSplits(r)
  BY DEF CacheInv
<1>6. CASE Preflight(r) \/ LoadSplits(r)
  <2>1. /\ main[r] \in {"preflight", "loading"} /\ producer[r] = "none"
        /\ UNCHANGED <<sidecar, item, queue, hand, taken>>
    BY <1>6 DEF Preflight, LoadSplits, pipeVars, Pipe, InPlace, Early
  <2>2. \/ /\ main'[r] = "preflight" /\ producer'[r] = "none" /\ main[r] = "preflight"
           /\ metadata[at[r]] # "none" /\ at[r] < NChunks /\ at'[r] = at[r] + 1
        \/ /\ main'[r] = "hydrating" /\ producer'[r] = "checking" /\ main[r] = "preflight"
           /\ metadata[at[r]] # "none" /\ ~(at[r] < NChunks) /\ splits'[r] = splits[r]
        \/ main'[r] = "hydrating" /\ producer'[r] = "checking" /\ splits'[r]
        \/ main'[r] = "loading" /\ producer'[r] = "none"
    <3>1. CASE Preflight(r)
      BY <1>3, <1>4, <2>1, <3>1 DEF Preflight, StartPipeline, Set
    <3>2. CASE LoadSplits(r)
      BY <1>3, <1>4, <3>2 DEF LoadSplits, StartPipeline, Set
    <3>. QED
      BY <1>6, <3>1, <3>2
  <2>3. /\ metadata' = metadata /\ Torn' = Torn
        /\ \A c \in Chunks : Present(c) => Present(c)'
    <3>1. metadata' = metadata /\ Torn' = Torn
      BY <1>2 DEF cacheVars, Torn
    <3>2. ASSUME NEW c \in Chunks, Refilled(c)
          PROVE  Refilled(c)'
      <4>1. PICK q \in Runs : producer[q] = "refilling" /\ at[q] = c
        BY <3>2 DEF Refilled
      <4>2. q # r
        BY <2>1, <4>1
      <4>. QED
        BY <1>1, <4>1, <4>2 DEF Refilled, Untouched
    <3>. QED
      BY <3>1, <3>2 DEF Present
  <2>4. ~halfway => SplitsRead(r)'
    <3>1. SUFFICES ASSUME SplitsRead(r)
                   PROVE  SplitsRead(r)'
      BY <1>5
    <3>2. at[r] \in 1 .. NChunks /\ NChunks \in Nat
      BY <1>3, ChunksAssumption DEF Chunks
    <3>3. CASE main'[r] = "preflight" /\ producer'[r] = "none"
      <4>1. main[r] = "preflight" /\ metadata[at[r]] # "none" /\ at'[r] = at[r] + 1
        BY <2>2, <3>3
      <4>2. ASSUME NEW c \in Chunks, c < at[r] + 1
            PROVE  Present(c)
        <5>1. c < at[r] \/ c = at[r]
          BY <3>2, <4>2 DEF Chunks
        <5>. QED
          BY <3>1, <4>1, <5>1 DEF SplitsRead, Present
      <4>. QED
        BY <2>3, <3>3, <4>1, <4>2 DEF SplitsRead, Writing
    <3>4. CASE main'[r] = "hydrating" /\ producer'[r] = "checking" /\ splits'[r]
      BY <3>4 DEF SplitsRead, Writing
    <3>5. CASE main'[r] = "hydrating" /\ producer'[r] = "checking" /\ ~splits'[r]
      <4>1. main[r] = "preflight" /\ metadata[at[r]] # "none" /\ ~(at[r] < NChunks)
        BY <2>2, <3>5
      <4>2. ASSUME NEW c \in Chunks
            PROVE  Present(c)
        <5>1. c < at[r] \/ c = at[r]
          BY <3>2, <4>1 DEF Chunks
        <5>. QED
          BY <3>1, <4>1, <5>1 DEF SplitsRead, Present
      <4>. QED
        BY <2>3, <3>5, <4>2 DEF SplitsRead, Writing
    <3>6. CASE main'[r] = "loading" /\ producer'[r] = "none"
      BY <3>6 DEF SplitsRead, Writing
    <3>. QED
      BY <2>2, <3>3, <3>4, <3>5, <3>6
  <2>5. ~halfway => WithSplits(r)'
    BY <1>5, <2>1, <2>2 DEF WithSplits, OffersChunk, Handing, InQueue
  <2>6. producer'[r] \in {"none", "checking"}
    BY <2>2
  <2>. QED
    BY <1>1, <1>2, <2>1, <2>4, <2>5, <2>6, MainCache
<1>7. CASE Hydrate(r) \/ Take(r) \/ Compute(r)
  <2>1. /\ UNCHANGED threadVars /\ main[r] \in Working
        /\ main'[r] \in {"taking", "computing", "closing"}
    BY <1>4, <1>7 DEF Hydrate, Take, Compute, Working
  <2>2. ~halfway => SplitsRead(r)'
    BY <1>2, <1>5, <2>1, MainReads DEF threadVars
  <2>3. ~halfway => WithSplits(r)'
    <3>1. SUFFICES ASSUME WithSplits(r)
                   PROVE  WithSplits(r)'
      BY <1>5
    <3>2. OffersChunk(r)' = OffersChunk(r) /\ producer' = producer /\ sidecar' = sidecar
      BY <2>1 DEF threadVars, OffersChunk
    <3>3. CASE Hydrate(r)
      <4>1. main'[r] # "computing" /\ UNCHANGED <<queue, taken>>
        BY <1>4, <3>3 DEF Hydrate, pipeVars
      <4>. QED
        BY <3>1, <3>2, <4>1 DEF WithSplits, InQueue
    <3>4. CASE Take(r)
      <4>1. queue'[r] = <<>> /\ UNCHANGED taken
            /\ (main'[r] = "computing" => InQueue(r, "chunk") /\ hand'[r] = Head(queue[r]))
        BY <1>3, <1>4, <3>4 DEF Take, Set, InQueue
      <4>. QED
        BY <3>1, <3>2, <4>1 DEF WithSplits, InQueue
    <3>5. CASE Compute(r)
      <4>1. main[r] = "computing" /\ main'[r] # "computing" /\ UNCHANGED <<queue, hand>>
            /\ (taken'[r] = taken[r] \/ taken'[r] = Append(taken[r], hand[r]))
        BY <1>3, <1>4, <3>5 DEF Compute, Set
      <4>2. hand[r].sidecar = "full" /\ \A i \in DOMAIN taken[r] : taken[r][i].sidecar = "full"
        BY <3>1, <4>1 DEF WithSplits
      <4>3. taken[r] \in Seq(Items) /\ hand[r] \in Items
        BY <1>3
      <4>4. \A i \in DOMAIN taken'[r] : taken'[r][i].sidecar = "full"
        <5>1. CASE taken'[r] = taken[r]
          BY <4>2, <5>1
        <5>2. CASE taken'[r] = Append(taken[r], hand[r])
          <6>1. DOMAIN taken'[r] = 1 .. Len(taken[r]) + 1 /\ DOMAIN taken[r] = 1 .. Len(taken[r])
                /\ Len(taken[r]) \in Nat
            BY <4>3, <5>2
          <6>2. \A i \in DOMAIN taken'[r] :
                  i \in DOMAIN taken[r] \/ i = Len(taken[r]) + 1
            BY <6>1
          <6>3. \A i \in DOMAIN taken[r] : taken'[r][i] = taken[r][i]
            BY <4>3, <5>2
          <6>4. taken'[r][Len(taken[r]) + 1] = hand[r]
            BY <4>3, <5>2
          <6>. QED
            BY <4>2, <6>2, <6>3, <6>4
        <5>. QED
          BY <4>1, <5>1, <5>2
      <4>. QED
        BY <3>1, <3>2, <4>1, <4>4 DEF WithSplits, InQueue
    <3>. QED
      BY <1>7, <3>3, <3>4, <3>5
  <2>. QED
    BY <1>1, <1>2, <2>1, <2>2, <2>3, MainCache DEF threadVars
<1>8. CASE SetStop(r) \/ Drain(r) \/ Sweep(r)
  <2>1. /\ producer' = producer /\ main'[r] \notin {"idle", "preflight", "computing"}
        /\ producer[r] = "dead" \/ UNCHANGED <<at, warm, splits, item>>
    <3>1. CASE SetStop(r) \/ Drain(r)
      BY <1>4, <3>1 DEF SetStop, Drain, threadVars
    <3>2. CASE Sweep(r)
      <4>1. producer[r] = "dead" /\ producer' = producer
        BY <3>2 DEF Sweep, Pipe, InPlace
      <4>. QED
        BY <1>4, <3>2, <4>1 DEF Sweep
    <3>. QED
      BY <1>8, <3>1, <3>2
  <2>2. /\ queue'[r] = queue[r] \/ queue'[r] = <<>>
        /\ taken'[r] = taken[r] \/ taken'[r] = <<>>
    BY <1>3, <1>8 DEF SetStop, Drain, Sweep, Discard, Set
  <2>3. ~halfway => SplitsRead(r)'
    <3>1. Torn' = Torn /\ \A c \in Chunks : Present(c) => Present(c)'
      <4>1. Torn' = Torn /\ metadata' = metadata
        BY <1>2 DEF Torn, cacheVars
      <4>2. ASSUME NEW c \in Chunks, Refilled(c)
            PROVE  Refilled(c)'
        BY <1>1, <2>1, <4>2 DEF Refilled, Untouched
      <4>. QED
        BY <4>1, <4>2 DEF Present
    <3>. QED
      BY <1>5, <2>1, <3>1 DEF SplitsRead, Writing
  <2>4. ~halfway => WithSplits(r)'
    <3>1. SUFFICES ASSUME WithSplits(r)
                   PROVE  WithSplits(r)'
      BY <1>5
    <3>2. producer'[r] = "mapping" \/ OffersChunk(r)' => sidecar'[r] = "full"
      BY <1>2, <2>1, <3>1 DEF WithSplits, OffersChunk, Handing
    <3>3. \A i \in DOMAIN taken'[r] : taken'[r][i].sidecar = "full"
      BY <2>2, <3>1 DEF WithSplits
    <3>. QED
      BY <2>1, <2>2, <3>1, <3>2, <3>3 DEF WithSplits, InQueue
  <2>. QED
    BY <1>1, <1>2, <2>1, <2>3, <2>4, MainCache
<1>. QED
  BY <1>6, <1>7, <1>8 DEF ConsumerStep

LEMMA BeginCache ==
  ASSUME DataTypeOK, CacheInv, NEW r \in Runs, Pipe(r), Begin(r)
  PROVE  CacheInv'
<1>1. /\ main[r] = "idle" /\ main'[r] = "preflight"
      /\ UNCHANGED <<cacheVars, threadVars, pipeVars, hand, taken, halfway>>
  BY DEF Begin, MainGo, Set, DataTypeOK
<1>2. \A q \in Runs \ {r} : Untouched(q)
  BY BeginTyped
<1>3. ~halfway => SplitsRead(r) /\ WithSplits(r)
  BY DEF CacheInv
<1>4. producer[r] = "none"
  BY <1>1 DEF Pipe, InPlace, Early
<1>5. ~halfway => SplitsRead(r)'
  <2>1. \A c \in Chunks : ~(c < 1)
    BY DEF Chunks
  <2>. QED
    BY <1>1, <1>3, <1>4, <2>1 DEF SplitsRead, threadVars, Writing
<1>6. ~halfway => WithSplits(r)'
  BY <1>1, <1>3 DEF WithSplits, threadVars, pipeVars, OffersChunk, InQueue
<1>. QED
  BY <1>1, <1>2, <1>4, <1>5, <1>6, MainCache DEF threadVars

LEMMA LaterCache ==
  ASSUME DataTypeOK, CacheInv, NEW r \in Runs, Pipe(r), LaterMoves(r)
  PROVE  CacheInv'
<1>1. main'[r] \in Builds /\ UNCHANGED mainRest
  BY DEF LaterMoves, Set, DataTypeOK
<1>2. \A q \in Runs \ {r} : Untouched(q)
  BY LaterPipe
<1>3. ~halfway => SplitsRead(r) /\ WithSplits(r)
  BY DEF CacheInv
<1>4. ~halfway => SplitsRead(r)'
  BY <1>1, <1>3, MainReads DEF mainRest, threadVars, Builds
<1>5. ~halfway => WithSplits(r)'
  BY <1>1, <1>3 DEF WithSplits, mainRest, threadVars, pipeVars, OffersChunk, InQueue, Builds
<1>. QED
  BY <1>1, <1>2, <1>4, <1>5, MainCache DEF mainRest, threadVars

\* A killed process lets go of its lock files; one that was about to publish an entry
\* again leaves it out, and then the splits are no longer sure.
LEMMA CrashCache ==
  ASSUME DataTypeOK, CacheInv, NEW r \in Runs, Crash(r)
  PROVE  CacheInv'
<1>1. /\ flock' = [c \in Chunks |-> IF flock[c] = r THEN NoRun ELSE flock[c]]
      /\ main'[r] = "killed" /\ producer'[r] = "dead" /\ queue'[r] = <<>> /\ taken'[r] = <<>>
      /\ halfway' = (halfway \/ producer[r] = "refilling") /\ UNCHANGED <<metadata, arrays>>
  BY DEF Crash, Vanish, Go, MainGo, Set, DataTypeOK
<1>2. \A q \in Runs \ {r} : Untouched(q)
  BY CrashTyped
<1>3. Torn' = Torn /\ halfway \in BOOLEAN
  BY <1>1 DEF Torn, DataTypeOK
<1>4. \A c \in Chunks : Refilled(c)' => Refilled(c)
  BY <1>1, <1>2 DEF Refilled, Untouched
<1>5. ~halfway' => ~halfway /\ \A c \in Chunks : Present(c) => Present(c)'
  BY <1>1, <1>2, <1>3 DEF Present, Refilled, Untouched
<1>6. ~halfway' => EntriesWhole'
  BY <1>1, <1>3, <1>4, <1>5 DEF CacheInv, EntriesWhole
<1>7. WritersLock(r)' /\ SplitsRead(r)'
  BY <1>1 DEF WritersLock, SplitsRead, Writing
<1>8. WithSplits(r)'
  BY <1>1 DEF WithSplits, OffersChunk, Handing, InQueue
<1>9. \A c \in Chunks : flock'[c] = flock[c] \/ flock[c] \in {NoRun, r}
  BY <1>1
<1>. QED
  BY <1>2, <1>3, <1>5, <1>6, <1>7, <1>8, <1>9, CacheStep

LEMMA SameCache ==
  ASSUME CacheInv, UNCHANGED <<cacheVars, threadVars, pipeVars, mainVars, halfway>>
  PROVE  CacheInv'
<1>1. Torn' = Torn /\ \A c \in Chunks : (Refilled(c)' <=> Refilled(c)) /\ (Present(c)' <=> Present(c))
  BY DEF Torn, Refilled, Present, cacheVars, threadVars
<1>2. EntriesWhole => EntriesWhole'
  BY <1>1 DEF EntriesWhole, cacheVars
<1>3. ASSUME NEW r \in Runs
      PROVE  WritersLock(r)' = WritersLock(r) /\ SplitsRead(r)' = SplitsRead(r)
             /\ WithSplits(r)' = WithSplits(r)
  BY <1>1 DEF WritersLock, SplitsRead, WithSplits, OffersChunk, InQueue, cacheVars, threadVars, pipeVars,
              mainVars
<1>. QED
  BY <1>2, <1>3 DEF CacheInv

LEMMA StepCache ==
  ASSUME DataTypeOK, BuildTypeOK, PipeInv, CacheInv, [Next]_vars
  PROVE  CacheInv'
<1>1. CASE \E r \in Runs : MainStep(r) \/ ThreadStep(r) \/ Crash(r)
  <2>1. PICK r \in Runs : MainStep(r) \/ ThreadStep(r) \/ Crash(r)
    BY <1>1
  <2>2. Pipe(r)
    BY DEF PipeInv
  <2>3. CASE WriteDetails(r) \/ Persist(r)
    BY <2>2, <2>3, LaterWrites, LaterCache
  <2>. QED
    BY <2>1, <2>2, <2>3, BeginCache, ConsumerCache, ProducerCache, CrashCache DEF MainStep, ThreadStep
<1>2. CASE \E p \in Papers : PaperStep(p)
  BY <1>2, PaperAway, SameCache
<1>3. CASE UNCHANGED vars
  BY <1>3, SameCache DEF vars, dataVars
<1>. QED
  BY <1>1, <1>2, <1>3 DEF Next, Rest

-----------------------------------------------------------------------------
(* The theorems.                                                            *)

RunsInv == DataTypeOK /\ PipeInv /\ CacheInv /\ BuildInv

LEMMA InitRuns == Init => RunsInv
<1>. SUFFICES ASSUME Init
              PROVE  RunsInv
  OBVIOUS
<1>1. DataTypeOK
  <2>1. NoItem \in Items /\ <<>> \in Seq(Items) /\ 1 \in Chunks
    BY ChunksAssumption DEF Items, NoItem, Sidecars, Chunks
  <2>. QED
    BY <2>1 DEF Init, DataInit, DataTypeOK, Early, Threads, Sidecars
<1>2. PipeInv
  <2>1. SUFFICES ASSUME NEW r \in Runs
                 PROVE  Pipe(r)
    BY DEF PipeInv
  <2>2. /\ main[r] = "idle" /\ producer[r] = "none" /\ queue[r] = <<>> /\ ~stop[r] /\ mapped[r] = {}
        /\ taken[r] = <<>> /\ verdict[r] = "none"
    BY DEF Init, DataInit
  <2>3. /\ InHand(r) = {} /\ Queued(r) = {} /\ Offered(r) = {} /\ Coming(r) = {} /\ Taken(r) = {}
        /\ ~OffersChunk(r)
    BY <2>2 DEF InHand, Queued, Offered, Coming, Taken, OffersChunk, Loop, Handing
  <2>4. InPlace(r) /\ MappedIsUsed(r)
    BY <2>2, <2>3 DEF InPlace, MappedIsUsed, Working, Leaving, Gone, Later, Builds
  <2>5. Ordered(r) /\ NothingMissed(r)
    BY <2>2, <2>3 DEF Ordered, NothingMissed, Working
  <2>. QED
    BY <2>4, <2>5 DEF Pipe
<1>3. CacheInv
  <2>1. \A c \in Chunks : ~Refilled(c)
    BY DEF Init, DataInit, Refilled
  <2>2. ~halfway => \A c, d \in Torn : c = d
    BY DEF Init, DataInit, Torn
  <2>3. ~halfway => EntriesWhole
    BY <2>1, <2>2 DEF Init, DataInit, EntriesWhole
  <2>4. ASSUME NEW r \in Runs
        PROVE  WritersLock(r) /\ SplitsRead(r) /\ WithSplits(r)
    <3>1. main[r] = "idle" /\ producer[r] = "none" /\ queue[r] = <<>> /\ taken[r] = <<>> /\ at[r] = 1
      BY DEF Init, DataInit
    <3>. QED
      BY <3>1 DEF WritersLock, SplitsRead, WithSplits, OffersChunk, InQueue, Writing, Handing
  <2>. QED
    BY <2>3, <2>4 DEF CacheInv
<1>4. BuildInv
  <2>1. BuildTypeOK
    BY DEF Init, BuildTypeOK, Builds
  <2>2. ASSUME NEW b \in Builders
        PROVE  Stands(b) \in {"idle", "seeking"} /\ b \notin built
    BY <2>2 DEF Init, DataInit, Stands, Builders
  <2>3. BuildersLock /\ RowsOwned
    BY <2>2 DEF BuildersLock, RowsOwned
  <2>4. RecordsAlone /\ LaterAreStale /\ BuiltOnce
    BY <2>2
    DEF Init, RecordsAlone, LaterAreStale, BuiltOnce, OneBuilds, BuildersShare, AttachedIsCompleted
  <2>. QED
    BY <2>1, <2>3, <2>4 DEF BuildInv
<1>. QED
  BY <1>1, <1>2, <1>3, <1>4 DEF RunsInv

LEMMA StepRuns == RunsInv /\ [Next]_vars => RunsInv'
<1>1. BuildInv => BuildTypeOK
  BY DEF BuildInv
<1>. QED
  BY <1>1, StepPipe, StepCache, StepBuild DEF RunsInv

LEMMA WholeAtTheEnd == RunsInv => RunsAreWhole
<1>. SUFFICES ASSUME RunsInv
              PROVE  RunsAreWhole
  OBVIOUS
<1>1. ASSUME NEW r \in Runs
      PROVE  Pipe(r) /\ (~halfway => WithSplits(r))
  BY DEF RunsInv, PipeInv, CacheInv
<1>2. WholeResult
  <2>1. ASSUME NEW r \in Runs, verdict[r] = "done"
        PROVE  /\ Taken(r) = Wanted
               /\ \A i, j \in DOMAIN taken[r] : i < j => taken[r][i].chunk < taken[r][j].chunk
               /\ halfway \/ \A i \in DOMAIN taken[r] : taken[r][i].sidecar = "full"
    BY <1>1, <2>1 DEF Pipe, NothingMissed, Ordered, WithSplits
  <2>. QED
    BY <2>1 DEF WholeResult, Taken, Wanted
<1>3. AllClosed
  <2>1. SUFFICES ASSUME NEW r \in Runs
                 PROVE  /\ main[r] = "computing" => hand[r].chunk \in mapped[r]
                        /\ main[r] \in {"closed", "seeking", "committing", "aborting", "over"} =>
                             producer[r] = "dead" /\ queue[r] = <<>> /\ mapped[r] = {}
    BY DEF AllClosed
  <2>2. main[r] = "computing" => hand[r].chunk \in mapped[r]
    BY <1>1 DEF Pipe, MappedIsUsed, InHand
  <2>3. ASSUME main[r] \in {"closed", "seeking", "committing", "aborting", "over"}
        PROVE  producer[r] = "dead" /\ queue[r] = <<>> /\ mapped[r] = {}
    <3>1. producer[r] = "dead" /\ queue[r] = <<>>
      BY <1>1, <2>3 DEF Pipe, InPlace, Gone, Later, Builds
    <3>. QED
      BY <1>1, <2>3, <3>1 DEF Pipe, MappedIsUsed, Offered, OffersChunk, Handing, Queued, InHand
  <2>. QED
    BY <2>2, <2>3
<1>. QED
  BY <1>2, <1>3 DEF RunsAreWhole

\* Every reachable state has its types and the invariants of the pipelines, of the
\* entries and of the materialization: _produce_chunks and close() of
\* MarketDatasetPipeline, open() and build() of PreparedDatasetCache, and
\* persist_support_resistance_run.
THEOREM RunsKeepTheirData == Spec => []RunsInv
<1>. QED
  BY InitRuns, StepRuns, PTL DEF Spec

\* A run that stores its result has computed on every chunk of its window that has rows,
\* once, in order and with the split adjustments, and one that has left the pipeline
\* leaves no thread, no item and no mapping behind (_load_prepared_dataset and
\* MarketDatasetPipeline.close).
THEOREM WindowsAreWhole == Spec => []RunsAreWhole
<1>. QED
  BY RunsKeepTheirData, WholeAtTheEnd, PTL

\* Runs and paper runs that need one materialization build it once and share it: a
\* second transaction builds it only if a failure was recorded and it has loaded the
\* failed row, and no failure takes from a completed run what it is attached to
\* (persist_support_resistance_run, record_failed_materialization_after_rollback).
THEOREM MaterializedOnce == Spec => []BuiltOnce
<1>1. RunsInv => BuiltOnce
  BY DEF RunsInv, BuildInv
<1>. QED
  BY <1>1, RunsKeepTheirData, PTL
=============================================================================
