----------------------- MODULE BacktestWorkersProofs -----------------------
(***************************************************************************)
(* Proofs about the workers of the backtests: BacktestKernel with the      *)
(* threads of DayExecutor, which a worker runs, and WorkerManager, which   *)
(* starts and stops the groups of workers. For any chunks, rows, prices,   *)
(* weights, limits and number of threads a row is run once, a backtest     *)
(* stays solvent and fills at the next open what a session has decided;    *)
(* for any number of managers, jobs and faults there is one group.         *)
(***************************************************************************)
EXTENDS BacktestKernel, WorkerManager, FiniteSetTheorems, NaturalsInduction, WellFoundedInduction,
        SequenceTheorems, TLAPS

(* Shares: every row belongs to one thread. *)

LEMMA Euclid ==
  ASSUME NEW a \in Nat, NEW n \in Nat \ {0}
  PROVE  a \div n \in Nat /\ n * (a \div n) <= a /\ a < n * (a \div n) + n
OBVIOUS

LEMMA DivBounds ==
  ASSUME NEW a \in Nat, NEW n \in Nat \ {0}, NEW r \in Nat
  PROVE  a \div n < r <=> a < r * n
<1> DEFINE q == a \div n
<1>2. q \in Nat /\ n * q <= a /\ a < n * q + n
  BY Euclid
<1> HIDE DEF q
<1>3. ASSUME q < r PROVE a < r * n
  <2>1. q + 1 <= r
    BY <1>2, <1>3
  <2>2. n * (q + 1) <= n * r
    BY <1>2, <2>1
  <2>. QED
    BY <1>2, <2>2
<1>4. ASSUME r <= q PROVE r * n <= a
  <2>1. n * r <= n * q
    BY <1>2, <1>4
  <2>. QED
    BY <1>2, <2>1
<1>5. q < r <=> a < r * n
  <2>1. r * n \in Nat
    OBVIOUS
  <2>. QED
    BY <1>2, <1>3, <1>4, <2>1
<1>. QED
  BY <1>5 DEF q

LEMMA ShareIs ==
  ASSUME NEW n \in Nat \ {0}, NEW count \in Nat, NEW w \in 0 .. n - 1, NEW r
  PROVE  r \in Share(w, n, count) <=>
           r \in Nat /\ count * w < r * n /\ r * n <= count * (w + 1)
<1>1. count * w \in Nat /\ count * (w + 1) \in Nat
  OBVIOUS
<1>2. (count * w) \div n \in Nat /\ (count * (w + 1)) \div n \in Nat
  BY <1>1, Euclid
<1>3. r \in Share(w, n, count) =>
        r \in Nat /\ (count * w) \div n < r /\ ~((count * (w + 1)) \div n < r)
  BY <1>2 DEF Share
<1>4. r \in Nat /\ (count * w) \div n < r /\ ~((count * (w + 1)) \div n < r)
        => r \in Share(w, n, count)
  BY <1>2 DEF Share
<1>5. ASSUME r \in Nat
      PROVE  /\ (count * w) \div n < r <=> count * w < r * n
             /\ (count * (w + 1)) \div n < r <=> count * (w + 1) < r * n
  BY <1>1, <1>5, DivBounds
<1>6. ASSUME r \in Nat PROVE r * n \in Nat
  BY <1>6
<1>. QED
  BY <1>1, <1>3, <1>4, <1>5, <1>6

LEMMA ShareWithin ==
  ASSUME NEW n \in Nat \ {0}, NEW count \in Nat, NEW w \in 0 .. n - 1
  PROVE  Share(w, n, count) \subseteq 1 .. count
<1> SUFFICES ASSUME NEW r \in Share(w, n, count) PROVE r \in 1 .. count
  OBVIOUS
<1>1. r \in Nat /\ count * w < r * n /\ r * n <= count * (w + 1)
  BY ShareIs
<1>2. r # 0
  <2>1. count * w \in Nat
    OBVIOUS
  <2>. QED
    BY <1>1, <2>1
<1>3. count * (w + 1) <= count * n
  <2>1. w + 1 <= n /\ w + 1 \in Nat
    OBVIOUS
  <2>. QED
    BY <2>1
<1>4. ~(count < r)
  <2> SUFFICES ASSUME count < r PROVE FALSE
    OBVIOUS
  <2>1. (count + 1) * n <= r * n
    BY <1>1
  <2>2. r * n <= count * n
    BY <1>1, <1>3
  <2>. QED
    BY <1>1, <2>1, <2>2
<1>. QED
  BY <1>1, <1>2, <1>4

LEMMA SharesDisjoint ==
  ASSUME NEW n \in Nat \ {0}, NEW count \in Nat, NEW v \in 0 .. n - 1, NEW w \in 0 .. n - 1, v # w
  PROVE  Share(v, n, count) \cap Share(w, n, count) = {}
<1>1. ASSUME NEW x \in 0 .. n - 1, NEW y \in 0 .. n - 1, x < y,
             NEW r \in Share(x, n, count), r \in Share(y, n, count)
      PROVE  FALSE
  <2>1. r \in Nat /\ r * n <= count * (x + 1) /\ count * y < r * n
    BY <1>1, ShareIs
  <2>2. count * (x + 1) <= count * y
    <3>1. x + 1 <= y /\ x + 1 \in Nat /\ y \in Nat
      BY <1>1
    <3>. QED
      BY <3>1
  <2>. QED
    BY <2>1, <2>2
<1>. QED
  BY <1>1

LEMMA SharesCover ==
  ASSUME NEW n \in Nat \ {0}, NEW count \in Nat, NEW r \in 1 .. count
  PROVE  \E w \in 0 .. n - 1 : r \in Share(w, n, count)
<1> DEFINE a == r * n - 1
           w == a \div count
<1>1. a \in Nat /\ count \in Nat \ {0}
  OBVIOUS
<1>2. w \in Nat /\ count * w <= a /\ a < count * w + count
  BY <1>1, Euclid
<1> HIDE DEF w
<1>3. w < n
  <2> SUFFICES ASSUME n <= w PROVE FALSE
    BY <1>2
  <2>1. count * n <= count * w
    BY <1>2
  <2>. QED
    BY <1>2, <2>1
<1>4. count * w < r * n /\ r * n <= count * (w + 1)
  <2>1. count * (w + 1) = count * w + count
    BY <1>2
  <2>. QED
    BY <1>2, <2>1
<1>5. r \in Share(w, n, count)
  <2>1. w \in 0 .. n - 1
    BY <1>2, <1>3
  <2>. QED
    BY <1>4, <2>1, ShareIs
<1>. QED
  BY <1>2, <1>3, <1>5

-----------------------------------------------------------------------------
(* The executor. *)

ExecutorTypeOK ==
  /\ pool \in [threads : 0 .. MaxThreads, rows : 0 .. MaxRows, generation : Nat,
               unfinished : Int, stopping : BOOLEAN]
  /\ worker \in [Workers -> [pc : {"none", "look", "asleep", "run", "gone"}, seen : Nat,
                             todo : SUBSET RowIds]]
  /\ caller \in [pc : {"idle", "notify", "run", "asleep", "wait", "serial"},
                 count : 0 .. MaxRows, todo : SUBSET RowIds]
  /\ ran \in [RowIds -> Nat]
  /\ errors \in SUBSET RowIds

\* A worker that has not finished the present call: it has yet to see it, or runs.
Behind(w) == w < pool.threads /\ (worker[w].pc = "run" \/ worker[w].seen # pool.generation)
Unfinished == {w \in Workers : Behind(w)}

\* The rows a thread still has to run.
Mine(t) ==
  IF t = 0 THEN caller.todo
  ELSE IF worker[t].pc = "run" THEN worker[t].todo
  ELSE IF Behind(t) THEN Share(t, pool.threads, pool.rows) ELSE {}

WorkersFit ==
  \A w \in Workers :
    /\ worker[w].pc = "none" <=> w >= pool.threads
    /\ worker[w].pc = "run" => worker[w].seen = pool.generation
    /\ worker[w].pc = "gone" => pool.stopping

CallerFits ==
  /\ pool.stopping => caller.pc = "idle"
  /\ pool.unfinished = Cardinality(Unfinished)
  /\ caller.pc \in {"idle", "serial"} => Unfinished = {}
  /\ caller.pc \in {"idle", "asleep", "wait"} => caller.todo = {}
  /\ Unfinished # {} => pool.rows = caller.count

\* A row that a thread still has to run has not been run and is nobody else's; the
\* others have been run once, or something was raised.
RowsShared ==
  /\ \A t \in Threads : \A u \in Threads \ {t} : Mine(t) \cap Mine(u) = {}
  /\ \A t \in Threads : Mine(t) \subseteq 1 .. caller.count
  /\ \A t \in Threads : \A r \in Mine(t) : ran[r] = 0
  /\ \A r \in RowIds : ran[r] <= 1
  /\ errors = {} => \A r \in 1 .. caller.count : ran[r] = 1 \/ \E t \in Threads : r \in Mine(t)

ExecutorInv == ExecutorTypeOK /\ WorkersFit /\ CallerFits /\ RowsShared

LEMMA ThreadsAre == Workers = Threads \ {0} /\ 0 \in Threads /\ IsFiniteSet(Workers)
<1>1. IsFiniteSet(1 .. MaxThreads - 1)
  BY ExecutorAssumption, FS_Interval
<1>. QED
  BY <1>1, ExecutorAssumption DEF Threads, Workers

LEMMA UnfinishedFinite == IsFiniteSet(Unfinished)
<1>1. Unfinished \subseteq Workers
  BY DEF Unfinished
<1>. QED
  BY <1>1, ThreadsAre, FS_Subset

LEMMA NoneUnfinished ==
  ASSUME pool.unfinished = Cardinality(Unfinished), pool.unfinished = 0
  PROVE  Unfinished = {}
BY UnfinishedFinite, FS_EmptySet

LEMMA InitExecutor == ExecutorInit => ExecutorInv
<1> SUFFICES ASSUME ExecutorInit PROVE ExecutorInv
  OBVIOUS
<1> USE ExecutorAssumption, ThreadsAre DEF ExecutorInit, NoExecutor, NoWorker
<1>1. ExecutorTypeOK
  BY DEF ExecutorTypeOK, RowIds
<1>2. \A w \in Workers : w \in Nat \ {0} /\ worker[w].pc = "none" /\ ~Behind(w)
  BY DEF Workers, Behind
<1>3. Unfinished = {} /\ Cardinality(Unfinished) = 0
  BY <1>2, FS_EmptySet DEF Unfinished
<1>4. \A t \in Threads : Mine(t) = {}
  BY <1>2 DEF Mine
<1>5. WorkersFit
  BY <1>2 DEF WorkersFit
<1>6. CallerFits
  BY <1>3 DEF CallerFits
<1>7. RowsShared
  BY <1>4 DEF RowsShared, RowIds
<1>. QED
  BY <1>1, <1>5, <1>6, <1>7 DEF ExecutorInv

LEMMA StutterExecutor == ExecutorInv /\ UNCHANGED executorVars => ExecutorInv'
BY DEF ExecutorInv, executorVars, ExecutorTypeOK, WorkersFit, CallerFits, RowsShared, Unfinished,
       Behind, Mine

\* A worker that runs has not finished.
LEMMA RunnersAreBehind ==
  ASSUME ExecutorInv, NEW w \in Workers, worker[w].pc = "run"
  PROVE  w \in Unfinished
<1>1. w \in Int /\ pool.threads \in Int
  BY DEF ExecutorInv, ExecutorTypeOK, Workers
<1>2. ~(w >= pool.threads)
  BY DEF ExecutorInv, WorkersFit
<1>. QED
  BY <1>1, <1>2 DEF Unfinished, Behind

\* The first executor, or the one that replaces it between two calls.
LEMMA CreateExecutorKeeps ==
  ASSUME ExecutorInv, NEW n \in 1 .. MaxThreads, CreateExecutor(n)
  PROVE  ExecutorInv' /\ pool'.stopping = FALSE /\ caller' = caller
<1> USE ExecutorAssumption, ThreadsAre DEF CreateExecutor, NoExecutor, NoWorker
<1>1. pool' = [threads |-> n, rows |-> 0, generation |-> 0, unfinished |-> 0, stopping |-> FALSE]
      /\ UNCHANGED <<caller, ran, errors>> /\ caller.pc = "idle" /\ caller.todo = {}
  BY DEF ExecutorInv, CallerFits
<1>2. ExecutorTypeOK'
  <2>1. worker' \in [Workers -> [pc : {"none", "look", "asleep", "run", "gone"}, seen : Nat,
                               todo : SUBSET RowIds]]
    OBVIOUS
  <2>2. pool' \in [threads : 0 .. MaxThreads, rows : 0 .. MaxRows, generation : Nat,
                   unfinished : Int, stopping : BOOLEAN]
    <3>1. n \in 0 .. MaxThreads /\ 0 \in 0 .. MaxRows /\ 0 \in Nat /\ 0 \in Int
      OBVIOUS
    <3>. QED
      BY <1>1, <3>1
  <2>. QED
    BY <1>1, <2>1, <2>2 DEF ExecutorInv, ExecutorTypeOK
<1>3. \A w \in Workers : /\ w \in Nat \ {0} /\ worker'[w].seen = 0
                         /\ worker'[w].pc = (IF w < n THEN "look" ELSE "none")
  BY DEF Workers
<1>4. \A w \in Workers : ~Behind(w)'
  BY <1>1, <1>3 DEF Behind
<1>5. Unfinished' = {} /\ Cardinality(Unfinished') = 0
  BY <1>4, FS_EmptySet DEF Unfinished
<1>6. \A t \in Threads : Mine(t)' = {}
  BY <1>1, <1>3, <1>4 DEF Mine
<1>7. \A t \in Threads : Mine(t) = {}
  <2>1. Unfinished = {} /\ Mine(0) = {}
    BY <1>1 DEF ExecutorInv, CallerFits, Mine
  <2>2. \A w \in Workers : ~Behind(w)
    BY <2>1 DEF Unfinished
  <2>3. \A w \in Workers : worker[w].pc # "run" /\ w # 0
    BY <2>1, RunnersAreBehind DEF Workers
  <2>4. \A w \in Workers : Mine(w) = {}
    BY <2>2, <2>3 DEF Mine
  <2>. QED
    BY <2>1, <2>4
<1>8. WorkersFit'
  BY <1>1, <1>3 DEF WorkersFit
<1>9. CallerFits'
  BY <1>1, <1>5 DEF CallerFits
<1>10. RowsShared'
  BY <1>1, <1>6, <1>7 DEF RowsShared, ExecutorInv
<1>. QED
  BY <1>1, <1>2, <1>8, <1>9, <1>10 DEF ExecutorInv

\* A parallel call gives every worker a share, a small one keeps the rows.
LEMMA ForEachKeeps ==
  ASSUME ExecutorInv, NEW count \in 0 .. MaxRows, ~pool.stopping, ForEach(count)
  PROVE  ExecutorInv'
<1> USE ExecutorAssumption, ThreadsAre
<1> DEFINE n == pool.threads
<1>1. /\ caller.pc = "idle" /\ n \in 1 .. MaxThreads /\ Unfinished = {}
      /\ ran' = [r \in RowIds |-> 0] /\ errors' = {} /\ worker' = worker
      /\ count \in Nat /\ n \in Nat \ {0}
  BY DEF ForEach, ExecutorInv, CallerFits, ExecutorTypeOK
<1>2. \A w \in Workers : worker[w].pc # "run" /\ ~Behind(w)
  BY <1>1, RunnersAreBehind DEF Unfinished
<1>3. 1 .. count \subseteq RowIds
  BY DEF RowIds
<1>4. \A w \in Workers : w \in Nat \ {0}
  BY DEF Workers
<1>5. CASE Parallel(count)
  <2>1. /\ pool' = [pool EXCEPT !.rows = count, !.generation = @ + 1, !.unfinished = n - 1]
        /\ caller' = [pc |-> "notify", count |-> count, todo |-> Share(0, n, count)]
    BY <1>5 DEF ForEach
  <2>2. /\ pool'.threads = n /\ pool'.rows = count /\ pool'.generation = pool.generation + 1
        /\ pool'.unfinished = n - 1 /\ pool'.stopping = FALSE
        /\ pool' \in [threads : 0 .. MaxThreads, rows : 0 .. MaxRows, generation : Nat,
                     unfinished : Int, stopping : BOOLEAN]
    <3>1. pool \in [threads : 0 .. MaxThreads, rows : 0 .. MaxRows, generation : Nat,
                   unfinished : Int, stopping : BOOLEAN]
      BY DEF ExecutorInv, ExecutorTypeOK
    <3>2. pool' = [threads |-> n, rows |-> count, generation |-> pool.generation + 1,
                   unfinished |-> n - 1, stopping |-> FALSE]
      BY <2>1, <3>1
    <3>3. n \in 0 .. MaxThreads /\ n - 1 \in Int /\ pool.generation + 1 \in Nat
      BY <3>1
    <3>. QED
      BY <3>2, <3>3
  <2>3. 0 \in 0 .. n - 1
    BY <1>1
  <2>4. Share(0, n, count) \subseteq 1 .. count
    BY <1>1, <2>3, ShareWithin
  <2>5. ExecutorTypeOK'
    <3>1. caller' \in [pc : {"idle", "notify", "run", "asleep", "wait", "serial"},
                      count : 0 .. MaxRows, todo : SUBSET RowIds]
      BY <1>3, <2>1, <2>4
    <3>2. ran' \in [RowIds -> Nat] /\ errors' \in SUBSET RowIds
      BY <1>1
    <3>. QED
      BY <1>1, <2>2, <3>1, <3>2 DEF ExecutorInv, ExecutorTypeOK
  <2>6. \A w \in Workers : w < n => worker[w].seen = pool.generation
    BY <1>2 DEF Behind
  <2>7. \A w \in Workers : Behind(w)' <=> w < n
    <3>1. pool.generation \in Nat
      BY DEF ExecutorInv, ExecutorTypeOK
    <3>2. pool.generation # pool.generation + 1
      BY <3>1
    <3>. QED
      BY <1>1, <2>2, <2>6, <3>2 DEF Behind
  <2>8. Unfinished' = 1 .. n - 1
    <3>1. Unfinished' = {w \in Workers : w < n}
      BY <2>7 DEF Unfinished
    <3>2. {w \in Workers : w < n} = 1 .. n - 1
      BY <1>1 DEF Workers
    <3>. QED
      BY <3>1, <3>2
  <2>9. Cardinality(Unfinished') = n - 1
    <3>1. n - 1 \in Int /\ 1 \in Int
      BY <1>1
    <3>2. Cardinality(1 .. n - 1) = IF 1 > n - 1 THEN 0 ELSE n - 1 - 1 + 1
      BY <3>1, FS_Interval
    <3>. QED
      BY <1>1, <2>8, <3>2
  <2>10. WorkersFit'
    BY <1>1, <1>2, <2>2 DEF ExecutorInv, WorkersFit
  <2>11. CallerFits'
    BY <2>1, <2>2, <2>9 DEF CallerFits
  <2>12. \A t \in Threads : Mine(t)' = IF t < n THEN Share(t, n, count) ELSE {}
    <3>1. Mine(0)' = Share(0, n, count) /\ 0 < n
      BY <1>1, <2>1 DEF Mine
    <3>2. \A w \in Workers : Mine(w)' = IF w < n THEN Share(w, n, count) ELSE {}
      BY <1>1, <1>2, <1>4, <2>2, <2>7 DEF Mine
    <3>. QED
      BY <3>1, <3>2
  <2>13. \A t \in Threads : t < n => t \in 0 .. n - 1
    BY <1>1, <1>4
  <2>14. RowsShared'
    <3>1. \A t \in Threads : \A u \in Threads \ {t} : Mine(t)' \cap Mine(u)' = {}
      BY <1>1, <2>12, <2>13, SharesDisjoint
    <3>2. \A t \in Threads : Mine(t)' \subseteq 1 .. count
      BY <1>1, <2>12, <2>13, ShareWithin
    <3>3. \A r \in 1 .. count : \E t \in Threads : r \in Mine(t)'
      <4> SUFFICES ASSUME NEW r \in 1 .. count PROVE \E t \in Threads : r \in Mine(t)'
        OBVIOUS
      <4>1. PICK t \in 0 .. n - 1 : r \in Share(t, n, count)
        BY <1>1, SharesCover
      <4>2. t \in Threads /\ t < n
        BY <1>1, <4>1 DEF Threads, Workers
      <4>. QED
        BY <2>12, <4>1, <4>2
    <3>. QED
      BY <1>1, <1>3, <2>1, <3>1, <3>2, <3>3 DEF RowsShared
  <2>. QED
    BY <2>5, <2>10, <2>11, <2>14 DEF ExecutorInv
<1>6. CASE ~Parallel(count)
  <2>1. pool' = pool /\ caller' = [pc |-> "serial", count |-> count, todo |-> 1 .. count]
    BY <1>6 DEF ForEach
  <2>2. ExecutorTypeOK'
    <3>1. caller' \in [pc : {"idle", "notify", "run", "asleep", "wait", "serial"},
                      count : 0 .. MaxRows, todo : SUBSET RowIds]
      BY <1>3, <2>1
    <3>. QED
      BY <1>1, <2>1, <3>1 DEF ExecutorInv, ExecutorTypeOK
  <2>3. \A w \in Workers : ~Behind(w)'
    BY <1>1, <1>2, <2>1 DEF Behind
  <2>4. Unfinished' = {} /\ Cardinality(Unfinished') = 0
    BY <2>3, FS_EmptySet DEF Unfinished
  <2>5. pool.unfinished = 0
    BY <1>1, FS_EmptySet DEF ExecutorInv, CallerFits
  <2>6. Mine(0)' = 1 .. count /\ \A w \in Workers : Mine(w)' = {}
    BY <1>1, <1>2, <1>4, <2>1, <2>3 DEF Mine
  <2>7. WorkersFit' /\ CallerFits'
    BY <1>1, <2>1, <2>4, <2>5 DEF ExecutorInv, WorkersFit, CallerFits
  <2>8. RowsShared'
    BY <1>1, <1>3, <2>1, <2>6 DEF RowsShared
  <2>. QED
    BY <2>2, <2>7, <2>8 DEF ExecutorInv
<1>. QED
  BY <1>5, <1>6

\* A step that runs no row and leaves every thread its rows.
LEMMA RowsKept ==
  ASSUME ExecutorInv, UNCHANGED <<ran, errors>>, caller'.count = caller.count,
         \A t \in Threads : Mine(t)' = Mine(t)
  PROVE  RowsShared'
BY DEF ExecutorInv, RowsShared

Wakes == worker' = Awake(worker)

LEMMA AwakeKeeps ==
  ASSUME ExecutorInv, Wakes, pool'.threads = pool.threads, pool'.generation = pool.generation,
         pool'.rows = pool.rows, caller'.todo = caller.todo
  PROVE  /\ worker' \in [Workers -> [pc : {"none", "look", "asleep", "run", "gone"}, seen : Nat,
                                   todo : SUBSET RowIds]]
         /\ \A w \in Workers :
              /\ worker'[w].pc = "none" <=> worker[w].pc = "none"
              /\ worker'[w].pc = "run" <=> worker[w].pc = "run"
              /\ worker'[w].pc = "gone" <=> worker[w].pc = "gone"
              /\ worker'[w].seen = worker[w].seen
         /\ Unfinished' = Unfinished
         /\ \A t \in Threads : Mine(t)' = Mine(t)
<1>1. /\ worker' \in [Workers -> [pc : {"none", "look", "asleep", "run", "gone"}, seen : Nat,
                                   todo : SUBSET RowIds]]
      /\ \A w \in Workers : /\ worker'[w].seen = worker[w].seen
                            /\ worker'[w].todo = worker[w].todo
                            /\ worker'[w].pc = IF worker[w].pc = "asleep" THEN "look" ELSE worker[w].pc
  <2>1. \A w \in Workers :
           /\ worker[w] \in [pc : {"none", "look", "asleep", "run", "gone"}, seen : Nat,
                             todo : SUBSET RowIds]
           /\ [worker[w] EXCEPT !.pc = "look"]
                \in [pc : {"none", "look", "asleep", "run", "gone"}, seen : Nat, todo : SUBSET RowIds]
    BY DEF ExecutorInv, ExecutorTypeOK
  <2>. QED
    BY <2>1 DEF Wakes, Awake
<1>2. \A w \in Workers : Behind(w)' <=> Behind(w)
  BY <1>1 DEF Behind
<1>3. \A t \in Threads : Mine(t)' = Mine(t)
  BY <1>1, <1>2, ThreadsAre DEF Mine
<1>. QED
  BY <1>1, <1>2, <1>3 DEF Unfinished

LEMMA NotifyAllKeeps == ExecutorInv /\ NotifyAll => ExecutorInv'
<1> SUFFICES ASSUME ExecutorInv, NotifyAll PROVE ExecutorInv'
  OBVIOUS
<1>1. /\ caller.pc = "notify" /\ caller' = [caller EXCEPT !.pc = "run"] /\ Wakes
      /\ UNCHANGED <<pool, ran, errors>>
  BY DEF NotifyAll, Wakes
<1>2. /\ caller' \in [pc : {"idle", "notify", "run", "asleep", "wait", "serial"},
                     count : 0 .. MaxRows, todo : SUBSET RowIds]
      /\ caller'.pc = "run" /\ caller'.count = caller.count /\ caller'.todo = caller.todo
  BY <1>1 DEF ExecutorInv, ExecutorTypeOK
<1>3. ExecutorTypeOK'
  BY <1>1, <1>2, AwakeKeeps DEF ExecutorInv, ExecutorTypeOK
<1>4. WorkersFit'
  BY <1>1, <1>2, AwakeKeeps DEF ExecutorInv, WorkersFit
<1>5. CallerFits'
  BY <1>1, <1>2, AwakeKeeps DEF ExecutorInv, CallerFits
<1>6. RowsShared'
  BY <1>1, <1>2, AwakeKeeps, RowsKept
<1>. QED
  BY <1>3, <1>4, <1>5, <1>6 DEF ExecutorInv

LEMMA StopKeeps == ExecutorInv /\ Stop => ExecutorInv'
<1> SUFFICES ASSUME ExecutorInv, Stop PROVE ExecutorInv'
  OBVIOUS
<1>1. /\ caller.pc = "idle" /\ pool' = [pool EXCEPT !.stopping = TRUE] /\ Wakes
      /\ UNCHANGED <<caller, ran, errors>>
  BY DEF Stop, Wakes
<1>2. /\ pool' \in [threads : 0 .. MaxThreads, rows : 0 .. MaxRows, generation : Nat,
                   unfinished : Int, stopping : BOOLEAN]
      /\ pool'.threads = pool.threads /\ pool'.generation = pool.generation
      /\ pool'.rows = pool.rows /\ pool'.unfinished = pool.unfinished /\ pool'.stopping = TRUE
  BY <1>1 DEF ExecutorInv, ExecutorTypeOK
<1>3. ExecutorTypeOK'
  BY <1>1, <1>2, AwakeKeeps DEF ExecutorInv, ExecutorTypeOK
<1>4. WorkersFit'
  BY <1>1, <1>2, AwakeKeeps DEF ExecutorInv, WorkersFit
<1>5. CallerFits'
  BY <1>1, <1>2, AwakeKeeps DEF ExecutorInv, CallerFits
<1>6. RowsShared'
  BY <1>1, <1>2, AwakeKeeps, RowsKept
<1>. QED
  BY <1>3, <1>4, <1>5, <1>6 DEF ExecutorInv

\* A worker moves alone: the pool, the caller and the rows stay as they are.
LEMMA WorkerMoves ==
  ASSUME ExecutorInv, NEW w \in Workers, NEW e, worker' = [worker EXCEPT ![w] = e],
         e \in [pc : {"none", "look", "asleep", "run", "gone"}, seen : Nat, todo : SUBSET RowIds],
         UNCHANGED <<pool, caller, ran, errors>>,
         worker[w].pc # "none", e.pc # "none",
         e.pc = "run" => e.seen = pool.generation, e.pc = "gone" => pool.stopping,
         Behind(w)' <=> Behind(w), Mine(w)' = Mine(w)
  PROVE  ExecutorInv'
<1>1. worker'[w] = e /\ \A v \in Workers \ {w} : worker'[v] = worker[v]
  BY DEF ExecutorInv, ExecutorTypeOK
<1>2. ExecutorTypeOK'
  BY DEF ExecutorInv, ExecutorTypeOK
<1>3. \A v \in Workers : Behind(v)' <=> Behind(v)
  BY <1>1 DEF Behind
<1>4. \A t \in Threads : Mine(t)' = Mine(t)
  <2>1. Mine(0)' = Mine(0)
    BY DEF Mine
  <2>2. \A v \in Workers \ {w} : Mine(v)' = Mine(v)
    BY <1>1, <1>3 DEF Mine
  <2>. QED
    BY <2>1, <2>2, ThreadsAre
<1>5. WorkersFit'
  BY <1>1 DEF ExecutorInv, WorkersFit
<1>6. CallerFits'
  BY <1>3 DEF ExecutorInv, CallerFits, Unfinished
<1>7. RowsShared'
  BY <1>4, RowsKept
<1>. QED
  BY <1>2, <1>5, <1>6, <1>7 DEF ExecutorInv

LEMMA LookKeeps ==
  ASSUME ExecutorInv, NEW w \in Workers, Look(w)
  PROVE  ExecutorInv'
<1> USE ExecutorAssumption
<1>1. /\ worker[w] \in [pc : {"none", "look", "asleep", "run", "gone"}, seen : Nat,
                        todo : SUBSET RowIds]
      /\ worker[w].pc = "look" /\ UNCHANGED <<pool, caller, ran, errors>>
      /\ w \in Nat \ {0} /\ w < pool.threads /\ pool.threads \in Nat \ {0}
  BY DEF Look, ExecutorInv, ExecutorTypeOK, WorkersFit, Workers
<1>2. CASE pool.stopping
  <2> DEFINE e == [worker[w] EXCEPT !.pc = "gone"]
  <2>1. worker' = [worker EXCEPT ![w] = e]
    BY <1>2 DEF Look
  <2>2. ~Behind(w)
    BY <1>2 DEF ExecutorInv, CallerFits, Unfinished
  <2>3. /\ worker'[w].pc # "run" /\ worker'[w].seen = worker[w].seen
    BY <1>1, <2>1 DEF ExecutorInv, ExecutorTypeOK
  <2>4. ~Behind(w)'
    BY <1>1, <2>2, <2>3 DEF Behind
  <2>5. Mine(w)' = Mine(w)
    BY <1>1, <2>2, <2>3, <2>4 DEF Mine
  <2>6. /\ e \in [pc : {"none", "look", "asleep", "run", "gone"}, seen : Nat, todo : SUBSET RowIds]
        /\ e.pc = "gone"
    BY <1>1
  <2> HIDE DEF e
  <2>. QED
    BY <1>1, <1>2, <2>1, <2>2, <2>4, <2>5, <2>6, WorkerMoves
<1>3. CASE ~pool.stopping /\ pool.generation # worker[w].seen
  <2> DEFINE share == Share(w, pool.threads, pool.rows)
             e == [pc |-> "run", seen |-> pool.generation, todo |-> share]
  <2>1. worker' = [worker EXCEPT ![w] = e]
    BY <1>3 DEF Look
  <2>2. Behind(w) /\ Mine(w) = share
    BY <1>1, <1>3 DEF Behind, Mine
  <2>3. w \in Threads /\ w \in Unfinished
    BY <2>2, ThreadsAre DEF Unfinished
  <2>4. share \subseteq RowIds
    <3>1. share \subseteq 1 .. caller.count
      BY <2>2, <2>3 DEF ExecutorInv, RowsShared
    <3>2. caller.count \in 0 .. MaxRows
      BY DEF ExecutorInv, ExecutorTypeOK
    <3>. QED
      BY <3>1, <3>2 DEF RowIds
  <2>5. e \in [pc : {"none", "look", "asleep", "run", "gone"}, seen : Nat, todo : SUBSET RowIds]
    BY <2>4 DEF ExecutorInv, ExecutorTypeOK
  <2>6. worker'[w] = e
    BY <2>1 DEF ExecutorInv, ExecutorTypeOK
  <2>7. Behind(w)' /\ Mine(w)' = share
    BY <1>1, <2>6 DEF Behind, Mine
  <2> HIDE DEF e, share
  <2>8. e.pc = "run" /\ e.seen = pool.generation
    BY DEF e
  <2>. QED
    BY <1>1, <2>1, <2>2, <2>5, <2>7, <2>8, WorkerMoves
<1>4. CASE ~pool.stopping /\ pool.generation = worker[w].seen
  <2> DEFINE e == [worker[w] EXCEPT !.pc = "asleep"]
  <2>1. worker' = [worker EXCEPT ![w] = e]
    BY <1>4 DEF Look
  <2>2. ~Behind(w)
    BY <1>1, <1>4 DEF Behind
  <2>3. /\ worker'[w].pc # "run" /\ worker'[w].seen = worker[w].seen
    BY <1>1, <2>1 DEF ExecutorInv, ExecutorTypeOK
  <2>4. ~Behind(w)'
    BY <1>1, <2>2, <2>3 DEF Behind
  <2>5. Mine(w)' = Mine(w)
    BY <1>1, <2>2, <2>3, <2>4 DEF Mine
  <2>6. /\ e \in [pc : {"none", "look", "asleep", "run", "gone"}, seen : Nat, todo : SUBSET RowIds]
        /\ e.pc = "asleep"
    BY <1>1
  <2> HIDE DEF e
  <2>. QED
    BY <1>1, <1>4, <2>1, <2>2, <2>4, <2>5, <2>6, WorkerMoves
<1>. QED
  BY <1>2, <1>3, <1>4

\* The caller moves alone, with the rows it has.
LEMMA CallerMoves ==
  ASSUME ExecutorInv, UNCHANGED <<pool, worker, ran, errors>>,
         NEW pc \in {"idle", "notify", "run", "asleep", "wait", "serial"},
         caller' = [caller EXCEPT !.pc = pc],
         pool.stopping => pc = "idle",
         pc \in {"idle", "serial"} => Unfinished = {},
         pc \in {"idle", "asleep", "wait"} => caller.todo = {}
  PROVE  ExecutorInv'
<1>1. /\ caller' \in [pc : {"idle", "notify", "run", "asleep", "wait", "serial"},
                     count : 0 .. MaxRows, todo : SUBSET RowIds]
      /\ caller'.pc = pc /\ caller'.count = caller.count /\ caller'.todo = caller.todo
  BY DEF ExecutorInv, ExecutorTypeOK
<1>2. \A w : Behind(w)' <=> Behind(w)
  BY DEF Behind
<1>3. Unfinished' = Unfinished /\ \A t \in Threads : Mine(t)' = Mine(t)
  BY <1>1, <1>2 DEF Unfinished, Mine
<1>4. ExecutorTypeOK' /\ WorkersFit' /\ CallerFits' /\ RowsShared'
  BY <1>1, <1>3, RowsKept DEF ExecutorInv, ExecutorTypeOK, WorkersFit, CallerFits
<1>. QED
  BY <1>4 DEF ExecutorInv

LEMMA WaitKeeps == ExecutorInv /\ Wait => ExecutorInv'
<1> SUFFICES ASSUME ExecutorInv, Wait PROVE ExecutorInv'
  OBVIOUS
<1>1. /\ UNCHANGED <<pool, worker, ran, errors>> /\ caller.pc \in {"run", "wait"}
      /\ caller.todo = {}
  BY DEF Wait, ExecutorInv, CallerFits
<1>2. ~pool.stopping
  BY <1>1 DEF ExecutorInv, CallerFits
<1>3. CASE pool.unfinished = 0
  <2>1. caller' = [caller EXCEPT !.pc = "serial"]
    BY <1>3 DEF Wait
  <2>2. Unfinished = {}
    BY <1>3, NoneUnfinished DEF ExecutorInv, CallerFits
  <2>. QED
    BY <1>1, <1>2, <2>1, <2>2, CallerMoves
<1>4. CASE pool.unfinished # 0
  <2>1. caller' = [caller EXCEPT !.pc = "asleep"]
    BY <1>4 DEF Wait
  <2>. QED
    BY <1>1, <1>2, <2>1, CallerMoves
<1>. QED
  BY <1>3, <1>4

LEMMA ReturnsKeeps == ExecutorInv /\ Returns => ExecutorInv'
<1> SUFFICES ASSUME ExecutorInv, Returns PROVE ExecutorInv'
  OBVIOUS
<1>1. /\ UNCHANGED <<pool, worker, ran, errors>> /\ caller.pc = "serial" /\ caller.todo = {}
      /\ caller' = [caller EXCEPT !.pc = "idle"]
  BY DEF Returns
<1>2. Unfinished = {}
  BY <1>1 DEF ExecutorInv, CallerFits
<1>. QED
  BY <1>1, <1>2, CallerMoves

LEMMA SpuriousKeeps == ExecutorInv /\ Spurious => ExecutorInv'
<1> SUFFICES ASSUME ExecutorInv, Spurious PROVE ExecutorInv'
  OBVIOUS
<1>1. ASSUME NEW w \in Workers, worker[w].pc = "asleep", UNCHANGED <<pool, caller, ran, errors>>,
             worker' = [worker EXCEPT ![w].pc = "look"]
      PROVE  ExecutorInv'
  <2> DEFINE e == [worker[w] EXCEPT !.pc = "look"]
  <2>1. worker' = [worker EXCEPT ![w] = e]
    BY <1>1
  <2>2. worker[w] \in [pc : {"none", "look", "asleep", "run", "gone"}, seen : Nat,
                       todo : SUBSET RowIds]
    BY DEF ExecutorInv, ExecutorTypeOK
  <2>3. /\ e \in [pc : {"none", "look", "asleep", "run", "gone"}, seen : Nat, todo : SUBSET RowIds]
        /\ e.pc = "look" /\ e.seen = worker[w].seen
    BY <2>2
  <2> HIDE DEF e
  <2>4. worker'[w] = e
    BY <2>1 DEF ExecutorInv, ExecutorTypeOK
  <2>5. Behind(w)' <=> Behind(w)
    BY <1>1, <2>3, <2>4 DEF Behind
  <2>6. Mine(w)' = Mine(w)
    BY <1>1, <2>3, <2>4, <2>5 DEF Mine
  <2>. QED
    BY <1>1, <2>1, <2>3, <2>5, <2>6, WorkerMoves
<1>2. ASSUME caller.pc = "asleep", UNCHANGED <<pool, worker, ran, errors>>,
             caller' = [caller EXCEPT !.pc = "wait"]
      PROVE  ExecutorInv'
  BY <1>2, CallerMoves DEF ExecutorInv, CallerFits
<1>. QED
  BY <1>1, <1>2 DEF Spurious

\* The last worker that finishes wakes the caller.
LEMMA FinishKeeps ==
  ASSUME ExecutorInv, NEW w \in Workers, Finish(w)
  PROVE  ExecutorInv'
<1>1. /\ worker[w].pc = "run" /\ worker[w].todo = {} /\ UNCHANGED <<ran, errors>>
      /\ worker' = [worker EXCEPT ![w].pc = "look"]
      /\ pool' = [pool EXCEPT !.unfinished = @ - 1]
      /\ caller' = caller \/ (caller.pc = "asleep" /\ caller' = [caller EXCEPT !.pc = "wait"])
  BY DEF Finish
<1>2. w \in Unfinished /\ worker[w].seen = pool.generation
  BY <1>1, RunnersAreBehind DEF ExecutorInv, WorkersFit
<1>3. /\ pool' \in [threads : 0 .. MaxThreads, rows : 0 .. MaxRows, generation : Nat,
                   unfinished : Int, stopping : BOOLEAN]
      /\ pool'.threads = pool.threads /\ pool'.generation = pool.generation
      /\ pool'.rows = pool.rows /\ pool'.unfinished = pool.unfinished - 1
      /\ pool'.stopping = pool.stopping
  BY <1>1 DEF ExecutorInv, ExecutorTypeOK
<1>4. /\ caller' \in [pc : {"idle", "notify", "run", "asleep", "wait", "serial"},
                     count : 0 .. MaxRows, todo : SUBSET RowIds]
      /\ caller'.count = caller.count /\ caller'.todo = caller.todo
      /\ caller'.pc = caller.pc \/ (caller.pc = "asleep" /\ caller'.pc = "wait")
  BY <1>1 DEF ExecutorInv, ExecutorTypeOK
<1>5. /\ worker' \in [Workers -> [pc : {"none", "look", "asleep", "run", "gone"}, seen : Nat,
                                todo : SUBSET RowIds]]
      /\ worker'[w].pc = "look" /\ worker'[w].seen = worker[w].seen
      /\ \A v \in Workers \ {w} : worker'[v] = worker[v]
  BY <1>1 DEF ExecutorInv, ExecutorTypeOK
<1>6. ~Behind(w)' /\ \A v \in Workers \ {w} : Behind(v)' <=> Behind(v)
  BY <1>2, <1>3, <1>5 DEF Behind
<1>7. Unfinished' = Unfinished \ {w}
  BY <1>6 DEF Unfinished
<1>8. Cardinality(Unfinished') = Cardinality(Unfinished) - 1
  BY <1>2, <1>7, UnfinishedFinite, FS_RemoveElement
<1>9. \A t \in Threads : Mine(t)' = Mine(t)
  <2>1. Mine(0)' = Mine(0)
    BY <1>4 DEF Mine
  <2>2. w # 0 /\ Mine(w) = {} /\ Mine(w)' = {}
    BY <1>1, <1>5, <1>6 DEF Mine, Workers
  <2>3. \A v \in Workers \ {w} : Mine(v)' = Mine(v)
    BY <1>3, <1>4, <1>5, <1>6 DEF Mine, Workers
  <2>. QED
    BY <2>1, <2>2, <2>3, ThreadsAre
<1>10. ExecutorTypeOK'
  BY <1>1, <1>3, <1>4, <1>5 DEF ExecutorInv, ExecutorTypeOK
<1>11. WorkersFit'
  BY <1>1, <1>3, <1>5 DEF ExecutorInv, WorkersFit
<1>12. CallerFits'
  BY <1>2, <1>3, <1>4, <1>7, <1>8 DEF ExecutorInv, CallerFits
<1>13. RowsShared'
  BY <1>1, <1>4, <1>9, RowsKept
<1>. QED
  BY <1>10, <1>11, <1>12, <1>13 DEF ExecutorInv

\* A thread runs a row that is its own, for the first time.
LEMMA RunRowKeeps ==
  ASSUME ExecutorInv, NEW t \in Threads, NEW r \in RowIds, NEW raises \in BOOLEAN,
         RunRow(t, r, raises)
  PROVE  /\ ExecutorInv'
         /\ ran[r] = 0 /\ ran' = [ran EXCEPT ![r] = 1]
         /\ caller'.pc = caller.pc /\ caller'.count = caller.count /\ pool' = pool
<1>1. r \in Mine(t)
  BY DEF RunRow, NextRow, Mine
<1>2. ran[r] = 0 /\ ran' = [ran EXCEPT ![r] = 1] /\ ran' \in [RowIds -> Nat]
      /\ errors \subseteq errors' /\ errors' \in SUBSET RowIds /\ pool' = pool
  <2>1. ran[r] = 0
    BY <1>1 DEF ExecutorInv, RowsShared
  <2>2. ran' = [ran EXCEPT ![r] = 1] /\ ran' \in [RowIds -> Nat]
    BY <2>1 DEF RunRow, ExecutorInv, ExecutorTypeOK
  <2>. QED
    BY <2>1, <2>2 DEF RunRow, ExecutorInv, ExecutorTypeOK
<1>3. /\ caller' \in [pc : {"idle", "notify", "run", "asleep", "wait", "serial"},
                     count : 0 .. MaxRows, todo : SUBSET RowIds]
      /\ caller'.count = caller.count /\ caller'.pc = caller.pc
      /\ caller'.todo \subseteq caller.todo
      /\ t = 0 => caller.pc \in {"serial", "run"}
      /\ t = 0 => caller'.todo \subseteq caller.todo \ {r}
      /\ t = 0 /\ errors' = {} => caller'.todo = caller.todo \ {r}
      /\ t # 0 => caller' = caller
  <2>1. CASE t = 0
    <3>1. caller' = [caller EXCEPT !.todo = IF raises /\ caller.pc = "serial" THEN {}
                                            ELSE caller.todo \ {r}]
          /\ (raises => errors' # {}) /\ caller.pc \in {"serial", "run"}
      BY <2>1 DEF RunRow
    <3>2. caller \in [pc : {"idle", "notify", "run", "asleep", "wait", "serial"},
                     count : 0 .. MaxRows, todo : SUBSET RowIds]
      BY DEF ExecutorInv, ExecutorTypeOK
    <3>3. \E left \in SUBSET (caller.todo \ {r}) :
             /\ caller' = [caller EXCEPT !.todo = left]
             /\ errors' = {} => left = caller.todo \ {r}
      <4>1. CASE raises /\ caller.pc = "serial"
        <5>1. caller' = [caller EXCEPT !.todo = {}] /\ errors' # {}
          BY <3>1, <4>1
        <5>. QED
          BY <5>1
      <4>2. CASE ~(raises /\ caller.pc = "serial")
        <5>1. caller' = [caller EXCEPT !.todo = caller.todo \ {r}]
          BY <3>1, <4>2
        <5>. QED
          BY <5>1
      <4>. QED
        BY <4>1, <4>2
    <3>. QED
      BY <2>1, <3>1, <3>2, <3>3
  <2>2. CASE t # 0
    BY <2>2 DEF RunRow, ExecutorInv, ExecutorTypeOK
  <2>. QED
    BY <2>1, <2>2
<1>4. /\ worker' \in [Workers -> [pc : {"none", "look", "asleep", "run", "gone"}, seen : Nat,
                                todo : SUBSET RowIds]]
      /\ \A w \in Workers : /\ worker'[w].pc = worker[w].pc /\ worker'[w].seen = worker[w].seen
                            /\ worker'[w].todo = IF w = t THEN worker[w].todo \ {r}
                                                 ELSE worker[w].todo
      /\ t # 0 => worker[t].pc = "run"
  <2>1. CASE t = 0
    BY <2>1 DEF RunRow, ExecutorInv, ExecutorTypeOK, Workers
  <2>2. CASE t # 0
    <3>1. /\ t \in Workers /\ worker[t].pc = "run"
          /\ worker' = [worker EXCEPT ![t] = [worker[t] EXCEPT !.todo = worker[t].todo \ {r}]]
      BY <2>2, ThreadsAre DEF RunRow
    <3>2. worker[t] \in [pc : {"none", "look", "asleep", "run", "gone"}, seen : Nat,
                        todo : SUBSET RowIds]
      BY <3>1 DEF ExecutorInv, ExecutorTypeOK
    <3> DEFINE e == [worker[t] EXCEPT !.todo = worker[t].todo \ {r}]
    <3>3. /\ e \in [pc : {"none", "look", "asleep", "run", "gone"}, seen : Nat, todo : SUBSET RowIds]
          /\ e.pc = worker[t].pc /\ e.seen = worker[t].seen /\ e.todo = worker[t].todo \ {r}
      BY <3>2
    <3> HIDE DEF e
    <3>4. worker' = [worker EXCEPT ![t] = e]
      BY <3>1 DEF e
    <3>5. worker \in [Workers -> [pc : {"none", "look", "asleep", "run", "gone"}, seen : Nat,
                                 todo : SUBSET RowIds]]
      BY DEF ExecutorInv, ExecutorTypeOK
    <3>6. worker'[t] = e /\ \A w \in Workers \ {t} : worker'[w] = worker[w]
      BY <3>1, <3>4, <3>5
    <3>7. worker' \in [Workers -> [pc : {"none", "look", "asleep", "run", "gone"}, seen : Nat,
                                  todo : SUBSET RowIds]]
      BY <3>1, <3>3, <3>4, <3>5
    <3>. QED
      BY <2>2, <3>1, <3>3, <3>6, <3>7
  <2>. QED
    BY <2>1, <2>2
<1>5. ExecutorTypeOK'
  BY <1>2, <1>3, <1>4 DEF ExecutorInv, ExecutorTypeOK
<1>6. \A w \in Workers : Behind(w)' <=> Behind(w)
  BY <1>2, <1>4 DEF Behind
<1>7. Unfinished' = Unfinished
  BY <1>6 DEF Unfinished
<1>8. WorkersFit'
  <2>1. /\ pool' = pool
        /\ \A w \in Workers : worker'[w].pc = worker[w].pc /\ worker'[w].seen = worker[w].seen
    BY <1>2, <1>4
  <2>2. WorkersFit
    BY DEF ExecutorInv
  <2>. QED
    BY <2>1, <2>2 DEF WorkersFit
<1>9. CallerFits'
  BY <1>2, <1>3, <1>7 DEF ExecutorInv, CallerFits
<1>10. /\ Mine(t)' \subseteq Mine(t) \ {r}
       /\ errors' = {} => Mine(t)' = Mine(t) \ {r}
       /\ \A u \in Threads \ {t} : Mine(u)' = Mine(u)
  <2>1. CASE t = 0
    <3>1. \A w \in Workers : w # 0
      BY DEF Workers
    <3>2. \A w \in Workers : Mine(w)' = Mine(w)
      BY <1>2, <1>4, <1>6, <2>1, <3>1 DEF Mine
    <3>3. Mine(0) = caller.todo /\ Mine(0)' = caller'.todo
      BY DEF Mine
    <3>. QED
      BY <1>3, <2>1, <3>1, <3>2, <3>3, ThreadsAre
  <2>2. CASE t # 0
    <3>1. t \in Workers /\ Mine(t) = worker[t].todo /\ Mine(t)' = worker[t].todo \ {r}
      BY <1>4, <2>2, ThreadsAre DEF Mine
    <3>4. \A w \in Workers : w # 0
      BY DEF Workers
    <3>2. \A w \in Workers \ {t} : Mine(w)' = Mine(w)
      BY <1>2, <1>4, <1>6, <3>4 DEF Mine
    <3>3. Mine(0)' = Mine(0)
      BY <1>3, <2>2 DEF Mine
    <3>. QED
      BY <3>1, <3>2, <3>3, ThreadsAre
  <2>. QED
    BY <2>1, <2>2
<1>11. RowsShared'
  <2>1. \A u \in Threads : Mine(u)' \subseteq Mine(u)
    BY <1>10
  <2>2. \A v \in Threads : \A u \in Threads \ {v} : Mine(v)' \cap Mine(u)' = {}
    BY <2>1 DEF ExecutorInv, RowsShared
  <2>3. \A u \in Threads : Mine(u)' \subseteq 1 .. caller'.count
    BY <1>3, <2>1 DEF ExecutorInv, RowsShared
  <2>4. \A q \in RowIds : ran'[q] = IF q = r THEN 1 ELSE ran[q]
    BY <1>2 DEF ExecutorInv, ExecutorTypeOK
  <2>5. 1 .. caller.count \subseteq RowIds
    BY ExecutorAssumption DEF ExecutorInv, ExecutorTypeOK, RowIds
  <2>6. \A u \in Threads : \A q \in Mine(u)' : q \in RowIds /\ q \in Mine(u) /\ q # r
    <3>1. \A u \in Threads \ {t} : r \notin Mine(u)
      BY <1>1 DEF ExecutorInv, RowsShared
    <3>2. \A u \in Threads : r \notin Mine(u)'
      BY <1>10, <3>1
    <3>. QED
      BY <1>3, <2>1, <2>3, <2>5, <3>2
  <2>7. \A u \in Threads : \A q \in Mine(u)' : ran'[q] = 0
    BY <2>4, <2>6 DEF ExecutorInv, RowsShared
  <2>8. \A q \in RowIds : ran'[q] <= 1
    BY <2>4 DEF ExecutorInv, RowsShared
  <2>9. ASSUME errors' = {}, NEW q \in 1 .. caller'.count
        PROVE  ran'[q] = 1 \/ \E u \in Threads : q \in Mine(u)'
    <3>1. q \in RowIds /\ q \in 1 .. caller.count /\ errors = {}
      BY <1>2, <1>3, <2>5, <2>9
    <3>2. CASE ran[q] = 1
      BY <2>4, <3>1, <3>2
    <3>3. ASSUME NEW u \in Threads, q \in Mine(u)
          PROVE  ran'[q] = 1 \/ \E v \in Threads : q \in Mine(v)'
      <4>1. CASE q = r
        BY <2>4, <3>1, <4>1
      <4>2. CASE q # r
        <5>1. q \in Mine(u)'
          BY <1>10, <2>9, <3>3, <4>2
        <5>. QED
          BY <5>1
      <4>. QED
        BY <4>1, <4>2
    <3>. QED
      BY <3>1, <3>2, <3>3 DEF ExecutorInv, RowsShared
  <2>. QED
    BY <2>2, <2>3, <2>7, <2>8, <2>9 DEF RowsShared
<1>. QED
  BY <1>2, <1>3, <1>5, <1>8, <1>9, <1>11 DEF ExecutorInv

-----------------------------------------------------------------------------
(* Signals: a row yields one at most. *)

AtMostOne(S) == \A a \in S : \A b \in S : a = b

\* Decision sets: empty, or one SELL, or one BUY.
LEMMA SellIsOne == AtMostOne(SellPosition) /\ \A d \in SellPosition : d.side = "SELL"
BY DEF AtMostOne, SellPosition

LEMMA BuysAreOne ==
  ASSUME NEW S, AtMostOne(S)
  PROVE  AtMostOne(BuySetups(S)) /\ \A d \in BuySetups(S) : d.side = "BUY"
BY DEF AtMostOne, BuySetups

LEMMA IslandIsOne == ASSUME NEW bars PROVE AtMostOne(IslandSetups(bars))
BY DEF AtMostOne, IslandSetups

LEMMA DoubleBottomIsOne == ASSUME NEW s PROVE AtMostOne(DoubleBottomSetups(s))
BY DEF AtMostOne, DoubleBottomSetups

LEMMA FreshHeadIsOne == ASSUME NEW bars PROVE AtMostOne(FreshHeads(bars))
<1> SUFFICES ASSUME NEW p \in FreshHeads(bars), NEW q \in FreshHeads(bars) PROVE p = q
  BY DEF AtMostOne
<1> DEFINE lows == HeadLows(bars)
<1>1. \A k \in lows : k \in Int
  BY DEF HeadLows, Pivots
<1>2. /\ p \in lows \X lows /\ q \in lows \X lows /\ p[2] = q[2]
      /\ Consecutive(lows, p[1], p[2]) /\ Consecutive(lows, q[1], q[2])
  BY DEF FreshHeads, Heads
<1> HIDE DEF lows
<1>3. p[1] = q[1]
  BY <1>1, <1>2 DEF Consecutive
<1>. QED
  BY <1>2, <1>3

LEMMA HeadShouldersIsOne == ASSUME NEW bars PROVE AtMostOne(HeadShouldersSetups(bars))
BY FreshHeadIsOne DEF AtMostOne, HeadShouldersSetups

LEMMA VIsOne == ASSUME NEW bars, NEW p, NEW q PROVE AtMostOne(VSetups(bars, p, q))
BY DEF AtMostOne, VSetups

LEMMA RoundedIsOne == ASSUME NEW bars PROVE AtMostOne(RoundedSetups(bars))
BY DEF AtMostOne, RoundedSetups

LEMMA PatternIsOne ==
  ASSUME NEW kind \in PatternKinds, NEW s, NEW pos
  PROVE  /\ AtMostOne(EvaluatePattern(kind, s, pos))
         /\ \A d \in EvaluatePattern(kind, s, pos) : d.side \in {"BUY", "SELL"}
<1> DEFINE Good(S) == AtMostOne(S) /\ \A d \in S : d.side \in {"BUY", "SELL"}
<1>1. Good(SellPosition) /\ Good({}) /\ \A S : AtMostOne(S) => Good(BuySetups(S))
  BY SellIsOne, BuysAreOne DEF AtMostOne
<1> HIDE DEF Good
<1>2. Good(EvaluateIsland(s.bars, pos))
  BY <1>1, IslandIsOne DEF EvaluateIsland
<1>3. Good(EvaluateDoubleBottom(s, pos))
  BY <1>1, DoubleBottomIsOne DEF EvaluateDoubleBottom
<1>4. Good(EvaluateHeadShoulders(s.bars, pos))
  BY <1>1, HeadShouldersIsOne DEF EvaluateHeadShoulders
<1>5. Good(EvaluateRoundedBottom(s.bars, pos))
  BY <1>1, RoundedIsOne DEF EvaluateRoundedBottom
<1>6. Good(EvaluateVReversal(s.bars, pos))
  BY <1>1, VIsOne DEF EvaluateVReversal
<1>7. Good(EvaluatePattern(kind, s, pos))
  BY <1>2, <1>3, <1>4, <1>5, <1>6 DEF EvaluatePattern, PatternKinds
<1>. QED
  BY <1>7 DEF Good

LEMMA SupportIsOne ==
  ASSUME NEW s, NEW bar, NEW pos, NEW emit
  PROVE  AtMostOne(AdvanceSymbol(s, bar, pos, emit).decision)
<1>1. \A t, set : Deciding(t, set).decision = set
  BY DEF Deciding, NoSymbol
<1>2. ASSUME NEW t, NEW zones, NEW exit, NEW eligible
      PROVE  AtMostOne(Decision(t, zones, exit, eligible, pos, bar))
  <2>1. AtMostOne({}) /\ \A d : AtMostOne({d})
    BY DEF AtMostOne
  <2>. QED
    BY <2>1 DEF Decision
<1>3. AtMostOne({})
  BY DEF AtMostOne
<1>4. ASSUME NEW closed, NEW t, NEW exit, NEW eligible
      PROVE  AtMostOne(WithDecision(closed, t, exit, eligible, pos, bar, emit).decision)
  BY <1>1, <1>2, <1>3 DEF WithDecision
<1>5. ASSUME NEW t PROVE AtMostOne(Weigh(t, pos, bar, emit).decision)
  BY <1>4 DEF Weigh
<1>. QED
  BY <1>1, <1>3, <1>5 DEF AdvanceSymbol

\* A row yields one signal at most, of the row's instrument.
LEMMA OneSignal ==
  ASSUME run.kind \in Kinds, NEW i \in DOMAIN day.rows, AtMostOne(Row(i).zscore), NEW d,
         d = Detected(i)
  PROVE  /\ AtMostOne(EvaluateSignal(i, d))
         /\ \A s \in EvaluateSignal(i, d) : s.i = i /\ s.side \in {"BUY", "SELL"}
<1> DEFINE Good(S) == AtMostOne(S) /\ \A s \in S : s.i = i /\ s.side \in {"BUY", "SELL"}
<1>1. /\ Good({}) /\ Good(Sell(i)) /\ \A components : Good(Buy(i, components))
      /\ \A side \in {"BUY", "SELL"} : \A score, setup : Good({Signal(i, side, score, setup)})
  BY DEF Sell, Buy, Signal, AtMostOne
<1> SUFFICES Good(EvaluateSignal(i, d))
  OBVIOUS
<1> HIDE DEF Good
<1>a. /\ run.kind = "trend" => EvaluateSignal(i, d) = TrendSignal(i)
      /\ run.kind = "mean_reversion" => EvaluateSignal(i, d) = MeanReversionSignal(i)
      /\ run.kind = "momentum_breakout" => EvaluateSignal(i, d) = MomentumSignal(i)
      /\ run.kind = "support_resistance" => EvaluateSignal(i, d) = SupportSignal(i, d)
      /\ run.kind \in PatternKinds => EvaluateSignal(i, d) = PatternSignal(i, d)
  BY DEF EvaluateSignal, Patterned, Supported, PatternKinds
<1>2. Good(TrendSignal(i))
  BY <1>1 DEF TrendSignal
<1>3. Good(MeanReversionSignal(i))
  <2> DEFINE One(z) == IF Below(z) THEN Buy(i, {RiseComponent([absolute_zscore |-> Abs(z)], "absolute_zscore", 100,
                                    Indicators.zscore_entry, 2 * Indicators.zscore_entry)})
                   ELSE IF Above(z) THEN Sell(i) ELSE {}
  <2>1. \A z : Good(One(z))
    BY <1>1
  <2>3. MeanReversionSignal(i) = Sell(i) \/ MeanReversionSignal(i) = UNION {One(z) : z \in Row(i).zscore}
    BY DEF MeanReversionSignal
  <2> HIDE DEF One
  <2>2. Good(UNION {One(z) : z \in Row(i).zscore})
    BY <2>1 DEF Good, AtMostOne
  <2>. QED
    BY <1>1, <2>2, <2>3
<1>4. Good(MomentumSignal(i))
  BY <1>1 DEF MomentumSignal
<1>5. CASE run.kind \in PatternKinds
  <2> DEFINE D == EvaluatePattern(run.kind, d, book.held[i])
             F(e) == Signal(i, e.side, IF e.side = "BUY" THEN PatternStrength(e.setup.stage, Row(i).raw) ELSE 0, e.setup)
  <2>2. AtMostOne(D) /\ \A e \in D : e.side \in {"BUY", "SELL"}
    BY <1>5, PatternIsOne
  <2>3. EvaluateSignal(i, d) = {F(e) : e \in D}
    BY <1>5, <1>a DEF PatternSignal
  <2>4. \A e \in D : F(e).i = i /\ F(e).side \in {"BUY", "SELL"}
    BY <2>2 DEF Signal
  <2> HIDE DEF D, F
  <2>. QED
    BY <2>2, <2>3, <2>4 DEF Good, AtMostOne
<1>6. CASE run.kind = "support_resistance"
  <2> DEFINE F(e) == IF e.side = "BUY"
     THEN [Signal(i, "BUY", e.strength, NoSetup) EXCEPT
             !.plan = [frozen |-> e.frozen, channel |-> e.channel]]
     ELSE Signal(i, "SELL", 0, NoSetup)
  <2>2. AtMostOne(d.decision)
    BY <1>6, SupportIsOne DEF Detected, Patterned, Supported, PatternKinds
  <2>3. EvaluateSignal(i, d) = {F(e) : e \in d.decision}
    BY <1>6, <1>a DEF SupportSignal
  <2>4. \A e : F(e).i = i /\ F(e).side \in {"BUY", "SELL"}
    BY DEF Signal
  <2> HIDE DEF F
  <2>. QED
    BY <2>2, <2>3, <2>4 DEF Good, AtMostOne
<1>. QED
  BY <1>a, <1>2, <1>3, <1>4, <1>5, <1>6 DEF Kinds

-----------------------------------------------------------------------------
(* The inductive invariant of the kernel.                                   *)

Unique(S) == \A s \in S : \A t \in S : s.i = t.i => s = t
Orders(S, sides) == \A s \in S : s.i \in Instruments /\ s.side \in sides

PositionOK(p) ==
  /\ p = [qty |-> p.qty, avg |-> p.avg, entry |-> p.entry, setup |-> p.setup, frozen |-> p.frozen]
  /\ p.qty \in Nat /\ p.entry \in Nat

SessionTypeOK ==
  /\ run \in Runs
  /\ clock \in [pc : {"idle", "open", "sells", "buys", "ask", "evaluate", "close", "finished",
                      "raised"}, date : Nat, end : Nat, formal : Nat, offset : Nat]
  /\ book = [cash |-> book.cash, held |-> book.held, marks |-> book.marks,
             pending |-> book.pending, history |-> book.history, detector |-> book.detector]
  /\ book.cash \in Nat
  /\ book.held = [i \in Instruments |-> book.held[i]]
  /\ \A i \in Instruments : PositionOK(book.held[i])
  /\ day = [rows |-> day.rows, sells |-> day.sells, buys |-> day.buys,
            decisions |-> day.decisions, equity |-> day.equity]
  /\ DOMAIN day.rows \subseteq Instruments
  /\ \A i \in DOMAIN day.rows : Row(i).open \in Nat /\ Row(i).atr \in Nat /\ AtMostOne(Row(i).zscore)

ClockFits ==
  /\ clock.date <= clock.end /\ clock.end <= run.last
  /\ clock.pc = "open" => clock.date < clock.end
  /\ clock.pc # "evaluate" => caller.pc = "idle"
  /\ pool.stopping => clock.pc \in {"finished", "raised"}
  /\ clock.pc \in {"sells", "buys"} => ~WarmingUp
  /\ WarmingUp => book.pending = {} /\ clock.offset = 0

OrdersFit ==
  /\ Orders(book.pending, {"SELL", "BUY"}) /\ Unique(book.pending)
  /\ Orders(day.sells, {"SELL"}) /\ Orders(day.buys, {"BUY"}) /\ Unique(day.sells \union day.buys)
  /\ Orders(day.decisions, {"SELL", "BUY"}) /\ Unique(day.decisions)

\* A decision belongs to a row that has been run.
DecisionsFit ==
  /\ clock.pc \in {"sells", "buys", "ask"} => day.decisions = {}
  /\ clock.pc = "evaluate" =>
       \A s \in day.decisions : Place(s.i) \in RowIds /\ ran[Place(s.i)] = 1

SlotsFit == Cardinality(HeldSet) <= MaxPositions

SessionInv == SessionTypeOK /\ ClockFits /\ OrdersFit /\ DecisionsFit /\ SlotsFit

KernelInv == ExecutorInv /\ SessionInv

-----------------------------------------------------------------------------
(* A backtest begins, orders fill, chunks end.                              *)

LEMMA InitKernel == Init => KernelInv
<1> SUFFICES ASSUME Init PROVE KernelInv
  OBVIOUS
<1>1. /\ run \in Runs /\ run.cash \in Nat /\ run.start \in Nat \ {0} /\ run.last \in Nat
      /\ clock = [pc |-> "idle", date |-> 0, end |-> 0, formal |-> 0, offset |-> 0]
      /\ day = NoDay /\ caller.pc = "idle" /\ pool.stopping = FALSE
  BY KernelAssumption DEF Init, ExecutorInit, NoExecutor
<1>2. ExecutorInv
  BY InitExecutor DEF Init
<1>3. /\ book.cash \in Nat /\ book.pending = {}
      /\ book.held = [i \in Instruments |-> NoPosition]
      /\ book = [cash |-> book.cash, held |-> book.held, marks |-> book.marks,
                 pending |-> book.pending, history |-> book.history, detector |-> book.detector]
  BY <1>1 DEF Init
<1>4. \A i \in Instruments : PositionOK(book.held[i]) /\ ~Held(i)
  BY <1>3 DEF PositionOK, NoPosition, Held
<1>5. HeldSet = {}
  BY <1>4 DEF HeldSet
<1>6. SlotsFit
  BY <1>5, FS_EmptySet, KernelAssumption DEF SlotsFit
<1>7. DOMAIN day.rows = {}
  BY <1>1 DEF NoDay
<1>8. SessionTypeOK
  BY <1>1, <1>3, <1>4, <1>7 DEF SessionTypeOK, NoDay
<1>9. ClockFits
  BY <1>1, <1>3 DEF ClockFits, WarmingUp
<1>10. OrdersFit /\ DecisionsFit
  BY <1>1, <1>3 DEF OrdersFit, DecisionsFit, Orders, Unique, NoDay
<1>. QED
  BY <1>2, <1>6, <1>8, <1>9, <1>10 DEF KernelInv, SessionInv

\* A step that moves the clock's place only.
LEMMA PlaceMoves ==
  ASSUME KernelInv, ExecutorInv', UNCHANGED <<run, book, day>>,
         NEW pc \in {"idle", "open", "sells", "buys", "ask", "evaluate", "close", "finished",
                     "raised"},
         NEW end \in Nat, clock' = [clock EXCEPT !.pc = pc, !.end = end],
         clock.date <= end, end <= run.last, pc = "open" => clock.date < end,
         pc # "evaluate" => caller'.pc = "idle",
         pool'.stopping => pc \in {"finished", "raised"},
         pc \in {"sells", "buys"} => ~WarmingUp,
         pc \in {"sells", "buys", "ask", "evaluate"} => day.decisions = {}
  PROVE  KernelInv'
<1>1. /\ clock' \in [pc : {"idle", "open", "sells", "buys", "ask", "evaluate", "close", "finished",
                           "raised"}, date : Nat, end : Nat, formal : Nat, offset : Nat]
      /\ clock'.pc = pc /\ clock'.date = clock.date /\ clock'.end = end
      /\ clock'.offset = clock.offset
  BY DEF KernelInv, SessionInv, SessionTypeOK
<1>2. HeldSet' = HeldSet /\ (WarmingUp' <=> WarmingUp)
  BY <1>1 DEF HeldSet, Held, WarmingUp
<1>3. SessionTypeOK'
  BY <1>1 DEF KernelInv, SessionInv, SessionTypeOK, Row
<1>4. ClockFits'
  BY <1>1, <1>2 DEF KernelInv, SessionInv, ClockFits
<1>5. OrdersFit' /\ DecisionsFit' /\ SlotsFit'
  BY <1>1, <1>2 DEF KernelInv, SessionInv, OrdersFit, DecisionsFit, SlotsFit
<1>. QED
  BY <1>3, <1>4, <1>5 DEF KernelInv, SessionInv

\* A step of the executor beside the kernel.
LEMMA ExecutorMoves ==
  ASSUME KernelInv, ExecutorInv', UNCHANGED kernelVars, ran' = ran, pool'.stopping = pool.stopping,
         caller.pc = "idle" => caller'.pc = "idle"
  PROVE  KernelInv'
<1>1. /\ HeldSet' = HeldSet /\ (WarmingUp' <=> WarmingUp)
      /\ \A s : Place(s.i)' = Place(s.i)
  BY DEF HeldSet, Held, WarmingUp, kernelVars, Place
<1>2. SessionTypeOK' /\ OrdersFit' /\ SlotsFit'
  BY <1>1 DEF KernelInv, SessionInv, SessionTypeOK, Row, kernelVars, OrdersFit, SlotsFit
<1>3. ClockFits' /\ DecisionsFit'
  BY <1>1 DEF KernelInv, SessionInv, ClockFits, kernelVars, DecisionsFit
<1>. QED
  BY <1>2, <1>3 DEF KernelInv, SessionInv

LEMMA ConsumeKeeps ==
  ASSUME KernelInv, NEW end \in 1 .. run.last, Consume(end)
  PROVE  KernelInv'
<1> DEFINE n == IF \E d \in clock.date + 1 .. end : d \in run.wide THEN run.threads ELSE 1
<1>1. /\ clock.pc = "idle" /\ clock.date < end /\ UNCHANGED <<run, book, day, gaps>>
      /\ end \in Nat /\ end <= run.last /\ clock.date \in Nat /\ clock.end \in Nat
      /\ caller.pc = "idle" /\ ~pool.stopping
      /\ clock.date <= clock.end /\ clock.end <= run.last /\ run.last \in Nat
  <2>1. run.last \in Nat /\ clock.date \in Nat /\ clock.end \in Nat
    BY KernelAssumption DEF KernelInv, SessionInv, SessionTypeOK
  <2>2. clock.pc = "idle" /\ clock.date < end /\ UNCHANGED <<run, book, day, gaps>>
    BY DEF Consume
  <2>. QED
    BY <2>1, <2>2 DEF KernelInv, SessionInv, ClockFits
<1>0. n \in 1 .. MaxThreads
  <2>1. run.threads \in 1 .. MaxThreads /\ 1 \in 1 .. MaxThreads
    BY KernelAssumption, ExecutorAssumption DEF KernelInv, SessionInv, SessionTypeOK
  <2>. QED
    BY <2>1
<1>2. \/ /\ \E pc \in {"open", "raised"} : clock' = [clock EXCEPT !.pc = pc, !.end = end]
         /\ CreateExecutor(n) \/ UNCHANGED executorVars
      \/ clock' = [clock EXCEPT !.pc = "raised"] /\ UNCHANGED executorVars
  BY DEF Consume
<1> HIDE DEF n
<1>3. ExecutorInv' /\ pool'.stopping = FALSE /\ caller'.pc = "idle"
  <2>1. CASE CreateExecutor(n)
    BY <1>0, <1>1, <2>1, CreateExecutorKeeps DEF KernelInv
  <2>2. CASE UNCHANGED executorVars
    BY <1>1, <2>2, StutterExecutor DEF KernelInv, executorVars, ExecutorInv, ExecutorTypeOK
  <2>. QED
    BY <1>2, <2>1, <2>2
<1>4. CASE \E pc \in {"open", "raised"} : clock' = [clock EXCEPT !.pc = pc, !.end = end]
  <2> PICK pc \in {"open", "raised"} : clock' = [clock EXCEPT !.pc = pc, !.end = end]
    BY <1>4
  <2>1. /\ clock.date <= end /\ (pc = "open" => clock.date < end)
        /\ (pc # "evaluate" => caller'.pc = "idle")
        /\ (pool'.stopping => pc \in {"finished", "raised"})
        /\ pc \notin {"sells", "buys", "ask", "evaluate"}
    BY <1>1, <1>3
  <2>. QED
    BY <1>1, <1>3, <2>1, PlaceMoves
<1>5. CASE clock' = [clock EXCEPT !.pc = "raised"]
  <2>1. clock' = [clock EXCEPT !.pc = "raised", !.end = clock.end]
    BY <1>5 DEF KernelInv, SessionInv, SessionTypeOK
  <2>. QED
    BY <1>1, <1>3, <2>1, PlaceMoves
<1>. QED
  BY <1>2, <1>4, <1>5

\* Between two calls the session raises or ends; nothing else changes.
LEMMA RaisesOrEnds ==
  ASSUME KernelInv, clock.pc = "idle", UNCHANGED <<run, book, day>>, UNCHANGED executorVars,
         \/ clock' = [clock EXCEPT !.pc = "raised"]
         \/ clock' = [clock EXCEPT !.pc = "finished"]
  PROVE  KernelInv'
<1>1. ExecutorInv' /\ caller'.pc = "idle"
  BY StutterExecutor DEF KernelInv, SessionInv, ClockFits, executorVars
<1> PICK pc \in {"raised", "finished"} : clock' = [clock EXCEPT !.pc = pc]
  OBVIOUS
<1>2. clock' = [clock EXCEPT !.pc = pc, !.end = clock.end]
  BY DEF KernelInv, SessionInv, SessionTypeOK
<1>3. clock.end \in Nat /\ clock.date <= clock.end /\ clock.end <= run.last
  BY DEF KernelInv, SessionInv, SessionTypeOK, ClockFits
<1>. QED
  BY <1>1, <1>2, <1>3, PlaceMoves

LEMMA ConsumeRejectedKeeps ==
  ASSUME KernelInv, ConsumeRejected
  PROVE  KernelInv'
<1>1. /\ clock.pc = "idle" /\ UNCHANGED <<run, book, day>> /\ UNCHANGED executorVars
      /\ clock' = [clock EXCEPT !.pc = "raised"]
  BY DEF ConsumeRejected
<1>. QED
  BY <1>1, RaisesOrEnds

LEMMA FinishBacktestKeeps ==
  ASSUME KernelInv, FinishBacktest
  PROVE  KernelInv'
<1>1. /\ clock.pc = "idle" /\ UNCHANGED <<run, book, day>> /\ UNCHANGED executorVars
      /\ \/ clock' = [clock EXCEPT !.pc = "raised"]
         \/ clock' = [clock EXCEPT !.pc = "finished"]
  BY DEF FinishBacktest
<1>. QED
  BY <1>1, RaisesOrEnds

LEMMA StartBuyingKeeps ==
  ASSUME KernelInv, StartBuying
  PROVE  KernelInv'
<1>1. /\ clock.pc = "sells" /\ UNCHANGED <<run, book>> /\ UNCHANGED executorVars
      /\ clock' = [clock EXCEPT !.pc = "buys"] /\ day' = [day EXCEPT !.equity = Equity]
  BY DEF StartBuying
<1>2. /\ clock' \in [pc : {"idle", "open", "sells", "buys", "ask", "evaluate", "close", "finished",
                           "raised"}, date : Nat, end : Nat, formal : Nat, offset : Nat]
      /\ clock'.pc = "buys" /\ clock'.date = clock.date /\ clock'.end = clock.end
      /\ clock'.offset = clock.offset
  BY <1>1 DEF KernelInv, SessionInv, SessionTypeOK
<1>3. /\ day' = [rows |-> day'.rows, sells |-> day'.sells, buys |-> day'.buys,
                 decisions |-> day'.decisions, equity |-> day'.equity]
      /\ day'.rows = day.rows /\ day'.sells = day.sells /\ day'.buys = day.buys
      /\ day'.decisions = day.decisions
  BY <1>1 DEF KernelInv, SessionInv, SessionTypeOK
<1>4. HeldSet' = HeldSet /\ (WarmingUp' <=> WarmingUp)
  BY <1>1, <1>2 DEF HeldSet, Held, WarmingUp
<1>5. SessionTypeOK'
  BY <1>1, <1>2, <1>3 DEF KernelInv, SessionInv, SessionTypeOK, Row
<1>6. ClockFits'
  BY <1>1, <1>2, <1>4 DEF KernelInv, SessionInv, ClockFits, executorVars
<1>7. OrdersFit' /\ DecisionsFit' /\ SlotsFit'
  BY <1>1, <1>2, <1>3, <1>4 DEF KernelInv, SessionInv, OrdersFit, DecisionsFit, SlotsFit
<1>. QED
  BY <1>1, <1>5, <1>6, <1>7, StutterExecutor DEF KernelInv, SessionInv

LEMMA StopBuyingKeeps ==
  ASSUME KernelInv, StopBuying
  PROVE  KernelInv'
<1>1. /\ clock.pc = "buys" /\ UNCHANGED <<run, book, day>> /\ UNCHANGED executorVars
      /\ clock' = [clock EXCEPT !.pc = "ask"]
  BY DEF StopBuying
<1>2. clock' = [clock EXCEPT !.pc = "ask", !.end = clock.end]
  BY <1>1 DEF KernelInv, SessionInv, SessionTypeOK
<1>3. ExecutorInv' /\ caller'.pc = "idle" /\ ~pool'.stopping
  BY <1>1, StutterExecutor DEF KernelInv, SessionInv, ClockFits, executorVars
<1>. QED
  BY <1>1, <1>2, <1>3, PlaceMoves DEF KernelInv, SessionInv, SessionTypeOK, ClockFits, DecisionsFit

\* A step of the orders of a session: some are done, the book follows.
LEMMA OrdersMove ==
  ASSUME KernelInv, UNCHANGED executorVars, UNCHANGED <<run, clock>>,
         clock.pc \in {"sells", "buys"},
         book' = [cash |-> book'.cash, held |-> book'.held, marks |-> book'.marks,
                  pending |-> book.pending, history |-> book.history, detector |-> book.detector],
         book'.cash \in Nat,
         book'.held = [i \in Instruments |-> book'.held[i]],
         \A i \in Instruments : PositionOK(book'.held[i]),
         Cardinality(HeldSet') <= MaxPositions,
         day' = [rows |-> day.rows, sells |-> day'.sells, buys |-> day'.buys,
                 decisions |-> day.decisions, equity |-> day.equity],
         day'.sells \subseteq day.sells, day'.buys \subseteq day.buys
  PROVE  KernelInv'
<1>1. /\ day' = [rows |-> day'.rows, sells |-> day'.sells, buys |-> day'.buys,
                 decisions |-> day'.decisions, equity |-> day'.equity]
      /\ day'.rows = day.rows /\ day'.decisions = day.decisions
  OBVIOUS
<1>2. SessionTypeOK'
  BY <1>1 DEF KernelInv, SessionInv, SessionTypeOK, Row
<1>3. ClockFits'
  <2>1. WarmingUp' <=> WarmingUp
    BY DEF WarmingUp
  <2>. QED
    BY <2>1 DEF KernelInv, SessionInv, ClockFits, executorVars
<1>4. OrdersFit'
  BY <1>1 DEF KernelInv, SessionInv, OrdersFit, Orders, Unique
<1>5. DecisionsFit'
  BY <1>1 DEF KernelInv, SessionInv, DecisionsFit
<1>6. SlotsFit'
  BY DEF SlotsFit
<1>. QED
  BY <1>2, <1>3, <1>4, <1>5, <1>6, StutterExecutor DEF KernelInv, SessionInv

LEMMA SellDroppedKeeps ==
  ASSUME KernelInv, NEW s \in day.sells, SellDropped(s)
  PROVE  KernelInv'
<1>1. /\ clock.pc = "sells" /\ UNCHANGED <<run, clock, book>> /\ UNCHANGED executorVars
      /\ day' = [day EXCEPT !.sells = day.sells \ {s}]
  BY DEF SellDropped
<1>2. /\ day' = [rows |-> day.rows, sells |-> day'.sells, buys |-> day'.buys,
                 decisions |-> day.decisions, equity |-> day.equity]
      /\ day'.sells \subseteq day.sells /\ day'.buys \subseteq day.buys
  BY <1>1 DEF KernelInv, SessionInv, SessionTypeOK
<1>3. HeldSet' = HeldSet
  BY <1>1 DEF HeldSet, Held
<1>4. /\ book' = [cash |-> book'.cash, held |-> book'.held, marks |-> book'.marks,
                  pending |-> book.pending, history |-> book.history, detector |-> book.detector]
      /\ book'.cash \in Nat
      /\ book'.held = [i \in Instruments |-> book'.held[i]]
      /\ \A i \in Instruments : PositionOK(book'.held[i])
      /\ Cardinality(HeldSet') <= MaxPositions
  BY <1>1, <1>3 DEF KernelInv, SessionInv, SessionTypeOK, SlotsFit
<1>. QED
  BY <1>1, <1>2, <1>4, OrdersMove

LEMMA BuyDroppedKeeps ==
  ASSUME KernelInv, NEW s \in day.buys, BuyDropped(s)
  PROVE  KernelInv'
<1>1. /\ clock.pc = "buys" /\ UNCHANGED <<run, clock, book>> /\ UNCHANGED executorVars
      /\ day' = [day EXCEPT !.buys = day.buys \ {s}]
  BY DEF BuyDropped
<1>2. /\ day' = [rows |-> day.rows, sells |-> day'.sells, buys |-> day'.buys,
                 decisions |-> day.decisions, equity |-> day.equity]
      /\ day'.sells \subseteq day.sells /\ day'.buys \subseteq day.buys
  BY <1>1 DEF KernelInv, SessionInv, SessionTypeOK
<1>3. HeldSet' = HeldSet
  BY <1>1 DEF HeldSet, Held
<1>4. /\ book' = [cash |-> book'.cash, held |-> book'.held, marks |-> book'.marks,
                  pending |-> book.pending, history |-> book.history, detector |-> book.detector]
      /\ book'.cash \in Nat
      /\ book'.held = [i \in Instruments |-> book'.held[i]]
      /\ \A i \in Instruments : PositionOK(book'.held[i])
      /\ Cardinality(HeldSet') <= MaxPositions
  BY <1>1, <1>3 DEF KernelInv, SessionInv, SessionTypeOK, SlotsFit
<1>. QED
  BY <1>1, <1>2, <1>4, OrdersMove

LEMMA HeldFinite ==
  ASSUME NEW S, S \subseteq HeldSet
  PROVE  IsFiniteSet(HeldSet) /\ IsFiniteSet(S) /\ Cardinality(S) \in Nat
         /\ Cardinality(S) <= Cardinality(HeldSet) /\ Cardinality(HeldSet) \in Nat
<1>1. IsFiniteSet(HeldSet)
  BY KernelAssumption, FS_Subset DEF HeldSet
<1>. QED
  BY <1>1, FS_Subset, FS_CardinalityType

LEMMA DivIsWhole ==
  ASSUME NEW a \in Int, NEW n \in Nat \ {0}
  PROVE  a \div n \in Int /\ n * (a \div n) <= a
OBVIOUS

LEMMA CommissionIsWhole ==
  ASSUME KernelInv, NEW n \in Int
  PROVE  Commission(n) \in Int
<1>1. run.costs.pct \in Nat /\ run.costs.min \in Nat
  BY KernelAssumption DEF KernelInv, SessionInv, SessionTypeOK
<1>2. n * run.costs.pct \in Int
  BY <1>1
<1> DEFINE x == n * run.costs.pct
           y == x \div 100
<1>3. y \in Int
  <2> HIDE DEF x
  <2>. QED
    BY <1>2 DEF x
<1>4. Commission(n) = IF n <= 0 THEN 0 ELSE Larger(y, run.costs.min)
  BY DEF Commission
<1> HIDE DEF y
<1>5. Larger(y, run.costs.min) \in Int
  BY <1>1, <1>3 DEF Larger
<1>. QED
  BY <1>4, <1>5

LEMMA SellFillKeeps ==
  ASSUME KernelInv, NEW s \in day.sells, SellFill(s)
  PROVE  KernelInv'
<1> DEFINE price == (Row(s.i).open * (100 - run.costs.slippage)) \div 100
           notional == book.held[s.i].qty * price
           gain == Larger(notional - Commission(notional), 0)
<1>1. /\ clock.pc = "sells" /\ UNCHANGED <<run, clock>> /\ UNCHANGED executorVars
      /\ CanTrade(s.i)
      /\ day' = [day EXCEPT !.sells = day.sells \ {s}]
      /\ book' = [book EXCEPT !.cash = book.cash + gain,
                              !.held = [book.held EXCEPT ![s.i] = NoPosition],
                              !.marks = [book.marks EXCEPT ![s.i] = 0]]
  BY DEF SellFill
<1>2. gain \in Nat
  <2>1. /\ Row(s.i).open \in Nat /\ s.i \in Instruments /\ book.held[s.i].qty \in Nat
        /\ 100 - run.costs.slippage \in Int
    <3>1. run.costs.slippage \in Nat
      BY KernelAssumption DEF KernelInv, SessionInv, SessionTypeOK
    <3>2. s.i \in DOMAIN day.rows /\ s.i \in Instruments
      BY <1>1 DEF KernelInv, SessionInv, SessionTypeOK, CanTrade, HasRow
    <3>3. Row(s.i).open \in Nat /\ PositionOK(book.held[s.i])
      BY <3>2 DEF KernelInv, SessionInv, SessionTypeOK
    <3>. QED
      BY <3>1, <3>2, <3>3 DEF PositionOK
  <2>2. Row(s.i).open * (100 - run.costs.slippage) \in Int
    BY <2>1
  <2>3. price \in Int
    BY <2>2, DivIsWhole
  <2> HIDE DEF price
  <2>4. notional \in Int
    BY <2>1, <2>3
  <2> HIDE DEF notional
  <2>5. notional - Commission(notional) \in Int
    BY <2>4, CommissionIsWhole
  <2>. QED
    BY <2>5 DEF Larger
<1> HIDE DEF gain
<1>3. /\ day' = [rows |-> day.rows, sells |-> day'.sells, buys |-> day'.buys,
                 decisions |-> day.decisions, equity |-> day.equity]
      /\ day'.sells \subseteq day.sells /\ day'.buys \subseteq day.buys
  BY <1>1 DEF KernelInv, SessionInv, SessionTypeOK
<1>4. /\ book' = [cash |-> book'.cash, held |-> book'.held, marks |-> book'.marks,
                  pending |-> book.pending, history |-> book.history, detector |-> book.detector]
      /\ book'.cash = book.cash + gain
      /\ book'.held = [book.held EXCEPT ![s.i] = NoPosition]
  BY <1>1 DEF KernelInv, SessionInv, SessionTypeOK
<1>5. book'.cash \in Nat
  BY <1>2, <1>4 DEF KernelInv, SessionInv, SessionTypeOK
<1>6. /\ book'.held = [i \in Instruments |-> book'.held[i]]
      /\ \A i \in Instruments : book'.held[i] = IF i = s.i THEN NoPosition ELSE book.held[i]
  BY <1>4 DEF KernelInv, SessionInv, SessionTypeOK
<1>7. PositionOK(NoPosition) /\ NoPosition.qty = 0
  BY DEF PositionOK, NoPosition
<1>8. \A i \in Instruments : PositionOK(book'.held[i])
  BY <1>6, <1>7 DEF KernelInv, SessionInv, SessionTypeOK
<1>9. HeldSet' \subseteq HeldSet
  BY <1>6, <1>7 DEF HeldSet, Held
<1>10. Cardinality(HeldSet') <= MaxPositions
  BY <1>9, HeldFinite, KernelAssumption DEF KernelInv, SessionInv, SlotsFit
<1>. QED
  BY <1>1, <1>3, <1>4, <1>5, <1>6, <1>8, <1>10, OrdersMove

\* What an order costs is a whole number.
LEMMA OrderIsWhole ==
  ASSUME KernelInv, NEW s, s.i \in Instruments, CanTrade(s.i), NEW o, o = BuyOrder(s),
         o.qty \in Nat \ {0}
  PROVE  /\ o.price \in Nat \ {0} /\ CashOut(o) \in Int
         /\ o = [qty |-> o.qty, price |-> o.price, fee |-> o.fee]
<1>1. /\ Row(s.i).open \in Nat \ {0} /\ run.costs.slippage \in Nat
  BY KernelAssumption DEF KernelInv, SessionInv, SessionTypeOK, CanTrade, HasRow
<1> DEFINE mark == Row(s.i).open
           price == (mark * (100 + run.costs.slippage)) \div 100
<1>2. price \in Nat \ {0}
  <2>1. mark * (100 + run.costs.slippage) = mark * 100 + mark * run.costs.slippage
        /\ mark * run.costs.slippage \in Nat
    BY <1>1
  <2>2. mark * (100 + run.costs.slippage) \in Nat /\ mark * (100 + run.costs.slippage) >= 100
    BY <1>1, <2>1
  <2> DEFINE x == mark * (100 + run.costs.slippage)
  <2> HIDE DEF x
  <2>3. x \in Nat /\ x >= 100 => x \div 100 \in Nat \ {0}
    OBVIOUS
  <2>. QED
    BY <2>2, <2>3 DEF x
<1> HIDE DEF price
<1>3. /\ o.price = price /\ (o.fee = 0 \/ o.fee = Commission(o.qty * price))
      /\ o = [qty |-> o.qty, price |-> o.price, fee |-> o.fee]
  <2>1. \E target : o = EstimateBuy(target, mark)
    BY DEF BuyOrder
  <2> PICK target : o = EstimateBuy(target, mark)
    BY <2>1
  <2> DEFINE W(q) == [qty |-> q, price |-> price, fee |-> Commission(q * price)]
  <2> DEFINE net == Larger((target - run.costs.min) \div price, 0)
             gross == (target * 100) \div (price * (100 + run.costs.pct))
  <2>2. \/ o = [qty |-> 0, price |-> price, fee |-> 0]
        \/ \E q : o = W(q)
    <3>1. \/ o = [qty |-> 0, price |-> price, fee |-> 0]
          \/ o = W(net) \/ o = W(gross) \/ o = W(0)
      BY <2>1 DEF EstimateBuy, price
    <3>. QED
      BY <3>1
  <2>3. \A q : /\ W(q).qty = q /\ W(q).price = price /\ W(q).fee = Commission(q * price)
               /\ W(q) = [qty |-> W(q).qty, price |-> W(q).price, fee |-> W(q).fee]
    OBVIOUS
  <2> HIDE DEF W
  <2>. QED
    BY <2>2, <2>3
<1>4. o.qty * price \in Int
  BY <1>2
<1>. QED
  BY <1>2, <1>3, <1>4, CommissionIsWhole DEF CashOut

\* A risk-sized order leaves the cash it costs.
LEMMA AffordableFits ==
  ASSUME KernelInv, NEW price \in Nat \ {0}, NEW qty \in Nat \ {0},
         qty <= (book.cash * 100) \div (price * (100 + run.costs.pct)),
         qty <= (book.cash - run.costs.min) \div price
  PROVE  qty * price + Commission(qty * price) <= book.cash
<1>1. run.costs.pct \in Nat /\ run.costs.min \in Nat /\ book.cash \in Nat
  BY KernelAssumption DEF KernelInv, SessionInv, SessionTypeOK
<1> DEFINE n == qty * price
           p == price * (100 + run.costs.pct)
<1>2. n \in Nat \ {0} /\ p \in Nat \ {0}
  BY <1>1
<1>3. n + run.costs.min <= book.cash
  <2> DEFINE x == book.cash - run.costs.min
             q == x \div price
  <2>0. x \in Int
    BY <1>1
  <2> HIDE DEF x
  <2>1. q \in Int /\ price * q <= x /\ qty <= q
    <3>1. q \in Int /\ price * q <= x
      BY <2>0
    <3>. QED
      BY <3>1 DEF x
  <2> HIDE DEF q
  <2>2. price * qty <= price * q
    BY <2>1
  <2>3. price * qty <= book.cash - run.costs.min
    BY <1>1, <2>1, <2>2 DEF x
  <2>. QED
    BY <1>1, <2>3
<1>4. n * 100 + n * run.costs.pct <= book.cash * 100
  <2> DEFINE x == book.cash * 100
             q == x \div p
  <2>0. x \in Nat
    BY <1>1
  <2>5. qty <= q
    OBVIOUS
  <2> HIDE DEF x, p
  <2>1. q \in Int /\ p * q <= x
    BY <1>2, <2>0
  <2> HIDE DEF q
  <2>2. p * qty <= p * q
    BY <1>2, <2>1, <2>5
  <2>3. p * qty <= book.cash * 100
    BY <1>1, <1>2, <2>1, <2>2 DEF x
  <2>4. p * qty = n * 100 + n * run.costs.pct
    BY <1>1 DEF p
  <2>. QED
    BY <2>3, <2>4
<1> HIDE DEF n, p
<1>5. n + (n * run.costs.pct) \div 100 <= book.cash
  <2>1. n * run.costs.pct \in Nat
    BY <1>1, <1>2
  <2> DEFINE m == n * run.costs.pct
  <2> HIDE DEF m
  <2>2. m \in Nat /\ n * 100 + m <= book.cash * 100
    BY <1>4, <2>1 DEF m
  <2>3. m \div 100 \in Int /\ 100 * (m \div 100) <= m
    BY <2>2, DivIsWhole
  <2>4. n + m \div 100 <= book.cash
    BY <1>1, <1>2, <2>2, <2>3
  <2>. QED
    BY <2>4 DEF m
<1>6. (n * run.costs.pct) \div 100 \in Int
  <2>1. n * run.costs.pct \in Int
    BY <1>1, <1>2
  <2>. QED
    BY <2>1, DivIsWhole
<1>7. Commission(n) = Larger((n * run.costs.pct) \div 100, run.costs.min)
  BY <1>2 DEF Commission
<1> DEFINE y == (n * run.costs.pct) \div 100
<1> HIDE DEF y
<1>8. y \in Int /\ n + y <= book.cash /\ Commission(n) = Larger(y, run.costs.min)
  BY <1>5, <1>6, <1>7 DEF y
<1>9. n + Commission(n) <= book.cash
  BY <1>1, <1>2, <1>3, <1>8 DEF Larger
<1>. QED
  BY <1>9 DEF n

\* Nothing, or no more than the cash affords.
LEMMA SizeIs ==
  ASSUME NEW frozen, NEW price, NEW equity, NEW cash, NEW cap, NEW costs
  PROVE  LET q == SizeEntry(frozen, price, equity, cash, cap, costs) IN
         q = 0 \/ \E x : q = Positive(Smaller(Affordable(price, cash, costs), x))
<1> DEFINE stop == EntryStop(frozen)
           exitStop == (stop * (100 - costs.slippage)) \div 100
           loss == price - exitStop
           budget == (equity * SR.riskPct) \div 100
           bearable == Min({
            (equity * cap) \div (100 * price),
            (budget * 100) \div (100 * loss + costs.pct * (price + exitStop)),
            ((budget - costs.min) * 100) \div (100 * loss + costs.pct * price),
            ((budget - costs.min) * 100) \div (100 * loss + costs.pct * exitStop),
            (budget - 2 * costs.min) \div loss})
           q == SizeEntry(frozen, price, equity, cash, cap, costs)
<1>1. q = 0 \/ q = Positive(Smaller(Affordable(price, cash, costs), bearable))
  BY ZenonT(60) DEF SizeEntry
<1> HIDE DEF q, bearable
<1>2. q = 0 \/ \E x : q = Positive(Smaller(Affordable(price, cash, costs), x))
  BY <1>1
<1>. QED
  BY <1>2 DEF q

\* A purchase that fits is paid for, whatever sized it.
LEMMA FitsIsCovered ==
  ASSUME KernelInv, NEW s, s.i \in Instruments, CanTrade(s.i), Fits(s)
  PROVE  /\ Order(s).qty \in Nat \ {0}
         /\ CashOut(Order(s)) \in Int /\ CashOut(Order(s)) <= book.cash
<1> DEFINE o == BuyOrder(s)
<1>1. /\ o.qty \in Nat \ {0} /\ CashOut(o) <= book.cash /\ Order(s).qty \in Nat \ {0}
  BY DEF Fits
<1>2. /\ o.price \in Nat \ {0} /\ CashOut(o) \in Int
      /\ o = [qty |-> o.qty, price |-> o.price, fee |-> o.fee]
  BY <1>1, OrderIsWhole
<1>3. CASE ~Supported
  BY <1>1, <1>2, <1>3 DEF Order
<1>4. CASE Supported
  <2> DEFINE q == IF InChannel(s.plan.channel, o.price)
                  THEN SizeEntry(s.plan.frozen, o.price, day.equity, book.cash, PositionPct, run.costs)
                  ELSE 0
  <2>1. Order(s) = [o EXCEPT !.qty = q, !.fee = Commission(q * o.price)]
    BY <1>4 DEF Order, SizedOrder
  <2> HIDE DEF o, q
  <2>2. Order(s) = [qty |-> q, price |-> o.price, fee |-> Commission(q * o.price)]
    BY <1>2, <2>1
  <2>3. q \in Nat \ {0} /\ CashOut(Order(s)) = q * o.price + Commission(q * o.price)
    BY <1>1, <2>2 DEF CashOut
  <2>4. q = SizeEntry(s.plan.frozen, o.price, day.equity, book.cash, PositionPct, run.costs)
    BY <2>3 DEF q
  <2>5. \E x : q = Positive(Smaller(Affordable(o.price, book.cash, run.costs), x))
    BY <2>3, <2>4, SizeIs
  <2> PICK x : q = Positive(Smaller(Affordable(o.price, book.cash, run.costs), x))
    BY <2>5
  <2> DEFINE a == (book.cash * 100) \div (o.price * (100 + run.costs.pct))
             b == (book.cash - run.costs.min) \div o.price
  <2>6. /\ book.cash * 100 \in Int /\ book.cash - run.costs.min \in Int
        /\ o.price * (100 + run.costs.pct) \in Nat \ {0}
    <3>1. run.costs.pct \in Nat /\ run.costs.min \in Nat /\ book.cash \in Nat
      BY KernelAssumption DEF KernelInv, SessionInv, SessionTypeOK
    <3>. QED
      BY <1>2, <3>1
  <2>7. a \in Int /\ b \in Int
    BY <1>2, <2>6
  <2>8. q = Positive(Smaller(Smaller(a, b), x))
    BY DEF Affordable
  <2> HIDE DEF a, b
  <2>9. q <= a /\ q <= b
    BY <2>3, <2>7, <2>8 DEF Positive, Smaller
  <2>10. q * o.price + Commission(q * o.price) <= book.cash
    BY <1>2, <2>3, <2>9, AffordableFits DEF a, b
  <2>11. q * o.price \in Int
    BY <1>2, <2>3
  <2>. QED
    BY <1>1, <2>3, <2>10, <2>11, CommissionIsWhole
<1>. QED
  BY <1>3, <1>4

LEMMA BuyFillKeeps ==
  ASSUME KernelInv, NEW s \in day.buys, BuyFill(s)
  PROVE  KernelInv'
<1> DEFINE p == book.held[s.i]
           o == Order(s)
           qty == p.qty + o.qty
           new == [qty |-> qty, avg |-> (p.qty * p.avg + o.qty * o.price) \div qty,
                   entry |-> IF p.qty > 0 THEN p.entry ELSE Session,
                   setup |-> s.setup, frozen |-> s.plan.frozen]
<1>1. /\ clock.pc = "buys" /\ UNCHANGED <<run, clock>> /\ UNCHANGED executorVars
      /\ MayBuy(s) /\ Fits(s)
      /\ day' = [day EXCEPT !.buys = day.buys \ {s}]
      /\ book' = [book EXCEPT !.cash = book.cash - CashOut(o),
                              !.held = [book.held EXCEPT ![s.i] = new]]
  BY DEF BuyFill
<1>2. s.i \in Instruments /\ CanTrade(s.i) /\ PositionOK(p) /\ Session \in Nat
  <2>1. s.i \in Instruments
    BY DEF KernelInv, SessionInv, OrdersFit, Orders
  <2>2. CanTrade(s.i)
    BY <1>1 DEF MayBuy
  <2>3. PositionOK(p)
    BY <2>1 DEF KernelInv, SessionInv, SessionTypeOK
  <2>4. Session \in Nat
    BY DEF KernelInv, SessionInv, SessionTypeOK, Session
  <2>. QED
    BY <2>1, <2>2, <2>3, <2>4
<1>3. o.qty \in Nat \ {0} /\ book.cash - CashOut(o) \in Nat
  <2>1. o.qty \in Nat \ {0} /\ CashOut(o) \in Int /\ CashOut(o) <= book.cash
    BY <1>1, <1>2, FitsIsCovered
  <2>2. book.cash \in Nat
    BY DEF KernelInv, SessionInv, SessionTypeOK
  <2> HIDE DEF o
  <2>. QED
    BY <2>1, <2>2
<1> HIDE DEF o
<1>4. PositionOK(new) /\ new.qty > 0
  <2>1. qty \in Nat \ {0} /\ p.entry \in Nat
    BY <1>2, <1>3 DEF PositionOK
  <2> HIDE DEF qty, p
  <2>. QED
    BY <1>2, <2>1 DEF PositionOK
<1> HIDE DEF new
<1>5. /\ day' = [rows |-> day.rows, sells |-> day'.sells, buys |-> day'.buys,
                 decisions |-> day.decisions, equity |-> day.equity]
      /\ day'.sells \subseteq day.sells /\ day'.buys \subseteq day.buys
  BY <1>1 DEF KernelInv, SessionInv, SessionTypeOK
<1>6. /\ book' = [cash |-> book'.cash, held |-> book'.held, marks |-> book'.marks,
                  pending |-> book.pending, history |-> book.history, detector |-> book.detector]
      /\ book'.cash = book.cash - CashOut(o)
      /\ book'.held = [book.held EXCEPT ![s.i] = new]
  BY <1>1 DEF KernelInv, SessionInv, SessionTypeOK
<1>7. /\ book'.held = [i \in Instruments |-> book'.held[i]]
      /\ \A i \in Instruments : book'.held[i] = IF i = s.i THEN new ELSE book.held[i]
  BY <1>6 DEF KernelInv, SessionInv, SessionTypeOK
<1>8. \A i \in Instruments : PositionOK(book'.held[i])
  BY <1>4, <1>7 DEF KernelInv, SessionInv, SessionTypeOK
<1>9. HeldSet' = HeldSet \union {s.i}
  BY <1>2, <1>4, <1>7 DEF HeldSet, Held
<1>10. Cardinality(HeldSet') <= MaxPositions
  <2>1. CASE Held(s.i)
    <3>1. HeldSet' = HeldSet
      BY <1>2, <1>9, <2>1 DEF HeldSet
    <3>. QED
      BY <3>1 DEF KernelInv, SessionInv, SlotsFit
  <2>2. CASE ~Held(s.i)
    <3>1. s.i \notin HeldSet /\ Cardinality(HeldSet) < MaxPositions
      BY <1>1, <2>2 DEF HeldSet, MayBuy
    <3>2. IsFiniteSet(HeldSet) /\ Cardinality(HeldSet) \in Nat
      BY HeldFinite
    <3>3. Cardinality(HeldSet \union {s.i}) = Cardinality(HeldSet) + 1
      BY <3>1, <3>2, FS_AddElement
    <3>. QED
      BY <1>9, <3>1, <3>2, <3>3, KernelAssumption
  <2>. QED
    BY <2>1, <2>2
<1>11. book'.cash \in Nat
  BY <1>3, <1>6
<1>. QED
  BY <1>1, <1>5, <1>6, <1>7, <1>8, <1>10, <1>11, OrdersMove

-----------------------------------------------------------------------------
(* What a session starts from.                                              *)

\* The rows of a session are rows the strategy allows.
LEMMA RowsAreOfSession ==
  ASSUME KernelInv, NEW date \in 1 .. run.last, NEW rows \in SessionRows(date)
  PROVE  /\ DOMAIN rows \subseteq Instruments
         /\ \A i \in DOMAIN rows : rows[i].open \in Nat /\ rows[i].atr \in Nat /\ AtMostOne(rows[i].zscore)
<1> PICK f : /\ \A i \in Instruments : f[i] \in RowsOf(run.kind, i, date) \union {NoRow}
             /\ rows = [i \in {j \in Instruments : f[j] # NoRow} |-> f[i]]
  BY DEF SessionRows
<1>1. DOMAIN rows \subseteq Instruments
  OBVIOUS
<1>2. \A i \in DOMAIN rows : rows[i] \in RowsOf(run.kind, i, date)
  OBVIOUS
<1>3. run \in Runs
  BY DEF KernelInv, SessionInv, SessionTypeOK
<1>4. \A i \in Instruments : \A row \in RowsOf(run.kind, i, date) :
         row.open \in Nat /\ row.atr \in Nat /\ AtMostOne(row.zscore)
  BY <1>3, KernelAssumption DEF AtMostOne
<1>. QED
  BY <1>1, <1>2, <1>4

\* A split changes the size of a position and what was paid for a unit.
LEMMA SplitKeeps ==
  ASSUME KernelInv, NEW date \in 1 .. run.last, NEW i \in Instruments
  PROVE  LET p == SplitHeld(date)[i] IN
         /\ PositionOK(p)
         /\ p.qty > 0 <=> book.held[i].qty > 0
         /\ p.entry = book.held[i].entry /\ p.setup = book.held[i].setup
<1> DEFINE old == book.held[i]
           p == SplitHeld(date)[i]
<1>1. PositionOK(old)
  BY DEF KernelInv, SessionInv, SessionTypeOK
<1>2. CASE Held(i) /\ i \in DOMAIN Splits[date]
  <2> DEFINE f == Splits[date][i]
  <2>1. f \in Nat \ {0}
    BY <1>2, KernelAssumption DEF KernelInv, SessionInv, SessionTypeOK
  <2>2. p = [old EXCEPT !.qty = old.qty * f, !.avg = old.avg \div f]
    BY <1>2 DEF SplitHeld
  <2> HIDE DEF f, p, old
  <2>3. /\ p = [qty |-> old.qty * f, avg |-> old.avg \div f, entry |-> old.entry,
                setup |-> old.setup, frozen |-> old.frozen]
        /\ old.qty \in Nat /\ old.entry \in Nat
    BY <1>1, <2>2 DEF PositionOK
  <2>4. old.qty \in Nat \ {0}
    BY <1>2, <2>3 DEF Held, old
  <2>5. old.qty * f \in Nat \ {0}
    BY <2>1, <2>4
  <2>6. PositionOK(p) /\ p.qty > 0 /\ old.qty > 0 /\ p.entry = old.entry /\ p.setup = old.setup
    BY <2>3, <2>4, <2>5 DEF PositionOK
  <2>. QED
    BY <2>6 DEF p, old
<1>3. CASE ~(Held(i) /\ i \in DOMAIN Splits[date])
  <2>1. p = old
    BY <1>3 DEF SplitHeld
  <2>. QED
    BY <1>1, <2>1
<1>. QED
  BY <1>2, <1>3

\* What a session finds when it begins.
LEMMA SessionBegins ==
  ASSUME KernelInv, OpenSession
  PROVE  LET date == clock.date + 1
             formal == date >= run.start
         IN
         /\ clock.pc = "open" /\ UNCHANGED executorVars /\ run' = run
         /\ date \in 1 .. run.last /\ date <= clock.end
         /\ clock' = [clock EXCEPT !.date = date, !.pc = IF formal THEN "sells" ELSE "ask"]
         /\ day' = [rows |-> day'.rows, sells |-> {s \in book.pending : s.side = "SELL"},
                    buys |-> {s \in book.pending : s.side = "BUY"}, decisions |-> {},
                    equity |-> day'.equity]
         /\ DOMAIN day'.rows \subseteq Instruments
         /\ \A i \in DOMAIN day'.rows : day'.rows[i].open \in Nat /\ day'.rows[i].atr \in Nat
                                       /\ AtMostOne(day'.rows[i].zscore)
         /\ book' = [cash |-> book.cash, held |-> book'.held, marks |-> book'.marks,
                     pending |-> book.pending, history |-> book'.history,
                     detector |-> book.detector]
         /\ ~formal => book'.held = book.held
         /\ formal => \E gone \in SUBSET HeldSet :
                         book'.held = [i \in Instruments |-> IF i \in gone THEN NoPosition
                                                             ELSE SplitHeld(date)[i]]
<1> DEFINE date == clock.date + 1
           formal == date >= run.start
<1>1. /\ clock.pc = "open" /\ UNCHANGED executorVars /\ run' = run
      /\ clock' = [clock EXCEPT !.date = date, !.pc = IF formal THEN "sells" ELSE "ask"]
  BY DEF OpenSession
<1>2. date \in 1 .. run.last /\ date <= clock.end
  BY <1>1, KernelAssumption DEF KernelInv, SessionInv, SessionTypeOK, ClockFits
<1>3. PICK rows \in SessionRows(date) :
        LET gone == {i \in HeldSet : i \notin DOMAIN rows /\ date > Delisted[i]} IN
        /\ book' = [book EXCEPT
              !.history = [i \in Instruments |->
                             IF i \in DOMAIN rows THEN @[i] + 1 ELSE @[i]],
              !.held = IF formal
                       THEN [i \in Instruments |->
                               IF i \in gone THEN NoPosition ELSE SplitHeld(date)[i]]
                       ELSE @,
              !.marks = [i \in Instruments |-> IF formal /\ i \in gone THEN 0 ELSE @[i]]]
        /\ day' = [NoDay EXCEPT !.rows = rows,
                      !.sells = {s \in book.pending : s.side = "SELL"},
                      !.buys = {s \in book.pending : s.side = "BUY"}]
  BY DEF OpenSession
<1> DEFINE gone == {i \in HeldSet : i \notin DOMAIN rows /\ date > Delisted[i]}
<1> HIDE DEF date, formal
<1>4. /\ DOMAIN rows \subseteq Instruments
      /\ \A i \in DOMAIN rows : rows[i].open \in Nat /\ rows[i].atr \in Nat /\ AtMostOne(rows[i].zscore)
  BY <1>2, RowsAreOfSession
<1>5. /\ day' = [rows |-> rows, sells |-> {s \in book.pending : s.side = "SELL"},
                 buys |-> {s \in book.pending : s.side = "BUY"}, decisions |-> {},
                 equity |-> 0]
  BY <1>3 DEF NoDay
<1>6. /\ book' = [cash |-> book.cash, held |-> book'.held, marks |-> book'.marks,
                  pending |-> book.pending, history |-> book'.history,
                  detector |-> book.detector]
      /\ book'.held = IF formal
                      THEN [i \in Instruments |->
                               IF i \in gone THEN NoPosition ELSE SplitHeld(date)[i]]
                      ELSE book.held
  BY <1>3 DEF KernelInv, SessionInv, SessionTypeOK
<1>7. gone \in SUBSET HeldSet
  OBVIOUS
<1> HIDE DEF gone
<1>8. /\ ~formal => book'.held = book.held
      /\ formal => \E gone_ \in SUBSET HeldSet :
                         book'.held = [i \in Instruments |-> IF i \in gone_ THEN NoPosition
                                                             ELSE SplitHeld(date)[i]]
  BY <1>6, <1>7
<1>. QED
  BY <1>1, <1>2, <1>4, <1>5, <1>6, <1>8 DEF date, formal

-----------------------------------------------------------------------------
(* A session opens, closes and ends.                                        *)

LEMMA OpenSessionKeeps ==
  ASSUME KernelInv, OpenSession
  PROVE  KernelInv'
<1> DEFINE date == clock.date + 1
           formal == date >= run.start
<1>1. /\ clock.pc = "open" /\ UNCHANGED executorVars /\ run' = run
      /\ date \in 1 .. run.last /\ date <= clock.end
      /\ clock' = [clock EXCEPT !.date = date, !.pc = IF formal THEN "sells" ELSE "ask"]
      /\ day' = [rows |-> day'.rows, sells |-> {s \in book.pending : s.side = "SELL"},
                 buys |-> {s \in book.pending : s.side = "BUY"}, decisions |-> {},
                 equity |-> day'.equity]
      /\ DOMAIN day'.rows \subseteq Instruments
      /\ \A i \in DOMAIN day'.rows : day'.rows[i].open \in Nat /\ day'.rows[i].atr \in Nat
                                       /\ AtMostOne(day'.rows[i].zscore)
      /\ book' = [cash |-> book.cash, held |-> book'.held, marks |-> book'.marks,
                  pending |-> book.pending, history |-> book'.history,
                  detector |-> book.detector]
  BY SessionBegins
<1>2. /\ ~formal => book'.held = book.held
      /\ formal => \E gone \in SUBSET HeldSet :
                      book'.held = [i \in Instruments |-> IF i \in gone THEN NoPosition
                                                          ELSE SplitHeld(date)[i]]
  BY SessionBegins
<1>3. /\ clock' \in [pc : {"idle", "open", "sells", "buys", "ask", "evaluate", "close", "finished",
                           "raised"}, date : Nat, end : Nat, formal : Nat, offset : Nat]
      /\ clock'.pc = (IF formal THEN "sells" ELSE "ask") /\ clock'.date = date
      /\ clock'.end = clock.end /\ clock'.offset = clock.offset
  <2>1. date \in Nat
    BY <1>1
  <2> HIDE DEF date, formal
  <2>. QED
    BY <1>1, <2>1 DEF KernelInv, SessionInv, SessionTypeOK
<1>4. clock.date < date /\ clock.date \in Nat /\ run.start \in Nat /\ date \in Nat
  BY KernelAssumption DEF KernelInv, SessionInv, SessionTypeOK
<1>5. (WarmingUp' <=> ~formal) /\ (WarmingUp' => WarmingUp)
  BY <1>1, <1>3, <1>4 DEF WarmingUp
<1>6. PositionOK(NoPosition) /\ NoPosition.qty = 0
  BY DEF PositionOK, NoPosition
<1>7. /\ book'.held = [i \in Instruments |-> book'.held[i]]
      /\ \A i \in Instruments : PositionOK(book'.held[i])
      /\ HeldSet' \subseteq HeldSet
  <2>1. CASE ~formal
    BY <1>2, <2>1 DEF KernelInv, SessionInv, SessionTypeOK, HeldSet, Held
  <2>2. CASE formal
    <3> PICK gone \in SUBSET HeldSet :
               book'.held = [i \in Instruments |-> IF i \in gone THEN NoPosition
                                                   ELSE SplitHeld(date)[i]]
      BY <1>2, <2>2
    <3>1. \A i \in Instruments : PositionOK(SplitHeld(date)[i])
                                 /\ (SplitHeld(date)[i].qty > 0 <=> book.held[i].qty > 0)
      BY <1>1, SplitKeeps
    <3>2. \A i \in Instruments :
             book'.held[i] = IF i \in gone THEN NoPosition ELSE SplitHeld(date)[i]
      OBVIOUS
    <3>3. book'.held = [i \in Instruments |-> book'.held[i]]
      OBVIOUS
    <3>4. \A i \in Instruments : PositionOK(book'.held[i])
                                 /\ (book'.held[i].qty > 0 => book.held[i].qty > 0)
      BY <1>6, <3>1, <3>2
    <3>. QED
      BY <3>3, <3>4 DEF HeldSet, Held
  <2>. QED
    BY <2>1, <2>2
<1>8. Cardinality(HeldSet') <= MaxPositions
  BY <1>7, HeldFinite, KernelAssumption DEF KernelInv, SessionInv, SlotsFit
<1>9. SessionTypeOK'
  BY <1>1, <1>3, <1>7 DEF KernelInv, SessionInv, SessionTypeOK, Row
<1>10. ClockFits'
  <2>1. /\ caller'.pc = caller.pc /\ pool' = pool /\ book'.pending = book.pending
        /\ clock'.pc \in {"sells", "ask"} /\ (clock'.pc = "sells" => formal)
    BY <1>1, <1>3 DEF executorVars
  <2>. QED
    BY <1>1, <1>3, <1>5, <2>1 DEF KernelInv, SessionInv, ClockFits
<1>11. /\ book'.pending = book.pending /\ day'.sells = {s \in book.pending : s.side = "SELL"}
       /\ day'.buys = {s \in book.pending : s.side = "BUY"} /\ day'.decisions = {}
  BY <1>1
<1>12. OrdersFit'
  BY <1>11 DEF KernelInv, SessionInv, OrdersFit, Orders, Unique
<1>13. DecisionsFit'
  BY <1>3, <1>11 DEF DecisionsFit
<1>. QED
  BY <1>1, <1>8, <1>9, <1>10, <1>12, <1>13, StutterExecutor DEF KernelInv, SessionInv, SlotsFit

LEMMA StartDecisionsKeeps ==
  ASSUME KernelInv, StartDecisions
  PROVE  KernelInv'
<1>1. /\ clock.pc = "ask" /\ UNCHANGED <<run, book, day>>
      /\ \/ /\ clock' = [clock EXCEPT !.pc = "evaluate"]
            /\ ForEach(Cardinality(DOMAIN day.rows))
         \/ /\ clock' = [clock EXCEPT !.pc = "close"]
            /\ UNCHANGED executorVars
  BY DEF StartDecisions
<1>2. ~pool.stopping /\ caller.pc = "idle" /\ day.decisions = {}
      /\ clock.end \in Nat /\ clock.date <= clock.end /\ clock.end <= run.last
  BY <1>1 DEF KernelInv, SessionInv, SessionTypeOK, ClockFits, DecisionsFit
<1>3. CASE clock' = [clock EXCEPT !.pc = "close"] /\ UNCHANGED executorVars
  <2>1. clock' = [clock EXCEPT !.pc = "close", !.end = clock.end]
    BY <1>3 DEF KernelInv, SessionInv, SessionTypeOK
  <2>2. ExecutorInv' /\ caller'.pc = "idle" /\ ~pool'.stopping
    BY <1>2, <1>3, StutterExecutor DEF KernelInv, executorVars
  <2>. QED
    BY <1>1, <1>2, <2>1, <2>2, PlaceMoves
<1>4. CASE clock' = [clock EXCEPT !.pc = "evaluate"] /\ ForEach(Cardinality(DOMAIN day.rows))
  <2>1. clock' = [clock EXCEPT !.pc = "evaluate", !.end = clock.end]
    BY <1>4 DEF KernelInv, SessionInv, SessionTypeOK
  <2>2. Cardinality(DOMAIN day.rows) \in 0 .. MaxRows
    <3>1. DOMAIN day.rows \subseteq Instruments
      BY DEF KernelInv, SessionInv, SessionTypeOK
    <3>. QED
      BY <3>1, KernelAssumption, ExecutorAssumption, FS_Subset, FS_CardinalityType
  <2>3. ExecutorInv'
    BY <1>2, <1>4, <2>2, ForEachKeeps DEF KernelInv
  <2>4. pool'.stopping = pool.stopping
    <3>1. pool \in [threads : 0 .. MaxThreads, rows : 0 .. MaxRows, generation : Nat,
                    unfinished : Int, stopping : BOOLEAN]
      BY DEF KernelInv, ExecutorInv, ExecutorTypeOK
    <3>. QED
      BY <1>4, <3>1 DEF ForEach
  <2>. QED
    BY <1>1, <1>2, <2>1, <2>3, <2>4, PlaceMoves
<1>. QED
  BY <1>1, <1>3, <1>4

LEMMA DecisionsReadyKeeps ==
  ASSUME KernelInv, DecisionsReady
  PROVE  KernelInv'
<1>1. /\ clock.pc = "evaluate" /\ UNCHANGED <<run, book, day>> /\ Returns
      /\ \E pc \in {"close", "raised"} : clock' = [clock EXCEPT !.pc = pc]
  BY DEF DecisionsReady
<1> PICK pc \in {"close", "raised"} : clock' = [clock EXCEPT !.pc = pc]
  BY <1>1
<1>2. clock' = [clock EXCEPT !.pc = pc, !.end = clock.end]
  BY DEF KernelInv, SessionInv, SessionTypeOK
<1>3. ExecutorInv' /\ caller'.pc = "idle" /\ pool' = pool
  BY <1>1, ReturnsKeeps DEF KernelInv, Returns, ExecutorInv, ExecutorTypeOK
<1>4. /\ clock.end \in Nat /\ clock.date <= clock.end /\ clock.end <= run.last
      /\ ~pool.stopping
  BY <1>1 DEF KernelInv, SessionInv, SessionTypeOK, ClockFits
<1>. QED
  BY <1>1, <1>2, <1>3, <1>4, PlaceMoves

LEMMA CloseSessionKeeps ==
  ASSUME KernelInv, NEW cancelled \in BOOLEAN, CloseSession(cancelled)
  PROVE  KernelInv'
<1> DEFINE last == clock.date = clock.end
           offset == IF WarmingUp THEN 0 ELSE clock.offset + 1
<1>1. /\ clock.pc = "close" /\ UNCHANGED executorVars /\ run' = run /\ day' = NoDay
      /\ cancelled => ~WarmingUp
      /\ clock' = IF cancelled THEN [clock EXCEPT !.pc = "raised"]
                  ELSE [clock EXCEPT !.pc = IF last THEN "idle" ELSE "open",
                                     !.offset = IF last THEN 0 ELSE offset,
                                     !.formal = IF last THEN Counted(offset) ELSE clock.formal]
      /\ book' = IF WarmingUp THEN book
                 ELSE [book EXCEPT
                   !.pending = day.decisions,
                   !.marks = [i \in Instruments |->
                      IF Held(i) /\ HasRow(i) THEN Row(i).close ELSE book.marks[i]]]
  BY DEF CloseSession
<1>2. clock.formal \in Nat /\ clock.offset \in Nat /\ clock.date \in Nat /\ clock.end \in Nat
      /\ offset \in Nat /\ Counted(offset) \in Nat /\ (WarmingUp => offset = 0)
  BY DEF KernelInv, SessionInv, SessionTypeOK, Counted
<1> HIDE DEF last, offset
<1>3. /\ clock' \in [pc : {"idle", "open", "sells", "buys", "ask", "evaluate", "close", "finished",
                           "raised"}, date : Nat, end : Nat, formal : Nat, offset : Nat]
      /\ clock'.pc \in {"idle", "open", "raised"} /\ clock'.date = clock.date
      /\ clock'.end = clock.end
      /\ clock'.pc = "open" => ~last
      /\ WarmingUp => clock'.offset = 0
  <2>1. CASE cancelled
    BY <1>1, <2>1 DEF KernelInv, SessionInv, SessionTypeOK
  <2>2. CASE ~cancelled
    BY <1>1, <1>2, <2>2 DEF KernelInv, SessionInv, SessionTypeOK
  <2>. QED
    BY <2>1, <2>2
<1>4. /\ book' = [cash |-> book.cash, held |-> book.held, marks |-> book'.marks,
                  pending |-> book'.pending, history |-> book.history, detector |-> book.detector]
      /\ book'.pending = IF WarmingUp THEN book.pending ELSE day.decisions
  BY <1>1 DEF KernelInv, SessionInv, SessionTypeOK
<1>5. /\ day' = [rows |-> <<>>, sells |-> {}, buys |-> {}, decisions |-> {}, equity |-> 0]
      /\ DOMAIN day'.rows = {}
  BY <1>1 DEF NoDay
<1>6. HeldSet' = HeldSet /\ (WarmingUp' <=> WarmingUp)
  BY <1>1, <1>3, <1>4 DEF HeldSet, Held, WarmingUp
<1>7. SessionTypeOK'
  <2>1. day' = [rows |-> day'.rows, sells |-> day'.sells, buys |-> day'.buys,
                decisions |-> day'.decisions, equity |-> day'.equity]
    BY <1>5
  <2>2. /\ book' = [cash |-> book'.cash, held |-> book'.held, marks |-> book'.marks,
                    pending |-> book'.pending, history |-> book'.history,
                    detector |-> book'.detector]
        /\ book'.cash = book.cash /\ book'.held = book.held
    BY <1>4
  <2>. QED
    BY <1>1, <1>3, <1>5, <2>1, <2>2 DEF KernelInv, SessionInv, SessionTypeOK
<1>8. ClockFits'
  <2>1. caller' = caller /\ pool' = pool /\ caller.pc = "idle" /\ ~pool.stopping
        /\ clock.date <= clock.end /\ clock.end <= run.last
    BY <1>1 DEF executorVars, KernelInv, SessionInv, ClockFits
  <2>2. WarmingUp => book'.pending = {}
    BY <1>4 DEF KernelInv, SessionInv, ClockFits
  <2>3. ~last => clock.date < clock.end
    BY <1>2, <2>1 DEF last
  <2>. QED
    BY <1>1, <1>3, <1>6, <2>1, <2>2, <2>3 DEF ClockFits
<1>9. OrdersFit'
  <2>1. day'.sells = {} /\ day'.buys = {} /\ day'.decisions = {}
    BY <1>5
  <2>. QED
    BY <1>4, <2>1 DEF KernelInv, SessionInv, OrdersFit, Orders, Unique
<1>10. DecisionsFit' /\ SlotsFit'
  BY <1>3, <1>5, <1>6 DEF KernelInv, SessionInv, DecisionsFit, SlotsFit
<1>. QED
  BY <1>1, <1>7, <1>8, <1>9, <1>10, StutterExecutor DEF KernelInv, SessionInv

-----------------------------------------------------------------------------
(* Rows are evaluated; the invariant and what follows from it.              *)

\* What a row adds to the decisions of its session.
RaisesNow(i) == ~WarmingUp /\ Raises(i)
Decided(i) == IF WarmingUp \/ Raises(i) THEN {} ELSE Admitted(i, EvaluateSignal(i, Detected(i)))

\* A row is run once, so its instrument has no decision yet.
LEMMA RowEvaluated ==
  ASSUME KernelInv, NEW t \in Threads, NEW r \in RowIds, NEW i \in Instruments,
         EvaluateRow(t, r, i)
  PROVE  /\ clock.pc = "evaluate" /\ i \in DOMAIN day.rows /\ Place(i) = r
         /\ UNCHANGED <<run, clock, gaps>>
         /\ ExecutorInv' /\ ran[r] = 0 /\ ran' = [ran EXCEPT ![r] = 1]
         /\ caller'.pc = caller.pc /\ caller'.count = caller.count /\ pool' = pool
         /\ errors' = IF RaisesNow(i) THEN errors \union {r} ELSE errors
         /\ book' = [cash |-> book.cash, held |-> book.held, marks |-> book.marks,
                     pending |-> book.pending, history |-> book.history,
                     detector |-> book'.detector]
         /\ book'.detector = [book.detector EXCEPT ![i] = Detected(i)]
         /\ day' = [rows |-> day.rows, sells |-> day.sells, buys |-> day.buys,
                    decisions |-> day'.decisions, equity |-> day.equity]
         /\ day'.decisions = day.decisions \union Decided(i)
<1> DEFINE raises == RaisesNow(i)
           new == Decided(i)
<1>1. /\ clock.pc = "evaluate" /\ i \in DOMAIN day.rows /\ Place(i) = r
      /\ RunRow(t, r, raises) /\ UNCHANGED <<run, clock, gaps>>
      /\ book' = [book EXCEPT !.detector = [book.detector EXCEPT ![i] = Detected(i)]]
      /\ day' = [day EXCEPT !.decisions = day.decisions \union new]
  <2>1. /\ clock.pc = "evaluate" /\ i \in DOMAIN day.rows /\ Place(i) = r
        /\ RunRow(t, r, raises) /\ UNCHANGED <<run, clock, gaps>>
        /\ book' = [book EXCEPT !.detector = [book.detector EXCEPT ![i] = Detected(i)]]
        /\ day' = [day EXCEPT !.decisions =
                      IF WarmingUp \/ raises THEN day.decisions
                      ELSE day.decisions \union Admitted(i, EvaluateSignal(i, Detected(i)))]
    BY DEF EvaluateRow, RaisesNow
  <2>2. CASE WarmingUp \/ raises
    BY <2>1, <2>2 DEF Decided, RaisesNow
  <2>3. CASE ~(WarmingUp \/ raises)
    BY <2>1, <2>3 DEF Decided, RaisesNow
  <2>. QED
    BY <2>2, <2>3
<1>2. raises \in BOOLEAN
  BY DEF RaisesNow, Raises
<1>4. errors' = IF raises THEN errors \union {r} ELSE errors
  BY <1>1 DEF RunRow
<1> HIDE DEF raises, new
<1>5. /\ ExecutorInv' /\ ran[r] = 0 /\ ran' = [ran EXCEPT ![r] = 1]
      /\ caller'.pc = caller.pc /\ caller'.count = caller.count /\ pool' = pool
  BY <1>1, <1>2, RunRowKeeps DEF KernelInv
<1>6. /\ day' = [rows |-> day.rows, sells |-> day.sells, buys |-> day.buys,
                 decisions |-> day'.decisions, equity |-> day.equity]
      /\ day'.decisions = day.decisions \union new
  BY <1>1 DEF KernelInv, SessionInv, SessionTypeOK
<1>7. /\ book' = [cash |-> book.cash, held |-> book.held, marks |-> book.marks,
                  pending |-> book.pending, history |-> book.history, detector |-> book'.detector]
      /\ book'.detector = [book.detector EXCEPT ![i] = Detected(i)]
  BY <1>1 DEF KernelInv, SessionInv, SessionTypeOK
<1>. QED
  BY <1>1, <1>4, <1>5, <1>6, <1>7 DEF raises, new

LEMMA RowDecides ==
  ASSUME KernelInv, NEW i \in DOMAIN day.rows
  PROVE  AtMostOne(Decided(i)) /\ \A s \in Decided(i) : s.i = i /\ s.side \in {"BUY", "SELL"}
<1>1. run.kind \in Kinds
  BY KernelAssumption DEF KernelInv, SessionInv, SessionTypeOK
<1>2. AtMostOne(Row(i).zscore)
  BY DEF KernelInv, SessionInv, SessionTypeOK
<1> DEFINE S == EvaluateSignal(i, Detected(i))
<1>3. AtMostOne(S) /\ \A s \in S : s.i = i /\ s.side \in {"BUY", "SELL"}
  BY <1>1, <1>2, OneSignal
<1> HIDE DEF S
<1>4. Decided(i) \subseteq S
  BY DEF Decided, Admitted, S
<1>. QED
  BY <1>3, <1>4 DEF AtMostOne

\* A row that has not run has decided nothing.
LEMMA OthersDecided ==
  ASSUME KernelInv, clock.pc = "evaluate", NEW i, ran[Place(i)] = 0
  PROVE  \A s \in day.decisions : Place(s.i) \in RowIds /\ ran[Place(s.i)] = 1 /\ s.i # i
<1>1. \A s \in day.decisions : Place(s.i) \in RowIds /\ ran[Place(s.i)] = 1
  BY DEF KernelInv, SessionInv, DecisionsFit
<1>. QED
  BY <1>1

LEMMA EvaluateRowKeeps ==
  ASSUME KernelInv, NEW t \in Threads, NEW r \in RowIds, NEW i \in Instruments,
         EvaluateRow(t, r, i)
  PROVE  KernelInv'
<1> DEFINE new == Decided(i)
<1>1. /\ clock.pc = "evaluate" /\ i \in DOMAIN day.rows /\ Place(i) = r
      /\ UNCHANGED <<run, clock, gaps>>
  BY RowEvaluated
<1>0. AtMostOne(new) /\ \A s \in new : s.i = i /\ s.side \in {"BUY", "SELL"}
  BY <1>1, RowDecides
<1>2. /\ ExecutorInv' /\ ran[r] = 0 /\ ran' = [ran EXCEPT ![r] = 1]
      /\ caller'.pc = caller.pc /\ pool' = pool
  BY RowEvaluated
<1>3. /\ day' = [rows |-> day.rows, sells |-> day.sells, buys |-> day.buys,
                 decisions |-> day'.decisions, equity |-> day.equity]
      /\ day'.decisions = day.decisions \union new
  BY RowEvaluated
<1>4. book' = [cash |-> book.cash, held |-> book.held, marks |-> book.marks,
               pending |-> book.pending, history |-> book.history, detector |-> book'.detector]
  BY RowEvaluated
<1>5. \A j : Place(j)' = Place(j)
  BY <1>3 DEF Place
<1>6. /\ \A s \in day.decisions : /\ Place(s.i) \in RowIds /\ ran[Place(s.i)] = 1 /\ s.i # i
                                  /\ ran'[Place(s.i)] = 1
      /\ \A s \in new : Place(s.i) \in RowIds /\ ran'[Place(s.i)] = 1
  <2>1. ran \in [RowIds -> Nat]
    BY DEF KernelInv, ExecutorInv, ExecutorTypeOK
  <2>2. \A s \in day.decisions : Place(s.i) \in RowIds /\ ran[Place(s.i)] = 1 /\ s.i # i
    BY <1>1, <1>2, OthersDecided
  <2> HIDE DEF new
  <2>. QED
    BY <1>0, <1>1, <1>2, <2>1, <2>2
<1> HIDE DEF new
<1>7. Unique(day'.decisions) /\ Orders(day'.decisions, {"SELL", "BUY"})
  <2>1. Unique(day.decisions) /\ Orders(day.decisions, {"SELL", "BUY"})
    BY DEF KernelInv, SessionInv, OrdersFit
  <2>2. \A s \in new : \A u \in new : s = u
    BY <1>0 DEF AtMostOne
  <2>. QED
    BY <1>0, <1>3, <1>6, <2>1, <2>2 DEF Unique, Orders
<1>8. HeldSet' = HeldSet /\ (WarmingUp' <=> WarmingUp)
  BY <1>1, <1>4 DEF HeldSet, Held, WarmingUp
<1>9. SessionTypeOK'
  <2>1. /\ day' = [rows |-> day'.rows, sells |-> day'.sells, buys |-> day'.buys,
                   decisions |-> day'.decisions, equity |-> day'.equity]
        /\ day'.rows = day.rows
    BY <1>3
  <2>2. /\ book' = [cash |-> book'.cash, held |-> book'.held, marks |-> book'.marks,
                    pending |-> book'.pending, history |-> book'.history,
                    detector |-> book'.detector]
        /\ book'.cash = book.cash /\ book'.held = book.held
    BY <1>4
  <2>. QED
    BY <1>1, <2>1, <2>2 DEF KernelInv, SessionInv, SessionTypeOK, Row
<1>10. ClockFits'
  BY <1>1, <1>2, <1>4, <1>8 DEF KernelInv, SessionInv, ClockFits
<1>11. OrdersFit'
  BY <1>3, <1>4, <1>7 DEF KernelInv, SessionInv, OrdersFit, Orders, Unique
<1>12. DecisionsFit'
  <2>1. \A s \in day'.decisions : Place(s.i)' \in RowIds /\ ran'[Place(s.i)'] = 1
    BY <1>3, <1>5, <1>6
  <2>2. clock'.pc = "evaluate"
    BY <1>1
  <2>. QED
    BY <2>1, <2>2 DEF DecisionsFit
<1>13. SlotsFit'
  BY <1>8 DEF KernelInv, SessionInv, SlotsFit
<1>. QED
  BY <1>2, <1>9, <1>10, <1>11, <1>12, <1>13 DEF KernelInv, SessionInv

LEMMA DestroyKeeps ==
  ASSUME KernelInv, Destroy
  PROVE  KernelInv'
<1>1. /\ clock.pc \in {"finished", "raised"} /\ Stop /\ UNCHANGED kernelVars
      /\ ran' = ran /\ caller' = caller
  BY DEF Destroy, Stop
<1>2. ExecutorInv'
  BY <1>1, StopKeeps DEF KernelInv
<1>3. /\ HeldSet' = HeldSet /\ (WarmingUp' <=> WarmingUp)
      /\ \A s : Place(s.i)' = Place(s.i)
  BY <1>1 DEF HeldSet, Held, WarmingUp, kernelVars, Place
<1>4. SessionTypeOK' /\ OrdersFit' /\ SlotsFit'
  BY <1>1, <1>3 DEF KernelInv, SessionInv, SessionTypeOK, Row, kernelVars, OrdersFit, SlotsFit
<1>5. ClockFits' /\ DecisionsFit'
  BY <1>1, <1>3 DEF KernelInv, SessionInv, ClockFits, kernelVars, DecisionsFit
<1>. QED
  BY <1>2, <1>4, <1>5 DEF KernelInv, SessionInv

LEMMA ExecutorStepKeeps ==
  ASSUME KernelInv, UNCHANGED kernelVars,
         NotifyAll \/ Wait \/ Spurious \/ \E w \in Workers : Look(w) \/ Finish(w)
  PROVE  KernelInv'
<1>1. ExecutorInv'
  BY NotifyAllKeeps, WaitKeeps, SpuriousKeeps, LookKeeps, FinishKeeps DEF KernelInv
<1>2. ran' = ran
  BY DEF NotifyAll, Wait, Spurious, Look, Finish
<1>3. pool'.stopping = pool.stopping
  <2>1. pool \in [threads : 0 .. MaxThreads, rows : 0 .. MaxRows, generation : Nat,
                  unfinished : Int, stopping : BOOLEAN]
    BY DEF KernelInv, ExecutorInv, ExecutorTypeOK
  <2>. QED
    BY <2>1 DEF NotifyAll, Wait, Spurious, Look, Finish
<1>4. caller.pc = "idle" => caller' = caller
  BY DEF NotifyAll, Wait, Spurious, Look, Finish
<1>. QED
  BY <1>1, <1>2, <1>3, <1>4, ExecutorMoves

LEMMA NextKernel == KernelInv /\ [Next]_vars => KernelInv'
<1> SUFFICES ASSUME KernelInv, [Next]_vars PROVE KernelInv'
  OBVIOUS
<1>1. CASE CallerStep
  <2>1. CASE \E end \in 1 .. run.last : Consume(end)
    BY <2>1, ConsumeKeeps
  <2>2. CASE ConsumeRejected \/ OpenSession \/ StartBuying \/ StopBuying \/ StartDecisions
             \/ DecisionsReady \/ FinishBacktest \/ Destroy
    BY <2>2, ConsumeRejectedKeeps, OpenSessionKeeps, StartBuyingKeeps, StopBuyingKeeps,
       StartDecisionsKeeps, DecisionsReadyKeeps, FinishBacktestKeeps, DestroyKeeps
  <2>3. CASE \E s \in day.sells : SellFill(s) \/ SellDropped(s)
    BY <2>3, SellFillKeeps, SellDroppedKeeps
  <2>4. CASE \E s \in day.buys : BuyFill(s) \/ BuyDropped(s)
    BY <2>4, BuyFillKeeps, BuyDroppedKeeps
  <2>5. CASE (NotifyAll \/ Wait) /\ UNCHANGED kernelVars
    BY <2>5, ExecutorStepKeeps
  <2>6. CASE \E cancelled \in BOOLEAN : CloseSession(cancelled)
    BY <2>6, CloseSessionKeeps
  <2>. QED
    BY <1>1, <2>1, <2>2, <2>3, <2>4, <2>5, <2>6 DEF CallerStep
<1>2. CASE \E w \in Workers : WorkerStep(w)
  BY <1>2, ExecutorStepKeeps DEF WorkerStep
<1>3. CASE \E t \in Threads, r \in RowIds, i \in Instruments : EvaluateRow(t, r, i)
  BY <1>3, EvaluateRowKeeps
<1>4. CASE Spurious /\ UNCHANGED kernelVars
  BY <1>4, ExecutorStepKeeps
<1>5. CASE Done \/ UNCHANGED vars
  <2>1. UNCHANGED executorVars /\ UNCHANGED kernelVars
    BY <1>5 DEF Done, vars
  <2>2. ExecutorInv' /\ ran' = ran /\ pool' = pool /\ caller' = caller
    BY <2>1, StutterExecutor DEF KernelInv, executorVars
  <2>. QED
    BY <2>1, <2>2, ExecutorMoves
<1>. QED
  BY <1>1, <1>2, <1>3, <1>4, <1>5 DEF Next

\* The rows of a call are shared by the threads and run once; the session keeps its types,
\* its clock, its orders and its slots.
THEOREM KernelHolds == Spec => []KernelInv
<1>. QED
  BY InitKernel, NextKernel, PTL DEF Spec

LEMMA RowsAreRunOnce == KernelInv => RowsOnce
<1> SUFFICES ASSUME KernelInv PROVE RowsOnce
  OBVIOUS
<1>1. \A r \in RowIds : ran[r] <= 1
  BY DEF KernelInv, ExecutorInv, RowsShared
<1>2. ASSUME caller.pc = "idle" PROVE \A w \in Workers : worker[w].pc # "run"
  BY <1>2, RunnersAreBehind DEF KernelInv, ExecutorInv, CallerFits
<1>3. ASSUME caller.pc = "idle", errors = {}, NEW r \in 1 .. caller.count PROVE ran[r] = 1
  <2>1. Unfinished = {} /\ caller.todo = {}
    BY <1>3 DEF KernelInv, ExecutorInv, CallerFits
  <2>2. \A t \in Threads : Mine(t) = {}
    <3>1. Mine(0) = {}
      BY <2>1 DEF Mine
    <3>2. \A w \in Workers : worker[w].pc # "run" /\ ~Behind(w)
      BY <1>2, <1>3, <2>1 DEF Unfinished
    <3>3. \A w \in Workers : w # 0
      BY DEF Workers
    <3>. QED
      BY <3>1, <3>2, <3>3, ThreadsAre DEF Mine
  <2>. QED
    BY <1>3, <2>2 DEF KernelInv, ExecutorInv, RowsShared
<1>. QED
  BY <1>1, <1>2, <1>3 DEF RowsOnce

\* When for_each returns every row of the session has been evaluated exactly once, unless one
\* raised, and no worker runs a row between two calls (DayParallelExecutor).
THEOREM RowsRunOnce == Spec => []RowsOnce
<1>. QED
  BY RowsAreRunOnce, KernelHolds, PTL

\* No order spends cash that is not there and no session ends with more positions than the
\* strategy allows (estimate_buy, the position sizing of support/resistance, the slots of
\* process_buys).
THEOREM StaysSolvent == Spec => []Solvent
<1>1. KernelInv => Solvent
  BY DEF KernelInv, SessionInv, SessionTypeOK, SlotsFit, Solvent
<1>. QED
  BY <1>1, KernelHolds, PTL

-----------------------------------------------------------------------------
(* The ledger a backtest shows.                                             *)

LedgerWanted == {LedgerOrder(s) : s \in Wanted}
LedgerHeld == [i \in Instruments |-> LedgerPosition(book.held[i])]

\* What the ledger sees at each place of the session.
LedgerSees ==
  /\ clock.pc \in {"idle", "open"} => LedgerPhase = "sell" /\ Wanted = book.pending
  /\ clock.pc = "sells" => LedgerPhase = "sell" /\ Wanted = day.sells \union day.buys
  /\ clock.pc = "buys" => LedgerPhase = "buy" /\ Wanted = day.buys
  /\ clock.pc \in {"ask", "evaluate", "close"} =>
       LedgerPhase = (IF WarmingUp THEN "sell" ELSE "decide") /\ Wanted = {}
  /\ clock.pc \in {"finished", "raised"} => LedgerPhase = "over" /\ Wanted = {}
  /\ WarmingUp => book.pending = {} /\ clock.offset = 0 /\ clock.pc \notin {"sells", "buys"}
  /\ clock.formal \in Nat /\ clock.offset \in Nat /\ Session \in Nat

LEMMA LedgerAt == KernelInv => LedgerSees
<1> SUFFICES ASSUME KernelInv PROVE LedgerSees
  OBVIOUS
<1>1. WarmingUp => book.pending = {} /\ clock.offset = 0 /\ clock.pc \notin {"sells", "buys"}
  BY DEF KernelInv, SessionInv, ClockFits
<1>2. clock.formal \in Nat /\ clock.offset \in Nat /\ Session \in Nat
  BY DEF KernelInv, SessionInv, SessionTypeOK, Session
<1>. QED
  BY <1>1, <1>2 DEF LedgerPhase, Wanted, LedgerSees

\* A position is held in the ledger as in the book.
LEMMA PositionsAre ==
  ASSUME KernelInv
  PROVE  /\ \A i \in Instruments : Ledger!Holds(LedgerHeld, i) <=> Held(i)
         /\ LedgerPosition(NoPosition) = Ledger!Free
         /\ LedgerHeld = [i \in Instruments |-> LedgerHeld[i]]
<1>1. \A i \in Instruments : book.held[i].entry \in Nat
  BY DEF KernelInv, SessionInv, SessionTypeOK, PositionOK
<1>2. \A p : p.qty > 0 /\ p.entry \in Nat => LedgerPosition(p).since # 0
  BY DEF LedgerPosition
<1>3. \A p : ~(p.qty > 0) => LedgerPosition(p) = Ledger!Free
  BY DEF LedgerPosition, Ledger!Free
<1>4. Ledger!Free.since = 0
  BY DEF Ledger!Free
<1>5. ~(NoPosition.qty > 0)
  BY DEF NoPosition
<1>6. \A i \in Instruments : LedgerHeld[i] # Ledger!Free <=> Held(i)
  BY <1>1, <1>2, <1>3, <1>4 DEF LedgerHeld, Held
<1>. QED
  BY <1>3, <1>5, <1>6 DEF Ledger!Holds, LedgerHeld

\* An order that is done leaves the others.
LEMMA OneLess ==
  ASSUME NEW W, Unique(W), NEW s \in W
  PROVE  {LedgerOrder(x) : x \in W \ {s}} = {LedgerOrder(x) : x \in W} \ {LedgerOrder(s)}
<1>1. \A x \in W : LedgerOrder(x) = LedgerOrder(s) => x = s
  <2>1. \A x : LedgerOrder(x).i = x.i
    BY DEF LedgerOrder
  <2>. QED
    BY <2>1 DEF Unique
<1>. QED
  BY <1>1

\* Steps the ledger does not see.
LEMMA LedgerStutters ==
  ASSUME LedgerPhase' = LedgerPhase, Session' = Session, Wanted' = Wanted,
         book'.held = book.held
  PROVE  UNCHANGED Ledger!vars
BY DEF Ledger!vars

LEMMA LedgerEnds ==
  ASSUME LedgerPhase' = "over", Session' = Session, Wanted' = {}, book'.held = book.held
  PROVE  Ledger!Next
<1>1. Ledger!Over
  BY DEF Ledger!Over
<1>. QED
  BY <1>1 DEF Ledger!Next

LEMMA InitLedger == Init => Ledger!Init
<1> SUFFICES ASSUME Init PROVE Ledger!Init
  OBVIOUS
<1>1. /\ clock.pc = "idle" /\ Session = 0 /\ book.pending = {} /\ LedgerPhase = "sell"
      /\ Wanted = {}
  BY DEF Init, Session, LedgerPhase, Wanted
<1>2. [i \in Instruments |-> LedgerPosition(book.held[i])] = [i \in Instruments |-> Ledger!Free]
  BY DEF Init, NoPosition, LedgerPosition, Ledger!Free
<1>. QED
  BY <1>1, <1>2 DEF Ledger!Init

-----------------------------------------------------------------------------
(* Fills are steps of the ledger.                                           *)

LEMMA SellInLedger ==
  ASSUME KernelInv, LedgerSees, LedgerSees', NEW s \in day.sells, SellFill(s)
  PROVE  Ledger!Next
<1>1. /\ clock.pc = "sells" /\ UNCHANGED <<run, clock>> /\ Held(s.i)
      /\ day' = [day EXCEPT !.sells = day.sells \ {s}]
      /\ book'.held = [book.held EXCEPT ![s.i] = NoPosition]
  BY DEF SellFill, KernelInv, SessionInv, SessionTypeOK
<1>2. /\ s.i \in Instruments /\ s.side = "SELL" /\ s \notin day.buys
      /\ Unique(day.sells \union day.buys)
  BY DEF KernelInv, SessionInv, OrdersFit, Orders
<1>3. day'.sells = day.sells \ {s} /\ day'.buys = day.buys
  BY <1>1 DEF KernelInv, SessionInv, SessionTypeOK
<1>4. /\ LedgerPhase = "sell" /\ LedgerPhase' = "sell" /\ Session' = Session
      /\ Wanted = day.sells \union day.buys /\ Wanted' = Wanted \ {s}
  BY <1>1, <1>2, <1>3 DEF LedgerSees, Session
<1>5. LedgerWanted' = LedgerWanted \ {LedgerOrder(s)} /\ LedgerOrder(s) \in LedgerWanted
  BY <1>2, <1>4, OneLess DEF LedgerWanted
<1>6. LedgerHeld' = [LedgerHeld EXCEPT ![s.i] = Ledger!Free]
  <2>1. book.held = [i \in Instruments |-> book.held[i]]
    BY DEF KernelInv, SessionInv, SessionTypeOK
  <2>2. \A i \in Instruments : book'.held[i] = IF i = s.i THEN NoPosition ELSE book.held[i]
    BY <1>1, <2>1
  <2>3. LedgerPosition(NoPosition) = Ledger!Free
    BY PositionsAre
  <2>4. \A i \in Instruments : LedgerPosition(book'.held[i]) =
                IF i = s.i THEN Ledger!Free ELSE LedgerPosition(book.held[i])
    BY <2>2, <2>3
  <2>. QED
    BY <1>2, <2>4 DEF LedgerHeld
<1>7. LedgerOrder(s).side = "SELL" /\ LedgerOrder(s).i = s.i /\ Ledger!Holds(LedgerHeld, s.i)
  BY <1>1, <1>2, PositionsAre DEF LedgerOrder
<1>8. Ledger!Sell
  BY <1>4, <1>5, <1>6, <1>7 DEF Ledger!Sell, LedgerWanted, LedgerHeld
<1>. QED
  BY <1>8 DEF Ledger!Next

LEMMA DropInLedger ==
  ASSUME KernelInv, LedgerSees, LedgerSees', NEW s,
         \/ s \in day.sells /\ SellDropped(s)
         \/ s \in day.buys /\ BuyDropped(s)
  PROVE  Ledger!Next
<1>1. /\ UNCHANGED <<run, clock, book>> /\ Unique(day.sells \union day.buys)
      /\ \/ clock.pc = "sells" /\ s \in day.sells /\ day' = [day EXCEPT !.sells = day.sells \ {s}]
         \/ clock.pc = "buys" /\ s \in day.buys /\ day' = [day EXCEPT !.buys = day.buys \ {s}]
  BY DEF SellDropped, BuyDropped, KernelInv, SessionInv, OrdersFit
<1>2. \A x \in day.sells : x \notin day.buys
  BY DEF KernelInv, SessionInv, OrdersFit, Orders
<1>3. \/ clock.pc = "sells" /\ day'.sells = day.sells \ {s} /\ day'.buys = day.buys
      \/ clock.pc = "buys" /\ day'.buys = day.buys \ {s}
  BY <1>1 DEF KernelInv, SessionInv, SessionTypeOK
<1>4. /\ LedgerPhase \in {"sell", "buy"} /\ LedgerPhase' = LedgerPhase /\ Session' = Session
      /\ Unique(Wanted) /\ s \in Wanted /\ Wanted' = Wanted \ {s}
  BY <1>1, <1>2, <1>3 DEF LedgerSees, Session, Unique
<1>5. LedgerWanted' = LedgerWanted \ {LedgerOrder(s)} /\ LedgerOrder(s) \in LedgerWanted
  BY <1>4, OneLess DEF LedgerWanted
<1>6. Ledger!Drop
  BY <1>1, <1>4, <1>5 DEF Ledger!Drop, LedgerWanted
<1>. QED
  BY <1>6 DEF Ledger!Next

LEMMA AdvanceInLedger ==
  ASSUME KernelInv, LedgerSees, LedgerSees', StartBuying
  PROVE  Ledger!Next
<1>1. /\ clock.pc = "sells" /\ day.sells = {} /\ UNCHANGED <<run, book>>
      /\ clock' = [clock EXCEPT !.pc = "buys"] /\ day'.buys = day.buys
      /\ \A s \in day.buys : s.side = "BUY"
  BY DEF StartBuying, KernelInv, SessionInv, SessionTypeOK, OrdersFit, Orders
<1>2. clock'.pc = "buys" /\ Session' = Session
  BY <1>1 DEF KernelInv, SessionInv, SessionTypeOK, Session
<1>3. LedgerPhase = "sell" /\ LedgerPhase' = "buy" /\ Wanted = day.buys /\ Wanted' = Wanted
  BY <1>1, <1>2 DEF LedgerSees
<1>4. Ledger!Advance
  BY <1>1, <1>2, <1>3 DEF Ledger!Advance, LedgerOrder
<1>. QED
  BY <1>4 DEF Ledger!Next

LEMMA CloseInLedger ==
  ASSUME KernelInv, LedgerSees, LedgerSees', StopBuying
  PROVE  Ledger!Next
<1>1. /\ clock.pc = "buys" /\ day.buys = {} /\ UNCHANGED <<run, book, day>>
      /\ clock' = [clock EXCEPT !.pc = "ask"]
  BY DEF StopBuying
<1>2. clock'.pc = "ask" /\ Session' = Session /\ ~WarmingUp /\ ~WarmingUp'
  BY <1>1 DEF KernelInv, SessionInv, SessionTypeOK, Session, LedgerSees, WarmingUp
<1>3. LedgerPhase = "buy" /\ LedgerPhase' = "decide" /\ Wanted = {} /\ Wanted' = {}
  BY <1>1, <1>2 DEF LedgerSees
<1>4. Ledger!Close
  BY <1>1, <1>2, <1>3 DEF Ledger!Close
<1>. QED
  BY <1>4 DEF Ledger!Next

LEMMA LedgerCounts ==
  ASSUME NEW S
  PROVE  Ledger!Cardinality(S) = Cardinality(S)
BY Zenon DEF Ledger!Cardinality, Cardinality

LEMMA BuyInLedger ==
  ASSUME KernelInv, LedgerSees, LedgerSees', NEW s \in day.buys, BuyFill(s)
  PROVE  Ledger!Next
<1> DEFINE p == book.held[s.i]
           o == Order(s)
           qty == p.qty + o.qty
           new == [qty |-> qty, avg |-> (p.qty * p.avg + o.qty * o.price) \div qty,
                   entry |-> IF p.qty > 0 THEN p.entry ELSE Session,
                   setup |-> s.setup, frozen |-> s.plan.frozen]
<1>1. /\ clock.pc = "buys" /\ UNCHANGED <<run, clock>> /\ MayBuy(s) /\ Fits(s)
      /\ day' = [day EXCEPT !.buys = day.buys \ {s}]
      /\ book'.held = [book.held EXCEPT ![s.i] = new]
  BY DEF BuyFill, KernelInv, SessionInv, SessionTypeOK
<1>2. /\ s.i \in Instruments /\ s.side = "BUY" /\ Unique(day.buys) /\ PositionOK(p)
      /\ CanTrade(s.i)
  BY <1>1 DEF KernelInv, SessionInv, SessionTypeOK, OrdersFit, Orders, Unique, MayBuy
<1>3. day'.buys = day.buys \ {s}
  BY <1>1 DEF KernelInv, SessionInv, SessionTypeOK
<1>4. /\ LedgerPhase = "buy" /\ LedgerPhase' = "buy" /\ Session' = Session
      /\ Wanted = day.buys /\ Wanted' = Wanted \ {s} /\ Session \in Nat
  BY <1>1, <1>3 DEF LedgerSees, Session
<1>5. LedgerWanted' = LedgerWanted \ {LedgerOrder(s)} /\ LedgerOrder(s) \in LedgerWanted
  BY <1>2, <1>4, OneLess DEF LedgerWanted
<1>6. new.qty > 0
  <2>1. o.qty \in Nat \ {0} /\ p.qty \in Nat
    BY <1>1, <1>2, FitsIsCovered DEF PositionOK
  <2> HIDE DEF o, p
  <2>. QED
    BY <2>1
<1>7. /\ new.entry = (IF p.qty > 0 THEN p.entry ELSE Session) /\ new.setup = s.setup
  OBVIOUS
<1> HIDE DEF new
<1>8. LedgerHeld' = [LedgerHeld EXCEPT ![s.i] = LedgerPosition(new)]
  <2>1. book.held = [i \in Instruments |-> book.held[i]]
    BY DEF KernelInv, SessionInv, SessionTypeOK
  <2>2. \A i \in Instruments : book'.held[i] = IF i = s.i THEN new ELSE book.held[i]
    BY <1>1, <2>1
  <2>. QED
    BY <1>2, <2>2 DEF LedgerHeld
<1>9. LedgerPosition(new) = [setup |-> s.setup.id, stage |-> s.setup.stage,
                             since |-> (IF p.qty > 0 THEN p.entry ELSE Session) + 1]
  BY <1>6, <1>7 DEF LedgerPosition
<1>10. /\ LedgerOrder(s).side = "BUY" /\ LedgerOrder(s).i = s.i
       /\ LedgerOrder(s).setup = s.setup.id /\ LedgerOrder(s).stage = s.setup.stage
  BY <1>2 DEF LedgerOrder
<1>11. CASE Held(s.i)
  <2>1. /\ s.setup.id # <<>> /\ s.setup.id = p.setup.id /\ s.setup.stage >= p.setup.stage
        /\ p.qty > 0 /\ Ledger!Holds(LedgerHeld, s.i)
    BY <1>1, <1>2, <1>11, PositionsAre DEF MayBuy, Held
  <2>2. LedgerHeld[s.i] = [setup |-> p.setup.id, stage |-> p.setup.stage, since |-> p.entry + 1]
    BY <1>2, <2>1 DEF LedgerHeld, LedgerPosition
  <2>3. LedgerPosition(new) = [LedgerHeld[s.i] EXCEPT !.stage = s.setup.stage]
    BY <1>9, <2>1, <2>2
  <2> DEFINE x == LedgerOrder(s)
  <2>4. /\ x \in LedgerWanted /\ x.side = "BUY" /\ Ledger!Holds(LedgerHeld, x.i)
        /\ x.setup # <<>> /\ x.setup = LedgerHeld[x.i].setup
        /\ x.stage >= LedgerHeld[x.i].stage
        /\ LedgerHeld' = [LedgerHeld EXCEPT ![x.i].stage = x.stage]
        /\ LedgerWanted' = LedgerWanted \ {x}
        /\ LedgerPhase = "buy" /\ UNCHANGED <<LedgerPhase, Session>>
    BY <1>4, <1>5, <1>8, <1>10, <2>1, <2>2, <2>3
  <2> HIDE DEF x
  <2>5. Ledger!Add
    BY Zenon, <2>4 DEF Ledger!Add, LedgerHeld, LedgerWanted
  <2>. QED
    BY <2>5 DEF Ledger!Next
<1>12. CASE ~Held(s.i)
  <2>1. /\ ~Ledger!Holds(LedgerHeld, s.i) /\ ~(p.qty > 0)
        /\ Cardinality(HeldSet) < MaxPositions
    BY <1>1, <1>2, <1>12, PositionsAre DEF MayBuy, Held
  <2>2. HeldSet = Ledger!Positions(LedgerHeld)
    BY PositionsAre DEF HeldSet, Ledger!Positions
  <2>3. LedgerPosition(new) = [setup |-> s.setup.id, stage |-> s.setup.stage, since |-> Session + 1]
    BY <1>9, <2>1
  <2> DEFINE x == LedgerOrder(s)
  <2>4. /\ x \in LedgerWanted /\ x.side = "BUY" /\ ~Ledger!Holds(LedgerHeld, x.i)
        /\ LedgerHeld' = [LedgerHeld EXCEPT ![x.i] =
                            [setup |-> x.setup, stage |-> x.stage, since |-> Session + 1]]
        /\ LedgerWanted' = LedgerWanted \ {x}
        /\ LedgerPhase = "buy" /\ UNCHANGED <<LedgerPhase, Session>>
    BY <1>4, <1>5, <1>8, <1>10, <2>1, <2>3
  <2> HIDE DEF x
  <2>5. Ledger!Cardinality(Ledger!Positions(LedgerHeld)) < MaxPositions
    BY <2>1, <2>2, LedgerCounts
  <2>6. Ledger!Open
    BY Zenon, <2>4, <2>5 DEF Ledger!Open, LedgerHeld, LedgerWanted
  <2>. QED
    BY <2>6 DEF Ledger!Next
<1>. QED
  BY <1>11, <1>12

-----------------------------------------------------------------------------
(* Sessions are steps of the ledger.                                        *)

LEMMA OpenSessionInLedger ==
  ASSUME KernelInv, KernelInv', LedgerSees, LedgerSees', OpenSession
  PROVE  Ledger!Next \/ UNCHANGED Ledger!vars
<1> DEFINE date == clock.date + 1
           formal == date >= run.start
<1>1. /\ clock.pc = "open" /\ run' = run /\ date \in 1 .. run.last
      /\ clock' = [clock EXCEPT !.date = date, !.pc = IF formal THEN "sells" ELSE "ask"]
      /\ day'.sells = {s \in book.pending : s.side = "SELL"}
      /\ day'.buys = {s \in book.pending : s.side = "BUY"}
      /\ book'.pending = book.pending
  BY SessionBegins
<1>2. /\ ~formal => book'.held = book.held
      /\ formal => \E gone \in SUBSET HeldSet :
                      book'.held = [i \in Instruments |-> IF i \in gone THEN NoPosition
                                                          ELSE SplitHeld(date)[i]]
  BY SessionBegins
<1>3. /\ clock'.pc = (IF formal THEN "sells" ELSE "ask") /\ clock'.date = date
      /\ clock'.formal = clock.formal /\ clock'.offset = clock.offset /\ Session' = Session
      /\ clock.date < date /\ clock.date \in Nat /\ date \in Nat
  <2> DEFINE pc == IF formal THEN "sells" ELSE "ask"
  <2>1. date \in Nat /\ clock' = [clock EXCEPT !.date = date, !.pc = pc]
        /\ clock.date < date /\ clock.date \in Nat
    BY <1>1 DEF KernelInv, SessionInv, SessionTypeOK
  <2> HIDE DEF date, pc
  <2>. QED
    BY <2>1 DEF KernelInv, SessionInv, SessionTypeOK, Session, pc
<1>4. run.start \in Nat
  BY KernelAssumption DEF KernelInv, SessionInv, SessionTypeOK
<1>5. (WarmingUp' <=> ~formal) /\ (~formal => WarmingUp)
  BY <1>1, <1>3, <1>4 DEF WarmingUp
<1> HIDE DEF formal
<1>6. CASE ~formal
  <2>1. LedgerPhase = "sell" /\ LedgerPhase' = "sell" /\ Wanted = {} /\ Wanted' = {}
    BY <1>1, <1>3, <1>5, <1>6 DEF LedgerSees
  <2>. QED
    BY <1>2, <1>3, <1>6, <2>1, LedgerStutters
<1>7. CASE formal
  <2>1. \A s \in book.pending : s.side \in {"SELL", "BUY"}
    BY DEF KernelInv, SessionInv, OrdersFit, Orders
  <2>2. LedgerPhase = "sell" /\ LedgerPhase' = "sell" /\ Wanted = book.pending
        /\ Wanted' = day'.sells \union day'.buys
    BY <1>1, <1>3, <1>7 DEF LedgerSees
  <2>3. Wanted' = Wanted
    BY <1>1, <2>1, <2>2
  <2> PICK gone \in SUBSET HeldSet :
             book'.held = [i \in Instruments |-> IF i \in gone THEN NoPosition
                                                 ELSE SplitHeld(date)[i]]
    BY <1>2, <1>7
  <2>4. \A i \in Instruments : LedgerPosition(SplitHeld(date)[i]) = LedgerPosition(book.held[i])
    <3>1. \A p, q : /\ p.qty > 0 <=> q.qty > 0
                    /\ p.entry = q.entry /\ p.setup = q.setup
                    => LedgerPosition(p) = LedgerPosition(q)
      BY DEF LedgerPosition
    <3>. QED
      BY <1>1, <3>1, SplitKeeps
  <2>5. LedgerPosition(NoPosition) = Ledger!Free
    BY PositionsAre
  <2>6. \A i \in Instruments :
          LedgerPosition(book'.held[i]) = IF i \in gone THEN Ledger!Free
                                          ELSE LedgerPosition(book.held[i])
    BY <2>4, <2>5
  <2>7. LedgerHeld' = [i \in Instruments |-> IF i \in gone THEN Ledger!Free ELSE LedgerHeld[i]]
    BY <2>6 DEF LedgerHeld
  <2>8. gone \in SUBSET Ledger!Positions(LedgerHeld)
    BY PositionsAre DEF Ledger!Positions, HeldSet
  <2>9. Ledger!WriteOff
    BY Zenon, <1>3, <2>2, <2>3, <2>7, <2>8 DEF Ledger!WriteOff, LedgerHeld
  <2>. QED
    BY <2>9 DEF Ledger!Next
<1>. QED
  BY <1>6, <1>7

LEMMA CloseSessionInLedger ==
  ASSUME KernelInv, KernelInv', LedgerSees, LedgerSees', NEW cancelled \in BOOLEAN,
         CloseSession(cancelled)
  PROVE  Ledger!Next \/ UNCHANGED Ledger!vars
<1> DEFINE last == clock.date = clock.end
           offset == IF WarmingUp THEN 0 ELSE clock.offset + 1
<1>1. /\ clock.pc = "close" /\ run' = run /\ (cancelled => ~WarmingUp)
      /\ clock' = IF cancelled THEN [clock EXCEPT !.pc = "raised"]
                  ELSE [clock EXCEPT !.pc = IF last THEN "idle" ELSE "open",
                                     !.offset = IF last THEN 0 ELSE offset,
                                     !.formal = IF last THEN Counted(offset) ELSE clock.formal]
      /\ book'.held = book.held
      /\ book'.pending = IF WarmingUp THEN book.pending ELSE day.decisions
  BY DEF CloseSession, KernelInv, SessionInv, SessionTypeOK
<1>2. clock.formal \in Nat /\ clock.offset \in Nat /\ offset \in Nat
      /\ Counted(offset) = clock.formal + offset
  BY DEF LedgerSees, Counted
<1>3. CASE cancelled
  <2>1. clock'.pc = "raised" /\ Session' = Session
    BY <1>1, <1>3 DEF KernelInv, SessionInv, SessionTypeOK, Session
  <2>2. LedgerPhase' = "over" /\ Wanted' = {}
    BY <2>1 DEF LedgerSees
  <2>. QED
    BY <1>1, <2>1, <2>2, LedgerEnds
<1>4. CASE ~cancelled
  <2>1. /\ clock'.pc \in {"idle", "open"} /\ clock'.date = clock.date
        /\ Session' = clock.formal + offset
    <3> HIDE DEF offset, last
    <3>1. /\ clock'.pc \in {"idle", "open"} /\ clock'.date = clock.date
          /\ clock'.formal = (IF last THEN clock.formal + offset ELSE clock.formal)
          /\ clock'.offset = (IF last THEN 0 ELSE offset)
      BY <1>1, <1>2, <1>4 DEF KernelInv, SessionInv, SessionTypeOK
    <3>. QED
      BY <1>2, <3>1 DEF Session
  <2>2. LedgerPhase' = "sell" /\ Wanted' = book'.pending
    BY <2>1 DEF LedgerSees
  <2>3. CASE WarmingUp
    <3>1. /\ LedgerPhase = "sell" /\ Wanted = {} /\ book.pending = {} /\ clock.offset = 0
      BY <1>1, <2>3 DEF LedgerSees
    <3>2. Session' = Session /\ Wanted' = Wanted
      BY <1>1, <1>2, <2>1, <2>2, <2>3, <3>1 DEF Session
    <3>. QED
      BY <1>1, <2>2, <3>1, <3>2, LedgerStutters
  <2>4. CASE ~WarmingUp
    <3>1. LedgerPhase = "decide" /\ Session' = Session + 1 /\ Wanted' = day.decisions
      BY <1>1, <1>2, <2>1, <2>2, <2>4 DEF LedgerSees, Session
    <3>2. \A s \in day.decisions : \A t \in day.decisions : s.i = t.i => s = t
      BY DEF KernelInv, SessionInv, OrdersFit, Unique
    <3>3. LedgerWanted' = {LedgerOrder(s) : s \in day.decisions}
      BY <3>1 DEF LedgerWanted
    <3>4. \A x \in LedgerWanted' : \A y \in LedgerWanted' : x.i = y.i => x = y
      <4>1. \A s : LedgerOrder(s).i = s.i
        BY DEF LedgerOrder
      <4>. QED
        BY <3>2, <3>3, <4>1
    <3>5. Ledger!Decide
      <4>1. LedgerHeld' = LedgerHeld
        BY <1>1 DEF LedgerHeld
      <4>. QED
        BY Zenon, <2>2, <3>1, <3>4, <4>1 DEF Ledger!Decide, LedgerWanted, LedgerHeld
    <3>. QED
      BY <3>5 DEF Ledger!Next
  <2>. QED
    BY <2>3, <2>4
<1>. QED
  BY <1>3, <1>4

\* Steps within a place of the session, and those between two that mean the same.
LEMMA PlaceInLedger ==
  ASSUME KernelInv, KernelInv', LedgerSees, LedgerSees', UNCHANGED <<run, book, day>>,
         NEW pc, NEW end, clock' = [clock EXCEPT !.pc = pc, !.end = end],
         \/ clock.pc \in {"idle", "ask", "evaluate", "close"} /\ pc \in {"finished", "raised"}
         \/ clock.pc \in {"idle", "open"} /\ pc \in {"idle", "open"}
         \/ clock.pc \in {"ask", "evaluate", "close"} /\ pc \in {"ask", "evaluate", "close"}
         \/ pc = clock.pc
  PROVE  Ledger!Next \/ UNCHANGED Ledger!vars
<1>1. clock'.pc = pc /\ Session' = Session /\ (WarmingUp' <=> WarmingUp)
  BY DEF KernelInv, SessionInv, SessionTypeOK, Session, WarmingUp
<1>2. CASE pc \in {"finished", "raised"} /\ pc # clock.pc
  BY <1>1, <1>2, LedgerEnds DEF LedgerSees
<1>3. CASE ~(pc \in {"finished", "raised"} /\ pc # clock.pc)
  <2>1. LedgerPhase' = LedgerPhase
    BY <1>1, <1>3 DEF LedgerPhase
  <2>2. Wanted' = Wanted
    BY <1>1, <1>3 DEF Wanted
  <2>. QED
    BY <1>1, <2>1, <2>2, LedgerStutters
<1>. QED
  BY <1>2, <1>3

-----------------------------------------------------------------------------
(* Every step is a step of the ledger, or leaves it alone.                  *)

LEMMA NextLedger ==
  ASSUME KernelInv, KernelInv', LedgerSees, LedgerSees', [Next]_vars
  PROVE  Ledger!Next \/ UNCHANGED Ledger!vars
<1> USE DEF executorVars, kernelVars
<1>1. clock = [clock EXCEPT !.pc = clock.pc, !.end = clock.end]
      /\ \A pc : [clock EXCEPT !.pc = pc] = [clock EXCEPT !.pc = pc, !.end = clock.end]
  BY DEF KernelInv, SessionInv, SessionTypeOK
<1>2. CASE UNCHANGED kernelVars
  <2>1. clock' = [clock EXCEPT !.pc = clock.pc, !.end = clock.end]
    BY <1>1, <1>2
  <2>. QED
    BY <1>2, <2>1, PlaceInLedger
<1>3. CASE \E end \in 1 .. run.last : Consume(end)
  <2> PICK end \in 1 .. run.last : Consume(end)
    BY <1>3
  <2>1. /\ clock.pc = "idle" /\ UNCHANGED <<run, book, day>>
        /\ \/ \E pc \in {"open", "raised"} : clock' = [clock EXCEPT !.pc = pc, !.end = end]
           \/ clock' = [clock EXCEPT !.pc = "raised"]
    BY DEF Consume
  <2>2. \E pc \in {"open", "raised"} : \E e : clock' = [clock EXCEPT !.pc = pc, !.end = e]
    BY <1>1, <2>1
  <2>. QED
    BY <2>1, <2>2, PlaceInLedger
<1>4. CASE ConsumeRejected \/ FinishBacktest
  <2>1. /\ clock.pc = "idle" /\ UNCHANGED <<run, book, day>>
        /\ \E pc \in {"finished", "raised"} : clock' = [clock EXCEPT !.pc = pc]
    BY <1>4 DEF ConsumeRejected, FinishBacktest
  <2>2. \E pc \in {"finished", "raised"} : clock' = [clock EXCEPT !.pc = pc, !.end = clock.end]
    BY <1>1, <2>1
  <2>. QED
    BY <2>1, <2>2, PlaceInLedger
<1>5. CASE StartDecisions
  <2>1. /\ clock.pc = "ask" /\ UNCHANGED <<run, book, day>>
        /\ \E pc \in {"evaluate", "close"} : clock' = [clock EXCEPT !.pc = pc]
    BY <1>5 DEF StartDecisions
  <2>2. \E pc \in {"evaluate", "close"} : clock' = [clock EXCEPT !.pc = pc, !.end = clock.end]
    BY <1>1, <2>1
  <2>. QED
    BY <2>1, <2>2, PlaceInLedger
<1>6. CASE DecisionsReady
  <2>1. /\ clock.pc = "evaluate" /\ UNCHANGED <<run, book, day>>
        /\ \E pc \in {"close", "raised"} : clock' = [clock EXCEPT !.pc = pc]
    BY <1>6 DEF DecisionsReady
  <2>2. \E pc \in {"close", "raised"} : clock' = [clock EXCEPT !.pc = pc, !.end = clock.end]
    BY <1>1, <2>1
  <2>. QED
    BY <2>1, <2>2, PlaceInLedger
<1>7. CASE \E t \in Threads, r \in RowIds, i \in Instruments : EvaluateRow(t, r, i)
  <2>1. /\ clock.pc = "evaluate" /\ UNCHANGED <<run, clock>>
        /\ book'.held = book.held /\ book'.pending = book.pending
    BY <1>7 DEF EvaluateRow, KernelInv, SessionInv, SessionTypeOK
  <2>2. LedgerPhase' = LedgerPhase /\ Session' = Session
    BY <2>1 DEF LedgerPhase, Session, WarmingUp
  <2>3. Wanted' = {} /\ Wanted = {}
    BY <2>1 DEF LedgerSees
  <2>. QED
    BY <2>1, <2>2, <2>3, LedgerStutters
<1>. QED
  BY <1>2, <1>3, <1>4, <1>5, <1>6, <1>7, OpenSessionInLedger, CloseSessionInLedger, SellInLedger,
     DropInLedger, AdvanceInLedger, BuyInLedger, CloseInLedger
     DEF Next, CallerStep, WorkerStep, Destroy, Done, vars

\* A decision of one session trades at the open of the next, at most once, SELL before BUY; a
\* purchase has a slot or adds to its own setup; sessions are counted across chunks, for every
\* strategy, calendar, split, gap and cancellation (consume, process_sells, process_buys).
THEOREM FillsAsPromised == Spec => FillsAtNextOpen
<1>1. KernelInv /\ KernelInv' /\ [Next]_vars => [Ledger!Next]_(Ledger!vars)
  <2>1. KernelInv => LedgerSees
    BY LedgerAt
  <2>2. KernelInv' => LedgerSees'
    BY LedgerAt, PTL
  <2>. QED
    BY <2>1, <2>2, NextLedger
<1>. QED
  BY <1>1, InitLedger, KernelHolds, PTL DEF Spec, FillsAtNextOpen, Ledger!Spec

-----------------------------------------------------------------------------
(* Bars: a detector that is fed the bars it keeps.                         *)

Less == {p \in Nat \X Nat : p[1] < p[2]}
\* Natural numbers are well ordered.
LEMMA LessWellFounded == IsWellFoundedOn(Less, Nat)
BY NatLessThanWellFounded, Zenon DEF OpToRel, Less

\* Induction over the natural numbers, of a set.
LEMMA Induct ==
  ASSUME NEW S \in SUBSET Nat, 0 \in S, \A n \in S : n + 1 \in S
  PROVE  S = Nat
<1> SUFFICES ASSUME Nat \ S # {} PROVE FALSE
  OBVIOUS
<1>1. PICK n \in Nat \ S : \A m \in Nat \ S : ~ (<<m, n>> \in Less)
  <2> DEFINE Rest == Nat \ S
  <2>1. Rest \subseteq Nat /\ Rest # {}
    OBVIOUS
  <2> HIDE DEF Rest
  <2>2. \E n \in Rest : \A m \in Rest : ~ (<<m, n>> \in Less)
    BY <2>1, LessWellFounded, WFMin
  <2>. QED
    BY <2>2 DEF Rest
<1>2. n # 0 /\ n - 1 \in Nat /\ n - 1 \in S
  <2>1. n # 0 /\ n - 1 \in Nat
    OBVIOUS
  <2>2. <<n - 1, n>> \in Less
    BY <2>1 DEF Less
  <2>. QED
    BY <1>1, <2>1, <2>2
<1>. QED
  BY <1>2

\* The patterns whose detector keeps nothing but bars.
Plain == PatternKinds \ {"double_bottom"}

Detector(bars) == [bars |-> bars, left |-> {}, right |-> {}, best |-> NoBest]

\* Bars in the order of their dates.
Dated(bars) ==
  /\ \E S : bars \in Seq(S)
  /\ \A k \in 1 .. Len(bars) : bars[k].date \in Nat
  /\ \A j, k \in 1 .. Len(bars) : j < k => bars[j].date < bars[k].date

\* A detector of bars is changed by changing its bars.
LEMMA WithBars ==
  ASSUME NEW s, NEW old, NEW bars, s = Detector(old)
  PROVE  s.bars = old /\ [s EXCEPT !.bars = bars] = Detector(bars)
BY DEF Detector

\* What a bar of a new date does to such a detector.
LEMMA AppendIs ==
  ASSUME NEW kind \in Plain, NEW bars, NEW b,
         bars = <<>> \/ Last(bars).date # b.date
  PROVE  AppendBar(kind, Detector(bars), b) =
           Detector(IF Len(Append(bars, b)) > HistoryLimit(kind) THEN Tail(Append(bars, b))
                    ELSE Append(bars, b))
<1> DEFINE s == Detector(bars)
           limit == HistoryLimit(kind)
           grown == [s EXCEPT !.bars = Append(bars, b)]
           more == Append(bars, b)
<1>1. s.bars = bars /\ grown = Detector(more) /\ grown.bars = more
  BY WithBars
<1>2. AppendBar(kind, s, b) =
        IF Len(grown.bars) > limit THEN [grown EXCEPT !.bars = Tail(grown.bars)] ELSE grown
  BY <1>1 DEF AppendBar, Plain
<1> HIDE DEF limit, grown, more, s
<1>4. [grown EXCEPT !.bars = Tail(more)] = Detector(Tail(more))
  BY <1>1, WithBars
<1>5. AppendBar(kind, s, b) = IF Len(more) > limit THEN Detector(Tail(more)) ELSE Detector(more)
  BY <1>1, <1>2, <1>4
<1>. QED
  BY <1>5 DEF limit, more, s

\* A detector that is fed bars in the order of their dates, no more than it keeps.
LEMMA ReplayIs ==
  ASSUME NEW kind \in Plain, NEW bars, Dated(bars), Len(bars) <= HistoryLimit(kind)
  PROVE  Replayed(kind, bars) = Detector(bars)
<1> DEFINE N == Len(bars)
           Is(f) == f = [k \in 0 .. N |-> IF k = 0 THEN NoDetector
                                          ELSE AppendBar(kind, f[k - 1], bars[k])]
           fed == CHOOSE f : Is(f)
           g == [k \in 0 .. N |-> Detector(SubSeq(bars, 1, k))]
           limit == HistoryLimit(kind)
<1>1. PICK S : bars \in Seq(S)
  BY DEF Dated
<1>2. N \in Nat /\ limit \in Nat
  <2>1. limit \in Nat
    BY HistoryAssumption DEF Plain
  <2>. QED
    BY <1>1, <2>1
<1>3. ASSUME NEW k \in 1 .. N
      PROVE  AppendBar(kind, Detector(SubSeq(bars, 1, k - 1)), bars[k]) = Detector(SubSeq(bars, 1, k))
  <2> DEFINE s == SubSeq(bars, 1, k - 1)
  <2>1. s \in Seq(S) /\ Len(s) = k - 1 /\ \A j \in 1 .. k - 1 : s[j] = bars[j]
    BY <1>1, <1>2, SubSeqProperties
  <2>2. s = <<>> \/ Last(s).date # bars[k].date
    <3> SUFFICES ASSUME s # <<>> PROVE Last(s).date # bars[k].date
      OBVIOUS
    <3>1. k - 1 \in 1 .. N /\ Last(s) = bars[k - 1]
      <4>1. k - 1 # 0
        BY <2>1, EmptySeq
      <4>. QED
        BY <1>2, <2>1, <4>1 DEF Last
    <3>2. bars[k - 1].date < bars[k].date /\ bars[k - 1].date \in Nat /\ bars[k].date \in Nat
      BY <1>2, <3>1 DEF Dated
    <3>. QED
      BY <3>1, <3>2
  <2>3. Append(s, bars[k]) = SubSeq(bars, 1, k) /\ Len(Append(s, bars[k])) = k
    <3>1. bars[k] \in S
      BY <1>1, <1>2
    <3>2. Append(s, bars[k]) \in Seq(S) /\ Len(Append(s, bars[k])) = k
      BY <2>1, <3>1
    <3>3. SubSeq(bars, 1, k) \in Seq(S) /\ Len(SubSeq(bars, 1, k)) = k
          /\ \A j \in 1 .. k : SubSeq(bars, 1, k)[j] = bars[j]
      BY <1>1, <1>2, SubSeqProperties
    <3>4. \A j \in 1 .. k : Append(s, bars[k])[j] = bars[j]
      BY <1>2, <2>1, <3>1
    <3> HIDE DEF s
    <3>. QED
      BY <3>2, <3>3, <3>4, SeqEqual
  <2>4. ~ (k > HistoryLimit(kind))
    BY <1>2
  <2> HIDE DEF s
  <2>5. ~ (Len(Append(s, bars[k])) > HistoryLimit(kind))
    BY <2>3, <2>4
  <2>. QED
    BY <2>2, <2>3, <2>5, AppendIs DEF s
<1>0. \A k \in 0 .. N : g[k] = Detector(SubSeq(bars, 1, k))
  OBVIOUS
<1>4. Is(g)
  <2>1. g[0] = NoDetector
    <3>1. SubSeq(bars, 1, 0) = <<>> /\ NoDetector = Detector(<<>>)
      BY SubSeqEmpty DEF NoDetector, Detector
    <3>2. 0 \in 0 .. N
      BY <1>2
    <3> HIDE DEF g
    <3>. QED
      BY <1>0, <3>1, <3>2
  <2>2. \A k \in 0 .. N : k # 0 => g[k - 1] = Detector(SubSeq(bars, 1, k - 1)) /\ k \in 1 .. N
    BY <1>2
  <2>3. \A k \in 0 .. N : g[k] = IF k = 0 THEN NoDetector ELSE AppendBar(kind, g[k - 1], bars[k])
    BY <1>3, <2>1, <2>2
  <2>4. g = [k \in 0 .. N |-> g[k]]
    OBVIOUS
  <2> HIDE DEF g
  <2>. QED
    BY <2>3, <2>4
<1>5. Is(fed)
  <2> HIDE DEF Is
  <2>. QED
    BY <1>4
<1>6. \A k \in 0 .. N : fed[k] = g[k]
  <2> DEFINE Same == {k \in Nat : k \in 0 .. N => fed[k] = g[k]}
  <2>1. \A k \in 0 .. N : fed[k] = IF k = 0 THEN NoDetector ELSE AppendBar(kind, fed[k - 1], bars[k])
    BY <1>5
  <2>2. \A k \in 0 .. N : g[k] = IF k = 0 THEN NoDetector ELSE AppendBar(kind, g[k - 1], bars[k])
    BY <1>4
  <2> HIDE DEF fed, g
  <2>3. 0 \in Same
    BY <1>2, <2>1, <2>2
  <2>4. ASSUME NEW k \in Same PROVE k + 1 \in Same
    <3> SUFFICES ASSUME k + 1 \in 0 .. N PROVE fed[k + 1] = g[k + 1]
      OBVIOUS
    <3>1. k \in 0 .. N /\ fed[k] = g[k] /\ k + 1 # 0 /\ (k + 1) - 1 = k
      BY <1>2
    <3>. QED
      BY <2>1, <2>2, <3>1
  <2>5. Same = Nat
    <3>1. Same \in SUBSET Nat
      OBVIOUS
    <3> HIDE DEF Same
    <3>. QED
      BY <2>3, <2>4, <3>1, Induct
  <2>. QED
    BY <1>2, <2>5
<1>7. Replayed(kind, bars) = fed[N]
  BY DEF Replayed
<1>8. g[N] = Detector(bars)
  <2>1. SubSeq(bars, 1, N) = bars
    BY <1>1, SubSeqFull
  <2>2. N \in 0 .. N
    BY <1>2
  <2> HIDE DEF g
  <2>. QED
    BY <1>0, <2>1, <2>2
<1>. QED
  BY <1>2, <1>6, <1>7, <1>8

\* The bars kept of an instrument replay the row of the day as they hold it.
LEMMA PreparedIs ==
  ASSUME NEW bars, NEW b, Dated(bars), bars # <<>>, Last(bars) = b
  PROVE  PreparedBars(bars, b) = bars
<1>1. PICK S : bars \in Seq(S)
  BY DEF Dated
<1>2. Len(bars) \in Nat \ {0} /\ DOMAIN bars = 1 .. Len(bars) /\ b = bars[Len(bars)]
  BY <1>1, EmptySeq DEF Last
<1>3. \A k \in DOMAIN bars : bars[k].date = b.date <=> k = Len(bars)
  <2> SUFFICES ASSUME NEW k \in 1 .. Len(bars), k # Len(bars) PROVE bars[k].date # b.date
    BY <1>2
  <2>1. k < Len(bars) /\ Len(bars) \in 1 .. Len(bars)
    <3> DEFINE n == Len(bars)
    <3>1. n \in Nat \ {0} /\ k \in 1 .. n /\ k # n
      BY <1>2
    <3> HIDE DEF n
    <3>2. k < n /\ n \in 1 .. n
      BY <3>1
    <3>. QED
      BY <3>2 DEF n
  <2>2. bars[k].date < bars[Len(bars)].date /\ bars[k].date \in Nat /\ bars[Len(bars)].date \in Nat
    BY <2>1 DEF Dated
  <2>. QED
    BY <1>2, <2>2
<1>4. [k \in DOMAIN bars |-> IF bars[k].date = b.date THEN b ELSE bars[k]] = bars
  <2>1. \A k \in DOMAIN bars : (IF bars[k].date = b.date THEN b ELSE bars[k]) = bars[k]
    BY <1>2, <1>3
  <2>2. bars = [k \in DOMAIN bars |-> bars[k]]
    BY <1>1
  <2>. QED
    BY <2>1, <2>2
<1>5. \E k \in DOMAIN bars : bars[k].date = b.date
  BY <1>2
<1>. QED
  BY <1>4, <1>5 DEF PreparedBars

\* What an appended bar makes of a detector.
LEMMA AppendDates ==
  ASSUME NEW kind \in Plain, NEW bars, NEW b, Dated(bars), Len(bars) <= HistoryLimit(kind),
         b.date \in Nat, \A k \in 1 .. Len(bars) : bars[k].date < b.date
  PROVE  \E new : /\ AppendBar(kind, Detector(bars), b) = Detector(new)
                  /\ Dated(new) /\ Len(new) <= HistoryLimit(kind) /\ new # <<>> /\ Last(new) = b
                  /\ \A k \in 1 .. Len(new) : new[k].date <= b.date
<1> DEFINE more == Append(bars, b)
           n == Len(bars)
           limit == HistoryLimit(kind)
<1>1. PICK S : bars \in Seq(S)
  BY DEF Dated
<1>2. limit \in Nat \ {0} /\ n \in Nat /\ n <= limit
  BY <1>1, HistoryAssumption DEF Plain
<1> DEFINE T == S \union {b}
<1>3. bars \in Seq(T)
  BY <1>1, SeqMonotonic
<1>4. /\ more \in Seq(T) /\ Len(more) = n + 1
      /\ \A k \in 1 .. n : more[k] = bars[k]
      /\ more[n + 1] = b
  <2>1. b \in T
    OBVIOUS
  <2> HIDE DEF T
  <2>. QED
    BY <1>3, <2>1
<1>5. \A k \in 1 .. n : bars[k].date \in Nat /\ bars[k].date < b.date
  BY DEF Dated
<1>6. \A j, k \in 1 .. n : j < k => bars[j].date < bars[k].date
  BY DEF Dated
<1>7. AppendBar(kind, Detector(bars), b) = Detector(IF Len(more) > limit THEN Tail(more) ELSE more)
  <2>1. bars = <<>> \/ Last(bars).date # b.date
    <3> SUFFICES ASSUME bars # <<>> PROVE Last(bars).date # b.date
      OBVIOUS
    <3>1. n \in 1 .. n /\ Last(bars) = bars[n]
      BY <1>1, <1>2, EmptySeq DEF Last
    <3>. QED
      BY <1>5, <3>1
  <2>. QED
    BY <2>1, AppendIs
<1> HIDE DEF more, n, limit, T
<1>8. \A k \in 1 .. n + 1 : more[k].date \in Nat /\ more[k].date <= b.date
  <2> SUFFICES ASSUME NEW k \in 1 .. n + 1 PROVE more[k].date \in Nat /\ more[k].date <= b.date
    OBVIOUS
  <2>1. CASE k = n + 1
    BY <1>4, <2>1
  <2>2. CASE k \in 1 .. n
    BY <1>4, <1>5, <2>2
  <2>. QED
    BY <1>2, <2>1, <2>2
<1>9. \A j, k \in 1 .. n + 1 : j < k => more[j].date < more[k].date
  <2> SUFFICES ASSUME NEW j \in 1 .. n + 1, NEW k \in 1 .. n + 1, j < k
               PROVE  more[j].date < more[k].date
    OBVIOUS
  <2>1. j \in 1 .. n /\ (k = n + 1 \/ k \in 1 .. n)
    BY <1>2
  <2>2. CASE k = n + 1
    BY <1>4, <1>5, <2>1, <2>2
  <2>3. CASE k \in 1 .. n
    BY <1>4, <1>6, <2>1, <2>3
  <2>. QED
    BY <2>1, <2>2, <2>3
<1>10. CASE ~(n + 1 > limit)
  <2>1. AppendBar(kind, Detector(bars), b) = Detector(more)
    BY <1>4, <1>7, <1>10
  <2>2. Dated(more)
    BY <1>4, <1>8, <1>9 DEF Dated
  <2>3. Last(more) = b /\ Len(more) <= limit /\ more # <<>>
    <3>1. Len(more) # 0
      BY <1>2, <1>4
    <3>. QED
      BY <1>2, <1>4, <1>10, <3>1, EmptySeq DEF Last
  <2>4. \A k \in 1 .. Len(more) : more[k].date <= b.date
    BY <1>4, <1>8
  <2>. QED
    BY <2>1, <2>2, <2>3, <2>4 DEF limit
<1>11. CASE n + 1 > limit
  <2> DEFINE new == Tail(more)
  <2>0. more # <<>>
    <3>1. Len(more) # 0
      BY <1>2, <1>4
    <3>. QED
      BY <3>1, EmptySeq
  <2>1. AppendBar(kind, Detector(bars), b) = Detector(new)
    BY <1>4, <1>7, <1>11
  <2>2. new \in Seq(T) /\ Len(new) = n /\ \A k \in 1 .. n : new[k] = more[k + 1]
    <3>1. new \in Seq(T) /\ Len(new) = Len(more) - 1 /\ \A k \in 1 .. Len(new) : new[k] = more[k + 1]
      BY <1>4, <2>0, HeadTailProperties
    <3>. QED
      BY <1>2, <1>4, <3>1
  <2> HIDE DEF new
  <2>3. \A k \in 1 .. n : new[k].date \in Nat /\ new[k].date <= b.date
    <3> SUFFICES ASSUME NEW k \in 1 .. n PROVE new[k].date \in Nat /\ new[k].date <= b.date
      OBVIOUS
    <3>1. k + 1 \in 1 .. n + 1
      BY <1>2
    <3>. QED
      BY <1>8, <2>2, <3>1
  <2>4. \A j, k \in 1 .. n : j < k => new[j].date < new[k].date
    <3> SUFFICES ASSUME NEW j \in 1 .. n, NEW k \in 1 .. n, j < k PROVE new[j].date < new[k].date
      OBVIOUS
    <3>1. j + 1 \in 1 .. n + 1 /\ k + 1 \in 1 .. n + 1 /\ j + 1 < k + 1
      BY <1>2
    <3>. QED
      BY <1>9, <2>2, <3>1
  <2>5. Dated(new)
    BY <2>2, <2>3, <2>4 DEF Dated
  <2>6. n # 0 /\ n = limit /\ n \in 1 .. n
    BY <1>2, <1>11
  <2>7. Last(new) = b /\ Len(new) <= limit /\ new # <<>>
    <3>1. new # <<>>
      BY <2>2, <2>6, EmptySeq
    <3>2. Last(new) = new[n] /\ new[n] = more[n + 1]
      BY <2>2, <2>6 DEF Last
    <3>. QED
      BY <1>2, <1>4, <2>2, <2>6, <3>1, <3>2
  <2>8. \A k \in 1 .. Len(new) : new[k].date <= b.date
    BY <2>2, <2>3
  <2>. QED
    BY <2>1, <2>5, <2>7, <2>8 DEF limit
<1>. QED
  BY <1>10, <1>11

\* A detector decides alike on two views of a position that agree on what it reads.
LEMMA ViewsAgree ==
  ASSUME NEW kind \in Plain, NEW s, NEW u, s.bars = u.bars, NEW p, NEW q,
         p.qty = q.qty, p.avg = q.avg, p.setup = q.setup
  PROVE  EvaluatePattern(kind, s, p) = EvaluatePattern(kind, u, q)
<1> DEFINE bars == s.bars
<1>1. \A b : (LossExit(b, p) <=> LossExit(b, q))
  BY DEF LossExit
<1>2. \A b, atr, window : (AtrExit(b, p, atr, window) <=> AtrExit(b, q, atr, window))
  BY DEF AtrExit
<1>3. PositionExit(bars, p) <=> PositionExit(bars, q)
  BY <1>1, <1>2 DEF PositionExit
<1>4. IslandExit(bars, p) <=> IslandExit(bars, q)
  BY <1>1, <1>2 DEF IslandExit
<1>5. \A i : (BearishFailure(bars, p, i) <=> BearishFailure(bars, q, i))
  BY DEF BearishFailure
<1>6. WeaknessExit(bars, p) <=> WeaknessExit(bars, q)
  BY DEF WeaknessExit
<1> HIDE DEF bars
<1>7. EvaluateIsland(bars, p) = EvaluateIsland(bars, q)
  BY <1>4 DEF EvaluateIsland
<1>8. EvaluateHeadShoulders(bars, p) = EvaluateHeadShoulders(bars, q)
  BY <1>3 DEF EvaluateHeadShoulders
<1>9. EvaluateRoundedBottom(bars, p) = EvaluateRoundedBottom(bars, q)
  BY <1>3, <1>6 DEF EvaluateRoundedBottom
<1>10. EvaluateVReversal(bars, p) = EvaluateVReversal(bars, q)
  BY <1>3, <1>5 DEF EvaluateVReversal
<1>11. s.bars = bars /\ u.bars = bars
  BY DEF bars
<1>. QED
  BY <1>7, <1>8, <1>9, <1>10, <1>11 DEF EvaluatePattern, Plain, PatternKinds

\* A BUY has a setup, a SELL none; the stages of an island are 1, 2 and 3.
LEMMA SetupsAre ==
  ASSUME NEW kind \in PatternKinds, NEW s, NEW p, NEW d \in EvaluatePattern(kind, s, p)
  PROVE  /\ d = [side |-> d.side, setup |-> d.setup] /\ d.side \in {"BUY", "SELL"}
         /\ d.side = "SELL" => d.setup = NoSetup
         /\ d.side = "BUY" /\ kind = "island_reversal" => d.setup.stage \in {1, 2, 3}
<1> DEFINE Is(S) == \A x \in S : /\ x = [side |-> x.side, setup |-> x.setup]
                                 /\ x.side \in {"BUY", "SELL"}
                                 /\ x.side = "SELL" => x.setup = NoSetup
<1>1. Is(SellPosition) /\ Is({}) /\ \A S : Is(BuySetups(S))
  BY DEF SellPosition, BuySetups
<1> HIDE DEF Is
<1>2. Is(EvaluateIsland(s.bars, p))
  BY <1>1 DEF EvaluateIsland
<1>3. Is(EvaluateDoubleBottom(s, p))
  BY <1>1 DEF EvaluateDoubleBottom
<1>4. Is(EvaluateHeadShoulders(s.bars, p))
  BY <1>1 DEF EvaluateHeadShoulders
<1>5. Is(EvaluateRoundedBottom(s.bars, p))
  BY <1>1 DEF EvaluateRoundedBottom
<1>6. Is(EvaluateVReversal(s.bars, p))
  BY <1>1 DEF EvaluateVReversal
<1>7. Is(EvaluatePattern(kind, s, p))
  BY <1>2, <1>3, <1>4, <1>5, <1>6 DEF EvaluatePattern, PatternKinds
<1>8. ASSUME d.side = "BUY", kind = "island_reversal" PROVE d.setup.stage \in {1, 2, 3}
  <2>1. d \in BuySetups(IslandSetups(s.bars))
    BY <1>8 DEF EvaluatePattern, EvaluateIsland, SellPosition
  <2>2. d.setup \in IslandSetups(s.bars)
    BY <2>1 DEF BuySetups
  <2>3. \A bars, left, low, stage : IslandSetup(bars, left, low, stage).stage = stage
    BY DEF IslandSetup, Setup, NoSetup
  <2>4. \A x \in IslandSetups(s.bars) : x.stage \in {1, 2, 3}
    <3>1. CASE Islands(s.bars) = {}
      BY <2>3, <3>1 DEF IslandSetups
    <3>2. CASE Islands(s.bars) # {}
      <4> DEFINE q == LatestIsland(s.bars)
                 stages == IF Len(s.bars) = q[2] THEN {2}
                           ELSE IF GapRetest(s.bars, q[1], q[2]) THEN {3} ELSE {}
                 F(g) == IslandSetup(s.bars, q[1], LowOf(s.bars, q[1] .. q[2] - 1), g)
      <4>1. IslandSetups(s.bars) = {F(g) : g \in stages}
        BY <3>2 DEF IslandSetups
      <4>2. \A g : F(g).stage = g
        BY <2>3
      <4>3. stages \subseteq {1, 2, 3}
        OBVIOUS
      <4> HIDE DEF F, stages
      <4>. QED
        BY <4>1, <4>2, <4>3
    <3>. QED
      BY <3>1, <3>2
  <2>. QED
    BY <2>2, <2>4
<1>. QED
  BY <1>7, <1>8 DEF Is

-----------------------------------------------------------------------------
(* Strengths. *)

\* Both implementations weigh the same components alike.
LEMMA RecordsAgree ==
  ASSUME NEW components
  PROVE  WeightedStrength(components) = StrengthRecord(components)
BY DEF WeightedStrength, StrengthRecord

\* Both implementations score a component alike.
LEMMA ComponentsAgree ==
  ASSUME NEW raw, NEW key, NEW weight, NEW gate, NEW cap
  PROVE  /\ RiseComponent(raw, key, weight, gate, cap) = Component(raw, key, weight, gate, cap)
         /\ FallComponent(raw, key, weight, gate, cap) = FallingComponent(raw, key, weight, gate, cap)
BY DEF RiseComponent, FallComponent, Component, FallingComponent

\* The strengths of a trend, of a reversion, of a breakout, of an island and of the others.
LEMMA TrendAgrees ==
  ASSUME NEW row, row.atr > 0, NEW stage
  PROVE  WeightedStrength(TrendComponents(row)) = StrengthFor("trend", stage, TrendInputs(row))
<1>1. TrendComponents(row) = IndicatorStrength("trend", TrendInputs(row))
  BY ComponentsAgree DEF TrendComponents, IndicatorStrength, TrendInputs
<1>. QED
  BY <1>1, RecordsAgree DEF StrengthFor

LEMMA ReversionAgrees ==
  ASSUME NEW z, NEW stage
  PROVE  WeightedStrength({RiseComponent([absolute_zscore |-> Abs(z)], "absolute_zscore", 100,
                                         Indicators.zscore_entry, 2 * Indicators.zscore_entry)})
           = StrengthFor("mean_reversion", stage, [absolute_zscore |-> Abs(z)])
BY ComponentsAgree, RecordsAgree DEF StrengthFor, IndicatorStrength

LEMMA MomentumAgrees ==
  ASSUME NEW row, NEW stage
  PROVE  WeightedStrength(MomentumComponents(row))
           = StrengthFor("momentum_breakout", stage,
                [return_20d |-> row.ret, volume_ratio |-> row.ratio,
                 price_extension |-> (row.close * 100) \div row.sma - 100])
<1> DEFINE raw == [return_20d |-> row.ret, volume_ratio |-> row.ratio,
                   price_extension |-> (row.close * 100) \div row.sma - 100]
<1>1. MomentumComponents(row) = IndicatorStrength("momentum_breakout", raw)
  BY ComponentsAgree DEF MomentumComponents, IndicatorStrength
<1>. QED
  BY <1>1, RecordsAgree DEF StrengthFor

LEMMA IslandAgrees ==
  ASSUME NEW raw, NEW stage \in {1, 2, 3}
  PROVE  IslandComponents(stage, raw) = IslandStrength(stage, raw)
<1>1. CASE stage = 1
  BY <1>1, ComponentsAgree DEF IslandComponents, IslandStrength
<1>2. CASE stage = 2
  BY <1>2, ComponentsAgree DEF IslandComponents, IslandStrength
<1>3. CASE stage = 3
  BY <1>3, ComponentsAgree DEF IslandComponents, IslandStrength
<1>. QED
  BY <1>1, <1>2, <1>3

LEMMA PatternAgrees ==
  ASSUME run.kind \in Plain, NEW raw, NEW stage,
         run.kind = "island_reversal" => stage \in {1, 2, 3}
  PROVE  PatternStrength(stage, raw) = StrengthFor(run.kind, stage, raw)
<1>1. CASE run.kind = "island_reversal"
  <2>1. PatternStrength(stage, raw) = WeightedStrength(IslandComponents(stage, raw))
    BY <1>1 DEF PatternStrength
  <2>2. StrengthFor(run.kind, stage, raw) = StrengthRecord(IslandStrength(stage, raw))
    BY <1>1 DEF StrengthFor
  <2>. QED
    BY <1>1, <2>1, <2>2, IslandAgrees, RecordsAgree
<1>2. CASE run.kind # "island_reversal"
  <2> DEFINE A == {RiseComponent(raw, key, 25, 0, 100) : key \in Qualities}
             B == {Component(raw, key, 25, 0, 100) : key \in Qualities}
  <2>1. A = B
    BY ComponentsAgree
  <2>2. PatternStrength(stage, raw) = WeightedStrength(A)
    BY <1>2 DEF PatternStrength, Plain, PatternKinds, Qualities
  <2>3. StrengthFor(run.kind, stage, raw) = StrengthRecord(B)
    BY <1>2 DEF StrengthFor, Plain, PatternKinds
  <2> HIDE DEF A, B
  <2>. QED
    BY <2>1, <2>2, <2>3, RecordsAgree
<1>. QED
  BY <1>1, <1>2

-----------------------------------------------------------------------------
(* The evaluation of a day says what the session says.                     *)

\* Every session is a day of the calendar, as when there were no weekends.
EverySessionADay ==
  \A k \in Runs : \A d, e \in 1 .. k.last : CalendarDay(d) - CalendarDay(e) = d - e

\* What a snapshot shows of a row and of a position.
LEMMA SnapshotIs ==
  ASSUME NEW i
  PROVE  /\ DaySnapshot(i).row = Row(i) /\ DaySnapshot(i).qty = book.held[i].qty
         /\ DaySnapshot(i).avg = book.held[i].avg /\ DaySnapshot(i).setup = book.held[i].setup
         /\ DaySnapshot(i).bars = PreparedBars(book.detector[i].bars, Bar(i))
BY DEF DaySnapshot, Snapshot

\* What both implementations say of a decision.
Said(s) == [side |-> s.side, setup |-> s.setup, score |-> s.score]
DaySaid(kind, d) ==
  [side |-> d.side, setup |-> d.setup,
   score |-> IF d.side = "BUY" THEN StrengthFor(kind, d.setup.stage, d.raw) ELSE 0]

\* The evaluation of a day, of its decisions.
LEMMA DaySignalsAre ==
  ASSUME NEW kind, NEW snap
  PROVE  DaySignalsOf(kind, snap) = {DaySaid(kind, d) : d \in EvaluateDay(kind, snap)}
BY DEF DaySignalsOf, DaySaid

\* A SELL and a BUY, as both say them.
LEMMA SellSaid ==
  ASSUME NEW i, NEW kind
  PROVE  /\ {Said(s) : s \in Sell(i)} = {[side |-> "SELL", setup |-> NoSetup, score |-> 0]}
         /\ {DaySaid(kind, d) : d \in DaySell} = {[side |-> "SELL", setup |-> NoSetup, score |-> 0]}
BY DEF Sell, Said, Signal, DaySell, DaySaid

LEMMA BuySaid ==
  ASSUME NEW i, NEW components
  PROVE  {Said(s) : s \in Buy(i, components)}
           = {[side |-> "BUY", setup |-> NoSetup, score |-> WeightedStrength(components)]}
BY DEF Buy, Said, Signal

LEMMA DayBuySaid ==
  ASSUME NEW kind, NEW raw, NEW setup
  PROVE  {DaySaid(kind, d) : d \in DayBuy(raw, setup)}
           = {[side |-> "BUY", setup |-> setup, score |-> StrengthFor(kind, setup.stage, raw)]}
BY DEF DayBuy, DaySaid

\* A stop and a profit, as both see them.
LEMMA ExitIs ==
  ASSUME NEW i
  PROVE  /\ LostPct(DaySnapshot(i)) <=> StopHit(book.held[i], Row(i))
         /\ GainedPct(DaySnapshot(i)) <=> ProfitHit(book.held[i], Row(i))
BY SnapshotIs DEF LostPct, StopHit, GainedPct, ProfitHit

\* The evaluation of a trend, in the terms of the session.
LEMMA TrendIs ==
  ASSUME NEW i
  PROVE  EvaluateTrend(DaySnapshot(i)) =
           IF TrendExit(i) THEN DaySell
           ELSE IF Row(i).ratio < Indicators.volume_multiplier \/ Row(i).cross = <<>> THEN {}
           ELSE IF CrossesUp(Row(i)) THEN DayBuy(TrendInputs(Row(i)), NoSetup)
           ELSE IF CrossesDown(Row(i)) THEN DaySell ELSE {}
<1> DEFINE snap == DaySnapshot(i)
<1>1. snap.row = Row(i) /\ snap.qty = book.held[i].qty /\ snap.avg = book.held[i].avg
  BY SnapshotIs
<1>2. LostPct(snap) <=> StopHit(book.held[i], Row(i))
  BY ExitIs
<1> HIDE DEF snap
<1>3. EvaluateTrend(snap) =
           IF TrendExit(i) THEN DaySell
           ELSE IF Row(i).ratio < Indicators.volume_multiplier \/ Row(i).cross = <<>> THEN {}
           ELSE IF CrossesUp(Row(i)) THEN DayBuy(TrendInputs(Row(i)), NoSetup)
           ELSE IF CrossesDown(Row(i)) THEN DaySell ELSE {}
  BY <1>1, <1>2 DEF EvaluateTrend, TrendExit
<1>. QED
  BY <1>3 DEF snap

\* The strategies, one by one.
LEMMA TrendSignalsAgree ==
  ASSUME NEW i, Row(i).atr \in Nat, run.kind = "trend", ~Raises(i)
  PROVE  {Said(s) : s \in TrendSignal(i)} = DaySignalsOf("trend", DaySnapshot(i))
<1> DEFINE row == Row(i)
           E == EvaluateTrend(DaySnapshot(i))
           bought == CrossesUp(row)
           dull == row.ratio < Indicators.volume_multiplier \/ row.cross = <<>>
<1>1. DaySignalsOf("trend", DaySnapshot(i)) = {DaySaid("trend", d) : d \in E}
  BY DaySignalsAre, SellSaid, BuySaid, DayBuySaid DEF EvaluateDay
<1>2. E = IF TrendExit(i) THEN DaySell ELSE IF dull THEN {}
          ELSE IF bought THEN DayBuy(TrendInputs(row), NoSetup)
          ELSE IF CrossesDown(row) THEN DaySell ELSE {}
  BY TrendIs
<1>3. TrendSignal(i) = IF TrendExit(i) THEN Sell(i) ELSE IF dull THEN {}
                       ELSE IF bought THEN Buy(i, TrendComponents(row))
                       ELSE IF CrossesDown(row) THEN Sell(i) ELSE {}
  BY DEF TrendSignal
<1>4. ASSUME ~TrendExit(i), ~dull, bought
      PROVE  WeightedStrength(TrendComponents(row)) = StrengthFor("trend", NoSetup.stage, TrendInputs(row))
  <2>1. TrendBuy(i)
    BY <1>4 DEF TrendBuy
  <2>2. row.atr > 0
    BY <2>1 DEF Raises
  <2>. QED
    BY <2>2, TrendAgrees
<1> HIDE DEF row, E, bought, dull
<1>5. CASE TrendExit(i) \/ (~dull /\ ~bought /\ CrossesDown(row))
  <2>1. TrendSignal(i) = Sell(i) /\ E = DaySell
    BY <1>2, <1>3, <1>5
  <2>. QED
    BY <1>1, <2>1, DaySignalsAre, SellSaid, BuySaid, DayBuySaid
<1>6. CASE ~TrendExit(i) /\ (dull \/ (~bought /\ ~CrossesDown(row)))
  <2>1. TrendSignal(i) = {} /\ E = {}
    BY <1>2, <1>3, <1>6
  <2>. QED
    BY <1>1, <2>1
<1>7. CASE ~TrendExit(i) /\ ~dull /\ bought
  <2>1. TrendSignal(i) = Buy(i, TrendComponents(row)) /\ E = DayBuy(TrendInputs(row), NoSetup)
    BY <1>2, <1>3, <1>7
  <2>2. {Said(s) : s \in TrendSignal(i)} =
          {[side |-> "BUY", setup |-> NoSetup, score |-> WeightedStrength(TrendComponents(row))]}
    BY <2>1, DaySignalsAre, SellSaid, BuySaid, DayBuySaid
  <2>3. {DaySaid("trend", d) : d \in E} =
          {[side |-> "BUY", setup |-> NoSetup,
            score |-> StrengthFor("trend", NoSetup.stage, TrendInputs(row))]}
    BY <2>1, DaySignalsAre, SellSaid, BuySaid, DayBuySaid
  <2>. QED
    BY <1>1, <1>4, <1>7, <2>2, <2>3
<1>. QED
  BY <1>5, <1>6, <1>7

LEMMA MomentumSignalsAgree ==
  ASSUME NEW i
  PROVE  {Said(s) : s \in MomentumSignal(i)} = DaySignalsOf("momentum_breakout", DaySnapshot(i))
<1> DEFINE snap == DaySnapshot(i)
           row == Row(i)
           p == book.held[i]
           E == EvaluateMomentum(snap)
           missing == row.sma = 0 \/ row.ratio = 0
           leave == StopHit(p, row) \/ ProfitHit(p, row) \/ row.close < row.sma
                      \/ row.ret <= Indicators.exit_return_20d
           raw == [return_20d |-> row.ret, volume_ratio |-> row.ratio,
                   price_extension |-> (row.close * 100) \div row.sma - 100]
<1>1. DaySignalsOf("momentum_breakout", snap) = {DaySaid("momentum_breakout", d) : d \in E}
  BY DaySignalsAre, SellSaid, BuySaid, DayBuySaid DEF EvaluateDay
<1>2. E = IF missing THEN {} ELSE IF p.qty > 0 THEN IF leave THEN DaySell ELSE {}
          ELSE IF Momentum(row) THEN DayBuy(raw, NoSetup) ELSE {}
  <2>1. snap.row = row /\ snap.qty = p.qty
    BY SnapshotIs
  <2>2. (LostPct(snap) <=> StopHit(p, row)) /\ (GainedPct(snap) <=> ProfitHit(p, row))
    BY ExitIs
  <2> HIDE DEF snap
  <2>. QED
    BY <2>1, <2>2 DEF EvaluateMomentum
<1>3. MomentumSignal(i) = IF missing THEN {} ELSE IF p.qty > 0 THEN IF leave THEN Sell(i) ELSE {}
                          ELSE IF Momentum(row) THEN Buy(i, MomentumComponents(row)) ELSE {}
  BY DEF MomentumSignal
<1>4. WeightedStrength(MomentumComponents(row)) = StrengthFor("momentum_breakout", NoSetup.stage, raw)
  BY MomentumAgrees
<1> HIDE DEF snap, row, p, E, missing, leave, raw
<1>5. CASE ~missing /\ p.qty > 0 /\ leave
  <2>1. MomentumSignal(i) = Sell(i) /\ E = DaySell
    BY <1>2, <1>3, <1>5
  <2>2. {Said(s) : s \in MomentumSignal(i)} = DaySignalsOf("momentum_breakout", snap)
    BY <1>1, <2>1, DaySignalsAre, SellSaid, BuySaid, DayBuySaid
  <2>. QED
    BY <2>2 DEF snap
<1>6. CASE missing \/ (p.qty > 0 /\ ~leave) \/ (~(p.qty > 0) /\ ~Momentum(row))
  <2>1. MomentumSignal(i) = {} /\ E = {}
    BY <1>2, <1>3, <1>6
  <2>. QED
    BY <1>1, <2>1 DEF snap
<1>7. CASE ~missing /\ ~(p.qty > 0) /\ Momentum(row)
  <2>1. MomentumSignal(i) = Buy(i, MomentumComponents(row)) /\ E = DayBuy(raw, NoSetup)
    BY <1>2, <1>3, <1>7
  <2>2. {Said(s) : s \in MomentumSignal(i)} =
          {[side |-> "BUY", setup |-> NoSetup, score |-> WeightedStrength(MomentumComponents(row))]}
    BY <2>1, DaySignalsAre, SellSaid, BuySaid, DayBuySaid
  <2>3. {DaySaid("momentum_breakout", d) : d \in E} =
          {[side |-> "BUY", setup |-> NoSetup,
            score |-> StrengthFor("momentum_breakout", NoSetup.stage, raw)]}
    BY <2>1, DaySignalsAre, SellSaid, BuySaid, DayBuySaid
  <2>. QED
    BY <1>1, <1>4, <2>2, <2>3 DEF snap
<1>. QED
  BY <1>5, <1>6, <1>7

\* The days of the calendar a position is held are its sessions.
LEMMA HeldSince ==
  ASSUME NEW i, EverySessionADay, run \in Runs, run.kind = "mean_reversion",
         run.start \in Nat \ {0}, run.last \in Nat, Session \in Nat,
         clock.date = run.start + Session, clock.date <= run.last,
         book.held[i].qty > 0, book.held[i].entry \in Nat, book.held[i].entry <= Session
  PROVE  DaySnapshot(i).holding = Larger(Session - book.held[i].entry, 0)
<1> DEFINE d == clock.date
           e == EntryDate(i)
           n == Session - book.held[i].entry
<1>1. d \in 1 .. run.last /\ e \in 1 .. run.last /\ d - e = n /\ n \in Nat
  BY DEF EntryDate
<1>2. CalendarDay(d) - CalendarDay(e) = n
  BY <1>1 DEF EverySessionADay
<1>3. DaySnapshot(i).holding = Max({CalendarDay(d) - CalendarDay(e), 0})
  BY DEF DaySnapshot, Snapshot, HeldDays
<1> HIDE DEF n, d, e
<1>4. Max({n, 0}) = n
  BY <1>1 DEF Max
<1>5. Larger(n, 0) = n
  BY <1>1 DEF Larger
<1>. QED
  BY <1>2, <1>3, <1>4, <1>5 DEF n

LEMMA MeanReversionSignalsAgree ==
  ASSUME NEW i, EverySessionADay, run \in Runs, run.kind = "mean_reversion",
         run.start \in Nat \ {0}, run.last \in Nat, Session \in Nat,
         clock.date = run.start + Session, clock.date <= run.last,
         book.held[i].qty > 0 => book.held[i].entry \in Nat /\ book.held[i].entry <= Session
  PROVE  {Said(s) : s \in MeanReversionSignal(i)} = DaySignalsOf("mean_reversion", DaySnapshot(i))
<1> DEFINE kind == "mean_reversion"
           snap == DaySnapshot(i)
           row == Row(i)
           p == book.held[i]
           E == EvaluateMeanReversion(snap)
           components(z) == {RiseComponent([absolute_zscore |-> Abs(z)], "absolute_zscore", 100,
                                           Indicators.zscore_entry, 2 * Indicators.zscore_entry)}
           raw(z) == [absolute_zscore |-> Abs(z)]
           overdue == /\ Indicators.max_holding_days > 0
                      /\ Larger(Session - p.entry, 0) >= Indicators.max_holding_days
           reverted == \E z \in row.zscore : z >= -Indicators.zscore_exit
           leave == p.qty > 0 /\ (StopHit(p, row) \/ ProfitHit(p, row) \/ overdue \/ reverted)
           F(z) == IF Below(z) THEN Buy(i, components(z)) ELSE IF Above(z) THEN Sell(i) ELSE {}
           G(z) == IF Below(z) THEN DayBuy(raw(z), NoSetup) ELSE IF Above(z) THEN DaySell ELSE {}
<1>1. DaySignalsOf(kind, snap) = {DaySaid(kind, d) : d \in E}
  BY DaySignalsAre DEF EvaluateDay
<1>2. E = IF leave THEN DaySell ELSE UNION {G(z) : z \in row.zscore}
  <2>1. snap.row = row /\ snap.qty = p.qty
    BY SnapshotIs
  <2>2. (LostPct(snap) <=> StopHit(p, row)) /\ (GainedPct(snap) <=> ProfitHit(p, row))
    BY ExitIs
  <2>3. p.qty > 0 => snap.holding = Larger(Session - p.entry, 0)
    BY HeldSince
  <2> HIDE DEF snap
  <2>. QED
    BY <2>1, <2>2, <2>3 DEF EvaluateMeanReversion
<1>3. MeanReversionSignal(i) = IF leave THEN Sell(i) ELSE UNION {F(z) : z \in row.zscore}
  BY DEF MeanReversionSignal
<1>4. ASSUME NEW z
      PROVE  {Said(s) : s \in F(z)} = {DaySaid(kind, d) : d \in G(z)}
  <2>1. CASE Below(z)
    <3>1. {Said(s) : s \in F(z)} =
            {[side |-> "BUY", setup |-> NoSetup, score |-> WeightedStrength(components(z))]}
      <4>1. F(z) = Buy(i, components(z))
        BY <2>1
      <4> HIDE DEF F, components
      <4>. QED
        BY <4>1, BuySaid
    <3>2. {DaySaid(kind, d) : d \in G(z)} =
            {[side |-> "BUY", setup |-> NoSetup, score |-> StrengthFor(kind, NoSetup.stage, raw(z))]}
      <4>1. G(z) = DayBuy(raw(z), NoSetup)
        BY <2>1
      <4>. QED
        BY <4>1, DayBuySaid
    <3>3. WeightedStrength(components(z)) = StrengthFor(kind, NoSetup.stage, raw(z))
      BY ReversionAgrees
    <3>. QED
      BY <3>1, <3>2, <3>3
  <2>2. CASE ~Below(z) /\ Above(z)
    <3>1. F(z) = Sell(i) /\ G(z) = DaySell
      BY <2>2
    <3>2. {Said(s) : s \in Sell(i)} = {DaySaid(kind, d) : d \in DaySell}
      BY SellSaid
    <3>. QED
      BY <3>1, <3>2
  <2>3. CASE ~Below(z) /\ ~Above(z)
    BY <2>3
  <2>. QED
    BY <2>1, <2>2, <2>3
<1> HIDE DEF snap, row, p, E, F, G, leave, kind
<1>5. CASE leave
  <2>1. MeanReversionSignal(i) = Sell(i) /\ E = DaySell
    BY <1>2, <1>3, <1>5
  <2>2. {Said(s) : s \in Sell(i)} = {DaySaid(kind, d) : d \in DaySell}
    BY SellSaid
  <2>. QED
    BY <1>1, <2>1, <2>2 DEF snap, kind
<1>6. CASE ~leave
  <2>1. MeanReversionSignal(i) = UNION {F(z) : z \in row.zscore} /\ E = UNION {G(z) : z \in row.zscore}
    BY <1>2, <1>3, <1>6
  <2>2. {Said(s) : s \in UNION {F(z) : z \in row.zscore}} =
          {DaySaid(kind, d) : d \in UNION {G(z) : z \in row.zscore}}
    <3>1. ASSUME NEW z \in row.zscore, NEW s \in F(z)
          PROVE  Said(s) \in {DaySaid(kind, d) : d \in UNION {G(y) : y \in row.zscore}}
      <4>0. Said(s) \in {DaySaid(kind, d) : d \in G(z)}
        <5>1. Said(s) \in {Said(t) : t \in F(z)}
          OBVIOUS
        <5>. QED
          BY <1>4, <5>1
      <4>1. PICK d \in G(z) : Said(s) = DaySaid(kind, d)
        BY <4>0
      <4>2. d \in UNION {G(y) : y \in row.zscore}
        OBVIOUS
      <4>. QED
        BY <4>1, <4>2
    <3>2. ASSUME NEW z \in row.zscore, NEW d \in G(z)
          PROVE  DaySaid(kind, d) \in {Said(s) : s \in UNION {F(y) : y \in row.zscore}}
      <4>0. DaySaid(kind, d) \in {Said(s) : s \in F(z)}
        <5>1. DaySaid(kind, d) \in {DaySaid(kind, t) : t \in G(z)}
          OBVIOUS
        <5>. QED
          BY <1>4, <5>1
      <4>1. PICK s \in F(z) : Said(s) = DaySaid(kind, d)
        BY <4>0
      <4>2. s \in UNION {F(y) : y \in row.zscore}
        OBVIOUS
      <4>. QED
        BY <4>1, <4>2
    <3>. QED
      BY <3>1, <3>2
  <2>. QED
    BY <1>1, <2>1, <2>2 DEF snap, kind
<1>. QED
  BY <1>5, <1>6

LEMMA PatternSignalsAgree ==
  ASSUME NEW i, run.kind \in Plain, NEW bars, book.detector[i] = Detector(bars), Dated(bars),
         Len(bars) <= HistoryLimit(run.kind), bars # <<>>, Last(bars) = Bar(i)
  PROVE  {Said(s) : s \in PatternSignal(i, book.detector[i])} = DaySignalsOf(run.kind, DaySnapshot(i))
<1> DEFINE kind == run.kind
           snap == DaySnapshot(i)
           det == book.detector[i]
           p == book.held[i]
           raw == Row(i).raw
           D == EvaluatePattern(kind, det, p)
           score(d) == IF d.side = "BUY" THEN PatternStrength(d.setup.stage, raw) ELSE 0
           F(d) == Signal(i, d.side, score(d), d.setup)
           G(d) == IF d.side = "SELL" THEN DaySell ELSE DayBuy(raw, d.setup)
<1>0. kind \in Plain /\ kind \in PatternKinds
  BY DEF Plain
<1>1. det.bars = bars /\ snap.bars = bars
  <2>1. det.bars = bars
    BY DEF Detector
  <2>. QED
    BY <2>1, SnapshotIs, PreparedIs
<1>2. Replayed(kind, snap.bars) = det
  BY <1>0, <1>1, ReplayIs
<1>3. EvaluatePattern(kind, det, snap) = D
  <2>1. snap.qty = p.qty /\ snap.avg = p.avg /\ snap.setup = p.setup
    BY SnapshotIs
  <2> HIDE DEF snap, p, det, kind, D
  <2>2. EvaluatePattern(kind, det, snap) = EvaluatePattern(kind, det, p)
    BY <1>0, <2>1, ViewsAgree
  <2>. QED
    BY <2>2 DEF D
<1>4. EvaluateDay(kind, snap) = UNION {G(d) : d \in D}
  <2>1. snap.row = Row(i)
    BY SnapshotIs
  <2> HIDE DEF snap, D, det
  <2>. QED
    BY <1>0, <1>2, <1>3, <2>1 DEF EvaluateDay, Plain, PatternKinds
<1>5. PatternSignal(i, det) = {F(d) : d \in D}
  BY DEF PatternSignal
<1>6. ASSUME NEW d \in D PROVE {Said(F(d))} = {DaySaid(kind, x) : x \in G(d)}
  <2>1. /\ d.side \in {"BUY", "SELL"}
        /\ d.side = "SELL" => d.setup = NoSetup
        /\ d.side = "BUY" /\ kind = "island_reversal" => d.setup.stage \in {1, 2, 3}
    BY <1>0, SetupsAre
  <2>2. Said(F(d)) = [side |-> d.side, setup |-> d.setup, score |-> score(d)]
    BY DEF Said, Signal
  <2>3. CASE d.side = "SELL"
    <3>1. G(d) = DaySell /\ score(d) = 0 /\ d.setup = NoSetup
      BY <2>1, <2>3
    <3>2. {DaySaid(kind, x) : x \in DaySell} = {[side |-> "SELL", setup |-> NoSetup, score |-> 0]}
      BY SellSaid
    <3> HIDE DEF F, G, score, D
    <3>. QED
      BY <2>2, <2>3, <3>1, <3>2
  <2>4. CASE d.side = "BUY"
    <3>1. G(d) = DayBuy(raw, d.setup) /\ score(d) = PatternStrength(d.setup.stage, raw)
      BY <2>4
    <3>3. PatternStrength(d.setup.stage, raw) = StrengthFor(kind, d.setup.stage, raw)
      BY <1>0, <2>1, <2>4, PatternAgrees
    <3> HIDE DEF F, G, score, D, raw, kind
    <3>2. {DaySaid(kind, x) : x \in DayBuy(raw, d.setup)} =
            {[side |-> "BUY", setup |-> d.setup, score |-> StrengthFor(kind, d.setup.stage, raw)]}
      BY DayBuySaid
    <3>. QED
      BY <2>2, <2>4, <3>1, <3>2, <3>3
  <2>. QED
    BY <2>1, <2>3, <2>4
<1>7. DaySignalsOf(kind, snap) = {DaySaid(kind, x) : x \in UNION {G(d) : d \in D}}
  BY <1>4, DaySignalsAre
<1> HIDE DEF F, G, D, snap, det, kind
<1>8. {Said(s) : s \in {F(d) : d \in D}} = {DaySaid(kind, x) : x \in UNION {G(d) : d \in D}}
  <2>1. ASSUME NEW d \in D
        PROVE  Said(F(d)) \in {DaySaid(kind, x) : x \in UNION {G(c) : c \in D}}
    <3>1. PICK x \in G(d) : Said(F(d)) = DaySaid(kind, x)
      BY <1>6
    <3>2. x \in UNION {G(c) : c \in D}
      OBVIOUS
    <3>. QED
      BY <3>1, <3>2
  <2>2. ASSUME NEW d \in D, NEW x \in G(d)
        PROVE  DaySaid(kind, x) \in {Said(s) : s \in {F(c) : c \in D}}
    <3>1. DaySaid(kind, x) = Said(F(d))
      BY <1>6
    <3>. QED
      BY <3>1
  <2>. QED
    BY <2>1, <2>2
<1>. QED
  BY <1>5, <1>7, <1>8 DEF snap, det, kind

-----------------------------------------------------------------------------
(* What a backtest has decided so far.                                     *)

\* Every strategy but those whose detectors remember more than bars.
Memoryless == run.kind \notin {"double_bottom", "support_resistance"}

\* The row of an instrument has been decided on.
Completed(i) ==
  /\ i \in DOMAIN day.rows /\ (Patterned \/ ~WarmingUp)
  /\ clock.pc = "close" \/ (clock.pc = "evaluate" /\ ran[Place(i)] = 1)

InSession == clock.pc \in {"sells", "buys", "ask", "evaluate", "close"}

\* The first date a detector may still be given.
Today == clock.date + (IF InSession THEN 0 ELSE 1)

DecisionsOf(i) == {s \in day.decisions : s.i = i}

RowsCounted == clock.pc = "evaluate" => caller.count = Cardinality(DOMAIN day.rows)

ErrorsFit ==
  errors # {} => clock.pc \in {"evaluate", "raised"} /\ \E i \in DOMAIN day.rows : Raises(i)

SessionsFit ==
  /\ clock.pc # "raised" => IF WarmingUp THEN Session = 0 ELSE Today = run.start + Session
  /\ \A i \in Instruments : Held(i) => book.held[i].entry <= Session

\* A detector keeps bars in the order of their dates, and the row of the day once it is decided on.
Keeps(i, bars) ==
  /\ book.detector[i] = Detector(bars) /\ Dated(bars) /\ Len(bars) <= HistoryLimit(run.kind)
  /\ IF Completed(i)
     THEN bars # <<>> /\ Last(bars) = Bar(i) /\ \A k \in 1 .. Len(bars) : bars[k].date <= clock.date
     ELSE \A k \in 1 .. Len(bars) : bars[k].date < Today

DetectorsFit ==
  run.kind \in Plain => /\ book.detector = [i \in Instruments |-> book.detector[i]]
                        /\ \A i \in Instruments : \E bars : Keeps(i, bars)

DecidedFit ==
  ~WarmingUp => \A i \in Instruments : \A d :
    Completed(i) /\ d = (IF run.kind \in Plain THEN book.detector[i] ELSE NoDetector) =>
      IF Raises(i) THEN errors # {} ELSE DecisionsOf(i) = Admitted(i, EvaluateSignal(i, d))

HistoryInv ==
  Memoryless => RowsCounted /\ ErrorsFit /\ SessionsFit /\ DetectorsFit /\ DecidedFit

-----------------------------------------------------------------------------

\* The rows of a session have places of their own.
LEMMA PlaceIs ==
  ASSUME KernelInv
  PROVE  /\ \A i \in DOMAIN day.rows : Place(i) \in 1 .. Cardinality(DOMAIN day.rows) /\ Place(i) \in RowIds
         /\ \A i, j \in DOMAIN day.rows : Place(i) = Place(j) => i = j
<1> DEFINE D == DOMAIN day.rows
           Upto(i) == {j \in D : j <= i}
<1>1. D \subseteq Instruments /\ IsFiniteSet(D) /\ D \subseteq Int
      /\ Cardinality(D) \in Nat /\ Cardinality(D) <= MaxRows
  <2>1. D \subseteq Instruments
    BY DEF KernelInv, SessionInv, SessionTypeOK
  <2>2. IsFiniteSet(D) /\ Cardinality(D) <= Cardinality(Instruments)
    BY <2>1, KernelAssumption, FS_Subset
  <2>3. Cardinality(D) \in Nat /\ Cardinality(Instruments) \in Nat
    BY <2>2, KernelAssumption, FS_CardinalityType
  <2>4. D \subseteq Int
    BY <2>1, HistoryAssumption
  <2>5. Cardinality(D) <= MaxRows
    BY <2>2, <2>3, KernelAssumption, ExecutorAssumption
  <2>. QED
    BY <2>1, <2>2, <2>3, <2>4, <2>5
<1>2. \A i : Place(i) = Cardinality(Upto(i))
  BY DEF Place
<1> HIDE DEF D
<1>3. ASSUME NEW i \in D PROVE Place(i) \in 1 .. Cardinality(D)
  <2>1. IsFiniteSet(Upto(i)) /\ Cardinality(Upto(i)) <= Cardinality(D)
    BY <1>1, FS_Subset
  <2>2. Cardinality(Upto(i)) \in Nat
    BY <2>1, FS_CardinalityType
  <2>3. i \in Upto(i)
    BY <1>1
  <2>4. Cardinality(Upto(i)) # 0
    BY <2>1, <2>3, FS_EmptySet
  <2>. QED
    BY <1>1, <1>2, <2>1, <2>2, <2>4
<1>4. ASSUME NEW i \in D, NEW j \in D, i < j PROVE Place(i) # Place(j)
  <2>1. IsFiniteSet(Upto(j)) /\ Upto(i) \in SUBSET Upto(j)
    <3>1. Upto(j) \in SUBSET D
      OBVIOUS
    <3>2. \A k \in D : k <= i => k <= j
      BY <1>1, <1>4
    <3>. QED
      BY <1>1, <3>1, <3>2, FS_Subset
  <2>2. j \in Upto(j) /\ j \notin Upto(i)
    BY <1>1, <1>4
  <2> HIDE DEF Upto
  <2>3. Cardinality(Upto(j)) # Cardinality(Upto(i))
    BY <2>1, <2>2, FS_Subset
  <2>. QED
    BY <1>2, <2>3
<1>5. \A i \in D : Place(i) \in RowIds
  BY <1>1, <1>3, ExecutorAssumption DEF RowIds
<1>6. ASSUME NEW i \in D, NEW j \in D, Place(i) = Place(j) PROVE i = j
  <2>1. i \in Int /\ j \in Int
    BY <1>1
  <2>2. ~(i < j) /\ ~(j < i)
    BY <1>4, <1>6
  <2>. QED
    BY <2>1, <2>2
<1>. QED
  BY <1>3, <1>5, <1>6 DEF D

\* What a row raises or decides depends on the rows, the positions and the sessions counted.
LEMMA SignalsStay ==
  ASSUME run' = run, run.kind \in Kinds, clock'.formal = clock.formal, clock'.offset = clock.offset,
         book'.held = book.held, book'.history = book.history, day'.rows = day.rows
  PROVE  /\ \A i : Raises(i)' <=> Raises(i)
         /\ \A i, d : EvaluateSignal(i, d)' = EvaluateSignal(i, d)
         /\ \A i, S : Admitted(i, S)' = Admitted(i, S)
<1>1. /\ \A i : Row(i)' = Row(i)
      /\ Session' = Session /\ (Patterned' <=> Patterned) /\ (Supported' <=> Supported)
  BY DEF Row, Session, Patterned, Supported
<1>2. \A i : TrendExit(i)' <=> TrendExit(i)
  BY <1>1 DEF TrendExit
<1>3. \A i : TrendBuy(i)' <=> TrendBuy(i)
  BY <1>1, <1>2 DEF TrendBuy
<1>4. \A i : Raises(i)' <=> Raises(i)
  BY <1>1, <1>3 DEF Raises
<1>5. \A i : TrendSignal(i)' = TrendSignal(i)
  BY <1>1, <1>2 DEF TrendSignal
<1>6. \A i : MeanReversionSignal(i)' = MeanReversionSignal(i)
  BY <1>1 DEF MeanReversionSignal
<1>7. \A i : MomentumSignal(i)' = MomentumSignal(i)
  BY <1>1 DEF MomentumSignal
<1>8. \A stage, raw : PatternStrength(stage, raw)' = PatternStrength(stage, raw)
  BY DEF PatternStrength
<1>9. \A i, d : PatternSignal(i, d)' = PatternSignal(i, d)
  BY <1>1, <1>8 DEF PatternSignal
<1>10. \A i, d : SupportSignal(i, d)' = SupportSignal(i, d)
  BY DEF SupportSignal
<1>11. ASSUME NEW i, NEW d PROVE EvaluateSignal(i, d)' = EvaluateSignal(i, d)
  <2>1. /\ run.kind = "trend" => EvaluateSignal(i, d) = TrendSignal(i)
        /\ run.kind = "mean_reversion" => EvaluateSignal(i, d) = MeanReversionSignal(i)
        /\ run.kind = "momentum_breakout" => EvaluateSignal(i, d) = MomentumSignal(i)
        /\ run.kind = "support_resistance" => EvaluateSignal(i, d) = SupportSignal(i, d)
        /\ run.kind \in PatternKinds => EvaluateSignal(i, d) = PatternSignal(i, d)
    BY DEF EvaluateSignal, Patterned, Supported, PatternKinds
  <2>2. /\ run'.kind = "trend" => EvaluateSignal(i, d)' = TrendSignal(i)'
        /\ run'.kind = "mean_reversion" => EvaluateSignal(i, d)' = MeanReversionSignal(i)'
        /\ run'.kind = "momentum_breakout" => EvaluateSignal(i, d)' = MomentumSignal(i)'
        /\ run'.kind = "support_resistance" => EvaluateSignal(i, d)' = SupportSignal(i, d)'
        /\ run'.kind \in PatternKinds => EvaluateSignal(i, d)' = PatternSignal(i, d)'
    BY DEF EvaluateSignal, Patterned, Supported, PatternKinds
  <2>. QED
    BY <1>5, <1>6, <1>7, <1>9, <1>10, <2>1, <2>2 DEF Kinds
<1>12. \A i, S : Admitted(i, S)' = Admitted(i, S)
  BY <1>1 DEF Admitted, Excluded
<1>. QED
  BY <1>4, <1>11, <1>12

\* The bars of a detector that is left alone.
LEMMA KeepsStays ==
  ASSUME KernelInv, run' = run, run.kind \in Plain, NEW i \in Instruments, NEW bars, Keeps(i, bars),
         book'.detector[i] = book.detector[i], Today' \in Nat, clock.date \in Nat,
         \/ ~Completed(i)' /\ (IF Completed(i) THEN clock.date < Today' ELSE Today <= Today')
         \/ /\ Completed(i)' /\ Completed(i)
            /\ clock'.date = clock.date /\ Bar(i)' = Bar(i)
  PROVE  Keeps(i, bars)'
<1>1. \A k \in 1 .. Len(bars) : bars[k].date \in Nat
  BY DEF Keeps, Dated
<1>2. Today \in Nat
  BY DEF Today
<1>3. CASE ~Completed(i)' /\ (IF Completed(i) THEN clock.date < Today' ELSE Today <= Today')
  <2>1. \A k \in 1 .. Len(bars) : bars[k].date < Today'
    <3>1. CASE Completed(i)
      <4>1. \A k \in 1 .. Len(bars) : bars[k].date <= clock.date
        BY <3>1 DEF Keeps
      <4>. QED
        BY <1>1, <1>3, <3>1, <4>1
    <3>2. CASE ~Completed(i)
      <4>1. \A k \in 1 .. Len(bars) : bars[k].date < Today
        BY <3>2 DEF Keeps
      <4>. QED
        BY <1>1, <1>2, <1>3, <3>2, <4>1
    <3>. QED
      BY <3>1, <3>2
  <2>. QED
    BY <1>3, <2>1 DEF Keeps
<1>4. CASE /\ Completed(i)' /\ Completed(i)
           /\ clock'.date = clock.date /\ Bar(i)' = Bar(i)
  BY <1>4 DEF Keeps
<1>. QED
  BY <1>3, <1>4

\* What the invariant of the kernel says of the clock.
LEMMA ClockIs ==
  KernelInv => /\ clock.date \in Nat /\ Today \in Nat /\ Session \in Nat
               /\ run \in Runs /\ run.start \in Nat \ {0} /\ run.last \in Nat /\ run.kind \in Kinds
               /\ clock.date <= run.last
<1> SUFFICES ASSUME KernelInv
             PROVE  /\ clock.date \in Nat /\ Today \in Nat /\ Session \in Nat
                    /\ run \in Runs /\ run.start \in Nat \ {0} /\ run.last \in Nat
                    /\ run.kind \in Kinds /\ clock.date <= run.last
  OBVIOUS
<1>1. run \in Runs /\ clock.date \in Nat /\ clock.end \in Nat /\ clock.formal \in Nat
      /\ clock.offset \in Nat /\ clock.date <= clock.end /\ clock.end <= run.last
  BY DEF KernelInv, SessionInv, SessionTypeOK, ClockFits
<1>2. run.start \in Nat \ {0} /\ run.last \in Nat /\ run.kind \in Kinds
  BY <1>1, KernelAssumption
<1>. QED
  BY <1>1, <1>2 DEF Today, Session

LEMMA TodayIs == KernelInv' => Today' \in Nat
BY DEF KernelInv, SessionInv, SessionTypeOK, Today

\* A step after which no row is decided on, and that leaves the detectors alone.
LEMMA HistoryMoves ==
  ASSUME KernelInv, KernelInv', HistoryInv, run' = run, book'.detector = book.detector,
         \A i \in Instruments : /\ ~Completed(i)'
                                /\ IF Completed(i) THEN clock.date < Today' ELSE Today <= Today',
         Memoryless => RowsCounted' /\ ErrorsFit' /\ SessionsFit'
  PROVE  HistoryInv'
<1> SUFFICES ASSUME Memoryless'
             PROVE  RowsCounted' /\ ErrorsFit' /\ SessionsFit' /\ DetectorsFit' /\ DecidedFit'
  BY DEF HistoryInv
<1>1. Memoryless
  BY DEF Memoryless
<1>2. RowsCounted' /\ ErrorsFit' /\ SessionsFit' /\ DetectorsFit
  BY <1>1 DEF HistoryInv
<1>3. DecidedFit'
  BY DEF DecidedFit
<1>4. clock.date \in Nat /\ Today' \in Nat
  BY ClockIs, TodayIs
<1>5. DetectorsFit'
  <2> SUFFICES ASSUME run.kind \in Plain
               PROVE  /\ book'.detector = [i \in Instruments |-> book'.detector[i]]
                      /\ \A i \in Instruments : \E bars : Keeps(i, bars)'
    BY DEF DetectorsFit
  <2>1. book'.detector = [i \in Instruments |-> book'.detector[i]]
    BY <1>2 DEF DetectorsFit
  <2>2. ASSUME NEW i \in Instruments PROVE \E bars : Keeps(i, bars)'
    <3>1. PICK bars : Keeps(i, bars)
      BY <1>2 DEF DetectorsFit
    <3>2. Keeps(i, bars)'
      BY <1>4, <3>1, KeepsStays
    <3>. QED
      BY <3>2
  <2>. QED
    BY <2>1, <2>2
<1>. QED
  BY <1>2, <1>3, <1>5

\* A step that leaves the kernel and what has been run alone.
LEMMA HistoryStays ==
  ASSUME KernelInv, KernelInv', HistoryInv, UNCHANGED kernelVars, ran' = ran, errors' = errors,
         caller'.count = caller.count
  PROVE  HistoryInv'
<1> SUFFICES ASSUME Memoryless'
             PROVE  RowsCounted' /\ ErrorsFit' /\ SessionsFit' /\ DetectorsFit' /\ DecidedFit'
  BY DEF HistoryInv
<1>0. run' = run /\ clock' = clock /\ book' = book /\ day' = day
  BY DEF kernelVars
<1>1. Memoryless
  BY <1>0 DEF Memoryless
<1>2. RowsCounted /\ ErrorsFit /\ SessionsFit /\ DetectorsFit /\ DecidedFit
  BY <1>1 DEF HistoryInv
<1>3. run.kind \in Kinds
  BY ClockIs
<1>4. /\ \A i : Raises(i)' <=> Raises(i)
      /\ \A i, d : EvaluateSignal(i, d)' = EvaluateSignal(i, d)
      /\ \A i, S : Admitted(i, S)' = Admitted(i, S)
  BY <1>0, <1>3, SignalsStay
<1>5. /\ \A i : Completed(i)' <=> Completed(i)
      /\ \A i : Bar(i)' = Bar(i)
      /\ \A i : DecisionsOf(i)' = DecisionsOf(i)
      /\ Today' = Today /\ (WarmingUp' <=> WarmingUp) /\ Session' = Session
  BY <1>0 DEF Completed, Place, Patterned, WarmingUp, Bar, Row, Supported, DecisionsOf, Today, InSession, Session
<1>6. RowsCounted' /\ ErrorsFit'
  BY <1>0, <1>2, <1>4 DEF RowsCounted, ErrorsFit
<1>7. SessionsFit'
  BY <1>0, <1>2, <1>5 DEF SessionsFit, Held
<1>8. DecidedFit'
  BY <1>0, <1>2, <1>4, <1>5 DEF DecidedFit
<1>9. DetectorsFit'
  <2> SUFFICES ASSUME run.kind \in Plain
               PROVE  /\ book'.detector = [i \in Instruments |-> book'.detector[i]]
                      /\ \A i \in Instruments : \E bars : Keeps(i, bars)'
    BY <1>0 DEF DetectorsFit
  <2>1. book'.detector = [i \in Instruments |-> book'.detector[i]]
    BY <1>0, <1>2 DEF DetectorsFit
  <2>2. ASSUME NEW i \in Instruments PROVE \E bars : Keeps(i, bars)'
    <3>1. PICK bars : Keeps(i, bars)
      BY <1>2 DEF DetectorsFit
    <3>2. Keeps(i, bars)'
      BY <1>0, <1>5, <3>1 DEF Keeps
    <3>. QED
      BY <3>2
  <2>. QED
    BY <2>1, <2>2
<1>. QED
  BY <1>6, <1>7, <1>8, <1>9

-----------------------------------------------------------------------------
(* The steps of a backtest keep it.                                        *)

\* Nothing has been decided when a backtest begins.
LEMMA InitHistory == Init => HistoryInv
<1> SUFFICES ASSUME Init PROVE HistoryInv
  OBVIOUS
<1>1. /\ run \in Runs /\ run.start \in Nat \ {0}
      /\ clock = [pc |-> "idle", date |-> 0, end |-> 0, formal |-> 0, offset |-> 0]
      /\ day = NoDay /\ errors = {}
  BY KernelAssumption DEF Init, ExecutorInit
<1>2. /\ book.held = [i \in Instruments |-> NoPosition]
      /\ book.detector = [i \in Instruments |->
                            IF run.kind = "support_resistance" THEN NoSymbol ELSE NoDetector]
  BY DEF Init
<1>3. \A i : ~Completed(i) /\ Today = 1 /\ WarmingUp /\ Session = 0
  BY <1>1 DEF Completed, Today, InSession, WarmingUp, Session
<1>4. RowsCounted /\ ErrorsFit /\ DecidedFit
  BY <1>1, <1>3 DEF RowsCounted, ErrorsFit, DecidedFit
<1>5. SessionsFit
  BY <1>2, <1>3 DEF SessionsFit, Held, NoPosition
<1>6. DetectorsFit
  <2> SUFFICES ASSUME run.kind \in Plain
               PROVE  /\ book.detector = [i \in Instruments |-> book.detector[i]]
                      /\ \A i \in Instruments : Keeps(i, <<>>)
    BY DEF DetectorsFit
  <2>1. book.detector = [i \in Instruments |-> NoDetector] /\ NoDetector = Detector(<<>>)
    BY <1>2 DEF Plain, PatternKinds, NoDetector, Detector
  <2>2. Dated(<<>>)
    <3>1. <<>> \in Seq(Nat)
      OBVIOUS
    <3>. QED
      BY <3>1 DEF Dated
  <2>3. Len(<<>>) = 0 /\ HistoryLimit(run.kind) \in Nat
    BY HistoryAssumption DEF Plain
  <2>. QED
    BY <1>3, <2>1, <2>2, <2>3 DEF Keeps
<1>. QED
  BY <1>4, <1>5, <1>6 DEF HistoryInv

\* Between two calls of consume.
LEMMA IdleHistory ==
  ASSUME KernelInv, KernelInv', HistoryInv, UNCHANGED <<run, book, day>>, errors' = errors,
         clock.pc = "idle", clock'.pc \in {"open", "raised", "finished"}, clock'.date = clock.date,
         clock'.formal = clock.formal, clock'.offset = clock.offset
  PROVE  HistoryInv'
<1>1. /\ Today' = Today /\ Today \in Nat /\ (WarmingUp' <=> WarmingUp) /\ Session' = Session
      /\ \A i : ~Completed(i) /\ ~Completed(i)'
  <2>1. Today \in Nat
    BY ClockIs
  <2>. QED
    BY <2>1 DEF Today, InSession, WarmingUp, Session, Completed
<1>2. ASSUME Memoryless PROVE RowsCounted' /\ ErrorsFit' /\ SessionsFit'
  <2>1. ErrorsFit /\ SessionsFit
    BY <1>2 DEF HistoryInv
  <2>2. RowsCounted'
    BY DEF RowsCounted
  <2>3. ErrorsFit'
    BY <2>1 DEF ErrorsFit
  <2>4. SessionsFit'
    BY <1>1, <2>1 DEF SessionsFit, Held
  <2>. QED
    BY <2>2, <2>3, <2>4
<1>. QED
  BY <1>1, <1>2, HistoryMoves

\* The orders of a session.
LEMMA OrdersHistory ==
  ASSUME KernelInv, KernelInv', HistoryInv, run' = run, errors' = errors,
         book'.detector = book.detector, clock.pc \in {"sells", "buys"},
         clock'.pc \in {"sells", "buys", "ask"}, clock'.date = clock.date,
         clock'.formal = clock.formal, clock'.offset = clock.offset,
         \A i \in Instruments : Held(i)' => (Held(i) /\ book'.held[i].entry = book.held[i].entry)
                                         \/ book'.held[i].entry = Session
  PROVE  HistoryInv'
<1>1. /\ Today' = Today /\ Today \in Nat /\ (WarmingUp' <=> WarmingUp)
      /\ Session' = Session /\ Session \in Nat
      /\ \A i : ~Completed(i) /\ ~Completed(i)'
  <2>1. Today \in Nat /\ Session \in Nat
    BY ClockIs
  <2>. QED
    BY <2>1 DEF Today, InSession, WarmingUp, Session, Completed
<1>2. ASSUME Memoryless PROVE RowsCounted' /\ ErrorsFit' /\ SessionsFit'
  <2>1. ErrorsFit /\ SessionsFit
    BY <1>2 DEF HistoryInv
  <2>2. RowsCounted'
    BY DEF RowsCounted
  <2>3. ErrorsFit'
    BY <2>1 DEF ErrorsFit
  <2>4. \A i \in Instruments : Held(i)' => book'.held[i].entry <= Session'
    BY <1>1, <2>1 DEF SessionsFit
  <2>5. SessionsFit'
    BY <1>1, <2>1, <2>4 DEF SessionsFit
  <2>. QED
    BY <2>2, <2>3, <2>5
<1>. QED
  BY <1>1, <1>2, HistoryMoves

\* Orders fill or are dropped.
LEMMA SellHistory ==
  ASSUME KernelInv, KernelInv', HistoryInv, NEW s \in day.sells, SellFill(s) \/ SellDropped(s)
  PROVE  HistoryInv'
<1>1. CASE SellDropped(s)
  <2>1. /\ clock.pc = "sells" /\ UNCHANGED <<run, clock, book>> /\ errors' = errors
    BY <1>1 DEF SellDropped, executorVars
  <2>2. \A i : Held(i)' => Held(i) /\ book'.held[i].entry = book.held[i].entry
    BY <2>1 DEF Held
  <2>. QED
    BY <2>1, <2>2, OrdersHistory
<1>2. CASE SellFill(s)
  <2>1. /\ clock.pc = "sells" /\ UNCHANGED <<run, clock>> /\ errors' = errors
    BY <1>2 DEF SellFill, executorVars
  <2>2. book'.detector = book.detector /\ book'.held = [book.held EXCEPT ![s.i] = NoPosition]
    <3> DEFINE price == (Row(s.i).open * (100 - run.costs.slippage)) \div 100
               notional == book.held[s.i].qty * price
               gain == Larger(notional - Commission(notional), 0)
    <3>1. book' = [book EXCEPT !.cash = book.cash + gain,
                               !.held = [book.held EXCEPT ![s.i] = NoPosition],
                               !.marks = [book.marks EXCEPT ![s.i] = 0]]
      BY <1>2 DEF SellFill
    <3> HIDE DEF gain
    <3>. QED
      BY <3>1 DEF KernelInv, SessionInv, SessionTypeOK
  <2>3. \A i \in Instruments : book'.held[i] = IF i = s.i THEN NoPosition ELSE book.held[i]
    BY <2>2 DEF KernelInv, SessionInv, SessionTypeOK
  <2>4. \A i \in Instruments : Held(i)' => Held(i) /\ book'.held[i].entry = book.held[i].entry
    BY <2>3 DEF Held, NoPosition
  <2>. QED
    BY <2>1, <2>2, <2>4, OrdersHistory
<1>. QED
  BY <1>1, <1>2

LEMMA BuyHistory ==
  ASSUME KernelInv, KernelInv', HistoryInv, NEW s \in day.buys, BuyFill(s) \/ BuyDropped(s)
  PROVE  HistoryInv'
<1>1. CASE BuyDropped(s)
  <2>1. /\ clock.pc = "buys" /\ UNCHANGED <<run, clock, book>> /\ errors' = errors
    BY <1>1 DEF BuyDropped, executorVars
  <2>2. \A i : Held(i)' => Held(i) /\ book'.held[i].entry = book.held[i].entry
    BY <2>1 DEF Held
  <2>. QED
    BY <2>1, <2>2, OrdersHistory
<1>2. CASE BuyFill(s)
  <2>1. /\ clock.pc = "buys" /\ UNCHANGED <<run, clock>> /\ errors' = errors
    BY <1>2 DEF BuyFill, executorVars
  <2>2. PICK new : /\ book'.detector = book.detector /\ book'.held = [book.held EXCEPT ![s.i] = new]
                   /\ new.entry = IF book.held[s.i].qty > 0 THEN book.held[s.i].entry ELSE Session
    <3> DEFINE o == Order(s)
               p == book.held[s.i]
               qty == p.qty + o.qty
               new == [qty |-> qty, avg |-> (p.qty * p.avg + o.qty * o.price) \div qty,
                       entry |-> IF p.qty > 0 THEN p.entry ELSE Session,
                       setup |-> s.setup, frozen |-> s.plan.frozen]
    <3>1. book' = [book EXCEPT !.cash = book.cash - CashOut(o), !.held = [book.held EXCEPT ![s.i] = new]]
      BY <1>2 DEF BuyFill
    <3>2. new.entry = IF p.qty > 0 THEN p.entry ELSE Session
      OBVIOUS
    <3> HIDE DEF new, o
    <3>3. book'.detector = book.detector /\ book'.held = [book.held EXCEPT ![s.i] = new]
      BY <3>1 DEF KernelInv, SessionInv, SessionTypeOK
    <3>. QED
      BY <3>2, <3>3
  <2>3. \A i \in Instruments : book'.held[i] = IF i = s.i THEN new ELSE book.held[i]
    BY <2>2 DEF KernelInv, SessionInv, SessionTypeOK
  <2>4. \A i \in Instruments : Held(i)' => (Held(i) /\ book'.held[i].entry = book.held[i].entry)
                                           \/ book'.held[i].entry = Session
    BY <2>2, <2>3 DEF Held
  <2>. QED
    BY <2>1, <2>2, <2>4, OrdersHistory
<1>. QED
  BY <1>1, <1>2

LEMMA BuyingHistory ==
  ASSUME KernelInv, KernelInv', HistoryInv, StartBuying \/ StopBuying
  PROVE  HistoryInv'
<1>1. /\ clock.pc \in {"sells", "buys"} /\ UNCHANGED <<run, book>> /\ errors' = errors
      /\ \E pc \in {"buys", "ask"} : clock' = [clock EXCEPT !.pc = pc]
  BY DEF StartBuying, StopBuying, executorVars
<1>2. /\ clock'.pc \in {"sells", "buys", "ask"} /\ clock'.date = clock.date
      /\ clock'.formal = clock.formal /\ clock'.offset = clock.offset
  BY <1>1 DEF KernelInv, SessionInv, SessionTypeOK
<1>3. \A i : Held(i)' => Held(i) /\ book'.held[i].entry = book.held[i].entry
  BY <1>1 DEF Held
<1>. QED
  BY <1>1, <1>2, <1>3, OrdersHistory

\* A chunk begins, is rejected, or was the last.
LEMMA ChunkHistory ==
  ASSUME KernelInv, KernelInv', HistoryInv,
         (\E end \in 1 .. run.last : Consume(end)) \/ ConsumeRejected \/ FinishBacktest
  PROVE  HistoryInv'
<1>1. /\ clock.pc = "idle" /\ UNCHANGED <<run, book, day>> /\ errors' = errors
      /\ \E pc \in {"open", "raised", "finished"} : \E end :
            clock' = [clock EXCEPT !.pc = pc, !.end = end] \/ clock' = [clock EXCEPT !.pc = pc]
  <2>1. CASE \E end \in 1 .. run.last : Consume(end)
    <3> PICK end \in 1 .. run.last : Consume(end)
      BY <2>1
    <3>1. clock.pc = "idle" /\ UNCHANGED <<run, book, day>>
      BY DEF Consume
    <3>2. errors' = errors
      BY DEF Consume, CreateExecutor, executorVars
    <3>3. \E pc \in {"open", "raised", "finished"} : \E e :
            clock' = [clock EXCEPT !.pc = pc, !.end = e] \/ clock' = [clock EXCEPT !.pc = pc]
      BY DEF Consume
    <3>. QED
      BY <3>1, <3>2, <3>3
  <2>2. CASE ConsumeRejected \/ FinishBacktest
    BY <2>2 DEF ConsumeRejected, FinishBacktest, executorVars
  <2>. QED
    BY <2>1, <2>2
<1>2. /\ clock'.pc \in {"open", "raised", "finished"} /\ clock'.date = clock.date
      /\ clock'.formal = clock.formal /\ clock'.offset = clock.offset
  BY <1>1 DEF KernelInv, SessionInv, SessionTypeOK
<1>. QED
  BY <1>1, <1>2, IdleHistory

\* A session begins: splits move no date a position was entered on.
LEMMA OpenHistory ==
  ASSUME KernelInv, KernelInv', HistoryInv, OpenSession
  PROVE  HistoryInv'
<1> DEFINE date == clock.date + 1
           formal == date >= run.start
<1>1. /\ clock.pc = "open" /\ UNCHANGED executorVars /\ run' = run
      /\ clock' = [clock EXCEPT !.date = date, !.pc = IF formal THEN "sells" ELSE "ask"]
      /\ book' = [cash |-> book.cash, held |-> book'.held, marks |-> book'.marks,
                  pending |-> book.pending, history |-> book'.history,
                  detector |-> book.detector]
  BY SessionBegins
<1>2. /\ date \in 1 .. run.last
      /\ ~formal => book'.held = book.held
      /\ formal => \E gone \in SUBSET HeldSet :
                      book'.held = [i \in Instruments |-> IF i \in gone THEN NoPosition
                                                          ELSE SplitHeld(date)[i]]
  BY SessionBegins
<1>3. /\ clock.date \in Nat /\ clock.formal \in Nat /\ clock.offset \in Nat /\ run.start \in Nat \ {0}
  BY ClockIs DEF KernelInv, SessionInv, SessionTypeOK
<1>4. /\ clock'.date = date /\ clock'.pc \in {"sells", "ask"}
      /\ clock'.formal = clock.formal /\ clock'.offset = clock.offset
  BY <1>1 DEF KernelInv, SessionInv, SessionTypeOK
<1>5. book'.detector = book.detector
  BY <1>1
<1>6. /\ Today = date /\ Today' = date /\ Session' = Session /\ Session \in Nat
      /\ (WarmingUp' <=> ~formal) /\ (WarmingUp' => WarmingUp)
      /\ \A i : ~Completed(i) /\ ~Completed(i)'
  BY <1>1, <1>3, <1>4 DEF Today, InSession, WarmingUp, Session, Completed
<1>7. ASSUME NEW i \in Instruments, Held(i)' PROVE Held(i) /\ book'.held[i].entry = book.held[i].entry
  <2>1. CASE ~formal
    BY <1>2, <1>7, <2>1 DEF Held
  <2>2. CASE formal
    <3> PICK gone \in SUBSET HeldSet :
               book'.held = [j \in Instruments |-> IF j \in gone THEN NoPosition
                                                   ELSE SplitHeld(date)[j]]
      BY <1>2, <2>2
    <3>1. /\ SplitHeld(date)[i].qty > 0 <=> book.held[i].qty > 0
          /\ SplitHeld(date)[i].entry = book.held[i].entry
      BY <1>2, SplitKeeps
    <3>2. book'.held[i] = IF i \in gone THEN NoPosition ELSE SplitHeld(date)[i]
      OBVIOUS
    <3>. QED
      BY <1>7, <3>1, <3>2 DEF Held, NoPosition
  <2>. QED
    BY <2>1, <2>2
<1> HIDE DEF date, formal
<1>8. ASSUME Memoryless PROVE RowsCounted' /\ ErrorsFit' /\ SessionsFit'
  <2>1. ErrorsFit /\ SessionsFit
    BY <1>8 DEF HistoryInv
  <2>2. RowsCounted'
    BY <1>4 DEF RowsCounted
  <2>3. ErrorsFit'
    BY <1>1, <2>1 DEF ErrorsFit, executorVars
  <2>4. IF WarmingUp' THEN Session' = 0 ELSE Today' = run.start + Session'
    <3>1. CASE WarmingUp'
      BY <1>1, <1>6, <2>1, <3>1 DEF SessionsFit
    <3>2. CASE ~WarmingUp' /\ ~WarmingUp
      BY <1>1, <1>6, <2>1, <3>2 DEF SessionsFit
    <3>3. CASE ~WarmingUp' /\ WarmingUp
      <4>1. Session = 0
        BY <1>1, <2>1, <3>3 DEF SessionsFit
      <4>2. date = run.start
        BY <1>3, <1>6, <3>3 DEF WarmingUp, date, formal
      <4>. QED
        BY <1>3, <1>6, <3>3, <4>1, <4>2
    <3>. QED
      BY <3>1, <3>2, <3>3
  <2>5. \A i \in Instruments : Held(i)' => book'.held[i].entry <= Session'
    BY <1>6, <1>7, <2>1 DEF SessionsFit
  <2>6. SessionsFit'
    BY <1>1, <2>4, <2>5 DEF SessionsFit
  <2>. QED
    BY <2>2, <2>3, <2>6
<1>9. Today <= Today'
  <2>1. Today \in Nat
    BY ClockIs
  <2>. QED
    BY <1>6, <2>1
<1>. QED
  BY <1>1, <1>5, <1>6, <1>8, <1>9, HistoryMoves

\* A session ends, and the next date is the first a detector may be given.
LEMMA CloseHistory ==
  ASSUME KernelInv, KernelInv', HistoryInv, NEW cancelled \in BOOLEAN, CloseSession(cancelled)
  PROVE  HistoryInv'
<1> DEFINE last == clock.date = clock.end
           offset == IF WarmingUp THEN 0 ELSE clock.offset + 1
<1>1. /\ clock.pc = "close" /\ UNCHANGED executorVars /\ run' = run /\ day' = NoDay
      /\ clock' = IF cancelled THEN [clock EXCEPT !.pc = "raised"]
                  ELSE [clock EXCEPT !.pc = IF last THEN "idle" ELSE "open",
                                     !.offset = IF last THEN 0 ELSE offset,
                                     !.formal = IF last THEN Counted(offset) ELSE clock.formal]
      /\ book' = IF WarmingUp THEN book
                 ELSE [book EXCEPT
                   !.pending = day.decisions,
                   !.marks = [i \in Instruments |->
                      IF Held(i) /\ HasRow(i) THEN Row(i).close ELSE book.marks[i]]]
  BY DEF CloseSession
<1>2. clock.formal \in Nat /\ clock.offset \in Nat /\ clock.date \in Nat /\ run.start \in Nat \ {0}
      /\ (WarmingUp => clock.offset = 0)
  BY ClockIs DEF KernelInv, SessionInv, SessionTypeOK, ClockFits
<1>3. book'.detector = book.detector /\ book'.held = book.held
  BY <1>1 DEF KernelInv, SessionInv, SessionTypeOK
<1>4. /\ clock'.pc \in {"idle", "open", "raised"} /\ clock'.date = clock.date
      /\ clock'.pc = "raised" \/ Session' = Session + (IF WarmingUp THEN 0 ELSE 1)
      /\ Session <= Session' /\ Session \in Nat /\ Session' \in Nat
  <2>1. CASE cancelled
    <3>1. /\ clock'.pc = "raised" /\ clock'.date = clock.date /\ clock'.formal = clock.formal
          /\ clock'.offset = clock.offset
      BY <1>1, <2>1 DEF KernelInv, SessionInv, SessionTypeOK
    <3>. QED
      BY <1>2, <3>1 DEF Session
  <2>2. CASE ~cancelled /\ last
    <3>1. /\ clock'.pc = "idle" /\ clock'.date = clock.date /\ clock'.formal = clock.formal + offset
          /\ clock'.offset = 0
      BY <1>1, <2>2 DEF KernelInv, SessionInv, SessionTypeOK, Counted
    <3>. QED
      BY <1>2, <3>1 DEF Session
  <2>3. CASE ~cancelled /\ ~last
    <3>1. /\ clock'.pc = "open" /\ clock'.date = clock.date /\ clock'.formal = clock.formal
          /\ clock'.offset = offset
      BY <1>1, <2>3 DEF KernelInv, SessionInv, SessionTypeOK
    <3>. QED
      BY <1>2, <3>1 DEF Session
  <2>. QED
    BY <2>1, <2>2, <2>3
<1> HIDE DEF last, offset
<1>5. /\ Today = clock.date /\ Today' = clock.date + 1 /\ (WarmingUp' <=> WarmingUp)
      /\ \A i : ~Completed(i)'
  BY <1>1, <1>2, <1>4 DEF Today, InSession, WarmingUp, Completed
<1>6. ASSUME Memoryless PROVE RowsCounted' /\ ErrorsFit' /\ SessionsFit'
  <2>1. ErrorsFit /\ SessionsFit
    BY <1>6 DEF HistoryInv
  <2>2. RowsCounted'
    BY <1>4 DEF RowsCounted
  <2>3. ErrorsFit'
    BY <1>1, <2>1 DEF ErrorsFit, executorVars
  <2>4. clock'.pc # "raised" => IF WarmingUp' THEN Session' = 0 ELSE Today' = run.start + Session'
    BY <1>1, <1>2, <1>4, <1>5, <2>1 DEF SessionsFit
  <2>5. \A i \in Instruments : Held(i)' => book'.held[i].entry <= Session'
    <3> SUFFICES ASSUME NEW i \in Instruments, Held(i)' PROVE book'.held[i].entry <= Session'
      OBVIOUS
    <3>1. book.held[i].entry <= Session /\ book.held[i].entry \in Nat /\ book'.held[i] = book.held[i]
      BY <1>3, <2>1 DEF SessionsFit, Held, KernelInv, SessionInv, SessionTypeOK, PositionOK
    <3>. QED
      BY <1>4, <3>1
  <2>6. SessionsFit'
    BY <1>1, <2>4, <2>5 DEF SessionsFit
  <2>. QED
    BY <2>2, <2>3, <2>6
<1>7. clock.date < Today' /\ Today <= Today'
  BY <1>2, <1>5
<1>. QED
  BY <1>1, <1>3, <1>5, <1>6, <1>7, HistoryMoves

\* No row of the session has been decided on when its rows are handed to the threads.
LEMMA StartHistory ==
  ASSUME KernelInv, KernelInv', HistoryInv, StartDecisions
  PROVE  HistoryInv'
<1>1. /\ clock.pc = "ask" /\ UNCHANGED <<run, book, day>>
      /\ \/ /\ clock' = [clock EXCEPT !.pc = "evaluate"]
            /\ ForEach(Cardinality(DOMAIN day.rows))
         \/ /\ clock' = [clock EXCEPT !.pc = "close"] /\ ~Patterned /\ WarmingUp
            /\ UNCHANGED executorVars
  BY DEF StartDecisions
<1>2. /\ clock'.pc \in {"evaluate", "close"} /\ clock'.date = clock.date
      /\ clock'.formal = clock.formal /\ clock'.offset = clock.offset
  BY <1>1 DEF KernelInv, SessionInv, SessionTypeOK
<1>3. /\ Today' = Today /\ Today \in Nat /\ (WarmingUp' <=> WarmingUp) /\ (Patterned' <=> Patterned)
      /\ Session' = Session /\ \A i : ~Completed(i)
  <2>1. Today \in Nat
    BY ClockIs
  <2>. QED
    BY <1>1, <1>2, <2>1 DEF Today, InSession, WarmingUp, Patterned, Session, Completed
<1>4. CASE clock' = [clock EXCEPT !.pc = "evaluate"] /\ ForEach(Cardinality(DOMAIN day.rows))
  <2>1. errors' = {} /\ ran' = [r \in RowIds |-> 0] /\ caller'.count = Cardinality(DOMAIN day.rows)
    BY <1>4 DEF ForEach
  <2>2. ASSUME NEW i PROVE ~Completed(i)'
    <3> SUFFICES ASSUME i \in DOMAIN day.rows, Completed(i)' PROVE FALSE
      BY <1>1 DEF Completed
    <3>1. clock'.pc = "evaluate"
      BY <1>4 DEF KernelInv, SessionInv, SessionTypeOK
    <3>2. Place(i)' = Place(i)
      BY <1>1 DEF Place
    <3>3. Place(i) \in RowIds
      BY PlaceIs
    <3>. QED
      BY <2>1, <3>1, <3>2, <3>3 DEF Completed
  <2>3. ASSUME Memoryless PROVE RowsCounted' /\ ErrorsFit' /\ SessionsFit'
    <3>1. SessionsFit
      BY <2>3 DEF HistoryInv
    <3>2. RowsCounted' /\ ErrorsFit'
      BY <1>1, <2>1 DEF RowsCounted, ErrorsFit
    <3>3. SessionsFit'
      BY <1>1, <1>3, <3>1 DEF SessionsFit, Held
    <3>. QED
      BY <3>2, <3>3
  <2>. QED
    BY <1>1, <1>3, <2>2, <2>3, HistoryMoves
<1>5. CASE clock' = [clock EXCEPT !.pc = "close"] /\ ~Patterned /\ WarmingUp /\ UNCHANGED executorVars
  <2>1. \A i : ~Completed(i)'
    BY <1>3, <1>5 DEF Completed
  <2>2. clock'.pc = "close"
    BY <1>5 DEF KernelInv, SessionInv, SessionTypeOK
  <2>3. ASSUME Memoryless PROVE RowsCounted' /\ ErrorsFit' /\ SessionsFit'
    <3>1. SessionsFit /\ ErrorsFit
      BY <2>3 DEF HistoryInv
    <3>2. RowsCounted' /\ ErrorsFit'
      BY <1>1, <1>5, <2>2, <3>1 DEF RowsCounted, ErrorsFit, executorVars
    <3>3. SessionsFit'
      BY <1>1, <1>3, <3>1 DEF SessionsFit, Held
    <3>. QED
      BY <3>2, <3>3
  <2>. QED
    BY <1>1, <1>3, <2>1, <2>3, HistoryMoves
<1>. QED
  BY <1>1, <1>4, <1>5

\* A row is evaluated: its bar joins its detector, and what it decides is the day's.
LEMMA EvaluateHistory ==
  ASSUME KernelInv, KernelInv', HistoryInv, NEW t \in Threads, NEW r \in RowIds,
         NEW i \in Instruments, EvaluateRow(t, r, i)
  PROVE  HistoryInv'
<1> SUFFICES ASSUME Memoryless'
             PROVE  RowsCounted' /\ ErrorsFit' /\ SessionsFit' /\ DetectorsFit' /\ DecidedFit'
  BY DEF HistoryInv
<1>1. /\ clock.pc = "evaluate" /\ i \in DOMAIN day.rows /\ Place(i) = r
      /\ run' = run /\ clock' = clock
  BY RowEvaluated
<1>2. ran[r] = 0 /\ ran' = [ran EXCEPT ![r] = 1] /\ caller'.count = caller.count
  BY RowEvaluated
<1>3. errors' = IF RaisesNow(i) THEN errors \union {r} ELSE errors
  BY RowEvaluated
<1>4. /\ book' = [cash |-> book.cash, held |-> book.held, marks |-> book.marks,
                  pending |-> book.pending, history |-> book.history,
                  detector |-> book'.detector]
      /\ book'.detector = [book.detector EXCEPT ![i] = Detected(i)]
  BY RowEvaluated
<1>5. /\ day' = [rows |-> day.rows, sells |-> day.sells, buys |-> day.buys,
                 decisions |-> day'.decisions, equity |-> day.equity]
      /\ day'.decisions = day.decisions \union Decided(i)
  BY RowEvaluated
<1>6. /\ book'.held = book.held /\ book'.history = book.history /\ day'.rows = day.rows
      /\ clock'.formal = clock.formal /\ clock'.offset = clock.offset
  BY <1>1, <1>4, <1>5
<1>7. Memoryless
  BY <1>1 DEF Memoryless
<1>8. RowsCounted /\ ErrorsFit /\ SessionsFit /\ DetectorsFit /\ DecidedFit
  BY <1>7 DEF HistoryInv
<1>9. run.kind \in Kinds
  BY ClockIs
<1>10. /\ \A j : Raises(j)' <=> Raises(j)
       /\ \A j, d : EvaluateSignal(j, d)' = EvaluateSignal(j, d)
       /\ \A j, S : Admitted(j, S)' = Admitted(j, S)
  BY <1>1, <1>6, <1>9, SignalsStay
<1>11. /\ \A j : Place(j)' = Place(j) /\ Bar(j)' = Bar(j)
       /\ Today' = Today /\ Today = clock.date /\ (WarmingUp' <=> WarmingUp)
       /\ (Patterned' <=> Patterned) /\ Session' = Session
  <2>1. clock.date \in Nat
    BY ClockIs
  <2>. QED
    BY <1>1, <1>6, <2>1 DEF Place, Bar, Row, Supported, Patterned, Today, InSession, WarmingUp, Session
<1>12. ran \in [RowIds -> Nat]
  BY DEF KernelInv, ExecutorInv, ExecutorTypeOK
<1>13. /\ ~Completed(i) /\ (Completed(i)' <=> Patterned \/ ~WarmingUp)
       /\ \A j : j # i => (Completed(j)' <=> Completed(j))
  <2>1. ran[Place(i)] = 0 /\ ran'[Place(i)] = 1
    BY <1>1, <1>2, <1>12
  <2>2. \A j \in DOMAIN day.rows : j # i => ran'[Place(j)] = ran[Place(j)]
    BY <1>1, <1>2, <1>12, PlaceIs
  <2>3. ~Completed(i)
    BY <1>1, <2>1 DEF Completed
  <2>4. Completed(i)' <=> Patterned \/ ~WarmingUp
    BY <1>1, <1>6, <1>11, <2>1 DEF Completed
  <2>5. \A j : j # i => (Completed(j)' <=> Completed(j))
    BY <1>1, <1>6, <1>11, <2>2 DEF Completed
  <2>. QED
    BY <2>3, <2>4, <2>5
<1>14. RowsCounted'
  BY <1>1, <1>2, <1>6, <1>8 DEF RowsCounted
<1>15. ErrorsFit'
  <2> SUFFICES ASSUME errors' # {} PROVE clock'.pc = "evaluate" /\ \E j \in DOMAIN day'.rows : Raises(j)'
    BY DEF ErrorsFit
  <2>1. errors # {} \/ Raises(i)
    BY <1>3 DEF RaisesNow
  <2>2. \E j \in DOMAIN day.rows : Raises(j)
    BY <1>1, <1>8, <2>1 DEF ErrorsFit
  <2>. QED
    BY <1>1, <1>6, <1>10, <2>2
<1>16. SessionsFit'
  BY <1>1, <1>6, <1>8, <1>11 DEF SessionsFit, Held
<1>17. run.kind \in Plain => Patterned
  BY DEF Plain, Patterned
<1>18. ASSUME run.kind \in Plain
       PROVE  /\ book'.detector = [j \in Instruments |-> book'.detector[j]]
              /\ book'.detector[i] = Detected(i)
              /\ \A j \in Instruments : j # i => book'.detector[j] = book.detector[j]
  <2>1. book.detector = [j \in Instruments |-> book.detector[j]]
    BY <1>8, <1>18 DEF DetectorsFit
  <2>. QED
    BY <1>4, <2>1
<1>19. DetectorsFit'
  <2> SUFFICES ASSUME run.kind \in Plain
               PROVE  /\ book'.detector = [j \in Instruments |-> book'.detector[j]]
                      /\ \A j \in Instruments : \E bars : Keeps(j, bars)'
    BY <1>1 DEF DetectorsFit
  <2>1. ASSUME NEW j \in Instruments, j # i PROVE \E bars : Keeps(j, bars)'
    <3>1. PICK bars : Keeps(j, bars)
      BY <1>8 DEF DetectorsFit
    <3>2. book'.detector[j] = book.detector[j]
      BY <1>18, <2>1
    <3>3. Keeps(j, bars)'
      BY <1>1, <1>11, <1>13, <2>1, <3>1, <3>2 DEF Keeps
    <3>. QED
      BY <3>3
  <2>2. \E bars : Keeps(i, bars)'
    <3>1. PICK bars : Keeps(i, bars)
      BY <1>8 DEF DetectorsFit
    <3>2. /\ book.detector[i] = Detector(bars) /\ Dated(bars) /\ Len(bars) <= HistoryLimit(run.kind)
          /\ \A k \in 1 .. Len(bars) : bars[k].date < clock.date
      BY <1>11, <1>13, <3>1 DEF Keeps
    <3>3. Bar(i).date = clock.date /\ clock.date \in Nat
      BY ClockIs DEF Bar
    <3> DEFINE b == Bar(i)
               kind == run.kind
    <3>4. /\ kind \in Plain /\ Dated(bars) /\ Len(bars) <= HistoryLimit(kind)
          /\ b.date \in Nat /\ \A k \in 1 .. Len(bars) : bars[k].date < b.date
      BY <3>2, <3>3
    <3>9. b.date = clock.date /\ b = Bar(i) /\ kind = run.kind
      BY <3>3
    <3> HIDE DEF b, kind
    <3>10. PICK new : /\ AppendBar(kind, Detector(bars), b) = Detector(new)
                      /\ Dated(new) /\ Len(new) <= HistoryLimit(kind) /\ new # <<>> /\ Last(new) = b
                      /\ \A k \in 1 .. Len(new) : new[k].date <= b.date
      BY <3>4, AppendDates
    <3>5. book'.detector[i] = Detector(new)
      <4>1. ~Supported
        BY DEF Plain, PatternKinds, Supported
      <4>2. Detected(i) = AppendBar(run.kind, book.detector[i], Bar(i))
        BY <1>17, <4>1 DEF Detected
      <4>. QED
        BY <1>18, <3>2, <3>9, <3>10, <4>2
    <3>6. Completed(i)'
      BY <1>13, <1>17
    <3>7. Bar(i)' = Bar(i)
      BY <1>11
    <3>8. Keeps(i, new)'
      BY <1>1, <3>5, <3>6, <3>7, <3>9, <3>10 DEF Keeps
    <3>. QED
      BY <3>8
  <2>. QED
    BY <1>18, <2>1, <2>2
<1>20. DecidedFit'
  <2> DEFINE given(j) == IF run.kind \in Plain THEN book.detector[j] ELSE NoDetector
             new(j) == IF run.kind \in Plain THEN book'.detector[j] ELSE NoDetector
  <2> SUFFICES ASSUME ~WarmingUp
               PROVE  \A j \in Instruments :
                        Completed(j)' => IF Raises(j) THEN errors' # {}
                                         ELSE DecisionsOf(j)' = Admitted(j, EvaluateSignal(j, new(j)))
    BY <1>1, <1>10, <1>11 DEF DecidedFit
  <2>1. \A s \in Decided(i) : s.i = i
    BY <1>1, RowDecides
  <2>2. ASSUME NEW j \in Instruments, j # i, Completed(j)'
        PROVE  IF Raises(j) THEN errors' # {}
               ELSE DecisionsOf(j)' = Admitted(j, EvaluateSignal(j, new(j)))
    <3>1. Completed(j)
      BY <1>13, <2>2
    <3>2. IF Raises(j) THEN errors # {} ELSE DecisionsOf(j) = Admitted(j, EvaluateSignal(j, given(j)))
      BY <1>8, <3>1 DEF DecidedFit
    <3>3. new(j) = given(j)
      BY <1>18, <2>2
    <3>4. DecisionsOf(j)' = DecisionsOf(j)
      BY <1>5, <2>1, <2>2 DEF DecisionsOf
    <3>5. errors # {} => errors' # {}
      BY <1>3
    <3>. QED
      BY <3>2, <3>3, <3>4, <3>5
  <2>3. ASSUME Completed(i)'
        PROVE  IF Raises(i) THEN errors' # {}
               ELSE DecisionsOf(i)' = Admitted(i, EvaluateSignal(i, new(i)))
    <3>1. Raises(i) => errors' # {}
      BY <1>3 DEF RaisesNow
    <3>2. new(i) = Detected(i)
      <4>1. CASE run.kind \in Plain
        BY <1>18, <4>1
      <4>2. CASE run.kind \notin Plain
        <5>1. ~Patterned /\ ~Supported
          BY <1>7, <4>2 DEF Memoryless, Plain, Patterned, Supported
        <5>. QED
          BY <4>2, <5>1 DEF Detected
      <4>. QED
        BY <4>1, <4>2
    <3>3. ~Raises(i) => Decided(i) = Admitted(i, EvaluateSignal(i, Detected(i)))
      BY DEF Decided
    <3>4. DecisionsOf(i)' = Decided(i)
      <4>1. \A s \in day.decisions : s.i # i
        BY <1>1, <1>2, OthersDecided
      <4>. QED
        BY <1>5, <2>1, <4>1 DEF DecisionsOf
    <3>. QED
      BY <3>1, <3>2, <3>3, <3>4
  <2>. QED
    BY <2>2, <2>3
<1>. QED
  BY <1>14, <1>15, <1>16, <1>19, <1>20

\* Every row has been decided on, or one raised.
LEMMA ReadyHistory ==
  ASSUME KernelInv, KernelInv', HistoryInv, DecisionsReady
  PROVE  HistoryInv'
<1>1. /\ clock.pc = "evaluate" /\ UNCHANGED <<run, book, day>> /\ ran' = ran /\ errors' = errors
      /\ caller' = [caller EXCEPT !.pc = "idle"]
      /\ clock' = [clock EXCEPT !.pc = IF errors = {} THEN "close" ELSE "raised"]
  BY DEF DecisionsReady, Returns
<1>2. /\ clock'.pc = (IF errors = {} THEN "close" ELSE "raised") /\ clock'.date = clock.date
      /\ clock'.formal = clock.formal /\ clock'.offset = clock.offset
  BY <1>1 DEF KernelInv, SessionInv, SessionTypeOK
<1>3. caller'.pc = "idle" /\ caller'.count = caller.count
  BY <1>1 DEF KernelInv, ExecutorInv, ExecutorTypeOK
<1>4. clock.date \in Nat /\ Today = clock.date /\ run.kind \in Kinds
  <2>1. clock.date \in Nat /\ run.kind \in Kinds
    BY ClockIs
  <2>. QED
    BY <1>1, <2>1 DEF Today, InSession
<1>5. /\ \A i : Raises(i)' <=> Raises(i)
      /\ \A i, d : EvaluateSignal(i, d)' = EvaluateSignal(i, d)
      /\ \A i, S : Admitted(i, S)' = Admitted(i, S)
  BY <1>1, <1>2, <1>4, SignalsStay
<1>6. /\ (WarmingUp' <=> WarmingUp) /\ Session' = Session /\ (Patterned' <=> Patterned)
      /\ \A i : Place(i)' = Place(i) /\ Bar(i)' = Bar(i) /\ DecisionsOf(i)' = DecisionsOf(i)
  BY <1>1, <1>2 DEF WarmingUp, Session, Patterned, Place, Bar, Row, Supported, DecisionsOf
<1>7. CASE errors # {}
  <2>1. clock'.pc = "raised"
    BY <1>2, <1>7
  <2>2. \A i : ~Completed(i)'
    BY <2>1 DEF Completed
  <2>3. Today' = clock.date + 1
    BY <1>2, <2>1 DEF Today, InSession
  <2>4. ASSUME Memoryless PROVE RowsCounted' /\ ErrorsFit' /\ SessionsFit'
    <3>1. ErrorsFit /\ SessionsFit
      BY <2>4 DEF HistoryInv
    <3>2. RowsCounted'
      BY <2>1 DEF RowsCounted
    <3>3. ErrorsFit'
      BY <1>1, <1>5, <2>1, <3>1 DEF ErrorsFit
    <3>4. SessionsFit'
      BY <1>1, <1>6, <2>1, <3>1 DEF SessionsFit, Held
    <3>. QED
      BY <3>2, <3>3, <3>4
  <2>5. clock.date < Today' /\ Today <= Today'
    BY <1>4, <2>3
  <2>. QED
    BY <1>1, <2>2, <2>4, <2>5, HistoryMoves
<1>8. CASE errors = {}
  <2> SUFFICES ASSUME Memoryless'
               PROVE  RowsCounted' /\ ErrorsFit' /\ SessionsFit' /\ DetectorsFit' /\ DecidedFit'
    BY DEF HistoryInv
  <2>1. RowsCounted /\ ErrorsFit /\ SessionsFit /\ DetectorsFit /\ DecidedFit
    BY <1>1 DEF HistoryInv, Memoryless
  <2>2. clock'.pc = "close" /\ Today' = Today
    BY <1>1, <1>2, <1>8 DEF Today, InSession
  <2>3. \A r \in 1 .. Cardinality(DOMAIN day.rows) : ran[r] = 1
    <3>1. RowsOnce'
      BY RowsAreRunOnce, PTL
    <3>2. \A r \in 1 .. caller'.count : ran'[r] = 1
      BY <1>1, <1>3, <1>8, <3>1 DEF RowsOnce
    <3>. QED
      BY <1>1, <1>3, <2>1, <3>2 DEF RowsCounted
  <2>4. \A i : Completed(i)' <=> Completed(i)
    <3>1. \A i \in DOMAIN day.rows : ran[Place(i)] = 1
      BY <2>3, PlaceIs
    <3>. QED
      BY <1>1, <1>6, <2>2, <3>1 DEF Completed
  <2>5. RowsCounted' /\ ErrorsFit'
    BY <1>1, <1>8, <2>2 DEF RowsCounted, ErrorsFit
  <2>6. SessionsFit'
    BY <1>1, <1>6, <2>1, <2>2 DEF SessionsFit, Held
  <2>7. DecidedFit'
    BY <1>1, <1>5, <1>6, <2>1, <2>4 DEF DecidedFit
  <2>8. DetectorsFit'
    <3> SUFFICES ASSUME run.kind \in Plain
                 PROVE  /\ book'.detector = [i \in Instruments |-> book'.detector[i]]
                        /\ \A i \in Instruments : \E bars : Keeps(i, bars)'
      BY <1>1 DEF DetectorsFit
    <3>1. ASSUME NEW i \in Instruments PROVE \E bars : Keeps(i, bars)'
      <4>1. PICK bars : Keeps(i, bars)
        BY <2>1 DEF DetectorsFit
      <4>2. Keeps(i, bars)'
        BY <1>1, <1>2, <1>6, <2>2, <2>4, <4>1 DEF Keeps
      <4>. QED
        BY <4>2
    <3>. QED
      BY <1>1, <2>1, <3>1 DEF DetectorsFit
  <2>. QED
    BY <2>1, <2>5, <2>6, <2>7, <2>8
<1>. QED
  BY <1>7, <1>8

\* The threads meet, sleep and wake beside the kernel.
LEMMA ExecutorHistory ==
  ASSUME KernelInv, KernelInv', HistoryInv, UNCHANGED kernelVars,
         \/ NotifyAll \/ Wait \/ Spurious \/ (\E w \in Workers : Look(w) \/ Finish(w))
         \/ Stop \/ UNCHANGED executorVars
  PROVE  HistoryInv'
<1>1. ran' = ran /\ errors' = errors
  BY DEF NotifyAll, Wait, Spurious, Look, Finish, Stop, executorVars
<1>2. caller'.count = caller.count
  <2>1. \/ caller' = caller
        \/ \E pc \in {"run", "wait", "serial", "asleep"} : caller' = [caller EXCEPT !.pc = pc]
    BY DEF NotifyAll, Wait, Spurious, Look, Finish, Stop, executorVars
  <2>. QED
    BY <2>1 DEF KernelInv, ExecutorInv, ExecutorTypeOK
<1>. QED
  BY <1>1, <1>2, HistoryStays

\* Every step of a backtest.
LEMMA NextHistory == KernelInv /\ KernelInv' /\ HistoryInv /\ [Next]_vars => HistoryInv'
<1> SUFFICES ASSUME KernelInv, KernelInv', HistoryInv, [Next]_vars PROVE HistoryInv'
  OBVIOUS
<1>1. CASE CallerStep
  <2>1. CASE (\E end \in 1 .. run.last : Consume(end)) \/ ConsumeRejected \/ FinishBacktest
    BY <2>1, ChunkHistory
  <2>2. CASE OpenSession \/ StartDecisions
    BY <2>2, OpenHistory, StartHistory
  <2>3. CASE \E s \in day.sells : SellFill(s) \/ SellDropped(s)
    BY <2>3, SellHistory
  <2>4. CASE \E s \in day.buys : BuyFill(s) \/ BuyDropped(s)
    BY <2>4, BuyHistory
  <2>5. CASE StartBuying \/ StopBuying
    BY <2>5, BuyingHistory
  <2>6. CASE DecisionsReady
    BY <2>6, ReadyHistory
  <2>7. CASE (NotifyAll \/ Wait) /\ UNCHANGED kernelVars
    BY <2>7, ExecutorHistory
  <2>8. CASE \E cancelled \in BOOLEAN : CloseSession(cancelled)
    BY <2>8, CloseHistory
  <2>9. CASE Destroy
    BY <2>9, ExecutorHistory DEF Destroy
  <2>. QED
    BY <1>1, <2>1, <2>2, <2>3, <2>4, <2>5, <2>6, <2>7, <2>8, <2>9 DEF CallerStep
<1>2. CASE \E w \in Workers : WorkerStep(w)
  BY <1>2, ExecutorHistory DEF WorkerStep
<1>3. CASE \E t \in Threads, r \in RowIds, i \in Instruments : EvaluateRow(t, r, i)
  BY <1>3, EvaluateHistory
<1>4. CASE Spurious /\ UNCHANGED kernelVars
  BY <1>4, ExecutorHistory
<1>5. CASE Done \/ UNCHANGED vars
  <2>1. UNCHANGED executorVars /\ UNCHANGED kernelVars
    BY <1>5 DEF Done, vars
  <2>. QED
    BY <2>1, ExecutorHistory
<1>. QED
  BY <1>1, <1>2, <1>3, <1>4, <1>5 DEF Next

\* What a backtest has decided is what its rows, positions and detectors say.
LEMMA HistoryHolds == Spec => []HistoryInv
<1>. QED
  BY InitHistory, NextHistory, KernelHolds, PTL DEF Spec

-----------------------------------------------------------------------------
(* Decisions agree.                                                        *)

\* The universe admits alike what both say.
LEMMA AdmittedSaid ==
  ASSUME NEW i, NEW S
  PROVE  {Said(s) : s \in Admitted(i, S)} = Admitted(i, {Said(s) : s \in S})
<1>1. \A s : Said(s).side = s.side
  BY DEF Said
<1>. QED
  BY <1>1 DEF Admitted

\* A row raises in the backtest when it does in the evaluation of the day.
LEMMA RaiseAgrees ==
  ASSUME NEW i, Row(i).atr \in Nat, run.kind \in Kinds
  PROVE  DayRaises(run.kind, DaySnapshot(i)) <=> Raises(i)
<1>1. CASE run.kind # "trend"
  BY <1>1 DEF DayRaises, Raises
<1>2. CASE run.kind = "trend"
  <2> DEFINE row == Row(i)
             E == EvaluateDay("trend", DaySnapshot(i))
             raw == TrendInputs(row)
             buys == E = {[side |-> "BUY", raw |-> raw, setup |-> NoSetup]}
  <2>1. /\ DayRaises(run.kind, DaySnapshot(i))
             <=> \E d \in E : d.side = "BUY" /\ "separation_atr" \notin DOMAIN d.raw
        /\ E = EvaluateTrend(DaySnapshot(i))
    BY <1>2 DEF DayRaises, EvaluateDay
  <2>2. CASE TrendBuy(i)
    <3>1. E = DayBuy(raw, NoSetup)
      BY <2>1, <2>2, TrendIs DEF TrendBuy
    <3>2. E = {[side |-> "BUY", raw |-> raw, setup |-> NoSetup]}
      BY <3>1 DEF DayBuy
    <3>3. "separation_atr" \notin DOMAIN raw <=> row.atr = 0
      <4>1. CASE row.atr > 0
        BY <4>1 DEF TrendInputs
      <4>2. CASE ~(row.atr > 0)
        <5>1. DOMAIN raw = {"volume_ratio"}
          BY <4>2 DEF TrendInputs
        <5>. QED
          BY <4>2, <5>1
      <4>. QED
        BY <4>1, <4>2
    <3> HIDE DEF E, raw
    <3>. QED
      BY <1>2, <2>1, <2>2, <3>2, <3>3 DEF Raises
  <2>3. CASE ~TrendBuy(i)
    <3>1. E = DaySell \/ E = {}
      BY <2>1, <2>3, TrendIs DEF TrendBuy
    <3>2. \A d \in E : d.side = "SELL"
      BY <3>1 DEF DaySell
    <3> HIDE DEF E
    <3>. QED
      BY <2>1, <2>3, <3>2 DEF Raises
  <2>. QED
    BY <2>2, <2>3
<1>. QED
  BY <1>1, <1>2

\* What is decided on a row is what the evaluation of the day says of it.
LEMMA SignalsAgree ==
  ASSUME KernelInv, HistoryInv, Memoryless, run.kind = "mean_reversion" => EverySessionADay,
         NEW i \in DOMAIN day.rows, clock.pc = "close", ~WarmingUp, ~Raises(i),
         NEW d, d = (IF run.kind \in Plain THEN book.detector[i] ELSE NoDetector)
  PROVE  {Said(s) : s \in EvaluateSignal(i, d)} = DaySignalsOf(run.kind, DaySnapshot(i))
<1>1. i \in Instruments /\ Row(i).atr \in Nat /\ book.held[i].entry \in Nat
  BY DEF KernelInv, SessionInv, SessionTypeOK, PositionOK
<1>2. /\ clock.date \in Nat /\ Session \in Nat /\ run \in Runs /\ run.start \in Nat \ {0}
      /\ run.last \in Nat /\ run.kind \in Kinds /\ clock.date <= run.last
  BY ClockIs
<1>3. SessionsFit /\ DetectorsFit
  BY DEF HistoryInv
<1>4. CASE run.kind = "trend"
  BY <1>1, <1>4, TrendSignalsAgree DEF EvaluateSignal, Patterned, Supported, PatternKinds
<1>5. CASE run.kind = "momentum_breakout"
  BY <1>5, MomentumSignalsAgree DEF EvaluateSignal, Patterned, Supported, PatternKinds
<1>6. CASE run.kind = "mean_reversion"
  <2>1. clock.date = run.start + Session
    BY <1>2, <1>3 DEF SessionsFit, Today, InSession
  <2>2. book.held[i].qty > 0 => book.held[i].entry \in Nat /\ book.held[i].entry <= Session
    BY <1>1, <1>3 DEF SessionsFit, Held
  <2>3. EvaluateSignal(i, d) = MeanReversionSignal(i)
    BY <1>6 DEF EvaluateSignal, Patterned, Supported, PatternKinds
  <2>. QED
    BY <1>2, <1>6, <2>1, <2>2, <2>3, MeanReversionSignalsAgree
<1>7. CASE run.kind \in Plain
  <2>1. EvaluateSignal(i, d) = PatternSignal(i, book.detector[i])
    BY <1>7 DEF EvaluateSignal, Plain, Patterned, Supported, PatternKinds
  <2>2. Completed(i)
    BY DEF Completed
  <2>3. PICK bars : Keeps(i, bars)
    BY <1>1, <1>3, <1>7 DEF DetectorsFit
  <2>4. /\ book.detector[i] = Detector(bars) /\ Dated(bars) /\ Len(bars) <= HistoryLimit(run.kind)
        /\ bars # <<>> /\ Last(bars) = Bar(i)
    BY <2>2, <2>3 DEF Keeps
  <2>. QED
    BY <1>7, <2>1, <2>4, PatternSignalsAgree
<1>. QED
  BY <1>2, <1>4, <1>5, <1>6, <1>7 DEF Kinds, Memoryless, Plain, PatternKinds

\* The decisions of a session, once all its rows are decided on.
LEMMA HistoryAgrees ==
  KernelInv /\ HistoryInv =>
    (Memoryless /\ (run.kind = "mean_reversion" => EverySessionADay) => DecidesAsReplayed)
<1> SUFFICES ASSUME KernelInv, HistoryInv, Memoryless, run.kind = "mean_reversion" => EverySessionADay
             PROVE  DecidesAsReplayed
  OBVIOUS
<1>1. ~Supported /\ run.kind \in Kinds
  BY ClockIs DEF Memoryless, Supported
<1>2. ErrorsFit /\ DecidedFit
  BY DEF HistoryInv
<1>3. \A i \in DOMAIN day.rows : i \in Instruments /\ Row(i).atr \in Nat
  BY DEF KernelInv, SessionInv, SessionTypeOK
<1>4. \A i \in DOMAIN day.rows : DayRaises(run.kind, DaySnapshot(i)) <=> Raises(i)
  BY <1>1, <1>3, RaiseAgrees
<1>5. ASSUME clock.pc = "close", ~WarmingUp, NEW i \in DOMAIN day.rows
      PROVE  ~Raises(i) /\ SameSignals(i)
  <2> DEFINE d == IF run.kind \in Plain THEN book.detector[i] ELSE NoDetector
             S == EvaluateSignal(i, d)
  <2>1. errors = {} /\ Completed(i)
    BY <1>2, <1>5 DEF ErrorsFit, Completed
  <2>2. ~Raises(i) /\ DecisionsOf(i) = Admitted(i, S)
    BY <1>2, <1>3, <1>5, <2>1 DEF DecidedFit
  <2>3. {Said(s) : s \in S} = DaySignalsOf(run.kind, DaySnapshot(i))
    BY <1>5, <2>2, SignalsAgree
  <2>4. {Said(s) : s \in DecisionsOf(i)} = Admitted(i, {Said(s) : s \in S})
    BY <2>2, AdmittedSaid
  <2>5. SameSignals(i) <=> {Said(s) : s \in DecisionsOf(i)} = Admitted(i, DaySignalsOf(run.kind, DaySnapshot(i)))
    BY DEF SameSignals, Said, DecisionsOf
  <2>. QED
    BY <2>2, <2>3, <2>4, <2>5
<1>6. errors # {} => \E i \in DOMAIN day.rows : Raises(i)
  BY <1>2 DEF ErrorsFit
<1>. QED
  BY <1>1, <1>4, <1>5, <1>6 DEF DecidesAsReplayed

\* But for double bottoms and support/resistance, whose detectors remember more than bars, a
\* backtest of any rows, chunks and threads decides at every close as evaluate_day does from
\* the bars and positions kept so far, and a row raises in one when it does in the other; of
\* mean reversion, when no weekend lies between two sessions. (evaluate_signal,
\* attach_pattern_strength; _prepared_day_input, evaluate_day)
THEOREM ReplayAgrees ==
  Spec => [](run.kind \notin {"double_bottom", "support_resistance"}
               /\ (run.kind = "mean_reversion" => EverySessionADay) => DecidesAsReplayed)
<1>1. KernelInv /\ HistoryInv =>
        (run.kind \notin {"double_bottom", "support_resistance"}
           /\ (run.kind = "mean_reversion" => EverySessionADay) => DecidesAsReplayed)
  BY HistoryAgrees DEF Memoryless
<1>. QED
  BY <1>1, KernelHolds, HistoryHolds, PTL

-----------------------------------------------------------------------------
(* The manager of the workers: one group of workers at most.                *)

Places == {"poll", "leading", "queue", "start", "stopping", "release", "off"}

GroupTypeOK ==
  /\ calm \in BOOLEAN
  /\ manager \in [Managers -> [pc : Places, holds : BOOLEAN, worker : Nat, due : BOOLEAN]]
  /\ group \in Seq({"running", "draining", "exited", "failed"})

\* Whoever acts for the lock, or has a group, is the one the server gave it to,
\* whatever the manager itself believes.
LeadersHold ==
  \A m \in Managers :
    manager[m].pc \in {"leading", "queue", "start"} \/ manager[m].worker # 0 => lock = m

\* A manager that may start a group, or has come to its end, has none.
HandsFree ==
  \A m \in Managers :
    manager[m].pc \in {"queue", "start", "release", "off"} => manager[m].worker = 0

\* No group is left alone.
GroupsOwned ==
  \A g \in DOMAIN group : Alive(g) => \E m \in Managers : manager[m].worker = g

GroupInv == GroupTypeOK /\ (calm => LeadersHold /\ HandsFree /\ GroupsOwned)

-----------------------------------------------------------------------------
LEMMA InitGroup == ManagerInit => GroupInv
BY ManagerAssumption
DEF ManagerInit, GroupInv, GroupTypeOK, LeadersHold, HandsFree, GroupsOwned, Fresh, Places

\* A manager that moves alone, with the groups as they are, keeps the invariant when
\* its own record fits and the lock is not taken from another one that needs it.
LEMMA AloneKeeps ==
  ASSUME GroupInv, NEW m \in Managers, UNCHANGED <<group, calm>>,
         manager' \in [Managers -> [pc : Places, holds : BOOLEAN, worker : Nat, due : BOOLEAN]],
         \A n \in Managers \ {m} : manager'[n] = manager[n],
         calm => manager'[m].worker = manager[m].worker,
         calm => lock' = lock \/ (lock' = m /\ lock \notin Managers \ {m}),
         calm => (manager'[m].pc \in {"leading", "queue", "start"} \/ manager[m].worker # 0
                    => lock' = m),
         calm => (manager'[m].pc \in {"queue", "start", "release", "off"} => manager[m].worker = 0)
  PROVE  GroupInv'
<1>1. \A n \in Managers : calm => manager'[n].worker = manager[n].worker
  OBVIOUS
<1>2. GroupTypeOK' /\ calm' = calm
  BY DEF GroupInv, GroupTypeOK
<1>3. calm => GroupsOwned'
  BY <1>1 DEF GroupInv, GroupsOwned, Alive
<1>4. calm => HandsFree'
  BY DEF GroupInv, HandsFree
<1>5. calm => LeadersHold'
  BY DEF GroupInv, LeadersHold
<1>. QED
  BY <1>2, <1>3, <1>4, <1>5 DEF GroupInv

LEMMA ManagerSteps ==
  ASSUME GroupInv, NEW m \in Managers, ManagerStep(m) \/ DelayPasses(m) \/ Faults(m)
  PROVE  GroupInv'
<1> USE ManagerAssumption DEF GroupInv, GroupTypeOK, LeadersHold, HandsFree, GroupsOwned, At,
        Goto, Alive, Places
<1>1. CASE Acquire(m)
  <2>1. manager' \in [Managers -> [pc : Places, holds : BOOLEAN, worker : Nat, due : BOOLEAN]]
    <3>1. manager[m] \in [pc : Places, holds : BOOLEAN, worker : Nat, due : BOOLEAN]
      OBVIOUS
    <3>2. CASE manager' = [manager EXCEPT ![m].pc = "leading"]
      BY <3>1, <3>2
    <3>3. CASE manager' = [manager EXCEPT ![m].pc = "leading", ![m].holds = TRUE]
      BY <3>1, <3>3
    <3>4. CASE manager' = [manager EXCEPT ![m].holds = FALSE]
      BY <3>1, <3>4
    <3>. QED
      <4>1. \/ manager' = [manager EXCEPT ![m].pc = "leading"]
            \/ manager' = [manager EXCEPT ![m].pc = "leading", ![m].holds = TRUE]
            \/ manager' = [manager EXCEPT ![m].holds = FALSE]
        BY <1>1, Zenon DEF Acquire, Goto
      <4>. QED
        BY <4>1, <3>2, <3>3, <3>4
  <2>2. \A n \in Managers \ {m} : manager'[n] = manager[n]
    BY <1>1 DEF Acquire
  <2>3. manager'[m].worker = manager[m].worker /\ UNCHANGED <<group, calm>>
    BY <1>1 DEF Acquire
  <2>4. calm => lock' = lock \/ (lock' = m /\ lock \notin Managers \ {m})
    BY <1>1 DEF Acquire
  <2>5. calm => /\ manager'[m].pc \in {"leading", "queue", "start"} \/ manager[m].worker # 0
                      => lock' = m
                /\ manager'[m].pc \in {"queue", "start", "release", "off"} => manager[m].worker = 0
    <3>1. calm /\ manager[m].worker # 0 => lock' = m
      BY <1>1 DEF Acquire
    <3>2. manager'[m].pc \in {"leading", "poll"} /\ (manager'[m].pc = "leading" => lock' = m)
      <4>1. CASE manager' = [manager EXCEPT ![m].pc = "leading"] /\ lock = m /\ lock' = lock
        BY <4>1
      <4>2. CASE manager' = [manager EXCEPT ![m].pc = "leading", ![m].holds = TRUE] /\ lock' = m
        BY <4>2
      <4>3. CASE manager' = [manager EXCEPT ![m].holds = FALSE]
        BY <1>1, <4>3 DEF Acquire
      <4>. QED
        BY <1>1, <4>1, <4>2, <4>3 DEF Acquire
    <3>. QED
      BY <3>1, <3>2
  <2>. QED
    BY <2>1, <2>2, <2>3, <2>4, <2>5, AloneKeeps
<1>2. CASE Observe(m)
  BY <1>2 DEF Observe
<1>3. CASE QueueHasWork(m)
  <2>1. /\ manager[m].pc = "queue" /\ UNCHANGED <<lock, group, calm>>
        /\ manager[m] \in [pc : Places, holds : BOOLEAN, worker : Nat, due : BOOLEAN]
    BY <1>3 DEF QueueHasWork
  <2>2. \E e \in [pc : Places, holds : BOOLEAN, worker : Nat, due : BOOLEAN] :
          /\ manager' = [manager EXCEPT ![m] = e]
          /\ e.worker = manager[m].worker /\ e.pc \in {"poll", "start"}
    <3>1. CASE Queued(Recovered) = {}
      <4>1. manager' = [manager EXCEPT ![m] = [manager[m] EXCEPT !.pc = "poll", !.due = TRUE]]
        BY <1>3, <3>1 DEF QueueHasWork
      <4>2. [manager[m] EXCEPT !.pc = "poll", !.due = TRUE] \in [pc : Places, holds : BOOLEAN, worker : Nat, due : BOOLEAN]
        BY <2>1
      <4>. QED
        BY <2>1, <4>1, <4>2
    <3>2. CASE Queued(Recovered) # {}
      <4>1. \E pc \in {"poll", "start"} : manager' = [manager EXCEPT ![m] = [manager[m] EXCEPT !.pc = pc]]
        BY <1>3, <3>2 DEF QueueHasWork
      <4>2. \A pc \in {"poll", "start"} : [manager[m] EXCEPT !.pc = pc] \in [pc : Places, holds : BOOLEAN, worker : Nat, due : BOOLEAN]
        BY <2>1
      <4>. QED
        BY <2>1, <4>1, <4>2
    <3>. QED
      BY <3>1, <3>2
  <2>3. /\ manager' \in [Managers -> [pc : Places, holds : BOOLEAN, worker : Nat, due : BOOLEAN]]
        /\ \A n \in Managers \ {m} : manager'[n] = manager[n]
        /\ manager'[m].pc \in {"poll", "start"} /\ manager'[m].worker = manager[m].worker
    BY <2>1, <2>2
  <2>. QED
    BY <2>1, <2>3, AloneKeeps
<1>4. CASE StartWorker(m)
  <2>1. calm' => \A g \in DOMAIN group : ~Alive(g)
    BY <1>4, SMTT(40) DEF StartWorker
  <2>2. group' \in Seq({"running", "draining", "exited", "failed"})
        /\ manager' \in [Managers -> [pc : Places, holds : BOOLEAN, worker : Nat, due : BOOLEAN]]
    <3>1. manager[m] \in [pc : Places, holds : BOOLEAN, worker : Nat, due : BOOLEAN]
      OBVIOUS
    <3>2. manager' = [manager EXCEPT ![m].pc = "poll", ![m].worker = Len(group) + 1, ![m].due = TRUE]
          /\ group' = Append(group, "running")
      BY <1>4 DEF StartWorker
    <3>3. Len(group) + 1 \in Nat
      OBVIOUS
    <3>4. manager' \in [Managers -> [pc : Places, holds : BOOLEAN, worker : Nat, due : BOOLEAN]]
      BY <3>1, <3>2, <3>3
    <3>. QED
      BY <3>2, <3>4
  <2>3. DOMAIN group' = DOMAIN group \union {Len(group) + 1}
        /\ \A g \in DOMAIN group : group'[g] = group[g]
    BY <1>4 DEF StartWorker
  <2>4. calm' => GroupsOwned'
    BY <1>4, <2>1, <2>3 DEF StartWorker
  <2>5. calm' => LeadersHold' /\ HandsFree'
    BY <1>4 DEF StartWorker
  <2>. QED
    BY <1>4, <2>2, <2>4, <2>5 DEF StartWorker
<1>5. CASE StopWorker(m)
  <2>1. GroupTypeOK'
    <3>1. manager' = [manager EXCEPT ![m].pc = "release", ![m].worker = 0] /\ calm' = calm
      BY <1>5 DEF StopWorker
    <3>2. manager' \in [Managers -> [pc : Places, holds : BOOLEAN, worker : Nat, due : BOOLEAN]]
      <4>1. [manager[m] EXCEPT !.pc = "release", !.worker = 0] \in [pc : Places, holds : BOOLEAN, worker : Nat, due : BOOLEAN]
        OBVIOUS
      <4>. QED
        BY <3>1, <4>1
    <3>3. /\ DOMAIN group = 1 .. Len(group)
          /\ \A g \in DOMAIN group : group[g] \in {"running", "draining", "exited", "failed"}
      OBVIOUS
    <3>4. /\ group' = [g \in 1 .. Len(group) |-> group'[g]]
          /\ \A g \in 1 .. Len(group) : group'[g] \in {"running", "draining", "exited", "failed"}
      BY <1>5, <3>3 DEF StopWorker
    <3>5. group' \in Seq({"running", "draining", "exited", "failed"})
      BY <3>4
    <3>. QED
      BY <3>1, <3>2, <3>5
  <2>2. manager'[m].worker = 0 /\ UNCHANGED <<lock, calm>>
        /\ \A n \in Managers \ {m} : manager'[n] = manager[n]
    BY <1>5 DEF StopWorker
  <2>3. manager'[m].pc = "release"
    BY <1>5 DEF StopWorker
  <2>4. calm => LeadersHold' /\ HandsFree'
    BY <2>2, <2>3
  <2>5. \A g \in DOMAIN group : group'[g] \in {"running", "draining"} =>
           group[g] \in {"running", "draining"} /\ g # manager[m].worker
    BY <1>5 DEF StopWorker
  <2>6. DOMAIN group' = DOMAIN group
    BY <1>5 DEF StopWorker
  <2>7. calm => GroupsOwned'
    BY <2>2, <2>5, <2>6
  <2>. QED
    BY <2>1, <2>2, <2>4, <2>7
<1>6. CASE Release(m)
  BY <1>6 DEF Release, Freed
<1>7. CASE Restart(m)
  BY <1>7 DEF Restart, Fresh
<1>8. CASE DelayPasses(m)
  <2>1. manager' \in [Managers -> [pc : Places, holds : BOOLEAN, worker : Nat, due : BOOLEAN]]
    BY <1>8 DEF DelayPasses
  <2>2. \A n \in Managers \ {m} : manager'[n] = manager[n]
    BY <1>8 DEF DelayPasses
  <2>3. manager'[m].worker = manager[m].worker /\ UNCHANGED <<group, calm>>
    BY <1>8 DEF DelayPasses
  <2>4. calm => lock' = lock \/ (lock' = m /\ lock \notin Managers \ {m})
    BY <1>8 DEF DelayPasses
  <2>5. calm => /\ manager'[m].pc \in {"leading", "queue", "start"} \/ manager[m].worker # 0
                      => lock' = m
                /\ manager'[m].pc \in {"queue", "start", "release", "off"} => manager[m].worker = 0
    BY <1>8 DEF DelayPasses
  <2>. QED
    BY <2>1, <2>2, <2>3, <2>4, <2>5, AloneKeeps
<1>9. CASE AcquireFails(m)
  <2>1. manager' \in [Managers -> [pc : Places, holds : BOOLEAN, worker : Nat, due : BOOLEAN]]
    <3>1. manager' = [manager EXCEPT ![m].holds = FALSE, ![m].due = FALSE]
      BY <1>9 DEF AcquireFails
    <3>2. manager[m] \in [pc : Places, holds : BOOLEAN, worker : Nat, due : BOOLEAN]
      OBVIOUS
    <3>3. [manager[m] EXCEPT !.holds = FALSE, !.due = FALSE]
             \in [pc : Places, holds : BOOLEAN, worker : Nat, due : BOOLEAN]
      BY <3>2
    <3>4. manager' = [manager EXCEPT ![m] = [manager[m] EXCEPT !.holds = FALSE, !.due = FALSE]]
      BY <3>1
    <3>. QED
      BY <3>3, <3>4
  <2>2. \A n \in Managers \ {m} : manager'[n] = manager[n]
    BY <1>9 DEF AcquireFails, Fault
  <2>3. manager'[m].worker = manager[m].worker /\ UNCHANGED <<group, calm>>
    BY <1>9 DEF AcquireFails, Fault
  <2>4. calm => lock' = lock \/ (lock' = m /\ lock \notin Managers \ {m})
    BY <1>9 DEF AcquireFails, Fault
  <2>5. calm => /\ manager'[m].pc \in {"leading", "queue", "start"} \/ manager[m].worker # 0
                      => lock' = m
                /\ manager'[m].pc \in {"queue", "start", "release", "off"} => manager[m].worker = 0
    BY <1>9 DEF AcquireFails, Fault
  <2>. QED
    BY <2>1, <2>2, <2>3, <2>4, <2>5, AloneKeeps
<1>10. CASE IterationFails(m)
  <2>1. /\ manager' = [manager EXCEPT ![m] = [manager[m] EXCEPT !.pc = "poll", !.due = FALSE]]
        /\ UNCHANGED <<lock, group, calm>> /\ manager[m] \in [pc : Places, holds : BOOLEAN, worker : Nat, due : BOOLEAN]
    BY <1>10 DEF IterationFails
  <2>2. [manager[m] EXCEPT !.pc = "poll", !.due = FALSE] \in [pc : Places, holds : BOOLEAN, worker : Nat, due : BOOLEAN]
    BY <2>1
  <2>3. /\ manager' \in [Managers -> [pc : Places, holds : BOOLEAN, worker : Nat, due : BOOLEAN]]
        /\ \A n \in Managers \ {m} : manager'[n] = manager[n]
        /\ manager'[m].pc = "poll" /\ manager'[m].worker = manager[m].worker
    BY <2>1, <2>2
  <2>4. calm /\ manager[m].worker # 0 => lock = m
    OBVIOUS
  <2>. QED
    BY <2>1, <2>3, <2>4, AloneKeeps
<1>11. CASE RequestStop(m)
  BY <1>11 DEF RequestStop, Fault
<1>12. CASE StopFails(m)
  BY <1>12 DEF StopFails, Fault
<1>13. CASE Die(m)
  BY <1>13 DEF Die, Fault, Fresh
<1>14. CASE LoseSession(m)
  BY <1>14 DEF LoseSession, Fault
<1>. QED
  BY <1>1, <1>2, <1>3, <1>4, <1>5, <1>6, <1>7, <1>8, <1>9, <1>10, <1>11, <1>12, <1>13, <1>14
  DEF ManagerStep, Faults

\* A group never comes to life again.
LEMMA GroupSteps ==
  ASSUME GroupInv, NEW g \in DOMAIN group,
         GroupStep(g) \/ ClaimFails(g) \/ Crash(g) \/ \E j \in Jobs : LeaseExpires(g, j)
  PROVE  GroupInv'
<1> USE DEF GroupInv, GroupTypeOK, LeadersHold, HandsFree, GroupsOwned, Alive
<1>1. CASE Exit(g)
  BY <1>1 DEF Exit
<1>2. CASE Drained(g)
  BY <1>2 DEF Drained
<1>3. CASE ClaimFails(g)
  BY <1>3 DEF ClaimFails, Fault
<1>4. CASE Crash(g)
  BY <1>4 DEF Crash, Fault
<1>5. ASSUME NEW j \in Jobs, Claim(g, j) \/ FinishJob(g, j) \/ LeaseExpires(g, j)
      PROVE  GroupInv'
  BY <1>5 DEF Claim, FinishJob, LeaseExpires
<1>. QED
  BY <1>1, <1>2, <1>3, <1>4, <1>5 DEF GroupStep

LEMMA NextGroup == GroupInv /\ [ManagerNext]_managerVars => GroupInv'
<1> SUFFICES ASSUME GroupInv, [ManagerNext]_managerVars PROVE GroupInv'
  OBVIOUS
<1>1. ASSUME NEW j \in Jobs, Enqueue(j) PROVE GroupInv'
  BY <1>1
  DEF Enqueue, GroupInv, GroupTypeOK, LeadersHold, HandsFree, GroupsOwned, Alive
<1>2. CASE UNCHANGED managerVars
  BY <1>2 DEF managerVars, GroupInv, GroupTypeOK, LeadersHold, HandsFree, GroupsOwned, Alive
<1>. QED
  BY <1>1, <1>2, ManagerSteps, GroupSteps DEF ManagerNext

\* One owner, one lock, one group.
LEMMA OneAlive == GroupInv => OneGroup
<1> SUFFICES ASSUME GroupInv, calm
             PROVE  Cardinality({g \in DOMAIN group : Alive(g)}) <= 1
  BY DEF OneGroup
<1> DEFINE A == {g \in DOMAIN group : Alive(g)}
<1>1. \A g, h \in A : g = h
  BY DEF GroupInv, GroupTypeOK, LeadersHold, GroupsOwned
<1>2. CASE A = {}
  BY <1>2, FS_EmptySet
<1>3. CASE A # {}
  <2>1. PICK g \in A : TRUE
    BY <1>3
  <2>2. A = {g}
    BY <1>1, <2>1
  <2>. QED
    BY <2>2, FS_Singleton
<1>. QED
  BY <1>2, <1>3

\* Managers that come and go, lose the lock to others, fail in an iteration or stop
\* never make two groups of workers run at once. (AdvisoryLeaderLock, run,
\* _stop_worker)
THEOREM GroupIsAlone == ManagerSpec => []OneGroup
<1>1. ManagerSpec => []GroupInv
  BY InitGroup, NextGroup, PTL DEF ManagerSpec
<1>. QED
  BY <1>1, OneAlive, PTL
=============================================================================
