---------------------------- MODULE DayExecutor ----------------------------
(***************************************************************************)
(* DayParallelExecutor of backtest_kernel.cpp: the threads that evaluate   *)
(* the rows of one trading session.  The caller of for_each is thread 0;   *)
(* workers 1 .. threads - 1 live as long as the executor.  A call          *)
(* publishes the rows under the mutex, wakes the workers, runs its own     *)
(* share and waits until the others have finished theirs; a small call, or *)
(* one thread, runs every row in the caller.                               *)
(*                                                                         *)
(* What a row computes belongs to the module that uses the executor: RunRow*)
(* says only which thread runs which row, and whether the row raises.      *)
(***************************************************************************)
EXTENDS Integers, FiniteSets

CONSTANTS
    MaxThreads,      \* kMaximumThreadCount: no executor has more threads
    MaxRows,         \* bound: rows of one session
    RowsPerThread    \* kRowsPerThreadThreshold

ASSUME ExecutorAssumption ==
    /\ MaxThreads \in Nat \ {0}
    /\ MaxRows \in Nat
    /\ RowsPerThread \in Nat \ {0}

VARIABLES
    pool,      \* the members of the executor that the mutex protects
    worker,    \* worker[w]: the local variables of worker_loop
    caller,    \* the local variables of for_each
    ran,       \* ran[r]: how often row r of the current call was evaluated
    errors     \* the rows of the current call that raised

executorVars == <<pool, worker, caller, ran, errors>>

Workers == 1 .. MaxThreads - 1
RowIds == 1 .. MaxRows

(* A mutant: equal shares, the remainder belongs to nobody. *)
ShareRounded(w, n, count) == (count \div n) * w + 1 .. (count \div n) * (w + 1)

(* run_chunk: the rows of thread w when n threads share count rows. *)
Share(w, n, count) == ((count * w) \div n) + 1 .. (count * (w + 1)) \div n

NoWorker == [pc |-> "none", seen |-> 0, todo |-> {}]

NoExecutor == [threads |-> 0, rows |-> 0, generation |-> 0,
               unfinished |-> 0, stopping |-> FALSE]

ExecutorInit ==
    /\ pool = NoExecutor
    /\ worker = [w \in Workers |-> NoWorker]
    /\ caller = [pc |-> "idle", count |-> 0, todo |-> {}]
    /\ ran = [r \in RowIds |-> 0]
    /\ errors = {}

(* The constructor starts the workers; it replaces an executor without any.*)
CreateExecutor(n) ==
    /\ caller.pc = "idle"
    /\ pool' = [NoExecutor EXCEPT !.threads = n]
    /\ worker' = [w \in Workers |->
                    IF w < n THEN [NoWorker EXCEPT !.pc = "look"] ELSE NoWorker]
    /\ UNCHANGED <<caller, ran, errors>>

Parallel(count) == pool.threads > 1 /\ count >= pool.threads * RowsPerThread

(* The first half of for_each: a serial call keeps every row; a parallel   *)
(* one publishes them in the critical section.                             *)
ForEach(count) ==
    /\ caller.pc = "idle" /\ pool.threads > 0
    /\ ran' = [r \in RowIds |-> 0]
    /\ errors' = {}
    /\ IF Parallel(count)
       THEN /\ pool' = [pool EXCEPT !.rows = count, !.generation = @ + 1,
                                    !.unfinished = pool.threads - 1]
            /\ caller' = [pc |-> "notify", count |-> count,
                          todo |-> Share(0, pool.threads, count)]
       ELSE /\ caller' = [pc |-> "serial", count |-> count, todo |-> 1 .. count]
            /\ UNCHANGED pool
    /\ UNCHANGED worker

Awake(ws) == [w \in Workers |->
                IF ws[w].pc = "asleep" THEN [ws[w] EXCEPT !.pc = "look"] ELSE ws[w]]

(* work_ready_.notify_all after the critical section. *)
NotifyAll ==
    /\ caller.pc = "notify"
    /\ worker' = Awake(worker)
    /\ caller' = [caller EXCEPT !.pc = "run"]
    /\ UNCHANGED <<pool, ran, errors>>

(* A worker holds the mutex: it leaves, takes the published rows, or waits.*)
Look(w) ==
    /\ worker[w].pc = "look"
    /\ worker' = [worker EXCEPT ![w] =
         IF pool.stopping THEN [@ EXCEPT !.pc = "gone"]
         ELSE IF pool.generation # @.seen
              THEN [pc |-> "run", seen |-> pool.generation,
                    todo |-> Share(w, pool.threads, pool.rows)]
              ELSE [@ EXCEPT !.pc = "asleep"]]
    /\ UNCHANGED <<pool, caller, ran, errors>>

(* A thread runs the rows of its share in their order. *)
NextRow(todo, r) == r \in todo /\ \A q \in todo : r <= q

(* Thread t evaluates row r: 0 is the caller.  Alone it stops at the first *)
(* row that raises; beside others it notes the error and goes on.          *)
RunRow(t, r, raises) ==
    /\ ran' = [ran EXCEPT ![r] = @ + 1]
    /\ errors' = IF raises THEN errors \union {r} ELSE errors
    /\ IF t = 0
       THEN /\ caller.pc \in {"serial", "run"} /\ NextRow(caller.todo, r)
            /\ caller' = [caller EXCEPT !.todo =
                 IF raises /\ caller.pc = "serial" THEN {} ELSE @ \ {r}]
            /\ UNCHANGED worker
       ELSE /\ worker[t].pc = "run" /\ NextRow(worker[t].todo, r)
            /\ worker' = [worker EXCEPT ![t].todo = @ \ {r}]
            /\ UNCHANGED caller
    /\ UNCHANGED pool

(* The second critical section of worker_loop. *)
Finish(w) ==
    /\ worker[w].pc = "run" /\ worker[w].todo = {}
    /\ worker' = [worker EXCEPT ![w].pc = "look"]
    /\ pool' = [pool EXCEPT !.unfinished = @ - 1]
    /\ caller' = IF pool.unfinished = 1 /\ caller.pc = "asleep"
                 THEN [caller EXCEPT !.pc = "wait"] ELSE caller
    /\ UNCHANGED <<ran, errors>>

(* The caller has run its share and waits on work_done_. *)
Wait ==
    /\ \/ caller.pc = "run" /\ caller.todo = {}
       \/ caller.pc = "wait"
    /\ caller' = [caller EXCEPT !.pc = IF pool.unfinished = 0 THEN "serial" ELSE "asleep"]
    /\ UNCHANGED <<pool, worker, ran, errors>>

(* for_each returns, or rethrows the first error in row order. *)
Returns ==
    /\ caller.pc = "serial" /\ caller.todo = {}
    /\ caller' = [caller EXCEPT !.pc = "idle"]
    /\ UNCHANGED <<pool, worker, ran, errors>>

(* A mutant: the destructor does not wake the workers that wait. *)
StopQuietly ==
    /\ caller.pc = "idle" /\ pool.threads > 0 /\ ~pool.stopping
    /\ pool' = [pool EXCEPT !.stopping = TRUE]
    /\ UNCHANGED <<worker, caller, ran, errors>>

(* The destructor: stop, wake, join. *)
Stop ==
    /\ caller.pc = "idle" /\ pool.threads > 0 /\ ~pool.stopping
    /\ pool' = [pool EXCEPT !.stopping = TRUE]
    /\ worker' = Awake(worker)
    /\ UNCHANGED <<caller, ran, errors>>

Joined == \A w \in Workers : worker[w].pc \in {"none", "gone"}

(* A condition variable may wake its thread for no reason. *)
Spurious ==
    /\ \/ \E w \in Workers :
            /\ worker[w].pc = "asleep"
            /\ worker' = [worker EXCEPT ![w].pc = "look"]
            /\ UNCHANGED caller
       \/ /\ caller.pc = "asleep"
          /\ caller' = [caller EXCEPT !.pc = "wait"]
          /\ UNCHANGED worker
    /\ UNCHANGED <<pool, ran, errors>>

(***************************************************************************)
(* Properties.                                                             *)
(***************************************************************************)
(* When for_each returns without an error every row of the session has     *)
(* been evaluated exactly once, and no thread runs a row outside a call:   *)
(* the kernel reads decisions and moves positions without a lock.          *)
RowsOnce ==
    /\ \A r \in RowIds : ran[r] <= 1
    /\ caller.pc = "idle" =>
         /\ \A w \in Workers : worker[w].pc # "run"
         /\ errors = {} => \A r \in 1 .. caller.count : ran[r] = 1
=============================================================================
