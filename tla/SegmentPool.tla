----------------------------- MODULE SegmentPool -----------------------------
(***************************************************************************)
(* _diff_segments_parallel of core/hashdiff.py: one task per top-level      *)
(* segment on a pool of worker threads, every task holding one connection   *)
(* of either side for its whole life, all tasks adding to one DiffResult.   *)
(*                                                                          *)
(* What a task finds in its segment is HashDiff's subject.  Here it is a    *)
(* sequence of batches, one for each row fetch the task's recursion makes,  *)
(* a batch being the set of differences that fetch brings to light; the     *)
(* empty sequence is a segment whose statistics agree.  The statistics      *)
(* queries of the recursion are not told apart from its row fetches.  The   *)
(* three counters of DiffResult are one counter, found.                     *)
(*                                                                          *)
(* `x += n` and `list.append` on shared state are two steps, a read and a   *)
(* write, since a thread may lose the processor in between.                 *)
(***************************************************************************)
EXTENDS Integers, Sequences, FiniteSets

CONSTANTS
  Worker,            \* threads of the executor
  SrcConn, TgtConn,  \* the connections of source_pool and target_pool
  NumTasks,          \* top-level segments
  Diff,              \* row differences
  Batches,           \* Batches[t]: what the row fetches of task t bring
  MayFail,           \* tasks one of whose queries may raise
  MaxDiffRows,
  None

Task == 1..NumTasks

ASSUME PoolAssumption ==
  /\ IsFiniteSet(Worker) /\ Worker # {}
  /\ IsFiniteSet(SrcConn) /\ IsFiniteSet(TgtConn)
  /\ None \notin Worker \cup SrcConn \cup TgtConn
  /\ NumTasks \in Nat /\ MayFail \subseteq Task /\ MaxDiffRows \in Nat

(* threads = min(threads, len(source_pool), len(target_pool)) in diff(). *)
ASSUME ThreadsAssumption ==
  Cardinality(Worker) <= Cardinality(SrcConn) /\ Cardinality(Worker) <= Cardinality(TgtConn)

(* No difference turns up in two row fetches: the segments do not overlap   *)
(* (HashDiff's CountedAtMostOnce).                                          *)
ASSUME BatchesAssumption ==
  /\ IsFiniteSet(Diff)
  /\ Batches \in [Task -> Seq(SUBSET Diff)]
  /\ \A t, u \in Task : \A i \in DOMAIN Batches[t], j \in DOMAIN Batches[u] :
       << t, i >> # << u, j >> => Batches[t][i] \cap Batches[u][j] = {}

VARIABLES
  main,        \* where the calling thread is
  submitted,   \* tasks handed to the executor so far
  taken,       \* tasks the workers have taken from its queue
  future,      \* the state of each task's future
  observed,    \* futures as_completed() has yielded
  pc, job,     \* of each worker: its next step, its task
  step,        \* the batch its task is at
  mem,         \* what it has read of the shared counters
  srcHeld, tgtHeld,   \* the connections it has checked out
  srcFree, tgtFree,   \* the two _ConnectorPool queues
  lock, countLock,    \* the holders of the two locks
  result,      \* the shared DiffResult: [found, listed, truncated]
  queries      \* query_count

pool == << srcHeld, tgtHeld, srcFree, tgtFree >>
shared == << lock, countLock, result, queries >>
caller == << main, submitted, observed >>
vars == << caller, taken, future, pc, job, step, mem, pool, shared >>

Lesser(a, b) == IF a <= b THEN a ELSE b

WorkerPC == {"idle", "get_src", "get_tgt", "stats", "fetch", "lock", "classify",
             "put_src", "put_tgt", "count_lock", "count"}

Memory == [found : Nat, listed : Nat, queries : Nat, failed : BOOLEAN]

Init ==
  /\ main = "submitting" /\ submitted = 0 /\ observed = {}
  /\ taken = 0
  /\ future = [t \in Task |-> "pending"]
  /\ pc = [w \in Worker |-> "idle"]
  /\ job = [w \in Worker |-> 0]
  /\ step = [w \in Worker |-> 1]
  /\ mem = [w \in Worker |-> [found |-> 0, listed |-> 0, queries |-> 0, failed |-> FALSE]]
  /\ srcHeld = [w \in Worker |-> None]
  /\ tgtHeld = [w \in Worker |-> None]
  /\ srcFree = SrcConn /\ tgtFree = TgtConn
  /\ lock = None /\ countLock = None
  /\ result = [found |-> 0, listed |-> 0, truncated |-> FALSE]
  /\ queries = 0

Goto(w, from, to) == pc[w] = from /\ pc' = [pc EXCEPT ![w] = to]

-------------------------------------------------------------------------------
(* The calling thread: submit every segment, take the futures as they       *)
(* complete, re-raise the first exception.  Leaving the `with` block waits  *)
(* for every task, also after an exception.                                 *)
Submit ==
  /\ main = "submitting"
  /\ IF submitted < NumTasks
     THEN submitted' = submitted + 1 /\ main' = main
     ELSE submitted' = submitted /\ main' = "collecting"
  /\ UNCHANGED << observed, taken, future, pc, job, step, mem, pool, shared >>

Observe(t) ==
  /\ main = "collecting"
  /\ t \notin observed /\ future[t] # "pending"
  /\ observed' = observed \cup {t}
  /\ main' = IF future[t] = "failed" THEN "raising" ELSE main
  /\ UNCHANGED << submitted, taken, future, pc, job, step, mem, pool, shared >>

LeaveMutant ==   \* mutation: the executor is not waited for
  /\ main = "raising" \/ (main = "collecting" /\ observed = Task)
  /\ main' = IF main = "raising" THEN "raised" ELSE "returned"
  /\ UNCHANGED << submitted, observed, taken, future, pc, job, step, mem, pool, shared >>

Leave ==
  /\ main = "raising" \/ (main = "collecting" /\ observed = Task)
  /\ \A t \in Task : future[t] # "pending"
  /\ main' = IF main = "raising" THEN "raised" ELSE "returned"
  /\ UNCHANGED << submitted, observed, taken, future, pc, job, step, mem, pool, shared >>

-------------------------------------------------------------------------------
(* A worker takes the oldest task, then a connection of either side; each   *)
(* get() blocks while the queue is empty.                                   *)
TakeTask(w) ==
  /\ taken < submitted
  /\ Goto(w, "idle", "get_src")
  /\ taken' = taken + 1
  /\ job' = [job EXCEPT ![w] = taken + 1]
  /\ step' = [step EXCEPT ![w] = 1]
  /\ mem' = [mem EXCEPT ![w].failed = FALSE]
  /\ UNCHANGED << caller, future, pool, shared >>

AcquireSourceMutant(w) ==   \* mutation: the connection stays in the pool
  /\ Goto(w, "get_src", "get_tgt")
  /\ \E c \in srcFree : srcHeld' = [srcHeld EXCEPT ![w] = c]
  /\ UNCHANGED << caller, taken, future, job, step, mem, srcFree, tgtHeld, tgtFree, shared >>

AcquireSource(w) ==
  /\ Goto(w, "get_src", "get_tgt")
  /\ \E c \in srcFree : /\ srcFree' = srcFree \ {c}
                        /\ srcHeld' = [srcHeld EXCEPT ![w] = c]
  /\ UNCHANGED << caller, taken, future, job, step, mem, tgtHeld, tgtFree, shared >>

AcquireTarget(w) ==
  /\ Goto(w, "get_tgt", "stats")
  /\ \E c \in tgtFree : /\ tgtFree' = tgtFree \ {c}
                        /\ tgtHeld' = [tgtHeld EXCEPT ![w] = c]
  /\ UNCHANGED << caller, taken, future, job, step, mem, srcHeld, srcFree, shared >>

(* The segment's statistics; nothing more to do when they agree. *)
Stats(w) ==
  /\ Goto(w, "stats", IF Batches[job[w]] = << >> THEN "put_src" ELSE "fetch")
  /\ UNCHANGED << caller, taken, future, job, step, mem, pool, shared >>

(* The queries up to and including one row fetch of either side. *)
Fetch(w) ==
  /\ Goto(w, "fetch", "lock")
  /\ UNCHANGED << caller, taken, future, job, step, mem, pool, shared >>

(* A query raises: the task is over but for its `finally`. *)
QueryFailsMutant(w) ==   \* mutation: no `finally`
  /\ job[w] \in MayFail
  /\ Goto(w, "stats", "idle") \/ Goto(w, "fetch", "idle")
  /\ future' = [future EXCEPT ![job[w]] = "failed"]
  /\ UNCHANGED << caller, taken, job, step, mem, pool, shared >>

QueryFails(w) ==
  /\ job[w] \in MayFail
  /\ Goto(w, "stats", "put_src") \/ Goto(w, "fetch", "put_src")
  /\ mem' = [mem EXCEPT ![w].failed = TRUE]
  /\ UNCHANGED << caller, taken, future, job, step, pool, shared >>

(* _classify_rows under the lock: read the counters ... *)
LockMutant(w) ==   \* mutation: no lock
  /\ Goto(w, "lock", "classify")
  /\ mem' = [mem EXCEPT ![w].found = result.found, ![w].listed = result.listed]
  /\ UNCHANGED << caller, taken, future, job, step, pool, shared >>

Lock(w) ==
  /\ lock = None
  /\ Goto(w, "lock", "classify")
  /\ lock' = w
  /\ mem' = [mem EXCEPT ![w].found = result.found, ![w].listed = result.listed]
  /\ UNCHANGED << caller, taken, future, job, step, pool, countLock, result, queries >>

(* ... and write them back, _maybe_append listing what there is room for.   *)
ClassifyMutant(w) ==   \* mutation: returning early at the cap keeps the lock
  LET new   == Cardinality(Batches[job[w]][step[w]])
      wants == mem[w].listed + new
  IN  /\ Goto(w, "classify", IF step[w] < Len(Batches[job[w]]) THEN "fetch" ELSE "put_src")
      /\ result' = [found     |-> mem[w].found + new,
                    listed    |-> Lesser(wants, MaxDiffRows),
                    truncated |-> result.truncated \/ wants > MaxDiffRows]
      /\ step' = [step EXCEPT ![w] = @ + 1]
      /\ lock' = IF wants > MaxDiffRows THEN lock ELSE None
      /\ UNCHANGED << caller, taken, future, job, mem, pool, countLock, queries >>

Classify(w) ==
  LET new   == Cardinality(Batches[job[w]][step[w]])
      wants == mem[w].listed + new
  IN  /\ Goto(w, "classify", IF step[w] < Len(Batches[job[w]]) THEN "fetch" ELSE "put_src")
      /\ result' = [found     |-> mem[w].found + new,
                    listed    |-> Lesser(wants, MaxDiffRows),
                    truncated |-> result.truncated \/ wants > MaxDiffRows]
      /\ step' = [step EXCEPT ![w] = @ + 1]
      /\ lock' = None
      /\ UNCHANGED << caller, taken, future, job, mem, pool, countLock, queries >>

(* The `finally`: both connections go back.  A failed task ends here.       *)
ReleaseSourceMutant(w) ==   \* mutation: back into the wrong pool
  /\ Goto(w, "put_src", "put_tgt")
  /\ tgtFree' = tgtFree \cup {srcHeld[w]}
  /\ srcHeld' = [srcHeld EXCEPT ![w] = None]
  /\ UNCHANGED << caller, taken, future, job, step, mem, srcFree, tgtHeld, shared >>

ReleaseSource(w) ==
  /\ Goto(w, "put_src", "put_tgt")
  /\ srcFree' = srcFree \cup {srcHeld[w]}
  /\ srcHeld' = [srcHeld EXCEPT ![w] = None]
  /\ UNCHANGED << caller, taken, future, job, step, mem, tgtHeld, tgtFree, shared >>

ReleaseTarget(w) ==
  /\ Goto(w, "put_tgt", IF mem[w].failed THEN "idle" ELSE "count_lock")
  /\ tgtFree' = tgtFree \cup {tgtHeld[w]}
  /\ tgtHeld' = [tgtHeld EXCEPT ![w] = None]
  /\ future' = IF mem[w].failed THEN [future EXCEPT ![job[w]] = "failed"] ELSE future
  /\ UNCHANGED << caller, taken, job, step, mem, srcHeld, srcFree, shared >>

(* query_count += segment_queries, under its own lock. *)
Cost(t) == 2 + 2 * Len(Batches[t])

CountLockMutant(w) ==   \* mutation: no lock
  /\ Goto(w, "count_lock", "count")
  /\ mem' = [mem EXCEPT ![w].queries = queries]
  /\ UNCHANGED << caller, taken, future, job, step, pool, shared >>

CountLock(w) ==
  /\ countLock = None
  /\ Goto(w, "count_lock", "count")
  /\ countLock' = w
  /\ mem' = [mem EXCEPT ![w].queries = queries]
  /\ UNCHANGED << caller, taken, future, job, step, pool, lock, result, queries >>

Count(w) ==
  /\ Goto(w, "count", "idle")
  /\ queries' = mem[w].queries + Cost(job[w])
  /\ countLock' = None
  /\ future' = [future EXCEPT ![job[w]] = "done"]
  /\ UNCHANGED << caller, taken, job, step, mem, pool, lock, result >>

Work(w) ==
  \/ TakeTask(w) \/ AcquireSource(w) \/ AcquireTarget(w) \/ Stats(w) \/ Fetch(w)
  \/ QueryFails(w) \/ Lock(w) \/ Classify(w) \/ ReleaseSource(w) \/ ReleaseTarget(w)
  \/ CountLock(w) \/ Count(w)

Call == Submit \/ Leave \/ \E t \in Task : Observe(t)

Ended == main \in {"returned", "raised"}

Terminated == Ended /\ UNCHANGED vars

Next == Call \/ (\E w \in Worker : Work(w)) \/ Terminated

Spec == Init /\ [][Next]_vars

(* Some thread that can run does run.  Which one is the scheduler's choice. *)
FairSpec == Spec /\ WF_vars(Call \/ \E w \in Worker : Work(w))

-------------------------------------------------------------------------------
TypeInv ==
  /\ main \in {"submitting", "collecting", "raising", "returned", "raised"}
  /\ submitted \in 0..NumTasks /\ taken \in 0..submitted
  /\ observed \subseteq Task
  /\ future \in [Task -> {"pending", "done", "failed"}]
  /\ pc \in [Worker -> WorkerPC]
  /\ job \in [Worker -> 0..NumTasks]
  /\ step \in [Worker -> Nat \ {0}]
  /\ mem \in [Worker -> Memory]
  /\ srcHeld \in [Worker -> SrcConn \cup {None}] /\ srcFree \subseteq SrcConn
  /\ tgtHeld \in [Worker -> TgtConn \cup {None}] /\ tgtFree \subseteq TgtConn
  /\ lock \in Worker \cup {None} /\ countLock \in Worker \cup {None}
  /\ result \in [found : Nat, listed : Nat, truncated : BOOLEAN]
  /\ queries \in Nat

(* "A single synchronous connection can't run two queries at once": no      *)
(* connection is ever with two workers, or with a worker and in the pool,   *)
(* and none is lost, whichever tasks fail.                                  *)
ConnectionsExclusive ==
  /\ \A w, v \in Worker :
       w # v => /\ srcHeld[w] = None \/ srcHeld[w] # srcHeld[v]
                /\ tgtHeld[w] = None \/ tgtHeld[w] # tgtHeld[v]
  /\ \A w \in Worker : srcHeld[w] \notin srcFree /\ tgtHeld[w] \notin tgtFree
  /\ \A c \in SrcConn : c \in srcFree \/ \E w \in Worker : srcHeld[w] = c
  /\ \A c \in TgtConn : c \in tgtFree \/ \E w \in Worker : tgtHeld[w] = c

(* threads = min(threads, both pool sizes) means that acquire() finds a     *)
(* connection at once: a worker cannot hold one of the source while it      *)
(* waits for one of the target.                                             *)
NeverWaitsForConnection ==
  \A w \in Worker :
    /\ pc[w] = "get_src" => srcFree # {}
    /\ pc[w] = "get_tgt" => tgtFree # {}

AllDiffs == { d \in Diff : \E t \in Task : \E i \in DOMAIN Batches[t] : d \in Batches[t][i] }

(* However the workers interleave, a report counts every difference once,   *)
(* lists as many as the cap allows and says whether it left some out: no    *)
(* update is lost.                                                          *)
CountsExact ==
  main = "returned" =>
    /\ result.found = Cardinality(AllDiffs)
    /\ result.listed = Lesser(Cardinality(AllDiffs), MaxDiffRows)
    /\ (result.truncated <=> Cardinality(AllDiffs) > MaxDiffRows)

(* queries_per_side is exact too. *)
QueriesExact ==
  main = "returned" =>
    queries = Cardinality(UNION { {t} \X (1..Cost(t)) : t \in Task })

(* A task that raised is never reported as a result (exit code 0 or 1), and *)
(* when the call is over, with a result or an exception, no thread is still *)
(* using a connection or the result: the CLI closes the connections next.   *)
CleanExit ==
  /\ main = "returned" => (\A t \in Task : future[t] = "done")
  /\ main = "raised" => (\E t \in Task : future[t] = "failed")
  /\ Ended =>
       /\ srcFree = SrcConn /\ tgtFree = TgtConn
       /\ lock = None /\ countLock = None
       /\ \A w \in Worker : pc[w] = "idle"

(* The call ends: no worker waits for another for ever.                     *)
Ends == <>Ended
===============================================================================
