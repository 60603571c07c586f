------------------------- MODULE SegmentPoolProofs -------------------------
(***************************************************************************)
(* Proofs about SegmentPool for any number of workers, connections, tasks   *)
(* and row fetches.                                                         *)
(***************************************************************************)
EXTENDS SegmentPool, FiniteSetTheorems, FunctionTheorems, TLAPS

(* Disjoint sets add up. *)
LEMMA DisjointUnion ==
  ASSUME NEW S, NEW T, IsFiniteSet(S), IsFiniteSet(T), S \cap T = {}
  PROVE  /\ IsFiniteSet(S \cup T)
         /\ Cardinality(S \cup T) = Cardinality(S) + Cardinality(T)
<1>1. Cardinality(S \cap T) = 0
  BY FS_EmptySet
<1> QED
  BY <1>1, FS_Union, FS_CardinalityType

(* A worker that is not idle has a task; one that has not begun to fetch is *)
(* at its first batch, and one that is about to fetch or to classify is at  *)
(* a batch the task has.                                                    *)
InTask ==
  \A w \in Worker :
    /\ pc[w] # "idle" => job[w] \in Task
    /\ pc[w] \in {"get_src", "get_tgt", "stats"} => step[w] = 1
    /\ pc[w] \in {"fetch", "lock", "classify"} => step[w] \in DOMAIN Batches[job[w]]

(* Where a worker is says which connections it holds. *)
WithSource == {"get_tgt", "stats", "fetch", "lock", "classify", "put_src"}
WithTarget == {"stats", "fetch", "lock", "classify", "put_src", "put_tgt"}

Holding ==
  \A w \in Worker :
    /\ srcHeld[w] # None <=> pc[w] \in WithSource
    /\ tgtHeld[w] # None <=> pc[w] \in WithTarget

TypeInd == TypeInv /\ InTask /\ Holding

(* A batch is finite, so it has a natural number of differences. *)
LEMMA BatchCount ==
  ASSUME NEW t \in Task, NEW i \in DOMAIN Batches[t]
  PROVE  Cardinality(Batches[t][i]) \in Nat
<1>1. Batches[t] \in Seq(SUBSET Diff)
  BY BatchesAssumption
<1>2. Batches[t][i] \subseteq Diff
  BY <1>1
<1>3. IsFiniteSet(Batches[t][i])
  BY <1>2, BatchesAssumption, FS_Subset
<1> QED
  BY <1>3, FS_CardinalityType

LEMMA BatchesLen ==
  ASSUME NEW t \in Task
  PROVE  /\ Len(Batches[t]) \in Nat
         /\ DOMAIN Batches[t] = 1..Len(Batches[t])
         /\ Batches[t] # << >> => 1 \in DOMAIN Batches[t]
<1>1. Batches[t] \in Seq(SUBSET Diff)
  BY BatchesAssumption
<1> QED
  BY <1>1

LEMMA MemoryUpdate ==
  ASSUME mem \in [Worker -> Memory], NEW w \in Worker,
         NEW m \in Memory, mem' = [mem EXCEPT ![w] = m]
  PROVE  mem' \in [Worker -> Memory]
  OBVIOUS

LEMMA TypeInit == Init => TypeInd
<1> SUFFICES ASSUME Init PROVE TypeInd
  OBVIOUS
<1>1. TypeInv
  BY PoolAssumption DEF Init, TypeInv, WorkerPC, Memory
<1>2. InTask /\ Holding
  BY DEF Init, InTask, Holding, WithSource, WithTarget
<1> QED
  BY <1>1, <1>2 DEF TypeInd

LEMMA TypeStep == TypeInd /\ [Next]_vars => TypeInd'
<1> SUFFICES ASSUME TypeInd, [Next]_vars PROVE TypeInd'
  OBVIOUS
<1> USE PoolAssumption DEF TypeInd, TypeInv, InTask, Holding, WithSource, WithTarget
<1>1. CASE Submit
  BY <1>1 DEF Submit, pool, shared
<1>2. ASSUME NEW t \in Task, Observe(t) PROVE TypeInd'
  BY <1>2 DEF Observe, pool, shared
<1>3. CASE Leave
  BY <1>3 DEF Leave, pool, shared
<1>4. ASSUME NEW w \in Worker, TakeTask(w) PROVE TypeInd'
  <2>1. mem' \in [Worker -> Memory]
    <3>1. mem[w] \in Memory
      OBVIOUS
    <3>2. [mem[w] EXCEPT !.failed = FALSE] \in Memory
      BY <3>1 DEF Memory
    <3>3. mem' = [mem EXCEPT ![w] = [mem[w] EXCEPT !.failed = FALSE]]
      BY <1>4 DEF TakeTask
    <3> QED
      BY <3>2, <3>3, MemoryUpdate
  <2>2. taken' \in 0..submitted' /\ job' \in [Worker -> 0..NumTasks] /\ job'[w] \in Task
    <3>1. taken + 1 \in 1..submitted /\ taken + 1 \in 1..NumTasks
      BY <1>4 DEF TakeTask
    <3> QED
      BY <1>4, <3>1, SMTT(40) DEF TakeTask, Task, caller
  <2>3. step' \in [Worker -> Nat \ {0}]
    BY <1>4 DEF TakeTask
  <2>4. pc' \in [Worker -> WorkerPC] /\ pc'[w] = "get_src"
    BY <1>4 DEF TakeTask, Goto, WorkerPC
  <2>5. TypeInv'
    BY <1>4, <2>1, <2>2, <2>3, <2>4 DEF TakeTask, caller, pool, shared
  <2>6. InTask'
    BY <1>4, <2>2, <2>4 DEF TakeTask, Goto
  <2>7. Holding'
    BY <1>4 DEF TakeTask, Goto, pool
  <2> QED
    BY <2>5, <2>6, <2>7
<1>5. ASSUME NEW w \in Worker, AcquireSource(w) PROVE TypeInd'
  BY <1>5 DEF AcquireSource, Goto, WorkerPC, caller, shared
<1>6. ASSUME NEW w \in Worker, AcquireTarget(w) PROVE TypeInd'
  BY <1>6 DEF AcquireTarget, Goto, WorkerPC, caller, shared
<1>7. ASSUME NEW w \in Worker, Stats(w) PROVE TypeInd'
  <2>1. job[w] \in Task /\ step[w] = 1
    BY <1>7 DEF Stats, Goto
  <2>2. pc' \in [Worker -> WorkerPC] /\ pc'[w] \in {"fetch", "put_src"}
    BY <1>7 DEF Stats, Goto, WorkerPC
  <2>3. TypeInv'
    BY <1>7, <2>2 DEF Stats, caller, pool, shared
  <2>4. pc'[w] = "fetch" => step[w] \in DOMAIN Batches[job[w]]
    BY <1>7, <2>1, BatchesLen DEF Stats, Goto
  <2>5. InTask' /\ Holding'
    BY <1>7, <2>2, <2>4 DEF Stats, Goto, pool
  <2> QED
    BY <2>3, <2>5
<1>8. ASSUME NEW w \in Worker, Fetch(w) PROVE TypeInd'
  BY <1>8 DEF Fetch, Goto, WorkerPC, caller, pool, shared
<1>9. ASSUME NEW w \in Worker, QueryFails(w) PROVE TypeInd'
  <2>1. mem' \in [Worker -> Memory]
    <3>1. mem[w] \in Memory
      OBVIOUS
    <3>2. [mem[w] EXCEPT !.failed = TRUE] \in Memory
      BY <3>1 DEF Memory
    <3>3. mem' = [mem EXCEPT ![w] = [mem[w] EXCEPT !.failed = TRUE]]
      BY <1>9 DEF QueryFails
    <3> QED
      BY <3>2, <3>3, MemoryUpdate
  <2>2. pc' \in [Worker -> WorkerPC]
    BY <1>9 DEF QueryFails, Goto, WorkerPC
  <2>3. TypeInv'
    BY <1>9, <2>1, <2>2 DEF QueryFails, caller, pool, shared
  <2>4. InTask' /\ Holding'
    BY <1>9 DEF QueryFails, Goto, pool
  <2> QED
    BY <2>3, <2>4
<1>10. ASSUME NEW w \in Worker, Lock(w) PROVE TypeInd'
  <2>1. mem' \in [Worker -> Memory]
    <3>1. mem[w] \in Memory
      OBVIOUS
    <3>2. [mem[w] EXCEPT !.found = result.found, !.listed = result.listed] \in Memory
      BY <3>1 DEF Memory
    <3>3. mem' = [mem EXCEPT ![w] = [mem[w] EXCEPT !.found = result.found, !.listed = result.listed]]
      BY <1>10 DEF Lock
    <3> QED
      BY <3>2, <3>3, MemoryUpdate
  <2>2. pc' \in [Worker -> WorkerPC]
    BY <1>10 DEF Lock, Goto, WorkerPC
  <2>3. TypeInv'
    BY <1>10, <2>1, <2>2 DEF Lock, caller, pool
  <2>4. InTask' /\ Holding'
    BY <1>10 DEF Lock, Goto, pool
  <2> QED
    BY <2>3, <2>4
<1>11. ASSUME NEW w \in Worker, Classify(w) PROVE TypeInd'
  <2>1. job[w] \in Task /\ step[w] \in 1..Len(Batches[job[w]]) /\ Len(Batches[job[w]]) \in Nat
    BY <1>11, BatchesLen, SMTT(40) DEF Classify, Goto
  <2>2. Cardinality(Batches[job[w]][step[w]]) \in Nat
    BY <2>1, BatchCount, BatchesLen
  <2>3. result' \in [found : Nat, listed : Nat, truncated : BOOLEAN]
    <3>1. mem[w].found \in Nat /\ mem[w].listed \in Nat
      BY DEF Memory
    <3> DEFINE new == Cardinality(Batches[job[w]][step[w]])
    <3>2. /\ mem[w].found + new \in Nat
          /\ Lesser(mem[w].listed + new, MaxDiffRows) \in Nat
      BY <3>1, <2>2 DEF Lesser
    <3>3. (result.truncated \/ mem[w].listed + new > MaxDiffRows) \in BOOLEAN
      OBVIOUS
    <3> QED
      BY <1>11, <3>2, <3>3 DEF Classify
  <2>4. step' \in [Worker -> Nat \ {0}] /\ step'[w] = step[w] + 1
    BY <1>11, SMTT(40) DEF Classify
  <2>5. pc' \in [Worker -> WorkerPC] /\ pc'[w] \in {"fetch", "put_src"}
    BY <1>11 DEF Classify, Goto, WorkerPC
  <2>6. TypeInv'
    BY <1>11, <2>3, <2>4, <2>5 DEF Classify, caller, pool
  <2>7. pc'[w] = "fetch" => step'[w] \in DOMAIN Batches[job'[w]]
    BY <1>11, <2>1, <2>4, BatchesLen DEF Classify, Goto
  <2>8. InTask'
    BY <1>11, <2>5, <2>7 DEF Classify, Goto
  <2>9. Holding'
    BY <1>11 DEF Classify, Goto, pool
  <2> QED
    BY <2>6, <2>8, <2>9
<1>12. ASSUME NEW w \in Worker, ReleaseSource(w) PROVE TypeInd'
  <2>1. srcHeld[w] \in SrcConn
    BY <1>12 DEF ReleaseSource, Goto
  <2>2. pc' \in [Worker -> WorkerPC]
    BY <1>12 DEF ReleaseSource, Goto, WorkerPC
  <2>3. TypeInv'
    BY <1>12, <2>1, <2>2 DEF ReleaseSource, caller, shared
  <2>4. InTask' /\ Holding'
    BY <1>12 DEF ReleaseSource, Goto
  <2> QED
    BY <2>3, <2>4
<1>13. ASSUME NEW w \in Worker, ReleaseTarget(w) PROVE TypeInd'
  <2>1. tgtHeld[w] \in TgtConn
    BY <1>13 DEF ReleaseTarget, Goto
  <2>2. pc' \in [Worker -> WorkerPC] /\ pc'[w] \in {"idle", "count_lock"}
    BY <1>13 DEF ReleaseTarget, Goto, WorkerPC
  <2>3. future' \in [Task -> {"pending", "done", "failed"}]
    BY <1>13 DEF ReleaseTarget
  <2>4. TypeInv'
    BY <1>13, <2>1, <2>2, <2>3 DEF ReleaseTarget, caller, shared
  <2>5. InTask' /\ Holding'
    BY <1>13, <2>2 DEF ReleaseTarget, Goto
  <2> QED
    BY <2>4, <2>5
<1>14. ASSUME NEW w \in Worker, CountLock(w) PROVE TypeInd'
  <2>1. mem' \in [Worker -> Memory]
    <3>1. mem[w] \in Memory
      OBVIOUS
    <3>2. [mem[w] EXCEPT !.queries = queries] \in Memory
      BY <3>1 DEF Memory
    <3>3. mem' = [mem EXCEPT ![w] = [mem[w] EXCEPT !.queries = queries]]
      BY <1>14 DEF CountLock
    <3> QED
      BY <3>2, <3>3, MemoryUpdate
  <2>2. pc' \in [Worker -> WorkerPC]
    BY <1>14 DEF CountLock, Goto, WorkerPC
  <2>3. TypeInv'
    BY <1>14, <2>1, <2>2 DEF CountLock, caller, pool
  <2>4. InTask' /\ Holding'
    BY <1>14 DEF CountLock, Goto, pool
  <2> QED
    BY <2>3, <2>4
<1>15. ASSUME NEW w \in Worker, Count(w) PROVE TypeInd'
  <2>1. Cost(job[w]) \in Nat
    BY <1>15, BatchesLen DEF Count, Goto, Cost
  <2>2. queries' \in Nat
    BY <1>15, <2>1 DEF Count, Memory
  <2>3. pc' \in [Worker -> WorkerPC] /\ future' \in [Task -> {"pending", "done", "failed"}]
    BY <1>15 DEF Count, Goto, WorkerPC
  <2>4. TypeInv'
    BY <1>15, <2>2, <2>3 DEF Count, caller, pool
  <2>5. InTask' /\ Holding'
    BY <1>15 DEF Count, Goto, pool
  <2> QED
    BY <2>4, <2>5
<1>16. CASE UNCHANGED vars
  BY <1>16 DEF vars, caller, pool, shared
<1> QED
  BY <1>1, <1>2, <1>3, <1>4, <1>5, <1>6, <1>7, <1>8, <1>9, <1>10, <1>11, <1>12,
     <1>13, <1>14, <1>15, <1>16 DEF Next, Call, Work, Terminated

(* No thread ever puts anything but its own kind of connection into a pool, *)
(* counts below zero or uses a batch its task does not have.                *)
THEOREM TypeCorrect == Spec => []TypeInv
<1> QED
  BY TypeInit, TypeStep, PTL DEF Spec, TypeInd

-------------------------------------------------------------------------------
LEMMA ExclusiveInit == Init => ConnectionsExclusive
BY PoolAssumption DEF Init, ConnectionsExclusive

(* Only taking a connection and returning it touch the pools. *)
LEMMA ExclusiveStep ==
  TypeInd /\ ConnectionsExclusive /\ [Next]_vars => ConnectionsExclusive'
<1> SUFFICES ASSUME TypeInd, ConnectionsExclusive, [Next]_vars
             PROVE  ConnectionsExclusive'
  OBVIOUS
<1> USE PoolAssumption
<1>1. ASSUME UNCHANGED pool PROVE ConnectionsExclusive'
  BY <1>1 DEF ConnectionsExclusive, pool
<1>2. ASSUME NEW w \in Worker, AcquireSource(w) PROVE ConnectionsExclusive'
  <2>1. PICK c \in srcFree : /\ srcFree' = srcFree \ {c}
                             /\ srcHeld' = [srcHeld EXCEPT ![w] = c]
    BY <1>2 DEF AcquireSource
  <2>2. srcHeld[w] = None
    BY <1>2 DEF AcquireSource, Goto, TypeInd, Holding, WithSource
  <2>3. tgtHeld' = tgtHeld /\ tgtFree' = tgtFree
    BY <1>2 DEF AcquireSource
  <2>4. srcHeld \in [Worker -> SrcConn \cup {None}] /\ srcFree \subseteq SrcConn
    BY DEF TypeInd, TypeInv
  <2> QED
    BY <2>1, <2>2, <2>3, <2>4 DEF ConnectionsExclusive
<1>3. ASSUME NEW w \in Worker, AcquireTarget(w) PROVE ConnectionsExclusive'
  <2>1. PICK c \in tgtFree : /\ tgtFree' = tgtFree \ {c}
                             /\ tgtHeld' = [tgtHeld EXCEPT ![w] = c]
    BY <1>3 DEF AcquireTarget
  <2>2. tgtHeld[w] = None
    BY <1>3 DEF AcquireTarget, Goto, TypeInd, Holding, WithTarget
  <2>3. srcHeld' = srcHeld /\ srcFree' = srcFree
    BY <1>3 DEF AcquireTarget
  <2>4. tgtHeld \in [Worker -> TgtConn \cup {None}] /\ tgtFree \subseteq TgtConn
    BY DEF TypeInd, TypeInv
  <2> QED
    BY <2>1, <2>2, <2>3, <2>4 DEF ConnectionsExclusive
<1>4. ASSUME NEW w \in Worker, ReleaseSource(w) PROVE ConnectionsExclusive'
  <2>1. /\ srcFree' = srcFree \cup {srcHeld[w]}
        /\ srcHeld' = [srcHeld EXCEPT ![w] = None]
        /\ tgtHeld' = tgtHeld /\ tgtFree' = tgtFree
    BY <1>4 DEF ReleaseSource
  <2>2. srcHeld[w] \in SrcConn
    BY <1>4 DEF ReleaseSource, Goto, TypeInd, TypeInv, Holding, WithSource
  <2>3. srcHeld \in [Worker -> SrcConn \cup {None}] /\ srcFree \subseteq SrcConn
    BY DEF TypeInd, TypeInv
  <2> QED
    BY <2>1, <2>2, <2>3 DEF ConnectionsExclusive
<1>5. ASSUME NEW w \in Worker, ReleaseTarget(w) PROVE ConnectionsExclusive'
  <2>1. /\ tgtFree' = tgtFree \cup {tgtHeld[w]}
        /\ tgtHeld' = [tgtHeld EXCEPT ![w] = None]
        /\ srcHeld' = srcHeld /\ srcFree' = srcFree
    BY <1>5 DEF ReleaseTarget
  <2>2. tgtHeld[w] \in TgtConn
    BY <1>5 DEF ReleaseTarget, Goto, TypeInd, TypeInv, Holding, WithTarget
  <2>3. tgtHeld \in [Worker -> TgtConn \cup {None}] /\ tgtFree \subseteq TgtConn
    BY DEF TypeInd, TypeInv
  <2> QED
    BY <2>1, <2>2, <2>3 DEF ConnectionsExclusive
<1>6. \/ UNCHANGED pool
      \/ \E w \in Worker : \/ AcquireSource(w) \/ AcquireTarget(w)
                           \/ ReleaseSource(w) \/ ReleaseTarget(w)
  BY DEF Next, Call, Work, Submit, Observe, Leave, TakeTask, Stats, Fetch, QueryFails,
         Lock, Classify, CountLock, Count, Terminated, vars
<1> QED
  BY <1>1, <1>2, <1>3, <1>4, <1>5, <1>6

(* "A single synchronous connection can't run two queries at once" (class   *)
(* docstring of _ConnectorPool): whatever the interleaving and whichever    *)
(* tasks fail, no connection is with two workers, and none is lost.         *)
THEOREM Exclusive == Spec => []ConnectionsExclusive
<1>1. Init => TypeInd /\ ConnectionsExclusive
  BY TypeInit, ExclusiveInit
<1>2. TypeInd /\ ConnectionsExclusive /\ [Next]_vars => (TypeInd /\ ConnectionsExclusive)'
  BY TypeStep, ExclusiveStep
<1> QED
  BY <1>1, <1>2, PTL DEF Spec

-------------------------------------------------------------------------------
(* A task is with one worker until its future is set; nothing is taken      *)
(* before its turn.  Without this two threads could work on one segment.    *)
Owners ==
  /\ \A w \in Worker : pc[w] # "idle" => job[w] <= taken /\ future[job[w]] = "pending"
  /\ \A w, v \in Worker : pc[w] # "idle" /\ pc[v] # "idle" /\ job[w] = job[v] => w = v
  /\ \A t \in Task : t > taken => future[t] = "pending"

Locks ==
  \A w \in Worker : /\ lock = w <=> pc[w] = "classify"
                    /\ countLock = w <=> pc[w] = "count"

(* The calling thread knows of a failure as soon as it has seen one, and    *)
(* leaves when every future is set.                                         *)
Caller ==
  /\ \A t \in observed : future[t] # "pending"
  /\ main \in {"submitting", "collecting", "returned"} => \A t \in observed : future[t] = "done"
  /\ main \in {"raising", "raised"} => \E t \in Task : future[t] = "failed"
  /\ main = "returned" => observed = Task
  /\ Ended => \A t \in Task : future[t] # "pending"

PoolInd == TypeInd /\ ConnectionsExclusive /\ Owners /\ Locks /\ Caller

(* The differences the row fetches so far have brought to light. *)
SeenIn(t, i) ==
  future[t] = "done" \/ \E w \in Worker : pc[w] # "idle" /\ job[w] = t /\ i < step[w]

Seen == { d \in Diff : \E t \in Task : \E i \in DOMAIN Batches[t] :
                         d \in Batches[t][i] /\ SeenIn(t, i) }

(* A worker that has not failed is through with its batches before it gives *)
(* its connections back; one that holds a lock knows the counters.          *)
Through ==
  \A w \in Worker :
    /\ pc[w] \in {"put_src", "put_tgt", "count_lock", "count"} /\ ~mem[w].failed
         => step[w] > Len(Batches[job[w]])
    /\ pc[w] \in {"count_lock", "count"} => ~mem[w].failed
    /\ pc[w] = "classify" => mem[w].found = result.found /\ mem[w].listed = result.listed
    /\ pc[w] = "count" => mem[w].queries = queries

Asked(t) == {t} \X (1..Cost(t))

AskedSoFar == UNION { Asked(t) : t \in { u \in Task : future[u] = "done" } }

(* Unless a task has failed, the counters are those of what was seen. *)
Counted ==
  (\A t \in Task : future[t] # "failed") =>
    /\ result.found = Cardinality(Seen)
    /\ result.listed = Lesser(Cardinality(Seen), MaxDiffRows)
    /\ result.truncated <=> Cardinality(Seen) > MaxDiffRows

QueriesCounted == IsFiniteSet(AskedSoFar) /\ queries = Cardinality(AskedSoFar)

CountInd == PoolInd /\ Through /\ Counted /\ QueriesCounted

-------------------------------------------------------------------------------
(* When every connection is with a worker and one worker has none, there    *)
(* are more workers than connections.                                       *)
LEMMA AllHeld ==
  ASSUME NEW W, IsFiniteSet(W), NEW C, NEW held, NEW w \in W,
         held[w] \notin C,
         \A c \in C : \E v \in W : held[v] = c
  PROVE  Cardinality(C) < Cardinality(W)
<1> DEFINE others == W \ {w}
           holder == [c \in C |-> CHOOSE v \in W : held[v] = c]
<1>1. IsFiniteSet(others) /\ Cardinality(others) = Cardinality(W) - 1
  BY FS_RemoveElement
<1>2. ASSUME NEW c \in C PROVE holder[c] \in others /\ held[holder[c]] = c
  <2>1. holder[c] \in W /\ held[holder[c]] = c
    OBVIOUS
  <2> QED
    BY <2>1
<1>3. holder \in [C -> others]
  BY <1>2
<1>4. \A c, d \in C : holder[c] = holder[d] => c = d
  BY <1>2
<1> HIDE DEF others, holder
<1>5. holder \in Injection(C, others)
  BY <1>3, <1>4, Fun_IsInj
<1>6. Cardinality(C) <= Cardinality(others) /\ IsFiniteSet(C)
  BY <1>1, <1>5, FS_Injection
<1>7. Cardinality(C) \in Nat /\ Cardinality(W) \in Nat
  BY <1>6, FS_CardinalityType
<1> QED
  BY <1>1, <1>6, <1>7

(* threads = min(threads, both pool sizes): no get() ever blocks, so no     *)
(* worker holds a source connection while it waits for a target one.        *)
THEOREM NeverWaits == Spec => []NeverWaitsForConnection
<1>1. ASSUME TypeInd, ConnectionsExclusive PROVE NeverWaitsForConnection
  <2> USE <1>1
  <2>0. /\ IsFiniteSet(Worker) /\ None \notin SrcConn /\ None \notin TgtConn
        /\ IsFiniteSet(SrcConn) /\ IsFiniteSet(TgtConn)
    BY PoolAssumption
  <2>1. /\ Cardinality(Worker) \in Nat /\ Cardinality(SrcConn) \in Nat
        /\ Cardinality(TgtConn) \in Nat
    BY <2>0, FS_CardinalityType
  <2>2. ASSUME NEW w \in Worker, pc[w] = "get_src" PROVE srcFree # {}
    <3> SUFFICES ASSUME srcFree = {} PROVE FALSE
      OBVIOUS
    <3>1. srcHeld[w] \notin SrcConn
      BY <2>0, <2>2 DEF TypeInd, Holding, WithSource
    <3>2. \A c \in SrcConn : \E v \in Worker : srcHeld[v] = c
      BY DEF ConnectionsExclusive
    <3>3. Cardinality(SrcConn) < Cardinality(Worker)
      BY <2>0, <3>1, <3>2, AllHeld
    <3> QED
      BY <2>1, <3>3, ThreadsAssumption
  <2>3. ASSUME NEW w \in Worker, pc[w] = "get_tgt" PROVE tgtFree # {}
    <3> SUFFICES ASSUME tgtFree = {} PROVE FALSE
      OBVIOUS
    <3>1. tgtHeld[w] \notin TgtConn
      BY <2>0, <2>3 DEF TypeInd, Holding, WithTarget
    <3>2. \A c \in TgtConn : \E v \in Worker : tgtHeld[v] = c
      BY DEF ConnectionsExclusive
    <3>3. Cardinality(TgtConn) < Cardinality(Worker)
      BY <2>0, <3>1, <3>2, AllHeld
    <3> QED
      BY <2>1, <3>3, ThreadsAssumption
  <2> QED
    BY <2>2, <2>3 DEF NeverWaitsForConnection
<1>2. Init => TypeInd /\ ConnectionsExclusive
  BY TypeInit, ExclusiveInit
<1>3. TypeInd /\ ConnectionsExclusive /\ [Next]_vars => (TypeInd /\ ConnectionsExclusive)'
  BY TypeStep, ExclusiveStep
<1>4. TypeInd /\ ConnectionsExclusive => NeverWaitsForConnection
  BY <1>1
<1> QED
  BY <1>2, <1>3, <1>4, PTL DEF Spec

-------------------------------------------------------------------------------
(* What one step of a worker does to the others: nothing. *)
LEMMA OneWorker ==
  ASSUME TypeInv, NEW w \in Worker, NEW from \in WorkerPC, NEW to \in WorkerPC, Goto(w, from, to)
  PROVE  /\ pc[w] = from /\ pc'[w] = to
         /\ \A v \in Worker : v # w => pc'[v] = pc[v]
  BY DEF Goto, TypeInv

LEMMA LocksStep == TypeInd /\ Locks /\ [Next]_vars => Locks'
<1> SUFFICES ASSUME TypeInd, Locks, [Next]_vars PROVE Locks'
  OBVIOUS
<1> USE PoolAssumption DEF TypeInd, Locks
<1>0. pc \in [Worker -> WorkerPC] /\ None \notin Worker
  BY DEF TypeInv
<1>1. CASE Submit \/ Leave \/ \E t \in Task : Observe(t)
  BY <1>1 DEF Submit, Leave, Observe, shared
<1>2. ASSUME NEW w \in Worker, Work(w) PROVE Locks'
  <2>1. CASE Lock(w)
    BY <1>0, <2>1 DEF Lock, Goto
  <2>2. CASE Classify(w)
    BY <1>0, <2>2 DEF Classify, Goto
  <2>3. CASE CountLock(w)
    BY <1>0, <2>3 DEF CountLock, Goto
  <2>4. CASE Count(w)
    BY <1>0, <2>4 DEF Count, Goto
  <2>5. CASE TakeTask(w) \/ AcquireSource(w) \/ AcquireTarget(w)
    BY <1>0, <2>5 DEF TakeTask, AcquireSource, AcquireTarget, Goto, shared
  <2>6. CASE Stats(w) \/ Fetch(w) \/ QueryFails(w)
    BY <1>0, <2>6 DEF Stats, Fetch, QueryFails, Goto, shared
  <2>7. CASE ReleaseSource(w) \/ ReleaseTarget(w)
    BY <1>0, <2>7 DEF ReleaseSource, ReleaseTarget, Goto, shared
  <2> QED
    BY <1>2, <2>1, <2>2, <2>3, <2>4, <2>5, <2>6, <2>7 DEF Work
<1>3. CASE UNCHANGED vars
  BY <1>3 DEF vars, shared
<1> QED
  BY <1>1, <1>2, <1>3 DEF Next, Call, Terminated

(* A worker's step but for those that begin or end a task. *)
Inner(w) ==
  \/ AcquireSource(w) \/ AcquireTarget(w) \/ Stats(w) \/ Fetch(w) \/ QueryFails(w)
  \/ Lock(w) \/ Classify(w) \/ ReleaseSource(w)
  \/ ReleaseTarget(w) /\ ~mem[w].failed
  \/ CountLock(w)

LEMMA InnerFacts ==
  ASSUME TypeInd, NEW w \in Worker, Inner(w)
  PROVE  /\ UNCHANGED << caller, taken, future, job >>
         /\ pc[w] # "idle" /\ pc'[w] # "idle"
         /\ \A v \in Worker : v # w => pc'[v] = pc[v]
<1> USE DEF Goto
<1>0. pc \in [Worker -> WorkerPC]
  BY DEF TypeInd, TypeInv
<1>1. CASE AcquireSource(w) \/ AcquireTarget(w)
  BY <1>0, <1>1 DEF AcquireSource, AcquireTarget
<1>2. CASE Stats(w) \/ Fetch(w)
  BY <1>0, <1>2 DEF Stats, Fetch
<1>3. CASE QueryFails(w)
  BY <1>0, <1>3 DEF QueryFails
<1>4. CASE Lock(w) \/ CountLock(w)
  BY <1>0, <1>4 DEF Lock, CountLock
<1>5. CASE Classify(w)
  BY <1>0, <1>5 DEF Classify
<1>6. CASE ReleaseSource(w)
  BY <1>0, <1>6 DEF ReleaseSource
<1>7. CASE ReleaseTarget(w) /\ ~mem[w].failed
  BY <1>0, <1>7 DEF ReleaseTarget
<1> QED
  BY <1>1, <1>2, <1>3, <1>4, <1>5, <1>6, <1>7 DEF Inner

(* The two ways a task ends. *)
TaskEnds(w, how) ==
  /\ pc[w] \in {"put_tgt", "count"} /\ pc' = [pc EXCEPT ![w] = "idle"]
  /\ future' = [future EXCEPT ![job[w]] = how]
  /\ UNCHANGED << caller, taken, job >>

LEMMA WorkKinds ==
  ASSUME TypeInd, NEW w \in Worker, Work(w)
  PROVE  \/ Inner(w)
         \/ TakeTask(w)
         \/ ReleaseTarget(w) /\ mem[w].failed /\ TaskEnds(w, "failed")
         \/ Count(w) /\ TaskEnds(w, "done")
<1>1. ASSUME ReleaseTarget(w), mem[w].failed PROVE TaskEnds(w, "failed")
  BY <1>1 DEF ReleaseTarget, TaskEnds, Goto
<1>2. ASSUME Count(w) PROVE TaskEnds(w, "done")
  BY <1>2 DEF Count, TaskEnds, Goto
<1> QED
  BY <1>1, <1>2, Zenon DEF Work, Inner

LEMMA OwnersStep == TypeInd /\ Owners /\ [Next]_vars => Owners'
<1> SUFFICES ASSUME TypeInd, Owners, [Next]_vars PROVE Owners'
  OBVIOUS
<1>0. /\ pc \in [Worker -> WorkerPC] /\ job \in [Worker -> 0..NumTasks]
      /\ future \in [Task -> {"pending", "done", "failed"}]
      /\ taken \in 0..NumTasks /\ submitted \in 0..NumTasks /\ NumTasks \in Nat
      /\ \A v \in Worker : pc[v] # "idle" => job[v] \in Task
  BY PoolAssumption DEF TypeInd, TypeInv, InTask
<1>1. ASSUME UNCHANGED << taken, future, pc, job >> PROVE Owners'
  BY <1>1 DEF Owners
<1>2. ASSUME NEW w \in Worker, Inner(w) PROVE Owners'
  BY <1>2, InnerFacts DEF Owners
<1>3. ASSUME NEW w \in Worker, TakeTask(w) PROVE Owners'
  <2>1. /\ pc[w] = "idle" /\ pc' = [pc EXCEPT ![w] = "get_src"]
        /\ taken' = taken + 1 /\ job' = [job EXCEPT ![w] = taken + 1]
        /\ future' = future /\ taken + 1 \in Task
    BY <1>0, <1>3 DEF TakeTask, Goto, Task
  <2>2. /\ pc'[w] # "idle" /\ job'[w] = taken + 1
        /\ \A v \in Worker : v # w => pc'[v] = pc[v] /\ job'[v] = job[v]
    BY <1>0, <2>1
  <2>3. \A v \in Worker : v # w /\ pc[v] # "idle" => job[v] <= taken /\ job[v] # taken + 1
    BY <1>0 DEF Owners, Task
  <2>4. \A v \in Worker : pc'[v] # "idle" => job'[v] <= taken' /\ future'[job'[v]] = "pending"
    <3> TAKE v \in Worker
    <3>1. CASE v = w
      BY <1>0, <2>1, <2>2, <3>1 DEF Owners
    <3>2. CASE v # w
      BY <1>0, <2>1, <2>2, <3>2 DEF Owners, Task
    <3> QED
      BY <3>1, <3>2
  <2>5. \A u, v \in Worker : pc'[u] # "idle" /\ pc'[v] # "idle" /\ job'[u] = job'[v] => u = v
    BY <2>2, <2>3 DEF Owners
  <2>6. \A t \in Task : t > taken' => future'[t] = "pending"
    BY <1>0, <2>1 DEF Owners, Task
  <2> QED
    BY <2>4, <2>5, <2>6 DEF Owners
<1>4. ASSUME NEW w \in Worker, NEW how \in {"done", "failed"}, TaskEnds(w, how) PROVE Owners'
  <2>1. /\ pc[w] # "idle" /\ pc'[w] = "idle" /\ job[w] \in Task
        /\ \A v \in Worker : v # w => pc'[v] = pc[v]
        /\ \A t \in Task : t # job[w] => future'[t] = future[t]
        /\ UNCHANGED << taken, job >>
    BY <1>0, <1>4 DEF TaskEnds
  <2>2. \A v \in Worker : v # w /\ pc[v] # "idle" => job[v] # job[w] /\ job[v] \in Task
    BY <1>0, <2>1 DEF Owners
  <2>3. \A v \in Worker : pc'[v] # "idle" => job'[v] <= taken' /\ future'[job'[v]] = "pending"
    BY <2>1, <2>2 DEF Owners
  <2>4. \A u, v \in Worker : pc'[u] # "idle" /\ pc'[v] # "idle" /\ job'[u] = job'[v] => u = v
    BY <2>1 DEF Owners
  <2>5. job[w] <= taken
    BY <2>1 DEF Owners
  <2>6. \A t \in Task : t > taken' => future'[t] = "pending"
    BY <1>0, <2>1, <2>5 DEF Owners, Task
  <2> QED
    BY <2>3, <2>4, <2>6 DEF Owners
<1>5. CASE Submit \/ Leave \/ \E t \in Task : Observe(t)
  BY <1>1, <1>5 DEF Submit, Leave, Observe
<1>6. CASE UNCHANGED vars
  BY <1>1, <1>6 DEF vars
<1>7. CASE \E w \in Worker : Work(w)
  BY <1>2, <1>3, <1>4, <1>7, WorkKinds
<1> QED
  BY <1>5, <1>6, <1>7 DEF Next, Call, Terminated

LEMMA CallerStep == TypeInd /\ Owners /\ Caller /\ [Next]_vars => Caller'
<1> SUFFICES ASSUME TypeInd, Owners, Caller, [Next]_vars PROVE Caller'
  OBVIOUS
<1>0. /\ pc \in [Worker -> WorkerPC] /\ job \in [Worker -> 0..NumTasks]
      /\ future \in [Task -> {"pending", "done", "failed"}]
      /\ taken \in 0..NumTasks /\ submitted \in 0..NumTasks /\ NumTasks \in Nat
      /\ \A v \in Worker : pc[v] # "idle" => job[v] \in Task
      /\ observed \subseteq Task
  BY PoolAssumption DEF TypeInd, TypeInv, InTask
<1>1. ASSUME UNCHANGED << caller, future >> PROVE Caller'
  BY <1>1 DEF Caller, caller, Ended
<1>2. ASSUME NEW w \in Worker, Inner(w) PROVE Caller'
  BY <1>1, <1>2, InnerFacts
<1>3. ASSUME NEW w \in Worker, TakeTask(w) PROVE Caller'
  BY <1>1, <1>3 DEF TakeTask
<1>4. ASSUME NEW w \in Worker, NEW how \in {"done", "failed"}, TaskEnds(w, how) PROVE Caller'
  <2>1. /\ job[w] \in Task /\ future[job[w]] = "pending"
        /\ UNCHANGED << main, observed >>
        /\ future' = [future EXCEPT ![job[w]] = how]
    BY <1>0, <1>4 DEF TaskEnds, Owners, caller
  <2>2. \A t \in Task : future[t] # "pending" => future'[t] = future[t]
    BY <1>0, <2>1
  <2>3. ~Ended
    BY <2>1 DEF Caller
  <2> QED
    BY <1>0, <2>1, <2>2, <2>3 DEF Caller, Ended
<1>5. CASE Submit
  BY <1>5 DEF Submit, Caller, Ended
<1>6. ASSUME NEW t \in Task, Observe(t) PROVE Caller'
  BY <1>0, <1>6 DEF Observe, Caller, Ended
<1>7. CASE Leave
  BY <1>7 DEF Leave, Caller, Ended
<1>8. CASE UNCHANGED vars
  BY <1>1, <1>8 DEF vars
<1>9. CASE \E w \in Worker : Work(w)
  BY <1>2, <1>3, <1>4, <1>9, WorkKinds
<1> QED
  BY <1>5, <1>6, <1>7, <1>8, <1>9 DEF Next, Call, Terminated

LEMMA PoolInit == Init => PoolInd
<1> SUFFICES ASSUME Init PROVE PoolInd
  OBVIOUS
<1>1. TypeInd /\ ConnectionsExclusive
  BY TypeInit, ExclusiveInit
<1>2. Owners /\ Locks
  BY PoolAssumption DEF Init, Owners, Locks
<1>3. Caller
  BY DEF Init, Caller, Ended
<1> QED
  BY <1>1, <1>2, <1>3 DEF PoolInd

LEMMA PoolStep == PoolInd /\ [Next]_vars => PoolInd'
  BY TypeStep, ExclusiveStep, OwnersStep, LocksStep, CallerStep DEF PoolInd

(* A failure is never reported as a result, and when the call is over no    *)
(* thread uses a connection, a lock or the result any more: leaving the     *)
(* `with ThreadPoolExecutor` block waits for every task.                    *)
THEOREM Clean == Spec => []CleanExit
<1>1. ASSUME PoolInd PROVE CleanExit
  <2> USE <1>1 DEF PoolInd
  <2>1. main = "returned" => \A t \in Task : future[t] = "done"
    BY DEF Caller
  <2>2. main = "raised" => \E t \in Task : future[t] = "failed"
    BY DEF Caller
  <2>3. ASSUME Ended PROVE \A w \in Worker : pc[w] = "idle"
    <3>1. \A t \in Task : future[t] # "pending"
      BY <2>3 DEF Caller
    <3> QED
      BY <3>1 DEF Owners, TypeInd, InTask
  <2>4. ASSUME \A w \in Worker : pc[w] = "idle"
        PROVE  srcFree = SrcConn /\ tgtFree = TgtConn /\ lock = None /\ countLock = None
    <3>1. \A w \in Worker : srcHeld[w] = None /\ tgtHeld[w] = None
      BY <2>4 DEF TypeInd, Holding, WithSource, WithTarget
    <3>2. SrcConn \subseteq srcFree /\ TgtConn \subseteq tgtFree
      BY <3>1, PoolAssumption DEF ConnectionsExclusive
    <3>3. lock = None /\ countLock = None
      BY <2>4 DEF Locks, TypeInd, TypeInv
    <3> QED
      BY <3>2, <3>3 DEF TypeInd, TypeInv
  <2> QED
    BY <2>1, <2>2, <2>3, <2>4 DEF CleanExit
<1>2. PoolInd => CleanExit
  BY <1>1
<1> QED
  BY <1>2, PoolInit, PoolStep, PTL DEF Spec

-------------------------------------------------------------------------------
LEMMA TypeFacts ==
  ASSUME TypeInd
  PROVE  /\ pc \in [Worker -> WorkerPC] /\ job \in [Worker -> 0..NumTasks]
         /\ step \in [Worker -> Nat \ {0}] /\ mem \in [Worker -> Memory]
         /\ future \in [Task -> {"pending", "done", "failed"}]
         /\ \A v \in Worker : pc[v] # "idle" => job[v] \in Task
         /\ \A v \in Worker : /\ mem[v].found \in Nat /\ mem[v].listed \in Nat
                              /\ mem[v].queries \in Nat /\ mem[v].failed \in BOOLEAN
         /\ result.found \in Nat /\ result.listed \in Nat /\ result.truncated \in BOOLEAN
         /\ queries \in Nat
  BY DEF TypeInd, TypeInv, InTask, Memory

ThroughOf(w) ==
  /\ pc[w] \in {"put_src", "put_tgt", "count_lock", "count"} /\ ~mem[w].failed
       => step[w] > Len(Batches[job[w]])
  /\ pc[w] \in {"count_lock", "count"} => ~mem[w].failed
  /\ pc[w] = "classify" => mem[w].found = result.found /\ mem[w].listed = result.listed
  /\ pc[w] = "count" => mem[w].queries = queries

LEMMA ThroughIs == Through <=> \A w \in Worker : ThroughOf(w)
  BY DEF Through, ThroughOf

(* Of the other workers: only the holder of a lock changes its counters.    *)
LEMMA OthersThrough ==
  ASSUME TypeInd, Locks, Through, NEW w \in Worker, Work(w), NEW v \in Worker, v # w
  PROVE  ThroughOf(v)'
<1> USE TypeFacts DEF Goto
<1>1. pc'[v] = pc[v] /\ job'[v] = job[v] /\ step'[v] = step[v] /\ mem'[v] = mem[v]
  <2>1. CASE TakeTask(w) \/ AcquireSource(w) \/ AcquireTarget(w)
    BY <2>1 DEF TakeTask, AcquireSource, AcquireTarget
  <2>2. CASE Stats(w) \/ Fetch(w) \/ QueryFails(w)
    BY <2>2 DEF Stats, Fetch, QueryFails
  <2>3. CASE Lock(w) \/ Classify(w)
    BY <2>3 DEF Lock, Classify
  <2>4. CASE ReleaseSource(w) \/ ReleaseTarget(w)
    BY <2>4 DEF ReleaseSource, ReleaseTarget
  <2>5. CASE CountLock(w) \/ Count(w)
    BY <2>5 DEF CountLock, Count
  <2> QED
    BY <2>1, <2>2, <2>3, <2>4, <2>5 DEF Work
<1>2. \/ UNCHANGED << result, queries >>
      \/ Classify(w) /\ queries' = queries /\ pc[v] # "classify"
      \/ Count(w) /\ result' = result /\ pc[v] # "count"
  <2>1. CASE TakeTask(w) \/ AcquireSource(w) \/ AcquireTarget(w) \/ Stats(w) \/ Fetch(w)
    BY <2>1 DEF TakeTask, AcquireSource, AcquireTarget, Stats, Fetch, shared
  <2>2. CASE QueryFails(w) \/ Lock(w) \/ ReleaseSource(w) \/ ReleaseTarget(w) \/ CountLock(w)
    BY <2>2 DEF QueryFails, Lock, ReleaseSource, ReleaseTarget, CountLock, shared
  <2>3. CASE Classify(w)
    BY <2>3 DEF Classify, Locks
  <2>4. CASE Count(w)
    BY <2>4 DEF Count, Locks
  <2> QED
    BY <2>1, <2>2, <2>3, <2>4 DEF Work
<1>3. ThroughOf(v)
  BY ThroughIs
<1> QED
  BY <1>1, <1>2, <1>3 DEF ThroughOf

LEMMA OwnThrough ==
  ASSUME TypeInd, Locks, Through, NEW w \in Worker, Work(w)
  PROVE  ThroughOf(w)'
<1> USE TypeFacts DEF Goto
<1>0. ThroughOf(w)
  BY ThroughIs
<1>1. CASE TakeTask(w) \/ AcquireSource(w) \/ AcquireTarget(w) \/ Fetch(w)
  <2>1. pc'[w] \in {"get_src", "get_tgt", "stats", "lock"}
    BY <1>1 DEF TakeTask, AcquireSource, AcquireTarget, Fetch
  <2> QED
    BY <2>1 DEF ThroughOf
<1>2. CASE Stats(w)
  <2>1. /\ step'[w] = step[w] /\ step[w] = 1 /\ job'[w] = job[w] /\ job[w] \in Task
    BY <1>2 DEF Stats, TypeInd, InTask
  <2>2. pc'[w] = "fetch" \/ (pc'[w] = "put_src" /\ Batches[job[w]] = << >>)
    BY <1>2 DEF Stats
  <2> QED
    BY <2>1, <2>2 DEF ThroughOf
<1>3. CASE QueryFails(w)
  <2>1. pc'[w] = "put_src" /\ mem'[w].failed
    BY <1>3 DEF QueryFails, Memory
  <2> QED
    BY <2>1 DEF ThroughOf
<1>4. CASE Lock(w)
  <2>1. /\ pc'[w] = "classify" /\ result' = result
        /\ mem'[w].found = result.found /\ mem'[w].listed = result.listed
    BY <1>4 DEF Lock, Memory
  <2> QED
    BY <2>1 DEF ThroughOf
<1>5. CASE Classify(w)
  <2>1. /\ step'[w] = step[w] + 1 /\ job'[w] = job[w] /\ step[w] \in Nat /\ job[w] \in Task
        /\ pc'[w] = "fetch" \/ (pc'[w] = "put_src" /\ ~(step[w] < Len(Batches[job[w]])))
    BY <1>5 DEF Classify
  <2>2. Len(Batches[job[w]]) \in Nat
    BY <2>1, BatchesLen
  <2> QED
    BY <2>1, <2>2 DEF ThroughOf
<1>6. CASE ReleaseSource(w)
  BY <1>0, <1>6 DEF ReleaseSource, ThroughOf, shared
<1>7. CASE ReleaseTarget(w)
  <2>1. /\ UNCHANGED << job, step, mem >> /\ pc[w] = "put_tgt"
        /\ pc'[w] = "idle" \/ (pc'[w] = "count_lock" /\ ~mem[w].failed)
    BY <1>7 DEF ReleaseTarget
  <2> QED
    BY <1>0, <2>1 DEF ThroughOf
<1>8. CASE CountLock(w)
  <2>1. /\ pc[w] = "count_lock" /\ pc'[w] = "count" /\ UNCHANGED << job, step, queries >>
        /\ mem'[w].failed = mem[w].failed /\ mem'[w].queries = queries
    BY <1>8 DEF CountLock, Memory
  <2> QED
    BY <1>0, <2>1 DEF ThroughOf
<1>9. CASE Count(w)
  <2>1. pc'[w] = "idle"
    BY <1>9 DEF Count
  <2> QED
    BY <2>1 DEF ThroughOf
<1> QED
  BY <1>1, <1>2, <1>3, <1>4, <1>5, <1>6, <1>7, <1>8, <1>9 DEF Work

LEMMA ThroughStep == TypeInd /\ Locks /\ Through /\ [Next]_vars => Through'
<1> SUFFICES ASSUME TypeInd, Locks, Through, [Next]_vars PROVE Through'
  OBVIOUS
<1>0. Through' <=> \A w \in Worker : ThroughOf(w)'
  BY DEF Through, ThroughOf
<1>1. ASSUME NEW w \in Worker, Work(w) PROVE \A v \in Worker : ThroughOf(v)'
  <2>1. ASSUME NEW v \in Worker, v # w PROVE ThroughOf(v)'
    BY <1>1, <2>1, OthersThrough
  <2>2. ThroughOf(w)'
    BY <1>1, OwnThrough
  <2> QED
    BY <2>1, <2>2
<1>2. ASSUME UNCHANGED << pc, job, step, mem, result, queries >> PROVE Through'
  BY <1>2 DEF Through
<1>3. CASE Submit \/ Leave \/ \E t \in Task : Observe(t)
  BY <1>2, <1>3 DEF Submit, Leave, Observe, shared
<1>4. CASE UNCHANGED vars
  BY <1>2, <1>4 DEF vars, shared
<1> QED
  BY <1>0, <1>1, <1>3, <1>4 DEF Next, Call, Terminated

-------------------------------------------------------------------------------
NoFailure == \A t \in Task : future[t] # "failed"

LEMMA SeenFinite == IsFiniteSet(Seen) /\ Cardinality(Seen) \in Nat
<1>1. Seen \in SUBSET Diff /\ IsFiniteSet(Diff)
  BY BatchesAssumption DEF Seen
<1> QED
  BY <1>1, FS_Subset, FS_CardinalityType

LEMMA SameSeen ==
  ASSUME \A t \in Task : \A i \in DOMAIN Batches[t] : SeenIn(t, i)' <=> SeenIn(t, i)
  PROVE  Seen' = Seen
  BY DEF Seen

LEMMA StepsSeen ==
  ASSUME TypeInd, NEW w \in Worker, Inner(w), ~Classify(w)
  PROVE  Seen' = Seen /\ UNCHANGED << result, queries, future >>
<1> USE TypeFacts
<1>1. UNCHANGED << step, result, queries >>
  BY DEF Inner, AcquireSource, AcquireTarget, Stats, Fetch, QueryFails, Lock, ReleaseSource,
         ReleaseTarget, CountLock, shared
<1>2. /\ UNCHANGED << future, job >>
      /\ pc[w] # "idle" /\ pc'[w] # "idle"
      /\ \A v \in Worker : v # w => pc'[v] = pc[v]
  BY InnerFacts
<1>3. \A v \in Worker : pc'[v] # "idle" <=> pc[v] # "idle"
  BY <1>2
<1>4. \A t \in Task : \A i \in DOMAIN Batches[t] : SeenIn(t, i)' <=> SeenIn(t, i)
  BY <1>1, <1>2, <1>3 DEF SeenIn
<1> QED
  BY <1>1, <1>2, <1>4, SameSeen

LEMMA TakeSeen ==
  ASSUME TypeInd, NEW w \in Worker, TakeTask(w)
  PROVE  Seen' = Seen /\ UNCHANGED << result, queries, future >>
<1> USE TypeFacts
<1>1. /\ pc[w] = "idle" /\ step'[w] = 1 /\ UNCHANGED << future, result, queries >>
      /\ \A v \in Worker : v # w => pc'[v] = pc[v] /\ job'[v] = job[v] /\ step'[v] = step[v]
  BY DEF TakeTask, Goto, shared
<1>2. ASSUME NEW t \in Task, NEW i \in DOMAIN Batches[t]
      PROVE  SeenIn(t, i)' <=> SeenIn(t, i)
  <2>1. i \in Nat /\ ~(i < 1)
    BY BatchesLen
  <2>2. ASSUME SeenIn(t, i) PROVE SeenIn(t, i)'
    BY <1>1, <2>2 DEF SeenIn
  <2>3. ASSUME SeenIn(t, i)' PROVE SeenIn(t, i)
    BY <1>1, <2>1, <2>3 DEF SeenIn
  <2> QED
    BY <2>2, <2>3
<1> QED
  BY <1>1, <1>2, SameSeen

(* A task that is done has been seen whole already. *)
LEMMA DoneSeen ==
  ASSUME TypeInd, Owners, Through, NEW w \in Worker, Count(w)
  PROVE  Seen' = Seen /\ result' = result
<1> USE TypeFacts
<1>1. /\ pc[w] = "count" /\ pc'[w] = "idle" /\ UNCHANGED << job, step, result >>
      /\ job[w] \in Task
      /\ \A v \in Worker : v # w => pc'[v] = pc[v]
      /\ future' = [future EXCEPT ![job[w]] = "done"]
  BY DEF Count, Goto
<1>2. step[w] > Len(Batches[job[w]])
  BY <1>1 DEF Through
<1>3. ASSUME NEW t \in Task, NEW i \in DOMAIN Batches[t]
      PROVE  SeenIn(t, i)' <=> SeenIn(t, i)
  <2>1. CASE t = job[w]
    <3>1. i < step[w]
      BY <1>1, <1>2, <2>1, BatchesLen
    <3>2. SeenIn(t, i)
      BY <1>1, <2>1, <3>1 DEF SeenIn
    <3>3. SeenIn(t, i)'
      BY <1>1, <2>1 DEF SeenIn
    <3> QED
      BY <3>2, <3>3
  <2>2. CASE t # job[w]
    <3>1. future'[t] = future[t]
      BY <1>1, <2>2
    <3>2. ASSUME SeenIn(t, i) PROVE SeenIn(t, i)'
      BY <1>1, <2>2, <3>1, <3>2 DEF SeenIn
    <3>3. ASSUME SeenIn(t, i)' PROVE SeenIn(t, i)
      BY <1>1, <2>2, <3>1, <3>3 DEF SeenIn
    <3> QED
      BY <3>2, <3>3
  <2> QED
    BY <2>1, <2>2
<1> QED
  BY <1>1, <1>3, SameSeen

(* One row fetch adds its batch, which nobody has seen before.              *)
LEMMA ClassifySeen ==
  ASSUME TypeInd, Owners, NEW w \in Worker, Classify(w)
  PROVE  /\ Seen' = Seen \cup Batches[job[w]][step[w]]
         /\ Cardinality(Seen') = Cardinality(Seen) + Cardinality(Batches[job[w]][step[w]])
<1> USE TypeFacts
<1>1. /\ pc[w] = "classify" /\ pc'[w] # "idle" /\ UNCHANGED << job, future >>
      /\ step' = [step EXCEPT ![w] = step[w] + 1]
      /\ \A v \in Worker : v # w => pc'[v] = pc[v]
  BY DEF Classify, Goto
<1>2. job[w] \in Task /\ step[w] \in DOMAIN Batches[job[w]] /\ step[w] \in Nat
  BY <1>1 DEF TypeInd, InTask
<1>9. PICK t0 \in Task : t0 = job[w]
  BY <1>2
<1>10. PICK i0 \in DOMAIN Batches[t0] : i0 = step[w]
  BY <1>2, <1>9
<1> DEFINE batch == Batches[t0][i0]
<1> USE <1>9, <1>10
<1>3. ASSUME NEW t \in Task, NEW i \in DOMAIN Batches[t]
      PROVE  SeenIn(t, i)' <=> (SeenIn(t, i) \/ (t = t0 /\ i = i0))
  <2>1. i \in Nat
    BY BatchesLen
  <2>2. step'[w] = i0 + 1 /\ \A v \in Worker : v # w => step'[v] = step[v]
    BY <1>1
  <2>3. i < i0 + 1 <=> i < i0 \/ i = i0
    BY <1>2, <2>1
  <2>4. ASSUME SeenIn(t, i) PROVE SeenIn(t, i)'
    BY <1>1, <2>2, <2>3, <2>4 DEF SeenIn
  <2>5. ASSUME t = t0, i = i0 PROVE SeenIn(t, i)'
    BY <1>1, <2>2, <2>3, <2>5 DEF SeenIn
  <2>6. ASSUME SeenIn(t, i)' PROVE SeenIn(t, i) \/ (t = t0 /\ i = i0)
    BY <1>1, <2>2, <2>3, <2>6 DEF SeenIn
  <2> QED
    BY <2>4, <2>5, <2>6
<1>4. ~SeenIn(t0, i0)
  <2>1. future[t0] = "pending"
    BY <1>1 DEF Owners
  <2>2. \A v \in Worker : pc[v] # "idle" /\ job[v] = t0 => v = w
    BY <1>1 DEF Owners
  <2>3. ~(i0 < i0)
    BY <1>2
  <2> QED
    BY <2>1, <2>2, <2>3 DEF SeenIn
<1>5. batch \in SUBSET Diff /\ IsFiniteSet(batch)
  <2>1. Batches[t0] \in Seq(SUBSET Diff) /\ IsFiniteSet(Diff)
    BY <1>2, BatchesAssumption
  <2>2. batch \in SUBSET Diff
    BY <1>2, <2>1
  <2> HIDE DEF batch
  <2> QED
    BY <2>1, <2>2, FS_Subset
<1>6. Seen' = Seen \cup batch
  <2>0. Seen' = { d \in Diff : \E t \in Task : \E i \in DOMAIN Batches[t] :
                                 d \in Batches[t][i] /\ SeenIn(t, i)' }
    BY DEF Seen
  <2>1. ASSUME NEW d \in Seen' PROVE d \in Seen \cup batch
    <3>1. PICK t \in Task : \E i \in DOMAIN Batches[t] : d \in Batches[t][i] /\ SeenIn(t, i)'
      BY <2>0
    <3>2. PICK i \in DOMAIN Batches[t] : d \in Batches[t][i] /\ SeenIn(t, i)'
      BY <3>1
    <3>3. CASE t = t0 /\ i = i0
      BY <3>2, <3>3
    <3>4. CASE SeenIn(t, i)
      <4>1. d \in Diff
        BY <2>1 DEF Seen
      <4> QED
        BY <3>2, <3>4, <4>1 DEF Seen
    <3> QED
      BY <1>3, <3>2, <3>3, <3>4
  <2>2. ASSUME NEW d \in Seen PROVE d \in Seen'
    BY <1>3, <2>2 DEF Seen
  <2>3. ASSUME NEW d \in batch PROVE d \in Seen'
    <3>1. SeenIn(t0, i0)'
      BY <1>2, <1>3
    <3>2. d \in Diff
      BY <1>5, <2>3
    <3> QED
      BY <1>2, <2>3, <3>1, <3>2 DEF Seen
  <2> QED
    BY <2>1, <2>2, <2>3
<1>7. Seen \cap batch = {}
  <2> SUFFICES ASSUME NEW d \in Seen, d \in batch PROVE FALSE
    OBVIOUS
  <2>1. PICK t \in Task : \E i \in DOMAIN Batches[t] : d \in Batches[t][i] /\ SeenIn(t, i)
    BY DEF Seen
  <2>2. PICK i \in DOMAIN Batches[t] : d \in Batches[t][i] /\ SeenIn(t, i)
    BY <2>1
  <2>3. << t, i >> # << t0, i0 >>
    BY <1>4, <2>2
  <2>4. Batches[t][i] \cap Batches[t0][i0] = {}
    BY <1>2, <2>3, BatchesAssumption
  <2> QED
    BY <2>2, <2>4
<1> HIDE DEF batch
<1>8. Cardinality(Seen \cup batch) = Cardinality(Seen) + Cardinality(batch)
  BY <1>5, <1>7, SeenFinite, DisjointUnion
<1> QED
  BY <1>6, <1>8 DEF batch

LEMMA LesserAdds ==
  ASSUME NEW s \in Nat, NEW n \in Nat, NEW m \in Nat
  PROVE  /\ Lesser(Lesser(s, m) + n, m) = Lesser(s + n, m)
         /\ (s > m \/ Lesser(s, m) + n > m) <=> s + n > m
  BY DEF Lesser

LEMMA CountedStep ==
  TypeInd /\ Owners /\ Through /\ Counted /\ [Next]_vars => Counted'
<1> SUFFICES ASSUME TypeInd, Owners, Through, Counted, [Next]_vars PROVE Counted'
  OBVIOUS
<1> USE TypeFacts
<1>1. ASSUME Seen' = Seen, result' = result, NoFailure' => NoFailure PROVE Counted'
  BY <1>1 DEF Counted, NoFailure
<1>2. ASSUME NEW w \in Worker, Inner(w), ~Classify(w) PROVE Counted'
  BY <1>1, <1>2, StepsSeen DEF NoFailure
<1>3. ASSUME NEW w \in Worker, TakeTask(w) PROVE Counted'
  BY <1>1, <1>3, TakeSeen DEF NoFailure
<1>4. ASSUME NEW w \in Worker, ReleaseTarget(w), TaskEnds(w, "failed") PROVE Counted'
  <2>1. job[w] \in Task /\ future'[job[w]] = "failed"
    BY <1>4 DEF TaskEnds
  <2> QED
    BY <2>1 DEF Counted
<1>5. ASSUME NEW w \in Worker, Count(w), TaskEnds(w, "done") PROVE Counted'
  <2>1. NoFailure' => NoFailure
    <3>1. job[w] \in Task /\ pc[w] # "idle" /\ future' = [future EXCEPT ![job[w]] = "done"]
      BY <1>5 DEF TaskEnds
    <3>2. future[job[w]] = "pending"
      BY <3>1 DEF Owners
    <3> QED
      BY <3>1, <3>2 DEF NoFailure
  <2> QED
    BY <1>1, <1>5, <2>1, DoneSeen
<1>6. ASSUME NEW w \in Worker, Classify(w) PROVE Counted'
  <2> SUFFICES ASSUME NoFailure'
               PROVE  /\ result'.found = Cardinality(Seen')
                      /\ result'.listed = Lesser(Cardinality(Seen'), MaxDiffRows)
                      /\ result'.truncated <=> Cardinality(Seen') > MaxDiffRows
    BY DEF Counted, NoFailure
  <2> DEFINE s == Cardinality(Seen)
             n == Cardinality(Batches[job[w]][step[w]])
             wants == mem[w].listed + n
  <2>1. NoFailure
    BY <1>6 DEF Classify, NoFailure
  <2>2. /\ result.found = s /\ result.listed = Lesser(s, MaxDiffRows)
        /\ result.truncated <=> s > MaxDiffRows
    BY <2>1 DEF Counted, NoFailure
  <2>3. mem[w].found = result.found /\ mem[w].listed = result.listed
    BY <1>6 DEF Classify, Goto, Through
  <2>4. result' = [found |-> mem[w].found + n, listed |-> Lesser(wants, MaxDiffRows),
                   truncated |-> result.truncated \/ wants > MaxDiffRows]
    BY <1>6 DEF Classify
  <2>5. n \in Nat
    <3>1. job[w] \in Task /\ step[w] \in DOMAIN Batches[job[w]]
      BY <1>6 DEF Classify, Goto, TypeInd, InTask
    <3> QED
      BY <3>1, BatchCount
  <2>6. s \in Nat /\ MaxDiffRows \in Nat
    BY SeenFinite, PoolAssumption
  <2>7. Cardinality(Seen') = s + n
    BY <1>6, ClassifySeen
  <2> HIDE DEF s, n
  <2>8. wants = Lesser(s, MaxDiffRows) + n
    BY <2>2, <2>3
  <2>9. /\ Lesser(wants, MaxDiffRows) = Lesser(s + n, MaxDiffRows)
        /\ (s > MaxDiffRows \/ wants > MaxDiffRows) <=> s + n > MaxDiffRows
    <3>1. /\ Lesser(Lesser(s, MaxDiffRows) + n, MaxDiffRows) = Lesser(s + n, MaxDiffRows)
          /\ (s > MaxDiffRows \/ Lesser(s, MaxDiffRows) + n > MaxDiffRows)
               <=> s + n > MaxDiffRows
      BY <2>5, <2>6, LesserAdds, Zenon
    <3> HIDE DEF wants
    <3> QED
      BY <2>8, <3>1, Zenon
  <2> HIDE DEF wants
  <2>10. result'.found = s + n /\ result'.listed = Lesser(s + n, MaxDiffRows)
    BY <2>2, <2>3, <2>4, <2>9
  <2>11. result'.truncated <=> (result.truncated \/ wants > MaxDiffRows)
    BY <2>4, Zenon
  <2>12. result'.truncated <=> s + n > MaxDiffRows
    BY <2>2, <2>9, <2>11, Zenon
  <2> QED
    BY <2>7, <2>10, <2>12
<1>7. ASSUME UNCHANGED << future, pc, job, step, result >> PROVE Counted'
  <2>1. Seen' = Seen
    BY <1>7 DEF Seen, SeenIn
  <2> QED
    BY <1>1, <1>7, <2>1 DEF NoFailure
<1>8. CASE Submit \/ Leave \/ \E t \in Task : Observe(t)
  BY <1>7, <1>8 DEF Submit, Leave, Observe, shared
<1>9. CASE UNCHANGED vars
  BY <1>7, <1>9 DEF vars, shared
<1>10. CASE \E w \in Worker : Work(w)
  BY <1>2, <1>3, <1>4, <1>5, <1>6, <1>10, WorkKinds
<1> QED
  BY <1>8, <1>9, <1>10 DEF Next, Call, Terminated

-------------------------------------------------------------------------------
(* The queries of one task, as many pairs as it asks. *)
LEMMA AskedCount ==
  ASSUME NEW t \in Task
  PROVE  Cost(t) \in Nat /\ IsFiniteSet(Asked(t)) /\ Cardinality(Asked(t)) = Cost(t)
<1>1. Cost(t) \in Nat
  BY BatchesLen DEF Cost
<1>2. IsFiniteSet({t}) /\ Cardinality({t}) = 1
  BY FS_Singleton
<1>3. IsFiniteSet(1..Cost(t)) /\ Cardinality(1..Cost(t)) = Cost(t)
  <2>1. \A n \in Nat : IsFiniteSet(1..n) /\ Cardinality(1..n) = n
    <3> TAKE n \in Nat
    <3>1. IsFiniteSet(1..n) /\ Cardinality(1..n) = IF 1 > n THEN 0 ELSE n - 1 + 1
      BY FS_Interval
    <3> QED
      BY <3>1
  <2> QED
    BY <1>1, <2>1
<1>4. /\ IsFiniteSet({t} \X (1..Cost(t)))
      /\ Cardinality({t} \X (1..Cost(t))) = Cardinality({t}) * Cardinality(1..Cost(t))
  <2> HIDE DEF Cost
  <2> QED
    BY <1>2, <1>3, FS_Product
<1> QED
  BY <1>1, <1>2, <1>3, <1>4 DEF Asked

LEMMA QueriesStep ==
  TypeInd /\ Owners /\ Through /\ QueriesCounted /\ [Next]_vars => QueriesCounted'
<1> SUFFICES ASSUME TypeInd, Owners, Through, QueriesCounted, [Next]_vars
             PROVE  QueriesCounted'
  OBVIOUS
<1> USE TypeFacts
<1>1. ASSUME UNCHANGED << future, queries >> PROVE QueriesCounted'
  BY <1>1 DEF QueriesCounted, AskedSoFar
<1>2. ASSUME NEW w \in Worker, Inner(w), ~Classify(w) PROVE QueriesCounted'
  BY <1>1, <1>2, StepsSeen
<1>3. ASSUME NEW w \in Worker, TakeTask(w) PROVE QueriesCounted'
  BY <1>1, <1>3, TakeSeen
<1>4. ASSUME NEW w \in Worker, Classify(w) PROVE QueriesCounted'
  BY <1>1, <1>4 DEF Classify
<1>5. ASSUME NEW w \in Worker, ReleaseTarget(w), TaskEnds(w, "failed") PROVE QueriesCounted'
  <2>1. /\ job[w] \in Task /\ pc[w] # "idle"
        /\ future' = [future EXCEPT ![job[w]] = "failed"] /\ queries' = queries
    BY <1>5 DEF TaskEnds, ReleaseTarget, shared
  <2>2. future[job[w]] = "pending"
    BY <2>1 DEF Owners
  <2>3. \A u \in Task : future'[u] = "done" <=> future[u] = "done"
    BY <2>1, <2>2
  <2>4. { u \in Task : future'[u] = "done" } = { u \in Task : future[u] = "done" }
    BY <2>3
  <2>5. AskedSoFar' = AskedSoFar
    BY <2>4 DEF AskedSoFar
  <2> QED
    BY <2>1, <2>5 DEF QueriesCounted
<1>6. ASSUME NEW w \in Worker, Count(w), TaskEnds(w, "done") PROVE QueriesCounted'
  <2>1. /\ job[w] \in Task /\ pc[w] = "count"
        /\ future' = [future EXCEPT ![job[w]] = "done"]
        /\ queries' = mem[w].queries + Cost(job[w])
    BY <1>6 DEF TaskEnds, Count, Goto
  <2>2. future[job[w]] = "pending" /\ mem[w].queries = queries
    BY <2>1 DEF Owners, Through
  <2>3. PICK t \in Task : t = job[w]
    BY <2>1
  <2>4. \A u \in Task : future'[u] = "done" <=> future[u] = "done" \/ u = t
    BY <2>1, <2>3
  <2>5. { u \in Task : future'[u] = "done" } = { u \in Task : future[u] = "done" } \cup {t}
    BY <2>4
  <2>6. AskedSoFar' = AskedSoFar \cup Asked(t)
    BY <2>5 DEF AskedSoFar
  <2>7. AskedSoFar \cap Asked(t) = {}
    BY <2>2, <2>3 DEF AskedSoFar, Asked
  <2>8. /\ IsFiniteSet(AskedSoFar) /\ queries = Cardinality(AskedSoFar)
        /\ IsFiniteSet(Asked(t)) /\ Cardinality(Asked(t)) = Cost(t)
    BY AskedCount DEF QueriesCounted
  <2>9. /\ IsFiniteSet(AskedSoFar \cup Asked(t))
        /\ Cardinality(AskedSoFar \cup Asked(t)) = Cardinality(AskedSoFar) + Cardinality(Asked(t))
    BY <2>7, <2>8, DisjointUnion
  <2>10. queries' = queries + Cost(t)
    BY <2>1, <2>2, <2>3
  <2>11. QueriesCounted' <=> IsFiniteSet(AskedSoFar') /\ queries' = Cardinality(AskedSoFar')
    BY DEF QueriesCounted
  <2> QED
    BY <2>6, <2>8, <2>9, <2>10, <2>11
<1>7. CASE Submit \/ Leave \/ \E t \in Task : Observe(t)
  BY <1>1, <1>7 DEF Submit, Leave, Observe, shared
<1>8. CASE UNCHANGED vars
  BY <1>1, <1>8 DEF vars, shared
<1>9. CASE \E w \in Worker : Work(w)
  BY <1>2, <1>3, <1>4, <1>5, <1>6, <1>9, WorkKinds
<1> QED
  BY <1>7, <1>8, <1>9 DEF Next, Call, Terminated

LEMMA CountInit == Init => CountInd
<1> SUFFICES ASSUME Init PROVE CountInd
  OBVIOUS
<1>1. PoolInd
  BY PoolInit
<1>2. Through
  BY DEF Init, Through
<1>3. Seen = {} /\ AskedSoFar = {}
  BY DEF Init, Seen, SeenIn, AskedSoFar
<1>4. Cardinality({}) = 0 /\ IsFiniteSet({}) /\ Lesser(0, MaxDiffRows) = 0
  BY FS_EmptySet, PoolAssumption DEF Lesser
<1>5. Counted
  BY <1>3, <1>4, PoolAssumption DEF Init, Counted
<1>6. QueriesCounted
  BY <1>3, <1>4 DEF Init, QueriesCounted
<1> QED
  BY <1>1, <1>2, <1>5, <1>6 DEF CountInd

LEMMA CountStep == CountInd /\ [Next]_vars => CountInd'
  BY PoolStep, ThroughStep, CountedStep, QueriesStep DEF CountInd, PoolInd

(* However the workers interleave, no update of the shared DiffResult is    *)
(* lost: its counters, its list and the truncation mark are those of all    *)
(* differences together.                                                    *)
THEOREM CountsCorrect == Spec => []CountsExact
<1>1. ASSUME CountInd PROVE CountsExact
  <2> SUFFICES ASSUME main = "returned"
               PROVE  /\ result.found = Cardinality(AllDiffs)
                      /\ result.listed = Lesser(Cardinality(AllDiffs), MaxDiffRows)
                      /\ result.truncated <=> Cardinality(AllDiffs) > MaxDiffRows
    BY DEF CountsExact
  <2>1. \A t \in Task : future[t] = "done"
    BY <1>1 DEF CountInd, PoolInd, Caller
  <2>2. Seen = AllDiffs
    BY <2>1 DEF Seen, SeenIn, AllDiffs
  <2> QED
    BY <1>1, <2>1, <2>2 DEF CountInd, Counted
<1>2. CountInd => CountsExact
  BY <1>1
<1> QED
  BY <1>2, CountInit, CountStep, PTL DEF Spec

(* Nor is a query forgotten in queries_per_side.                            *)
THEOREM QueriesCorrect == Spec => []QueriesExact
<1>1. ASSUME CountInd PROVE QueriesExact
  <2> SUFFICES ASSUME main = "returned"
               PROVE  queries = Cardinality(UNION { {t} \X (1..Cost(t)) : t \in Task })
    BY DEF QueriesExact
  <2>1. \A t \in Task : future[t] = "done"
    BY <1>1 DEF CountInd, PoolInd, Caller
  <2>2. AskedSoFar = UNION { {t} \X (1..Cost(t)) : t \in Task }
    BY <2>1 DEF AskedSoFar, Asked
  <2> QED
    BY <1>1, <2>2 DEF CountInd, QueriesCounted
<1>2. CountInd => QueriesExact
  BY <1>1
<1> QED
  BY <1>2, CountInit, CountStep, PTL DEF Spec
===============================================================================
