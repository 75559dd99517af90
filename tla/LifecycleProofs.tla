---------------------------- MODULE LifecycleProofs ----------------------------
(* The order of the shutdown, for any number of requests, workers and      *)
(* photos, and the schema's migrations, for any releases: across any       *)
(* number of crashes, restarts and changes of the release.                 *)
EXTENDS Lifecycle, TLAPS

\* ConvertPool once more, with what is proved about it.
Proved == INSTANCE ConvertPoolProofs

(* The two instances are the same specification.                           *)
LEMMA PoolInit == Pool!Init => Proved!Init
BY DEF Pool!Init, Proved!Init

\* A step of the one is a step of the other.
LEMMA PoolNext == Pool!Next => Proved!Next
BY DEF Pool!Next, Proved!Next, Pool!CallStep, Proved!CallStep, Pool!WorkStep,
       Proved!WorkStep, Pool!Enqueue, Proved!Enqueue, Pool!Mark, Proved!Mark,
       Pool!Send, Proved!Send, Pool!Full, Proved!Full, Pool!Unmark, Proved!Unmark,
       Pool!CallEnds, Proved!CallEnds, Pool!Receive, Proved!Receive, Pool!Exit,
       Proved!Exit, Pool!Render, Proved!Render, Pool!Release, Proved!Release,
       Pool!Cancel, Proved!Cancel, Pool!Stop, Proved!Stop, Pool!callerVars,
       Proved!callerVars, Pool!workerVars, Proved!workerVars

\* They share their invariant.
LEMMA PoolIInv == (Pool!IInv <=> Proved!IInv) /\ (Pool!IInv <=> Proved!IInv)'
BY DEF Pool!IInv, Proved!IInv, Pool!TypeOK, Proved!TypeOK, Pool!MarkHeld,
       Proved!MarkHeld, Pool!OneHolder, Proved!OneHolder, Pool!HeldMarked,
       Proved!HeldMarked, Pool!CallHolds, Proved!CallHolds, Pool!SlotHolds,
       Proved!SlotHolds, Pool!WorkHolds, Proved!WorkHolds

(* The pool's invariant survives a step of the pool, a step that leaves it *)
(* alone, and the end of the process.                                      *)
LEMMA PoolKeeps ==
  ASSUME Pool!IInv, Pool!Next \/ UNCHANGED poolVars
  PROVE  Pool!IInv'
<1>0. QueueCap \in Nat \ {0} /\ NoHash \notin Hashes
  BY LifecycleAssumption
<1>1. Proved!IInv /\ [Proved!Next]_(Proved!vars) => Proved!IInv'
  BY <1>0, Proved!NextIInv
<1>2. UNCHANGED poolVars => UNCHANGED Proved!vars
  BY DEF poolVars, Proved!vars, Proved!callerVars, Proved!workerVars
<1> QED BY <1>1, <1>2, PoolNext, PoolIInv

\* An empty pool has it.
LEMMA PoolStarts == Pool!Init => Pool!IInv
<1>0. QueueCap \in Nat \ {0} /\ NoHash \notin Hashes
  BY LifecycleAssumption
<1>1. Proved!Init => Proved!IInv
  BY <1>0, Proved!InitIInv
<1> QED BY <1>1, PoolInit, PoolIInv

------------------------------------------------------------------------------
(* The migrations.                                                         *)

\* The entries of the schema are numbers.
LEMMA SchemaNumbers ==
  ASSUME DB!TypeOK
  PROVE  /\ DOMAIN schema = 1..Len(schema) /\ Len(schema) \in Nat
         /\ \A k \in DOMAIN schema : schema[k].v \in Nat /\ schema[k].by \in Releases
         /\ release \in Releases /\ release \subseteq Nat \ {0}
         /\ version \in Nat /\ reached \in Nat
<1>1. schema \in Seq([v : Nat, by : Releases]) /\ release \in Releases
  BY DEF DB!TypeOK
<1>2. DOMAIN schema = 1..Len(schema) /\ Len(schema) \in Nat
  BY <1>1
<1>3. \A k \in DOMAIN schema : schema[k] \in [v : Nat, by : Releases]
  <2> DEFINE E == [v : Nat, by : Releases]
  <2>1. schema \in Seq(E)
    BY <1>1
  <2> HIDE DEF E
  <2>2. \A k \in DOMAIN schema : schema[k] \in E
    BY <2>1
  <2> QED BY <2>2 DEF E
<1>4. release \subseteq Nat \ {0}
  BY <1>1, LifecycleAssumption
<1> QED BY <1>1, <1>2, <1>3, <1>4 DEF DB!TypeOK

\* An empty database.
LEMMA DatabaseStarts == DB!Init => DB!IInv
BY DEF DB!Init, DB!IInv, DB!TypeOK, DB!AppliedOnce, DB!SchemaComplete, DB!History, DB!Reached

\* The loop starts where the last migration ended: what is below is there,
\* or came after a release without it.
LEMMA ReadKeeps ==
  ASSUME DB!IInv, DB!ReadVersion
  PROVE  DB!IInv'
<1>1. DB!TypeOK /\ DB!AppliedOnce /\ DB!History
  BY DEF DB!IInv
<1>2. /\ UNCHANGED <<release, version, schema>> /\ reached' = version
      /\ stage' = "loop"
  BY DEF DB!ReadVersion
<1>3. DB!TypeOK' /\ DB!AppliedOnce' /\ DB!History' /\ DB!SchemaComplete'
  BY <1>1, <1>2 DEF DB!TypeOK, DB!AppliedOnce, DB!History, DB!SchemaComplete, DB!Applied, DB!Late
<1>4. ASSUME NEW m \in release, m <= version PROVE DB!Applied(m) \/ DB!Late(m)
  <2>0. m \in Nat \ {0} /\ version \in Nat
    BY <1>1, SchemaNumbers
  <2>1. schema # <<>>
    BY <1>1, <1>4, <2>0 DEF DB!AppliedOnce
  <2>2. Len(schema) \in DOMAIN schema /\ schema[Len(schema)].v = version
    BY <1>1, <2>1, SchemaNumbers DEF DB!AppliedOnce, DB!TypeOK
  <2>3. CASE m \in schema[Len(schema)].by
    BY <1>1, <1>4, <2>2, <2>3 DEF DB!History
  <2>4. CASE m \notin schema[Len(schema)].by /\ m = version
    BY <2>2, <2>4 DEF DB!Applied
  <2>5. CASE m \notin schema[Len(schema)].by /\ m # version
    BY <1>4, <2>0, <2>2, <2>5 DEF DB!Late
  <2> QED BY <2>3, <2>4, <2>5
<1>5. DB!Reached'
  BY <1>2, <1>4 DEF DB!Reached, DB!Applied, DB!Late
<1> QED BY <1>3, <1>5 DEF DB!IInv

\* A migration is appended above the last one, and nothing of its release
\* is left out below it.
LEMMA CommitKeeps ==
  ASSUME DB!IInv, NEW m \in release, DB!Commit(m)
  PROVE  DB!IInv'
<1> DEFINE e == [v |-> m, by |-> release]
           n == Len(schema)
<1>1. DB!TypeOK /\ DB!AppliedOnce /\ DB!History /\ DB!Reached
  BY DEF DB!IInv
<1>2. /\ UNCHANGED release /\ schema' = Append(schema, e)
      /\ version' = m /\ reached' = m
      /\ stage = "version" /\ stage' = "loop"
      /\ m > reached /\ \A k \in release : k > reached => m <= k
  BY DEF DB!Commit, DB!First, DB!Pending
<1>3. m \in Nat /\ release \in Releases /\ release \subseteq Nat /\ n \in Nat
  BY <1>1, SchemaNumbers
<1>4. DB!TypeOK'
  <2>1. e \in [v : Nat, by : Releases]
    BY <1>3
  <2> QED BY <1>1, <1>2, <1>3, <2>1 DEF DB!TypeOK
<1>5. /\ DOMAIN schema = 1..n /\ DOMAIN schema' = 1..(n + 1) /\ Len(schema') = n + 1
      /\ \A k \in 1..n : schema'[k] = schema[k]
      /\ schema'[n + 1] = e
  BY <1>1, <1>2, <1>3 DEF DB!TypeOK
<1> HIDE DEF n
<1>6. reached = version
  BY <1>1, <1>2 DEF DB!Reached
<1>7. \A k \in 1..n : schema[k].v \in Nat /\ schema[k].v <= version
  <2>1. version \in Nat /\ \A k \in 1..n : schema[k].v \in Nat
    BY <1>1, <1>5, SchemaNumbers
  <2>2. ASSUME NEW k \in 1..n PROVE schema[k].v <= version
    <3>1. schema # <<>> /\ n \in 1..n
      BY <1>1, <1>3, <1>5, <2>2 DEF n
    <3>2. version = schema[n].v
      BY <1>1, <3>1 DEF DB!AppliedOnce, n
    <3>3. CASE k < n
      BY <1>1, <1>5, <2>1, <2>2, <3>1, <3>2, <3>3 DEF DB!AppliedOnce
    <3> QED BY <1>3, <2>1, <2>2, <3>2, <3>3
  <2> QED BY <2>1, <2>2
<1>8. DB!AppliedOnce'
  <2>1. ASSUME NEW j \in 1..(n + 1), NEW k \in 1..(n + 1), j < k
        PROVE  schema'[j].v < schema'[k].v
    <3>1. CASE k \in 1..n
      BY <1>1, <1>3, <1>5, <2>1, <3>1 DEF DB!AppliedOnce
    <3>2. CASE k = n + 1
      <4>1. j \in 1..n /\ reached \in Nat
        BY <1>1, <1>3, <2>1, <3>2, SchemaNumbers
      <4> QED BY <1>2, <1>3, <1>5, <1>6, <1>7, <3>2, <4>1
    <3> QED BY <1>3, <3>1, <3>2
  <2>2. schema' # <<>> /\ schema'[Len(schema')].v = m
    BY <1>3, <1>5
  <2> QED BY <1>2, <1>5, <2>1, <2>2 DEF DB!AppliedOnce
<1>9. \A k : DB!Applied(k) \/ DB!Late(k) => (DB!Applied(k) \/ DB!Late(k))'
  BY <1>3, <1>5 DEF DB!Applied, DB!Late
<1>10. \A k \in release : k <= m => (DB!Applied(k) \/ DB!Late(k))'
  <2>1. ASSUME NEW k \in release, k <= m PROVE (DB!Applied(k) \/ DB!Late(k))'
    <3>1. CASE k <= reached
      BY <1>1, <1>2, <1>9, <3>1 DEF DB!Reached
    <3>2. CASE ~(k <= reached)
      <4>1. k = m
        BY <1>1, <1>2, <1>3, <2>1, <3>2, SchemaNumbers
      <4>2. n + 1 \in DOMAIN schema' /\ schema'[n + 1].v = m
        BY <1>3, <1>5
      <4> QED BY <4>1, <4>2 DEF DB!Applied
    <3> QED BY <3>1, <3>2
  <2> QED BY <2>1
<1>11. DB!History'
  <2>1. ASSUME NEW k \in 1..(n + 1), NEW j \in schema'[k].by, j <= schema'[k].v
        PROVE  (DB!Applied(j) \/ DB!Late(j))'
    <3>1. CASE k \in 1..n
      BY <1>1, <1>5, <1>9, <2>1, <3>1 DEF DB!History
    <3>2. CASE k = n + 1
      BY <1>5, <1>10, <2>1, <3>2
    <3> QED BY <1>3, <3>1, <3>2
  <2> QED BY <1>5, <2>1 DEF DB!History
<1>12. DB!Reached'
  BY <1>2, <1>10 DEF DB!Reached
<1>13. DB!SchemaComplete'
  BY <1>2 DEF DB!SchemaComplete
<1> QED BY <1>4, <1>8, <1>11, <1>12, <1>13 DEF DB!IInv

\* Every step of the loop, the end of a process and the start of another.
LEMMA DatabaseKeeps ==
  ASSUME DB!IInv,
         DB!Migrate \/ DB!Abort \/ (\E r \in Releases : DB!Open(r)) \/ UNCHANGED dbVars
  PROVE  DB!IInv'
<1> USE DEF DB!TypeOK, DB!AppliedOnce, DB!History, DB!SchemaComplete, DB!Reached,
            DB!Applied, DB!Late, DB!IInv
<1>1. CASE DB!ReadVersion
  BY <1>1, ReadKeeps
<1>2. ASSUME NEW m \in release, DB!Commit(m) PROVE DB!IInv'
  BY <1>2, CommitKeeps
<1>3. CASE DB!SetVersion \/ \E m \in release : DB!Exec(m)
  BY <1>3 DEF DB!SetVersion, DB!Exec
<1>4. CASE DB!Done
  <2>1. \A m \in release : m <= reached
    BY <1>4, SchemaNumbers DEF DB!Done, DB!Pending
  <2> QED BY <1>4, <2>1 DEF DB!Done
<1>5. CASE DB!Abort
  BY <1>5 DEF DB!Abort
<1>6. CASE \E r \in Releases : DB!Open(r)
  BY <1>6 DEF DB!Open
<1>7. CASE UNCHANGED dbVars
  BY <1>7 DEF dbVars
<1> QED BY <1>1, <1>2, <1>3, <1>4, <1>5, <1>6, <1>7 DEF DB!Migrate

------------------------------------------------------------------------------
(* One lemma for each group of steps.                                      *)
USE DEF TypeOK, CleanExit, ClosedLast, Stopping, ResultKnown, Quiescent, DbOpen,
        NobodyListens, PoolDown, Migrated, MainPlaces, procVars, dbVars

\* The part of IInv that is about the process rather than the pool or the
\* migrations.
ProcIInv ==
  /\ TypeOK /\ Migrated /\ CleanExit /\ ClosedLast
  /\ ResultKnown /\ Quiescent /\ DbOpen /\ NobodyListens /\ PoolDown

\* Everything is idle at the start.
LEMMA InitIInv == Init => IInv
BY PoolStarts, DatabaseStarts DEF Init, IInv

\* Steps of the pool that move neither main nor a request: an exited
\* worker stays where it is, and a stopped pool stays stopped.
LEMMA PoolStepIInv ==
  ASSUME ProcIInv, worker \in [Workers -> {"select", "render", "release", "exited"}],
         \/ \E c \in Callers : InCall(c)
         \/ \E w \in Workers : Work(w)
         \/ Signal
  PROVE  ProcIInv'
<1>1. UNCHANGED <<main, todo, listener, handler, db, result, cut, stage>> /\ stopped' = stopped
  BY DEF InCall, Work, Signal, Pool!CallStep, Pool!Mark, Pool!Send, Pool!Full, Pool!Unmark,
         Pool!WorkStep, Pool!Receive, Pool!Exit, Pool!Render, Pool!Release, Pool!Cancel
<1>2. \A w \in Workers : worker[w] = "exited" => worker'[w] = "exited"
  <2>1. ASSUME NEW c \in Callers, InCall(c) PROVE UNCHANGED worker
    BY <2>1 DEF InCall, Pool!CallStep, Pool!Mark, Pool!Send, Pool!Full, Pool!Unmark,
                Pool!workerVars
  <2>2. ASSUME NEW v \in Workers, Work(v) PROVE worker[v] # "exited" /\ worker' = [worker EXCEPT ![v] = worker'[v]]
    BY <2>2 DEF Work, Pool!WorkStep, Pool!Receive, Pool!Exit, Pool!Render, Pool!Release
  <2>3. ASSUME Signal PROVE UNCHANGED worker
    BY <2>3 DEF Signal, Pool!Cancel, Pool!workerVars
  <2> QED BY <2>1, <2>2, <2>3
<1> QED BY <1>1, <1>2 DEF ProcIInv

\* store.Open, and what follows it.
LEMMA OpenIInv ==
  ASSUME ProcIInv, Migrate \/ Opened
  PROVE  ProcIInv'
<1>1. CASE Migrate
  BY <1>1 DEF Migrate, poolVars, ProcIInv
<1>2. CASE Opened
  BY <1>2 DEF Opened, poolVars, ProcIInv
<1> QED BY <1>1, <1>2

\* Main's steps up to the drain.
LEMMA ServeIInv ==
  ASSUME ProcIInv, (\E x \in Hashes : BackfillOne(x)) \/ Serve \/ RunFails \/ BeginDrain
  PROVE  ProcIInv'
<1>1. CASE \E x \in Hashes : BackfillOne(x)
  <2>1. UNCHANGED <<main, listener, handler, db, result, cut, worker, stopped, stage>>
    BY <1>1 DEF BackfillOne, poolVars, Pool!Enqueue, Pool!workerVars
  <2>2. todo' \subseteq Hashes
    BY <1>1 DEF BackfillOne, ProcIInv
  <2> QED BY <2>1, <2>2 DEF ProcIInv
<1>2. CASE Serve \/ RunFails \/ BeginDrain
  BY <1>2 DEF Serve, RunFails, BeginDrain, poolVars, ProcIInv
<1> QED BY <1>1, <1>2

\* The drain ends with every request answered, or with an error.
LEMMA DrainIInv ==
  ASSUME ProcIInv, Drained \/ DrainTimeout
  PROVE  ProcIInv'
<1>1. UNCHANGED <<worker, stopped>>
  BY DEF Drained, DrainTimeout, poolVars
<1>2. CASE Drained
  BY <1>1, <1>2 DEF Drained, ProcIInv
<1>3. CASE DrainTimeout
  BY <1>1, <1>3 DEF DrainTimeout, ProcIInv
<1> QED BY <1>2, <1>3

\* The deferred calls, each relying on the one before it.
LEMMA DeferredIInv ==
  ASSUME ProcIInv, StopPool \/ PoolStopped \/ CancelContext \/ CloseStore
  PROVE  ProcIInv'
<1>1. CASE StopPool
  BY <1>1 DEF StopPool, Pool!Stop, Pool!workerVars, ProcIInv
<1>2. CASE PoolStopped
  BY <1>2 DEF PoolStopped, Pool!StopReturned, poolVars, ProcIInv
<1>3. CASE CancelContext
  BY <1>3 DEF CancelContext, Pool!Cancel, Pool!workerVars, poolVars, ProcIInv
<1>4. CASE CloseStore
  BY <1>4 DEF CloseStore, poolVars, ProcIInv
<1> QED BY <1>1, <1>2, <1>3, <1>4

\* The end of a process and the start of the next.
LEMMA EndIInv ==
  ASSUME ProcIInv, Exit \/ Crash \/ SignalKills \/ OpenFails \/ Restart \/ Deploy
  PROVE  ProcIInv'
<1>1. CASE Exit
  BY <1>1 DEF Exit, Gone, ProcIInv
<1>2. CASE Crash
  BY <1>2 DEF Crash, Gone, ProcIInv
<1>3. CASE SignalKills \/ OpenFails
  BY <1>3 DEF SignalKills, OpenFails, Gone, ProcIInv
<1>4. CASE Restart \/ Deploy
  <2>1. PICK r : Start(r)
    BY <1>4 DEF Restart, Deploy
  <2>2. /\ UNCHANGED <<worker, stopped, todo, listener, handler, cut>>
        /\ main = "down" /\ main' = "open" /\ db' = "open" /\ result' = "none"
    BY <2>1 DEF Start, poolVars
  <2> QED BY <2>2 DEF ProcIInv
<1> QED BY <1>1, <1>2, <1>3, <1>4

\* Requests: none starts once the socket is closed, so the drained server
\* stays drained.
LEMMA RequestIInv ==
  ASSUME ProcIInv, NEW h \in Handlers, Accept(h) \/ Commit(h) \/ HandlerStep(h)
  PROVE  ProcIInv'
<1>1. CASE Accept(h)
  BY <1>1 DEF Accept, poolVars, ProcIInv
<1>2. CASE Commit(h)
  <2>1. /\ UNCHANGED <<main, todo, listener, db, result, cut, worker, stopped, stage>>
        /\ handler[h] = "busy"
    BY <1>2 DEF Commit, poolVars
  <2>2. CASE db = "open" /\ handler' = [handler EXCEPT ![h] = "enqueue"]
    BY <2>1, <2>2 DEF ProcIInv
  <2>3. CASE db = "closed" /\ handler' = [handler EXCEPT ![h] = "dberror"]
    <3>1. Stopping /\ result = "error"
      BY <2>1, <2>3 DEF ProcIInv
    <3> QED BY <2>1, <2>3, <3>1 DEF ProcIInv
  <2> QED BY <1>2, <2>2, <2>3 DEF Commit, ProcIInv
<1>3. CASE Reply(h)
  BY <1>3 DEF Reply, poolVars, ProcIInv
<1>4. CASE \E x \in Hashes : Enqueue(h, x)
  <2>1. UNCHANGED <<main, todo, listener, db, result, cut, worker, stopped, stage>>
    BY <1>4 DEF Enqueue, poolVars, Pool!Enqueue, Pool!workerVars
  <2>2. handler[h] = "enqueue" /\ handler' = [handler EXCEPT ![h] = "reply"]
    BY <1>4 DEF Enqueue
  <2> QED BY <2>1, <2>2 DEF ProcIInv
<1> QED BY <1>1, <1>2, <1>3, <1>4 DEF HandlerStep

\* A failing socket concerns nobody who is stopping.
LEMMA ListenerIInv ==
  ASSUME ProcIInv, ListenerFails
  PROVE  ProcIInv'
BY DEF ListenerFails, poolVars, ProcIInv

------------------------------------------------------------------------------
(* What a step of the process is to the pool.                              *)
LEMMA StepOfPool ==
  ASSUME Next
  PROVE  Pool!Next \/ UNCHANGED poolVars \/ Pool!Init'
<1>1. ASSUME NEW x \in Hashes, BackfillOne(x) PROVE Pool!Next \/ UNCHANGED poolVars
  BY <1>1 DEF BackfillOne, Pool!Next, Callers
<1>2. ASSUME Serve \/ RunFails \/ BeginDrain \/ Drained \/ DrainTimeout \/ PoolStopped
             \/ CloseStore \/ ListenerFails \/ Migrate \/ Opened \/ Restart \/ Deploy
      PROVE  UNCHANGED poolVars
  BY <1>2 DEF Serve, RunFails, BeginDrain, Drained, DrainTimeout, PoolStopped, CloseStore,
              ListenerFails, Migrate, Opened, Restart, Deploy, Start
<1>3. ASSUME StopPool \/ CancelContext \/ Signal PROVE Pool!Next \/ UNCHANGED poolVars
  BY <1>3 DEF StopPool, CancelContext, Signal, Pool!Next
<1>4. ASSUME Exit \/ Crash \/ SignalKills \/ OpenFails PROVE Pool!Init'
  BY <1>4 DEF Exit, Crash, SignalKills, OpenFails, Gone, Pool!Init
<1>5. ASSUME NEW h \in Handlers, Accept(h) \/ Commit(h) \/ Reply(h) PROVE UNCHANGED poolVars
  BY <1>5 DEF Accept, Commit, Reply
<1>6. ASSUME NEW h \in Handlers, NEW x \in Hashes, Enqueue(h, x)
      PROVE  Pool!Next \/ UNCHANGED poolVars
  BY <1>6 DEF Enqueue, Pool!Next, Callers
<1>7. ASSUME NEW c \in Callers, InCall(c) PROVE Pool!Next
  BY <1>7 DEF InCall, Pool!Next
<1>8. ASSUME NEW w \in Workers, Work(w) PROVE Pool!Next
  BY <1>8 DEF Work, Pool!Next
<1> QED
  BY <1>1, <1>2, <1>3, <1>4, <1>5, <1>6, <1>7, <1>8 DEF Next, MainStep, HandlerStep

\* What it is to the migrations.
LEMMA StepOfDatabase ==
  ASSUME Next, release \in Releases
  PROVE  DB!Migrate \/ DB!Abort \/ (\E r \in Releases : DB!Open(r)) \/ UNCHANGED dbVars
<1>1. CASE Migrate
  BY <1>1 DEF Migrate
<1>2. CASE Exit \/ Crash \/ SignalKills \/ OpenFails
  BY <1>2 DEF Exit, Crash, SignalKills, OpenFails, Gone
<1>3. CASE Restart \/ Deploy
  BY <1>3 DEF Restart, Deploy, Start
<1>4. CASE Opened \/ (\E x \in Hashes : BackfillOne(x)) \/ Serve \/ RunFails \/ BeginDrain
           \/ Drained \/ DrainTimeout
  BY <1>4, Zenon DEF Opened, BackfillOne, Serve, RunFails, BeginDrain, Drained, DrainTimeout
<1>5. CASE StopPool \/ PoolStopped \/ CancelContext \/ CloseStore \/ ListenerFails
  BY <1>5, Zenon DEF StopPool, PoolStopped, CancelContext, CloseStore, ListenerFails
<1>6. CASE \E h \in Handlers : Accept(h) \/ Commit(h) \/ HandlerStep(h)
  BY <1>6, Zenon DEF Accept, Commit, HandlerStep, Reply, Enqueue
<1>7. CASE (\E c \in Callers : InCall(c)) \/ (\E w \in Workers : Work(w)) \/ Signal
  BY <1>7, Zenon DEF InCall, Work, Signal
<1> QED BY <1>1, <1>2, <1>3, <1>4, <1>5, <1>6, <1>7 DEF Next, MainStep

\* Every step keeps IInv.
LEMMA NextIInv == IInv /\ [Next]_vars => IInv'
<1> SUFFICES ASSUME IInv, [Next]_vars PROVE IInv'
  OBVIOUS
<1>1. ProcIInv /\ Pool!IInv /\ DB!IInv
  BY DEF IInv, ProcIInv
<1>2. CASE Next
  <2>0. worker \in [Workers -> {"select", "render", "release", "exited"}]
    BY <1>1 DEF Pool!IInv, Pool!TypeOK
  <2>1. ProcIInv'
    BY <1>1, <1>2, <2>0, PoolStepIInv, OpenIInv, ServeIInv, DrainIInv, DeferredIInv, EndIInv, RequestIInv,
       ListenerIInv
    DEF Next, MainStep
  <2>2. (Pool!Init => Pool!IInv)'
    BY PoolStarts, PTL
  <2>3. Pool!IInv'
    BY <1>1, <1>2, <2>2, StepOfPool, PoolKeeps
  <2>4. release \in Releases
    BY <1>1 DEF DB!IInv, DB!TypeOK
  <2>5. DB!IInv'
    BY <1>1, <1>2, <2>4, StepOfDatabase, DatabaseKeeps
  <2> QED BY <2>1, <2>3, <2>5 DEF IInv, ProcIInv
<1>3. CASE UNCHANGED vars
  <2>1. /\ UNCHANGED poolVars /\ UNCHANGED dbVars
        /\ UNCHANGED <<main, todo, listener, handler, db, result, cut, stage>>
    BY <1>3 DEF vars
  <2>2. Pool!IInv'
    BY <1>1, <2>1, PoolKeeps
  <2>3. UNCHANGED <<worker, stopped>>
    BY <2>1 DEF poolVars
  <2>4. ProcIInv'
    BY <1>1, <2>1, <2>3 DEF ProcIInv
  <2>5. DB!IInv'
    BY <1>1, <2>1, DatabaseKeeps
  <2> QED BY <2>2, <2>4, <2>5 DEF IInv, ProcIInv
<1> QED BY <1>2, <1>3

(* The order of the shutdown, and the pool's accounting across restarts.   *)
THEOREM LifecycleInductive == Spec => []IInv
BY InitIInv, NextIInv, PTL DEF Spec

(* CleanExit: success is reported only if no request was cut off.          *)
THEOREM CleanExitCutsNothing == Spec => []CleanExit
<1>1. IInv => CleanExit
  BY DEF IInv
<1> QED BY <1>1, LifecycleInductive, PTL

(* ClosedLast: the database is closed after the requests and the workers   *)
(* are done, unless the drain gave up.                                     *)
THEOREM StoreClosesLast == Spec => []ClosedLast
<1>1. IInv => ClosedLast
  BY DEF IInv
<1> QED BY <1>1, LifecycleInductive, PTL

(* AppliedOnce: no migration is applied twice or out of order, whatever    *)
(* crashes between its statements and whichever release is started next.   *)
THEOREM MigrationsOnce == Spec => []AppliedOnce
<1>1. IInv => AppliedOnce
  BY DEF IInv, DB!IInv, AppliedOnce
<1> QED BY <1>1, LifecycleInductive, PTL

(* SchemaComplete: past store.Open a release has every migration of its    *)
(* own, but for those whose numbers came late.                             *)
THEOREM SchemaIsComplete == Spec => []SchemaComplete
<1>1. IInv => SchemaComplete
  BY DEF IInv, DB!IInv, DB!SchemaComplete, SchemaComplete
<1> QED BY <1>1, LifecycleInductive, PTL

------------------------------------------------------------------------------
(* The pool's refinement, carried over the ends of the process.            *)

\* A step of the pool is one of the abstract queue, or none.
LEMMA PoolIsQueue ==
  ASSUME Pool!IInv, Pool!Next \/ UNCHANGED poolVars
  PROVE  [Queue!Next]_(Queue!rqVars)
<1>0. QueueCap \in Nat \ {0} /\ NoHash \notin Hashes
  BY LifecycleAssumption
<1>1. Proved!IInv /\ [Proved!Next]_(Proved!vars) => [Proved!Abstract!Next]_(Proved!Abstract!rqVars)
  BY <1>0, Proved!StepImplements
<1>2. UNCHANGED poolVars => UNCHANGED Queue!rqVars
  BY DEF poolVars, Queue!rqVars
<1>3. [Proved!Abstract!Next]_(Proved!Abstract!rqVars) => [Queue!Next]_(Queue!rqVars)
  BY DEF Proved!Abstract!Next, Queue!Next, Proved!Abstract!rqVars, Queue!rqVars,
         Proved!Abstract!Accept, Queue!Accept, Proved!Abstract!Take, Queue!Take,
         Proved!Abstract!Finish, Queue!Finish, Proved!Abstract!Forget, Queue!Forget,
         Proved!Abstract!Waiting, Queue!Waiting, Proved!Abstract!Running, Queue!Running,
         Proved!Abstract!Range, Queue!Range
<1> QED BY <1>1, <1>2, <1>3, PoolNext, PoolIInv

\* Every step of the process is one of the queue, or none: an end of the
\* process forgets it.
LEMMA StepIsQueue == IInv /\ [Next]_vars => [Queue!Next]_(Queue!rqVars)
<1> SUFFICES ASSUME IInv, [Next]_vars PROVE [Queue!Next]_(Queue!rqVars)
  OBVIOUS
<1>1. Pool!IInv
  BY DEF IInv
<1>2. Pool!Init' => Queue!Forget
  BY DEF Pool!Init, Queue!Forget
<1>3. UNCHANGED vars => UNCHANGED poolVars
  BY DEF vars
<1> QED BY <1>1, <1>2, <1>3, StepOfPool, PoolIsQueue DEF Queue!Next

(* ImplementsQueue: the queue the pool is proved to be in one life of the  *)
(* process is the queue of all its lives.                                  *)
THEOREM QueueAcrossRestarts == Spec => ImplementsQueue
<1>1. Init => Queue!Init
  BY DEF Init, Pool!Init, Queue!Init
<1> QED BY <1>1, StepIsQueue, LifecycleInductive, PTL DEF Spec, ImplementsQueue, Queue!Spec
==============================================================================
