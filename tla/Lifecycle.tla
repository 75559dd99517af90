------------------------------ MODULE Lifecycle ------------------------------
(***************************************************************************)
(* The life of the process: run() of cmd/photo-server/main.go with its     *)
(* deferred calls, Server.Run, the request handlers it drains, the         *)
(* conversion pool (ConvertPool, whose callers are the handlers and the    *)
(* backfill) and systemd, which starts the process again when it fails.    *)
(* Before all that the database is opened and migrated (Migrations).       *)
(*                                                                         *)
(* A request is an upload: it waits for its client, commits its row, calls *)
(* Enqueue and answers.  A client may stop sending at any point.           *)
(***************************************************************************)
EXTENDS Naturals, Sequences

CONSTANTS Handlers,  \* request goroutines
          Main,      \* the main goroutine, as a caller of Enqueue
          Workers, Hashes, QueueCap, NoHash,
          Releases,  \* releases of the program that may be started
          Faults     \* what may go wrong: subset of {"listen", "crash", "open"}

ASSUME LifecycleAssumption ==
  /\ Main \notin Handlers
  /\ QueueCap \in Nat \ {0}
  /\ NoHash \notin Hashes
  /\ Releases \subseteq SUBSET (Nat \ {0})

Callers == Handlers \cup {Main}

VARIABLES jobs, inFlt, stopped, ctxDone, call, arg, worker, job,  \* ConvertPool
          release, version, schema, reached, stage,                     \* Migrations
          main,     \* where run() is
          todo,     \* photos the backfill has still to queue
          listener, \* the listening socket
          handler,  \* handler -> where its request is
          db,       \* the database handle
          result,   \* what run() is going to return
          cut       \* requests the last exit cut off (history)

Pool == INSTANCE ConvertPool

DB == INSTANCE Migrations

poolVars == <<jobs, inFlt, stopped, ctxDone, call, arg, worker, job>>
dbVars == <<release, version, schema, reached, stage>>
procVars == <<main, todo, listener, handler, db, result, cut>>
vars == <<poolVars, dbVars, procVars>>

MainPlaces == {"open", "backfill", "serve", "drain", "stop", "wait", "cancel", "close", "exit", "down"}

TypeOK ==
  /\ main \in MainPlaces
  /\ todo \subseteq Hashes
  /\ listener \in {"none", "up", "failed", "closed"}
  /\ handler \in [Handlers -> {"idle", "busy", "enqueue", "reply", "dberror"}]
  /\ db \in {"open", "closed"}
  /\ result \in {"none", "ok", "error"}
  /\ cut \subseteq Handlers

\* The first start, on an empty disk.
Init ==
  /\ Pool!Init
  /\ DB!Init
  /\ main = "open"
  /\ todo = {}
  /\ listener = "none"
  /\ handler = [h \in Handlers |-> "idle"]
  /\ db = "open"
  /\ result = "none"
  /\ cut = {}

------------------------------------------------------------------------------
(* main: store.Open.                                                       *)

Migrate ==
  /\ main = "open"
  /\ DB!Migrate
  /\ UNCHANGED <<poolVars, procVars>>

\* The signal handler, pool.Start, and the list of photos for the backfill.
Opened ==
  /\ main = "open"
  /\ stage = "ready"
  /\ main' = "backfill"
  /\ todo' \in SUBSET Hashes
  /\ UNCHANGED <<poolVars, dbVars, listener, handler, db, result, cut>>

------------------------------------------------------------------------------
(* main: the backfill, then Server.Run.                                    *)

BackfillOne(x) ==
  /\ main = "backfill"
  /\ call[Main] = "idle"
  /\ x \in todo
  /\ todo' = todo \ {x}
  /\ IF stopped THEN UNCHANGED poolVars ELSE Pool!Enqueue(Main, x)
  /\ UNCHANGED <<dbVars, main, listener, handler, db, result, cut>>

\* ListenAndServe binds the port, or cannot.
Serve ==
  /\ main = "backfill"
  /\ todo = {} /\ call[Main] = "idle"
  /\ main' = "serve"
  /\ \/ listener' = "up"
     \/ "listen" \in Faults /\ listener' = "failed"
  /\ UNCHANGED <<poolVars, dbVars, todo, handler, db, result, cut>>

\* The socket fails under a running server.
ListenerFails ==
  /\ "listen" \in Faults
  /\ listener = "up"
  /\ listener' = "failed"
  /\ UNCHANGED <<poolVars, dbVars, main, todo, handler, db, result, cut>>

\* case err := <-errc
RunFails ==
  /\ main = "serve"
  /\ listener = "failed"
  /\ main' = "stop"
  /\ result' = "error"
  /\ UNCHANGED <<poolVars, dbVars, todo, listener, handler, db, cut>>

\* case <-ctx.Done(): Shutdown closes the socket and waits.
BeginDrain ==
  /\ main = "serve"
  /\ ctxDone
  /\ main' = "drain"
  /\ listener' = "closed"
  /\ UNCHANGED <<poolVars, dbVars, todo, handler, db, result, cut>>

Drained ==
  /\ main = "drain"
  /\ \A h \in Handlers : handler[h] = "idle"
  /\ main' = "stop"
  /\ result' = "ok"
  /\ UNCHANGED <<poolVars, dbVars, todo, listener, handler, db, cut>>

\* shutdownTimeout: the error of Shutdown is run()'s (mutants: it is
\* swallowed; there is no timeout).
DrainSwallowed ==
  /\ main = "drain"
  /\ main' = "stop"
  /\ result' = "ok"
  /\ UNCHANGED <<poolVars, dbVars, todo, listener, handler, db, cut>>

DrainForever == main = "drain" /\ UNCHANGED vars

DrainTimeout ==
  /\ main = "drain"
  /\ main' = "stop"
  /\ result' = "error"
  /\ UNCHANGED <<poolVars, dbVars, todo, listener, handler, db, cut>>

------------------------------------------------------------------------------
(* The deferred calls, last one first.                                     *)

\* pool.Stop marks the pool ...
StopPool ==
  /\ main = "stop"
  /\ Pool!Stop
  /\ main' = "wait"
  /\ UNCHANGED <<dbVars, todo, listener, handler, db, result, cut>>

\* ... and waits for its workers (mutant: it does not wait).
PoolLeftBehind ==
  /\ main = "wait"
  /\ main' = "cancel"
  /\ UNCHANGED <<poolVars, dbVars, todo, listener, handler, db, result, cut>>

PoolStopped ==
  /\ main = "wait"
  /\ Pool!StopReturned
  /\ main' = "cancel"
  /\ UNCHANGED <<poolVars, dbVars, todo, listener, handler, db, result, cut>>

\* stop() cancels the context, if no signal has.
CancelContext ==
  /\ main = "cancel"
  /\ \/ Pool!Cancel
     \/ ctxDone /\ UNCHANGED poolVars
  /\ main' = "close"
  /\ UNCHANGED <<dbVars, todo, listener, handler, db, result, cut>>

CloseStore ==
  /\ main = "close"
  /\ db' = "closed"
  /\ main' = "exit"
  /\ UNCHANGED <<poolVars, dbVars, todo, listener, handler, result, cut>>

\* The process is gone, and every goroutine with it.
Gone ==
  /\ main' = "down"
  /\ cut' = {h \in Handlers : handler[h] # "idle"}
  /\ handler' = [h \in Handlers |-> "idle"]
  /\ todo' = {}
  /\ listener' = "none"
  /\ jobs' = <<>> /\ inFlt' = {}
  /\ stopped' = FALSE /\ ctxDone' = FALSE
  /\ call' = [c \in Callers |-> "idle"] /\ arg' = [c \in Callers |-> NoHash]
  /\ worker' = [w \in Workers |-> "select"] /\ job' = [w \in Workers |-> NoHash]
  /\ DB!Abort

Exit == main = "exit" /\ Gone /\ UNCHANGED <<db, result>>

------------------------------------------------------------------------------
(* Requests.                                                               *)

Accept(h) ==
  /\ listener = "up"
  /\ handler[h] = "idle"
  /\ handler' = [handler EXCEPT ![h] = "busy"]
  /\ UNCHANGED <<poolVars, dbVars, main, todo, listener, db, result, cut>>

\* The body is in; the row is committed, or the handle is closed.
Commit(h) ==
  /\ handler[h] = "busy"
  /\ handler' = [handler EXCEPT ![h] = IF db = "open" THEN "enqueue" ELSE "dberror"]
  /\ UNCHANGED <<poolVars, dbVars, main, todo, listener, db, result, cut>>

Enqueue(h, x) ==
  /\ handler[h] = "enqueue"
  /\ IF stopped THEN UNCHANGED poolVars ELSE Pool!Enqueue(h, x)
  /\ handler' = [handler EXCEPT ![h] = "reply"]
  /\ UNCHANGED <<dbVars, main, todo, listener, db, result, cut>>

Reply(h) ==
  /\ handler[h] \in {"reply", "dberror"}
  /\ call[h] = "idle"
  /\ handler' = [handler EXCEPT ![h] = "idle"]
  /\ UNCHANGED <<poolVars, dbVars, main, todo, listener, db, result, cut>>

------------------------------------------------------------------------------
(* The pool's goroutines, the operator and systemd.                        *)

InCall(c) == Pool!CallStep(c) /\ UNCHANGED <<dbVars, procVars>>

Work(w) == main \notin {"open", "down"} /\ Pool!WorkStep(w) /\ UNCHANGED <<dbVars, procVars>>

\* SIGTERM: systemctl stop, or the operator's shutdown page.
Signal ==
  /\ main \notin {"open", "down"}
  /\ Pool!Cancel
  /\ UNCHANGED <<dbVars, procVars>>

\* Before signal.NotifyContext it kills, which systemd takes for a clean end.
SignalKills ==
  /\ main = "open"
  /\ Gone
  /\ result' = "ok"
  /\ db' = "closed"

\* A migration, or another step before the pool, fails: run() returns.
OpenFails ==
  /\ "open" \in Faults
  /\ main = "open"
  /\ Gone
  /\ result' = "error"
  /\ db' = "closed"

Crash ==
  /\ "crash" \in Faults
  /\ main # "down"
  /\ Gone
  /\ result' = "error"
  /\ db' = "closed"

\* The process starts, as release r.
Start(r) ==
  /\ main = "down"
  /\ DB!Open(r)
  /\ main' = "open"
  /\ db' = "open"
  /\ result' = "none"
  /\ UNCHANGED <<poolVars, todo, listener, handler, cut>>

\* Restart=on-failure (mutant: a process that failed stays down).
RestartOnlyClean == result = "ok" /\ Start(release)

Restart == result = "error" /\ Start(release)

\* Somebody installs a release, newer or older, and starts it.
Deploy == \E r \in Releases : Start(r)

MainStep ==
  \/ Migrate \/ Opened
  \/ \E x \in Hashes : BackfillOne(x)
  \/ Serve \/ RunFails \/ BeginDrain \/ Drained \/ DrainTimeout
  \/ StopPool \/ PoolStopped \/ CancelContext \/ CloseStore \/ Exit

\* What a handler does without its client.
HandlerStep(h) == Reply(h) \/ \E x \in Hashes : Enqueue(h, x)

Next ==
  \/ MainStep
  \/ \E h \in Handlers : Accept(h) \/ Commit(h) \/ HandlerStep(h)
  \/ \E c \in Callers : InCall(c)
  \/ \E w \in Workers : Work(w)
  \/ ListenerFails \/ Signal \/ SignalKills \/ OpenFails \/ Crash \/ Restart \/ Deploy

Spec == Init /\ [][Next]_vars

\* Every goroutine that can run does; clients owe nothing; vipsthumbnail is
\* only certain to end when the cancelled context kills it.
Fairness ==
  /\ WF_vars(MainStep) /\ WF_vars(Restart)
  /\ \A h \in Handlers : WF_vars(HandlerStep(h))
  /\ \A c \in Callers : WF_vars(InCall(c))
  /\ \A w \in Workers :
       /\ WF_vars((Pool!Receive(w) \/ Pool!Exit(w) \/ Pool!Release(w)) /\ Work(w))
       /\ WF_vars(ctxDone /\ Pool!Render(w) /\ Work(w))

FairSpec == Spec /\ Fairness

------------------------------------------------------------------------------
(* A clean exit cut nothing off: the status systemd and the operator see   *)
(* is success only if every request was answered (main.go:84-86).          *)
CleanExit == main = "down" /\ result = "ok" => cut = {}

(* No request finds the database closed, and no conversion runs on, unless *)
(* the drain gave up (or the socket failed) first: the deferred calls come *)
(* in the order main needs.                                                *)
ClosedLast ==
  /\ \A h \in Handlers : handler[h] = "dberror" => result = "error"
  /\ main \in {"cancel", "close", "exit"} => \A w \in Workers : worker[w] = "exited"

(* A signal ends the process, with clients that stall, conversions that    *)
(* never end and jobs waiting.                                             *)
SignalEnds == ctxDone ~> main = "down"

(* "Unattended all-day operation (PRD N8): always come back up"            *)
(* (photo-server.service:25-27): a process that ended by a crash or with   *)
(* an error is started again and gets as far as its socket, unless it is   *)
(* told to stop.                                                           *)
ComesBack ==
  <>[][~Crash /\ ~OpenFails]_vars =>
    (main = "down" /\ result = "error" ~> main = "serve" \/ ctxDone \/ result = "ok")

(* The promises of Migrations, across the process's whole life.            *)
AppliedOnce == DB!AppliedOnce
SchemaComplete == main \notin {"open", "down"} => \A m \in release : DB!Applied(m) \/ DB!Late(m)

(* What the photos see of all that: one bounded queue without duplicates,  *)
(* in which no photo is converted twice at once by two lives of the        *)
(* process, and which is forgotten as a whole when a life ends             *)
(* (pool.go:26-29, 72-94).                                                 *)
Queue == INSTANCE RenditionQueue WITH queue <- jobs, running <- job
ImplementsQueue == Queue!Spec

(* The same for a server whose socket fails: it is of no use to anybody,   *)
(* so it has to end, or systemd cannot start it again.                     *)
FailureEnds == listener = "failed" ~> main = "down"

------------------------------------------------------------------------------
(* What makes CleanExit and ClosedLast inductive.                          *)

Stopping == main \in {"stop", "wait", "cancel", "close", "exit"}

ResultKnown ==
  /\ Stopping <=> (result # "none" /\ main # "down")
  /\ main \in {"open", "backfill", "serve", "drain"} => result = "none"
  /\ main = "down" => result # "none"

Quiescent ==
  Stopping /\ result = "ok" =>
    listener = "closed" /\ \A h \in Handlers : handler[h] = "idle"

DbOpen == db = "closed" => main \in {"exit", "down"}

NobodyListens ==
  /\ main = "drain" => listener = "closed"
  /\ main \in {"open", "down"} => listener = "none" /\ \A h \in Handlers : handler[h] = "idle"

PoolDown ==
  main \in {"cancel", "close", "exit"} =>
    stopped /\ \A w \in Workers : worker[w] = "exited"

\* Past store.Open the schema is ready.
Migrated == main \notin {"open", "down"} => stage = "ready"

IInv ==
  /\ TypeOK /\ Pool!IInv /\ DB!IInv /\ Migrated
  /\ CleanExit /\ ClosedLast
  /\ ResultKnown /\ Quiescent /\ DbOpen /\ NobodyListens /\ PoolDown
==============================================================================
