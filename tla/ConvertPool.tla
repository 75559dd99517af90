----------------------------- MODULE ConvertPool -----------------------------
(***************************************************************************)
(* internal/convert/pool.go: goroutines that call Enqueue, a buffered      *)
(* channel, the inFlt set that keeps a photo from being converted twice at *)
(* once, the workers, cancellation and Stop.                               *)
(*                                                                         *)
(* A job is its hash.  The conversions themselves are one step here: the   *)
(* pool only logs how they end.                                            *)
(***************************************************************************)
EXTENDS Naturals, Sequences

CONSTANTS Callers,   \* goroutines that call Enqueue
          Workers,   \* p.workers goroutines
          Hashes,    \* content hashes
          QueueCap,  \* cap(p.jobs)
          NoHash     \* not a hash

\* NewPool clamps the queue to at least one slot per worker.
ASSUME PoolAssumption == QueueCap \in Nat \ {0} /\ NoHash \notin Hashes

VARIABLES jobs,     \* the channel, oldest job first
          inFlt,    \* hashes marked as queued or running
          stopped,  \* p.stopped
          ctxDone,  \* the context given to Start is cancelled
          call,     \* caller -> where it is in Enqueue
          arg,      \* caller -> the hash it passed
          worker,   \* worker -> where it is in its loop
          job       \* worker -> the job it took

callerVars == <<call, arg>>
workerVars == <<worker, job>>
vars == <<jobs, inFlt, stopped, ctxDone, callerVars, workerVars>>

TypeOK ==
  /\ jobs \in Seq(Hashes)
  /\ inFlt \subseteq Hashes
  /\ stopped \in BOOLEAN
  /\ ctxDone \in BOOLEAN
  /\ call \in [Callers -> {"idle", "mark", "send", "unmark"}]
  /\ arg \in [Callers -> Hashes \cup {NoHash}]
  /\ worker \in [Workers -> {"select", "render", "release", "exited"}]
  /\ job \in [Workers -> Hashes \cup {NoHash}]

Init ==
  /\ jobs = <<>>
  /\ inFlt = {}
  /\ stopped = FALSE
  /\ ctxDone = FALSE
  /\ call = [c \in Callers |-> "idle"]
  /\ arg = [c \in Callers |-> NoHash]
  /\ worker = [w \in Workers |-> "select"]
  /\ job = [w \in Workers |-> NoHash]

------------------------------------------------------------------------------
(* Enqueue, one step per operation another goroutine can see.              *)

CallEnds(c) ==
  /\ call' = [call EXCEPT ![c] = "idle"]
  /\ arg' = [arg EXCEPT ![c] = NoHash]

\* p.stopped.Load(): a stopped pool takes nothing.
Enqueue(c, h) ==
  /\ call[c] = "idle"
  /\ ~stopped
  /\ call' = [call EXCEPT ![c] = "mark"]
  /\ arg' = [arg EXCEPT ![c] = h]
  /\ UNCHANGED <<jobs, inFlt, stopped, ctxDone, workerVars>>

\* inFlt.LoadOrStore (mutant: the duplicate goes on).
MarkAlways(c) ==
  /\ call[c] = "mark"
  /\ inFlt' = inFlt \cup {arg[c]}
  /\ call' = [call EXCEPT ![c] = "send"]
  /\ UNCHANGED <<jobs, arg, stopped, ctxDone, workerVars>>

Mark(c) ==
  /\ call[c] = "mark"
  /\ IF arg[c] \in inFlt
       THEN CallEnds(c) /\ UNCHANGED inFlt
       ELSE /\ inFlt' = inFlt \cup {arg[c]}
            /\ call' = [call EXCEPT ![c] = "send"]
            /\ UNCHANGED arg
  /\ UNCHANGED <<jobs, stopped, ctxDone, workerVars>>

Send(c) ==
  /\ call[c] = "send"
  /\ Len(jobs) < QueueCap
  /\ jobs' = Append(jobs, arg[c])
  /\ CallEnds(c)
  /\ UNCHANGED <<inFlt, stopped, ctxDone, workerVars>>

\* The select's default branch: the job is dropped.
Full(c) ==
  /\ call[c] = "send"
  /\ Len(jobs) = QueueCap
  /\ call' = [call EXCEPT ![c] = "unmark"]
  /\ UNCHANGED <<jobs, inFlt, arg, stopped, ctxDone, workerVars>>

\* inFlt.Delete of the dropped job (mutant: the mark stays).
KeepMark(c) ==
  /\ call[c] = "unmark"
  /\ CallEnds(c)
  /\ UNCHANGED <<jobs, inFlt, stopped, ctxDone, workerVars>>

Unmark(c) ==
  /\ call[c] = "unmark"
  /\ inFlt' = inFlt \ {arg[c]}
  /\ CallEnds(c)
  /\ UNCHANGED <<jobs, stopped, ctxDone, workerVars>>

------------------------------------------------------------------------------
(* The worker's loop.  Its select picks either ready case.                 *)

Receive(w) ==
  /\ worker[w] = "select"
  /\ jobs # <<>>
  /\ job' = [job EXCEPT ![w] = Head(jobs)]
  /\ jobs' = Tail(jobs)
  /\ worker' = [worker EXCEPT ![w] = "render"]
  /\ UNCHANGED <<inFlt, stopped, ctxDone, callerVars>>

\* case <-ctx.Done() (mutant: the loop only looks at the channel).
ExitNever(w) == worker[w] = "exited" /\ UNCHANGED vars

Exit(w) ==
  /\ worker[w] = "select"
  /\ ctxDone
  /\ worker' = [worker EXCEPT ![w] = "exited"]
  /\ UNCHANGED <<jobs, inFlt, stopped, ctxDone, job, callerVars>>

\* Thumbnail, and GalleryJPEG for HEIC: a failure is only logged (mutant:
\* a failure ends the worker).
RenderOrQuit(w) ==
  /\ worker[w] = "render"
  /\ \E next \in {"release", "exited"} : worker' = [worker EXCEPT ![w] = next]
  /\ UNCHANGED <<jobs, inFlt, stopped, ctxDone, job, callerVars>>

Render(w) ==
  /\ worker[w] = "render"
  /\ worker' = [worker EXCEPT ![w] = "release"]
  /\ UNCHANGED <<jobs, inFlt, stopped, ctxDone, job, callerVars>>

Release(w) ==
  /\ worker[w] = "release"
  /\ inFlt' = inFlt \ {job[w]}
  /\ job' = [job EXCEPT ![w] = NoHash]
  /\ worker' = [worker EXCEPT ![w] = "select"]
  /\ UNCHANGED <<jobs, stopped, ctxDone, callerVars>>

------------------------------------------------------------------------------
(* The rest of the program.                                                *)

Cancel ==
  /\ ~ctxDone
  /\ ctxDone' = TRUE
  /\ UNCHANGED <<jobs, inFlt, stopped, callerVars, workerVars>>

\* Stop marks the pool, then waits: it returns once StopReturned holds.
Stop ==
  /\ ~stopped
  /\ stopped' = TRUE
  /\ UNCHANGED <<jobs, inFlt, ctxDone, callerVars, workerVars>>

StopReturned == stopped /\ \A w \in Workers : worker[w] = "exited"

CallStep(c) == Mark(c) \/ Send(c) \/ Full(c) \/ Unmark(c)

WorkStep(w) == Receive(w) \/ Exit(w) \/ Render(w) \/ Release(w)

Next ==
  \/ \E c \in Callers : CallStep(c) \/ \E h \in Hashes : Enqueue(c, h)
  \/ \E w \in Workers : WorkStep(w)
  \/ Cancel
  \/ Stop

Spec == Init /\ [][Next]_vars

\* The Go scheduler runs every runnable goroutine.  A conversion is
\* certain to end only once the context is cancelled, which kills it.
Scheduled ==
  /\ \A c \in Callers : WF_vars(CallStep(c))
  /\ \A w \in Workers :
       WF_vars(Receive(w) \/ Exit(w)) /\ WF_vars(Release(w)) /\ WF_vars(ctxDone /\ Render(w))

FairSpec == Spec /\ Scheduled

\* vipsthumbnail ends by itself.
ConversionsEnd == \A w \in Workers : WF_vars(Render(w))

------------------------------------------------------------------------------
(* Who accounts for the mark of h: a call that set it and has not yet      *)
(* queued or unset it, a queued job, or a worker.                          *)
CallHolds(c, h) == call[c] \in {"send", "unmark"} /\ arg[c] = h
SlotHolds(i, h) == i \in 1 .. Len(jobs) /\ jobs[i] = h
WorkHolds(w, h) == worker[w] \in {"render", "release"} /\ job[w] = h

(* A mark always has somebody who will clear it: without one the photo     *)
(* could never be converted again in this process (pool.go:26).            *)
MarkHeld ==
  \A h \in inFlt :
    \/ \E c \in Callers : CallHolds(c, h)
    \/ \E i \in 1 .. Len(jobs) : SlotHolds(i, h)
    \/ \E w \in Workers : WorkHolds(w, h)

(* ... and never two, so a photo is never queued twice, nor converted by   *)
(* two workers, nor unmarked under one that still works on it.             *)
OneHolder ==
  \A h \in Hashes :
    /\ \A c, d \in Callers : CallHolds(c, h) /\ CallHolds(d, h) => c = d
    /\ \A i, j \in 1 .. Len(jobs) : SlotHolds(i, h) /\ SlotHolds(j, h) => i = j
    /\ \A v, w \in Workers : WorkHolds(v, h) /\ WorkHolds(w, h) => v = w
    /\ \A c \in Callers, i \in 1 .. Len(jobs) : ~(CallHolds(c, h) /\ SlotHolds(i, h))
    /\ \A c \in Callers, w \in Workers : ~(CallHolds(c, h) /\ WorkHolds(w, h))
    /\ \A i \in 1 .. Len(jobs), w \in Workers : ~(SlotHolds(i, h) /\ WorkHolds(w, h))

(* What is held is marked: the strengthening OneHolder needs.              *)
HeldMarked ==
  /\ \A c \in Callers : call[c] # "idle" => arg[c] \in Hashes
  /\ \A c \in Callers : call[c] \in {"send", "unmark"} => arg[c] \in inFlt
  /\ \A i \in 1 .. Len(jobs) : jobs[i] \in inFlt
  /\ \A w \in Workers : worker[w] \in {"render", "release"} => job[w] \in inFlt
  /\ \A w \in Workers : job[w] # NoHash <=> worker[w] \in {"render", "release"}
  /\ Len(jobs) <= QueueCap

IInv == TypeOK /\ MarkHeld /\ OneHolder /\ HeldMarked

(* The pool is the bounded queue without duplicates that its callers see.  *)
Abstract == INSTANCE RenditionQueue WITH queue <- jobs, running <- job
ImplementsQueue == Abstract!Spec

(* A queued job is taken by a worker while the process runs, whatever the  *)
(* other callers do, as long as conversions end.                           *)
QueuedIsTaken ==
  ConversionsEnd =>
    \A h \in Hashes :
      (\E i \in 1 .. Len(jobs) : jobs[i] = h) ~> (ctxDone \/ \E w \in Workers : job[w] = h)

(* No mark outlives the work: a photo that was dropped or converted can be *)
(* queued again.                                                           *)
MarkCleared == ConversionsEnd => \A h \in Hashes : h \in inFlt ~> (h \notin inFlt \/ ctxDone)

(* "Stop then waits for in-flight work to finish" (pool.go:42-43): after a *)
(* cancellation it does return, even with jobs queued and conversions that *)
(* would never end by themselves.                                          *)
StopReturns == (stopped /\ ctxDone) ~> StopReturned
==============================================================================
