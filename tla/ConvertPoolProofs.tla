--------------------------- MODULE ConvertPoolProofs ---------------------------
(* The marks of the pool, and what it implements, for any number of        *)
(* callers, workers and photos and any capacity.                           *)
EXTENDS ConvertPool, TLAPS

USE PoolAssumption

(* The empty pool.                                                         *)
LEMMA InitIInv == Init => IInv
<1> SUFFICES ASSUME Init PROVE IInv
  OBVIOUS
<1> USE DEF Init, CallHolds, SlotHolds, WorkHolds
<1>1. Len(jobs) = 0 /\ 1 .. Len(jobs) = {} /\ Len(jobs) <= QueueCap
  <2>1. jobs = <<>>
    OBVIOUS
  <2>2. Len(jobs) = 0
    BY <2>1
  <2>3. 1 .. Len(jobs) = {}
    BY <2>2
  <2>4. Len(jobs) <= QueueCap
    BY <2>2, PoolAssumption
  <2> QED BY <2>2, <2>3, <2>4
<1>2. TypeOK
  <2>1. <<>> \in Seq(Hashes)
    OBVIOUS
  <2> QED BY <2>1 DEF TypeOK
<1>3. MarkHeld /\ OneHolder
  BY <1>1 DEF MarkHeld, OneHolder
<1>4. HeldMarked
  BY <1>1, PoolAssumption DEF HeldMarked
<1> QED BY <1>2, <1>3, <1>4 DEF IInv

(* A call that only moves between states that hold nothing.                *)
LEMMA EnqueueIInv ==
  ASSUME IInv, NEW c \in Callers, NEW h \in Hashes, Enqueue(c, h)
  PROVE  IInv'
BY DEF IInv, TypeOK, MarkHeld, OneHolder, HeldMarked, CallHolds, SlotHolds, WorkHolds,
       Enqueue, workerVars

(* LoadOrStore: the mark is new, so nobody else holds it.                  *)
LEMMA MarkIInv ==
  ASSUME IInv, NEW c \in Callers, Mark(c)
  PROVE  IInv'
BY DEF IInv, TypeOK, MarkHeld, OneHolder, HeldMarked, CallHolds, SlotHolds, WorkHolds,
       Mark, CallEnds, workerVars

(* The mark passes from the call to the slot at the end of the queue.      *)
LEMMA SendIInv ==
  ASSUME IInv, NEW c \in Callers, Send(c)
  PROVE  IInv'
<1> USE DEF IInv, TypeOK, HeldMarked, CallHolds, SlotHolds, WorkHolds, Send, CallEnds, workerVars
<1>1. /\ Len(jobs') = Len(jobs) + 1
      /\ \A i \in 1 .. Len(jobs) : jobs'[i] = jobs[i]
      /\ jobs'[Len(jobs')] = arg[c]
      /\ Len(jobs) \in Nat
  OBVIOUS
<1>2. TypeOK'
  OBVIOUS
<1>3. MarkHeld'
  BY <1>1 DEF MarkHeld
<1>4. OneHolder'
  BY <1>1 DEF OneHolder
<1>5. HeldMarked'
  BY <1>1, PoolAssumption
<1> QED BY <1>2, <1>3, <1>4, <1>5

(* A full queue leaves the mark with the call, which then clears it.       *)
LEMMA FullIInv ==
  ASSUME IInv, NEW c \in Callers, Full(c) \/ Unmark(c)
  PROVE  IInv'
<1> USE DEF IInv, TypeOK, MarkHeld, OneHolder, HeldMarked, CallHolds, SlotHolds, WorkHolds,
            CallEnds, workerVars
<1>1. CASE Full(c)
  BY <1>1 DEF Full
<1>2. CASE Unmark(c)
  BY <1>2 DEF Unmark
<1> QED BY <1>1, <1>2

(* The mark of the oldest job passes to the worker; the others move up.    *)
LEMMA ReceiveIInv ==
  ASSUME IInv, NEW w \in Workers, Receive(w)
  PROVE  IInv'
<1> USE DEF IInv, TypeOK, HeldMarked, CallHolds, SlotHolds, WorkHolds, Receive, callerVars
<1>1. /\ Len(jobs) \in Nat \ {0}
      /\ Len(jobs') = Len(jobs) - 1
      /\ \A i \in 1 .. Len(jobs') : jobs'[i] = jobs[i + 1]
      /\ job' = [job EXCEPT ![w] = jobs[1]]
      /\ jobs[1] \in Hashes
  OBVIOUS
<1>2. TypeOK'
  BY <1>1
<1>3. MarkHeld'
  <2> SUFFICES ASSUME NEW h \in inFlt,
                      \A i \in 1 .. Len(jobs') : ~SlotHolds(i, h)',
                      \A v \in Workers : ~WorkHolds(v, h)'
               PROVE  \E c \in Callers : CallHolds(c, h)'
    BY DEF MarkHeld
  <2>1. ASSUME NEW i \in 1 .. Len(jobs), SlotHolds(i, h) PROVE FALSE
    <3>1. CASE i = 1
      BY <1>1, <2>1, <3>1
    <3>2. CASE i # 1
      <4>1. i - 1 \in 1 .. Len(jobs')
        BY <1>1, <3>2
      <4>2. jobs'[i - 1] = jobs[i]
        BY <1>1, <4>1
      <4> QED BY <2>1, <4>1, <4>2
    <3> QED BY <3>1, <3>2
  <2>2. ASSUME NEW v \in Workers, WorkHolds(v, h) PROVE FALSE
    BY <2>2
  <2> QED BY <2>1, <2>2 DEF MarkHeld
<1>4. OneHolder'
  BY <1>1 DEF OneHolder
<1>5. HeldMarked'
  BY <1>1, PoolAssumption
<1> QED BY <1>2, <1>3, <1>4, <1>5

(* The worker gives the mark up as it clears it.                           *)
LEMMA WorkerIInv ==
  ASSUME IInv, NEW w \in Workers, Exit(w) \/ Render(w) \/ Release(w)
  PROVE  IInv'
<1> USE DEF IInv, TypeOK, MarkHeld, OneHolder, HeldMarked, CallHolds, SlotHolds, WorkHolds,
            callerVars
<1>1. CASE Exit(w)
  BY <1>1 DEF Exit
<1>2. CASE Render(w)
  BY <1>2 DEF Render
<1>3. CASE Release(w)
  BY <1>3, PoolAssumption DEF Release
<1> QED BY <1>1, <1>2, <1>3

\* Every step of the pool keeps IInv.
LEMMA NextIInv == IInv /\ [Next]_vars => IInv'
<1> SUFFICES ASSUME IInv, [Next]_vars PROVE IInv'
  OBVIOUS
<1>1. CASE Cancel \/ Stop \/ UNCHANGED vars
  <2>1. UNCHANGED <<jobs, inFlt, call, arg, worker, job>> /\ stopped' \in BOOLEAN /\ ctxDone' \in BOOLEAN
    BY <1>1 DEF Cancel, Stop, vars, callerVars, workerVars, IInv, TypeOK
  <2> QED
    BY <2>1 DEF IInv, TypeOK, MarkHeld, OneHolder, HeldMarked, CallHolds, SlotHolds, WorkHolds
<1>2. ASSUME NEW c \in Callers, CallStep(c) \/ \E h \in Hashes : Enqueue(c, h) PROVE IInv'
  BY <1>2, EnqueueIInv, MarkIInv, SendIInv, FullIInv DEF CallStep
<1>3. ASSUME NEW w \in Workers, WorkStep(w) PROVE IInv'
  BY <1>3, ReceiveIInv, WorkerIInv DEF WorkStep
<1> QED BY <1>1, <1>2, <1>3 DEF Next

(* The accounting of marks is inductive: it needs that whatever holds a    *)
(* photo has marked it, so that a new mark finds no other holder.          *)
THEOREM Accounting == Spec => []IInv
BY InitIInv, NextIInv, PTL DEF Spec

(* A marked photo always has somebody who will clear its mark.             *)
THEOREM MarksAreHeld == Spec => []MarkHeld
<1>1. IInv => MarkHeld
  BY DEF IInv
<1> QED BY <1>1, Accounting, PTL

(* No photo is queued twice or converted by two workers at once.           *)
THEOREM NoDuplicateWork == Spec => []OneHolder
<1>1. IInv => OneHolder
  BY DEF IInv
<1> QED BY <1>1, Accounting, PTL

(* A photo that is being queued neither waits nor runs.                    *)
LEMMA FreeToAccept ==
  ASSUME IInv, NEW c \in Callers, call[c] = "send"
  PROVE  arg[c] \notin Abstract!Waiting \cup Abstract!Running
<1>1. arg[c] \in Hashes /\ CallHolds(c, arg[c])
  BY DEF IInv, HeldMarked, CallHolds
<1>2. arg[c] \notin Abstract!Waiting
  <2> SUFFICES ASSUME NEW i \in DOMAIN jobs, jobs[i] = arg[c] PROVE FALSE
    BY DEF Abstract!Waiting, Abstract!Range
  <2>1. i \in 1 .. Len(jobs)
    BY DEF IInv, TypeOK
  <2> QED BY <1>1, <2>1 DEF IInv, OneHolder, SlotHolds
<1>3. arg[c] \notin Abstract!Running
  <2> SUFFICES ASSUME NEW w \in DOMAIN job, job[w] = arg[c] PROVE FALSE
    BY DEF Abstract!Running, Abstract!Range
  <2>1. w \in Workers /\ WorkHolds(w, arg[c])
    BY <1>1, PoolAssumption DEF IInv, TypeOK, HeldMarked, WorkHolds
  <2> QED BY <1>1, <2>1 DEF IInv, OneHolder
<1> QED BY <1>2, <1>3

(* Every step of the pool is a step of the abstract queue or none: the     *)
(* marks, the flags and the places of the goroutines are the pool's own.   *)
LEMMA StepImplements == IInv /\ [Next]_vars => [Abstract!Next]_(Abstract!rqVars)
<1> SUFFICES ASSUME IInv, [Next]_vars PROVE [Abstract!Next]_(Abstract!rqVars)
  OBVIOUS
<1> USE DEF Abstract!rqVars, callerVars, workerVars
<1>1. ASSUME NEW c \in Callers, Send(c) PROVE Abstract!Accept(arg[c]) /\ arg[c] \in Hashes
  BY <1>1, FreeToAccept DEF Send, Abstract!Accept, IInv, HeldMarked
<1>2. ASSUME NEW w \in Workers, Receive(w) PROVE Abstract!Take(w)
  BY <1>2 DEF Receive, Abstract!Take, IInv, HeldMarked
<1>3. ASSUME NEW w \in Workers, Release(w) PROVE Abstract!Finish(w)
  BY <1>3, PoolAssumption DEF Release, Abstract!Finish, IInv, TypeOK, HeldMarked
<1>4. ASSUME NEW c \in Callers, Mark(c) \/ Full(c) \/ Unmark(c) \/ \E h \in Hashes : Enqueue(c, h)
      PROVE  UNCHANGED Abstract!rqVars
  BY <1>4 DEF Mark, Full, Unmark, Enqueue
<1>5. ASSUME NEW w \in Workers, Exit(w) \/ Render(w) PROVE UNCHANGED Abstract!rqVars
  BY <1>5 DEF Exit, Render
<1>6. ASSUME Cancel \/ Stop \/ UNCHANGED vars PROVE UNCHANGED Abstract!rqVars
  BY <1>6 DEF Cancel, Stop, vars
<1> QED
  BY <1>1, <1>2, <1>3, <1>4, <1>5, <1>6 DEF Next, CallStep, WorkStep, Abstract!Next

(* The pool implements the bounded queue without duplicates.               *)
THEOREM Implements == Spec => ImplementsQueue
<1>1. Init => Abstract!Init
  BY DEF Init, Abstract!Init
<1> QED BY <1>1, StepImplements, Accounting, PTL DEF Spec, ImplementsQueue, Abstract!Spec
==============================================================================
