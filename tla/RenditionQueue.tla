---------------------------- MODULE RenditionQueue ----------------------------
(***************************************************************************)
(* What internal/convert promises its callers: a bounded FIFO of photos to *)
(* convert, in which a photo waits or runs at most once.  It promises      *)
(* nothing about a photo it does not accept.                               *)
(***************************************************************************)
EXTENDS Naturals, Sequences, Functions

CONSTANTS Hashes,    \* photos
          Workers,   \* conversion goroutines
          QueueCap,  \* capacity of the queue
          NoHash     \* not a photo

VARIABLES queue,   \* photos waiting, oldest first
          running  \* worker -> the photo it converts, or NoHash

rqVars == <<queue, running>>

Waiting == Range(queue)
Running == Range(running) \ {NoHash}

Init ==
  /\ queue = <<>>
  /\ running = [w \in Workers |-> NoHash]

Accept(h) ==
  /\ h \notin Waiting \cup Running
  /\ Len(queue) < QueueCap
  /\ queue' = Append(queue, h)
  /\ UNCHANGED running

Take(w) ==
  /\ running[w] = NoHash
  /\ queue # <<>>
  /\ running' = [running EXCEPT ![w] = Head(queue)]
  /\ queue' = Tail(queue)

Finish(w) ==
  /\ running[w] # NoHash
  /\ running' = [running EXCEPT ![w] = NoHash]
  /\ UNCHANGED queue

\* The process ends: the queue is in memory only.
Forget ==
  /\ queue' = <<>>
  /\ running' = [w \in Workers |-> NoHash]

Next ==
  \/ \E h \in Hashes : Accept(h)
  \/ \E w \in Workers : Take(w) \/ Finish(w)
  \/ Forget

Spec == Init /\ [][Next]_rqVars
==============================================================================
