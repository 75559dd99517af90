------------------------------ MODULE UploadClient ------------------------------
(***************************************************************************)
(* The upload scripts of one guest (internal/server/assets/upload.js,      *)
(* polaroid.js, resize.js) against the server of UploadRequest.            *)
(*                                                                         *)
(* upload.js keeps a queue of picked files, sends at most MaxConcurrent at *)
(* once, retries with a growing pause, gives up after MaxRetries until the *)
(* guest taps, and remembers in localStorage which files were shared.      *)
(* polaroid.js sends each shot at once and leaves every retry to the guest.*)
(* Both shrink a photo first (resize.js), or send it as it is if that      *)
(* fails or takes too long: what a file becomes may differ from one try to *)
(* the next.                                                               *)
(***************************************************************************)
EXTENDS UploadRequest, FiniteSets

CONSTANTS Files,          \* files on the phone, by the signature of sigOf
          Sends,          \* file -> what resize may make of it
          Items,          \* rows of the upload page and tiles of the polaroid page
          Shots,          \* those of the polaroid page
          MaxConcurrent,  \* MAX_CONCURRENT
          MaxRetries,     \* MAX_RETRIES
          Forms,          \* the requests the plain form uses
          None            \* no file, no request

ASSUME ClientAssumption ==
  /\ Sends \in [Files -> SUBSET Blobs]
  /\ IsFiniteSet(Items)
  /\ Shots \subseteq Items
  /\ Forms \subseteq Requests
  /\ MaxConcurrent \in Nat \ {0}
  /\ MaxRetries \in Nat
  /\ None \notin Files \cup Requests

VARIABLES place,   \* item -> what its row or tile shows
          file,    \* item -> its file
          tries,   \* item -> failed tries in a row
          xhr,     \* item -> its request
          queue,   \* upload.js's queue
          active,  \* upload.js's count of sends under way
          done     \* files with a mark in localStorage

pageVars == <<place, file, tries, xhr, queue, active>>
vars == <<reqVars, pageVars, done>>

Picked == Items \ Shots

Places == {"none", "queued", "preparing", "uploading", "waiting", "failed", "refused", "shared"}

TypeOK ==
  /\ ReqTypeOK
  /\ place \in [Items -> Places]
  /\ file \in [Items -> Files \cup {None}]
  /\ tries \in [Items -> Nat]
  /\ xhr \in [Items -> Requests \cup {None}]
  /\ queue \in Seq(Picked)
  /\ active \in Nat
  /\ done \subseteq Files

Init ==
  /\ ReqInit
  /\ place = [i \in Items |-> "none"]
  /\ file = [i \in Items |-> None]
  /\ tries = [i \in Items |-> 0]
  /\ xhr = [i \in Items |-> None]
  /\ queue = <<>>
  /\ active = 0
  /\ done = {}

------------------------------------------------------------------------------
(* upload.js.                                                              *)

\* How many of q the loop of pump starts with a sends under way.
Started(q, a) == IF a < MaxConcurrent THEN Least(MaxConcurrent - a, Len(q)) ELSE 0

\* The end of every handler: pump, from queue q, a sends and places pl.
Pump(q, a, pl) ==
  LET n == Started(q, a) IN
  /\ queue' = SubSeq(q, n + 1, Len(q))
  /\ active' = a + n
  /\ place' = [i \in Items |-> IF \E k \in 1 .. n : q[k] = i THEN "preparing" ELSE pl[i]]

\* One page at a time, and the plain form is inside <noscript>.  The bound:
\* pages open beside each other are not looked at, they share only the marks.
Closed(page) == \A i \in page : place[i] = "none"
Scripts == \A r \in Forms : req[r].at = "free"

\* enqueue.  A file with a mark gets a row that says so and nothing else.
Pick(i, f) ==
  /\ i \in Picked /\ place[i] = "none" /\ Closed(Shots) /\ Scripts
  /\ f \notin done
  /\ file' = [file EXCEPT ![i] = f]
  /\ Pump(Append(queue, i), active, [place EXCEPT ![i] = "queued"])
  /\ UNCHANGED <<tries, xhr, done, reqVars>>

\* resize resolves, to one of what it may resolve to, and the request goes
\* out.  More requests at once than there are in Requests are not looked at.
Prepared(i) ==
  /\ place[i] = "preparing"
  /\ \E r \in Requests \ Forms, b \in Sends[file[i]] :
       /\ req[r].at = "free"
       /\ Begin(r, <<b>>)
       /\ xhr' = [xhr EXCEPT ![i] = r]
  /\ place' = [place EXCEPT ![i] = "uploading"]
  /\ UNCHANGED <<file, tries, queue, active, done, rows>>

\* retry: pause, or give up.
Retried(i) == IF tries[i] >= MaxRetries THEN "failed" ELSE "waiting"

\* The answer a is a success for the one file that was sent (mutant: by its
\* status alone).
StatusOnly(a) == a.status = 200
Shared(a) == a.status = 200 /\ a.results # <<>> /\ a.results[1] = "ok"

\* The request is over, and its record free for another.
Hang(i) ==
  /\ xhr' = [xhr EXCEPT ![i] = None]
  /\ req' = [req EXCEPT ![xhr[i]] = NoRequest]

Heard(i) == place[i] = "uploading" /\ req[xhr[i]].at = "answered"

\* onload: shared (the mark may fail to be written), not an image, or retry.
LoadedShared(i) ==
  /\ i \in Picked /\ Heard(i) /\ Shared(req[xhr[i]])
  /\ done' \in {done, done \cup {file[i]}}
  /\ Pump(queue, active - 1, [place EXCEPT ![i] = "shared"])
  /\ Hang(i)
  /\ UNCHANGED <<file, tries, rows>>

LoadedRefused(i) ==
  /\ i \in Picked /\ Heard(i) /\ ~Shared(req[xhr[i]]) /\ req[xhr[i]].status = 415
  /\ Pump(queue, active - 1, [place EXCEPT ![i] = "refused"])
  /\ Hang(i)
  /\ UNCHANGED <<file, tries, done, rows>>

\* (mutant: the try is not counted)
LoadedUncounted(i) ==
  /\ i \in Picked /\ Heard(i) /\ ~Shared(req[xhr[i]]) /\ req[xhr[i]].status # 415
  /\ Pump(queue, active - 1, [place EXCEPT ![i] = Retried(i)])
  /\ Hang(i)
  /\ UNCHANGED <<file, tries, done, rows>>

LoadedRetry(i) ==
  /\ i \in Picked /\ Heard(i) /\ ~Shared(req[xhr[i]]) /\ req[xhr[i]].status # 415
  /\ tries' = [tries EXCEPT ![i] = @ + 1]
  /\ Pump(queue, active - 1, [place EXCEPT ![i] = Retried(i)])
  /\ Hang(i)
  /\ UNCHANGED <<file, done, rows>>

\* The connection is gone; what the server has by then it may go on with.
Cut(i) ==
  /\ "net" \in Faults
  /\ place[i] = "uploading"
  /\ req' = [req EXCEPT ![xhr[i]].cut = TRUE]
  /\ xhr' = [xhr EXCEPT ![i] = None]

\* onerror (mutant: the slot is not given back).
BrokenKeeps(i) ==
  /\ i \in Picked /\ Cut(i)
  /\ tries' = [tries EXCEPT ![i] = @ + 1]
  /\ Pump(queue, active, [place EXCEPT ![i] = Retried(i)])
  /\ UNCHANGED <<file, done, rows>>

Broken(i) ==
  /\ i \in Picked /\ Cut(i)
  /\ tries' = [tries EXCEPT ![i] = @ + 1]
  /\ Pump(queue, active - 1, [place EXCEPT ![i] = Retried(i)])
  /\ UNCHANGED <<file, done, rows>>

BackoffEnds(i) ==
  /\ place[i] = "waiting"
  /\ Pump(Append(queue, i), active, [place EXCEPT ![i] = "queued"])
  /\ UNCHANGED <<file, tries, xhr, done, reqVars>>

\* "tap to retry" works once (mutant: as long as the row waits).
TapAgain(i) ==
  /\ i \in Picked /\ place[i] \in {"failed", "queued"}
  /\ tries' = [tries EXCEPT ![i] = 0]
  /\ Pump(Append(queue, i), active, [place EXCEPT ![i] = "queued"])
  /\ UNCHANGED <<file, xhr, done, reqVars>>

Tap(i) ==
  /\ i \in Picked /\ place[i] = "failed"
  /\ tries' = [tries EXCEPT ![i] = 0]
  /\ Pump(Append(queue, i), active, [place EXCEPT ![i] = "queued"])
  /\ UNCHANGED <<file, xhr, done, reqVars>>

------------------------------------------------------------------------------
(* polaroid.js: no queue, no marks, one try.                               *)

Shoot(i, f) ==
  /\ i \in Shots /\ place[i] = "none" /\ Closed(Picked) /\ Scripts
  /\ file' = [file EXCEPT ![i] = f]
  /\ place' = [place EXCEPT ![i] = "preparing"]
  /\ UNCHANGED <<tries, xhr, queue, active, done, reqVars>>

Developed(i) ==
  /\ i \in Shots /\ Heard(i)
  /\ place' = [place EXCEPT ![i] = IF Shared(req[xhr[i]]) THEN "shared" ELSE "failed"]
  /\ Hang(i)
  /\ UNCHANGED <<file, tries, queue, active, done, rows>>

ShotBroken(i) ==
  /\ i \in Shots /\ Cut(i)
  /\ place' = [place EXCEPT ![i] = "failed"]
  /\ UNCHANGED <<file, tries, queue, active, done, rows>>

TapShot(i) ==
  /\ i \in Shots /\ place[i] = "failed"
  /\ place' = [place EXCEPT ![i] = "preparing"]
  /\ UNCHANGED <<file, tries, xhr, queue, active, done, reqVars>>

------------------------------------------------------------------------------
\* A row or tile that says "shared" goes: after 2.5 s, or with the page.
Leaves(i) ==
  /\ place[i] = "shared"
  /\ place' = [place EXCEPT ![i] = "none"]
  /\ file' = [file EXCEPT ![i] = None]
  /\ tries' = [tries EXCEPT ![i] = 0]
  /\ UNCHANGED <<xhr, queue, active, done, reqVars>>

\* A page is reloaded or closed: its files and its queue are gone, its
\* requests break, the marks stay.
Reload(page) ==
  /\ ~Closed(page)
  /\ place' = [i \in Items |-> IF i \in page THEN "none" ELSE place[i]]
  /\ file' = [i \in Items |-> IF i \in page THEN None ELSE file[i]]
  /\ tries' = [i \in Items |-> IF i \in page THEN 0 ELSE tries[i]]
  /\ xhr' = [i \in Items |-> IF i \in page THEN None ELSE xhr[i]]
  /\ req' = [r \in Requests |-> IF \E i \in page : xhr[i] = r
                                THEN [req[r] EXCEPT !.cut = TRUE] ELSE req[r]]
  /\ queue' = IF page = Picked THEN <<>> ELSE queue
  /\ active' = IF page = Picked THEN 0 ELSE active
  /\ UNCHANGED <<done, rows>>

\* The page is told how its request ended.
Ends(i) ==
  LoadedShared(i) \/ LoadedRefused(i) \/ LoadedRetry(i) \/ Broken(i) \/ Developed(i) \/ ShotBroken(i)

\* An item's own next step: resize resolves (within TIMEOUT), a request ends
\* one way or the other, a pause ends.  No two are possible at once.
Goes(i) == Prepared(i) \/ Ends(i) \/ BackoffEnds(i)

Serves(r) == ServerStep(r) /\ UNCHANGED <<pageVars, done>>

Next ==
  \/ \E i \in Items :
       \/ \E f \in Files : Pick(i, f) \/ Shoot(i, f)
       \/ Goes(i) \/ Tap(i) \/ TapShot(i) \/ Leaves(i)
  \/ Reload(Picked) \/ Reload(Shots)
  \/ \E r \in Requests : Serves(r)
  \/ (\E r \in Forms : (Closed(Items) /\ FormPost(r)) \/ FormSeen(r) \/ FormBreaks(r)) /\ UNCHANGED <<pageVars, done>>

Spec == Init /\ [][Next]_vars

\* Scripts and server go on.
Fairness ==
  /\ \A i \in Items : WF_vars(Goes(i))
  /\ \A r \in Requests : WF_vars(Serves(r))

FairSpec == Spec /\ Fairness

------------------------------------------------------------------------------
(* A mark is never wrong: a file the page will skip from now on was stored *)
(* in one of its forms, whatever answer, gate page or error came for which *)
(* of its tries (upload.js:9-11, 86-91, 129-130).                          *)
DoneIsStored == \A f \in done : Sends[f] \cap rows # {}

\* Items of the upload page with a send under way.
Busy == {i \in Picked : place[i] \in {"preparing", "uploading"}}

(* The cap holds and no slot is lost: sends under way are counted exactly, *)
(* over answers, errors, taps and reloads, and nothing waits in the queue  *)
(* while a slot is free (upload.js:96-106, 121-146).                       *)
SlotsUsed ==
  /\ active = Cardinality(Busy)
  /\ active <= MaxConcurrent
  /\ queue # <<>> => active = MaxConcurrent

\* What a guest makes of a row or a tile.
Shows(p) ==
  IF p \in {"queued", "preparing", "uploading", "waiting"} THEN "pending"
  ELSE IF p = "failed" THEN "returned"
  ELSE p

(* The scripts keep what they promise: however answers, errors, pauses,    *)
(* taps, reloads and the files that wait for a slot interleave, each photo *)
(* is shared only when stored, retried exactly MaxRetries times, handed    *)
(* back once, and never dropped (upload.js:1-12, 121-167).                 *)
Promise == INSTANCE UploadPromise WITH
             state <- [i \in Items |-> Shows(place[i])],
             fails <- tries, stored <- rows, marks <- done
ImplementsPromise == Promise!Spec

(* Every picked file ends as shared, refused or with the guest's turn to   *)
(* tap: none is forgotten in a queue or retried for ever (upload.js:151-167).*)
Settles ==
  \A i \in Items :
    place[i] \in {"queued", "preparing", "uploading", "waiting"}
      ~> place[i] \in {"shared", "refused", "failed", "none"}

------------------------------------------------------------------------------
\* The queue holds the rows that say so, once each.
QueueOnce ==
  /\ \A j, k \in DOMAIN queue : queue[j] = queue[k] => j = k
  /\ \A i \in Items : place[i] = "queued" <=> \E k \in DOMAIN queue : queue[k] = i
  /\ \A i \in Shots : place[i] \notin {"waiting", "refused"}

\* An item has a request of its own, with what resize made of its file.
Lines ==
  /\ \A i \in Items : tries[i] > MaxRetries => place[i] = "failed" /\ i \in Picked
  /\ \A i \in Items : place[i] # "none" => file[i] # None
  /\ \A i \in Items : place[i] = "uploading" <=> xhr[i] # None
  /\ \A i \in Items : place[i] = "uploading" =>
       /\ xhr[i] \notin Forms
       /\ req[xhr[i]].at # "free" /\ ~req[xhr[i]].cut
       /\ \E b \in Sends[file[i]] : req[xhr[i]].body = <<b>>
  /\ \A i, j \in Items : xhr[i] = xhr[j] /\ xhr[i] # None => i = j

IInv == TypeOK /\ Unread /\ AnswerTrue /\ DoneIsStored /\ SlotsUsed /\ QueueOnce /\ Lines
==============================================================================
