----------------------------- MODULE UploadRequest -----------------------------
(***************************************************************************)
(* Upload requests at the server: handleUpload and storeOnePart with its   *)
(* size limit (internal/server/upload.go), behind the access gate.         *)
(*                                                                         *)
(* A request carries files, each as one part of its body; each part ends   *)
(* in an outcome of its own and the answer sums them up.  The connection   *)
(* can break at any time: what the server has read by then it may still    *)
(* store, but nobody hears of it.  Inside, storing a file is PhotoPipeline;*)
(* here it either ends with a row or it does not.                          *)
(***************************************************************************)
EXTENDS Naturals, Sequences

CONSTANTS Requests,   \* requests that can be under way at once
          Blobs,      \* contents of files
          Images,     \* contents the server takes for JPEG, PNG or HEIC
          Size,       \* content -> its length
          MaxBody,    \* maxBody, the longest file to accept
          FormBodies, \* bodies of the form that works without scripts
          Faults      \* what may go wrong: subset of AllFaults

AllFaults == {"gate", "session", "io", "db", "net"}

ASSUME RequestAssumption ==
  /\ Images \subseteq Blobs
  /\ MaxBody \in Nat
  /\ Size \in [Blobs -> Nat]
  /\ FormBodies \subseteq Seq(Blobs)
  /\ Faults \subseteq AllFaults

VARIABLES req,  \* request -> its state
          rows  \* contents that ever got a row in photos

reqVars == <<req, rows>>

Outcomes == {"ok", "type", "large", "store", "db"}

\* Not under way.
NoRequest == [at |-> "free", body |-> <<>>, results |-> <<>>, status |-> 0, cut |-> FALSE]

ReqTypeOK ==
  /\ req \in [Requests -> [at : {"free", "sent", "parts", "answered"}, body : Seq(Blobs),
                           results : Seq(Outcomes), status : Nat, cut : BOOLEAN]]
  /\ rows \subseteq Blobs

ReqInit ==
  /\ req = [r \in Requests |-> NoRequest]
  /\ rows = {}

------------------------------------------------------------------------------
(* The size limit.                                                         *)

Least(m, n) == IF m < n THEN m ELSE n

\* How copying `left' bytes through a reader with `remaining' to go can end:
\* each Read returns some bytes, the end of the file comes with the last
\* ones or alone, and a Read with nothing remaining is an error.
Copying[left \in Nat] == [remaining \in Nat |->
  IF remaining = 0 THEN {"large"}
  ELSE IF left = 0 THEN {"ok"}
  ELSE UNION {(IF n = left THEN {"ok"} ELSE {}) \cup Copying[left - n][remaining - n] :
                n \in 1 .. Least(left, remaining)}]

\* The reader gets one byte more than the limit (mutant: the limit itself).
StoreStrict(b) == Copying[Size[b]][MaxBody]

Limited(b) == Copying[Size[b]][MaxBody + 1]

------------------------------------------------------------------------------
(* The handler.                                                            *)

Sent(body) == [at |-> "sent", body |-> body, results |-> <<>>, status |-> 0, cut |-> FALSE]
Begin(r, body) == req' = [req EXCEPT ![r] = Sent(body)]

\* The plain form, with any number of files.
FormPost(r) ==
  /\ req[r].at = "free"
  /\ \E body \in FormBodies : Begin(r, body)
  /\ UNCHANGED rows

Reply(r, s) == req' = [req EXCEPT ![r] = [req[r] EXCEPT !.at = "answered", !.status = s]]

\* The gate's page, or "session error": not JSON.
Refuse(r) ==
  /\ req[r].at = "sent"
  /\ \E s \in (IF "gate" \in Faults THEN {200} ELSE {}) \cup (IF "session" \in Faults THEN {500} ELSE {}) :
       Reply(r, s)
  /\ UNCHANGED rows

Accept(r) ==
  /\ req[r].at = "sent"
  /\ req' = [req EXCEPT ![r].at = "parts"]
  /\ UNCHANGED rows

\* The part storeOnePart is called with.
Current(r) == req[r].body[Len(req[r].results) + 1]

\* What storeOnePart can return for content b.
PartOutcomes(b) ==
  IF b \notin Images THEN {"type"}
  ELSE Limited(b) \cup (IF "io" \in Faults THEN {"store"} ELSE {})
                  \cup (IF "db" \in Faults /\ "ok" \in Limited(b) THEN {"db"} ELSE {})

\* One part is stored, or not, and the next one is read (mutant: a failed
\* insert is reported as success).
ReportAnyway(r) ==
  /\ req[r].at = "parts"
  /\ Len(req[r].results) < Len(req[r].body)
  /\ \E o \in Outcomes :
       /\ o \in PartOutcomes(Current(r))
       /\ req' = [req EXCEPT ![r].results = Append(@, IF o = "db" THEN "ok" ELSE o)]
       /\ rows' = IF o = "ok" THEN rows \cup {Current(r)} ELSE rows

StorePart(r) ==
  /\ req[r].at = "parts"
  /\ Len(req[r].results) < Len(req[r].body)
  /\ \E o \in Outcomes :
       /\ o \in PartOutcomes(Current(r))
       /\ req' = [req EXCEPT ![r].results = Append(@, o)]
       /\ rows' = IF o = "ok" THEN rows \cup {Current(r)} ELSE rows

\* anyOK: one file that was stored makes the answer a success.
StatusOf(results) ==
  IF results = <<>> THEN 400
  ELSE IF \E k \in DOMAIN results : results[k] = "ok" THEN 200
  ELSE 415

Finish(r) ==
  /\ req[r].at = "parts"
  /\ Len(req[r].results) = Len(req[r].body)
  /\ Reply(r, StatusOf(req[r].results))
  /\ UNCHANGED rows

\* The other end is gone: NextPart fails, the process dies, or the answer
\* is written to nobody.
Abandoned(r) ==
  /\ req[r].cut
  /\ req' = [req EXCEPT ![r] = NoRequest]
  /\ UNCHANGED rows

\* A form's answer is seen, or its connection breaks.
FormSeen(r) ==
  /\ req[r].at = "answered" /\ ~req[r].cut
  /\ req' = [req EXCEPT ![r] = NoRequest]
  /\ UNCHANGED rows

FormBreaks(r) ==
  /\ "net" \in Faults
  /\ req[r].at # "free" /\ ~req[r].cut
  /\ req' = [req EXCEPT ![r].cut = TRUE]
  /\ UNCHANGED rows

ServerStep(r) == Refuse(r) \/ Accept(r) \/ StorePart(r) \/ Finish(r) \/ Abandoned(r)

------------------------------------------------------------------------------
\* Nothing is reported before the body is read.
Unread == \A r \in Requests : req[r].at \in {"free", "sent"} => req[r].results = <<>>

(* What an answer says of each file is so: a file reported ok has a row,   *)
(* every file of a body has its own report, whatever became of the others, *)
(* and the status is a success exactly if one was stored (upload.go:118-   *)
(* 139, "A failure on one file never aborts the others").                  *)
AnswerTrue ==
  \A r \in Requests :
    /\ \A k \in DOMAIN req[r].results : req[r].results[k] = "ok" => req[r].body[k] \in rows
    /\ req[r].at = "answered" /\ req[r].results # <<>> =>
         /\ Len(req[r].results) = Len(req[r].body)
         /\ req[r].status = 200 <=> \E k \in DOMAIN req[r].results : req[r].results[k] = "ok"

(* The limit is exact to a byte, however the bytes arrive: no file within  *)
(* maxBody is refused as too large, and none beyond maxBody + 1 is stored  *)
(* (upload.go:158-160, 250-269).                                           *)
LimitKept ==
  /\ \A b \in rows : Size[b] <= MaxBody + 1
  /\ \A r \in Requests : \A k \in DOMAIN req[r].results :
       req[r].results[k] = "large" => Size[req[r].body[k]] > MaxBody
==============================================================================
