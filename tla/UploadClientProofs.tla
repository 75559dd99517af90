-------------------------- MODULE UploadClientProofs --------------------------
(* The upload scripts and the upload handler, for any number of rows,      *)
(* tiles, files, requests, any cap and any number of retries.              *)
EXTENDS UploadClient, FiniteSetTheorems, SequenceTheorems, WellFoundedInduction, TLAPS

USE RequestAssumption, ClientAssumption
USE DEF TypeOK, ReqTypeOK, reqVars, pageVars, Places

\* Requests as records, in one place.
ReqRecord == [at : {"free", "sent", "parts", "answered"}, body : Seq(Blobs),
              results : Seq(Outcomes), status : Nat, cut : BOOLEAN]

\* What AnswerTrue and Unread say of one request when R has the rows.
RecordTrue(q, R) ==
  /\ q.at \in {"free", "sent"} => q.results = <<>>
  /\ \A k \in DOMAIN q.results : q.results[k] = "ok" => q.body[k] \in R
  /\ q.at = "answered" /\ q.results # <<>> =>
       /\ Len(q.results) = Len(q.body)
       /\ q.status = 200 <=> \E k \in DOMAIN q.results : q.results[k] = "ok"

\* No request says nothing.
LEMMA NoRequestTrue == NoRequest \in ReqRecord /\ \A R : RecordTrue(NoRequest, R)
BY EmptySeq DEF NoRequest, ReqRecord, RecordTrue

\* A request that was true stays so while rows grow.
LEMMA RecordsAre ==
  ASSUME TypeOK, Unread, AnswerTrue, NEW r \in Requests, NEW R, rows \subseteq R
  PROVE  req[r] \in ReqRecord /\ RecordTrue(req[r], R)
BY DEF ReqRecord, RecordTrue, Unread, AnswerTrue

\* Requests that are true each make the two invariants.
LEMMA RecordsMake ==
  ASSUME req' \in [Requests -> ReqRecord], \A r \in Requests : RecordTrue(req'[r], rows')
  PROVE  Unread' /\ AnswerTrue'
BY DEF RecordTrue, Unread, AnswerTrue

------------------------------------------------------------------------------
(* The server's steps, and a form's.  One request changes, rows grow, and  *)
(* a request an item waits for keeps its body.                             *)
LEMMA ServerStepIInv ==
  ASSUME IInv, NEW r \in Requests, NEW q \in ReqRecord,
         req' = [req EXCEPT ![r] = q],
         rows \subseteq rows', rows' \subseteq Blobs,
         RecordTrue(q, rows'),
         \A i \in Items : xhr[i] = r => q.at # "free" /\ ~q.cut /\ q.body = req[r].body,
         UNCHANGED <<pageVars, done>>
  PROVE  IInv'
<1> USE DEF IInv
<1>1. \A s \in Requests : req'[s] = IF s = r THEN q ELSE req[s]
  OBVIOUS
<1>2. req' \in [Requests -> ReqRecord] /\ \A s \in Requests : RecordTrue(req'[s], rows')
  <2>1. \A s \in Requests : req[s] \in ReqRecord /\ RecordTrue(req[s], rows')
    BY RecordsAre
  <2> QED BY <1>1, <2>1
<1>3. Unread' /\ AnswerTrue'
  BY <1>2, RecordsMake
<1>4. TypeOK'
  BY <1>2 DEF ReqRecord
<1>5. DoneIsStored'
  BY DEF DoneIsStored
<1>6. SlotsUsed' /\ QueueOnce'
  BY DEF SlotsUsed, QueueOnce, Busy
<1>7. Lines'
  BY <1>1 DEF Lines
<1> QED BY <1>3, <1>4, <1>5, <1>6, <1>7

(* The end of a request at the server, with a status that is right.        *)
LEMMA ReplyIInv ==
  ASSUME IInv, NEW r \in Requests, NEW s \in Nat, Reply(r, s), req[r].at # "free",
         rows' = rows, UNCHANGED <<pageVars, done>>,
         req[r].results # <<>> =>
           /\ Len(req[r].results) = Len(req[r].body)
           /\ s = 200 <=> \E k \in DOMAIN req[r].results : req[r].results[k] = "ok"
  PROVE  IInv'
<1> USE DEF IInv
<1> DEFINE old == req[r]  q == [old EXCEPT !.at = "answered", !.status = s]
<1>1. old \in ReqRecord /\ RecordTrue(old, rows)
  BY RecordsAre
<1>2. q \in ReqRecord /\ req' = [req EXCEPT ![r] = q]
  BY <1>1 DEF ReqRecord, Reply
<1>3. /\ q.at = "answered" /\ q.status = s /\ q.cut = old.cut
      /\ q.body = old.body /\ q.results = old.results
  BY <1>1 DEF ReqRecord
<1>4. \A i \in Items : xhr[i] = r => ~old.cut
  BY DEF Lines
<1> HIDE DEF q
<1>5. RecordTrue(q, rows') /\ rows \subseteq rows' /\ rows' \subseteq Blobs
  BY <1>1, <1>3 DEF RecordTrue
<1>6. \A i \in Items : xhr[i] = r => q.at # "free" /\ ~q.cut /\ q.body = req[r].body
  BY <1>3, <1>4
<1>7. UNCHANGED <<pageVars, done>>
  OBVIOUS
<1> HIDE DEF IInv, pageVars
<1> QED BY <1>2, <1>5, <1>6, <1>7, ServerStepIInv, ZenonT(60)

(* The server's own steps.                                                 *)
LEMMA ServesIInv ==
  ASSUME IInv, NEW r \in Requests, Serves(r)
  PROVE  IInv'
<1> USE DEF IInv
<1> DEFINE old == req[r]
<1>1. UNCHANGED <<pageVars, done>>
  BY DEF Serves
<1>2. old \in ReqRecord /\ \A R : rows \subseteq R => RecordTrue(old, R)
  BY RecordsAre
<1>3. \A i \in Items : xhr[i] = r => old.at # "free" /\ ~old.cut
  BY DEF Lines
<1>4. CASE Refuse(r)
  <2>1. old.results = <<>>
    BY <1>2, <1>4 DEF Refuse, RecordTrue
  <2>2. PICK s \in Nat : Reply(r, s)
    <3>1. PICK s \in {200, 500} : Reply(r, s)
      BY <1>4 DEF Refuse
    <3> QED BY <3>1
  <2>3. rows' = rows
    BY <1>4 DEF Refuse
  <2>4. req[r].at # "free"
    BY <1>4 DEF Refuse
  <2> QED BY <1>1, <2>1, <2>2, <2>3, <2>4, ReplyIInv
<1>5. CASE Accept(r)
  <2> DEFINE q == [old EXCEPT !.at = "parts"]
  <2>1. req' = [req EXCEPT ![r] = q] /\ q \in ReqRecord /\ rows' = rows
    BY <1>2, <1>5 DEF Accept, ReqRecord
  <2>2. RecordTrue(q, rows)
    BY <1>2 DEF RecordTrue, ReqRecord
  <2>3. q.at # "free" /\ q.cut = old.cut /\ q.body = old.body
    BY <1>2 DEF ReqRecord
  <2>4. RecordTrue(q, rows') /\ rows \subseteq rows' /\ rows' \subseteq Blobs
    BY <2>1, <2>2
  <2> HIDE DEF q
  <2> QED BY <1>1, <1>3, <2>1, <2>3, <2>4, ServerStepIInv
<1>6. CASE StorePart(r)
  <2>1. PICK o \in Outcomes : /\ req' = [req EXCEPT ![r].results = Append(@, o)]
                              /\ rows' = IF o = "ok" THEN rows \cup {Current(r)} ELSE rows
    BY <1>6 DEF StorePart
  <2> DEFINE q == [old EXCEPT !.results = Append(old.results, o)]
  <2>2. /\ old.results \in Seq(Outcomes) /\ old.body \in Seq(Blobs)
        /\ old.at = "parts" /\ Len(old.results) < Len(old.body)
    BY <1>2, <1>6 DEF StorePart, ReqRecord
  <2>3. /\ q \in ReqRecord /\ q.at = "parts" /\ q.cut = old.cut /\ q.body = old.body
        /\ q.results = Append(old.results, o) /\ req' = [req EXCEPT ![r] = q]
    <3>1. Append(old.results, o) \in Seq(Outcomes)
      BY <2>2, AppendProperties
    <3> QED BY <1>2, <2>1, <2>2, <3>1 DEF ReqRecord
  <2>4. Current(r) \in Blobs
    <3>1. Len(old.results) + 1 \in 1 .. Len(old.body)
      BY <2>2
    <3> QED BY <2>2, <3>1, ElementOfSeq DEF Current
  <2>5. rows \subseteq rows' /\ rows' \subseteq Blobs
    BY <2>1, <2>4
  <2>6. RecordTrue(q, rows')
    <3>1. ASSUME NEW k \in DOMAIN q.results, q.results[k] = "ok"
          PROVE  q.body[k] \in rows'
      <4>1. CASE k = Len(old.results) + 1
        BY <2>1, <2>2, <2>3, <3>1, <4>1 DEF Current
      <4>2. CASE k # Len(old.results) + 1
        <5>1. k \in DOMAIN old.results /\ old.results[k] = "ok"
          BY <2>2, <2>3, <3>1, <4>2, AppendProperties
        <5> QED BY <1>2, <2>3, <2>5, <5>1 DEF RecordTrue
      <4> QED BY <4>1, <4>2
    <3> HIDE DEF q
    <3> QED BY <2>3, <3>1 DEF RecordTrue
  <2> HIDE DEF q
  <2> QED BY <1>1, <1>3, <2>3, <2>5, <2>6, ServerStepIInv
<1>7. CASE Finish(r)
  <2>1. StatusOf(old.results) \in Nat
    BY DEF StatusOf
  <2>2. Reply(r, StatusOf(old.results)) /\ rows' = rows /\ req[r].at # "free"
    BY <1>7 DEF Finish
  <2>3. Len(old.results) = Len(old.body)
    BY <1>7 DEF Finish
  <2>4. old.results # <<>> =>
          (StatusOf(old.results) = 200 <=> \E k \in DOMAIN old.results : old.results[k] = "ok")
    BY DEF StatusOf
  <2> QED BY <1>1, <2>1, <2>2, <2>3, <2>4, ReplyIInv
<1>8. CASE Abandoned(r)
  BY <1>1, <1>3, <1>8, NoRequestTrue, ServerStepIInv DEF Abandoned
<1> QED BY <1>4, <1>5, <1>6, <1>7, <1>8 DEF Serves, ServerStep

(* The plain form: its requests are no item's.                             *)
LEMMA FormIInv ==
  ASSUME IInv, NEW r \in Forms, FormPost(r) \/ FormSeen(r) \/ FormBreaks(r), UNCHANGED <<pageVars, done>>
  PROVE  IInv'
<1> USE DEF IInv
<1> DEFINE old == req[r]
<1>1. \A i \in Items : xhr[i] # r
  BY DEF Lines
<1>2. old \in ReqRecord /\ RecordTrue(old, rows)
  BY RecordsAre
<1>3. CASE FormPost(r)
  <2>1. PICK body \in FormBodies : Begin(r, body)
    BY <1>3 DEF FormPost
  <2> DEFINE q == [at |-> "sent", body |-> body, results |-> <<>>, status |-> 0, cut |-> FALSE]
  <2>2. q \in ReqRecord /\ RecordTrue(q, rows)
    <3>1. <<>> \in Seq(Outcomes) /\ body \in Seq(Blobs)
      BY EmptySeq
    <3> QED BY <3>1 DEF ReqRecord, RecordTrue
  <2>3. req' = [req EXCEPT ![r] = q] /\ rows' = rows
    BY <1>3, <2>1 DEF FormPost, Begin, Sent
  <2>4. RecordTrue(q, rows') /\ rows \subseteq rows' /\ rows' \subseteq Blobs
    BY <2>2, <2>3
  <2> HIDE DEF q
  <2> QED BY <1>1, <2>2, <2>3, <2>4, ServerStepIInv
<1>4. CASE FormSeen(r)
  BY <1>1, <1>4, NoRequestTrue, ServerStepIInv DEF FormSeen
<1>5. CASE FormBreaks(r)
  <2> DEFINE q == [old EXCEPT !.cut = TRUE]
  <2>1. q \in ReqRecord /\ RecordTrue(q, rows)
    BY <1>2 DEF ReqRecord, RecordTrue
  <2>2. req' = [req EXCEPT ![r] = q] /\ rows' = rows
    BY <1>5 DEF FormBreaks
  <2>3. RecordTrue(q, rows') /\ rows \subseteq rows' /\ rows' \subseteq Blobs
    BY <2>1, <2>2
  <2> HIDE DEF q
  <2> QED BY <1>1, <2>1, <2>2, <2>3, ServerStepIInv
<1> QED BY <1>3, <1>4, <1>5

------------------------------------------------------------------------------
(* The pages.  The parts of the invariant as relations of their variables. *)

BusyIn(pl) == {i \in Picked : pl[i] \in {"preparing", "uploading"}}

Once(q, pl) ==
  /\ \A j, k \in DOMAIN q : q[j] = q[k] => j = k
  /\ \A i \in Items : pl[i] = "queued" <=> \E k \in DOMAIN q : q[k] = i
  /\ \A i \in Shots : pl[i] \notin {"waiting", "refused"}

\* What a handler leaves for pump: at most one more can start.
Ready(q, a, pl) ==
  /\ q \in Seq(Picked) /\ a \in Nat /\ a <= MaxConcurrent /\ pl \in [Items -> Places]
  /\ Once(q, pl)
  /\ IsFiniteSet(BusyIn(pl)) /\ a = Cardinality(BusyIn(pl))
  /\ q # <<>> => a >= MaxConcurrent - 1 \/ Len(q) = 1

LinesAt(pl, tr, fl, xh, rq) ==
  /\ \A i \in Items : tr[i] > MaxRetries => pl[i] = "failed" /\ i \in Picked
  /\ \A i \in Items : pl[i] # "none" => fl[i] # None
  /\ \A i \in Items : pl[i] = "uploading" <=> xh[i] # None
  /\ \A i \in Items : pl[i] = "uploading" =>
       /\ xh[i] \notin Forms
       /\ rq[xh[i]].at # "free" /\ ~rq[xh[i]].cut
       /\ \E b \in Sends[fl[i]] : rq[xh[i]].body = <<b>>
  /\ \A i, j \in Items : xh[i] = xh[j] /\ xh[i] # None => i = j

\* The loop of pump, which runs at most once.
LEMMA PumpOnce ==
  ASSUME NEW q, NEW a, NEW pl, Ready(q, a, pl), Pump(q, a, pl)
  PROVE  /\ queue' \in Seq(Picked) /\ active' \in Nat /\ place' \in [Items -> Places]
         /\ SlotsUsed' /\ QueueOnce'
         /\ \A i \in Items : place'[i] = pl[i] \/ (place'[i] = "preparing" /\ pl[i] = "queued")
<1> DEFINE n == Started(q, a)
<1>1. /\ q \in Seq(Picked) /\ a \in Nat /\ a <= MaxConcurrent /\ pl \in [Items -> Places]
      /\ Len(q) \in Nat /\ (q # <<>> <=> Len(q) # 0)
  BY EmptySeq DEF Ready
<1>2. /\ n \in {0, 1} /\ n <= Len(q)
      /\ n = 0 /\ q # <<>> => a = MaxConcurrent
      /\ n = 1 => a < MaxConcurrent /\ (Len(q) = 1 \/ a + 1 = MaxConcurrent)
  <2>1. q # <<>> => a >= MaxConcurrent - 1 \/ Len(q) = 1
    BY DEF Ready
  <2>2. a = MaxConcurrent => n = 0
    BY <1>1 DEF Started
  <2>3. a < MaxConcurrent => n = IF MaxConcurrent - a < Len(q) THEN MaxConcurrent - a ELSE Len(q)
    BY <1>1 DEF Started, Least
  <2> DEFINE m == Len(q)
  <2>4. m \in Nat /\ a \in Nat /\ MaxConcurrent \in Nat /\ a <= MaxConcurrent /\ (q # <<>> <=> m # 0)
    BY <1>1
  <2>5. CASE a = MaxConcurrent
    BY <2>2, <2>4, <2>5
  <2>6. CASE q = <<>>
    BY <2>2, <2>3, <2>4, <2>6
  <2>7. CASE q # <<>> /\ a < MaxConcurrent
    <3> HIDE DEF n, m
    <3>1. n = IF MaxConcurrent - a < m THEN MaxConcurrent - a ELSE m
      BY <2>3, <2>7 DEF m
    <3>2. a >= MaxConcurrent - 1 \/ m = 1
      BY <2>1, <2>7 DEF m
    <3>3. n = 1 /\ n <= m /\ (m = 1 \/ a + 1 = MaxConcurrent)
      <4>1. CASE m = 1
        BY <2>4, <2>7, <3>1, <4>1
      <4>2. CASE a >= MaxConcurrent - 1
        <5>1. a = MaxConcurrent - 1 /\ MaxConcurrent - a = 1 /\ m >= 1
          BY <2>4, <2>7, <4>2
        <5>2. n = IF 1 < m THEN 1 ELSE m
          BY <3>1, <5>1
        <5> QED BY <2>4, <5>1, <5>2
      <4> QED BY <3>2, <4>1, <4>2
    <3> QED BY <2>7, <3>3 DEF m
  <2> QED BY <2>4, <2>5, <2>6, <2>7
<1>3. /\ queue' = SubSeq(q, n + 1, Len(q)) /\ active' = a + n
      /\ place' = [i \in Items |-> IF \E k \in 1 .. n : q[k] = i THEN "preparing" ELSE pl[i]]
  BY Zenon DEF Pump
<1> HIDE DEF n
<1>4. CASE n = 0
  <2>1. queue' = q /\ active' = a /\ place' = pl
    <3>1. SubSeq(q, 1, Len(q)) = q
      BY <1>1, SubSeqFull
    <3>2. \A i \in Items : ~\E k \in 1 .. 0 : q[k] = i
      OBVIOUS
    <3> QED BY <1>1, <1>3, <1>4, <3>1, <3>2
  <2>2. SlotsUsed'
    BY <1>1, <1>2, <1>4, <2>1 DEF SlotsUsed, Busy, BusyIn, Ready
  <2>3. QueueOnce'
    BY <2>1 DEF QueueOnce, Once, Ready
  <2> QED BY <1>1, <2>1, <2>2, <2>3
<1>5. CASE n = 1
  <2> DEFINE h == q[1]
  <2>1. Len(q) >= 1 /\ h \in Picked /\ h \in Items /\ 1 \in DOMAIN q
    BY <1>1, <1>2, <1>5 DEF Picked
  <2>2. pl[h] = "queued"
    BY <2>1 DEF Ready, Once
  <2>3. place' = [pl EXCEPT ![h] = "preparing"] /\ active' = a + 1
    <3>1. \A i \in Items : (\E k \in 1 .. 1 : q[k] = i) <=> i = h
      OBVIOUS
    <3>2. \A i \in Items : place'[i] = IF i = h THEN "preparing" ELSE pl[i]
      BY <1>3, <1>5, <3>1
    <3>3. place' = [pl EXCEPT ![h] = "preparing"]
      BY <1>1, <1>3, <2>1, <3>2
    <3> QED BY <1>3, <1>5, <3>3
  <2>4. /\ queue' \in Seq(Picked) /\ Len(queue') = Len(q) - 1
        /\ \A k \in DOMAIN queue' : queue'[k] = q[k + 1] /\ k + 1 \in DOMAIN q /\ k + 1 # 1
    <3>1. queue' = SubSeq(q, 2, Len(q))
      BY <1>3, <1>5
    <3>2. \A k \in 2 .. Len(q) : q[k] \in Picked
      BY <1>1
    <3>3. /\ SubSeq(q, 2, Len(q)) \in Seq(Picked)
          /\ Len(SubSeq(q, 2, Len(q))) = IF 2 <= Len(q) THEN Len(q) - 2 + 1 ELSE 0
          /\ \A k \in 1 .. Len(q) - 2 + 1 : SubSeq(q, 2, Len(q))[k] = q[2 + k - 1]
      BY <1>1, <3>2, SubSeqProperties
    <3>4. queue' \in Seq(Picked) /\ Len(queue') = Len(q) - 1
      <4> DEFINE l == Len(q)
      <4>0. l \in Nat /\ l >= 1
        BY <1>1, <2>1
      <4> HIDE DEF l
      <4>1. (IF 2 <= l THEN l - 2 + 1 ELSE 0) = l - 1
        BY <4>0
      <4> USE DEF l
      <4> QED BY <3>1, <3>3, <4>1
    <3>5. DOMAIN queue' = 1 .. Len(q) - 1 /\ DOMAIN q = 1 .. Len(q)
      BY <1>1, <3>4
    <3>6. ASSUME NEW k \in DOMAIN queue'
          PROVE  queue'[k] = q[k + 1] /\ k + 1 \in DOMAIN q /\ k + 1 # 1
      BY <1>1, <3>1, <3>3, <3>5, <3>6
    <3> QED BY <3>4, <3>6
  <2>5. \A k \in DOMAIN q : k # 1 => k - 1 \in DOMAIN queue' /\ queue'[k - 1] = q[k]
    BY <1>1, <2>1, <2>4
  <2>6. QueueOnce'
    <3>1. \A j, k \in DOMAIN queue' : queue'[j] = queue'[k] => j = k
      BY <2>4 DEF Ready, Once
    <3>2. \A i \in Items : place'[i] = "queued" <=> \E k \in DOMAIN queue' : queue'[k] = i
      <4> SUFFICES ASSUME NEW i \in Items
                   PROVE  place'[i] = "queued" <=> \E k \in DOMAIN queue' : queue'[k] = i
        OBVIOUS
      <4>1. CASE i = h
        <5>1. place'[i] # "queued"
          BY <1>1, <2>1, <2>3, <4>1
        <5>2. \A k \in DOMAIN q : k # 1 => q[k] # h
          BY <2>1 DEF Ready, Once
        <5> QED BY <2>4, <4>1, <5>1, <5>2
      <4>2. CASE i # h
        <5>1. place'[i] = "queued" <=> \E k \in DOMAIN q : q[k] = i
          BY <1>1, <2>3, <4>2 DEF Ready, Once
        <5> QED BY <2>4, <2>5, <4>2, <5>1
      <4> QED BY <4>1, <4>2
    <3>3. \A i \in Shots : place'[i] \notin {"waiting", "refused"}
      BY <1>1, <2>1, <2>3 DEF Ready, Once
    <3> QED BY <3>1, <3>2, <3>3 DEF QueueOnce
  <2>7. Busy' = BusyIn(pl) \cup {h} /\ h \notin BusyIn(pl)
    BY <1>1, <2>1, <2>2, <2>3 DEF Busy, BusyIn, Picked
  <2>8. active' = Cardinality(Busy')
    BY <2>3, <2>7, FS_AddElement DEF Ready
  <2>9. queue' # <<>> => Len(q) # 1
    BY <2>4, EmptySeq
  <2>10. SlotsUsed'
    <3>1. a < MaxConcurrent /\ (queue' # <<>> => a + 1 = MaxConcurrent)
      BY <1>2, <1>5, <2>9
    <3> QED BY <1>1, <2>3, <2>8, <3>1 DEF SlotsUsed
  <2>11. \A i \in Items : place'[i] = pl[i] \/ (place'[i] = "preparing" /\ pl[i] = "queued")
    BY <1>1, <2>1, <2>2, <2>3
  <2>12. active' \in Nat /\ place' \in [Items -> Places]
    <3>1. [pl EXCEPT ![h] = "preparing"] \in [Items -> Places]
      BY <1>1
    <3> QED BY <1>1, <2>3, <3>1
  <2> QED BY <2>4, <2>6, <2>10, <2>11, <2>12
<1> QED BY <1>2, <1>4, <1>5

(* A handler of the upload page: what it does before pump is enough.       *)
LEMMA HandlerIInv ==
  ASSUME NEW q, NEW a, NEW pl, Ready(q, a, pl), Pump(q, a, pl),
         LinesAt(pl, tries', file', xhr', req'),
         file' \in [Items -> Files \cup {None}], tries' \in [Items -> Nat],
         xhr' \in [Items -> Requests \cup {None}], done' \subseteq Files,
         ReqTypeOK', Unread', AnswerTrue', DoneIsStored'
  PROVE  IInv'
<1>1. /\ queue' \in Seq(Picked) /\ active' \in Nat /\ place' \in [Items -> Places]
      /\ SlotsUsed' /\ QueueOnce'
      /\ \A i \in Items : place'[i] = pl[i] \/ (place'[i] = "preparing" /\ pl[i] = "queued")
  BY PumpOnce
<1>2. Lines'
  <2> HIDE DEF TypeOK, ReqTypeOK, Places
  <2>0. \A i \in Items : place'[i] = pl[i] \/ (place'[i] = "preparing" /\ pl[i] = "queued")
    BY <1>1
  <2>1. \A i \in Items :
          /\ place'[i] = "uploading" <=> pl[i] = "uploading"
          /\ place'[i] = "none" <=> pl[i] = "none"
          /\ pl[i] = "failed" => place'[i] = "failed"
    BY <2>0
  <2> QED BY <2>1 DEF Lines, LinesAt
<1>3. TypeOK'
  BY <1>1
<1> QED BY <1>1, <1>2, <1>3 DEF IInv

\* A slot is given back.
LEMMA ReleaseReady ==
  ASSUME IInv, NEW i \in Picked, place[i] = "uploading",
         NEW x \in {"shared", "refused", "waiting", "failed"}
  PROVE  Ready(queue, active - 1, [place EXCEPT ![i] = x])
<1> DEFINE pl == [place EXCEPT ![i] = x]
<1> USE DEF IInv
<1>1. i \in Items /\ Picked \subseteq Items
  BY DEF Picked
<1>2. pl \in [Items -> Places] /\ \A j \in Items : pl[j] = IF j = i THEN x ELSE place[j]
  BY <1>1
<1> HIDE DEF pl
<1>3. IsFiniteSet(Busy) /\ i \in Busy
  <2>1. Busy \subseteq Items
    BY <1>1 DEF Busy
  <2> QED BY <2>1, FS_Subset DEF Busy
<1>4. BusyIn(pl) = Busy \ {i}
  BY <1>1, <1>2 DEF Busy, BusyIn
<1>5. IsFiniteSet(BusyIn(pl)) /\ Cardinality(BusyIn(pl)) = active - 1
  <2>1. active = Cardinality(Busy)
    BY DEF SlotsUsed
  <2> HIDE DEF IInv
  <2> QED BY <2>1, <1>3, <1>4, FS_RemoveElement
<1>6. Cardinality(BusyIn(pl)) \in Nat
  BY <1>5, FS_CardinalityType
<1>7. Once(queue, pl)
  BY <1>1, <1>2 DEF Once, QueueOnce, Picked
<1> QED BY <1>2, <1>5, <1>6, <1>7 DEF Ready, SlotsUsed, pl

\* A row goes to the end of the queue.
LEMMA QueuedReady ==
  ASSUME IInv, NEW i \in Picked, place[i] \in {"none", "waiting", "failed"}
  PROVE  Ready(Append(queue, i), active, [place EXCEPT ![i] = "queued"])
<1> DEFINE pl == [place EXCEPT ![i] = "queued"]  q == Append(queue, i)
<1> USE DEF IInv
<1>1. i \in Items /\ i \notin Shots /\ Picked \subseteq Items
  BY DEF Picked
<1>2. pl \in [Items -> Places] /\ \A j \in Items : pl[j] = IF j = i THEN "queued" ELSE place[j]
  BY <1>1
<1>3. /\ q \in Seq(Picked) /\ Len(q) = Len(queue) + 1
      /\ \A k \in 1 .. Len(queue) : q[k] = queue[k]
      /\ q[Len(queue) + 1] = i
  BY AppendProperties
<1> HIDE DEF pl, q
<1>4. BusyIn(pl) = Busy /\ IsFiniteSet(Busy)
  <2>1. Busy \subseteq Items
    BY <1>1 DEF Busy
  <2>2. BusyIn(pl) = Busy
    BY <1>1, <1>2 DEF Busy, BusyIn
  <2> QED BY <2>1, <2>2, FS_Subset
<1>5. DOMAIN q = 1 .. Len(queue) + 1 /\ DOMAIN queue = 1 .. Len(queue) /\ Len(queue) \in Nat
  BY <1>3
<1>6. \A k \in 1 .. Len(queue) : q[k] # i
  BY <1>1, <1>3, <1>5 DEF QueueOnce
<1>7. Once(q, pl)
  <2>1. \A j, k \in DOMAIN q : q[j] = q[k] => j = k
    BY <1>3, <1>5, <1>6 DEF QueueOnce
  <2>2. \A j \in Items : pl[j] = "queued" <=> \E k \in DOMAIN q : q[k] = j
    <3> SUFFICES ASSUME NEW j \in Items
                 PROVE  pl[j] = "queued" <=> \E k \in DOMAIN q : q[k] = j
      OBVIOUS
    <3>1. CASE j = i
      BY <1>2, <1>3, <1>5, <3>1
    <3>2. CASE j # i
      <4>1. pl[j] = "queued" <=> \E k \in DOMAIN queue : queue[k] = j
        BY <1>2, <3>2 DEF QueueOnce
      <4>2. (\E k \in 1 .. Len(queue) : queue[k] = j) <=> \E k \in 1 .. Len(queue) + 1 : q[k] = j
        <5> DEFINE l == Len(queue)
        <5>1. l \in Nat /\ (\A k \in 1 .. l : q[k] = queue[k]) /\ q[l + 1] # j
          BY <1>3, <1>5, <3>2
        <5>2. \A k \in 1 .. l + 1 : k \in 1 .. l \/ k = l + 1
          BY <5>1
        <5>3. \A k \in 1 .. l : k \in 1 .. l + 1
          BY <5>1
        <5> HIDE DEF l
        <5>4. (\E k \in 1 .. l : queue[k] = j) <=> \E k \in 1 .. l + 1 : q[k] = j
          BY <5>1, <5>2, <5>3
        <5> QED BY <5>4 DEF l
      <4> QED BY <1>5, <4>1, <4>2
    <3> QED BY <3>1, <3>2
  <2>3. \A j \in Shots : pl[j] \notin {"waiting", "refused"}
    BY <1>1, <1>2 DEF QueueOnce
  <2> QED BY <2>1, <2>2, <2>3 DEF Once
<1>8. active = MaxConcurrent \/ Len(q) = 1
  BY <1>3, <1>5, EmptySeq DEF SlotsUsed
<1>9. Ready(q, active, pl)
  BY <1>2, <1>3, <1>4, <1>7, <1>8 DEF Ready, SlotsUsed
<1> QED BY <1>9 DEF q, pl

------------------------------------------------------------------------------
(* One request changes at the page's end of it.                            *)
LEMMA RequestChanges ==
  ASSUME IInv, NEW r \in Requests, NEW q \in ReqRecord, RecordTrue(q, rows),
         req' = [req EXCEPT ![r] = q], rows' = rows
  PROVE  ReqTypeOK' /\ Unread' /\ AnswerTrue'
<1> USE DEF IInv
<1>1. \A s \in Requests : req'[s] = IF s = r THEN q ELSE req[s]
  OBVIOUS
<1>2. req' \in [Requests -> ReqRecord] /\ \A s \in Requests : RecordTrue(req'[s], rows')
  <2>1. \A s \in Requests : req[s] \in ReqRecord /\ RecordTrue(req[s], rows)
    BY RecordsAre
  <2> QED BY <1>1, <2>1
<1>3. Unread' /\ AnswerTrue'
  BY <1>2, RecordsMake
<1> QED BY <1>2, <1>3 DEF ReqRecord

\* An item's request is there, and nobody else's.
LEMMA OwnRequest ==
  ASSUME IInv, NEW i \in Items, place[i] = "uploading"
  PROVE  /\ xhr[i] \in Requests
         /\ \A j \in Items : j # i /\ place[j] = "uploading" => xhr[j] # xhr[i]
         /\ req[xhr[i]] \in ReqRecord /\ RecordTrue(req[xhr[i]], rows)
<1> USE DEF IInv
<1>1. xhr[i] \in Requests
  BY DEF Lines
<1>2. \A j \in Items : j # i /\ place[j] = "uploading" => xhr[j] # xhr[i]
  BY DEF Lines
<1> QED BY <1>1, <1>2, RecordsAre

(* The request of an item ends, at the page or altogether: the other       *)
(* items' lines stay.                                                      *)
LEMMA RequestEnds ==
  ASSUME IInv, NEW i \in Items, place[i] = "uploading", Hang(i) \/ Cut(i), rows' = rows,
         NEW x \in {"shared", "refused", "waiting", "failed"}, file' = file,
         NEW t \in Nat, tries' = [tries EXCEPT ![i] = t], t > MaxRetries => x = "failed" /\ i \in Picked
  PROVE  /\ ReqTypeOK' /\ Unread' /\ AnswerTrue'
         /\ xhr' \in [Items -> Requests \cup {None}] /\ tries' \in [Items -> Nat]
         /\ LinesAt([place EXCEPT ![i] = x], tries', file', xhr', req')
<1> USE DEF IInv
<1> DEFINE r == xhr[i]
<1>1. /\ r \in Requests
      /\ \A j \in Items : j # i /\ place[j] = "uploading" => xhr[j] # r
      /\ req[r] \in ReqRecord /\ RecordTrue(req[r], rows)
  BY OwnRequest
<1>2. PICK q \in ReqRecord : RecordTrue(q, rows) /\ req' = [req EXCEPT ![r] = q]
  <2>1. CASE Hang(i)
    BY <2>1, NoRequestTrue DEF Hang
  <2>2. CASE Cut(i)
    <3> DEFINE q == [req[r] EXCEPT !.cut = TRUE]
    <3>1. q \in ReqRecord /\ RecordTrue(q, rows)
      BY <1>1 DEF ReqRecord, RecordTrue
    <3>2. req' = [req EXCEPT ![r] = q]
      BY <2>2 DEF Cut
    <3> QED BY <3>1, <3>2
  <2> QED BY <2>1, <2>2
<1>3. ReqTypeOK' /\ Unread' /\ AnswerTrue'
  BY <1>1, <1>2, RequestChanges
<1>4. xhr' = [xhr EXCEPT ![i] = None]
  BY DEF Hang, Cut
<1>5. xhr' \in [Items -> Requests \cup {None}] /\ tries' \in [Items -> Nat]
  BY <1>4
<1>6. \A s \in Requests : s # r => req'[s] = req[s]
  BY <1>1, <1>2
<1>7. LinesAt([place EXCEPT ![i] = x], tries', file', xhr', req')
  <2> DEFINE pl == [place EXCEPT ![i] = x]
  <2>1. \A j \in Items : pl[j] = IF j = i THEN x ELSE place[j]
    OBVIOUS
  <2>2. \A j \in Items : xhr'[j] = IF j = i THEN None ELSE xhr[j]
    BY <1>4
  <2>3. \A j \in Items : tries'[j] = IF j = i THEN t ELSE tries[j]
    OBVIOUS
  <2> HIDE DEF pl
  <2>4. \A j \in Items : tries'[j] > MaxRetries => pl[j] = "failed" /\ j \in Picked
    BY <2>1, <2>3 DEF Lines
  <2>5. \A j \in Items : pl[j] # "none" => file'[j] # None
    BY <2>1 DEF Lines
  <2>6. \A j \in Items : pl[j] = "uploading" <=> xhr'[j] # None
    BY <2>1, <2>2 DEF Lines
  <2>7. ASSUME NEW j \in Items, pl[j] = "uploading"
        PROVE  /\ xhr'[j] \notin Forms
               /\ req'[xhr'[j]].at # "free" /\ ~req'[xhr'[j]].cut
               /\ \E b \in Sends[file'[j]] : req'[xhr'[j]].body = <<b>>
    <3>1. j # i /\ place[j] = "uploading" /\ xhr'[j] = xhr[j] /\ file'[j] = file[j]
      BY <2>1, <2>2, <2>7
    <3>2. xhr[j] \in Requests /\ xhr[j] # r
      BY <1>1, <3>1 DEF Lines
    <3>3. req'[xhr'[j]] = req[xhr[j]]
      BY <1>6, <3>1, <3>2
    <3> QED BY <3>1, <3>3 DEF Lines
  <2>8. \A j, k \in Items : xhr'[j] = xhr'[k] /\ xhr'[j] # None => j = k
    BY <2>2 DEF Lines
  <2> QED BY <2>4, <2>5, <2>6, <2>7, <2>8 DEF LinesAt, pl
<1> QED BY <1>3, <1>5, <1>7

(* A mark is written after an answer that is true.                         *)
LEMMA LoadedSharedIInv ==
  ASSUME IInv, NEW i \in Items, LoadedShared(i)
  PROVE  IInv'
<1> USE DEF IInv
<1>1. /\ i \in Picked /\ place[i] = "uploading" /\ req[xhr[i]].results # <<>>
      /\ req[xhr[i]].results[1] = "ok" /\ Hang(i) /\ rows' = rows /\ file' = file /\ tries' = tries
      /\ done' \in {done, done \cup {file[i]}}
      /\ Pump(queue, active - 1, [place EXCEPT ![i] = "shared"])
  BY DEF LoadedShared, Heard, Shared
<1>2. xhr[i] \in Requests
  BY <1>1, OwnRequest
<1>3. tries[i] \in Nat /\ tries' = [tries EXCEPT ![i] = tries[i]] /\ ~(tries[i] > MaxRetries)
  BY <1>1 DEF Lines
<1>4. /\ ReqTypeOK' /\ Unread' /\ AnswerTrue'
      /\ xhr' \in [Items -> Requests \cup {None}] /\ tries' \in [Items -> Nat]
      /\ LinesAt([place EXCEPT ![i] = "shared"], tries', file', xhr', req')
  BY <1>1, <1>3, RequestEnds
<1>5. file[i] \in Files
  BY <1>1 DEF Lines
<1>6. PICK b \in Sends[file[i]] : req[xhr[i]].body = <<b>>
  BY <1>1 DEF Lines
<1>7. b \in rows
  <2>1. req[xhr[i]].results \in Seq(Outcomes)
    BY <1>2
  <2>2. 1 \in DOMAIN req[xhr[i]].results
    BY <1>1, <2>1, EmptySeq
  <2>3. req[xhr[i]].body[1] \in rows
    BY <1>1, <1>2, <2>2 DEF AnswerTrue
  <2> QED BY <1>6, <2>3
<1>8. DoneIsStored' /\ done' \subseteq Files
  BY <1>1, <1>5, <1>6, <1>7 DEF DoneIsStored
<1>9. Ready(queue, active - 1, [place EXCEPT ![i] = "shared"])
  BY <1>1, ReleaseReady
<1>10. file' \in [Items -> Files \cup {None}]
  BY <1>1
<1> HIDE DEF IInv
<1> QED BY <1>1, <1>4, <1>8, <1>9, <1>10, HandlerIInv

(* An answer or an error that gives the slot back and marks nothing.       *)
LEMMA TryOverIInv ==
  ASSUME IInv, NEW i \in Picked, place[i] = "uploading", Hang(i) \/ Cut(i),
         NEW x \in {"refused", "waiting", "failed"},
         Pump(queue, active - 1, [place EXCEPT ![i] = x]),
         NEW t \in Nat, tries' = [tries EXCEPT ![i] = t], t > MaxRetries => x = "failed",
         UNCHANGED <<file, done, rows>>
  PROVE  IInv'
<1>1. i \in Items
  BY DEF Picked
<1>2. /\ ReqTypeOK' /\ Unread' /\ AnswerTrue'
      /\ xhr' \in [Items -> Requests \cup {None}] /\ tries' \in [Items -> Nat]
      /\ LinesAt([place EXCEPT ![i] = x], tries', file', xhr', req')
  BY <1>1, RequestEnds
<1>3. DoneIsStored' /\ done' \subseteq Files /\ file' \in [Items -> Files \cup {None}]
  BY DEF DoneIsStored, IInv
<1>4. Ready(queue, active - 1, [place EXCEPT ![i] = x])
  BY ReleaseReady
<1> QED BY <1>2, <1>3, <1>4, HandlerIInv

\* "not an image".
LEMMA LoadedRefusedIInv ==
  ASSUME IInv, NEW i \in Items, LoadedRefused(i)
  PROVE  IInv'
<1>1. tries[i] \in Nat /\ tries' = [tries EXCEPT ![i] = tries[i]] /\ ~(tries[i] > MaxRetries)
  BY DEF LoadedRefused, Heard, Lines, IInv
<1>2. /\ i \in Picked /\ place[i] = "uploading" /\ Hang(i) /\ UNCHANGED <<file, done, rows>>
      /\ Pump(queue, active - 1, [place EXCEPT ![i] = "refused"])
  BY DEF LoadedRefused, Heard
<1> QED BY <1>1, <1>2, TryOverIInv

\* retry, after an answer or an error.
LEMMA RetryIInv ==
  ASSUME IInv, NEW i \in Items, LoadedRetry(i) \/ Broken(i)
  PROVE  IInv'
<1>1. /\ i \in Picked /\ place[i] = "uploading" /\ (Hang(i) \/ Cut(i))
      /\ tries' = [tries EXCEPT ![i] = tries[i] + 1] /\ UNCHANGED <<file, done, rows>>
      /\ Pump(queue, active - 1, [place EXCEPT ![i] = Retried(i)])
  BY DEF LoadedRetry, Broken, Heard, Cut
<1>2. tries[i] + 1 \in Nat /\ Retried(i) \in {"waiting", "failed"}
      /\ (tries[i] + 1 > MaxRetries => Retried(i) = "failed")
  BY DEF Retried, IInv
<1> QED BY <1>1, <1>2, TryOverIInv

(* A row is put into the queue, by a pick, a pause that ends or a tap.     *)
LEMMA QueuedIInv ==
  ASSUME IInv, NEW i \in Picked, place[i] \in {"none", "waiting", "failed"},
         Pump(Append(queue, i), active, [place EXCEPT ![i] = "queued"]),
         NEW t \in Nat, tries' = [tries EXCEPT ![i] = t], t <= MaxRetries,
         NEW f \in Files, file' = [file EXCEPT ![i] = f],
         UNCHANGED <<xhr, done, reqVars>>
  PROVE  IInv'
<1> USE DEF IInv
<1>1. i \in Items
  BY DEF Picked
<1>2. ReqTypeOK' /\ Unread' /\ AnswerTrue' /\ DoneIsStored'
  BY DEF Unread, AnswerTrue, DoneIsStored
<1>3. /\ file' \in [Items -> Files \cup {None}] /\ tries' \in [Items -> Nat]
      /\ xhr' \in [Items -> Requests \cup {None}] /\ done' \subseteq Files
  BY <1>1
<1>4. LinesAt([place EXCEPT ![i] = "queued"], tries', file', xhr', req')
  <2> DEFINE pl == [place EXCEPT ![i] = "queued"]
  <2>1. \A j \in Items : pl[j] = IF j = i THEN "queued" ELSE place[j]
    BY <1>1
  <2>2. \A j \in Items : tries'[j] = IF j = i THEN t ELSE tries[j]
    BY <1>1
  <2>3. \A j \in Items : file'[j] = IF j = i THEN f ELSE file[j]
    BY <1>1
  <2>4. xhr[i] = None /\ xhr' = xhr /\ req' = req
    BY <1>1 DEF Lines
  <2> HIDE DEF pl
  <2> QED BY <1>1, <2>1, <2>2, <2>3, <2>4 DEF Lines, LinesAt, pl
<1>5. Ready(Append(queue, i), active, [place EXCEPT ![i] = "queued"])
  BY QueuedReady
<1> HIDE DEF IInv
<1> QED BY <1>2, <1>3, <1>4, <1>5, HandlerIInv

\* The three ways into the queue.
LEMMA EnterIInv ==
  ASSUME IInv, NEW i \in Items, (\E f \in Files : Pick(i, f)) \/ BackoffEnds(i) \/ Tap(i)
  PROVE  IInv'
<1> USE DEF IInv
<1>1. ASSUME NEW f \in Files, Pick(i, f)
      PROVE  IInv'
  <2>1. tries' = [tries EXCEPT ![i] = tries[i]] /\ tries[i] \in Nat /\ tries[i] <= MaxRetries
    <3>1. tries' = tries /\ ~(tries[i] > MaxRetries)
      BY <1>1 DEF Pick, Lines
    <3> QED BY <3>1
  <2> QED BY <1>1, <2>1, QueuedIInv DEF Pick
<1>2. CASE BackoffEnds(i)
  <2>1. tries' = [tries EXCEPT ![i] = tries[i]] /\ tries[i] \in Nat /\ tries[i] <= MaxRetries
    <3>1. tries' = tries /\ ~(tries[i] > MaxRetries)
      BY <1>2 DEF BackoffEnds, Lines
    <3> QED BY <3>1
  <2>2. file' = [file EXCEPT ![i] = file[i]] /\ file[i] \in Files /\ i \in Picked
    BY <1>2 DEF BackoffEnds, Lines, QueueOnce, Picked
  <2> QED BY <1>2, <2>1, <2>2, QueuedIInv DEF BackoffEnds
<1>3. CASE Tap(i)
  <2>1. file' = [file EXCEPT ![i] = file[i]] /\ file[i] \in Files
    BY <1>3 DEF Tap, Lines
  <2>2. 0 \in Nat /\ 0 <= MaxRetries /\ tries' = [tries EXCEPT ![i] = 0]
    BY <1>3 DEF Tap
  <2> QED BY <1>3, <2>1, <2>2, QueuedIInv DEF Tap
<1> QED BY <1>1, <1>2, <1>3

------------------------------------------------------------------------------
(* Steps that leave the queue alone.                                       *)

\* The queue and the slots do not see a place change in another way.
LEMMA QueueUnseen ==
  ASSUME IInv, NEW i \in Items, NEW x \in Places, place' = [place EXCEPT ![i] = x],
         place[i] # "queued" /\ x # "queued", i \in Shots => x \notin {"waiting", "refused"},
         i \in Picked => (place[i] \in {"preparing", "uploading"} <=> x \in {"preparing", "uploading"}),
         UNCHANGED <<queue, active>>
  PROVE  SlotsUsed' /\ QueueOnce' /\ place' \in [Items -> Places]
<1> USE DEF IInv
<1>1. \A j \in Items : place'[j] = IF j = i THEN x ELSE place[j]
  OBVIOUS
<1>2. QueueOnce'
  BY <1>1 DEF QueueOnce
<1>3. Busy' = Busy
  BY <1>1 DEF Busy, Picked
<1>4. SlotsUsed'
  BY <1>3 DEF SlotsUsed
<1> QED BY <1>2, <1>4

(* resize resolves and the request goes out.                               *)
LEMMA PreparedIInv ==
  ASSUME IInv, NEW i \in Items, Prepared(i)
  PROVE  IInv'
<1> USE DEF IInv
<1>1. PICK r \in Requests \ Forms, b \in Sends[file[i]] :
        req[r].at = "free" /\ Begin(r, <<b>>) /\ xhr' = [xhr EXCEPT ![i] = r]
  BY DEF Prepared
<1>2. /\ place[i] = "preparing" /\ place' = [place EXCEPT ![i] = "uploading"]
      /\ UNCHANGED <<file, tries, queue, active, done, rows>>
  BY DEF Prepared
<1>3. file[i] \in Files /\ b \in Blobs
  BY <1>2 DEF Lines
<1> DEFINE q == [at |-> "sent", body |-> <<b>>, results |-> <<>>, status |-> 0, cut |-> FALSE]
<1>4. q \in ReqRecord /\ RecordTrue(q, rows)
  <2>1. <<>> \in Seq(Outcomes) /\ <<b>> \in Seq(Blobs)
    BY <1>3, EmptySeq
  <2> QED BY <2>1 DEF ReqRecord, RecordTrue
<1>5. req' = [req EXCEPT ![r] = q]
  BY <1>1 DEF Begin, Sent
<1>6. q.body = <<b>> /\ q.at # "free" /\ ~q.cut
  OBVIOUS
<1> HIDE DEF q
<1>7. ReqTypeOK' /\ Unread' /\ AnswerTrue'
  BY <1>2, <1>4, <1>5, RequestChanges
<1>8. SlotsUsed' /\ QueueOnce' /\ place' \in [Items -> Places]
  BY <1>2, QueueUnseen
<1>9. \A j \in Items : xhr[j] # r
  BY <1>1 DEF Lines
<1>10. Lines'
  <2>1. \A j \in Items : place'[j] = IF j = i THEN "uploading" ELSE place[j]
    BY <1>2
  <2>2. \A j \in Items : xhr'[j] = IF j = i THEN r ELSE xhr[j]
    BY <1>1
  <2>3. \A s \in Requests : req'[s] = IF s = r THEN q ELSE req[s]
    BY <1>5
  <2>4. \A j \in Items : tries'[j] > MaxRetries => place'[j] = "failed" /\ j \in Picked
    BY <1>2, <2>1 DEF Lines
  <2>5. \A j \in Items : place'[j] # "none" => file'[j] # None
    BY <1>2, <2>1 DEF Lines
  <2>6. \A j \in Items : place'[j] = "uploading" <=> xhr'[j] # None
    <3>1. r # None
      OBVIOUS
    <3>2. \A j \in Items : place[j] = "uploading" <=> xhr[j] # None
      BY DEF Lines
    <3> HIDE DEF IInv
    <3> QED BY <2>1, <2>2, <3>1, <3>2
  <2>7. ASSUME NEW j \in Items, place'[j] = "uploading"
        PROVE  /\ xhr'[j] \notin Forms
               /\ req'[xhr'[j]].at # "free" /\ ~req'[xhr'[j]].cut
               /\ \E c \in Sends[file'[j]] : req'[xhr'[j]].body = <<c>>
    <3>1. CASE j = i
      BY <1>1, <1>2, <1>6, <2>2, <2>3, <3>1
    <3>2. CASE j # i
      <4>1. place[j] = "uploading" /\ xhr'[j] = xhr[j] /\ xhr[j] # r /\ file' = file
        BY <1>2, <1>9, <2>1, <2>2, <2>7, <3>2
      <4>3. xhr[j] \in Requests
        BY <4>1 DEF Lines
      <4>2. req'[xhr'[j]] = req[xhr[j]]
        BY <2>3, <4>1, <4>3
      <4> QED BY <4>1, <4>2 DEF Lines
    <3> QED BY <3>1, <3>2
  <2>8. \A j, k \in Items : xhr'[j] = xhr'[k] /\ xhr'[j] # None => j = k
    BY <1>9, <2>2 DEF Lines
  <2> QED BY <2>4, <2>5, <2>6, <2>7, <2>8 DEF Lines
<1>11. xhr' \in [Items -> Requests \cup {None}] /\ UNCHANGED <<file, tries, queue, active, done>>
  BY <1>1, <1>2
<1>12. DoneIsStored'
  BY <1>2 DEF DoneIsStored
<1> QED BY <1>7, <1>8, <1>10, <1>11, <1>12

(* A shot's request ends.                                                  *)
LEMMA ShotEndsIInv ==
  ASSUME IInv, NEW i \in Items, Developed(i) \/ ShotBroken(i)
  PROVE  IInv'
<1> USE DEF IInv
<1>1. PICK x \in {"shared", "failed"} : place' = [place EXCEPT ![i] = x]
  BY DEF Developed, ShotBroken
<1>2. /\ i \in Shots /\ place[i] = "uploading" /\ (Hang(i) \/ Cut(i))
      /\ UNCHANGED <<file, tries, queue, active, done, rows>>
  BY DEF Developed, ShotBroken, Heard, Cut
<1>3. tries[i] \in Nat /\ tries' = [tries EXCEPT ![i] = tries[i]] /\ ~(tries[i] > MaxRetries)
  BY <1>2 DEF Lines
<1>4. /\ ReqTypeOK' /\ Unread' /\ AnswerTrue'
      /\ xhr' \in [Items -> Requests \cup {None}] /\ tries' \in [Items -> Nat]
      /\ LinesAt([place EXCEPT ![i] = x], tries', file', xhr', req')
  BY <1>2, <1>3, RequestEnds
<1>5. SlotsUsed' /\ QueueOnce' /\ place' \in [Items -> Places]
  BY <1>1, <1>2, QueueUnseen DEF Picked
<1>6. Lines' /\ DoneIsStored'
  BY <1>1, <1>2, <1>4 DEF Lines, LinesAt, DoneIsStored
<1> QED BY <1>2, <1>4, <1>5, <1>6

(* A shot is taken or sent again, or a row leaves: no request is touched.  *)
LEMMA QuietIInv ==
  ASSUME IInv, NEW i \in Items,
         (\E f \in Files : Shoot(i, f)) \/ TapShot(i) \/ Leaves(i)
  PROVE  IInv'
<1> USE DEF IInv
<1>1. PICK x \in {"preparing", "none"}, f \in Files \cup {None}, t \in Nat :
        /\ place' = [place EXCEPT ![i] = x]
        /\ file' = [file EXCEPT ![i] = f] /\ tries' = [tries EXCEPT ![i] = t]
        /\ x # "none" => f # None
        /\ t <= MaxRetries
        /\ x = "preparing" => i \in Shots
  <2> DEFINE P(x, f, t) ==
        /\ place' = [place EXCEPT ![i] = x]
        /\ file' = [file EXCEPT ![i] = f] /\ tries' = [tries EXCEPT ![i] = t]
        /\ x # "none" => f # None
        /\ t <= MaxRetries
        /\ x = "preparing" => i \in Shots
  <2>1. ~(tries[i] > MaxRetries /\ i \in Shots)
    BY DEF Lines, Picked
  <2>2. i \in Shots => tries[i] \in Nat /\ tries[i] <= MaxRetries
    BY <2>1
  <2>3. ASSUME NEW f \in Files, Shoot(i, f)
        PROVE  P("preparing", f, tries[i]) /\ tries[i] \in Nat
    BY <2>2, <2>3 DEF Shoot
  <2>4. CASE TapShot(i)
    <3>1. file[i] \in Files
      BY <2>4 DEF TapShot, Lines
    <3>2. P("preparing", file[i], tries[i]) /\ tries[i] \in Nat
      BY <2>2, <2>4, <3>1 DEF TapShot
    <3> QED BY <3>1, <3>2
  <2>5. CASE Leaves(i)
    <3>1. P("none", None, 0)
      BY <2>5 DEF Leaves
    <3> QED BY <3>1
  <2> QED BY <2>3, <2>4, <2>5
<1>2. UNCHANGED <<xhr, queue, active, done, reqVars>>
  BY DEF Shoot, TapShot, Leaves
<1>3. place[i] \in {"none", "failed", "shared"}
  BY DEF Shoot, TapShot, Leaves
<1>4. SlotsUsed' /\ QueueOnce' /\ place' \in [Items -> Places]
  BY <1>1, <1>2, <1>3, QueueUnseen DEF Picked
<1>5. Unread' /\ AnswerTrue' /\ DoneIsStored'
  BY <1>2 DEF Unread, AnswerTrue, DoneIsStored
<1>6. Lines'
  <2>1. \A j \in Items : place'[j] = IF j = i THEN x ELSE place[j]
    BY <1>1
  <2>2. \A j \in Items : tries'[j] = IF j = i THEN t ELSE tries[j]
    BY <1>1
  <2>3. \A j \in Items : file'[j] = IF j = i THEN f ELSE file[j]
    BY <1>1
  <2> QED BY <1>1, <1>2, <1>3, <2>1, <2>2, <2>3 DEF Lines
<1>7. TypeOK'
  BY <1>1, <1>2, <1>4
<1> QED BY <1>4, <1>5, <1>6, <1>7

(* A page goes with all it holds.                                          *)
LEMMA ReloadIInv ==
  ASSUME IInv, NEW page \in {Picked, Shots}, Reload(page)
  PROVE  IInv'
<1> USE DEF IInv
<1>1. \A j \in Items : /\ place'[j] = IF j \in page THEN "none" ELSE place[j]
                       /\ file'[j] = IF j \in page THEN None ELSE file[j]
                       /\ tries'[j] = IF j \in page THEN 0 ELSE tries[j]
                       /\ xhr'[j] = IF j \in page THEN None ELSE xhr[j]
  BY DEF Reload
<1>2. \A r \in Requests : req'[r] = IF \E j \in page : xhr[j] = r THEN [req[r] EXCEPT !.cut = TRUE] ELSE req[r]
  BY DEF Reload
<1>3. done' = done /\ rows' = rows
  BY DEF Reload
<1>4. req' \in [Requests -> ReqRecord] /\ \A r \in Requests : RecordTrue(req'[r], rows')
  <2>1. ASSUME NEW r \in Requests
        PROVE  req'[r] \in ReqRecord /\ RecordTrue(req'[r], rows')
    <3>1. req[r] \in ReqRecord /\ RecordTrue(req[r], rows)
      BY RecordsAre
    <3>2. [req[r] EXCEPT !.cut = TRUE] \in ReqRecord /\ RecordTrue([req[r] EXCEPT !.cut = TRUE], rows)
      BY <3>1 DEF ReqRecord, RecordTrue
    <3> QED BY <1>2, <1>3, <3>1, <3>2
  <2>2. req' = [r \in Requests |-> req'[r]]
    BY DEF Reload
  <2> HIDE DEF TypeOK
  <2> QED BY <2>1, <2>2
<1>5. Unread' /\ AnswerTrue'
  BY <1>4, RecordsMake
<1>6. /\ place' \in [Items -> Places] /\ file' \in [Items -> Files \cup {None}]
      /\ tries' \in [Items -> Nat] /\ xhr' \in [Items -> Requests \cup {None}]
  BY DEF Reload
<1>7. SlotsUsed' /\ QueueOnce' /\ queue' \in Seq(Picked) /\ active' \in Nat
  <2>1. CASE page = Picked
    <3>1. queue' = <<>> /\ active' = 0
      BY <2>1 DEF Reload
    <3>2. Busy' = {}
      BY <1>1, <2>1 DEF Busy, Picked
    <3>3. SlotsUsed'
      BY <3>1, <3>2, FS_EmptySet DEF SlotsUsed
    <3>4. \A k \in DOMAIN queue : queue[k] \in Picked
      OBVIOUS
    <3>5. DOMAIN queue' = {} /\ \A j \in Items : place'[j] # "queued"
      <4>1. DOMAIN queue' = {}
        BY <3>1
      <4>2. \A j \in Items : place[j] = "queued" => j \in page
        BY <2>1, <3>4 DEF QueueOnce
      <4> QED BY <1>1, <4>1, <4>2
    <3>6. QueueOnce'
      BY <1>1, <2>1, <3>5 DEF QueueOnce, Picked
    <3> QED BY <3>1, <3>3, <3>6, EmptySeq
  <2>2. CASE page # Picked
    <3>1. queue' = queue /\ active' = active /\ page = Shots
      BY <2>2 DEF Reload
    <3>2. Busy' = Busy
      BY <1>1, <3>1 DEF Busy, Picked
    <3>3. SlotsUsed'
      BY <3>1, <3>2 DEF SlotsUsed
    <3>4. \A k \in DOMAIN queue : queue[k] \in Picked
      OBVIOUS
    <3>5. QueueOnce'
      BY <1>1, <3>1, <3>4 DEF QueueOnce, Picked
    <3> QED BY <3>1, <3>3, <3>5
  <2> QED BY <2>1, <2>2
<1>8. Lines'
  <2>1. \A j \in Items : tries'[j] > MaxRetries => place'[j] = "failed" /\ j \in Picked
    BY <1>1 DEF Lines
  <2>2. \A j \in Items : place'[j] # "none" => file'[j] # None
    BY <1>1 DEF Lines
  <2>3. \A j \in Items : place'[j] = "uploading" <=> xhr'[j] # None
    BY <1>1 DEF Lines
  <2>4. ASSUME NEW j \in Items, place'[j] = "uploading"
        PROVE  /\ xhr'[j] \notin Forms
               /\ req'[xhr'[j]].at # "free" /\ ~req'[xhr'[j]].cut
               /\ \E b \in Sends[file'[j]] : req'[xhr'[j]].body = <<b>>
    <3>1. j \notin page /\ place[j] = "uploading" /\ xhr'[j] = xhr[j] /\ file'[j] = file[j]
      BY <1>1, <2>4
    <3>2. xhr[j] \in Requests /\ ~\E k \in page : xhr[k] = xhr[j]
      BY <3>1 DEF Lines, Picked
    <3>3. req'[xhr'[j]] = req[xhr[j]]
      BY <1>2, <3>1, <3>2
    <3> QED BY <3>1, <3>3 DEF Lines
  <2>5. \A j, k \in Items : xhr'[j] = xhr'[k] /\ xhr'[j] # None => j = k
    BY <1>1 DEF Lines
  <2> QED BY <2>1, <2>2, <2>3, <2>4, <2>5 DEF Lines
<1>9. DoneIsStored'
  BY <1>3 DEF DoneIsStored
<1>10. ReqTypeOK'
  BY <1>3, <1>4 DEF ReqRecord
<1> QED BY <1>3, <1>5, <1>6, <1>7, <1>8, <1>9, <1>10

------------------------------------------------------------------------------
\* Nothing picked, nothing sent.
LEMMA InitIInv == Init => IInv
<1> SUFFICES ASSUME Init PROVE IInv
  OBVIOUS
<1>1. TypeOK
  BY EmptySeq DEF Init, ReqInit, NoRequest
<1>2. Unread /\ AnswerTrue /\ DoneIsStored
  BY DEF Init, ReqInit, NoRequest, Unread, AnswerTrue, DoneIsStored
<1>3. Busy = {}
  BY DEF Init, Busy, Picked
<1>4. SlotsUsed
  BY <1>3, FS_EmptySet DEF Init, SlotsUsed
<1>5. QueueOnce /\ Lines
  BY DEF Init, QueueOnce, Lines
<1> QED BY <1>1, <1>2, <1>4, <1>5 DEF IInv

\* A stutter changes nothing.
LEMMA StutterIInv == IInv /\ UNCHANGED vars => IInv'
BY DEF vars, IInv, Unread, AnswerTrue, DoneIsStored, SlotsUsed, Busy, QueueOnce, Lines

\* Every step keeps the invariant.
LEMMA StepIInv == IInv /\ [Next]_vars => IInv'
<1> SUFFICES ASSUME IInv, [Next]_vars PROVE IInv'
  OBVIOUS
<1>1. ASSUME NEW i \in Items,
             \/ \E f \in Files : Pick(i, f) \/ Shoot(i, f)
             \/ Goes(i) \/ Tap(i) \/ TapShot(i) \/ Leaves(i)
      PROVE  IInv'
  BY <1>1, LoadedSharedIInv, LoadedRefusedIInv, RetryIInv, EnterIInv, PreparedIInv, ShotEndsIInv, QuietIInv
  DEF Goes, Ends
<1>2. CASE Reload(Picked) \/ Reload(Shots)
  BY <1>2, ReloadIInv
<1>3. ASSUME NEW r \in Requests, Serves(r)
      PROVE  IInv'
  BY <1>3, ServesIInv
<1>4. ASSUME NEW r \in Forms, FormPost(r) \/ FormSeen(r) \/ FormBreaks(r), UNCHANGED <<pageVars, done>>
      PROVE  IInv'
  BY <1>4, FormIInv
<1>5. CASE UNCHANGED vars
  BY <1>5, StutterIInv
<1> QED BY <1>1, <1>2, <1>3, <1>4, <1>5 DEF Next

(* The invariant of pages and requests holds in every reachable state.     *)
THEOREM UploadInductive == Spec => []IInv
<1>1. Init => IInv
  BY InitIInv
<1>2. IInv /\ [Next]_vars => IInv'
  BY StepIInv
<1> QED BY <1>1, <1>2, PTL DEF Spec

(* A mark in localStorage is never wrong (upload.js:9-11).                 *)
THEOREM MarksAreTrue == Spec => []DoneIsStored
<1>1. IInv => DoneIsStored
  BY DEF IInv
<1> QED BY <1>1, UploadInductive, PTL

(* The cap holds and no slot is lost (upload.js:96-106).                   *)
THEOREM SlotsAreUsed == Spec => []SlotsUsed
<1>1. IInv => SlotsUsed
  BY DEF IInv
<1> QED BY <1>1, UploadInductive, PTL

(* The answer says of each file what became of it (upload.go:118-139).     *)
THEOREM AnswersAreTrue == Spec => []AnswerTrue
<1>1. IInv => AnswerTrue
  BY DEF IInv
<1> QED BY <1>1, UploadInductive, PTL

------------------------------------------------------------------------------
(* The size limit.                                                         *)

\* What the copying of i bytes under a limit of j comes to.
Ending(i, j) ==
  IF i < j THEN {"ok"} ELSE IF i > j \/ j = 0 THEN {"large"} ELSE {"ok", "large"}

\* The right-hand side of Copying, of a function c.
Copied(c, i, j) ==
  IF j = 0 THEN {"large"}
  ELSE IF i = 0 THEN {"ok"}
  ELSE UNION {(IF k = i THEN {"ok"} ELSE {}) \cup c[i - k][j - k] : k \in 1 .. Least(i, j)}

\* Copying is a function with that right-hand side: Ending is one, and the
\* recursive definition chooses one.
LEMMA CopyingExists ==
  Copying = [i \in Nat |-> [j \in Nat |-> Copied(Copying, i, j)]]
<1> DEFINE h == [i \in Nat |-> [j \in Nat |-> Ending(i, j)]]
<1>1. ASSUME NEW i \in Nat, NEW j \in Nat
      PROVE  Copied(h, i, j) = Ending(i, j)
  <2>1. CASE i = 0 \/ j = 0
    BY <2>1 DEF Ending, Copied
  <2>2. CASE i # 0 /\ j # 0
    <3>1. \A k \in 1 .. Least(i, j) : i - k \in Nat /\ j - k \in Nat /\ h[i - k][j - k] = Ending(i - k, j - k)
      BY DEF Least
    <3>2. 1 \in 1 .. Least(i, j) /\ Least(i, j) \in 1 .. Least(i, j)
      BY <2>2 DEF Least
    <3> HIDE DEF h
    <3>3. Copied(h, i, j) = UNION {(IF k = i THEN {"ok"} ELSE {}) \cup Ending(i - k, j - k) : k \in 1 .. Least(i, j)}
      BY <2>2, <3>1 DEF Copied
    <3> QED BY <2>2, <3>2, <3>3 DEF Ending, Least
  <2> QED BY <2>1, <2>2
<1>2. h = [i \in Nat |-> [j \in Nat |-> Copied(h, i, j)]]
  BY <1>1
<1>3. Copying = CHOOSE c : c = [i \in Nat |-> [j \in Nat |-> Copied(c, i, j)]]
  BY DEF Copying, Copied
<1> HIDE DEF h
<1> QED BY <1>2, <1>3, Zenon

\* A set of numbers has a least one.
LEMMA SmallestOf ==
  ASSUME NEW T \in SUBSET Nat, T # {}
  PROVE  \E x \in T : \A y \in T : x <= y
<1>1. PICK x \in T : \A y \in T : <<y, x>> \notin OpToRel(<, Nat)
  BY NatLessThanWellFounded, WFMin
<1>2. \A y \in T : ~(y < x)
  BY <1>1 DEF OpToRel
<1> QED BY <1>2

(* However the bytes arrive: a file shorter than the limit ends well, a    *)
(* longer one does not, and one of exactly that length may do either.      *)
(* There is no least length for which this fails.                          *)
LEMMA CopyingEnds ==
  ASSUME NEW n \in Nat, NEW m \in Nat
  PROVE  Copying[n][m] = Ending(n, m)
<1> DEFINE T == {i \in Nat : \E j \in Nat : Copying[i][j] # Ending(i, j)}
<1>1. \A i, j \in Nat : Copying[i][j] = Copied(Copying, i, j)
  <2> SUFFICES ASSUME NEW i \in Nat, NEW j \in Nat PROVE Copying[i][j] = Copied(Copying, i, j)
    OBVIOUS
  <2> DEFINE c == Copying
  <2>1. c = [a \in Nat |-> [b \in Nat |-> Copied(c, a, b)]]
    BY CopyingExists
  <2> HIDE DEF c
  <2>2. c[i] = [b \in Nat |-> Copied(c, i, b)]
    BY <2>1, Zenon
  <2>3. c[i][j] = Copied(c, i, j)
    BY <2>2, Zenon
  <2> QED BY <2>3 DEF c
<1>2. ASSUME T # {} PROVE FALSE
  <2>1. PICK i \in T : \A y \in T : i <= y
    <3> HIDE DEF T
    <3>1. T \in SUBSET Nat
      BY DEF T
    <3> QED BY <1>2, <3>1, SmallestOf
  <2>2. PICK j \in Nat : Copying[i][j] # Ending(i, j)
    OBVIOUS
  <2>3. \A l \in 0 .. i - 1, r \in Nat : Copying[l][r] = Ending(l, r)
    BY <2>1
  <2>4. Copied(Copying, i, j) = Ending(i, j)
    <3>0. i \in Nat
      OBVIOUS
    <3> HIDE DEF T
    <3>1. CASE i = 0 \/ j = 0
      BY <3>0, <3>1 DEF Ending, Copied
    <3>2. CASE i # 0 /\ j # 0
      <4>1. \A k \in 1 .. Least(i, j) : i - k \in 0 .. i - 1 /\ j - k \in Nat
        BY <3>0, <3>2 DEF Least
      <4>2. \A k \in 1 .. Least(i, j) : Copying[i - k][j - k] = Ending(i - k, j - k)
        BY <2>3, <4>1
      <4>3. 1 \in 1 .. Least(i, j) /\ Least(i, j) \in 1 .. Least(i, j)
        BY <3>0, <3>2 DEF Least
      <4>4. Copied(Copying, i, j) = UNION {(IF k = i THEN {"ok"} ELSE {}) \cup Ending(i - k, j - k) : k \in 1 .. Least(i, j)}
        BY <3>2, <4>2 DEF Copied
      <4> QED BY <3>0, <3>2, <4>3, <4>4 DEF Ending, Least
    <3> QED BY <3>1, <3>2
  <2> QED BY <1>1, <2>2, <2>4
<1> QED BY <1>2

\* What a part can end in says how long it is.
LEMMA PartSize ==
  ASSUME NEW b \in Blobs, NEW o \in PartOutcomes(b)
  PROVE  /\ o = "ok" => Size[b] <= MaxBody + 1
         /\ o = "large" => Size[b] > MaxBody
<1>1. Size[b] \in Nat /\ MaxBody \in Nat
  OBVIOUS
<1>2. Limited(b) = Ending(Size[b], MaxBody + 1)
  BY <1>1, CopyingEnds DEF Limited
<1>3. o \in {"ok", "large"} => o \in Limited(b)
  BY DEF PartOutcomes
<1> QED BY <1>1, <1>2, <1>3 DEF Ending

\* Whatever is done, a request keeps its reports, starts without any, or has
\* a part stored; and rows only come from such parts.
LEMMA ReportsMove ==
  ASSUME IInv, [Next]_vars
  PROVE  /\ \A r \in Requests :
              \/ req'[r].results = req[r].results /\ req'[r].body = req[r].body
              \/ req'[r].results = <<>>
              \/ StorePart(r)
         /\ rows' = rows \/ \E r \in Requests : StorePart(r)
<1> DEFINE Keeps(r, q) == q.results = <<>> \/ (q.results = req[r].results /\ q.body = req[r].body)
           Moves ==
             /\ \A r \in Requests : Keeps(r, req'[r]) \/ StorePart(r)
             /\ rows' = rows \/ \E r \in Requests : StorePart(r)
<1>0. req \in [Requests -> ReqRecord]
  BY DEF IInv, ReqRecord
<1>1. ASSUME NEW r \in Requests, NEW q, Keeps(r, q), req' = [req EXCEPT ![r] = q], rows' = rows
      PROVE  Moves
  <2>1. \A s \in Requests : req'[s] = IF s = r THEN q ELSE req[s]
    BY <1>0, <1>1
  <2> QED BY <1>1, <2>1
<1>2. ASSUME NEW r \in Requests
      PROVE  /\ Keeps(r, NoRequest)
             /\ \A b : Keeps(r, Sent(b))
             /\ Keeps(r, [req[r] EXCEPT !.cut = TRUE])
             /\ \A s : Keeps(r, [req[r] EXCEPT !.at = "answered", !.status = s])
             /\ \A a : Keeps(r, [req[r] EXCEPT !.at = a])
  <2> DEFINE old == req[r]
  <2>1. old \in ReqRecord
    BY <1>0
  <2> HIDE DEF old
  <2>2. /\ [old EXCEPT !.cut = TRUE].results = old.results
        /\ [old EXCEPT !.cut = TRUE].body = old.body
        /\ \A s : /\ [old EXCEPT !.at = "answered", !.status = s].results = old.results
                  /\ [old EXCEPT !.at = "answered", !.status = s].body = old.body
        /\ \A a : [old EXCEPT !.at = a].results = old.results /\ [old EXCEPT !.at = a].body = old.body
    BY <2>1 DEF ReqRecord
  <2> QED BY <2>2 DEF old, NoRequest, Sent
<1> HIDE DEF Keeps, Moves
<1>3. ASSUME UNCHANGED <<req, rows>> PROVE Moves
  BY <1>3 DEF Moves, Keeps
<1>4. ASSUME NEW i \in Items,
             \/ \E f \in Files : Pick(i, f) \/ Shoot(i, f)
             \/ Tap(i) \/ TapShot(i) \/ Leaves(i) \/ BackoffEnds(i)
      PROVE  Moves
  BY <1>3, <1>4 DEF Pick, Shoot, Tap, TapShot, Leaves, BackoffEnds
<1>5. ASSUME NEW i \in Items, Prepared(i) PROVE Moves
  BY <1>1, <1>2, <1>5 DEF Prepared, Begin
<1>6. ASSUME NEW i \in Items, Ends(i) PROVE Moves
  <2>1. place[i] = "uploading" /\ (Hang(i) \/ Cut(i)) /\ rows' = rows
    BY <1>6 DEF Ends, LoadedShared, LoadedRefused, LoadedRetry, Broken, Developed, ShotBroken, Cut, Heard
  <2>2. xhr[i] \in Requests
    BY <2>1, OwnRequest
  <2> QED BY <1>1, <1>2, <2>1, <2>2 DEF Hang, Cut
<1>7. ASSUME NEW page, Reload(page) PROVE Moves
  <2>1. \A r \in Requests : req'[r] = req[r] \/ req'[r] = [req[r] EXCEPT !.cut = TRUE]
    BY <1>7 DEF Reload
  <2>2. rows' = rows
    BY <1>7 DEF Reload
  <2> QED BY <1>2, <2>1, <2>2 DEF Moves, Keeps
<1>8. ASSUME NEW r \in Requests, Serves(r) PROVE Moves
  <2>1. CASE Refuse(r)
    <3>1. PICK s \in {200, 500} : Reply(r, s)
      BY <2>1 DEF Refuse
    <3>2. rows' = rows
      BY <2>1 DEF Refuse
    <3> DEFINE q == [req[r] EXCEPT !.at = "answered", !.status = s]
    <3>3. req' = [req EXCEPT ![r] = q]
      BY <3>1 DEF Reply
    <3>4. Keeps(r, q)
      <4>1. req[r] \in ReqRecord
        BY <1>0
      <4>2. q.results = req[r].results /\ q.body = req[r].body
        BY <4>1 DEF ReqRecord
      <4> QED BY <4>2 DEF Keeps
    <3> HIDE DEF q
    <3> QED BY <1>1, <3>2, <3>3, <3>4
  <2>2. CASE Accept(r)
    BY <1>1, <1>2, <2>2 DEF Accept
  <2>3. CASE StorePart(r)
    <3>1. \A s \in Requests : s # r => req'[s] = req[s]
      BY <1>0, <2>3 DEF StorePart
    <3> QED BY <2>3, <3>1 DEF Moves, Keeps
  <2>4. CASE Finish(r)
    BY <1>1, <1>2, <2>4 DEF Finish, Reply
  <2>5. CASE Abandoned(r)
    BY <1>1, <1>2, <2>5 DEF Abandoned
  <2> QED BY <1>8, <2>1, <2>2, <2>3, <2>4, <2>5 DEF Serves, ServerStep
<1>9. ASSUME NEW r \in Forms, FormPost(r) \/ FormSeen(r) \/ FormBreaks(r) PROVE Moves
  BY <1>1, <1>2, <1>9 DEF FormPost, FormSeen, FormBreaks, Begin
<1>10. ASSUME UNCHANGED vars PROVE Moves
  BY <1>3, <1>10 DEF vars
<1>11. Moves
  <2>1. CASE \E i \in Items :
               \/ \E f \in Files : Pick(i, f) \/ Shoot(i, f)
               \/ Goes(i) \/ Tap(i) \/ TapShot(i) \/ Leaves(i)
    BY <1>4, <1>5, <1>6, <2>1 DEF Goes
  <2>2. CASE Reload(Picked) \/ Reload(Shots)
    BY <1>7, <2>2
  <2>3. CASE \E r \in Requests : Serves(r)
    BY <1>8, <2>3
  <2>4. CASE \E r \in Forms : (Closed(Items) /\ FormPost(r)) \/ FormSeen(r) \/ FormBreaks(r)
    BY <1>9, <2>4
  <2>5. CASE Next
    <3> HIDE DEF pageVars
    <3> QED BY <2>1, <2>2, <2>3, <2>4, <2>5, Zenon DEF Next
  <2> QED BY <1>10, <2>5
<1> QED BY <1>11 DEF Moves, Keeps

\* The limit is kept by every step.
LEMMA LimitStep == IInv /\ LimitKept /\ [Next]_vars => LimitKept'
<1> SUFFICES ASSUME IInv, LimitKept, [Next]_vars PROVE LimitKept'
  OBVIOUS
<1>1. ASSUME NEW r \in Requests, StorePart(r)
      PROVE  \E o \in PartOutcomes(Current(r)) :
               /\ Current(r) \in Blobs
               /\ req'[r].body = req[r].body
               /\ req'[r].results = Append(req[r].results, o)
               /\ rows' = IF o = "ok" THEN rows \cup {Current(r)} ELSE rows
  <2>1. req[r] \in ReqRecord /\ req \in [Requests -> ReqRecord]
    BY DEF IInv, ReqRecord
  <2>2. Len(req[r].results) + 1 \in 1 .. Len(req[r].body)
    BY <1>1, <2>1 DEF StorePart, ReqRecord
  <2>3. Current(r) \in Blobs
    BY <2>1, <2>2, ElementOfSeq DEF Current, ReqRecord
  <2> QED BY <1>1, <2>1, <2>3 DEF StorePart, ReqRecord
<1>2. ASSUME NEW b \in rows' PROVE Size[b] <= MaxBody + 1
  BY <1>1, <1>2, PartSize, ReportsMove DEF LimitKept
<1>3. ASSUME NEW r \in Requests, NEW k \in DOMAIN req'[r].results, req'[r].results[k] = "large"
      PROVE  Size[req'[r].body[k]] > MaxBody
  <2>1. CASE req'[r].results = req[r].results /\ req'[r].body = req[r].body
    BY <1>3, <2>1 DEF LimitKept
  <2>2. CASE req'[r].results = <<>>
    BY <1>3, <2>2, EmptySeq
  <2>3. CASE StorePart(r)
    <3>1. PICK o \in PartOutcomes(Current(r)) :
            Current(r) \in Blobs /\ req'[r].body = req[r].body
            /\ req'[r].results = Append(req[r].results, o)
      BY <1>1, <2>3
    <3>2. req[r].results \in Seq(Outcomes)
      BY DEF IInv
    <3>3. o \in Outcomes
      BY <2>3, <3>1 DEF StorePart
    <3>4. CASE k = Len(req[r].results) + 1
      <4>1. req'[r].results[k] = o /\ req'[r].body[k] = Current(r)
        BY <3>1, <3>2, <3>3, <3>4, AppendProperties DEF Current
      <4> QED BY <1>3, <3>1, <4>1, PartSize
    <3>5. CASE k # Len(req[r].results) + 1
      <4>1. k \in DOMAIN req[r].results /\ req[r].results[k] = "large"
        BY <1>3, <3>1, <3>2, <3>3, <3>5, AppendProperties
      <4> QED BY <3>1, <4>1 DEF LimitKept
    <3> QED BY <3>4, <3>5
  <2> QED BY <2>1, <2>2, <2>3, ReportsMove
<1> QED BY <1>2, <1>3 DEF LimitKept

(* The limit is exact to a byte for every file, however its bytes arrive   *)
(* (upload.go:158-160, 250-269).                                           *)
THEOREM LimitIsKept == Spec => []LimitKept
<1>1. Init => LimitKept
  BY EmptySeq DEF Init, ReqInit, NoRequest, LimitKept
<1> QED BY <1>1, LimitStep, UploadInductive, PTL DEF Spec
------------------------------------------------------------------------------
(* What the pages promise a guest.                                         *)

\* A row or tile that is not there, and every shot, has no failed try.
Fresh == \A i \in Items : place[i] = "none" \/ i \in Shots => tries[i] = 0

\* One item changes what it shows.
LEMMA OneBecomes ==
  ASSUME NEW i \in Items, NEW s,
         \A j \in Items : Shows(place'[j]) = IF j = i THEN s ELSE Shows(place[j])
  PROVE  Promise!Becomes(i, s)
BY DEF Promise!Becomes

\* To become what one is, is to stay.
LEMMA StaysPending ==
  ASSUME NEW i \in Items, Promise!Becomes(i, Shows(place[i]))
  PROVE  [j \in Items |-> Shows(place'[j])] = [j \in Items |-> Shows(place[j])]
BY DEF Promise!Becomes

\* A row that pump starts was pending, and is.
LEMMA PumpBecomes ==
  ASSUME IInv, NEW i \in Items, NEW x \in Places, NEW q, NEW a,
         Ready(q, a, [place EXCEPT ![i] = x]), Pump(q, a, [place EXCEPT ![i] = x])
  PROVE  Promise!Becomes(i, Shows(x))
<1> DEFINE pl == [place EXCEPT ![i] = x]
<1>1. \A j \in Items : pl[j] = IF j = i THEN x ELSE place[j]
  BY DEF IInv
<1>2. \A j \in Items : place'[j] = pl[j] \/ (place'[j] = "preparing" /\ pl[j] = "queued")
  BY PumpOnce
<1> HIDE DEF pl
<1>3. \A j \in Items : Shows(place'[j]) = Shows(pl[j])
  BY <1>2 DEF Shows
<1>4. \A j \in Items : Shows(place'[j]) = IF j = i THEN Shows(x) ELSE Shows(place[j])
  BY <1>1, <1>3
<1> QED BY <1>4, OneBecomes

(* An answer that counts as a success is about a form of the file that has *)
(* a row.                                                                  *)
LEMMA SharedIsStored ==
  ASSUME IInv, NEW i \in Items, Heard(i), Shared(req[xhr[i]])
  PROVE  Sends[file[i]] \cap rows # {}
<1>1. place[i] = "uploading" /\ req[xhr[i]].results # <<>> /\ req[xhr[i]].results[1] = "ok"
  BY DEF Heard, Shared
<1>2. xhr[i] \in Requests /\ req[xhr[i]] \in ReqRecord /\ RecordTrue(req[xhr[i]], rows)
  BY <1>1, OwnRequest
<1>3. PICK b \in Sends[file[i]] : req[xhr[i]].body = <<b>>
  BY <1>1 DEF Lines, IInv
<1>4. 1 \in DOMAIN req[xhr[i]].results
  BY <1>1, <1>2, EmptySeq DEF ReqRecord
<1>5. req[xhr[i]].body[1] \in rows
  BY <1>1, <1>2, <1>4 DEF RecordTrue
<1> QED BY <1>3, <1>5

(* The upload page is told how its request ended.                          *)
LEMMA EndsPromised ==
  ASSUME IInv, NEW i \in Items, Ends(i)
  PROVE  Promise!Next
<1>1. Picked \cap Shots = {} /\ place[i] = "uploading" /\ Shows(place[i]) = "pending"
  BY DEF Ends, LoadedShared, LoadedRefused, LoadedRetry, Broken, Developed, ShotBroken, Heard, Cut,
         Picked, Shows
<1>2. tries \in [Items -> Nat] /\ tries[i] <= MaxRetries
  <2>1. tries \in [Items -> Nat] /\ ~(tries[i] > MaxRetries)
    BY <1>1 DEF IInv, Lines
  <2> QED BY <2>1
<1>3. CASE LoadedShared(i)
  <2>1. /\ i \in Picked /\ Heard(i) /\ Shared(req[xhr[i]])
        /\ done' \in {done, done \cup {file[i]}} /\ UNCHANGED <<file, tries, rows>>
        /\ Pump(queue, active - 1, [place EXCEPT ![i] = "shared"])
    BY <1>3 DEF LoadedShared
  <2>2. Promise!Becomes(i, "shared")
    BY <1>1, <2>1, ReleaseReady, PumpBecomes DEF Shows
  <2>3. Sends[file[i]] \cap rows # {}
    BY <2>1, SharedIsStored
  <2>4. Promise!Share(i)
    BY <1>1, <2>1, <2>2, <2>3 DEF Promise!Share
  <2> QED BY <2>4 DEF Promise!Next
<1>4. CASE LoadedRefused(i)
  <2>1. /\ i \in Picked /\ UNCHANGED <<file, tries, rows, done>>
        /\ Pump(queue, active - 1, [place EXCEPT ![i] = "refused"])
    BY <1>4 DEF LoadedRefused
  <2>2. Promise!Becomes(i, "refused")
    BY <1>1, <2>1, ReleaseReady, PumpBecomes DEF Shows
  <2>3. Promise!Refuse(i)
    BY <1>1, <2>1, <2>2 DEF Promise!Refuse
  <2> QED BY <2>3 DEF Promise!Next
<1>5. CASE LoadedRetry(i) \/ Broken(i)
  <2>1. /\ i \in Picked /\ UNCHANGED <<file, rows, done>>
        /\ tries' = [tries EXCEPT ![i] = @ + 1]
        /\ Pump(queue, active - 1, [place EXCEPT ![i] = Retried(i)])
    BY <1>5 DEF LoadedRetry, Broken
  <2>2. Retried(i) \in {"waiting", "failed"}
        /\ Shows(Retried(i)) = IF tries'[i] > MaxRetries THEN "returned" ELSE "pending"
    BY <1>2, <2>1 DEF Retried, Shows
  <2>3. Promise!Becomes(i, Shows(Retried(i)))
    BY <1>1, <2>1, <2>2, ReleaseReady, PumpBecomes
  <2>4. Promise!TryFails(i)
    BY <1>1, <1>2, <2>1, <2>2, <2>3 DEF Promise!TryFails
  <2> QED BY <2>4 DEF Promise!Next
<1>6. CASE Developed(i) \/ ShotBroken(i)
  <2>1. /\ i \in Shots /\ UNCHANGED <<file, tries, rows, done>>
        /\ place \in [Items -> Places]
    BY <1>6 DEF Developed, ShotBroken, IInv
  <2>2. CASE place' = [place EXCEPT ![i] = "failed"]
    <3>1. Promise!Becomes(i, "returned")
      BY <2>1, <2>2, OneBecomes DEF Shows
    <3>2. Promise!ShotFails(i)
      BY <1>1, <2>1, <3>1 DEF Promise!ShotFails
    <3> QED BY <3>2 DEF Promise!Next
  <2>3. CASE place' = [place EXCEPT ![i] = "shared"] /\ Heard(i) /\ Shared(req[xhr[i]])
    <3>1. Promise!Becomes(i, "shared")
      BY <2>1, <2>3, OneBecomes DEF Shows
    <3>2. Sends[file[i]] \cap rows # {}
      BY <2>3, SharedIsStored
    <3>3. Promise!Share(i)
      BY <1>1, <2>1, <3>1, <3>2 DEF Promise!Share
    <3> QED BY <3>3 DEF Promise!Next
  <2> QED BY <1>6, <2>2, <2>3 DEF Developed, ShotBroken
<1> QED BY <1>3, <1>4, <1>5, <1>6 DEF Ends

(* A photo is chosen, or taken up again.                                   *)
LEMMA GuestPromised ==
  ASSUME IInv, Fresh, NEW i \in Items,
         (\E f \in Files : Pick(i, f) \/ Shoot(i, f)) \/ Tap(i) \/ TapShot(i)
  PROVE  Promise!Next
<1>1. Picked \cap Shots = {} /\ place \in [Items -> Places] /\ tries \in [Items -> Nat]
  BY DEF Picked, IInv
<1>2. ASSUME NEW f \in Files, Pick(i, f) PROVE Promise!Next
  <2>1. /\ i \in Picked /\ place[i] = "none" /\ f \notin done
        /\ file' = [file EXCEPT ![i] = f] /\ UNCHANGED <<tries, rows, done>>
        /\ Pump(Append(queue, i), active, [place EXCEPT ![i] = "queued"])
    BY <1>2 DEF Pick
  <2>2. Promise!Becomes(i, "pending")
    BY <2>1, QueuedReady, PumpBecomes DEF Shows
  <2>3. Shows(place[i]) = "none" /\ tries[i] = 0
    BY <2>1 DEF Shows, Fresh
  <2>4. Promise!Choose(i, f)
    BY <2>1, <2>2, <2>3 DEF Promise!Choose
  <2> QED BY <2>4 DEF Promise!Next
<1>3. ASSUME NEW f \in Files, Shoot(i, f) PROVE Promise!Next
  <2>1. /\ i \in Shots /\ place[i] = "none" /\ place' = [place EXCEPT ![i] = "preparing"]
        /\ file' = [file EXCEPT ![i] = f] /\ UNCHANGED <<tries, rows, done>>
    BY <1>3 DEF Shoot
  <2>2. Promise!Becomes(i, "pending")
    BY <1>1, <2>1, OneBecomes DEF Shows
  <2>3. Shows(place[i]) = "none" /\ tries[i] = 0
    BY <2>1 DEF Shows, Fresh
  <2>4. Promise!Choose(i, f)
    BY <2>1, <2>2, <2>3 DEF Promise!Choose
  <2> QED BY <2>4 DEF Promise!Next
<1>4. CASE Tap(i)
  <2>1. /\ i \in Picked /\ place[i] = "failed" /\ UNCHANGED <<file, rows, done>>
        /\ tries' = [tries EXCEPT ![i] = 0]
        /\ Pump(Append(queue, i), active, [place EXCEPT ![i] = "queued"])
    BY <1>4 DEF Tap
  <2>2. Promise!Becomes(i, "pending") /\ Shows(place[i]) = "returned"
    BY <2>1, QueuedReady, PumpBecomes DEF Shows
  <2>3. Promise!Again(i)
    BY <2>1, <2>2 DEF Promise!Again
  <2> QED BY <2>3 DEF Promise!Next
<1>5. CASE TapShot(i)
  <2>1. /\ i \in Shots /\ place[i] = "failed" /\ place' = [place EXCEPT ![i] = "preparing"]
        /\ UNCHANGED <<file, tries, rows, done>>
    BY <1>5 DEF TapShot
  <2>2. Promise!Becomes(i, "pending") /\ Shows(place[i]) = "returned"
    BY <1>1, <2>1, OneBecomes DEF Shows
  <2>3. tries' = [tries EXCEPT ![i] = 0]
    BY <1>1, <2>1 DEF Fresh
  <2>4. Promise!Again(i)
    BY <2>1, <2>2, <2>3 DEF Promise!Again
  <2> QED BY <2>4 DEF Promise!Next
<1> QED BY <1>2, <1>3, <1>4, <1>5

\* What goes on inside a photo that is pending.
LEMMA PendingPromised ==
  ASSUME IInv, NEW i \in Items, Prepared(i) \/ BackoffEnds(i)
  PROVE  UNCHANGED Promise!promiseVars
<1>1. place \in [Items -> Places] /\ UNCHANGED <<file, tries, rows, done>>
  BY DEF IInv, Prepared, BackoffEnds
<1>2. Shows(place[i]) = "pending"
  BY DEF Prepared, BackoffEnds, Shows
<1>3. Promise!Becomes(i, "pending")
  <2>1. CASE Prepared(i)
    <3>1. place' = [place EXCEPT ![i] = "uploading"]
      BY <2>1 DEF Prepared
    <3> QED BY <1>1, <3>1, OneBecomes DEF Shows
  <2>2. CASE BackoffEnds(i)
    <3>1. /\ place[i] = "waiting"
          /\ Pump(Append(queue, i), active, [place EXCEPT ![i] = "queued"])
      BY <2>2 DEF BackoffEnds
    <3>2. i \in Picked
      BY <3>1 DEF IInv, QueueOnce, Picked
    <3> QED BY <3>1, <3>2, QueuedReady, PumpBecomes DEF Shows
  <2> QED BY <2>1, <2>2
<1>4. [j \in Items |-> Shows(place'[j])] = [j \in Items |-> Shows(place[j])]
  BY <1>2, <1>3, StaysPending
<1> QED BY <1>1, <1>4 DEF Promise!promiseVars

(* What is shared goes, and a page goes with all it holds.                 *)
LEMMA LeavePromised ==
  ASSUME IInv, (\E i \in Items : Leaves(i)) \/ Reload(Picked) \/ Reload(Shots)
  PROVE  Promise!Next
<1>1. /\ place \in [Items -> Places] /\ file \in [Items -> Files \cup {None}]
      /\ tries \in [Items -> Nat] /\ Picked = Items \ Shots /\ Picked \subseteq Items
  BY DEF IInv, Picked
<1>2. ASSUME NEW P \in SUBSET Items,
             P \in {Shots, Items \ Shots} \/ \E i \in Items : P = {i} /\ place[i] = "shared",
             place' = [i \in Items |-> IF i \in P THEN "none" ELSE place[i]],
             file' = [i \in Items |-> IF i \in P THEN None ELSE file[i]],
             tries' = [i \in Items |-> IF i \in P THEN 0 ELSE tries[i]],
             UNCHANGED <<rows, done>>
      PROVE  Promise!Next
  <2>1. \A i \in Items : Shows(place'[i]) = IF i \in P THEN "none" ELSE Shows(place[i])
    BY <1>2 DEF Shows
  <2>2. [i \in Items |-> Shows(place'[i])]
          = [i \in Items |-> IF i \in P THEN "none" ELSE [j \in Items |-> Shows(place[j])][i]]
    BY <2>1
  <2>3. P \in {Shots, Items \ Shots}
          \/ \E i \in Items : P = {i} /\ [j \in Items |-> Shows(place[j])][i] = "shared"
    BY <1>2 DEF Shows
  <2>4. Promise!Leave(P)
    BY <1>2, <2>2, <2>3 DEF Promise!Leave
  <2> QED BY <1>2, <2>4 DEF Promise!Next
<1>3. ASSUME NEW i \in Items, Leaves(i) PROVE Promise!Next
  <2>1. /\ place' = [j \in Items |-> IF j \in {i} THEN "none" ELSE place[j]]
        /\ file' = [j \in Items |-> IF j \in {i} THEN None ELSE file[j]]
        /\ tries' = [j \in Items |-> IF j \in {i} THEN 0 ELSE tries[j]]
    BY <1>1, <1>3 DEF Leaves
  <2>2. place[i] = "shared" /\ UNCHANGED <<rows, done>>
    BY <1>3 DEF Leaves
  <2>3. {i} \in SUBSET Items /\ \E j \in Items : {i} = {j} /\ place[j] = "shared"
    BY <2>2
  <2> QED BY <1>2, <2>1, <2>2, <2>3
<1>4. ASSUME NEW page \in {Picked, Shots}, Reload(page) PROVE Promise!Next
  <2>1. /\ place' = [j \in Items |-> IF j \in page THEN "none" ELSE place[j]]
        /\ file' = [j \in Items |-> IF j \in page THEN None ELSE file[j]]
        /\ tries' = [j \in Items |-> IF j \in page THEN 0 ELSE tries[j]]
        /\ UNCHANGED <<rows, done>>
    BY <1>4 DEF Reload
  <2>2. page \in SUBSET Items /\ page \in {Shots, Items \ Shots}
    BY <1>1
  <2> QED BY <1>2, <2>1, <2>2
<1> QED BY <1>3, <1>4

(* The server stores, and is not seen otherwise.                           *)
LEMMA ServerPromised ==
  ASSUME IInv, NEW r \in Requests,
         Serves(r) \/ ((FormPost(r) \/ FormSeen(r) \/ FormBreaks(r)) /\ UNCHANGED <<pageVars, done>>)
  PROVE  [Promise!Next]_(Promise!promiseVars)
<1>1. UNCHANGED <<place, file, tries, done>>
  BY DEF Serves
<1>2. [j \in Items |-> Shows(place'[j])] = [j \in Items |-> Shows(place[j])]
  BY <1>1
<1>3. CASE rows' = rows
  BY <1>1, <1>2, <1>3 DEF Promise!promiseVars
<1>4. ASSUME NEW b \in Blobs, rows' = rows \cup {b} PROVE Promise!Next
  <2>1. Promise!Store(b)
    BY <1>1, <1>2, <1>4 DEF Promise!Store
  <2> QED BY <2>1 DEF Promise!Next
<1>5. rows' = rows \/ \E b \in Blobs : rows' = rows \cup {b}
  <2>1. req[r] \in ReqRecord
    BY DEF IInv, ReqRecord
  <2>2. StorePart(r) => Current(r) \in Blobs
    BY <2>1 DEF ReqRecord, StorePart, Current
  <2> QED BY <2>2 DEF Serves, ServerStep, Refuse, Accept, StorePart, Finish, Abandoned,
                      FormPost, FormSeen, FormBreaks
<1> QED BY <1>3, <1>4, <1>5

\* One step of the pages and the server is at most one of the promise.
LEMMA StepPromised == IInv /\ Fresh /\ [Next]_vars => [Promise!Next]_(Promise!promiseVars)
<1> SUFFICES ASSUME IInv, Fresh, [Next]_vars PROVE [Promise!Next]_(Promise!promiseVars)
  OBVIOUS
<1>1. ASSUME NEW i \in Items,
             \/ \E f \in Files : Pick(i, f) \/ Shoot(i, f)
             \/ Goes(i) \/ Tap(i) \/ TapShot(i) \/ Leaves(i)
      PROVE  [Promise!Next]_(Promise!promiseVars)
  BY <1>1, GuestPromised, EndsPromised, PendingPromised, LeavePromised DEF Goes
<1>2. CASE Reload(Picked) \/ Reload(Shots)
  BY <1>2, LeavePromised
<1>3. ASSUME NEW r \in Requests, Serves(r) PROVE [Promise!Next]_(Promise!promiseVars)
  BY <1>3, ServerPromised
<1>4. ASSUME NEW r \in Forms, FormPost(r) \/ FormSeen(r) \/ FormBreaks(r), UNCHANGED <<pageVars, done>>
      PROVE  [Promise!Next]_(Promise!promiseVars)
  BY <1>4, ServerPromised
<1>5. CASE UNCHANGED vars
  BY <1>5 DEF vars, Promise!promiseVars
<1> QED BY <1>1, <1>2, <1>3, <1>4, <1>5 DEF Next

(* Fresh is the promise's own: every step of the promise keeps it.         *)
LEMMA StepFresh == IInv /\ Fresh /\ [Promise!Next]_(Promise!promiseVars) => Fresh'
<1> DEFINE state == [i \in Items |-> Shows(place[i])]
           NoTry(s, n) == \A i \in Items : s[i] = "none" \/ i \in Shots => n[i] = 0
<1>1. \A p : Shows(p) = "none" <=> p = "none"
  BY DEF Shows
<1>2. (Fresh <=> NoTry(state, tries)) /\ (Fresh <=> NoTry(state, tries))'
  BY <1>1 DEF Fresh
<1>3. ASSUME NoTry(state, tries), tries \in [Items -> Nat], Promise!Next PROVE NoTry(state', tries')
  BY <1>3 DEF Promise!Next, Promise!Choose, Promise!Share, Promise!Refuse, Promise!TryFails,
              Promise!ShotFails, Promise!Again, Promise!Leave, Promise!Store, Promise!Becomes
<1>4. ASSUME NoTry(state, tries), UNCHANGED Promise!promiseVars PROVE NoTry(state', tries')
  BY <1>4 DEF Promise!promiseVars
<1>5. IInv => tries \in [Items -> Nat]
  BY DEF IInv
<1> QED BY <1>2, <1>3, <1>4, <1>5

(* The pages keep their promise to a guest, for any number of photos,      *)
(* requests, retries and pages, over any network (upload.js:1-12, 121-167).*)
THEOREM PromiseIsKept == Spec => ImplementsPromise
<1>1. Init => Promise!Init /\ Fresh
  BY DEF Init, ReqInit, Promise!Init, Shows, Fresh
<1>2. IInv /\ Fresh /\ [Next]_vars => Fresh'
  BY StepPromised, StepFresh
<1> QED BY <1>1, <1>2, StepPromised, UploadInductive, PTL DEF Spec, ImplementsPromise, Promise!Spec
==============================================================================
