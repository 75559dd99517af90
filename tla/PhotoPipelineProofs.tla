------------------------- MODULE PhotoPipelineProofs -------------------------
(* The pipeline uses the blob store as BlobStore specifies it, and keeps   *)
(* the originals of its rows, for any sets of goroutines and photos.       *)
EXTENDS PhotoPipeline, TLAPS

\* BlobStore once more, with what is proved about it.
Store == INSTANCE BlobStoreProofs WITH Originals <- Contents

(* What the shape of keys gives, so that no step has to look inside one.   *)
LEMMA KeyFacts ==
  /\ \A k \in Contents : k[1] \in Hashes /\ k[2] \in Types /\ k = <<k[1], k[2]>>
  /\ Contents \cap Renditions = {}
  /\ NoKey \notin Contents \cup Renditions
  /\ NoType \notin Types
  /\ \A h \in Hashes : \A d \in {"thumb", "gallery"} : <<h, d>> \in Renditions
BY PipelineAssumption DEF Renditions

\* A goroutine has one role.
LEMMA RoleFacts ==
  /\ Procs = Uploaders \cup Renderers
  /\ Uploaders \cap Renderers = {}
  /\ Workers \subseteq Renderers /\ Viewers \subseteq Renderers
BY RolesAssumption DEF Procs, Renderers

\* What BlobStore asks of its constants holds of those of the pipeline.
LEMMA StoreAssumes ==
  /\ NoKey \notin Store!Keys
  /\ Kinds \subseteq Dirs
  /\ Above \in [Store!Keys \cup Dirs -> SUBSET Dirs]
  /\ \A x \in Store!Keys \cup Dirs : \A d \in Above[x] : Above[d] \subseteq Above[x]
BY KeyFacts, PathsAssumption DEF Store!Keys, Keys

(* The two instances are the same specification.                           *)
LEMMA StoreInit == Blobs!Init => Store!Init
BY DEF Blobs!Init, Store!Init, Blobs!Keys, Store!Keys, Blobs!Fresh, Store!Fresh

\* A step of the one is a step of the other.
LEMMA StoreNext == (Blobs!Next => Store!Next) /\ (Blobs!Powered => Store!Powered)
BY DEF Blobs!Keys, Store!Keys, Blobs!Busy, Store!Busy, Blobs!FileState,
       Store!FileState, Blobs!Flushed, Store!Flushed, Blobs!Present,
       Store!Present, Blobs!Synced, Store!Synced, Blobs!DirSynced,
       Store!DirSynced, Blobs!Ack, Store!Ack, Blobs!PutOriginal,
       Store!PutOriginal, Blobs!PutPresent, Store!PutPresent,
       Blobs!PutAbsent, Store!PutAbsent, Blobs!Put, Store!Put, Blobs!Copy,
       Store!Copy, Blobs!Sync, Store!Sync, Blobs!StatPresent,
       Store!StatPresent, Blobs!StatAbsent, Store!StatAbsent, Blobs!Rename,
       Store!Rename, Blobs!FsyncDir, Store!FsyncDir, Blobs!Fail, Store!Fail,
       Blobs!Return, Store!Return, Blobs!Remove, Store!Remove,
       Blobs!Writeback, Store!Writeback, Blobs!Fresh, Store!Fresh,
       Blobs!Reached, Store!Reached, Blobs!PathSynced, Store!PathSynced,
       Blobs!Mkdir, Store!Mkdir, Blobs!WritebackDir, Store!WritebackDir,
       Blobs!Left, Store!Left, Blobs!Halt, Store!Halt, Blobs!Crash,
       Store!Crash, Blobs!PowerLoss, Store!PowerLoss, Blobs!ProcStep,
       Store!ProcStep, Blobs!Powered, Store!Powered, Blobs!Next, Store!Next,
       Blobs!vars, Store!vars

\* They share their variables.
LEMMA StoreVars == UNCHANGED Blobs!vars <=> UNCHANGED Store!vars
BY DEF Blobs!vars, Store!vars

\* They share their invariant.
LEMMA StoreIInv == (Store!IInv <=> Blobs!IInv) /\ (Store!IInv <=> Blobs!IInv)'
BY DEF Blobs!TypeOK, Store!TypeOK, Blobs!NoTornBlob, Store!NoTornBlob,
       Blobs!AckedDurable, Store!AckedDurable, Blobs!TempReady,
       Store!TempReady, Blobs!KeyHeld, Store!KeyHeld, Blobs!Placed,
       Store!Placed, Blobs!IInv, Store!IInv, Blobs!Keys, Store!Keys,
       Blobs!Busy, Store!Busy, Blobs!FileState, Store!FileState,
       Blobs!DirState, Store!DirState

(* The store's invariant, as a lemma about one step of the pipeline.       *)
LEMMA BlobsStep == Blobs!IInv /\ [Blobs!Next]_(Blobs!vars) => Blobs!IInv'
<1>1. Store!IInv /\ [Store!Next]_(Store!vars) => Store!IInv'
  BY StoreAssumes, Store!NextIInv
<1> QED BY <1>1, StoreNext, StoreVars, StoreIInv

\* The induction is on both invariants at once.
Both == IInv /\ Blobs!IInv

(* Nothing is stored, and no goroutine is doing anything.                  *)
LEMMA InitBoth == Init => Both
<1> SUFFICES ASSUME Init PROVE Both
  OBVIOUS
<1>1. Blobs!IInv
  <2>1. Store!Init
    BY StoreInit DEF Init
  <2>2. Store!IInv
    BY <2>1, StoreAssumes, Store!InitIInv
  <2> QED BY <2>2, StoreIInv
<1>2. TypeOK
  <2>1. <<>> \in Seq(Contents)
    OBVIOUS
  <2> QED BY <2>1 DEF Init, TypeOK
<1>3. CallsMatch /\ Promised /\ Apart
  BY RoleFacts DEF Init, Blobs!Init, CallsMatch, Promised, Apart, Uploading, Deleting
<1> QED BY <1>1, <1>2, <1>3 DEF Both, IInv

------------------------------------------------------------------------------
(* The steps of an upload.                                                 *)
USE KeyFacts, RoleFacts
USE DEF IInv, TypeOK, CallsMatch, Promised, Apart, Uploading, Deleting,
        OriginalOf, Blobs!TypeOK, Blobs!Keys, upVars, admVars, queueVars, rendVars, blobVars

\* A new upload holds a key nobody relies on yet; one that meets a delete is noted.
LEMMA UploadIInv ==
  ASSUME IInv, Blobs!TypeOK, NEW u \in Uploaders, NEW k \in Contents, Upload(u, k)
  PROVE  IInv'
<1>1. TypeOK'
  BY DEF Upload, Blobs!PutOriginal, UploadUnderWay, DeleteUnderWay
<1>2. CallsMatch'
  BY DEF Upload, Blobs!PutOriginal, UploadUnderWay, DeleteUnderWay
<1>3. Promised'
  BY DEF Upload, Blobs!PutOriginal, UploadUnderWay, DeleteUnderWay
<1>4. Apart'
  BY DEF Upload, Blobs!PutOriginal, UploadUnderWay, DeleteUnderWay
<1> QED BY <1>1, <1>2, <1>3, <1>4

\* A failed store leaves nothing to rely on.
LEMMA PutFailedIInv ==
  ASSUME IInv, Blobs!TypeOK, NEW u \in Uploaders, PutFailed(u)
  PROVE  IInv'
<1>1. TypeOK'
  BY DEF PutFailed, Blobs!Return, UploadIdle
<1>2. CallsMatch'
  BY DEF PutFailed, Blobs!Return, UploadIdle
<1>3. Promised'
  BY DEF PutFailed, Blobs!Return, UploadIdle
<1>4. Apart'
  BY DEF PutFailed, Blobs!Return, UploadIdle
<1> QED BY <1>1, <1>2, <1>3, <1>4

\* The key comes back from the store with the store's word for it.
LEMMA PutDoneIInv ==
  ASSUME IInv, Blobs!TypeOK, NEW u \in Uploaders, PutDone(u)
  PROVE  IInv'
<1>1. TypeOK'
  BY DEF PutDone, Blobs!Return
<1>2. CallsMatch'
  BY DEF PutDone, Blobs!Return
<1>3. Promised'
  BY DEF PutDone, Blobs!Return
<1>4. Apart'
  BY DEF PutDone, Blobs!Return
<1> QED BY <1>1, <1>2, <1>3, <1>4

\* The new row speaks of the original this upload has stored.
LEMMA InsertNewIInv ==
  ASSUME IInv, Blobs!TypeOK, NEW u \in Uploaders, InsertNew(u)
  PROVE  IInv'
<1>0. UNCHANGED <<pc, key, removedUnder, acked, shaky, orphaned, upKey, adm, delKey, overlapped>>
  BY DEF InsertNew
<1>1. PICK k \in Contents : upKey[u] = k
  BY DEF InsertNew
<1>2. /\ k[1] \in Hashes /\ k = <<k[1], k[2]>> /\ pc[u] = "idle"
      /\ rows' = [rows EXCEPT ![k[1]] = k[2]]
      /\ up' = [up EXCEPT ![u] = "enqueue"]
      /\ up[u] = "insert"
  BY <1>1 DEF InsertNew
<1>3. OriginalOf(k[1])' = k
  BY <1>2
<1>4. \A h \in Hashes \ {k[1]} : OriginalOf(h)' = OriginalOf(h) /\ rows'[h] = rows[h]
  BY <1>2
<1>5. TypeOK'
  BY <1>0, <1>1, <1>2 DEF InsertNew
<1>6. CallsMatch'
  <2>1. ASSUME NEW h \in Hashes, rows'[h] # NoType PROVE OriginalOf(h)' \in Contents
    BY <1>3, <1>4, <2>1
  <2>2. \A p \in Renderers : rend'[p] # "idle" => src'[p] \in Contents
    BY DEF InsertNew
  <2> QED BY <2>1, <2>2, <1>0, <1>2
<1>7. Promised'
  <2>1. ASSUME NEW h \in Hashes, rows'[h] # NoType
        PROVE  OriginalOf(h)' \in overlapped \cup acked \cup shaky \cup orphaned
    <3>1. CASE h = k[1]
      <4>1. k \in overlapped \cup acked \cup shaky \cup orphaned
        BY <1>1, <1>2
      <4> QED BY <1>3, <3>1, <4>1
    <3>2. CASE h # k[1]
      BY <1>4, <2>1, <3>2
    <3> QED BY <3>1, <3>2
  <2>2. ASSUME NEW v \in Uploaders, up'[v] = "insert" \/ pc'[v] = "ok"
        PROVE  upKey'[v] \in overlapped \cup acked \cup shaky \cup orphaned
    BY <1>0, <1>2, <2>2
  <2> QED BY <2>1, <2>2, <1>0
<1>8. Apart'
  <2>1. ASSUME NEW a \in Admins, adm[a] = "original", delKey[a] \notin overlapped
        PROVE  OriginalOf(delKey[a][1])' # delKey[a]
    <3>1. delKey[a] \in Contents /\ OriginalOf(delKey[a][1]) # delKey[a]
      BY <2>1
    <3>2. delKey[a] # k
      BY <1>1, <1>2, <2>1
    <3>3. CASE delKey[a][1] = k[1]
      BY <1>0, <1>3, <3>2, <3>3
    <3>4. CASE delKey[a][1] # k[1]
      BY <1>0, <1>4, <3>1, <3>4
    <3> QED BY <3>3, <3>4
  <2>2. \A v \in Uploaders : Uploading(v)' => Uploading(v)
    BY <1>2
  <2>3. \A v \in Uploaders, a \in Admins :
          Uploading(v)' /\ Deleting(a)' /\ upKey'[v] = delKey'[a] => upKey'[v] \in overlapped'
    BY <1>0, <2>2
  <2>4. \A v \in Uploaders : pc'[v] = "dirsync" /\ upKey'[v] \notin overlapped' => v \notin removedUnder'
    BY <1>0
  <2> QED BY <2>1, <2>3, <2>4, <1>0
<1> QED BY <1>5, <1>6, <1>7, <1>8

\* Hash already known: only the place of the upload moves.
LEMMA InsertConflictIInv ==
  ASSUME IInv, Blobs!TypeOK, NEW u \in Uploaders, InsertConflict(u) \/ LookupFound(u)
  PROVE  IInv'
<1>0. UNCHANGED <<pc, key, removedUnder, acked, shaky, orphaned>> /\ pc[u] = "idle"
  BY DEF InsertConflict, LookupFound
<1>1. TypeOK'
  <2>1. up' \in [Uploaders -> {"idle", "put", "insert", "lookup", "enqueue"}]
    BY DEF InsertConflict, LookupFound
  <2>2. UNCHANGED <<rows, upKey, adm, delKey, queueVars, rend, src, kind, boot, overlapped>>
    BY DEF InsertConflict, LookupFound
  <2> QED BY <2>1, <2>2
<1>2. CallsMatch'
  BY <1>0 DEF InsertConflict, LookupFound
<1>3. Promised'
  BY <1>0 DEF InsertConflict, LookupFound
<1>4. Apart'
  <2>1. /\ \A v \in Uploaders : Uploading(v)' => Uploading(v)
        /\ UNCHANGED <<upKey, adm, delKey, rows, overlapped>>
    BY DEF InsertConflict, LookupFound
  <2>2. \A h \in Hashes : OriginalOf(h)' = OriginalOf(h)
    BY <2>1
  <2> HIDE DEF Uploading
  <2> QED BY <1>0, <2>1, <2>2
<1> QED BY <1>1, <1>2, <1>3, <1>4

\* The row has gone: the upload ends.
LEMMA LookupGoneIInv ==
  ASSUME IInv, Blobs!TypeOK, NEW u \in Uploaders, LookupGone(u)
  PROVE  IInv'
<1>0. UNCHANGED <<pc, key, removedUnder, acked, shaky, orphaned>> /\ pc[u] = "idle"
  BY DEF LookupGone, UploadIdle
<1>1. TypeOK'
  BY DEF LookupGone, UploadIdle
<1>2. CallsMatch'
  BY <1>0 DEF LookupGone, UploadIdle
<1>3. Promised'
  BY <1>0 DEF LookupGone, UploadIdle
<1>4. Apart'
  BY <1>0 DEF LookupGone, UploadIdle
<1> QED BY <1>1, <1>2, <1>3, <1>4

\* The database refuses: the upload ends.
LEMMA DbErrorIInv ==
  ASSUME IInv, Blobs!TypeOK, NEW u \in Uploaders, DbError(u)
  PROVE  IInv'
<1>0. UNCHANGED <<pc, key, removedUnder, acked, shaky, orphaned>> /\ pc[u] = "idle"
  BY DEF DbError, UploadIdle
<1>1. TypeOK'
  BY DEF DbError, UploadIdle
<1>2. CallsMatch'
  BY <1>0 DEF DbError, UploadIdle
<1>3. Promised'
  BY <1>0 DEF DbError, UploadIdle
<1>4. Apart'
  BY <1>0 DEF DbError, UploadIdle
<1> QED BY <1>1, <1>2, <1>3, <1>4

\* What Enqueue leaves.
LEMMA EnqueueTypes ==
  ASSUME TypeOK, NEW k \in Contents, Enqueue(k)
  PROVE  queue' \in Seq(Contents) /\ dropped' \subseteq Hashes
<1>1. Append(queue, k) \in Seq(Contents)
  OBVIOUS
<1>2. queue' = queue \/ queue' = Append(queue, k)
  BY DEF Enqueue
<1>3. dropped' \subseteq dropped \cup {k[1]}
  BY DEF Enqueue
<1> QED BY <1>1, <1>2, <1>3

\* The answer: the upload ends and may leave a job.
LEMMA AckIInv ==
  ASSUME IInv, Blobs!TypeOK, NEW u \in Uploaders, EnqueueAndAck(u)
  PROVE  IInv'
<1>0. UNCHANGED <<pc, key, removedUnder, acked, shaky, orphaned>> /\ pc[u] = "idle"
  BY DEF EnqueueAndAck
<1>1. TypeOK'
  <2>1. queue' \in Seq(Contents) /\ dropped' \subseteq Hashes
    BY EnqueueTypes DEF EnqueueAndAck
  <2>2. /\ up' = [up EXCEPT ![u] = "idle"] /\ upKey' = [upKey EXCEPT ![u] = NoKey]
        /\ UNCHANGED <<rows, adm, delKey, rend, src, kind, boot, overlapped>>
    BY DEF EnqueueAndAck, UploadIdle
  <2> QED BY <2>1, <2>2
<1>2. CallsMatch'
  BY <1>0 DEF EnqueueAndAck, UploadIdle
<1>3. Promised'
  BY <1>0 DEF EnqueueAndAck, UploadIdle
<1>4. Apart'
  BY <1>0 DEF EnqueueAndAck, UploadIdle
<1> QED BY <1>1, <1>2, <1>3, <1>4

------------------------------------------------------------------------------
(* The steps of the store.  What a call has reported stays reported.       *)
\* A step inside one call: no key is let go, nothing is removed.
LEMMA InsideIInv ==
  ASSUME Both, NEW p \in Procs,
         Blobs!Copy(p) \/ Blobs!Sync(p) \/ Blobs!StatAbsent(p)
         \/ Blobs!Mkdir(p) \/ Blobs!Rename(p) \/ Blobs!Fail(p),
         UNCHANGED <<rows, upVars, admVars, queueVars, rendVars, boot, overlapped>>
  PROVE  IInv'
<1> USE DEF Both, Blobs!IInv, Blobs!Placed
<1>1. UNCHANGED <<key, acked, shaky, orphaned>> /\ pc[p] # "idle" /\ removedUnder' \subseteq removedUnder
  BY DEF Blobs!Copy, Blobs!Sync, Blobs!StatAbsent, Blobs!Mkdir, Blobs!Rename, Blobs!Fail
<1>2. pc' = [pc EXCEPT ![p] = pc'[p]] /\ pc'[p] \notin {"idle", "ok"}
  BY DEF Blobs!Copy, Blobs!Sync, Blobs!StatAbsent, Blobs!Mkdir, Blobs!Rename, Blobs!Fail
<1>3. p \in removedUnder' => pc'[p] # "dirsync"
  BY DEF Blobs!Copy, Blobs!Sync, Blobs!StatAbsent, Blobs!Mkdir, Blobs!Rename, Blobs!Fail
<1>4. TypeOK'
  OBVIOUS
<1>5. CallsMatch'
  BY <1>1, <1>2
<1>6. Promised'
  BY <1>1, <1>2
<1>7. Apart'
  BY <1>1, <1>2, <1>3
<1> QED BY <1>4, <1>5, <1>6, <1>7

\* The steps that report success.
LEMMA SuccessIInv ==
  ASSUME Both, NEW p \in Procs, Blobs!StatPresent(p) \/ Blobs!FsyncDir(p),
         UNCHANGED <<rows, upVars, admVars, queueVars, rendVars, boot, overlapped>>
  PROVE  IInv'
<1> USE DEF Both, Blobs!IInv, Blobs!Placed
<1>1. /\ UNCHANGED key /\ pc[p] # "idle" /\ removedUnder' \subseteq removedUnder
      /\ pc' = [pc EXCEPT ![p] = "ok"]
  BY DEF Blobs!StatPresent, Blobs!FsyncDir
<1>2. acked \cup shaky \cup orphaned \subseteq (acked \cup shaky \cup orphaned)'
  BY DEF Blobs!StatPresent, Blobs!FsyncDir, Blobs!Ack
<1>3. key[p] \in (acked \cup shaky \cup orphaned)' \/ (pc[p] = "dirsync" /\ p \in removedUnder)
  BY DEF Blobs!StatPresent, Blobs!FsyncDir, Blobs!Ack
<1>4. TypeOK'
  OBVIOUS
<1>5. CallsMatch'
  BY <1>1
<1>6. Promised'
  BY <1>1, <1>2, <1>3
<1>7. Apart'
  BY <1>1
<1> QED BY <1>4, <1>5, <1>6, <1>7

\* Hence for any step of the store on behalf of a goroutine.
LEMMA BlobStepIInv ==
  ASSUME Both, NEW p \in Procs, BlobStep(p)
  PROVE  IInv'
BY InsideIInv, SuccessIInv DEF BlobStep

------------------------------------------------------------------------------
(* The operator's delete.                                                  *)
LEMMA DeleteStartIInv ==
  ASSUME IInv, Blobs!TypeOK, NEW a \in Admins, NEW h \in Hashes, DeleteStart(a, h)
  PROVE  IInv'
<1>0. UNCHANGED <<pc, key, removedUnder, acked, shaky, orphaned, rows, up, upKey>>
  BY DEF DeleteStart
<1>1. PICK k \in Contents : k = OriginalOf(h)
  BY DEF DeleteStart
<1>2. /\ adm' = [adm EXCEPT ![a] = "selected"]
      /\ delKey' = [delKey EXCEPT ![a] = k]
      /\ overlapped \subseteq overlapped' /\ overlapped' \subseteq Contents
      /\ UploadUnderWay(k) => k \in overlapped'
  BY <1>1 DEF DeleteStart
<1>3. TypeOK'
  BY <1>0, <1>2 DEF DeleteStart
<1>4. CallsMatch'
  BY <1>0, <1>2 DEF DeleteStart
<1>5. Promised'
  BY <1>0, <1>2
<1>6. Apart'
  BY <1>0, <1>2 DEF UploadUnderWay
<1> QED BY <1>3, <1>4, <1>5, <1>6

\* The row goes before its original does.
LEMMA DeleteRowIInv ==
  ASSUME IInv, Blobs!TypeOK, NEW a \in Admins, DeleteRow(a)
  PROVE  IInv'
<1>0. UNCHANGED <<pc, key, removedUnder, acked, shaky, orphaned, up, upKey, delKey, overlapped>>
  BY DEF DeleteRow
<1>1. PICK k \in Contents : delKey[a] = k
  BY DEF DeleteRow
<1>2. /\ k[1] \in Hashes /\ adm[a] = "selected"
      /\ rows' = [rows EXCEPT ![k[1]] = NoType]
      /\ adm' = [adm EXCEPT ![a] = "original"]
  BY <1>1 DEF DeleteRow
<1>3. TypeOK'
  BY <1>0, <1>2 DEF DeleteRow
<1>4. /\ rows'[k[1]] = NoType
      /\ \A h \in Hashes \ {k[1]} : OriginalOf(h)' = OriginalOf(h) /\ rows'[h] = rows[h]
  BY <1>2
<1>5. CallsMatch'
  BY <1>0, <1>2, <1>4 DEF DeleteRow
<1>6. Promised'
  BY <1>0, <1>4
<1>7. Apart'
  <2>1. ASSUME NEW b \in Admins, adm'[b] = "original", delKey[b] \notin overlapped
        PROVE  OriginalOf(delKey[b][1])' # delKey[b]
    <3>1. delKey[b] \in Contents
      BY <1>1, <1>2, <2>1
    <3>2. CASE delKey[b][1] = k[1]
      <4>1. rows'[delKey[b][1]] # delKey[b][2]
        BY <1>4, <3>1, <3>2
      <4> QED BY <1>0, <3>1, <4>1
    <3>3. CASE delKey[b][1] # k[1]
      <4>1. OriginalOf(delKey[b][1]) # delKey[b]
        BY <1>1, <1>2, <2>1, <3>3
      <4> QED BY <1>0, <1>4, <3>1, <3>3, <4>1
    <3> QED BY <3>2, <3>3
  <2> QED BY <2>1, <1>0, <1>1, <1>2
<1> QED BY <1>3, <1>5, <1>6, <1>7

\* A delete that fails lets its original go.
LEMMA DeleteFailsIInv ==
  ASSUME IInv, Blobs!TypeOK, NEW a \in Admins, DeleteFails(a)
  PROVE  IInv'
<1>0. UNCHANGED <<pc, key, removedUnder, acked, shaky, orphaned, rows, up, upKey, overlapped>>
  BY DEF DeleteFails
<1>1. TypeOK' /\ CallsMatch'
  BY <1>0 DEF DeleteFails
<1>2. Promised'
  BY <1>0
<1>3. Apart'
  BY <1>0 DEF DeleteFails
<1> QED BY <1>1, <1>2, <1>3

\* Only the removal of an original matters: no row and no upload relies on
\* it unless the two have met.
LEMMA RemoveBlobIInv ==
  ASSUME IInv, Blobs!TypeOK, NEW a \in Admins, RemoveBlob(a)
  PROVE  IInv'
<1>0. UNCHANGED <<pc, key, rows, up, upKey>> /\ UNCHANGED <<queueVars, rend, src, kind, boot, overlapped>>
  BY DEF RemoveBlob, Blobs!Remove
<1>1. PICK k \in Contents : delKey[a] = k
  BY DEF RemoveBlob, AfterRemoving
<1>2. CASE adm[a] = "original"
  <2>1. adm' = [adm EXCEPT ![a] = "thumb"] /\ delKey' = delKey
    BY <1>2 DEF RemoveBlob, AfterRemoving
  <2>2. /\ (acked \cup shaky \cup orphaned) \ {k} \subseteq (acked \cup shaky \cup orphaned)'
        /\ \A p \in removedUnder' \ removedUnder : pc[p] = "dirsync" /\ key[p] = k
    BY <1>1, <1>2 DEF RemoveBlob, Removing, Blobs!Remove
  <2>3. TypeOK'
    BY <1>0, <2>1
  <2>6. CallsMatch'
    BY <1>0, <1>1, <2>1
  <2>4. Promised'
    <3>1. ASSUME NEW h \in Hashes, rows[h] # NoType
          PROVE  OriginalOf(h) \in (overlapped \cup acked \cup shaky \cup orphaned)'
      <4>1. CASE OriginalOf(h) # k
        BY <1>0, <2>2, <3>1, <4>1
      <4>2. CASE OriginalOf(h) = k
        <5>1. OriginalOf(k[1]) = k
          BY <3>1, <4>2
        <5>2. k \in overlapped
          BY <1>1, <1>2, <5>1
        <5>3. k \in overlapped'
          BY <1>0, <5>2
        <5> QED BY <4>2, <5>3
      <4> QED BY <4>1, <4>2
    <3>2. ASSUME NEW u \in Uploaders, up[u] = "insert" \/ pc[u] = "ok"
          PROVE  upKey[u] \in (overlapped \cup acked \cup shaky \cup orphaned)'
      <4>1. up[u] \in {"put", "insert"}
        BY <3>2
      <4> QED BY <1>0, <1>1, <1>2, <2>2, <3>2, <4>1
    <3> QED BY <1>0, <3>1, <3>2
  <2>5. Apart'
    <3>1. ~Deleting(a)' /\ \A b \in Admins \ {a} : adm'[b] = adm[b]
      BY <2>1
    <3>2. \A u \in Uploaders, b \in Admins :
            Uploading(u)' /\ Deleting(b)' /\ upKey'[u] = delKey'[b] => upKey'[u] \in overlapped'
      BY <1>0, <2>1, <3>1
    <3>3. \A b \in Admins : adm'[b] = "original" /\ delKey'[b] \notin overlapped'
                          => OriginalOf(delKey[b][1])' # delKey'[b]
      BY <1>0, <2>1, <3>1
    <3>4. ASSUME NEW u \in Uploaders, pc'[u] = "dirsync", upKey'[u] \notin overlapped'
          PROVE  u \notin removedUnder'
      <4>1. u \notin removedUnder /\ up[u] = "put" /\ key[u] = upKey[u] /\ pc[u] = "dirsync"
        BY <1>0, <3>4
      <4>2. k \notin overlapped => upKey[u] # k
        BY <1>1, <1>2, <4>1
      <4>3. upKey[u] \notin overlapped
        BY <1>0, <3>4
      <4> HIDE DEF IInv, Blobs!TypeOK
      <4> QED BY <2>2, <4>1, <4>2, <4>3
    <3> HIDE DEF OriginalOf, Uploading, Deleting, TypeOK, CallsMatch, Promised, Blobs!TypeOK
    <3> QED BY <3>2, <3>3, <3>4
  <2> HIDE DEF TypeOK, CallsMatch, Promised, Apart, Blobs!TypeOK
  <2> QED BY <2>3, <2>4, <2>5, <2>6
<1>3. CASE adm[a] # "original"
  <2>1. \/ adm' = [adm EXCEPT ![a] = "gallery"] /\ delKey' = delKey
        \/ adm' = [adm EXCEPT ![a] = "idle"] /\ delKey' = [delKey EXCEPT ![a] = NoKey]
    <3>1. CASE adm[a] = "thumb"
      BY <3>1 DEF RemoveBlob, AfterRemoving
    <3>2. CASE adm[a] = "gallery"
      BY <3>2 DEF RemoveBlob, AfterRemoving
    <3>3. adm[a] \in {"original", "thumb", "gallery"}
      BY DEF RemoveBlob, AfterRemoving
    <3> QED BY <1>3, <3>1, <3>2, <3>3
  <2>2. /\ \A c \in acked \cup shaky \cup orphaned : c \in Contents => c \in (acked \cup shaky \cup orphaned)'
        /\ \A p \in removedUnder' \ removedUnder : key[p] \in Renditions /\ pc[p] = "dirsync"
    <3>1. Removing(a) \in Renditions
      BY <1>1, <1>3 DEF RemoveBlob, Removing, AfterRemoving
    <3> QED BY <3>1 DEF RemoveBlob, Blobs!Remove
  <2>3. TypeOK'
    <3>1. /\ adm' \in [Admins -> {"idle", "selected", "original", "thumb", "gallery"}]
          /\ delKey' \in [Admins -> Contents \cup {NoKey}]
      <4>1. /\ adm \in [Admins -> {"idle", "selected", "original", "thumb", "gallery"}]
            /\ delKey \in [Admins -> Contents \cup {NoKey}]
        OBVIOUS
      <4> HIDE DEF IInv, Blobs!TypeOK
      <4> QED BY <2>1, <4>1
    <3>2. /\ rows \in [Hashes -> Types \cup {NoType}] /\ queue \in Seq(Contents) /\ dropped \subseteq Hashes
          /\ rend \in [Renderers -> {"idle", "check", "vips", "file", "put", "release"}]
      OBVIOUS
    <3> QED BY <1>0, <3>1, <3>2
  <2>4. CallsMatch'
    BY <1>0, <1>1, <2>1
  <2>5. Promised'
    BY <1>0, <2>2
  <2>6. Apart'
    <3>1. ASSUME NEW u \in Uploaders, pc[u] = "dirsync", upKey[u] \notin overlapped
          PROVE  u \notin removedUnder'
      BY <2>2, <3>1
    <3>2. \A b \in Admins : Deleting(b)' => Deleting(b) /\ delKey'[b] = delKey[b] /\ adm'[b] = adm[b]
      <4>1. ~Deleting(a)' /\ \A b \in Admins \ {a} : delKey'[b] = delKey[b] /\ adm'[b] = adm[b]
        BY <2>1
      <4> QED BY <4>1
    <3>3. \A h \in Hashes : OriginalOf(h)' = OriginalOf(h)
      BY <1>0
    <3>4. \A u \in Uploaders, b \in Admins :
            Uploading(u)' /\ Deleting(b)' /\ upKey'[u] = delKey'[b] => upKey'[u] \in overlapped'
      BY <1>0, <3>2
    <3>5. \A b \in Admins : adm'[b] = "original" /\ delKey'[b] \notin overlapped'
                          => OriginalOf(delKey[b][1])' # delKey'[b]
      <4>1. ASSUME NEW b \in Admins, adm'[b] = "original" PROVE Deleting(b)'
        BY <4>1
      <4>2. ASSUME NEW b \in Admins, adm'[b] = "original", delKey'[b] \notin overlapped'
            PROVE  OriginalOf(delKey[b][1])' # delKey'[b]
        <5>1. delKey[b] \in Contents /\ delKey'[b] = delKey[b] /\ adm[b] = "original"
          BY <1>1, <3>2, <4>1, <4>2
        <5>2. OriginalOf(delKey[b][1]) # delKey[b]
          BY <1>0, <4>2, <5>1
        <5> QED BY <3>3, <5>1, <5>2
      <4> QED BY <4>2
    <3>6. \A u \in Uploaders : pc'[u] = "dirsync" /\ upKey'[u] \notin overlapped' => u \notin removedUnder'
      BY <1>0, <3>1
    <3> HIDE DEF OriginalOf, Uploading, Deleting, TypeOK, CallsMatch, Promised, Blobs!TypeOK
    <3> QED BY <3>4, <3>5, <3>6
  <2> HIDE DEF TypeOK, CallsMatch, Promised, Apart, Blobs!TypeOK
  <2> QED BY <2>3, <2>4, <2>5, <2>6
<1> QED BY <1>2, <1>3

------------------------------------------------------------------------------
(* Renderers touch no original.                                            *)

\* What a renderer works on stays a photo.
Rendering ==
  /\ rend \in [Renderers -> {"idle", "check", "vips", "file", "put", "release"}]
  /\ src \in [Renderers -> Contents \cup {NoKey}]
  /\ kind \in [Renderers -> {"thumb", "gallery"}]
  /\ \A p \in Renderers : rend[p] # "idle" => src[p] \in Contents

\* However a rendering ends, the next thing is about the same photo or none.
LEMMA AfterRenderKeeps ==
  ASSUME Rendering, NEW p \in Renderers, rend[p] # "idle", AfterRender(p)
  PROVE  Rendering'
<1>1. CASE RenderIdle(p)
  BY <1>1 DEF Rendering, RenderIdle
<1>2. CASE /\ rend' = [rend EXCEPT ![p] = "check"]
           /\ kind' = [kind EXCEPT ![p] = "gallery"]
           /\ UNCHANGED src
  BY <1>2 DEF Rendering
<1>3. CASE rend' = [rend EXCEPT ![p] = "release"] /\ UNCHANGED <<src, kind>>
  BY <1>3 DEF Rendering
<1> QED BY <1>1, <1>2, <1>3 DEF AfterRender

\* A step that only moves a renderer, takes a job or looks at files.
LEMMA RendererIInv ==
  ASSUME IInv, Blobs!TypeOK, NEW p \in Renderers,
         \/ Take(p) \/ Check(p) \/ CheckEnds(p) \/ Vips(p) \/ VipsFails(p) \/ Release(p)
         \/ \E h \in Hashes, kd \in {"thumb", "gallery"} : Regenerate(p, h, kd)
  PROVE  IInv'
<1>0. /\ UNCHANGED <<pc, key, removedUnder, acked, shaky, orphaned, rows>>
      /\ UNCHANGED <<dropped, up, upKey, adm, delKey, boot, overlapped>>
  BY DEF Take, Check, CheckEnds, Vips, VipsFails, Release, Regenerate
<1>1. CASE Take(p)
  <2>1. Head(queue) \in Contents /\ Tail(queue) \in Seq(Contents)
    BY <1>1 DEF Take
  <2> QED BY <1>0, <1>1, <2>1 DEF Take
<1>2. ASSUME NEW h \in Hashes, NEW kd \in {"thumb", "gallery"}, Regenerate(p, h, kd) PROVE IInv'
  <2>1. OriginalOf(h) \in Contents
    BY <1>2 DEF Regenerate
  <2> QED BY <1>0, <1>2, <2>1 DEF Regenerate
<1>3. CASE Check(p)
  BY <1>0, <1>3 DEF Check
<1>7. CASE CheckEnds(p)
  <2>1. Rendering' /\ queue' = queue
    BY <1>7, AfterRenderKeeps DEF CheckEnds, Rendering
  <2> QED BY <1>0, <2>1 DEF Rendering
<1>4. CASE Vips(p)
  BY <1>0, <1>4 DEF Vips
<1>5. CASE VipsFails(p)
  <2>1. Rendering' /\ queue' = queue
    BY <1>5, AfterRenderKeeps DEF VipsFails, Rendering
  <2> QED BY <1>0, <2>1 DEF Rendering
<1>6. CASE Release(p)
  BY <1>0, <1>6 DEF Release, RenderIdle
<1> QED BY <1>1, <1>2, <1>3, <1>4, <1>5, <1>6, <1>7

\* A renderer writes renditions only, so no original hears of it.
LEMMA FileIInv ==
  ASSUME IInv, Blobs!TypeOK, NEW p \in Renderers, File(p) \/ Filed(p)
  PROVE  IInv'
<1>0. /\ UNCHANGED <<removedUnder, rows, up, upKey>>
      /\ UNCHANGED <<queueVars, adm, delKey, boot, overlapped>>
  BY DEF File, Filed, Blobs!Put, Blobs!PutPresent, Blobs!PutAbsent, Blobs!Return
<1>1. /\ \A c \in acked \cup shaky \cup orphaned : c \in (acked \cup shaky \cup orphaned)'
      /\ \A r \in Procs \ {p} : pc'[r] = pc[r] /\ key'[r] = key[r]
      /\ pc'[p] # "idle" => key'[p] \in Renditions
  <2>1. CASE File(p)
    <3>1. Making(p) \in Renditions
      BY <2>1 DEF File, Making
    <3> QED
      BY <2>1, <3>1 DEF File, Blobs!Put, Blobs!PutPresent, Blobs!PutAbsent, Blobs!Ack
  <2>2. CASE Filed(p)
    BY <2>2 DEF Filed, Blobs!Return
  <2> QED BY <2>1, <2>2
<1>2. Rendering'
  <2>1. CASE File(p)
    BY <2>1 DEF File, Rendering
  <2>2. CASE Filed(p)
    BY <2>2, AfterRenderKeeps DEF Filed, Rendering
  <2> QED BY <2>1, <2>2
<1>3. TypeOK'
  BY <1>0, <1>2 DEF Rendering
<1>4. CallsMatch'
  <2>1. \A u \in Uploaders : pc'[u] = pc[u] /\ key'[u] = key[u]
    BY <1>1
  <2>2. \A r \in Renderers : pc'[r] # "idle" => key'[r] \in Renditions
    BY <1>1
  <2>3. \A h \in Hashes : OriginalOf(h)' = OriginalOf(h) /\ rows'[h] = rows[h]
    BY <1>0
  <2> QED BY <1>0, <1>2, <2>1, <2>2, <2>3 DEF Rendering
<1>5. Promised'
  BY <1>0, <1>1
<1>6. Apart'
  BY <1>0, <1>1
<1> QED BY <1>3, <1>4, <1>5, <1>6

------------------------------------------------------------------------------
(* Restarts.                                                               *)

\* Everybody is idle; the rows are what they were, and what had been reported
\* is reported still or orphaned.
LEMMA RestartIInv ==
  ASSUME IInv, Blobs!TypeOK, Crash \/ PowerLoss
  PROVE  IInv'
<1>1. /\ pc' = [p \in Procs |-> "idle"] /\ removedUnder' = {}
      /\ UNCHANGED <<rows, overlapped>>
      /\ acked \cup shaky \cup orphaned \subseteq (acked \cup shaky \cup orphaned)'
  BY DEF Crash, PowerLoss, Restart, Blobs!Crash, Blobs!PowerLoss, Blobs!Halt
<1>2. /\ up' = [u \in Uploaders |-> "idle"] /\ upKey' = [u \in Uploaders |-> NoKey]
      /\ adm' = [a \in Admins |-> "idle"] /\ delKey' = [a \in Admins |-> NoKey]
      /\ queue' = <<>> /\ dropped' = {}
      /\ rend' = [p \in Renderers |-> "idle"] /\ src' = [p \in Renderers |-> NoKey]
      /\ kind' = [p \in Renderers |-> "thumb"]
      /\ boot' \subseteq Photos
  BY DEF Crash, PowerLoss, Restart
<1>3. TypeOK'
  <2>1. Photos \subseteq Contents
    BY DEF Photos
  <2>2. <<>> \in Seq(Contents)
    OBVIOUS
  <2> QED BY <1>1, <1>2, <2>1, <2>2
<1>4. CallsMatch'
  BY <1>1, <1>2
<1>5. Promised'
  BY <1>1, <1>2
<1>6. Apart'
  BY <1>1, <1>2
<1> QED BY <1>3, <1>4, <1>5, <1>6

\* The backfill moves boot and the queue only, the kernel only the medium.
LEMMA BackfillIInv ==
  ASSUME IInv, Blobs!TypeOK, NEW k \in Contents, Backfill(k)
  PROVE  IInv'
<1>1. /\ UNCHANGED <<pc, key, removedUnder, acked, shaky, orphaned, rows>>
      /\ UNCHANGED <<up, upKey, adm, delKey, rend, src, kind, overlapped>>
  BY DEF Backfill
<1>2. queue' \in Seq(Contents) /\ dropped' \subseteq Hashes /\ boot' \subseteq Contents
  <2>1. boot' = boot \ {k} /\ (Enqueue(k) \/ UNCHANGED queueVars)
    BY DEF Backfill
  <2> QED BY <2>1, EnqueueTypes
<1>3. TypeOK' /\ CallsMatch'
  BY <1>1, <1>2
<1>4. Promised' /\ Apart'
  BY <1>1
<1> QED BY <1>3, <1>4

\* The kernel's own writing changes the medium and nothing here.
LEMMA WritebackIInv ==
  ASSUME IInv, Blobs!TypeOK, Writeback
  PROVE  IInv'
<1>1. /\ UNCHANGED <<pc, key, removedUnder, acked, shaky, orphaned, rows, overlapped>>
      /\ UNCHANGED <<up, upKey, adm, delKey, rend, src, kind, queueVars, boot>>
  BY DEF Writeback, Blobs!Writeback, Blobs!WritebackDir
<1> QED BY <1>1

------------------------------------------------------------------------------
(* Putting the steps together.                                             *)

\* Whatever the pipeline does, the store sees one of its own steps or none,
\* and a power cut only when there is one.
LEMMA StepIsStore ==
  ASSUME Both, [Next]_vars
  PROVE  [Blobs!Powered]_(Blobs!vars) \/ PowerLoss
<1>1. ASSUME NEW u \in Uploaders, NEW k \in Contents, Upload(u, k) PROVE Blobs!Powered
  BY <1>1 DEF Upload, Blobs!Powered
<1>2. ASSUME NEW u \in Uploaders, PutFailed(u) \/ PutDone(u) PROVE Blobs!Powered
  BY <1>2 DEF PutFailed, PutDone, Blobs!Powered, Blobs!ProcStep
<1>3. ASSUME NEW u \in Uploaders, InsertPhoto(u) \/ EnqueueAndAck(u) \/ DbError(u)
      PROVE  UNCHANGED Blobs!vars
  BY <1>3 DEF InsertPhoto, InsertNew, InsertConflict, LookupFound, LookupGone,
              EnqueueAndAck, DbError, Blobs!vars
<1>4. ASSUME NEW p \in Procs, BlobStep(p) PROVE Blobs!Powered
  BY <1>4 DEF BlobStep, Blobs!Powered, Blobs!ProcStep
<1>5. ASSUME NEW a \in Admins, RemoveBlob(a) PROVE Blobs!Powered \/ UNCHANGED Blobs!vars
  <2>1. delKey[a] \in Contents /\ adm[a] \in {"original", "thumb", "gallery"}
    BY <1>5 DEF Both, RemoveBlob, AfterRemoving
  <2>2. Removing(a) \in Contents \cup Renditions
    BY <2>1 DEF Removing
  <2> QED BY <1>5, <2>2 DEF RemoveBlob, Blobs!Powered, Blobs!vars
<1>6. ASSUME NEW a \in Admins, NEW h \in Hashes,
             DeleteRow(a) \/ DeleteFails(a) \/ DeleteStart(a, h)
      PROVE  UNCHANGED Blobs!vars
  BY <1>6 DEF DeleteRow, DeleteFails, DeleteStart, Blobs!vars
<1>7. ASSUME NEW p \in Renderers, File(p) \/ Filed(p) PROVE Blobs!Powered
  <2>1. rend[p] # "idle" => Making(p) \in Renditions
    BY DEF Both, Making
  <2> QED BY <1>7, <2>1 DEF File, Filed, Blobs!Powered, Blobs!ProcStep
<1>8. ASSUME NEW p \in Renderers,
             \/ Take(p) \/ Check(p) \/ CheckEnds(p) \/ Vips(p) \/ VipsFails(p) \/ Release(p)
             \/ \E h \in Hashes, kd \in {"thumb", "gallery"} : Regenerate(p, h, kd)
      PROVE  UNCHANGED Blobs!vars
  BY <1>8 DEF Take, Check, CheckEnds, Vips, VipsFails, Release, Regenerate, Blobs!vars
<1>9. ASSUME NEW k \in Contents, Backfill(k) PROVE UNCHANGED Blobs!vars
  BY <1>9 DEF Backfill, Blobs!vars
<1>10. ASSUME Writeback \/ Crash PROVE Blobs!Powered
  BY <1>10 DEF Writeback, Keys, Crash, Blobs!Powered
<1>11. ASSUME UNCHANGED vars PROVE UNCHANGED Blobs!vars
  BY <1>11 DEF vars, Blobs!vars
<1>12. ASSUME NEW u \in Uploaders, Answer(u) PROVE Blobs!Powered \/ UNCHANGED Blobs!vars
  BY <1>2, <1>3, <1>12 DEF Answer
<1>13. ASSUME NEW p \in Renderers, Render(p) PROVE Blobs!Powered \/ UNCHANGED Blobs!vars
  BY <1>7, <1>8, <1>13 DEF Render
<1>14. ASSUME NEW v \in Viewers, NEW h \in Hashes, NEW kd \in {"thumb", "gallery"}, Regenerate(v, h, kd)
       PROVE  UNCHANGED Blobs!vars
  BY <1>14 DEF Regenerate, Blobs!vars
<1>15. ASSUME NEW a \in Admins, DeleteRow(a) \/ DeleteFails(a) PROVE UNCHANGED Blobs!vars
  BY <1>15 DEF DeleteRow, DeleteFails, Blobs!vars
<1>16. CASE Next
  BY <1>1, <1>3, <1>4, <1>5, <1>6, <1>9, <1>10, <1>12, <1>13, <1>14, <1>15, <1>16
  DEF Next, Delete, ViewThumb, ViewPhoto
<1> QED BY <1>11, <1>16

\* So what the store sees is a behaviour of its own.
LEMMA StepIsStoreNext ==
  ASSUME Both, [Next]_vars
  PROVE  [Blobs!Next]_(Blobs!vars)
BY StepIsStore DEF Blobs!Next, PowerLoss

\* The invariants survive every step.
LEMMA NextBoth == Both /\ [Next]_vars => Both'
<1> SUFFICES ASSUME Both, [Next]_vars PROVE Both'
  OBVIOUS
<1>1. Blobs!IInv'
  BY StepIsStoreNext, BlobsStep DEF Both
<1>2. IInv /\ Blobs!TypeOK
  BY DEF Both, Blobs!IInv
<1>3. ASSUME NEW u \in Uploaders, Answer(u) \/ DbError(u) PROVE IInv'
  BY <1>2, <1>3, PutFailedIInv, PutDoneIInv, InsertNewIInv, InsertConflictIInv,
     LookupGoneIInv, AckIInv, DbErrorIInv
  DEF Answer, InsertPhoto
<1>4. ASSUME NEW a \in Admins, Delete(a) \/ DeleteFails(a) PROVE IInv'
  BY <1>2, <1>4, DeleteRowIInv, RemoveBlobIInv, DeleteFailsIInv DEF Delete
<1>5. ASSUME NEW p \in Renderers, Render(p) PROVE IInv'
  BY <1>2, <1>5, RendererIInv, FileIInv DEF Render
<1>6. ASSUME NEW v \in Viewers, NEW h \in Hashes, NEW kd \in {"thumb", "gallery"}, Regenerate(v, h, kd)
      PROVE  IInv'
  BY <1>2, <1>6, RendererIInv
<1>7. ASSUME Writeback PROVE IInv'
  BY <1>2, <1>7, WritebackIInv
<1>8. ASSUME UNCHANGED vars PROVE IInv'
  BY <1>2, <1>8 DEF vars
<1>9. IInv'
  BY <1>2, <1>3, <1>4, <1>5, <1>6, <1>7, <1>8, UploadIInv, BlobStepIInv,
     DeleteStartIInv, RestartIInv, BackfillIInv
  DEF Next, ViewThumb, ViewPhoto
<1> QED BY <1>1, <1>9 DEF Both

(* Every reachable state has the pipeline's invariant and the store's: a   *)
(* row or an upload past the store relies on an original the store answers *)
(* for (acked), or that is one of three named exceptions: a delete met an  *)
(* upload of it, its name had been fsynced by nobody, or a power cut took  *)
(* it together with a directory that was not on the medium.                *)
THEOREM PipelineInductive == Spec => []Both
<1>1. Init => Both
  BY InitBoth
<1>2. Both /\ [Next]_vars => Both'
  BY NextBoth
<1> QED BY <1>1, <1>2, PTL DEF Spec

(* The pipeline calls the blob store as BlobStore allows: behind every     *)
(* behaviour of the pipeline there is one of the store, so what is proved  *)
(* about the store (NeverTorn, AckedKeepsIts, FirmSurvives) holds in it.   *)
THEOREM UsesTheStore == Spec => Blobs!Spec
<1>1. Init => Blobs!Init
  BY DEF Init
<1>2. Both /\ [Next]_vars => [Blobs!Next]_(Blobs!vars)
  BY StepIsStoreNext
<1> QED BY <1>1, <1>2, PipelineInductive, PTL DEF Spec, Blobs!Spec

\* The same of the store with its proofs.
LEMMA SpecIsStore == Spec => Store!Spec
<1>1. Blobs!Spec => Store!Spec
  BY StoreInit, StoreNext, StoreVars, PTL DEF Blobs!Spec, Store!Spec
<1> QED BY <1>1, UsesTheStore, PTL

(* OriginalKept: a photo with a row has its original, complete and on the  *)
(* medium in its directory, through crashes, power cuts, failing calls,    *)
(* deletes and any number of goroutines, outside the three exceptions      *)
(* named there.  The third is that no call fsyncs a directory that         *)
(* MkdirAll or New has made: no row of it is safe from a power cut until   *)
(* the kernel has written that directory back.                             *)
THEOREM OriginalsKept == Spec => []OriginalKept
<1>1. Both => OriginalKept
  <2> SUFFICES ASSUME Both, NEW h \in Hashes, rows[h] # NoType,
                      OriginalOf(h) \notin overlapped \cup shaky \cup orphaned
               PROVE  /\ page[OriginalOf(h)] = "synced"
                      /\ media[OriginalOf(h)] = "synced"
    BY DEF OriginalKept
  <2>1. OriginalOf(h) \in acked
    BY DEF Both
  <2> QED BY <2>1 DEF Both, Blobs!IInv, Blobs!AckedDurable
<1> QED BY <1>1, PipelineInductive, PTL

(* To the pipeline the blob store is a set of complete files: a file is    *)
(* filed, reported and removed at one instant each, for all its goroutines;*)
(* a power cut takes what has not settled and what stands in a directory   *)
(* that is not firm, reported or not, and nothing else (ImplementsShelf,   *)
(* carried over from the store).                                           *)
THEOREM StoreIsShelf == Spec => Store!ImplementsShelf
<1>1. Store!Spec => Store!ImplementsShelf
  BY StoreAssumes, Store!Implements
<1> QED BY <1>1, SpecIsStore, PTL

\* A row has its original, but for the two races between calls.
OriginalFound ==
  \A h \in Hashes :
    rows[h] # NoType /\ OriginalOf(h) \notin overlapped \cup shaky => page[OriginalOf(h)] = "synced"

(* On a file system whose journal commits a directory together with those  *)
(* above it, the third exception falls away: a photo with a row keeps its  *)
(* original through power cuts, unless a delete of it met an upload or it  *)
(* was reported over a name that nobody had fsynced.                       *)
THEOREM JournalKeepsOriginals == ASSUME SyncsPath PROVE Spec => []OriginalFound
<1>1. Store!Spec => []Store!AckSurvives
  BY StoreAssumes, Store!JournalSaves
<1>2. Both /\ Store!AckSurvives => OriginalFound
  BY DEF Both, Store!AckSurvives, OriginalFound
<1> QED BY <1>1, <1>2, SpecIsStore, PipelineInductive, PTL

\* A row whose original no delete met has it under its name.
OriginalShown ==
  \A h \in Hashes :
    rows[h] # NoType /\ OriginalOf(h) \notin overlapped => page[OriginalOf(h)] = "synced"

(* Of the exceptions of OriginalKept, those for the dedup return and for    *)
(* the directories need a power cut: where the power never fails, crashes,  *)
(* failing calls and any number of goroutines leave every row its original, *)
(* unless a delete of it met an upload of it.                               *)
THEOREM OriginalsShown == ASSUME "power" \notin Faults PROVE Spec => []OriginalShown
<1> DEFINE Shows == orphaned = {} /\ \A k \in shaky : page[k] = "synced"
<1>1. Init => Shows
  BY DEF Init, Blobs!Init
<1>2. Both /\ Shows /\ [Next]_vars => Shows'
  <2> SUFFICES ASSUME Both, Shows, [Next]_vars PROVE Shows'
    OBVIOUS
  <2>1. [Blobs!Powered]_(Blobs!vars)
    BY StepIsStore DEF PowerLoss
  <2>2. Store!IInv /\ Store!ShakyShown /\ [Store!Powered]_(Store!vars)
    BY <2>1, StoreNext, StoreVars, StoreIInv DEF Both, Store!ShakyShown
  <2>3. Store!ShakyShown'
    BY <2>2, StoreAssumes, Store!PoweredShows
  <2> QED BY <2>3 DEF Store!ShakyShown
<1>3. Both /\ Shows => OriginalShown
  <2> SUFFICES ASSUME Both, Shows, NEW h \in Hashes, rows[h] # NoType,
                      OriginalOf(h) \notin overlapped
               PROVE  page[OriginalOf(h)] = "synced"
    BY DEF OriginalShown
  <2>1. OriginalOf(h) \in acked \cup shaky \cup orphaned
    BY DEF Both
  <2> QED BY <2>1 DEF Both, Blobs!IInv, Blobs!AckedDurable
<1> HIDE DEF Shows
<1> QED BY <1>1, <1>2, <1>3, PipelineInductive, PTL DEF Spec

(* The promise of PRD N6 without any exception, where nobody deletes and   *)
(* the power does not fail: an upload is safe against all other uploads,   *)
(* renditions, failing calls and crashes, at any number of them.           *)
(* PipelineAckRace shows what a delete makes of it.                        *)
THEOREM DeletesAloneLose ==
  ASSUME "power" \notin Faults, Admins = {}
  PROVE  Spec => []AckedKept
<1> DEFINE NoneMet == overlapped = {}
<1>1. Init => NoneMet
  BY DEF Init
<1>2. NoneMet /\ [Next]_vars => NoneMet'
  <2> SUFFICES ASSUME NoneMet, [Next]_vars PROVE overlapped' = {}
    OBVIOUS
  <2>1. ASSUME NEW u \in Uploaders, NEW k \in Contents, Upload(u, k) PROVE overlapped' = {}
    BY <2>1 DEF Upload, DeleteUnderWay
  <2>2. ASSUME NEW u \in Uploaders, Answer(u) \/ DbError(u) PROVE overlapped' = {}
    BY <2>2 DEF Answer, PutFailed, PutDone, InsertPhoto, InsertNew, InsertConflict,
                LookupFound, LookupGone, EnqueueAndAck, DbError
  <2>3. ASSUME NEW p \in Procs, BlobStep(p) PROVE overlapped' = {}
    BY <2>3 DEF BlobStep
  <2>4. ASSUME NEW p \in Renderers, Render(p) PROVE overlapped' = {}
    BY <2>4 DEF Render, Take, Check, CheckEnds, Vips, VipsFails, File, Filed, Release
  <2>5. ASSUME NEW v \in Viewers, NEW h \in Hashes, ViewThumb(v, h) \/ ViewPhoto(v, h)
        PROVE  overlapped' = {}
    BY <2>5 DEF ViewThumb, ViewPhoto, Regenerate
  <2>6. ASSUME (\E k \in Contents : Backfill(k)) \/ Writeback PROVE overlapped' = {}
    BY <2>6 DEF Backfill, Writeback
  <2>7. ASSUME Crash \/ PowerLoss \/ UNCHANGED vars PROVE overlapped' = {}
    BY <2>7 DEF Crash, PowerLoss, Restart, vars
  <2> QED BY <2>1, <2>2, <2>3, <2>4, <2>5, <2>6, <2>7 DEF Next
<1>3. OriginalShown /\ NoneMet => AckedKept
  BY DEF OriginalShown, AckedKept, Blobs!Present
<1>4. Spec => []OriginalShown
  BY OriginalsShown
<1> HIDE DEF NoneMet
<1> QED BY <1>1, <1>2, <1>3, <1>4, PTL DEF Spec

------------------------------------------------------------------------------
(* No photo is forgotten.                                                  *)
HIDE DEF IInv, TypeOK, CallsMatch, Promised, Apart, Uploading, Deleting,
         OriginalOf, Blobs!TypeOK, Blobs!Keys, upVars, admVars, rendVars, blobVars

\* Nobody deletes, no call fails and the power stays on; crashes and handlers
\* that lose their patience remain.
Calm ==
  /\ Admins = {}
  /\ Faults \subseteq {"crash", "timeout"}

\* What happens in a calm instance.
LEMMA CalmSteps ==
  ASSUME Calm, HealInv, [Next]_vars
  PROVE  \/ \E u \in Uploaders : \/ \E k \in Contents : Upload(u, k)
                                 \/ PutDone(u) \/ InsertPhoto(u) \/ EnqueueAndAck(u)
         \/ \E p \in Procs : BlobStep(p)
         \/ \E p \in Renderers : Render(p)
         \/ \E v \in Viewers, h \in Hashes, d \in {"thumb", "gallery"} : Regenerate(v, h, d)
         \/ \E k \in Contents : Backfill(k)
         \/ Crash
         \/ UNCHANGED vars
<1>1. \A u \in Uploaders : ~PutFailed(u)
  BY RoleFacts DEF HealInv, PutsMatch, PutFailed
<1>2. \A u \in Uploaders : ~DbError(u)
  BY DEF Calm, DbError
<1>3. ~Writeback /\ ~PowerLoss
  BY DEF Calm, Writeback, PowerLoss
<1>4. Admins = {}
  BY DEF Calm
<1>5. ASSUME NEW v \in Viewers, NEW h \in Hashes, ViewThumb(v, h) \/ ViewPhoto(v, h)
      PROVE  \E d \in {"thumb", "gallery"} : Regenerate(v, h, d)
  BY <1>5 DEF ViewThumb, ViewPhoto
<1> QED BY <1>1, <1>2, <1>3, <1>4, <1>5 DEF Next, Answer

(* Who moves what.                                                         *)
LEMMA RowsMove ==
  ASSUME Calm, HealInv, [Next]_vars
  PROVE  rows' = rows \/ \E u \in Uploaders : InsertNew(u)
<1>1. ASSUME NEW u \in Uploaders, InsertPhoto(u) PROVE rows' = rows \/ InsertNew(u)
  BY <1>1 DEF InsertPhoto, InsertConflict, LookupFound, LookupGone
<1>2. ASSUME NEW u \in Uploaders, (\E k \in Contents : Upload(u, k)) \/ PutDone(u) \/ EnqueueAndAck(u)
      PROVE  rows' = rows
  BY <1>2 DEF Upload, PutDone, EnqueueAndAck
<1>3. ASSUME NEW p \in Procs, BlobStep(p) PROVE rows' = rows
  BY <1>3 DEF BlobStep
<1>4. ASSUME NEW p \in Renderers, Render(p) PROVE rows' = rows
  BY <1>4 DEF Render, Take, Check, CheckEnds, Vips, VipsFails, File, Filed, Release
<1>5. ASSUME NEW v \in Viewers, NEW h \in Hashes, NEW d \in {"thumb", "gallery"}, Regenerate(v, h, d)
      PROVE  rows' = rows
  BY <1>5 DEF Regenerate
<1>6. ASSUME NEW k \in Contents, Backfill(k) PROVE rows' = rows
  BY <1>6 DEF Backfill
<1>7. ASSUME Crash \/ UNCHANGED vars PROVE rows' = rows
  BY <1>7 DEF Crash, Restart, vars
<1> QED BY <1>1, <1>2, <1>3, <1>4, <1>5, <1>6, <1>7, CalmSteps

LEMMA BootMoves ==
  ASSUME Calm, HealInv, [Next]_vars
  PROVE  boot' = boot \/ (\E k \in Contents : Backfill(k)) \/ Crash
<1>1. ASSUME NEW u \in Uploaders,
             (\E k \in Contents : Upload(u, k)) \/ PutDone(u) \/ InsertPhoto(u) \/ EnqueueAndAck(u)
      PROVE  boot' = boot
  BY <1>1 DEF Upload, PutDone, InsertPhoto, InsertNew, InsertConflict, LookupFound, LookupGone,
              EnqueueAndAck
<1>2. ASSUME NEW p \in Procs, BlobStep(p) PROVE boot' = boot
  BY <1>2 DEF BlobStep
<1>3. ASSUME NEW p \in Renderers, Render(p) PROVE boot' = boot
  BY <1>3 DEF Render, Take, Check, CheckEnds, Vips, VipsFails, File, Filed, Release
<1>4. ASSUME NEW v \in Viewers, NEW h \in Hashes, NEW d \in {"thumb", "gallery"}, Regenerate(v, h, d)
      PROVE  boot' = boot
  BY <1>4 DEF Regenerate
<1>5. ASSUME UNCHANGED vars PROVE boot' = boot
  BY <1>5 DEF vars
<1> QED BY <1>1, <1>2, <1>3, <1>4, <1>5, CalmSteps

LEMMA QueueMoves ==
  ASSUME Calm, HealInv, [Next]_vars
  PROVE  \/ UNCHANGED queueVars
         \/ \E w \in Workers : Take(w)
         \/ \E u \in Uploaders : EnqueueAndAck(u)
         \/ \E k \in Contents : Backfill(k)
         \/ Crash
<1>1. ASSUME NEW u \in Uploaders, (\E k \in Contents : Upload(u, k)) \/ PutDone(u) \/ InsertPhoto(u)
      PROVE  UNCHANGED queueVars
  BY <1>1 DEF Upload, PutDone, InsertPhoto, InsertNew, InsertConflict, LookupFound, LookupGone
<1>2. ASSUME NEW p \in Procs, BlobStep(p) PROVE UNCHANGED queueVars
  BY <1>2 DEF BlobStep
<1>3. ASSUME NEW p \in Renderers, Render(p) PROVE UNCHANGED queueVars \/ (p \in Workers /\ Take(p))
  BY <1>3 DEF Render, Take, Check, CheckEnds, Vips, VipsFails, File, Filed, Release
<1>4. ASSUME NEW v \in Viewers, NEW h \in Hashes, NEW d \in {"thumb", "gallery"}, Regenerate(v, h, d)
      PROVE  UNCHANGED queueVars
  BY <1>4 DEF Regenerate
<1>5. ASSUME UNCHANGED vars PROVE UNCHANGED queueVars
  BY <1>5 DEF vars
<1> QED BY <1>1, <1>2, <1>3, <1>4, <1>5, CalmSteps

LEMMA UploaderMoves ==
  ASSUME Calm, Both, HealInv, [Next]_vars, NEW u \in Uploaders
  PROVE  \/ up'[u] = up[u] /\ upKey'[u] = upKey[u]
         \/ \E k \in Contents : Upload(u, k)
         \/ PutDone(u) \/ InsertPhoto(u) \/ EnqueueAndAck(u)
         \/ Crash
<1> DEFINE Rests(q) == up'[q] = up[q] /\ upKey'[q] = upKey[q]
<1>0. up \in [Uploaders -> {"idle", "put", "insert", "lookup", "enqueue"}]
      /\ upKey \in [Uploaders -> Contents \cup {NoKey}]
  BY DEF Both, IInv, TypeOK
<1>1. ASSUME NEW q \in Uploaders, q # u,
             (\E k \in Contents : Upload(q, k)) \/ PutDone(q) \/ InsertPhoto(q) \/ EnqueueAndAck(q)
      PROVE  Rests(u)
  BY <1>0, <1>1 DEF Upload, PutDone, InsertPhoto, InsertNew, InsertConflict, LookupFound, LookupGone,
                    EnqueueAndAck, UploadIdle
<1>2. ASSUME NEW p \in Procs, BlobStep(p) PROVE Rests(u)
  BY <1>2 DEF BlobStep, upVars
<1>3. ASSUME NEW p \in Renderers, Render(p) PROVE Rests(u)
  BY <1>3 DEF Render, Take, Check, CheckEnds, Vips, VipsFails, File, Filed, Release, upVars
<1>4. ASSUME NEW v \in Viewers, NEW h \in Hashes, NEW d \in {"thumb", "gallery"}, Regenerate(v, h, d)
      PROVE  Rests(u)
  BY <1>4 DEF Regenerate, upVars
<1>5. ASSUME NEW k \in Contents, Backfill(k) PROVE Rests(u)
  BY <1>5 DEF Backfill, upVars
<1>6. ASSUME UNCHANGED vars PROVE Rests(u)
  BY <1>6 DEF vars, upVars
<1> QED BY <1>1, <1>2, <1>3, <1>4, <1>5, <1>6, CalmSteps

LEMMA WorkerMoves ==
  ASSUME Calm, Both, HealInv, [Next]_vars, NEW w \in Workers
  PROVE  \/ rend'[w] = rend[w] /\ src'[w] = src[w] /\ kind'[w] = kind[w]
         \/ Render(w)
         \/ Crash
<1> DEFINE Rests == rend'[w] = rend[w] /\ src'[w] = src[w] /\ kind'[w] = kind[w]
<1>0. /\ rend \in [Renderers -> {"idle", "check", "vips", "file", "put", "release"}]
      /\ src \in [Renderers -> Contents \cup {NoKey}]
      /\ kind \in [Renderers -> {"thumb", "gallery"}]
      /\ w \in Renderers
  BY RoleFacts DEF Both, IInv, TypeOK
<1>1. ASSUME NEW u \in Uploaders,
             (\E k \in Contents : Upload(u, k)) \/ PutDone(u) \/ InsertPhoto(u) \/ EnqueueAndAck(u)
      PROVE  Rests
  BY <1>1 DEF Upload, PutDone, InsertPhoto, InsertNew, InsertConflict, LookupFound, LookupGone,
              EnqueueAndAck, rendVars
<1>2. ASSUME NEW p \in Procs, BlobStep(p) PROVE Rests
  BY <1>2 DEF BlobStep, rendVars
<1>3. ASSUME NEW p \in Renderers, p # w, Render(p) PROVE Rests
  BY <1>0, <1>3 DEF Render, Take, Check, CheckEnds, Vips, VipsFails, File, Filed, Release, AfterRender,
                    RenderIdle, rendVars
<1>4. ASSUME NEW v \in Viewers, NEW h \in Hashes, NEW d \in {"thumb", "gallery"}, Regenerate(v, h, d)
      PROVE  Rests
  BY <1>0, <1>4, RolesAssumption DEF Regenerate
<1>5. ASSUME NEW k \in Contents, Backfill(k) PROVE Rests
  BY <1>5 DEF Backfill, rendVars
<1>6. ASSUME UNCHANGED vars PROVE Rests
  BY <1>6 DEF vars, rendVars
<1> QED BY <1>1, <1>2, <1>3, <1>4, <1>5, <1>6, CalmSteps

\* Whoever is in a call holds a key.
LEMMA CallsHoldKeys ==
  ASSUME Both, NEW p \in Procs, pc[p] # "idle"
  PROVE  key[p] \in Keys
BY DEF Both, IInv, CallsMatch, Keys

\* A step of the store moves its caller's call on, and files nothing torn.
LEMMA BlobStepMoves ==
  ASSUME Calm, Both, HealInv, NEW p \in Procs, BlobStep(p)
  PROVE  /\ key' = key /\ pc[p] # "idle"
         /\ pc' = [pc EXCEPT ![p] = pc'[p]] /\ pc'[p] \notin {"idle", "failed"}
         /\ pc'[p] \in {"dirsync", "ok"} => page'[key[p]] = "synced"
         /\ \A k \in Keys : page[k] = "synced" => page'[k] = "synced"
<1>0. /\ pc \in [Procs -> Blobs!Busy \cup {"idle", "ok", "failed"}]
      /\ page \in [Keys -> Blobs!FileState]
      /\ \A k \in Keys : page[k] \in {"absent", "synced"}
      /\ pc[p] \in {"stat", "place"} => temp[p] = "synced"
  BY DEF Both, Blobs!IInv, Blobs!TypeOK, Blobs!NoTornBlob, Blobs!TempReady, Blobs!Keys, Keys
<1>1. pc[p] # "idle" => key[p] \in Keys
  BY CallsHoldKeys
<1>2. CASE Blobs!Copy(p) \/ Blobs!Sync(p) \/ Blobs!StatAbsent(p) \/ Blobs!Mkdir(p)
  BY <1>0, <1>1, <1>2 DEF Blobs!Copy, Blobs!Sync, Blobs!StatAbsent, Blobs!Mkdir
<1>3. CASE Blobs!StatPresent(p)
  BY <1>0, <1>1, <1>3 DEF Blobs!StatPresent, Blobs!Present
<1>4. CASE Blobs!Rename(p)
  BY <1>0, <1>1, <1>4 DEF Blobs!Rename
<1>5. CASE Blobs!FsyncDir(p)
  BY <1>0, <1>1, <1>5 DEF Blobs!FsyncDir, HealInv, PutsMatch
<1>6. "io" \notin Faults
  BY DEF Calm
<1> QED BY <1>2, <1>3, <1>4, <1>5, <1>6 DEF BlobStep

\* Nothing that is under its name goes away.
LEMMA PagesStay ==
  ASSUME Calm, Both, HealInv, [Next]_vars
  PROVE  \A k \in Keys : page[k] = "synced" => page'[k] = "synced"
<1>1. ASSUME NEW u \in Uploaders,
             (\E k \in Contents : Upload(u, k)) \/ PutDone(u) \/ InsertPhoto(u) \/ EnqueueAndAck(u)
      PROVE  page' = page
  BY <1>1 DEF Upload, Blobs!PutOriginal, PutDone, Blobs!Return, InsertPhoto, InsertNew, InsertConflict,
              LookupFound, LookupGone, EnqueueAndAck, blobVars
<1>3. ASSUME NEW p \in Renderers, Render(p) PROVE page' = page
  BY <1>3 DEF Render, Take, Check, CheckEnds, Vips, VipsFails, File, Blobs!Put, Blobs!PutPresent,
              Blobs!PutAbsent, Filed, Blobs!Return, Release, blobVars
<1>4. ASSUME NEW v \in Viewers, NEW h \in Hashes, NEW d \in {"thumb", "gallery"}, Regenerate(v, h, d)
      PROVE  page' = page
  BY <1>4 DEF Regenerate, blobVars
<1>5. ASSUME NEW k \in Contents, Backfill(k) PROVE page' = page
  BY <1>5 DEF Backfill, blobVars
<1>6. ASSUME Crash \/ UNCHANGED vars PROVE page' = page
  BY <1>6 DEF Crash, Blobs!Crash, vars, blobVars
<1> QED BY <1>1, <1>3, <1>4, <1>5, <1>6, CalmSteps, BlobStepMoves

(* The calls of Put stay whose they are.                                   *)
LEMMA HealTypes ==
  ASSUME Both
  PROVE  /\ pc \in [Procs -> Blobs!Busy \cup {"idle", "ok", "failed"}]
         /\ key \in [Procs -> Keys \cup {NoKey}]
         /\ page \in [Keys -> {"absent", "synced"}]
         /\ rend \in [Renderers -> {"idle", "check", "vips", "file", "put", "release"}]
         /\ src \in [Renderers -> Contents \cup {NoKey}]
         /\ kind \in [Renderers -> {"thumb", "gallery"}]
         /\ up \in [Uploaders -> {"idle", "put", "insert", "lookup", "enqueue"}]
         /\ upKey \in [Uploaders -> Contents \cup {NoKey}]
         /\ rows \in [Hashes -> Types \cup {NoType}]
         /\ queue \in Seq(Contents) /\ boot \subseteq Contents
<1>1. page \in [Keys -> Blobs!FileState] /\ \A k \in Keys : page[k] \in {"absent", "synced"}
  BY DEF Both, Blobs!IInv, Blobs!TypeOK, Blobs!NoTornBlob, Blobs!Keys, Keys
<1>2. page \in [Keys -> {"absent", "synced"}]
  BY <1>1
<1>3. /\ pc \in [Procs -> Blobs!Busy \cup {"idle", "ok", "failed"}]
      /\ key \in [Procs -> Keys \cup {NoKey}]
  BY DEF Both, Blobs!IInv, Blobs!TypeOK, Blobs!Keys, Keys
<1> QED BY <1>2, <1>3 DEF Both, IInv, TypeOK

\* What a call in hand has done does not come undone by others.
LEMMA PutsMatchStays ==
  ASSUME Calm, Both, HealInv, [Next]_vars
  PROVE  PutsMatch'
<1> USE HealTypes DEF HealInv, PutsMatch, Making
<1>0. \A p \in Procs : pc[p] \in {"dirsync", "ok"} => page'[key[p]] = "synced"
  BY PagesStay, CallsHoldKeys
<1>1. ASSUME NEW u \in Uploaders, NEW k \in Contents, Upload(u, k) PROVE PutsMatch'
  BY <1>0, <1>1 DEF Upload, Blobs!PutOriginal, rendVars
<1>2. ASSUME NEW u \in Uploaders, PutDone(u) PROVE PutsMatch'
  BY <1>0, <1>2 DEF PutDone, Blobs!Return, rendVars
<1>3. ASSUME NEW u \in Uploaders, InsertPhoto(u) \/ EnqueueAndAck(u) PROVE PutsMatch'
  <2>1. UNCHANGED <<pc, key, page, rend, src, kind>>
    BY <1>3 DEF InsertPhoto, InsertNew, InsertConflict, LookupFound, LookupGone, EnqueueAndAck,
                rendVars, blobVars
  <2> QED BY <1>0, <2>1
<1>4. ASSUME NEW p \in Procs, BlobStep(p) PROVE PutsMatch'
  <2>1. UNCHANGED <<rend, src, kind>>
    BY <1>4 DEF BlobStep, rendVars
  <2>2. /\ key' = key /\ pc[p] # "idle"
        /\ pc' = [pc EXCEPT ![p] = pc'[p]] /\ pc'[p] \notin {"idle", "failed"}
        /\ pc'[p] \in {"dirsync", "ok"} => page'[key[p]] = "synced"
    BY <1>4, BlobStepMoves
  <2>3. \A q \in Procs \ {p} : pc'[q] = pc[q]
    BY <2>2
  <2>4. \A q \in Procs : pc'[q] # "failed"
    BY <2>2, <2>3
  <2>5. \A q \in Procs : pc'[q] \in {"dirsync", "ok"} => page'[key'[q]] = "synced"
    BY <1>0, <2>2, <2>3
  <2>6. \A r \in Renderers : pc'[r] # "idle" <=> pc[r] # "idle"
    BY <2>2, <2>3
  <2> QED BY <2>1, <2>2, <2>4, <2>5, <2>6
<1>5. ASSUME NEW p \in Renderers, Render(p) PROVE PutsMatch'
  <2>1. CASE Take(p) \/ Check(p) \/ Vips(p) \/ Release(p)
    <3>1. UNCHANGED <<pc, key, page>>
      BY <2>1 DEF Take, Check, Vips, Release, blobVars
    <3>2. rend[p] # "put" /\ rend'[p] # "put" /\ \A r \in Renderers \ {p} : rend'[r] = rend[r]
          /\ src'[r] = src[r] /\ kind'[r] = kind[r]
      BY <2>1 DEF Take, Check, Vips, Release, RenderIdle
    <3>3. p \in Workers /\ rend'[p] = "idle" => kind'[p] = "thumb"
      BY <2>1 DEF Take, Check, Vips, Release, RenderIdle
    <3> QED BY <1>0, <3>1, <3>2, <3>3
  <2>2. CASE CheckEnds(p) \/ VipsFails(p)
    <3>1. UNCHANGED <<pc, key, page>> /\ rend[p] # "put" /\ AfterRender(p)
      BY <2>2 DEF CheckEnds, VipsFails, blobVars
    <3>2. /\ rend'[p] # "put" /\ \A r \in Renderers \ {p} : rend'[r] = rend[r]
             /\ src'[r] = src[r] /\ kind'[r] = kind[r]
          /\ p \in Workers /\ rend'[p] = "idle" => kind'[p] = "thumb"
      BY <3>1 DEF AfterRender, RenderIdle
    <3> QED BY <1>0, <3>1, <3>2
  <2>3. CASE File(p)
    <3>1. /\ rend[p] = "file" /\ rend' = [rend EXCEPT ![p] = "put"] /\ UNCHANGED <<src, kind>>
          /\ Blobs!Put(p, Making(p))
      BY <2>3 DEF File
    <3>2. /\ pc' = [pc EXCEPT ![p] = pc'[p]] /\ pc'[p] \in {"copy", "ok"}
          /\ key' = [key EXCEPT ![p] = Making(p)] /\ page' = page
          /\ pc'[p] = "ok" => Making(p) \in Keys /\ page[Making(p)] # "absent"
      <4> DEFINE k == Making(p)
      <4> HIDE DEF k
      <4>1. Blobs!PutPresent(p, k) \/ Blobs!PutAbsent(p, k)
        BY <3>1 DEF Blobs!Put, k
      <4>2. CASE Blobs!PutPresent(p, k)
        BY <4>2 DEF Blobs!PutPresent, Blobs!Present, Keys, k
      <4>3. CASE Blobs!PutAbsent(p, k)
        BY <4>3 DEF Blobs!PutAbsent, k
      <4> QED BY <4>1, <4>2, <4>3
    <3>3. p \in Procs
      OBVIOUS
    <3>4. \A q \in Procs \ {p} : pc'[q] = pc[q] /\ key'[q] = key[q]
      BY <3>2
    <3>5. key'[p] = Making(p) /\ (pc'[p] = "ok" => page'[Making(p)] = "synced")
      BY <3>2, <3>3
    <3>6. \A q \in Procs : pc'[q] # "failed" /\ (pc'[q] \in {"dirsync", "ok"} => page'[key'[q]] = "synced")
      BY <1>0, <3>2, <3>4, <3>5
    <3>7. \A r \in Renderers : rend'[r] = "put" <=> pc'[r] # "idle"
      BY <3>1, <3>2, <3>4
    <3>8. \A r \in Renderers : rend'[r] = "put" => key'[r] = Making(r)'
      BY <3>1, <3>4, <3>5
    <3> QED BY <3>1, <3>6, <3>7, <3>8
  <2>4. CASE Filed(p)
    <3>1. /\ pc' = [pc EXCEPT ![p] = "idle"] /\ key' = [key EXCEPT ![p] = NoKey]
          /\ page' = page /\ AfterRender(p)
      BY <2>4 DEF Filed, Blobs!Return
    <3>2. /\ rend'[p] # "put" /\ \A r \in Renderers \ {p} : rend'[r] = rend[r]
             /\ src'[r] = src[r] /\ kind'[r] = kind[r]
          /\ p \in Workers /\ rend'[p] = "idle" => kind'[p] = "thumb"
      BY <3>1 DEF AfterRender, RenderIdle
    <3>3. /\ pc'[p] = "idle"
          /\ \A q \in Procs \ {p} : pc'[q] = pc[q] /\ key'[q] = key[q]
      BY <1>0, <3>1
    <3>4. /\ \A q \in Procs : pc'[q] # "failed"
          /\ \A q \in Procs : pc'[q] \in {"dirsync", "ok"} => page'[key'[q]] = "synced"
      BY <1>0, <3>1, <3>3
    <3>5. \A r \in Renderers : rend'[r] = "put" <=> pc'[r] # "idle"
      BY <1>0, <3>2, <3>3
    <3>6. \A r \in Renderers : rend'[r] = "put" => key'[r] = Making(r)'
      BY <1>0, <3>2, <3>3 DEF Making
    <3>7. \A w \in Workers : rend'[w] = "idle" => kind'[w] = "thumb"
      BY <1>0, <3>2
    <3> QED BY <3>4, <3>5, <3>6, <3>7
  <2> QED BY <1>5, <2>1, <2>2, <2>3, <2>4 DEF Render
<1>6. ASSUME NEW v \in Viewers, NEW h \in Hashes, NEW d \in {"thumb", "gallery"}, Regenerate(v, h, d)
      PROVE  PutsMatch'
  <2>1. v \notin Workers
    BY RolesAssumption
  <2> QED BY <1>0, <1>6, <2>1 DEF Regenerate, blobVars
<1>7. ASSUME NEW k \in Contents, Backfill(k) PROVE PutsMatch'
  BY <1>0, <1>7 DEF Backfill, rendVars, blobVars
<1>8. CASE Crash
  BY <1>8 DEF Crash, Restart, Blobs!Crash, Blobs!Halt
<1>9. CASE UNCHANGED vars
  BY <1>0, <1>9 DEF vars, rendVars, blobVars
<1> QED BY <1>1, <1>2, <1>3, <1>4, <1>5, <1>6, <1>7, <1>8, <1>9, CalmSteps

(* What Enqueue and Take do to the queue.                                  *)
LEMMA EnqueueAdds ==
  ASSUME queue \in Seq(Contents), NEW k \in Contents, Enqueue(k)
  PROVE  /\ \A i \in DOMAIN queue : i \in DOMAIN queue' /\ queue'[i] = queue[i]
         /\ \A i \in DOMAIN queue' \ DOMAIN queue :
              queue'[i] = k /\ k[1] \notin Marked /\ i = Len(queue) + 1
<1>1. CASE queue' = queue
  BY <1>1
<1>2. CASE k[1] \notin Marked /\ queue' = Append(queue, k)
  BY <1>2
<1> QED BY <1>1, <1>2 DEF Enqueue

LEMMA TakeRemoves ==
  ASSUME queue \in Seq(Contents), NEW w \in Workers, Take(w)
  PROVE  /\ 1 \in DOMAIN queue /\ src' = [src EXCEPT ![w] = queue[1]]
         /\ \A i \in DOMAIN queue' : i + 1 \in DOMAIN queue /\ queue'[i] = queue[i + 1]
         /\ \A i \in DOMAIN queue \ {1} : i - 1 \in DOMAIN queue' /\ queue'[i - 1] = queue[i]
<1>1. queue # <<>> /\ queue' = Tail(queue) /\ src' = [src EXCEPT ![w] = Head(queue)]
  BY DEF Take
<1>2. Len(queue) \in Nat \ {0} /\ Head(queue) = queue[1]
  BY <1>1
<1>3. Len(queue') = Len(queue) - 1 /\ \A i \in 1 .. Len(queue) - 1 : queue'[i] = queue[i + 1]
  BY <1>1, <1>2
<1>4. queue' \in Seq(Contents)
  BY <1>1
<1> QED BY <1>1, <1>2, <1>3, <1>4

\* The backfill and the uploads use it as they should.
LEMMA WhoEnqueues ==
  ASSUME Calm, Both, HealInv, [Next]_vars
  PROVE  \/ UNCHANGED queueVars
         \/ \E w \in Workers : Take(w)
         \/ \E k \in Contents : Enqueue(k) /\ page[k] = "synced"
         \/ Crash
<1>1. ASSUME NEW u \in Uploaders, EnqueueAndAck(u)
      PROVE  upKey[u] \in Contents /\ Enqueue(upKey[u]) /\ page[upKey[u]] = "synced"
  BY <1>1 DEF EnqueueAndAck, Both, IInv, CallsMatch, HealInv, SourcesShown
<1>2. ASSUME NEW k \in Contents, Backfill(k)
      PROVE  UNCHANGED queueVars \/ (Enqueue(k) /\ page[k] = "synced")
  BY <1>2 DEF Backfill, HealInv, SourcesShown
<1> QED BY <1>1, <1>2, QueueMoves

\* A photo that is marked is not queued again.
LEMMA WaitsOnceStays ==
  ASSUME Calm, Both, HealInv, [Next]_vars
  PROVE  WaitsOnce'
<1> USE HealTypes DEF HealInv, WaitsOnce
<1>1. CASE queue' = queue
  BY <1>1
<1>2. ASSUME NEW w \in Workers, Take(w) PROVE WaitsOnce'
  <2>1. \A i \in DOMAIN queue' : i \in Nat /\ i + 1 \in DOMAIN queue /\ queue'[i] = queue[i + 1]
    <3>1. queue' \in Seq(Contents)
      BY <1>2 DEF Take
    <3> QED BY <1>2, <3>1, TakeRemoves
  <2>2. ASSUME NEW i \in DOMAIN queue', NEW j \in DOMAIN queue', queue'[i][1] = queue'[j][1]
        PROVE  i = j
    <3>1. i + 1 = j + 1
      BY <2>1, <2>2
    <3> QED BY <2>1, <3>1
  <2> QED BY <2>2
<1>3. ASSUME NEW k \in Contents, Enqueue(k) PROVE WaitsOnce'
  <2>1. /\ \A i \in DOMAIN queue : queue'[i] = queue[i]
        /\ \A i \in DOMAIN queue' \ DOMAIN queue :
             queue'[i] = k /\ k[1] \notin Marked /\ i = Len(queue) + 1
    BY <1>3, EnqueueAdds
  <2>2. k[1] \notin Marked => \A i \in DOMAIN queue : queue[i][1] # k[1]
    <3>1. DOMAIN queue = 1 .. Len(queue)
      OBVIOUS
    <3>2. \A i \in 1 .. Len(queue) : queue[i][1] \in Marked
      BY DEF Marked
    <3> QED BY <3>1, <3>2
  <2> QED BY <2>1, <2>2
<1>4. CASE Crash
  BY <1>4 DEF Crash, Restart
<1> QED BY <1>1, <1>2, <1>3, <1>4, WhoEnqueues

(* What jobs, uploads and workers speak of stays there to be read.         *)
LEMMA RowsShown ==
  ASSUME Calm, Both, HealInv, [Next]_vars, NEW h \in Hashes, rows'[h] # NoType
  PROVE  OriginalOf(h)' \in Contents /\ page'[OriginalOf(h)'] = "synced"
<1> USE HealTypes, PagesStay DEF HealInv, SourcesShown, OriginalOf, Both, IInv, CallsMatch, Keys
<1>1. CASE rows' = rows
  BY <1>1
<1>2. ASSUME NEW u \in Uploaders, InsertNew(u) PROVE OriginalOf(h)' \in Contents /\ page'[OriginalOf(h)'] = "synced"
  <2>1. /\ up[u] = "insert" /\ upKey[u] \in Contents /\ page'[upKey[u]] = "synced"
        /\ rows' = [rows EXCEPT ![upKey[u][1]] = upKey[u][2]]
    BY <1>2 DEF InsertNew
  <2>2. PICK k \in Contents : k = upKey[u]
    BY <2>1
  <2>3. rows' = [rows EXCEPT ![k[1]] = k[2]] /\ k = <<k[1], k[2]>> /\ k[1] \in Hashes
    BY <2>1, <2>2
  <2>4. CASE h = k[1]
    <3>1. rows'[h] = k[2]
      BY <2>3, <2>4
    <3>2. OriginalOf(h)' = k
      BY <2>3, <2>4, <3>1
    <3> QED BY <2>1, <2>2, <3>2
  <2>5. CASE h # k[1]
    BY <2>3, <2>5
  <2> QED BY <2>4, <2>5
<1> QED BY <1>1, <1>2, RowsMove

\* A row stays: nobody deletes.
LEMMA RowsStay ==
  ASSUME Calm, Both, HealInv, [Next]_vars, NEW h \in Hashes, rows[h] # NoType
  PROVE  rows'[h] = rows[h]
<1>1. ASSUME NEW u \in Uploaders, InsertNew(u) PROVE rows'[h] = rows[h]
  <2>1. upKey[u] \in Contents /\ rows \in [Hashes -> Types \cup {NoType}]
    BY <1>1, HealTypes DEF InsertNew, Both, IInv, CallsMatch
  <2> QED BY <1>1, <2>1 DEF InsertNew
<1> QED BY <1>1, RowsMove

LEMMA SourcesStay ==
  ASSUME Calm, Both, HealInv, [Next]_vars
  PROVE  SourcesShown'
<1> USE HealTypes DEF HealInv, SourcesShown
<1>0. /\ \A k \in Contents : page[k] = "synced" => page'[k] = "synced"
      /\ \A k \in boot : page'[k] = "synced" /\ rows'[k[1]] # NoType
  <2>1. \A k \in Contents : page[k] = "synced" => page'[k] = "synced"
    BY PagesStay DEF Keys
  <2>2. \A k \in boot : k \in Contents /\ k[1] \in Hashes /\ page[k] = "synced" /\ rows[k[1]] # NoType
    OBVIOUS
  <2> QED BY <2>1, <2>2, RowsStay
<1>1. \A h \in Hashes : rows'[h] # NoType => page'[OriginalOf(h)'] = "synced"
  BY RowsShown
<1>2. \A k \in boot' : page'[k] = "synced" /\ rows'[k[1]] # NoType
  <2>1. CASE boot' \subseteq boot
    BY <1>0, <2>1
  <2>2. CASE Crash
    <3>1. boot' = Photos /\ rows' = rows
      BY <2>2 DEF Crash, Restart, Calm
    <3>2. \A h \in Hashes : rows[h] # NoType => OriginalOf(h)' = OriginalOf(h) /\ OriginalOf(h)[1] = h
      BY <3>1 DEF OriginalOf
    <3> QED BY <1>1, <3>1, <3>2 DEF Photos
  <2> QED BY <2>1, <2>2, BootMoves DEF Backfill
<1>3. \A i \in DOMAIN queue' : page'[queue'[i]] = "synced"
  <2>0. \A i \in DOMAIN queue : page'[queue[i]] = "synced"
    BY <1>0
  <2>1. ASSUME NEW w \in Workers, Take(w) PROVE \A i \in DOMAIN queue' : page'[queue'[i]] = "synced"
    BY <2>0, <2>1, TakeRemoves
  <2>2. ASSUME NEW k \in Contents, Enqueue(k), page[k] = "synced"
        PROVE  \A i \in DOMAIN queue' : page'[queue'[i]] = "synced"
    BY <1>0, <2>0, <2>2, EnqueueAdds
  <2>3. ASSUME Crash PROVE queue' = <<>>
    BY <2>3 DEF Crash, Restart
  <2> QED BY <2>0, <2>1, <2>2, <2>3, WhoEnqueues
<1>4. ASSUME NEW u \in Uploaders, up'[u] \in {"insert", "lookup", "enqueue"}
      PROVE  page'[upKey'[u]] = "synced"
  <2>0. up[u] # "idle" => upKey[u] \in Contents
    BY DEF Both, IInv, CallsMatch
  <2>1. CASE up'[u] = up[u] /\ upKey'[u] = upKey[u]
    BY <1>0, <1>4, <2>0, <2>1
  <2>2. ASSUME NEW k \in Contents, Upload(u, k) PROVE FALSE
    BY <1>4, <2>2 DEF Upload
  <2>3. CASE PutDone(u)
    <3>1. pc[u] = "ok" /\ up[u] = "put" /\ upKey' = upKey
      BY <2>3 DEF PutDone
    <3>2. page[upKey[u]] = "synced"
      BY <3>1 DEF PutsMatch, Both, IInv, CallsMatch
    <3> QED BY <1>0, <2>0, <3>1, <3>2
  <2>4. CASE InsertPhoto(u)
    <3>1. up[u] \in {"insert", "lookup"}
      BY <2>4 DEF InsertPhoto, InsertNew, InsertConflict, LookupFound, LookupGone
    <3>2. upKey' = upKey
      BY <1>4, <2>4 DEF InsertPhoto, InsertNew, InsertConflict, LookupFound, LookupGone, UploadIdle
    <3> QED BY <1>0, <2>0, <3>1, <3>2
  <2>5. ASSUME EnqueueAndAck(u) \/ Crash PROVE FALSE
    BY <1>4, <2>5 DEF EnqueueAndAck, UploadIdle, Crash, Restart
  <2> QED BY <2>1, <2>2, <2>3, <2>4, <2>5, UploaderMoves
<1>5. ASSUME NEW w \in Workers, rend'[w] # "idle" PROVE page'[src'[w]] = "synced"
  <2>0. rend[w] # "idle" => src[w] \in Contents
    BY DEF Both, IInv, CallsMatch
  <2>1. CASE rend'[w] = rend[w] /\ src'[w] = src[w]
    BY <1>0, <1>5, <2>0, <2>1
  <2>2. CASE Take(w)
    <3>1. 1 \in DOMAIN queue /\ src'[w] = queue[1] /\ queue[1] \in Contents
      BY <2>2, TakeRemoves
    <3> QED BY <1>0, <3>1
  <2>3. CASE Render(w) /\ ~Take(w)
    <3>1. src'[w] = src[w] /\ rend[w] # "idle"
      BY <1>5, <2>3, RolesAssumption
      DEF Render, Check, CheckEnds, Vips, VipsFails, File, Filed, Release, AfterRender, RenderIdle
    <3> QED BY <1>0, <2>0, <3>1
  <2>4. ASSUME Crash PROVE FALSE
    BY <1>5, <2>4 DEF Crash, Restart
  <2> QED BY <2>1, <2>2, <2>3, <2>4, WorkerMoves
<1> QED BY <1>1, <1>2, <1>3, <1>4, <1>5

(* A worker leaves a rendition of a readable photo behind only when it is   *)
(* there, and goes on to the gallery JPEG when the photo wants one.         *)
LEMMA WorkerEnds ==
  ASSUME Calm, Both, HealInv, NEW w \in Workers, CheckEnds(w) \/ VipsFails(w) \/ Filed(w),
         src[w][1] \notin Broken
  PROVE  /\ page[<<src[w][1], kind[w]>>] = "synced"
         /\ rend[w] \notin {"idle", "release"} /\ src'[w] = src[w]
         /\ \/ /\ kind[w] = "thumb" /\ src[w][2] \in Heic
               /\ rend'[w] = "check" /\ kind'[w] = "gallery"
            \/ /\ kind[w] = "gallery" \/ src[w][2] \notin Heic
               /\ rend'[w] = "release" /\ kind'[w] = kind[w]
<1> USE HealTypes DEF HealInv, SourcesShown, PutsMatch
<1>1. w \in Renderers /\ w \notin Viewers
  BY RolesAssumption DEF Renderers
<1>2. rend[w] \in {"check", "vips", "put"} /\ AfterRender(w)
  BY DEF CheckEnds, VipsFails, Filed
<1>3. page[src[w]] = "synced"
  BY <1>2
<1>4. page[Making(w)] = "synced"
  <2>1. src[w] \in Contents
    BY <1>1, <1>2 DEF Both, IInv, CallsMatch
  <2>2. Making(w) \in Keys
    <3>1. src[w][1] \in Hashes /\ kind[w] \in {"thumb", "gallery"}
      BY <1>1, <2>1
    <3>2. <<src[w][1], kind[w]>> \in Renditions
      BY <3>1
    <3> QED BY <3>2 DEF Making, Keys
  <2>3. CASE CheckEnds(w)
    BY <1>3, <2>2, <2>3 DEF CheckEnds, Blobs!Present
  <2>4. ASSUME VipsFails(w) PROVE FALSE
    BY <1>1, <1>3, <2>4 DEF VipsFails, Blobs!Present
  <2>5. CASE Filed(w)
    <3>1. pc[w] \in {"ok", "failed"} /\ rend[w] = "put"
      BY <2>5 DEF Filed, Blobs!Return
    <3> QED BY <1>1, <3>1
  <2> QED BY <2>3, <2>4, <2>5
<1>5. AfterRender(w) =>
        \/ /\ GalleryNext(w) /\ src' = src
           /\ rend' = [rend EXCEPT ![w] = "check"] /\ kind' = [kind EXCEPT ![w] = "gallery"]
        \/ /\ ~GalleryNext(w) /\ src' = src
           /\ rend' = [rend EXCEPT ![w] = "release"] /\ kind' = kind
  BY <1>1 DEF AfterRender
<1>6. kind[w] \in {"thumb", "gallery"}
  BY <1>1
<1> QED BY <1>1, <1>2, <1>4, <1>5, <1>6 DEF Making, GalleryNext

\* The rest of what a worker does keeps its photo and its rendition.
LEMMA WorkerGoesOn ==
  ASSUME Both, NEW w \in Workers, Check(w) \/ Vips(w) \/ File(w)
  PROVE  /\ rend[w] \notin {"idle", "release"} /\ rend'[w] \notin {"idle", "release"}
         /\ src'[w] = src[w] /\ kind'[w] = kind[w]
<1>1. w \in Renderers /\ rend \in [Renderers -> {"idle", "check", "vips", "file", "put", "release"}]
  BY HealTypes
<1> QED BY <1>1 DEF Check, Vips, File

LEMMA WorkDoneStays ==
  ASSUME Calm, Both, HealInv, [Next]_vars
  PROVE  WorkDone'
<1> SUFFICES ASSUME NEW w \in Workers, rend'[w] # "idle", src'[w][1] \notin Broken
             PROVE  /\ rend'[w] = "release" \/ kind'[w] = "gallery" =>
                         page'[<<src'[w][1], "thumb">>] = "synced"
                    /\ rend'[w] = "release" /\ src'[w][2] \in Heic =>
                         page'[<<src'[w][1], "gallery">>] = "synced"
  BY DEF WorkDone
<1>0. /\ rend[w] # "idle" => src[w][1] \in Hashes
      /\ w \in Renderers
  BY DEF Both, IInv, CallsMatch
<1>1. \A h \in Hashes, d \in {"thumb", "gallery"} :
        page[<<h, d>>] = "synced" => page'[<<h, d>>] = "synced"
  BY PagesStay DEF Keys
<1>2. rend[w] # "idle" /\ src[w][1] \notin Broken =>
        /\ rend[w] = "release" \/ kind[w] = "gallery" => page[<<src[w][1], "thumb">>] = "synced"
        /\ rend[w] = "release" /\ src[w][2] \in Heic => page[<<src[w][1], "gallery">>] = "synced"
  BY DEF HealInv, WorkDone
<1>3. CASE rend'[w] = rend[w] /\ src'[w] = src[w] /\ kind'[w] = kind[w]
  BY <1>0, <1>1, <1>2, <1>3
<1>4. CASE Take(w)
  <2>1. rend'[w] = "check" /\ kind'[w] = "thumb"
    BY <1>0, <1>4, HealTypes DEF Take, HealInv, PutsMatch
  <2> QED BY <2>1
<1>5. CASE Check(w) \/ Vips(w) \/ File(w)
  BY <1>0, <1>1, <1>2, <1>5, WorkerGoesOn
<1>6. CASE CheckEnds(w) \/ VipsFails(w) \/ Filed(w)
  <2>1. src'[w] = src[w] \/ rend'[w] = "idle"
    BY <1>6, HealTypes, RolesAssumption DEF CheckEnds, VipsFails, Filed, AfterRender
  <2>2. src[w][1] \notin Broken
    BY <2>1
  <2>3. /\ page[<<src[w][1], kind[w]>>] = "synced"
        /\ rend[w] \notin {"idle", "release"} /\ src'[w] = src[w]
        /\ \/ /\ kind[w] = "thumb" /\ src[w][2] \in Heic
              /\ rend'[w] = "check" /\ kind'[w] = "gallery"
           \/ /\ kind[w] = "gallery" \/ src[w][2] \notin Heic
              /\ rend'[w] = "release" /\ kind'[w] = kind[w]
    BY <1>6, <2>2, WorkerEnds
  <2>4. kind[w] \in {"thumb", "gallery"}
    BY <1>0, HealTypes
  <2> QED BY <1>0, <1>1, <1>2, <2>2, <2>3, <2>4
<1>7. ASSUME Release(w) \/ Crash PROVE FALSE
  BY <1>0, <1>7, HealTypes DEF Release, RenderIdle, Crash, Restart
<1> QED BY <1>3, <1>4, <1>5, <1>6, <1>7, WorkerMoves DEF Render

(* The invariant of the argument.                                          *)
THEOREM HealInductive == ASSUME Calm PROVE Spec => []HealInv
<1>1. Init => HealInv
  <2> SUFFICES ASSUME Init PROVE HealInv
    OBVIOUS
  <2>1. /\ rows = [h \in Hashes |-> NoType] /\ up = [u \in Uploaders |-> "idle"]
        /\ queue = <<>> /\ boot = {} /\ rend = [p \in Renderers |-> "idle"]
        /\ kind = [p \in Renderers |-> "thumb"] /\ pc = [p \in Procs |-> "idle"]
    BY DEF Init, Blobs!Init
  <2> QED BY <2>1 DEF HealInv, SourcesShown, WaitsOnce, PutsMatch, WorkDone
<1>2. Both /\ HealInv /\ [Next]_vars => HealInv'
  BY SourcesStay, WaitsOnceStays, PutsMatchStays, WorkDoneStays DEF HealInv
<1> QED BY <1>1, <1>2, PipelineInductive, PTL DEF Spec

\* The gallery rendition of a photo that is always HEIC is in each of its jobs.
LEMMA SameWants ==
  ASSUME NEW h, NEW d, NEW k \in Contents, k[1] = h, Lacks(h, d)
  PROVE  d = "gallery" => k[2] \in Heic
BY DEF Lacks, AlwaysHeic

(* A job that is queued, or not because it is marked already, is seen to;  *)
(* what the full queue turns away is noted.                                *)
LEMMA EnqueueAttends ==
  ASSUME Calm, Both, HealInv, NEW h \in Hashes \ Broken, rows[h] # NoType,
         NEW d \in {"thumb", "gallery"}, Lacks(h, d),
         NEW k \in Contents, k[1] = h, Enqueue(k), UNCHANGED <<rend, src, kind>>
  PROVE  Attended(h, d)' \/ h \in dropped'
<1>1. CASE \E i \in DOMAIN queue : queue[i][1] = h
  BY <1>1, HealTypes, EnqueueAdds DEF Attended
<1>2. ASSUME NEW w \in Workers, rend[w] # "idle", src[w][1] = h PROVE Attended(h, d)'
  <2>1. w \in Renderers /\ src[w] \in Contents /\ kind[w] \in {"thumb", "gallery"}
    BY <1>2, HealTypes DEF Both, IInv, CallsMatch
  <2>2. d = "gallery" => src[w][2] \in Heic
    BY <1>2, <2>1, SameWants
  <2>3. /\ rend[w] = "release" \/ kind[w] = "gallery" => page[<<h, "thumb">>] = "synced"
        /\ rend[w] = "release" /\ src[w][2] \in Heic => page[<<h, "gallery">>] = "synced"
    BY <1>2 DEF HealInv, WorkDone
  <2>4. rend[w] # "release" /\ kind[w] \in {"thumb", d}
    BY <2>1, <2>2, <2>3 DEF Lacks
  <2> QED BY <1>2, <2>4 DEF Attended
<1>3. CASE h \notin Marked
  <2>1. queue' = Append(queue, k) \/ h \in dropped'
    BY <1>3 DEF Enqueue
  <2>2. queue' = Append(queue, k) => Len(queue) + 1 \in DOMAIN queue' /\ queue'[Len(queue) + 1] = k
    BY HealTypes
  <2> QED BY <2>1, <2>2 DEF Attended
<1>4. h \in Marked => \/ \E i \in DOMAIN queue : queue[i][1] = h
                      \/ \E w \in Workers : rend[w] # "idle" /\ src[w][1] = h
  <2>1. DOMAIN queue = 1 .. Len(queue)
    BY HealTypes
  <2> QED BY <2>1 DEF Marked
<1> QED BY <1>1, <1>2, <1>3, <1>4

\* After a restart the backfill has every photo before it.
LEMMA CrashAttends ==
  ASSUME Calm, Crash, NEW h \in Hashes, rows[h] # NoType, NEW d
  PROVE  Attended(h, d)'
<1>1. boot' = Photos
  BY DEF Crash, Restart, Calm
<1>2. OriginalOf(h) \in boot' /\ OriginalOf(h)[1] = h
  BY <1>1 DEF Photos, OriginalOf
<1> QED BY <1>2 DEF Attended

(* Who has a photo before them hands it on; only the full queue drops it,  *)
(* and that is noted.                                                      *)
LEMMA BootHandsOn ==
  ASSUME Calm, Both, HealInv, [Next]_vars, NEW h \in Hashes \ Broken, rows[h] # NoType,
         NEW d \in {"thumb", "gallery"}, Lacks(h, d), NEW k \in boot, k[1] = h
  PROVE  Attended(h, d)' \/ h \in dropped'
<1>1. CASE k \in boot'
  BY <1>1 DEF Attended
<1>2. CASE Backfill(k)
  <2>1. k \in Contents
    BY HealTypes
  <2>2. d = "gallery" => k[2] \in Heic
    BY <2>1, SameWants
  <2>3. page[<<h, d>>] = "absent"
    BY HealTypes DEF Lacks, Keys
  <2>4. NeedsRendition(k)
    BY <2>2, <2>3 DEF Lacks, NeedsRendition, Blobs!Present
  <2>5. Enqueue(k) /\ UNCHANGED <<rend, src, kind>>
    BY <1>2, <2>4 DEF Backfill, rendVars
  <2> QED BY <2>1, <2>5, EnqueueAttends
<1>3. CASE Crash
  BY <1>3, CrashAttends
<1>4. ASSUME NEW l \in Contents, Backfill(l), l # k PROVE k \in boot'
  BY <1>4 DEF Backfill
<1> QED BY <1>1, <1>2, <1>3, <1>4, BootMoves

LEMMA QueueHandsOn ==
  ASSUME Calm, Both, HealInv, [Next]_vars, NEW h \in Hashes, rows[h] # NoType,
         NEW d \in {"thumb", "gallery"}, NEW i \in DOMAIN queue, queue[i][1] = h
  PROVE  Attended(h, d)'
<1>1. CASE queue' = queue
  BY <1>1 DEF Attended
<1>2. ASSUME NEW w \in Workers, Take(w) PROVE Attended(h, d)'
  <2>1. CASE i = 1
    <3>1. w \in Renderers /\ rend' = [rend EXCEPT ![w] = "check"] /\ kind' = kind /\ rend[w] = "idle"
      BY <1>2 DEF Take
    <3>2. src'[w] = queue[1] /\ rend'[w] = "check" /\ kind'[w] = "thumb"
      BY <1>2, <3>1, TakeRemoves, HealTypes DEF HealInv, PutsMatch
    <3> QED BY <2>1, <3>2 DEF Attended
  <2>2. CASE i # 1
    BY <1>2, <2>2, TakeRemoves, HealTypes DEF Attended
  <2> QED BY <2>1, <2>2
<1>3. ASSUME NEW k \in Contents, Enqueue(k) PROVE Attended(h, d)'
  BY <1>3, EnqueueAdds, HealTypes DEF Attended
<1> QED BY <1>1, <1>2, <1>3, CrashAttends, WhoEnqueues

LEMMA UploadHandsOn ==
  ASSUME Calm, Both, HealInv, [Next]_vars, NEW h \in Hashes \ Broken, rows[h] # NoType,
         NEW d \in {"thumb", "gallery"}, Lacks(h, d),
         NEW u \in Uploaders, up[u] # "idle", upKey[u][1] = h
  PROVE  Attended(h, d)' \/ h \in dropped'
<1>1. CASE up'[u] = up[u] /\ upKey'[u] = upKey[u]
  BY <1>1 DEF Attended
<1>2. CASE PutDone(u) \/ InsertPhoto(u)
  <2>1. ~LookupGone(u)
    BY DEF LookupGone
  <2>2. /\ upKey' = upKey
        /\ up' = [up EXCEPT ![u] = "insert"] \/ up' = [up EXCEPT ![u] = "enqueue"]
           \/ up' = [up EXCEPT ![u] = "lookup"]
    BY <1>2, <2>1 DEF PutDone, InsertPhoto, InsertNew, InsertConflict, LookupFound
  <2> QED BY <2>2, HealTypes DEF Attended
<1>3. CASE EnqueueAndAck(u)
  <2>1. upKey[u] \in Contents /\ Enqueue(upKey[u]) /\ UNCHANGED <<rend, src, kind>>
    BY <1>3 DEF EnqueueAndAck, rendVars, Both, IInv, CallsMatch
  <2> QED BY <2>1, EnqueueAttends
<1>4. ASSUME NEW k \in Contents, Upload(u, k) PROVE FALSE
  BY <1>4 DEF Upload
<1> QED BY <1>1, <1>2, <1>3, <1>4, CrashAttends, UploaderMoves

LEMMA WorkerHandsOn ==
  ASSUME Calm, Both, HealInv, [Next]_vars, NEW h \in Hashes \ Broken, rows[h] # NoType,
         NEW d \in {"thumb", "gallery"}, Lacks(h, d),
         NEW w \in Workers, rend[w] \notin {"idle", "release"}, src[w][1] = h, kind[w] \in {"thumb", d}
  PROVE  Attended(h, d)'
<1>1. CASE rend'[w] = rend[w] /\ src'[w] = src[w] /\ kind'[w] = kind[w]
  BY <1>1 DEF Attended
<1>2. CASE Check(w) \/ Vips(w) \/ File(w)
  BY <1>2, WorkerGoesOn DEF Attended
<1>3. CASE CheckEnds(w) \/ VipsFails(w) \/ Filed(w)
  <2>1. /\ page[<<h, kind[w]>>] = "synced" /\ src'[w] = src[w]
        /\ \/ /\ kind[w] = "thumb" /\ src[w][2] \in Heic
              /\ rend'[w] = "check" /\ kind'[w] = "gallery"
           \/ kind[w] = "gallery" \/ src[w][2] \notin Heic
    BY <1>3, WorkerEnds
  <2>2. kind[w] = "thumb" /\ d = "gallery"
    BY <2>1 DEF Lacks
  <2>3. src[w] \in Contents
    BY DEF Both, IInv, CallsMatch
  <2>4. src[w][2] \in Heic
    BY <2>2, <2>3, SameWants
  <2> QED BY <2>1, <2>2, <2>4 DEF Attended
<1>4. ~Take(w) /\ ~Release(w)
  BY DEF Take, Release
<1> QED BY <1>1, <1>2, <1>3, <1>4, CrashAttends, WorkerMoves DEF Render

\* The note stays until the photo is queued again or the next start sees it.
LEMMA NoteStays ==
  ASSUME Calm, Both, HealInv, [Next]_vars, NEW h \in Hashes, rows[h] # NoType,
         h \in dropped, NEW d
  PROVE  Attended(h, d)' \/ h \in dropped'
<1>1. CASE dropped' = dropped
  BY <1>1
<1>2. ASSUME NEW k \in Contents, Enqueue(k) PROVE Attended(h, d)' \/ h \in dropped'
  <2>1. CASE queue' = Append(queue, k) /\ dropped' = dropped \ {k[1]}
    <3>1. Len(queue) + 1 \in DOMAIN queue' /\ queue'[Len(queue) + 1] = k
      BY <2>1, HealTypes
    <3> QED BY <2>1, <3>1 DEF Attended
  <2>2. CASE dropped \subseteq dropped'
    BY <2>2
  <2> QED BY <1>2, <2>1, <2>2 DEF Enqueue
<1>3. ASSUME NEW w \in Workers, Take(w) PROVE dropped' = dropped
  BY <1>3 DEF Take
<1> QED BY <1>1, <1>2, <1>3, CrashAttends, WhoEnqueues

(* NoneForgotten: as long as a readable photo lacks a rendition it needs,  *)
(* the backfill, the queue, an upload or a worker has it before it, or the *)
(* full queue has turned it away since the last start; through crashes and *)
(* any interleaving, for any number of goroutines and photos and a queue   *)
(* of any length: the safety half of SelfHeals.                            *)
THEOREM NobodyForgotten == ASSUME Calm PROVE Spec => []NoneForgotten
<1>1. Init => NoneForgotten
  BY DEF Init, NoneForgotten
<1>2. Both /\ HealInv /\ NoneForgotten /\ [Next]_vars => NoneForgotten'
  <2> SUFFICES ASSUME Both, HealInv, NoneForgotten, [Next]_vars, NEW h \in Hashes \ Broken,
                      rows'[h] # NoType, NEW d \in {"thumb", "gallery"}, Lacks(h, d)'
               PROVE  Attended(h, d)' \/ h \in dropped'
    BY DEF NoneForgotten
  <2>1. CASE rows[h] = NoType
    <3>1. PICK u \in Uploaders : InsertNew(u)
      BY <2>1, RowsMove
    <3>2. upKey[u] \in Contents /\ upKey' = upKey /\ up'[u] = "enqueue"
          /\ rows' = [rows EXCEPT ![upKey[u][1]] = upKey[u][2]]
      BY <3>1, HealTypes DEF InsertNew, Both, IInv, CallsMatch
    <3>3. upKey[u][1] = h
      BY <2>1, <3>2, HealTypes
    <3> QED BY <3>2, <3>3 DEF Attended
  <2>2. CASE rows[h] # NoType
    <3>1. rows'[h] = rows[h]
      BY <2>2, RowsStay
    <3>2. page'[<<h, d>>] # "synced" /\ <<h, d>> \in Keys
      BY DEF Lacks, Keys
    <3>3. Lacks(h, d)
      BY <3>1, <3>2, PagesStay DEF Lacks
    <3>4. Attended(h, d) \/ h \in dropped
      BY <2>2, <3>3 DEF NoneForgotten
    <3>5. CASE h \in dropped
      BY <2>2, <3>5, NoteStays
    <3>6. CASE Attended(h, d)
      BY <2>2, <3>3, <3>6, BootHandsOn, QueueHandsOn, UploadHandsOn, WorkerHandsOn DEF Attended
    <3> QED BY <3>4, <3>5, <3>6
  <2> QED BY <2>1, <2>2
<1>3. Spec => []HealInv
  BY HealInductive
<1> QED BY <1>1, <1>2, <1>3, PipelineInductive, PTL DEF Spec

\* Nobody has anything left to do.
AllIdle ==
  /\ boot = {} /\ queue = <<>>
  /\ \A u \in Uploaders : up[u] = "idle"
  /\ \A w \in Workers : rend[w] = "idle"

\* The renditions are there that every job for h makes.
Rendered(h) ==
  /\ page[<<h, "thumb">>] = "synced"
  /\ AlwaysHeic(h) => page[<<h, "gallery">>] = "synced"

(* Hence a server that has come to rest has made every rendition that the  *)
(* gallery needs of its readable photos, whatever crashes came before, but *)
(* for the photos the full queue has turned away since the last start and  *)
(* the gallery rendition of one that only some file names make HEIC (the   *)
(* exceptions of NoneForgotten).                                           *)
THEOREM RestMeansDone ==
  ASSUME Calm
  PROVE  Spec => [](AllIdle => \A h \in Hashes \ Broken : rows[h] # NoType => Rendered(h) \/ h \in dropped)
<1> DEFINE Done == AllIdle => \A h \in Hashes \ Broken : rows[h] # NoType => Rendered(h) \/ h \in dropped
<1>1. NoneForgotten => Done
  BY DEF NoneForgotten, AllIdle, Attended, Lacks, Rendered
<1>2. Spec => []NoneForgotten
  BY NobodyForgotten
<1> HIDE DEF Done
<1>3. Spec => []Done
  BY <1>1, <1>2, PTL
<1> QED BY <1>3 DEF Done
==============================================================================
