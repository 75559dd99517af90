---------------------------- MODULE PhotoPipeline ----------------------------
(***************************************************************************)
(* The life of a photo across the packages of the server: upload handlers  *)
(* (internal/server/upload.go), the photos table (internal/store), the     *)
(* blob store, the conversion pool, the handlers that render on a miss     *)
(* (thumb.go, photoview.go), the operator's delete (admin.go) and the      *)
(* backfill at start-up (cmd/photo-server/main.go), under crashes, power   *)
(* cuts and failing calls.                                                 *)
(*                                                                         *)
(* A photo is the hash of its content.  The type the server detects for it *)
(* may depend on the file name too, so one content may come with several   *)
(* types; an original is filed under hash and type.  A commit in the       *)
(* database is atomic and survives everything (WAL, synchronous=FULL).     *)
(* The blob store is BlobStore with the directories it writes into; the    *)
(* pool's queue is written at one step an operation, which is what         *)
(* ConvertPool shows of the finer steps of pool.go.                        *)
(***************************************************************************)
EXTENDS Naturals, Sequences

CONSTANTS Uploaders, Workers, Viewers, Admins,  \* goroutines
          Hashes,    \* contents
          Types,     \* image types
          Heic,      \* the types that need a gallery JPEG
          Contents,  \* <<hash, type>> pairs the detection can produce
          Broken,    \* contents vipsthumbnail cannot read
          QueueCap,  \* capacity of the conversion queue
          Faults,    \* what may go wrong: subset of AllFaults
          Dirs, Kinds, Above, SyncsPath,  \* the directories: see BlobStore
          NoType, NoKey

AllFaults == {"crash", "power", "io", "db", "timeout"}

ASSUME PipelineAssumption ==
  /\ Contents \subseteq Hashes \X Types
  /\ Types \cap {"thumb", "gallery", NoType} = {}
  /\ NoKey \notin Hashes \cup (Hashes \X (Types \cup {"thumb", "gallery"}))
  /\ Faults \subseteq AllFaults
  /\ QueueCap \in Nat \ {0}

Renderers == Workers \cup Viewers
Procs == Uploaders \cup Renderers
Renditions == Hashes \X {"thumb", "gallery"}
Keys == Contents \cup Renditions

ASSUME RolesAssumption == Uploaders \cap Renderers = {} /\ Workers \cap Viewers = {}

ASSUME PathsAssumption ==
  /\ Kinds \subseteq Dirs
  /\ Above \in [Keys \cup Dirs -> SUBSET Dirs]
  /\ \A x \in Keys \cup Dirs : \A d \in Above[x] : Above[d] \subseteq Above[x]

VARIABLES page, media, dirs, temp, pc, key, removedUnder,
          acked, shaky, orphaned,  \* all of BlobStore
          rows,     \* hash -> type of its row in photos, or NoType
          up,       \* uploader -> where it is in storeOnePart
          upKey,    \* uploader -> the original it stores
          adm,      \* admin -> where it is in handleAdminDelete
          delKey,   \* admin -> the original it removes
          queue,    \* jobs waiting, as <<hash, type>>
          dropped,  \* photos the full queue turned away, and nobody queued
                    \* again, since the last start (history)
          rend,     \* renderer -> where it is in Converter.render
          src,      \* renderer -> the original it reads
          kind,     \* renderer -> the rendition it makes
          boot,     \* rows the backfill has still to look at
          overlapped \* originals a delete of which met an upload (history)

Blobs == INSTANCE BlobStore WITH Originals <- Contents

blobVars == <<page, media, dirs, temp, pc, key, removedUnder, acked, shaky, orphaned>>
upVars   == <<up, upKey>>
admVars  == <<adm, delKey>>
rendVars == <<rend, src, kind>>
queueVars == <<queue, dropped>>
vars == <<blobVars, rows, upVars, admVars, queueVars, rendVars, boot, overlapped>>

TypeOK ==
  /\ rows \in [Hashes -> Types \cup {NoType}]
  /\ up \in [Uploaders -> {"idle", "put", "insert", "lookup", "enqueue"}]
  /\ upKey \in [Uploaders -> Contents \cup {NoKey}]
  /\ adm \in [Admins -> {"idle", "selected", "original", "thumb", "gallery"}]
  /\ delKey \in [Admins -> Contents \cup {NoKey}]
  /\ queue \in Seq(Contents)
  /\ dropped \subseteq Hashes
  /\ rend \in [Renderers -> {"idle", "check", "vips", "file", "put", "release"}]
  /\ src \in [Renderers -> Contents \cup {NoKey}]
  /\ kind \in [Renderers -> {"thumb", "gallery"}]
  /\ boot \subseteq Contents
  /\ overlapped \subseteq Contents

Init ==
  /\ Blobs!Init
  /\ rows = [h \in Hashes |-> NoType]
  /\ up = [u \in Uploaders |-> "idle"]
  /\ upKey = [u \in Uploaders |-> NoKey]
  /\ adm = [a \in Admins |-> "idle"]
  /\ delKey = [a \in Admins |-> NoKey]
  /\ queue = <<>>
  /\ dropped = {}
  /\ rend = [p \in Renderers |-> "idle"]
  /\ src = [p \in Renderers |-> NoKey]
  /\ kind = [p \in Renderers |-> "thumb"]
  /\ boot = {}
  /\ overlapped = {}

------------------------------------------------------------------------------
(* Shared vocabulary.                                                      *)

\* The server listens once the backfill has run.
Serving == boot = {}

\* The original the row of h speaks of: <hash><ext of its mime>.
OriginalOf(h) == <<h, rows[h]>>

Uploading(u) == up[u] \in {"put", "insert"}
Deleting(a) == adm[a] \in {"selected", "original"}
UploadUnderWay(k) == \E u \in Uploaders : Uploading(u) /\ upKey[u] = k
DeleteUnderWay(k) == \E a \in Admins : Deleting(a) /\ delKey[a] = k

\* Hashes with a mark in the pool: waiting or running.
Marked == {queue[i][1] : i \in 1 .. Len(queue)} \cup {src[w][1] : w \in {v \in Workers : rend[v] # "idle"}}

\* Pool.Enqueue: deduplicated by hash, dropped when the queue is full.
Enqueue(k) ==
  \/ k[1] \in Marked /\ UNCHANGED queueVars
  \/ /\ k[1] \notin Marked
     /\ Len(queue) < QueueCap
     /\ queue' = Append(queue, k)
     /\ dropped' = dropped \ {k[1]}
  \/ /\ k[1] \notin Marked
     /\ Len(queue) >= QueueCap
     /\ dropped' = dropped \cup {k[1]}
     /\ UNCHANGED queue

------------------------------------------------------------------------------
(* Upload: storeOnePart.                                                   *)

UploadIdle(u) ==
  /\ up' = [up EXCEPT ![u] = "idle"]
  /\ upKey' = [upKey EXCEPT ![u] = NoKey]

Upload(u, k) ==
  /\ Serving
  /\ up[u] = "idle"
  /\ Blobs!PutOriginal(u, k)
  /\ up' = [up EXCEPT ![u] = "put"]
  /\ upKey' = [upKey EXCEPT ![u] = k]
  /\ overlapped' = overlapped \cup {c \in {k} : DeleteUnderWay(c)}
  /\ UNCHANGED <<rows, admVars, queueVars, rendVars, boot>>

\* A step of the blob store on behalf of any goroutine.
BlobStep(p) ==
  /\ \/ Blobs!Copy(p) \/ Blobs!Sync(p)
     \/ Blobs!StatPresent(p) \/ Blobs!StatAbsent(p)
     \/ Blobs!Mkdir(p) \/ Blobs!Rename(p) \/ Blobs!FsyncDir(p)
     \/ "io" \in Faults /\ Blobs!Fail(p)
  /\ UNCHANGED <<rows, upVars, admVars, queueVars, rendVars, boot, overlapped>>

\* "store failed": nothing else happens (mutant: the error is not looked at).
PutFailedIgnored(u) ==
  /\ up[u] = "put"
  /\ pc[u] = "failed"
  /\ Blobs!Return(u)
  /\ up' = [up EXCEPT ![u] = "insert"]
  /\ UNCHANGED <<rows, upKey, admVars, queueVars, rendVars, boot, overlapped>>

PutFailed(u) ==
  /\ up[u] = "put"
  /\ pc[u] = "failed"
  /\ Blobs!Return(u)
  /\ UploadIdle(u)
  /\ UNCHANGED <<rows, admVars, queueVars, rendVars, boot, overlapped>>

PutDone(u) ==
  /\ up[u] = "put"
  /\ pc[u] = "ok"
  /\ Blobs!Return(u)
  /\ up' = [up EXCEPT ![u] = "insert"]
  /\ UNCHANGED <<rows, upKey, admVars, queueVars, rendVars, boot, overlapped>>

\* InsertPhoto's INSERT ... ON CONFLICT DO NOTHING.
InsertNew(u) ==
  /\ up[u] = "insert"
  /\ rows[upKey[u][1]] = NoType
  /\ rows' = [rows EXCEPT ![upKey[u][1]] = upKey[u][2]]
  /\ up' = [up EXCEPT ![u] = "enqueue"]
  /\ UNCHANGED <<blobVars, upKey, admVars, queueVars, rendVars, boot, overlapped>>

InsertConflict(u) ==
  /\ up[u] = "insert"
  /\ rows[upKey[u][1]] # NoType
  /\ up' = [up EXCEPT ![u] = "lookup"]
  /\ UNCHANGED <<blobVars, rows, upKey, admVars, queueVars, rendVars, boot, overlapped>>

\* InsertPhoto's SELECT after a conflict: the row may be gone by now.
LookupFound(u) ==
  /\ up[u] = "lookup"
  /\ rows[upKey[u][1]] # NoType
  /\ up' = [up EXCEPT ![u] = "enqueue"]
  /\ UNCHANGED <<blobVars, rows, upKey, admVars, queueVars, rendVars, boot, overlapped>>

LookupGone(u) ==
  /\ up[u] = "lookup"
  /\ rows[upKey[u][1]] = NoType
  /\ UploadIdle(u)
  /\ UNCHANGED <<blobVars, rows, admVars, queueVars, rendVars, boot, overlapped>>

\* "db error": the original stays where it is.
DbError(u) ==
  /\ "db" \in Faults
  /\ up[u] \in {"insert", "lookup"}
  /\ UploadIdle(u)
  /\ UNCHANGED <<blobVars, rows, admVars, queueVars, rendVars, boot, overlapped>>

\* Queue the renditions and answer the guest.
EnqueueAndAck(u) ==
  /\ up[u] = "enqueue"
  /\ Enqueue(upKey[u])
  /\ UploadIdle(u)
  /\ UNCHANGED <<blobVars, rows, admVars, rendVars, boot, overlapped>>

------------------------------------------------------------------------------
(* The operator deletes a photo: handleAdminDelete.                        *)

\* DeletePhoto's SELECT.
DeleteStart(a, h) ==
  /\ Serving
  /\ adm[a] = "idle"
  /\ rows[h] # NoType
  /\ adm' = [adm EXCEPT ![a] = "selected"]
  /\ delKey' = [delKey EXCEPT ![a] = OriginalOf(h)]
  /\ overlapped' = overlapped \cup {c \in {OriginalOf(h)} : UploadUnderWay(c)}
  /\ UNCHANGED <<blobVars, rows, upVars, queueVars, rendVars, boot>>

\* DeletePhoto's DELETE, whatever the row is by now.
DeleteRow(a) ==
  /\ adm[a] = "selected"
  /\ rows' = [rows EXCEPT ![delKey[a][1]] = NoType]
  /\ adm' = [adm EXCEPT ![a] = "original"]
  /\ UNCHANGED <<blobVars, upVars, delKey, queueVars, rendVars, boot, overlapped>>

DeleteFails(a) ==
  /\ "db" \in Faults
  /\ adm[a] = "selected"
  /\ adm' = [adm EXCEPT ![a] = "idle"]
  /\ delKey' = [delKey EXCEPT ![a] = NoKey]
  /\ UNCHANGED <<blobVars, rows, upVars, queueVars, rendVars, boot, overlapped>>

\* The file the loop is about to remove, and the one after it.
Removing(a) == IF adm[a] = "original" THEN delKey[a] ELSE <<delKey[a][1], adm[a]>>
AfterRemoving == [original |-> "thumb", thumb |-> "gallery", gallery |-> "idle"]

\* One turn of the loop over the three kinds; a failure is only logged.
RemoveBlob(a) ==
  /\ adm[a] \in DOMAIN AfterRemoving
  /\ \/ Blobs!Remove(Removing(a))
     \/ "io" \in Faults /\ UNCHANGED blobVars
  /\ adm' = [adm EXCEPT ![a] = AfterRemoving[adm[a]]]
  /\ delKey' = IF adm[a] = "gallery" THEN [delKey EXCEPT ![a] = NoKey] ELSE delKey
  /\ UNCHANGED <<rows, upVars, queueVars, rendVars, boot, overlapped>>

------------------------------------------------------------------------------
(* Renditions: Converter.render, run by a worker of the pool or by the     *)
(* handler of a page that misses one.                                      *)

\* The file p is making.
Making(p) == <<src[p][1], kind[p]>>

RenderIdle(p) ==
  /\ rend' = [rend EXCEPT ![p] = "idle"]
  /\ src' = [src EXCEPT ![p] = NoKey]
  /\ kind' = [kind EXCEPT ![p] = "thumb"]

\* A worker goes on to the gallery JPEG of a HEIC photo, however its
\* thumbnail ended; a handler answers.  (Mutant: a thumbnail that is there
\* passes for a finished photo.)
GalleryAfterThumb(p) == kind[p] = "thumb" /\ src[p][2] \in Heic /\ rend[p] = "put"
GalleryNext(p) == kind[p] = "thumb" /\ src[p][2] \in Heic

AfterRender(p) ==
  \/ p \in Viewers /\ RenderIdle(p)
  \/ /\ p \in Workers /\ GalleryNext(p)
     /\ rend' = [rend EXCEPT ![p] = "check"]
     /\ kind' = [kind EXCEPT ![p] = "gallery"]
     /\ UNCHANGED src
  \/ /\ p \in Workers /\ ~GalleryNext(p)
     /\ rend' = [rend EXCEPT ![p] = "release"]
     /\ UNCHANGED <<src, kind>>

\* A worker takes the oldest job.
Take(w) ==
  /\ w \in Workers
  /\ rend[w] = "idle"
  /\ queue # <<>>
  /\ src' = [src EXCEPT ![w] = Head(queue)]
  /\ queue' = Tail(queue)
  /\ rend' = [rend EXCEPT ![w] = "check"]
  /\ UNCHANGED <<dropped, blobVars, rows, upVars, admVars, kind, boot, overlapped>>

\* A handler misses a rendition of a known photo and makes it itself.
Regenerate(v, h, kd) ==
  /\ Serving
  /\ v \in Viewers
  /\ rend[v] = "idle"
  /\ rows[h] # NoType
  /\ src' = [src EXCEPT ![v] = OriginalOf(h)]
  /\ kind' = [kind EXCEPT ![v] = kd]
  /\ rend' = [rend EXCEPT ![v] = "check"]
  /\ UNCHANGED <<blobVars, rows, upVars, admVars, queueVars, boot, overlapped>>

ViewThumb(v, h) == Regenerate(v, h, "thumb")

ViewPhoto(v, h) == rows[h] \in Heic /\ Regenerate(v, h, "gallery")

Check(p) ==
  /\ rend[p] = "check"
  /\ ~Blobs!Present(Making(p))
  /\ Blobs!Present(src[p])
  /\ rend' = [rend EXCEPT ![p] = "vips"]
  /\ UNCHANGED <<blobVars, rows, upVars, admVars, queueVars, src, kind, boot, overlapped>>

\* Nothing to do, or nothing to do it from.
CheckEnds(p) ==
  /\ rend[p] = "check"
  /\ Blobs!Present(Making(p)) \/ ~Blobs!Present(src[p])
  /\ AfterRender(p)
  /\ UNCHANGED <<blobVars, rows, upVars, admVars, queueVars, boot, overlapped>>

Vips(p) ==
  /\ rend[p] = "vips"
  /\ Blobs!Present(src[p])
  /\ src[p][1] \notin Broken
  /\ rend' = [rend EXCEPT ![p] = "file"]
  /\ UNCHANGED <<blobVars, rows, upVars, admVars, queueVars, src, kind, boot, overlapped>>

\* The original is gone or unreadable, or the handler's patience is over.
VipsFails(p) ==
  /\ rend[p] = "vips"
  /\ \/ ~Blobs!Present(src[p])
     \/ src[p][1] \in Broken
     \/ "timeout" \in Faults /\ p \in Viewers
  /\ AfterRender(p)
  /\ UNCHANGED <<blobVars, rows, upVars, admVars, queueVars, boot, overlapped>>

File(p) ==
  /\ rend[p] = "file"
  /\ Blobs!Put(p, Making(p))
  /\ rend' = [rend EXCEPT ![p] = "put"]
  /\ UNCHANGED <<rows, upVars, admVars, queueVars, src, kind, boot, overlapped>>

Filed(p) ==
  /\ rend[p] = "put"
  /\ Blobs!Return(p)
  /\ AfterRender(p)
  /\ UNCHANGED <<rows, upVars, admVars, queueVars, boot, overlapped>>

\* inFlt.Delete: only now can the photo be queued again.
Release(w) ==
  /\ w \in Workers
  /\ rend[w] = "release"
  /\ RenderIdle(w)
  /\ UNCHANGED <<blobVars, rows, upVars, admVars, queueVars, boot, overlapped>>

------------------------------------------------------------------------------
(* The process dies and systemd starts it again.                           *)

Photos == {OriginalOf(h) : h \in {g \in Hashes : rows[g] # NoType}}

\* Memory is lost; the backfill reads the table, or fails to and gives up.
Restart ==
  /\ up' = [u \in Uploaders |-> "idle"]
  /\ upKey' = [u \in Uploaders |-> NoKey]
  /\ adm' = [a \in Admins |-> "idle"]
  /\ delKey' = [a \in Admins |-> NoKey]
  /\ queue' = <<>>
  /\ dropped' = {}
  /\ rend' = [p \in Renderers |-> "idle"]
  /\ src' = [p \in Renderers |-> NoKey]
  /\ kind' = [p \in Renderers |-> "thumb"]
  /\ boot' = Photos \/ ("db" \in Faults /\ boot' = {})
  /\ UNCHANGED <<rows, overlapped>>

Crash == "crash" \in Faults /\ Blobs!Crash /\ Restart

PowerLoss == "power" \in Faults /\ Blobs!PowerLoss /\ Restart

\* Without power cuts nobody could tell.
Writeback ==
  /\ "power" \in Faults
  /\ \/ \E k \in Keys : Blobs!Writeback(k)
     \/ \E d \in Dirs : Blobs!WritebackDir(d)
  /\ UNCHANGED <<rows, upVars, admVars, queueVars, rendVars, boot, overlapped>>

\* needThumb || needGallery (mutant: only thumbnails are looked for).
NeedsThumb(k) == ~Blobs!Present(<<k[1], "thumb">>)

NeedsRendition(k) ==
  \/ ~Blobs!Present(<<k[1], "thumb">>)
  \/ k[2] \in Heic /\ ~Blobs!Present(<<k[1], "gallery">>)

\* backfillRenditions looks at one row of its snapshot.
Backfill(k) ==
  /\ k \in boot
  /\ boot' = boot \ {k}
  /\ IF NeedsRendition(k) THEN Enqueue(k) ELSE UNCHANGED queueVars
  /\ UNCHANGED <<blobVars, rows, upVars, admVars, rendVars, overlapped>>

------------------------------------------------------------------------------

InsertPhoto(u) == InsertNew(u) \/ InsertConflict(u) \/ LookupFound(u) \/ LookupGone(u)

Answer(u) == PutFailed(u) \/ PutDone(u) \/ InsertPhoto(u) \/ EnqueueAndAck(u)

Delete(a) == DeleteRow(a) \/ RemoveBlob(a)

Render(p) ==
  \/ Take(p) \/ Check(p) \/ CheckEnds(p) \/ Vips(p) \/ VipsFails(p)
  \/ File(p) \/ Filed(p) \/ Release(p)

Next ==
  \/ \E u \in Uploaders : Answer(u) \/ DbError(u) \/ \E k \in Contents : Upload(u, k)
  \/ \E p \in Procs : BlobStep(p)
  \/ \E a \in Admins : Delete(a) \/ DeleteFails(a) \/ \E h \in Hashes : DeleteStart(a, h)
  \/ \E p \in Renderers : Render(p)
  \/ \E v \in Viewers, h \in Hashes : ViewThumb(v, h) \/ ViewPhoto(v, h)
  \/ \E k \in Contents : Backfill(k)
  \/ Writeback \/ Crash \/ PowerLoss

Spec == Init /\ [][Next]_vars

\* Every goroutine that can run does, and vipsthumbnail ends.
Fairness ==
  /\ \A u \in Uploaders : WF_vars(Answer(u) \/ BlobStep(u))
  /\ \A p \in Renderers : WF_vars(Render(p) \/ BlobStep(p))
  /\ \A a \in Admins : WF_vars(Delete(a))
  /\ WF_vars(\E k \in Contents : Backfill(k))

FairSpec == Spec /\ Fairness

------------------------------------------------------------------------------
(* A photo with a row has its original, complete and on the medium in its  *)
(* directory: this much the code keeps of PRD N6, through uploads, deletes *)
(* and failures.  It does not keep it for an original of which a delete    *)
(* met an upload, that was acknowledged over a name nobody had fsynced, or *)
(* that a power cut took together with a directory that was not on the     *)
(* medium, since MkdirAll and New fsync none (blobstore.go:52-65, 213-221).*)
OriginalKept ==
  \A h \in Hashes :
    rows[h] # NoType /\ OriginalOf(h) \notin overlapped \cup shaky \cup orphaned =>
      page[OriginalOf(h)] = "synced" /\ media[OriginalOf(h)] = "synced"

(* The promise without the exceptions: once nobody is busy with a photo, a *)
(* row comes with its original.                                            *)
Settled(h) ==
  /\ \A u \in Uploaders : up[u] = "idle" \/ upKey[u][1] # h
  /\ \A a \in Admins : adm[a] = "idle" \/ delKey[a][1] # h

AckedKept ==
  \A h \in Hashes : rows[h] # NoType /\ Settled(h) => Blobs!Present(OriginalOf(h))

\* h is as the gallery wants it, or there is nothing to be done for it.
HasRenditions(h) ==
  /\ page[<<h, "thumb">>] = "synced"
  /\ rows[h] \in Heic => page[<<h, "gallery">>] = "synced"
NothingToDo(h) == rows[h] = NoType \/ page[OriginalOf(h)] = "absent"

(* "the appliance self-heals on restart" (main.go:120-122): once it stops  *)
(* crashing, every readable photo gets the renditions it needs, unless the *)
(* full queue turns it away (the next start will look at it again), and    *)
(* provided that no delete comes in between.                               *)
Quiet == <>[][~(Crash \/ PowerLoss)]_vars

SelfHeals ==
  Quiet => \A h \in Hashes \ Broken :
             rows[h] # NoType ~> NothingToDo(h) \/ HasRenditions(h) \/ h \in dropped

\* h is a HEIC photo whatever the file it comes in is called.
AlwaysHeic(h) == \A k \in Contents : k[1] = h => k[2] \in Heic

\* h has no such rendition, and needs one.
Lacks(h, d) == page[<<h, d>>] # "synced" /\ (d = "gallery" => AlwaysHeic(h))

\* Somebody has it still before them: the backfill, the queue, an upload that
\* will queue it, or a worker that will come to it.
Attended(h, d) ==
  \/ \E k \in boot : k[1] = h
  \/ \E i \in DOMAIN queue : queue[i][1] = h
  \/ \E u \in Uploaders : up[u] # "idle" /\ upKey[u][1] = h
  \/ \E w \in Workers :
       rend[w] \notin {"idle", "release"} /\ src[w][1] = h /\ kind[w] \in {"thumb", d}

(* "... so nothing is permanently lost" (pool.go:79-80): as long as a      *)
(* rendition is missing, somebody has the photo before them, or the full   *)
(* queue has turned it away since the last start; the next start looks at  *)
(* it again.  No photo falls between upload, queue, worker and backfill,   *)
(* however they interleave with each other, with handlers that render on a *)
(* miss, and with crashes (pool.go:76-94, main.go:116-146).                *)
(* For instances without deletes, power cuts and failing calls; and with   *)
(* one exception: of a photo that only some of its file names make HEIC    *)
(* (upload.go:219-247), the gallery rendition may be left out, since       *)
(* Enqueue takes the second name's job for the first's (pool.go:85).       *)
NoneForgotten ==
  \A h \in Hashes \ Broken : rows[h] # NoType =>
    \A d \in {"thumb", "gallery"} : Lacks(h, d) => Attended(h, d) \/ h \in dropped

------------------------------------------------------------------------------
(* The steps of the argument for OriginalKept.                             *)

\* Whose blob store call is whose.
CallsMatch ==
  /\ \A u \in Uploaders : up[u] = "put" <=> pc[u] # "idle"
  /\ \A u \in Uploaders : up[u] = "put" => key[u] = upKey[u]
  /\ \A u \in Uploaders : up[u] # "idle" => upKey[u] \in Contents
  /\ \A a \in Admins : adm[a] # "idle" => delKey[a] \in Contents
  /\ \A p \in Renderers : pc[p] # "idle" => key[p] \in Renditions
  /\ \A p \in Renderers : rend[p] # "idle" => src[p] \in Contents
  /\ \A h \in Hashes : rows[h] # NoType => OriginalOf(h) \in Contents

\* The store answers for what an upload or a row relies on, or a power cut
\* has taken it.
Promised ==
  /\ \A h \in Hashes :
       rows[h] # NoType => OriginalOf(h) \in overlapped \cup acked \cup shaky \cup orphaned
  /\ \A u \in Uploaders :
       up[u] = "insert" \/ pc[u] = "ok" => upKey[u] \in overlapped \cup acked \cup shaky \cup orphaned

\* Outside overlapped, a delete and an upload of one original never meet.
Apart ==
  /\ \A u \in Uploaders, a \in Admins :
       Uploading(u) /\ Deleting(a) /\ upKey[u] = delKey[a] => upKey[u] \in overlapped
  /\ \A a \in Admins :
       adm[a] = "original" /\ delKey[a] \notin overlapped => OriginalOf(delKey[a][1]) # delKey[a]
  /\ \A u \in Uploaders : pc[u] = "dirsync" /\ upKey[u] \notin overlapped => u \notin removedUnder

IInv == TypeOK /\ CallsMatch /\ Promised /\ Apart

------------------------------------------------------------------------------
(* The steps of the argument for NoneForgotten.                            *)

\* Whatever a job speaks of is there to be read.
SourcesShown ==
  /\ \A h \in Hashes : rows[h] # NoType => page[OriginalOf(h)] = "synced"
  /\ \A k \in boot : page[k] = "synced" /\ rows[k[1]] # NoType
  /\ \A i \in DOMAIN queue : page[queue[i]] = "synced"
  /\ \A u \in Uploaders : up[u] \in {"insert", "lookup", "enqueue"} => page[upKey[u]] = "synced"
  /\ \A w \in Workers : rend[w] # "idle" => page[src[w]] = "synced"

\* A photo waits once.
WaitsOnce == \A i, j \in DOMAIN queue : queue[i][1] = queue[j][1] => i = j

\* Whose call of Put is whose, and what it has done when it is over.
PutsMatch ==
  /\ \A p \in Procs : pc[p] # "failed"
  /\ \A p \in Procs : pc[p] \in {"dirsync", "ok"} => page[key[p]] = "synced"
  /\ \A p \in Renderers : rend[p] = "put" <=> pc[p] # "idle"
  /\ \A p \in Renderers : rend[p] = "put" => key[p] = Making(p)
  /\ \A w \in Workers : rend[w] = "idle" => kind[w] = "thumb"

\* A worker goes on only past a rendition that is there.
WorkDone ==
  \A w \in Workers : rend[w] # "idle" /\ src[w][1] \notin Broken =>
    /\ rend[w] = "release" \/ kind[w] = "gallery" => page[<<src[w][1], "thumb">>] = "synced"
    /\ rend[w] = "release" /\ src[w][2] \in Heic => page[<<src[w][1], "gallery">>] = "synced"

HealInv == SourcesShown /\ WaitsOnce /\ PutsMatch /\ WorkDone
==============================================================================
