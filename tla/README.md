# A verification of photo-server

photo-server is an unattended photo appliance for one event: guests upload
photos from their phones, a pool of workers makes thumbnails and, for HEIC
photos, browser-viewable JPEGs with `vipsthumbnail`, everybody scrolls through
the gallery and gives hearts, the operator hides or deletes photos and switches
the box off, and systemd brings it back whenever it fails. This directory holds
TLA+ models of that program, TLC configurations that check them on small
instances, and proofs that hold for instances of every size.

## 1. Inventory

Paths are relative to `src/`. "Status" says what the modules here cover.

| Part | State it keeps | Operations | Hard behaviour | What makes it correct | Status |
|---|---|---|---|---|---|
| Process lifecycle: `cmd/photo-server/main.go`, `internal/server/server.go` | the context, the listener, the running requests, the deferred calls | start, open and migrate, backfill, serve, drain for a bounded time, stop the pool, close the database, exit | order of deferred calls, a drain that times out, a signal before anybody listens for it, crashes, restart by systemd | a clean exit cut nothing off; the database closes last; a signal ends the process; a failed process comes back | modelled, without the start without vips |
| Blob store: `internal/blobstore/blobstore.go` | files under content hashes, in directories per kind and shard; the page cache and the medium behind both | `New`, `PutOriginal`, `Put`, `Exists`, `Remove` | goroutines between two system calls of another, power cuts, failing calls, directories made on the way | nothing torn under a final name; what was reported stored survives | modelled; the second holds only as far as section 4 says |
| Conversion pool: `internal/convert/pool.go` | bounded channel, in-flight marks, workers | `Start`, `Enqueue`, worker loop, `Stop` | callers and workers between the steps of each other, a full queue, cancellation | a mark has exactly one owner; queued photos are taken; `Stop` returns | modelled |
| Converter: `internal/convert/convert.go` | none of its own | `GalleryJPEG`, `Thumbnail`, `render` | a file that appears or disappears during a conversion | a photo ends up with its renditions | modelled, the image data abstracted |
| Upload: `internal/server/upload.go` | a request's files | `handleUpload`, `storeOnePart` | duplicates at the same time, delete at the same time, partial failure, the limit, broken connections | a row has its original; each file's report is true; the limit is exact to a byte | modelled |
| Photos table: `internal/store/photos.go` | rows by id and by hash | insert, hide, delete, lists and look-ups | statements of several requests in between | same as above; paging without gaps | partly |
| Hearts: `internal/store/hearts.go`, `internal/server/heart.go` | membership rows and a denormalised count | `ToggleHeart` | deferred transactions over snapshots | the count is the number of rows; a toggle is atomic | modelled |
| Gallery feed and scroll: `internal/server/api.go`, `pages.go`, `assets/gallery.js` | the script's cursor, its flag, the grid | first page, `loadMore`, the observer | uploads, hides and deletes between two fetches, lost answers | no photo twice, none skipped, an end | modelled, without lazy images and the loved filter |
| Photo routes: `thumb.go`, `photoview.go`, `pages.go` | none of their own | `/thumb`, `/photo`, `/original`, `/p` | rendering on a miss, a hide during a request | renditions heal; a hidden photo is not served | partly, without the browser's cache |
| Admin: `internal/server/admin.go` | none of its own | hide, delete, shutdown | delete against upload, shutdown against uploads | see the parts above | partly, without the password |
| Start-up backfill: `main.go:120-146` | none of its own | one pass over the table | a queue smaller than what is missing | the appliance heals after a crash | modelled |
| Database handle: `internal/store/store.go` | open or closed, pragmas | open, close | what SQLite promises under WAL | assumed by the other parts | partly |
| Migrations: `internal/store/migrate.go` | `user_version`, the schema | one transaction per migration, at every start | a crash between two statements, another release at the next start, a number merged late | each applied once, in order; a release that runs has its schema | modelled |
| Guest sessions: `internal/session`, `internal/store/sessions.go`, `internal/server/session.go`, `assets/session.js` | a token in a cookie and in localStorage, a row, a name | `Ensure`, `Adopt`, `bind`, `/session` | first requests at the same time, late answers that write the cookie, dropped cookies | a token has a row; the identity of the day and its name stay | modelled |
| Access gate: `internal/server/access.go` | a cookie | password or `?k=`, redirect, gate page | a tab that types the password after another tab is in | the printed code leads in | modelled, for the guests' routes |
| Upload client: `assets/upload.js`, `polaroid.js`, `resize.js` | queue, count of sends, tries, marks in localStorage | enqueue, pump, send, retry, tap | gate pages and errors for answers, a resize that falls back, reloads | a mark is never wrong; no slot is lost; every file settles | modelled |
| EXIF date: `internal/exif/exif.go` | none | a parser | truncated data | `taken_at` or nothing | not modelled: it decides nothing elsewhere |
| Heart client, viewer, print page, templates, configuration, provisioning | presentation or read once | | | | not modelled: no state that lasts |

How they interact: a request handler calls the blob store, then the database,
then `Pool.Enqueue`; a worker reads the original, writes a rendition through
the blob store and clears the mark; a delete first deletes the row, then removes
the files by their names; `main` ties the life of all of them to one context.
Nothing but the file system and SQLite connects handlers with each other, so
the interesting states are the ones in which one of them is between two calls.
In the browser, the pages of one guest share the cookies and localStorage; every
answer of the server writes the session cookie again.

## 2. Modules

| Module | Models | Built on |
|---|---|---|
| `BlobStore` | one goroutine per element of `Procs`, each at a system call of `PutOriginal` or `Put`; `page` and `media` are what a directory holds in memory and on the medium, `dirs` the directories themselves | implements `BlobShelf` |
| `BlobShelf` | what the blob store promises: a set of complete files, of which those reported stored last until they are discarded, or the directory they stand in goes | |
| `RenditionQueue` | what the pool promises: a bounded queue without duplicates, jobs taken in order, done once, lost in a crash | |
| `ConvertPool` | `Enqueue` split at its lock and its channel, the worker loop at select, render and release, cancellation, `Stop` | implements `RenditionQueue` |
| `PhotoPipeline` | uploads, deletes, the database rows, the workers, pages that render on a miss, the backfill, crashes and power cuts | contains `BlobStore` (every file operation is one of its actions) its queue has the actions of `RenditionQueue`, which `ConvertPool` implements |
| `Migrations` | `migrate` statement by statement, from start to start and release to release | |
| `Lifecycle` | `run()` from `store.Open` to the exit with its deferred calls, `Server.Run`, handlers at commit, enqueue and reply, signals, systemd | contains `ConvertPool` and `Migrations`, implements `RenditionQueue` over all its lives |
| `HeartBoard` | what hearts promise: a toggle flips one heart at one instant and answers with what is true then | |
| `Hearts` | `ToggleHeart` statement by statement over snapshots and the write lock, among all other writers | implements `HeartBoard` |
| `Gallery` | pages of the feed, the scroll script, the four routes of one photo, hides, deletes, uploads | |
| `GuestSession` | one browser with its tabs and late requests, `requireAccess`, `Ensure`, `Adopt`, `bind`, `session.js` | |
| `UploadRequest` | `handleUpload` part by part, the size limit, the statuses, broken connections | |
| `UploadClient` | the queue of `upload.js`, the shots of `polaroid.js`, what `resize.js` makes of a file, reloads | extends `UploadRequest`, implements `UploadPromise` |
| `UploadPromise` | what the upload pages promise a guest: a photo is pending until it is shared, refused or handed back | |
| `MC*` | the instances for TLC | |
| `*Proofs` | theorems and proofs about the module they are named after | |

### How state and actions correspond to the code

*BlobStore.* `pc[p]` is the next system call of goroutine `p` in `PutOriginal`
(copy, sync, stat, mkdir, rename, fsync of the directory) or in `Put` (stat first,
then the same without the second look). `page[k]` and `media[k]` say how much of
the file is there, "absent", "partial", "whole" or "synced": a name can be there in
memory and not on the medium, and a file renamed before it was fsynced may come
back partial. `dirs[d]` follows the directories above the files, the kinds that
`New` makes and the shards that `MkdirAll` makes: "none", "made" (in memory) or
"kept" (its entry is on the medium too). `FsyncDir` brings what the shard holds to
the medium, not the shard's own entry in the directory above. What stands below
a directory that is not on the medium is gone after a power cut (`Left`), and `New`
makes the kinds again (`Fresh`). `Writeback` and `WritebackDir` let the kernel write
any entry at any time. So the model orders nothing that is not fsynced. The constant
`SyncsPath` is the one thing a file system may add: with it, a directory's entry
reaches the medium no later than what the directory holds, as a journal that
commits in order has it. Every run has it FALSE.

Three history variables say what callers were told: `acked` are the keys reported
stored after their directory was fsynced, or over a name that was on the medium;
`shaky` those reported by the dedup return over a name that another goroutine had
renamed and not fsynced; `orphaned` those of `acked` that a power cut took with a
directory above them (see section 4).

*ConvertPool.* `call[c]` is where a call of `Enqueue` is (mark, send or drop,
unmark), `jobs` the channel, `inFlt` the set of marks, `worker[w]` where a worker
is. A full channel drops the job and takes the mark back, as `pool.go:90-92`.
A worker whose context is cancelled may still take a job, as Go's select picks
any ready branch.

*PhotoPipeline.* `up[u]` is the next database or pool call of an upload, `adm[a]`
what a delete has still to remove, `rend[p]` the step of a conversion. `rows` is
the committed table. `Faults` lists what may go wrong in an instance: "crash",
"power", "io" (a file operation fails), "timeout" (of a page's rendering) and
"db". `dropped` is a history variable, the photos that a full queue turned away since
the last start and that nobody has queued after it. `overlapped` is another, the
originals for which a delete and an upload were under way at the same time. Look-up and row insertion are
separate statements, so `INSERT ... ON CONFLICT DO NOTHING` followed by a delete
leads to `LookupGone`.

*Migrations.* `schema` is the list of committed migrations, each with the release
that applied it (a history variable), `version` is `user_version`, `reached` the
last version the loop has dealt with, `stage` the statement `migrate` is at. A
transaction that is under way leaves nothing behind when the process dies.

*Lifecycle.* `main` is the statement `run()` is at: "open" (everything before
`signal.NotifyContext`, with `Migrations` inside), "backfill", "serve", "drain",
then the deferred calls in their order "stop", "wait" (`pool.Stop`), "cancel"
(`stop()`), "close" (`st.Close`), "exit". The pool's variables are those of
`ConvertPool`; a crash or an exit resets them. `cut` are the requests that an
exit cut off.

*Hearts.* `req[r]` is the statement a transaction is at. `stale` are the
transactions whose snapshot another writer's commit made old; `writer` holds
the write lock. `draftLikers` and `draftCount` are the uncommitted changes.

*Gallery.* `status` and `content` are the table by id. `tiles` counts the tiles
per content in the grid; `cursor`, `loading`, `watching` and `near` are the
script's variables and the state of its observer. A fetch is asked, answered or
lost; the page it brings is fixed when the server answers and appended when it
arrives. `steady` and `secret` are history variables: what was visible all the
time since the page was opened, and that the photo asked for has been hidden
ever since.

*GuestSession.* `cookie`, `pass` and `saved` are the browser's two cookies and its
localStorage; `req[c]` is the request under way on a channel, with the cookies it
was sent with, and later the answer that travels back with its `Set-Cookie`.
Handling is one step, as its statements concern one row; its three ways to fail
are `UpsertFails` (no cookie), `LookupFails` (cookie, then an error) and a name
that is only logged (in `BindOk`). `Spare` is a bound: the guest starts no request
that could need more tokens than the instance has.

*UploadRequest, UploadClient.* `req[r]` is a request at the server: `body` its files,
`results` what `storeOnePart` returned for those read so far, `cut` that its
connection is gone, in which case it may still store files or end. `place[i]` is
what the row or tile of a file shows; `queue`, `active` and `tries` are the
script's variables, `done` the marks. `Sends[f]` is the set of contents that
`resize` may make of file `f`: the shrunk one, or the original when decoding
fails or takes 15 s. `Copying` is the reader with its limit: every way in which
its reads can be cut.

### Abstractions worth knowing

- `Enqueue` is one step in `PhotoPipeline`, written as `RenditionQueue` has it, which
  `ConvertPool` is proved to implement; the split steps beside handlers and restarts
  are in `Lifecycle`. One thing is lost: a second `Enqueue` of a photo whose
  first call is about to be dropped returns as a duplicate and is dropped with it.
- Abandoned `tmp-*` files of the blob store are litter that no operation reads. A
  directory once made is never removed, as in the code.
- A content is a hash with the type it is sniffed as; two types of one hash
  stand for bytes that two uploads declare differently.
- SQLite is modelled by what the code relies on: statements are atomic, a commit
  is durable (`synchronous=FULL`), readers have snapshots, there is one writer.
- A heart for a photo that is hidden or absent answers 404 and changes nothing.
- The handlers that render on a miss look once more at the file before they do;
  `Check` stands for both looks.
- One page of the guest is open at a time in `UploadClient` (uploads, polaroid, or
  the form without scripts); pages beside each other share only the marks.
- In `UploadRequest` a row, once there, stays: deletes are in `PhotoPipeline`.
- A session token that is malformed is treated by the code like none at all.
- A process may stop at any time, be it a panic, SIGKILL or a second signal.

## 3. Runs

| Run | Question | Bounds | Result |
|---|---|---|---|
| `BlobStore` | Are writes atomic, what of that which was reported stored is kept, is the store the shelf it promises? | 3 goroutines, an original and a rendition; one kind made by `New`, two shards made by `MkdirAll` | `NoTornBlob`, `AckedDurable`, `ImplementsShelf`, `OnlyRemoved` hold |
| `ConvertPool` | Is every mark cleared by exactly one owner, is the pool the queue it promises, does work go on and does `Stop` return? | 2 callers, 2 workers, 3 photos, 2 slots | `MarkHeld`, `OneHolder`, `IInv`, `ImplementsQueue`, `QueuedIsTaken`, `MarkCleared`, `StopReturns` hold |
| `PipelineStore` | Does a row keep its original? | 2 uploads, a delete, one hash under 2 types, the shard of both originals; power cuts, i/o and database errors | `OriginalKept` holds |
| `PipelineHeals` | Does every readable photo get its renditions, is none forgotten between two hands? | 2 photos, one unreadable, an upload at a time, a worker, a page that renders on a miss and may time out, 1 slot; any number of crashes | `NoneForgotten`, `SelfHeals` hold |
| `Lifecycle` | Does the shutdown keep its order and end, does a failed process come back, does the schema survive crashes and other releases, and is the pool one queue over all lives of the process? | 2 requests, a worker, 2 photos, 1 slot, 2 releases, the second with a number below the first's; signals, crashes, failing starts, socket failures | `CleanExit`, `ClosedLast`, `AppliedOnce`, `SchemaComplete`, `ImplementsQueue`, `SignalEnds`, `ComesBack` hold |
| `Hearts` | Can count and rows diverge, is a toggle atomic? | 2 requests, 2 guests, 2 photos | `CountIsLikers`, `IInv`, `ImplementsBoard` hold |
| `Gallery` | Is a photo shown twice or skipped, and does the scroll end? Which routes respect a hide? | 2 contents, 4 ids, pages of 1, 2 requests at once, routes `/thumb` and `/photo` | `NoTileTwice`, `NothingSkipped`, `OnlyThumbShowsHidden`, `EndReached` hold |
| `Guest` | Who does the server take the guest for? | 2 tabs, another connection, 2 tokens, a name; dropped cookies, private mode, lost connections, database errors | `RowBacked`, `IInv`, `NamesStay`, `SavedStays`, `CookieStays`, `ScanEnters` hold |
| `Upload` | Are marks and answers true, is the limit exact, is the promise to the guest kept, does every file settle? | 2 picked files and a shot of one photo, a form with 0 or 2 files, cap 1, 1 retry, a limit of 2; gate pages, session and database errors, broken connections | `AnswerTrue`, `LimitKept`, `DoneIsStored`, `SlotsUsed`, `ImplementsPromise`, `Settles` hold |
| `PipelineAckRace` | Does a row keep its original without any exception? | 2 uploads, a delete, no fault | `AckedKept` is violated |
| `LifecycleListen` | Does a server whose socket failed end? | 1 request, a worker | `FailureEnds` is violated |
| `BlobStoreShard` | Does an acknowledged upload survive a power cut, as the comment says? | 1 goroutine, an original, its shard | `AckSurvives` is violated |

Why the bounds are enough. The invariants speak of one key, one photo, one heart
or one pair of actors, and every race named in the code needs two actors and one
object; the third goroutine of `BlobStore` stands between two of them, the third
photo of `ConvertPool` meets a full queue of two. Of directories one kind stands for
all three, above a shard, and the other key has a shard alone. The two photos of
`PipelineHeals` meet a queue of one slot, so that an upload's job and the backfill's
are turned away. `PipelineStore` has no process crash: its
power cut stops the same goroutines at the same points and takes the page cache
besides. Crashes alone are in the `BlobStore` run, in `PipelineHeals` and, as it is
for every set of `Faults`, in the theorem `OriginalsKept`. Pages of one photo make two
photos three fetches, the last of them empty, and the two remaining ids are
enough for a photo to be uploaded during the scroll and for one to be deleted and
uploaded again. A second identity of a guest needs two tokens and two requests at
once, one of which is late: two tabs and one more connection have that. Two
picked files over a cap of one meet the full queue, the retry and the tap; the
photo that is one byte too long as it is and fits once it is shrunk takes the
limit to both sides, and the forms have a first file that fails and a second
that does not. Two releases of which the later adds a number below the earlier
one's last are the smallest case of a late migration; what both have in common
before that is left out. Crashes are not bounded: only counters are, and there are none
besides the ids and the tries. For the invariants the proofs of section 5 remove the bounds.
A run takes from a second to about three minutes.

The inductive invariants that no run lists (`IInv` of `BlobStore`, `PhotoPipeline`,
`Gallery`, `Lifecycle` and `UploadClient`, and `HealInv` of `PhotoPipeline` on `PipelineHeals`)
are proved; adding the name to the `.cfg` has TLC check it as well.

Deadlock is checked in all runs but `ConvertPool`, `Lifecycle`,
`LifecycleListen` and `Guest`: a pool that has stopped, a process that was told to
end and a guest who has run out of things to do really have nothing left to do.

### Fairness, and why the code justifies it

- `ConvertPool`, `Lifecycle`: a goroutine that can go on does (weak fairness; the
  Go scheduler is preemptive). A conversion ends only if assumed by name
  (`ConversionsEnd`), as `Pool.worker` has no timeout, except after cancellation,
  when `exec.CommandContext` kills it. Neither `SignalEnds` nor `StopReturns`
  needs the assumption. Clients may stall for ever in an upload: no fairness on
  the client, the drain's timer is what ends it. systemd restarts
  (`Restart=on-failure`); its start limit is not modelled. The two ready
  branches of a worker's select are not chosen fairly: `StopReturns` relies on
  `Enqueue` refusing jobs after `Stop`, so that the queue runs dry.
- `PhotoPipeline`: the same for the steps of uploads, workers, deletes and the
  backfill, and conversions end. `SelfHeals` has the hypothesis `Quiet`: from some
  time on the process no longer crashes.
- `Lifecycle`, the start: `migrate` is part of `main`'s steps. `Deploy` and the
  signals have no fairness, nobody has to send them.
- `Guest`: the server answers a tab and the tab goes on with what it is given, its
  scripts included; nothing else is fair, and the connection may break instead.
- `Upload`: `resize` resolves within its `TIMEOUT` (`resize.js:35`), a request ends
  one way or the other, a pause ends (`setTimeout`), the server goes on with what
  it has. The guest owes nothing: a file that waits for a tap has settled. An XHR
  that never ends would keep its slot, as the script sets no timeout.
- `Gallery`: the guest goes on scrolling to and fro (`ComesNear` and `GoesAway`),
  and the network does not lose every answer (strong fairness of the answer and of
  its arrival, while `Fails` may come as often as it likes). The first is needed
  because a failed fetch is not repeated while the sentinel stays near
  (`gallery.js:89-92`): the observer reports changes only.

## 4. Disagreements between the code and its words

1. *A re-upload during a delete loses its original* (`PipelineAckRace`).
   `handleAdminDelete` deletes the row, then removes the files. A re-upload that
   finds the old file under the name dedups to it and commits a new row, and the
   delete then removes the file. Nobody crashed, the guest has read "ok", and the
   original is gone, against PRD N6.
2. *A socket that fails leaves a process that serves nobody* (`LifecycleListen`).
   Deferred calls run last-first: `pool.Stop` waits for workers that leave when
   the context is cancelled, and the call that cancels it is deferred earlier.
   systemd sees a running process.
3. *The first upload of a shard rests on the file system* (`BlobStoreShard`).
   `placeAtomically` makes the missing shard directory, renames into it and fsyncs
   the shard (`blobstore.go:213-221`). The shard's own entry in `originals/` is not
   fsynced by anybody, nor is that of `originals/` after `New` has made it. By what
   fsync promises, a power cut may take the shard with every original that was
   acknowledged in it, against `blobstore.go:15-17` ("fsync the containing directory
   so an ack'd upload survives a hard power-off"). PRD N6 asks for a "journaled
   filesystem" as well; where its journal commits in order, `SyncsPath`, the loss
   cannot happen (`JournalSaves`, `JournalKeepsOriginals`). Each of the 256 shards
   is exposed once, from its first upload until the kernel has written the new
   directory back. `OnlyRemoved` says that from then on nothing but its removal
   takes an acknowledged blob.

Some more are behaviours of the models that no run is spent on:

- *A hide is not immediate on /thumb* (`OnlyThumbShowsHidden` in `Gallery`).
  `photos.go:216-218` says that hidden photos are excluded from /thumb too, but
  `handleThumb` looks at the file and never at `hidden_at`. The property names the
  route as its one exception and shows that the others keep the promise.

- *busy_timeout does not help a transaction that upgrades* (`Busy` in `Hearts`). The
  transaction of a heart reads first and writes later, and SQLite refuses at once
  when somebody else has written in between, against `store.go:50`.
- *A transient failure is final* (`LoadedRefused` in `UploadClient`). When the only
  file of a request fails for the disk or the database, the answer is 415
  (`upload.go:126-128`), which `upload.js:138-140` shows as "not an image" and never
  retries. `DoneIsStored` shows that it is at least not marked as shared.
- *A retry is not always idempotent* (`upload.js:9-11`). When the first try sent the
  shrunk photo and the second the original, because decoding took too long, the
  two have different hashes and both are stored: `Sends[f]` has two members.
- *The right password can lead to "not found"* (`NoRoute` in `GuestSession`). Behind
  the gate nothing is routed at `POST /access`: a gate page left open in a second
  tab is answered with 404 once the first tab is in.
- *A late migration is skipped without a word* (`Late` in `Migrations`).
  `migrate.go:70-72` wants packaging mistakes to fail loudly; a number merged below
  the last applied one is passed over by `migrate.go:36` in every old database.

- *One photo under two names* (`AlwaysHeic` in `PhotoPipeline`). `detectImage` falls
  back to the file name for bytes it does not know (`upload.go:234-243`), so the
  same bytes can come as `x.jpg` and as `x.heic`. If the row is the HEIC one's and
  its `Enqueue` meets the mark of the other's job (`pool.go:85`, by hash alone),
  that job makes no gallery rendition, and nobody else has the photo before them
  until the next start or a visit to its page. `NoneForgotten` names it as its
  exception.

Three exceptions are stated inside properties that hold instead of in runs of their
own, besides `overlapped`, which `PipelineAckRace` is about:

- `AckedDurable` and `OriginalKept` exclude the keys in `shaky`. `PutOriginal`
  reports success as soon as it sees the final name, also when another call has
  renamed the file there and has not fsynced the directory. Whether a power cut
  can then keep the row and lose the file depends on the file system: the model
  orders nothing that is not fsynced, a journalling file system may.
- They exclude the keys in `orphaned`, the loss of `BlobStoreShard`.
- `NoneForgotten` and `SelfHeals` exclude the photos in `dropped`. The comment at
  `pool.go:78-80` counts on the backfill for dropped jobs, but the backfill uses the
  same `Enqueue`, so with more than 256 missing photos it drops its own jobs. The
  properties ask that whoever was not turned away since the last start is looked
  after; who was waits for a visit to the photo or for another start.

## 5. Proofs

`tlapm` checks every theorem; nothing is assumed but the named assumptions of the
modules (`NoKeyAssumption`; `DirsAssumption` and `PathsAssumption`: what is above a
directory is above what it holds; `PoolAssumption`: the queue has a slot;
`PipelineAssumption` and `RolesAssumption`: types, contents and goroutines are
of different kinds; `LifecycleAssumption`; `HeartsAssumption`; `GalleryAssumption`:
a page holds a photo; `GuestAssumption`; `RequestAssumption` and
`ClientAssumption`: the cap is at least one). Each safety
argument has the same shape: an inductive invariant `IInv`, checked by TLC
first, one lemma per action or group of actions, and the theorem by temporal
induction.

- `BlobStoreProofs`: `NeverTorn`, `AckedKeepsIts`. Alone, `NoTornBlob` is not
  inductive: a rename could bring an unsynced temp file. `TempReady` says that who
  is about to place a file has fsynced it, `Placed` that who is about to fsync the
  directory still finds its file, unless it was removed meanwhile. All of it is for
  either value of `SyncsPath` and any tree of directories. `FirmSurvives` draws from
  it what lasts without help of the file system: below directories that are on the
  medium only `Remove` takes an acknowledged blob. `JournalSaves` assumes `SyncsPath`
  and needs one more invariant, `PathFirst`: what is on the medium has all its
  directories there, so that `orphaned` stays empty. `Implements` shows every step to
  be one of `BlobShelf` or a stutter: a file appears at its rename, what is reported
  is complete and settled at that instant, and a power cut takes what has not settled
  and what stands in no firm directory. The abstract shelf knows the latter as its own
  set, `firm`, which only grows (`FirmGrows`).
- `ConvertPoolProofs`: `MarksAreHeld`, `NoDuplicateWork`, `Implements`. A mark has
  a call, a slot or a worker as its owner and what is owned is marked
  (`HeldMarked`); hence who sets a mark finds no other owner, and the job it sends
  is not in the queue, which is what the abstract `Accept` requires.
- `PhotoPipelineProofs`: `OriginalsKept`. First every step of the pipeline is a
  step of the blob store (`UsesTheStore`), which carries the store's invariant
  over. Then `Promised` says that a row, or an upload about to insert one, has its
  original among the keys the store has reported, or among the exceptions, and
  `Apart` that outside `overlapped` no delete meets an upload of the same original.
  `StoreIsShelf` carries the store's refinement over, `JournalKeepsOriginals` its
  `JournalSaves`: under `SyncsPath` the exception of the directories falls away.
- `OriginalsShown` and `DeletesAloneLose` (same module) say what the exceptions are
  made of. Where the power does not fail, a row has its original in spite of
  `shaky` and `orphaned`, unless a delete met its upload; where nobody deletes either,
  `AckedKept`,
  which `PipelineAckRace` violates, holds without exception. Both have a hypothesis
  on the constants `Faults` and `Admins` that says which instances they are about.
- `HealInductive`, `NobodyForgotten`, `RestMeansDone` (same module) are the safety half
  of `SelfHeals`, for instances that are `Calm`: nobody deletes, no call fails and
  the power stays on, but the process crashes and handlers give up at any time,
  with a queue of any length. `NoneForgotten` alone is not inductive.
  `HealInv` adds that what a job speaks of is there to be read (`SourcesShown`), that
  a photo waits once (`WaitsOnce`), whose call of `Put` is whose and what it has done
  (`PutsMatch`), and that a worker goes on only past a rendition that is there
  (`WorkDone`). Then each of the four who can have a photo before them hands it on
  (`BootHandsOn`, `QueueHandsOn`, `UploadHandsOn`, `WorkerHandsOn`); the one place where
  a photo drops out is a full queue, and there `Enqueue` notes it in `dropped`, from
  which it goes only by being queued or by a restart, when the backfill has it
  (`NoteStays`). `RestMeansDone` draws the conclusion: when backfill, queue,
  uploads and workers have nothing left, the renditions of every photo that was not
  turned away are there. Both ask for the
  gallery rendition only of a photo that is HEIC under every name it comes with
  (`AlwaysHeic`, see section 4).
- `LifecycleProofs`: `CleanExitCutsNothing`, `StoreClosesLast`. Every step is a
  step of the pool, keeps it, or starts it anew, so its invariant holds across
  restarts; `ResultKnown`, `Quiescent`, `NobodyListens` and `PoolDown` follow the
  deferred calls down to the exit. `MigrationsOnce` and `SchemaIsComplete` are about
  the same process: every step is one of `Migrations`, its end, a start, or leaves
  the database alone (`StepOfDatabase`). `History` says that whatever a release had
  below one of its applied migrations is there or came late; at the next start,
  which may be another release's, `ReadKeeps` turns that into the same fact about
  everything up to `user_version` (`Reached`), from which the loop goes on.
  `QueueAcrossRestarts` carries the refinement of the pool over to the process: what
  `ConvertPool` is in one life, `RenditionQueue` with its `Forget` is over all of them.
- `HeartsProofs`: `CountNeverDiverges`, `Implements`. `DraftRight` says how far the
  draft of the transaction that holds the lock is ahead of the tables at each
  statement, `SnapshotTrue` that who may still write sees the photo as it is. The
  refinement takes the commit as the instant of the toggle.
- `GalleryProofs`: `NeverTwice`, `NeverSkipped`. The argument rests on `InOrder`:
  ids are handed out in order, so of the uploads of one content only the last can
  have a row, and what is older than the cursor cannot be in the grid under another
  id (`Ahead`). A page under way is therefore new to the grid, and `PageIsWhole`
  shows that it leaves out nothing down to its own cursor: among the ids left out
  take the newest; if the page were not full, all newer ones were in it, and they
  are too many. `Ends` gets that newest id from the well-foundedness of strict
  inclusion of finite sets. `RoutesHide` is about the four routes: who asks the
  database learns of a hide that came before the question (`MetaHides`).
- `GuestSessionProofs`: `TokensHaveRows`, `NamesAreKept`, `SavedIsKept`,
  `CookieIsKept`. `AnswersTrue` ties the token of an answer to what its request
  presented, which is what makes an answer that changes the identity one to a
  request that did not present it; the three action properties follow from the
  invariant step by step.
- `UploadClientProofs`: `MarksAreTrue`, `SlotsAreUsed`, `AnswersAreTrue`. `Lines`
  gives each row a request of its own, with the content `resize` made of its file,
  so that the answer it reads is about that file. For the slots, `QueueOnce` makes
  the queue the rows that say "queued", and a lemma about `Pump` counts what it
  starts, so that the count of sends stays the cardinality of `Busy`.
  `PromiseIsKept` shows every step to be one of `UploadPromise` or a stutter: a photo
  that is shared was stored in one of the forms `resize` gave it, it is handed back
  after exactly one try more than the maximum, and only the guest takes it up again.
- `LimitIsKept` (same module) is about `Copying`, a recursive function, for every size
  of file and every way in which its bytes arrive. The provers cannot be given an
  induction over data. Instead `Ending` says in closed form what the reader can end
  with; being a solution of the recursive equation it shows that there is one
  (`CopyingExists`), and `CopyingEnds` takes the least counterexample: were there a
  length for which the two differ, there would be a least one (`<` is well-founded on
  the naturals), and one read on, the lengths are smaller.

Only model-checked: the liveness properties (`QueuedIsTaken`, `MarkCleared`,
`StopReturns`, `SelfHeals`, `SignalEnds`, `ComesBack`, `EndReached`, `ScanEnters`,
`Settles`), since fairness and ENABLED are out of the prover's reach. Every
invariant, action property and refinement that a passing run checks is proved, and `AckSurvives`, which `BlobStoreShard` violates, under the
assumption that is missing there. That
a violation run finds its counterexample is a matter of that instance.

## 6. Plan

Done, in this order: `BlobStore`, `ConvertPool` with `RenditionQueue`,
`PhotoPipeline` over the store and the queue, `Lifecycle` with the real pool, `Hearts` with
`HeartBoard`, `Gallery`, `GuestSession`, `UploadRequest` with `UploadClient`,
`Migrations` inside `Lifecycle`, `BlobShelf` and `UploadPromise`, and the proofs of each.

Next, in this order:

1. In `PhotoPipeline`: which renditions of a deleted photo can stay (a conversion
   that was under way), and a photo deleted and uploaded again while its first
   job is marked.
2. The operator's shutdown page against a drain that times out, after which
   systemd starts the process again.
3. The loved filter and a guest's own uploads in `Gallery`, and the EXIF date as a
   bounded algorithm.
4. Proofs of the safety halves of the other liveness properties, as `NoneForgotten`
   is one of `SelfHeals`: what is measured by the steps that remain never grows
   (`Settles`, `EndReached`, the shutdown of `SignalEnds`); and `NoneForgotten` under
   failing calls and power cuts.

The number of runs stays at about a dozen: a new module brings a run and an older
question that a proof has settled gives its place.

Not modelled: configuration, logging, templates, the print page, the heart client
and the viewer (presentation, or read once and never changed); the leaderboard,
counters and the operator's dashboard (they only read); the EXIF parser; network
and cloud provisioning.

## 7. Reading and repeating

`tlc -config <Run>.cfg <MC module>` repeats a run, `tlapm <Module>Proofs.tla` a
proof. `PROJECT.json` maps every definition to the lines it models and lists, for
each property, a small change of the code's model (an operator whose comment says
"mutant") that breaks it.
