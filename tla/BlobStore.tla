------------------------------ MODULE BlobStore ------------------------------
(***************************************************************************)
(* internal/blobstore: content-addressed files under originals/, thumbs/   *)
(* and gallery/, written by several goroutines at once, on a file system   *)
(* that may lose power at any moment.                                      *)
(*                                                                         *)
(* A key stands for one path (kind, hash, extension).  A file is followed  *)
(* twice: in the page cache, which is what the running programs see, and   *)
(* on the medium, which is what is left after a power cut.  The contents   *)
(* of a file are abstracted to how much of them is there.                  *)
(*                                                                         *)
(* So are the directories above it, the kind and the shard: each has an    *)
(* entry of its own in the directory above, which no call of the store     *)
(* fsyncs.  What is on the medium under a directory that is not cannot be  *)
(* found after a power cut.                                                *)
(***************************************************************************)

CONSTANTS Procs,       \* goroutines that call the store
          Originals,   \* keys written by PutOriginal
          Renditions,  \* keys written by Put
          NoKey,       \* not a key
          Dirs,        \* directories in the data directory: kinds and shards
          Kinds,       \* those that New makes
          Above,       \* key or directory -> the directories above it
          SyncsPath    \* does fsync of a directory bring the entries of the
                       \* directories above it to the medium as well?  (A
                       \* journal does, if it commits in order; POSIX does
                       \* not ask for it.)

Keys == Originals \cup Renditions

ASSUME NoKeyAssumption == NoKey \notin Keys

ASSUME DirsAssumption ==
  /\ Kinds \subseteq Dirs
  /\ Above \in [Keys \cup Dirs -> SUBSET Dirs]
  /\ \A x \in Keys \cup Dirs : \A d \in Above[x] : Above[d] \subseteq Above[x]

VARIABLES page,     \* key -> what the running kernel shows under the name
          media,    \* key -> what its directory holds on the medium
          dirs,     \* directory -> is it there, and is its entry on the medium
          temp,     \* goroutine -> its tmp-* file
          pc,       \* goroutine -> where it is in PutOriginal or Put
          key,      \* goroutine -> the key it is writing
          removedUnder, \* goroutines whose file was removed after they renamed it
          acked,    \* keys whose last writer was told "stored" and had its
                    \* directory fsynced, or saw a name that was (history)
          shaky,    \* keys whose last writer was told "stored" because the
                    \* name existed, though nobody had fsynced it (history)
          orphaned  \* acked keys that a power cut took together with a
                    \* directory above them (history)

vars == <<page, media, dirs, temp, pc, key, removedUnder, acked, shaky, orphaned>>

FileState == {"absent", "partial", "whole", "synced"}

DirState == {"none", "made", "kept"}

Busy == {"copy", "sync", "stat", "mkdir", "place", "dirsync"}

TypeOK ==
  /\ page \in [Keys -> FileState]
  /\ media \in [Keys -> FileState]
  /\ dirs \in [Dirs -> DirState]
  /\ temp \in [Procs -> FileState]
  /\ pc \in [Procs -> Busy \cup {"idle", "ok", "failed"}]
  /\ key \in [Procs -> Keys \cup {NoKey}]
  /\ removedUnder \subseteq Procs
  /\ acked \subseteq Keys
  /\ shaky \subseteq Keys
  /\ orphaned \subseteq Keys

\* What New makes of a directory that is not there yet.
Fresh(d) == IF d \in Kinds THEN "made" ELSE "none"

\* First boot: New has just made the directories of the kinds.
Init ==
  /\ page = [k \in Keys |-> "absent"]
  /\ media = [k \in Keys |-> "absent"]
  /\ dirs = [d \in Dirs |-> Fresh(d)]
  /\ temp = [p \in Procs |-> "absent"]
  /\ pc = [p \in Procs |-> "idle"]
  /\ key = [p \in Procs |-> NoKey]
  /\ removedUnder = {}
  /\ acked = {}
  /\ shaky = {}
  /\ orphaned = {}

------------------------------------------------------------------------------
(* What the kernel does for the program.                                   *)

\* A directory entry that reaches the medium before the data it names has
\* been fsynced names a torn file.
Flushed(f) == IF f = "whole" THEN "partial" ELSE f

\* Every directory above x would still be found after a power cut.
Reached(x) == \A d \in Above[x] : dirs[d] = "kept"

\* os.Stat(final) == nil
Present(k) == page[k] # "absent"

\* fsync of the temp file (mutant: the fsync is forgotten).
NotSynced(f) == f
Synced(f) == "synced"

\* fsync of the shard directory: the entries in it reach the medium, its own
\* in the directory above only with SyncsPath (mutant: the fsync is forgotten).
DirNotSynced(k) == media[k]
DirSynced(k) == Flushed(page[k])

PathSynced(k) ==
  IF SyncsPath THEN [d \in Dirs |-> IF d \in Above[k] THEN "kept" ELSE dirs[d]] ELSE dirs

\* Success is reported for k.  own: the caller renamed and fsynced the
\* entry itself; otherwise it only saw that the name exists.
Ack(k, own) ==
  /\ IF own \/ media[k] = "synced"
       THEN acked' = acked \cup {k} /\ shaky' = shaky \ {k}
       ELSE shaky' = shaky \cup {k} /\ acked' = acked
  /\ orphaned' = orphaned \ {k}

------------------------------------------------------------------------------
(* PutOriginal: temp file first, and only then is the name known.          *)

PutOriginal(p, k) ==
  /\ pc[p] = "idle"
  /\ k \in Originals
  /\ pc' = [pc EXCEPT ![p] = "copy"]
  /\ key' = [key EXCEPT ![p] = k]
  /\ temp' = [temp EXCEPT ![p] = "partial"]
  /\ UNCHANGED <<page, media, dirs, removedUnder, acked, shaky, orphaned>>

\* Put: the name is known, and a blob already there ends the call.
PutPresent(p, k) ==
  /\ pc[p] = "idle"
  /\ k \in Renditions
  /\ Present(k)
  /\ pc' = [pc EXCEPT ![p] = "ok"]
  /\ key' = [key EXCEPT ![p] = k]
  /\ Ack(k, FALSE)
  /\ UNCHANGED <<page, media, dirs, temp, removedUnder>>

PutAbsent(p, k) ==
  /\ pc[p] = "idle"
  /\ k \in Renditions
  /\ ~Present(k)
  /\ pc' = [pc EXCEPT ![p] = "copy"]
  /\ key' = [key EXCEPT ![p] = k]
  /\ temp' = [temp EXCEPT ![p] = "partial"]
  /\ UNCHANGED <<page, media, dirs, removedUnder, acked, shaky, orphaned>>

Put(p, k) == PutPresent(p, k) \/ PutAbsent(p, k)

Copy(p) ==
  /\ pc[p] = "copy"
  /\ pc' = [pc EXCEPT ![p] = "sync"]
  /\ temp' = [temp EXCEPT ![p] = "whole"]
  /\ UNCHANGED <<page, media, dirs, key, removedUnder, acked, shaky, orphaned>>

Sync(p) ==
  /\ pc[p] = "sync"
  /\ pc' = [pc EXCEPT ![p] = IF key[p] \in Originals THEN "stat" ELSE "mkdir"]
  /\ temp' = [temp EXCEPT ![p] = Synced(temp[p])]
  /\ UNCHANGED <<page, media, dirs, key, removedUnder, acked, shaky, orphaned>>

\* PutOriginal's second look: identical content is already filed.
StatPresent(p) ==
  /\ pc[p] = "stat"
  /\ Present(key[p])
  /\ pc' = [pc EXCEPT ![p] = "ok"]
  /\ temp' = [temp EXCEPT ![p] = "absent"]
  /\ Ack(key[p], FALSE)
  /\ UNCHANGED <<page, media, dirs, key, removedUnder>>

StatAbsent(p) ==
  /\ pc[p] = "stat"
  /\ ~Present(key[p])
  /\ pc' = [pc EXCEPT ![p] = "mkdir"]
  /\ UNCHANGED <<page, media, dirs, temp, key, removedUnder, acked, shaky, orphaned>>

\* placeAtomically: MkdirAll makes what is missing of the path and fsyncs
\* nothing; then the rename, then fsync of the shard directory alone.
Mkdir(p) ==
  /\ pc[p] = "mkdir"
  /\ pc' = [pc EXCEPT ![p] = "place"]
  /\ dirs' = [d \in Dirs |-> IF d \in Above[key[p]] /\ dirs[d] = "none" THEN "made" ELSE dirs[d]]
  /\ UNCHANGED <<page, media, temp, key, removedUnder, acked, shaky, orphaned>>

Rename(p) ==
  /\ pc[p] = "place"
  /\ pc' = [pc EXCEPT ![p] = "dirsync"]
  /\ page' = [page EXCEPT ![key[p]] = temp[p]]
  /\ temp' = [temp EXCEPT ![p] = "absent"]
  /\ UNCHANGED <<media, dirs, key, removedUnder, acked, shaky, orphaned>>

FsyncDir(p) ==
  /\ pc[p] = "dirsync"
  /\ pc' = [pc EXCEPT ![p] = "ok"]
  /\ media' = [media EXCEPT ![key[p]] = DirSynced(key[p])]
  /\ dirs' = PathSynced(key[p])
  /\ IF p \in removedUnder
       THEN UNCHANGED <<acked, shaky, orphaned>>
       ELSE Ack(key[p], TRUE)
  /\ removedUnder' = removedUnder \ {p}
  /\ UNCHANGED <<page, temp, key>>

\* Any system call may fail; the deferred cleanup drops the temp file.
Fail(p) ==
  /\ pc[p] \in {"copy", "sync", "mkdir", "place", "dirsync"}
  /\ pc' = [pc EXCEPT ![p] = "failed"]
  /\ temp' = [temp EXCEPT ![p] = "absent"]
  /\ removedUnder' = removedUnder \ {p}
  /\ UNCHANGED <<page, media, dirs, key, acked, shaky, orphaned>>

\* The caller takes the result.
Return(p) ==
  /\ pc[p] \in {"ok", "failed"}
  /\ pc' = [pc EXCEPT ![p] = "idle"]
  /\ key' = [key EXCEPT ![p] = NoKey]
  /\ UNCHANGED <<page, media, dirs, temp, removedUnder, acked, shaky, orphaned>>

Remove(k) ==
  /\ page' = [page EXCEPT ![k] = "absent"]
  /\ acked' = acked \ {k}
  /\ shaky' = shaky \ {k}
  /\ orphaned' = orphaned \ {k}
  /\ removedUnder' = removedUnder \cup {p \in Procs : pc[p] = "dirsync" /\ key[p] = k}
  /\ UNCHANGED <<media, dirs, temp, pc, key>>

------------------------------------------------------------------------------
(* The machine.                                                            *)

\* The kernel writes a directory back of its own accord: what it holds under
\* one name, a file or a directory.
Writeback(k) ==
  /\ media[k] # Flushed(page[k])
  /\ SyncsPath => Reached(k)
  /\ media' = [media EXCEPT ![k] = Flushed(page[k])]
  /\ UNCHANGED <<page, dirs, temp, pc, key, removedUnder, acked, shaky, orphaned>>

WritebackDir(d) ==
  /\ dirs[d] = "made"
  /\ dirs' = [dirs EXCEPT ![d] = "kept"]
  /\ UNCHANGED <<page, media, temp, pc, key, removedUnder, acked, shaky, orphaned>>

\* Every goroutine is gone.  Its tmp-* file stays, and nothing reads it again.
Halt ==
  /\ pc' = [p \in Procs |-> "idle"]
  /\ key' = [p \in Procs |-> NoKey]
  /\ temp' = [p \in Procs |-> "absent"]
  /\ removedUnder' = {}
  /\ shaky' = shaky

Crash == Halt /\ UNCHANGED <<page, media, dirs, acked, orphaned>>

\* What a power cut leaves under a name.
Left(k) == IF Reached(k) THEN media[k] ELSE "absent"

\* A directory whose entry is not on the medium goes with all it holds; at
\* the next start New makes the kinds again.
PowerLoss ==
  /\ Halt
  /\ page' = [k \in Keys |-> Left(k)]
  /\ media' = [k \in Keys |-> Left(k)]
  /\ dirs' = [d \in Dirs |-> IF dirs[d] = "kept" /\ Reached(d) THEN "kept" ELSE Fresh(d)]
  /\ acked' = {k \in acked : Reached(k)}
  /\ orphaned' = orphaned \cup {k \in acked : ~Reached(k)}

ProcStep(p) ==
  \/ Copy(p) \/ Sync(p) \/ StatPresent(p) \/ StatAbsent(p)
  \/ Mkdir(p) \/ Rename(p) \/ FsyncDir(p) \/ Fail(p) \/ Return(p)

\* As long as the power stays on.
Powered ==
  \/ \E p \in Procs : ProcStep(p) \/ \E k \in Keys : PutOriginal(p, k) \/ Put(p, k)
  \/ \E k \in Keys : Remove(k) \/ Writeback(k)
  \/ \E d \in Dirs : WritebackDir(d)
  \/ Crash

Next == Powered \/ PowerLoss

Spec == Init /\ [][Next]_vars

------------------------------------------------------------------------------
(* Writes are atomic: under a final name there is nothing or a complete,   *)
(* fsynced file, for readers now and after a power cut, whichever writers, *)
(* failures, crashes and removals came before (blobstore.go:15-17).        *)
NoTornBlob ==
  \A k \in Keys : page[k] \in {"absent", "synced"} /\ media[k] \in {"absent", "synced"}

(* What the code makes of "durable": a blob reported stored is visible,    *)
(* and in its directory on the medium, through any number of crashes and   *)
(* power cuts until it is removed.  Not in acked are the keys in shaky,    *)
(* where the dedup return of PutOriginal and Put reported success for a    *)
(* name that another call had renamed but not fsynced yet, and those in    *)
(* orphaned, where a power cut took the directory (blobstore.go:15-17).    *)
AckedDurable ==
  \A k \in acked : page[k] = "synced" /\ media[k] = "synced"

(* From the moment the directories above it have reached the medium, by    *)
(* the kernel's own writing, a stored blob goes by nothing but its own     *)
(* removal: no power cut, crash, failing call or other writer takes it.    *)
OnlyRemoved ==
  [][\A k \in acked : Reached(k) => page'[k] = "synced" \/ Remove(k)]_vars

(* "fsync the containing directory so an ack'd upload survives a hard      *)
(* power-off" (blobstore.go:15-17): what was reported after its fsync is   *)
(* there until it is removed.  MkdirAll and New fsync no parent, so with   *)
(* a file system that has only what POSIX asks for it does not hold.       *)
AckSurvives ==
  \A k \in acked \cup orphaned : page[k] = "synced"

(* Callers may think of a set of complete files: however the calls of many *)
(* goroutines interleave, each changes it at one instant, nothing leaves   *)
(* it but by Remove or a power cut, and by a power cut nothing that was    *)
(* reported and stands in directories that are on the medium               *)
(* (blobstore.go:15-17, 46).                                               *)
Shelf == INSTANCE BlobShelf WITH
           shown <- {k \in Keys : page[k] = "synced"},
           settled <- {k \in Keys : media[k] = "synced"},
           firm <- {k \in Keys : Reached(k)},
           kept <- acked
ImplementsShelf == Shelf!Spec

------------------------------------------------------------------------------
(* What keeps them true from step to step.                                 *)

TempReady ==
  \A p \in Procs : pc[p] \in {"stat", "mkdir", "place"} => temp[p] = "synced"

KeyHeld ==
  \A p \in Procs : pc[p] \in Busy => key[p] \in Keys

Placed ==
  /\ \A p \in Procs :
       pc[p] = "dirsync" /\ p \notin removedUnder => page[key[p]] = "synced"
  /\ \A p \in removedUnder : pc[p] = "dirsync"

IInv == TypeOK /\ NoTornBlob /\ AckedDurable /\ TempReady /\ KeyHeld /\ Placed

==============================================================================
