--------------------------- MODULE BlobStoreProofs ---------------------------
(* What the blob store keeps, for any goroutines, keys and directories.    *)
EXTENDS BlobStore, TLAPS

USE NoKeyAssumption DEF Keys, FileState, DirState, Busy

(* The store starts empty, so nothing is torn and nothing is promised.     *)
LEMMA InitIInv == Init => IInv
BY DEF Init, Fresh, IInv, TypeOK, NoTornBlob, AckedDurable, TempReady, KeyHeld, Placed

(* Starting PutOriginal only creates a temp file.                          *)
LEMMA PutOriginalIInv ==
  ASSUME IInv, NEW p \in Procs, NEW k \in Keys, PutOriginal(p, k)
  PROVE  IInv'
BY DEF IInv, TypeOK, NoTornBlob, AckedDurable, TempReady, KeyHeld, Placed, PutOriginal

(* Starting Put creates a temp file, or reports a blob that is there: it   *)
(* joins acked only when it is on the medium too.                          *)
LEMMA PutIInv ==
  ASSUME IInv, NEW p \in Procs, NEW k \in Keys, Put(p, k)
  PROVE  IInv'
<1>1. CASE PutPresent(p, k)
  BY <1>1 DEF IInv, TypeOK, NoTornBlob, AckedDurable, TempReady, KeyHeld, Placed,
              PutPresent, Ack, Present
<1>2. CASE PutAbsent(p, k)
  BY <1>2 DEF IInv, TypeOK, NoTornBlob, AckedDurable, TempReady, KeyHeld, Placed, PutAbsent
<1> QED BY <1>1, <1>2 DEF Put

(* One lemma for the steps of a call under way, one case per step.         *)
LEMMA ProcStepIInv ==
  ASSUME IInv, NEW p \in Procs, ProcStep(p)
  PROVE  IInv'
<1> USE DEF IInv, TypeOK, NoTornBlob, AckedDurable, TempReady, KeyHeld, Placed
<1>1. CASE Copy(p)
  BY <1>1 DEF Copy
<1>2. CASE Sync(p)
  BY <1>2 DEF Sync, Synced
<1>3. CASE StatPresent(p)
  BY <1>3 DEF StatPresent, Ack, Present
<1>4. CASE StatAbsent(p)
  BY <1>4 DEF StatAbsent
<1>5. CASE Rename(p)
  BY <1>5 DEF Rename
<1>6. CASE FsyncDir(p)
  <2>1. dirs' \in [Dirs -> DirState]
    BY <1>6 DEF FsyncDir, PathSynced
  <2> QED BY <1>6, <2>1 DEF FsyncDir, DirSynced, Flushed, Ack
<1>7. CASE Fail(p)
  BY <1>7 DEF Fail
<1>8. CASE Return(p)
  BY <1>8 DEF Return
<1>9. CASE Mkdir(p)
  BY <1>9 DEF Mkdir
<1> QED
  BY <1>1, <1>2, <1>3, <1>4, <1>5, <1>6, <1>7, <1>8, <1>9 DEF ProcStep

(* A removal breaks no promise: it ends it, and it remembers the writers   *)
(* that are about to make one.                                             *)
LEMMA RemoveIInv ==
  ASSUME IInv, NEW k \in Keys, Remove(k)
  PROVE  IInv'
BY DEF IInv, TypeOK, NoTornBlob, AckedDurable, TempReady, KeyHeld, Placed, Remove

(* The kernel's own write-back, a crash and a power cut, which takes what   *)
(* was reported only together with a directory above it.                   *)
LEMMA MachineIInv ==
  ASSUME IInv,
         \/ \E k \in Keys : Writeback(k)
         \/ \E d \in Dirs : WritebackDir(d)
         \/ Crash
         \/ PowerLoss
  PROVE  IInv'
<1> USE DEF IInv, TypeOK, NoTornBlob, AckedDurable, TempReady, KeyHeld, Placed
<1>1. ASSUME NEW k \in Keys, Writeback(k) PROVE IInv'
  BY <1>1 DEF Writeback, Flushed
<1>2. CASE Crash
  BY <1>2 DEF Crash, Halt
<1>3. CASE PowerLoss
  <2>1. \A k \in Keys : Left(k) \in {"absent", "synced"} /\ (k \in acked' => Left(k) = "synced")
    BY <1>3 DEF PowerLoss, Left
  <2>2. dirs' \in [Dirs -> DirState]
    BY <1>3 DEF PowerLoss, Fresh
  <2> QED BY <1>3, <2>1, <2>2 DEF PowerLoss, Halt
<1>4. ASSUME NEW d \in Dirs, WritebackDir(d) PROVE IInv'
  BY <1>4 DEF WritebackDir
<1> QED BY <1>1, <1>2, <1>3, <1>4

\* Every step of the store, a crash and a power cut included, keeps IInv.
LEMMA NextIInv == IInv /\ [Next]_vars => IInv'
<1> SUFFICES ASSUME IInv, [Next]_vars PROVE IInv'
  OBVIOUS
<1>1. CASE UNCHANGED vars
  BY <1>1 DEF vars, IInv, TypeOK, NoTornBlob, AckedDurable, TempReady, KeyHeld, Placed
<1>2. CASE Next
  BY <1>2, PutOriginalIInv, PutIInv, ProcStepIInv, RemoveIInv, MachineIInv DEF Next, Powered
<1> QED BY <1>1, <1>2

(* The strengthening the two properties need: a temp file that is about to *)
(* be renamed is fsynced, and what a writer has renamed stays until it is  *)
(* removed.                                                                *)
THEOREM Inductive == Spec => []IInv
BY InitIInv, NextIInv, PTL DEF Spec

(* No reader ever finds part of a blob (blobstore.go:15-17).               *)
THEOREM NeverTorn == Spec => []NoTornBlob
<1>1. IInv => NoTornBlob
  BY DEF IInv
<1> QED BY <1>1, Inductive, PTL

(* A stored blob is visible, and on the medium in its directory, until it  *)
(* is removed or a power cut takes the directory.                          *)
THEOREM AckedKeepsIts == Spec => []AckedDurable
<1>1. IInv => AckedDurable
  BY DEF IInv
<1> QED BY <1>1, Inductive, PTL

(* Nothing but Remove takes a stored file whose directories have reached   *)
(* the medium.                                                             *)
LEMMA StepRemovesOnly ==
  ASSUME IInv, [Next]_vars, NEW k \in acked, Reached(k)
  PROVE  page'[k] = "synced" \/ Remove(k)
<1>0. /\ k \in Keys /\ page[k] = "synced" /\ media[k] = "synced"
      /\ page \in [Keys -> FileState]
  BY DEF IInv, TypeOK, AckedDurable
<1>1. ASSUME NEW p \in Procs, Rename(p) PROVE page'[k] = "synced"
  BY <1>0, <1>1 DEF Rename, IInv, TempReady
<1>2. ASSUME NEW j \in Keys, Remove(j) PROVE page'[k] = "synced" \/ Remove(k)
  BY <1>0, <1>2 DEF Remove
<1>3. ASSUME PowerLoss PROVE page'[k] = "synced"
  BY <1>0, <1>3 DEF PowerLoss, Left
<1>4. CASE UNCHANGED page
  BY <1>0, <1>4
<1> QED
  BY <1>1, <1>2, <1>3, <1>4
  DEF Next, Powered, ProcStep, Put, PutOriginal, PutPresent, PutAbsent, Copy, Sync, StatPresent,
      StatAbsent, Mkdir, FsyncDir, Fail, Return, Writeback, WritebackDir, Crash, vars

(* PRD N6 as the code keeps it on any file system: once the directories    *)
(* above it have reached the medium, a stored blob survives every power    *)
(* cut, crash, failing call and other writer (OnlyRemoved).                *)
THEOREM FirmSurvives == Spec => OnlyRemoved
<1>1. IInv /\ [Next]_vars => [\A k \in acked : Reached(k) => page'[k] = "synced" \/ Remove(k)]_vars
  BY StepRemovesOnly
<1> QED BY <1>1, Inductive, PTL DEF Spec, OnlyRemoved

(* Where fsync of a directory brings the entries above it along, what is   *)
(* on the medium can be found there.                                       *)
PathFirst ==
  /\ \A k \in Keys : media[k] = "synced" => Reached(k)
  /\ orphaned = {}

LEMMA PathFirstStays == ASSUME SyncsPath PROVE IInv /\ PathFirst /\ [Next]_vars => PathFirst'
<1> SUFFICES ASSUME IInv, PathFirst, [Next]_vars PROVE PathFirst'
  OBVIOUS
<1> USE DEF PathFirst
<1>0. /\ TypeOK /\ KeyHeld /\ AckedDurable
      /\ \A x \in Keys \cup Dirs : Above[x] \subseteq Dirs
      /\ \A x \in Keys : \A d \in Above[x] : Above[d] \subseteq Above[x]
  BY DirsAssumption DEF IInv
<1>1. ASSUME \A d \in Dirs : dirs[d] = "kept" => dirs'[d] = "kept", UNCHANGED <<media, orphaned>>
      PROVE  PathFirst'
  BY <1>0, <1>1 DEF Reached
<1>2. ASSUME NEW p \in Procs, FsyncDir(p) PROVE PathFirst'
  <2>1. PICK k \in Keys : key[p] = k
    BY <1>0, <1>2 DEF FsyncDir, KeyHeld
  <2>2. dirs' = [d \in Dirs |-> IF d \in Above[k] THEN "kept" ELSE dirs[d]]
    BY <1>2, <2>1 DEF FsyncDir, PathSynced
  <2>3. \A j \in Keys \ {k} : media'[j] = media[j]
    BY <1>0, <1>2, <2>1 DEF FsyncDir, TypeOK
  <2>4. Reached(k)' /\ \A j \in Keys : Reached(j) => Reached(j)'
    BY <1>0, <2>2 DEF Reached
  <2>5. orphaned' = {}
    BY <1>2 DEF FsyncDir, Ack
  <2> QED BY <2>3, <2>4, <2>5
<1>3. ASSUME NEW k \in Keys, Writeback(k) PROVE PathFirst'
  <2>1. Reached(k) /\ UNCHANGED <<dirs, orphaned>>
    BY <1>3 DEF Writeback
  <2>2. \A j \in Keys \ {k} : media'[j] = media[j]
    BY <1>0, <1>3 DEF Writeback, TypeOK
  <2>3. \A j \in Keys : Reached(j)' <=> Reached(j)
    BY <2>1 DEF Reached
  <2> QED BY <2>1, <2>2, <2>3
<1>4. CASE PowerLoss
  <2>1. ASSUME NEW k \in Keys, media'[k] = "synced" PROVE Reached(k)'
    <3>1. Reached(k)
      BY <1>4, <2>1 DEF PowerLoss, Left
    <3>2. \A d \in Above[k] : d \in Dirs /\ dirs[d] = "kept" /\ Reached(d)
      BY <1>0, <3>1 DEF Reached
    <3>3. \A d \in Above[k] : dirs'[d] = "kept"
      BY <1>4, <3>2 DEF PowerLoss
    <3> QED BY <3>3 DEF Reached
  <2>2. \A k \in acked : Reached(k)
    BY <1>0 DEF AckedDurable, TypeOK
  <2> QED BY <1>4, <2>1, <2>2 DEF PowerLoss
<1>5. ASSUME NEW p \in Procs, Mkdir(p) PROVE PathFirst'
  <2>1. \A d \in Dirs : dirs[d] = "kept" => dirs'[d] = "kept"
    BY <1>5 DEF Mkdir
  <2> QED BY <1>1, <1>5, <2>1 DEF Mkdir
<1>6. ASSUME NEW d \in Dirs, WritebackDir(d) PROVE PathFirst'
  <2>1. \A e \in Dirs : dirs[e] = "kept" => dirs'[e] = "kept"
    BY <1>0, <1>6 DEF WritebackDir, TypeOK
  <2> QED BY <1>1, <1>6, <2>1 DEF WritebackDir
<1>7. ASSUME UNCHANGED <<media, dirs>>, orphaned' = {} PROVE PathFirst'
  BY <1>7 DEF Reached
<1> QED
  BY <1>2, <1>3, <1>4, <1>5, <1>6, <1>7
  DEF Next, Powered, ProcStep, Put, PutOriginal, PutPresent, PutAbsent, Ack, Copy, Sync, StatPresent,
      StatAbsent, Rename, Fail, Return, Remove, Crash, Halt, vars

(* PRD N6 on a file system whose journal commits a directory together with *)
(* the ones above it: what was reported after its fsync is there until it  *)
(* is removed, whatever power cuts and crashes come (AckSurvives, which    *)
(* BlobStoreShard shows not to hold without that).                         *)
THEOREM JournalSaves == ASSUME SyncsPath PROVE Spec => []AckSurvives
<1>1. Init => PathFirst
  BY DEF Init, PathFirst
<1>2. IInv /\ PathFirst /\ [Next]_vars => PathFirst'
  BY PathFirstStays
<1>3. IInv /\ PathFirst => AckSurvives
  BY DEF IInv, AckedDurable, PathFirst, AckSurvives
<1> QED BY <1>1, <1>2, <1>3, Inductive, PTL DEF Spec
------------------------------------------------------------------------------
(* What a power cut alone can do.                                          *)

\* A key reported by a dedup return is there for every reader, and nothing
\* that was reported is lost.
ShakyShown == orphaned = {} /\ \A k \in shaky : page[k] = "synced"

(* The dedup return reports a name it has seen, so as long as the power    *)
(* stays on its report is as good as any other.                            *)
LEMMA PoweredShows == IInv /\ ShakyShown /\ [Powered]_vars => ShakyShown'
<1> SUFFICES ASSUME IInv, ShakyShown, [Powered]_vars PROVE ShakyShown'
  OBVIOUS
<1> USE DEF ShakyShown
<1>0. KeyHeld /\ TempReady /\ NoTornBlob /\ TypeOK
  BY DEF IInv
<1>1. ASSUME NEW p \in Procs, NEW k \in Keys, PutOriginal(p, k) \/ PutAbsent(p, k)
      PROVE  ShakyShown'
  BY <1>1 DEF PutOriginal, PutAbsent
<1>2. ASSUME NEW p \in Procs, NEW k \in Keys, PutPresent(p, k) PROVE ShakyShown'
  BY <1>0, <1>2 DEF PutPresent, Present, Ack, NoTornBlob
<1>3. ASSUME NEW p \in Procs, StatPresent(p) PROVE ShakyShown'
  BY <1>0, <1>3 DEF StatPresent, Present, Ack, NoTornBlob, KeyHeld
<1>4. ASSUME NEW p \in Procs, Rename(p) PROVE ShakyShown'
  BY <1>0, <1>4 DEF Rename, TempReady, KeyHeld, TypeOK
<1>5. ASSUME NEW p \in Procs, FsyncDir(p) PROVE ShakyShown'
  BY <1>5 DEF FsyncDir, Ack
<1>6. ASSUME NEW p \in Procs, Copy(p) \/ Sync(p) \/ StatAbsent(p) \/ Mkdir(p) \/ Fail(p) \/ Return(p)
      PROVE  ShakyShown'
  BY <1>6 DEF Copy, Sync, StatAbsent, Mkdir, Fail, Return
<1>7. ASSUME NEW k \in Keys, Remove(k) PROVE ShakyShown'
  BY <1>0, <1>7 DEF Remove, TypeOK
<1>8. ASSUME NEW k \in Keys, Writeback(k) PROVE ShakyShown'
  BY <1>8 DEF Writeback
<1>9. CASE Crash
  BY <1>9 DEF Crash, Halt
<1>10. CASE UNCHANGED vars
  BY <1>10 DEF vars
<1>11. ASSUME NEW d \in Dirs, WritebackDir(d) PROVE ShakyShown'
  BY <1>11 DEF WritebackDir
<1> QED
  BY <1>1, <1>2, <1>3, <1>4, <1>5, <1>6, <1>7, <1>8, <1>9, <1>10, <1>11 DEF Powered, ProcStep, Put

------------------------------------------------------------------------------
(* What callers may think of: a set of complete files.                     *)

\* The keys that are found, that are on the medium in their directory, and
\* whose directories are there.
Shown == {k \in Keys : page[k] = "synced"}
Settled == {k \in Keys : media[k] = "synced"}
Firm == {k \in Keys : Reached(k)}

\* Directories reach the medium and never leave it.
LEMMA FirmGrows ==
  ASSUME \A d \in Dirs : dirs[d] = "kept" => dirs'[d] = "kept"
  PROVE  Firm \subseteq Firm'
BY DirsAssumption DEF Firm, Reached

(* What is acknowledged joins kept; who did not see its own fsync joins it *)
(* only for a key that is settled already.                                 *)
LEMMA AckOnShelf ==
  ASSUME TypeOK, NEW k \in Keys, page[k] = "synced", UNCHANGED <<page, media, dirs>>, Ack(k, FALSE)
  PROVE  [Shelf!Next]_(Shelf!shelfVars)
<1>1. Firm \subseteq Firm' /\ Firm' = Firm /\ Shown' = Shown /\ Settled' = Settled
  BY FirmGrows DEF Firm, Shown, Settled, Reached
<1>2. CASE media[k] = "synced"
  <2>1. acked' = acked \cup {k} /\ k \in Shown /\ Settled = Settled \cup {k}
    BY <1>2 DEF Ack, Shown, Settled
  <2>2. Shelf!Report(k)
    BY <1>1, <2>1 DEF Shelf!Report, Firm, Shown, Settled
  <2> QED BY <2>2 DEF Shelf!Next
<1>3. CASE media[k] # "synced"
  BY <1>1, <1>3 DEF Ack, Shelf!shelfVars, Firm, Shown, Settled
<1> QED BY <1>2, <1>3

(* The instant of a write is its rename: before it nothing can be seen of  *)
(* it, and the fsync of the directory that follows settles the key and     *)
(* reports it in one step.                                                 *)
LEMMA ProcStepOnShelf ==
  ASSUME IInv, NEW p \in Procs, ProcStep(p)
  PROVE  [Shelf!Next]_(Shelf!shelfVars)
<1>0. KeyHeld /\ TempReady /\ Placed /\ NoTornBlob /\ TypeOK
  BY DEF IInv
<1>1. CASE UNCHANGED <<page, media, dirs, acked>>
  BY <1>1 DEF Shelf!shelfVars, Reached
<1>2. CASE StatPresent(p)
  <2>1. key[p] \in Keys /\ page[key[p]] = "synced"
    BY <1>0, <1>2 DEF StatPresent, KeyHeld, NoTornBlob, Present
  <2> QED BY <1>0, <1>2, <2>1, AckOnShelf DEF StatPresent
<1>3. CASE Rename(p)
  <2>1. PICK k \in Keys : key[p] = k
    BY <1>0, <1>3 DEF Rename, KeyHeld
  <2>2. page' = [page EXCEPT ![k] = "synced"] /\ UNCHANGED <<media, dirs, acked>>
    BY <1>0, <1>3, <2>1 DEF Rename, TempReady
  <2>3. Shown' = Shown \cup {k} /\ Settled' = Settled /\ Firm' = Firm
    BY <1>0, <2>2 DEF TypeOK, Shown, Settled, Firm, Reached
  <2>4. Shelf!File(k)
    BY <2>2, <2>3 DEF Shelf!File, Shown, Settled, Firm
  <2> QED BY <2>4 DEF Shelf!Next
<1>4. CASE FsyncDir(p)
  <2>1. PICK k \in Keys : key[p] = k
    BY <1>0, <1>4 DEF FsyncDir, KeyHeld
  <2>2. media' = [media EXCEPT ![k] = page[k]] /\ UNCHANGED page
    BY <1>0, <1>4, <2>1 DEF FsyncDir, DirSynced, Flushed, NoTornBlob
  <2>3. Settled' = IF k \in Shown THEN Settled \cup {k} ELSE Settled \ {k}
    BY <1>0, <2>2 DEF TypeOK, Shown, Settled
  <2>4. Shown' = Shown
    BY <2>2 DEF Shown
  <2>5. Firm \subseteq Firm'
    <3>1. \A d \in Dirs : dirs[d] = "kept" => dirs'[d] = "kept"
      BY <1>4 DEF FsyncDir, PathSynced
    <3> QED BY <3>1, FirmGrows
  <2>6. CASE p \in removedUnder
    <3>1. acked' = acked
      BY <1>4, <2>6 DEF FsyncDir
    <3>2. Shelf!Settle(k)
      BY <2>3, <2>4, <2>5, <3>1 DEF Shelf!Settle, Shown, Settled, Firm
    <3> QED BY <3>2 DEF Shelf!Next
  <2>7. CASE p \notin removedUnder
    <3>1. k \in Shown
      BY <1>0, <1>4, <2>1, <2>7 DEF FsyncDir, Placed, Shown
    <3>2. acked' = acked \cup {k}
      BY <1>4, <2>1, <2>7 DEF FsyncDir, Ack
    <3>3. Shelf!Report(k)
      BY <2>3, <2>4, <2>5, <3>1, <3>2 DEF Shelf!Report, Shown, Settled, Firm
    <3> QED BY <3>3 DEF Shelf!Next
  <2> QED BY <2>6, <2>7
<1>5. CASE Copy(p) \/ Sync(p) \/ StatAbsent(p) \/ Fail(p) \/ Return(p)
  BY <1>1, <1>5 DEF Copy, Sync, StatAbsent, Fail, Return
<1>6. CASE Mkdir(p)
  <2>1. \A d \in Dirs : dirs[d] = "kept" <=> dirs'[d] = "kept"
    BY <1>6 DEF Mkdir
  <2>2. Firm' = Firm
    BY <2>1, DirsAssumption DEF Firm, Reached
  <2> QED BY <1>6, <2>2 DEF Mkdir, Shelf!shelfVars, Firm
<1> QED BY <1>2, <1>3, <1>4, <1>5, <1>6 DEF ProcStep

(* A removal discards, the kernel settles files and makes places firm, a   *)
(* power cut is one, and to lose the process changes nothing.              *)
LEMMA OtherStepsOnShelf ==
  ASSUME IInv,
         \/ \E p \in Procs, k \in Keys : PutOriginal(p, k) \/ Put(p, k)
         \/ \E k \in Keys : Remove(k) \/ Writeback(k)
         \/ \E d \in Dirs : WritebackDir(d)
         \/ Crash
         \/ PowerLoss
  PROVE  [Shelf!Next]_(Shelf!shelfVars)
<1>0. NoTornBlob /\ TypeOK
  BY DEF IInv
<1>1. ASSUME NEW p \in Procs, NEW k \in Keys, PutOriginal(p, k) \/ PutAbsent(p, k)
      PROVE  [Shelf!Next]_(Shelf!shelfVars)
  BY <1>1 DEF PutOriginal, PutAbsent, Shelf!shelfVars, Reached
<1>2. ASSUME NEW p \in Procs, NEW k \in Keys, PutPresent(p, k)
      PROVE  [Shelf!Next]_(Shelf!shelfVars)
  <2>1. page[k] = "synced"
    BY <1>0, <1>2 DEF PutPresent, NoTornBlob, Present
  <2> QED BY <1>0, <1>2, <2>1, AckOnShelf DEF PutPresent
<1>3. ASSUME NEW k \in Keys, Remove(k) PROVE [Shelf!Next]_(Shelf!shelfVars)
  <2>1. Shown' = Shown \ {k} /\ Settled' = Settled /\ Firm' = Firm
    BY <1>0, <1>3 DEF Remove, TypeOK, Shown, Settled, Firm, Reached
  <2>2. Shelf!Discard(k)
    BY <1>3, <2>1 DEF Remove, Shelf!Discard, Shown, Settled, Firm
  <2> QED BY <2>2 DEF Shelf!Next
<1>4. ASSUME NEW k \in Keys, Writeback(k) PROVE [Shelf!Next]_(Shelf!shelfVars)
  <2>1. Settled' = IF k \in Shown THEN Settled \cup {k} ELSE Settled \ {k}
    BY <1>0, <1>4 DEF Writeback, Flushed, NoTornBlob, TypeOK, Shown, Settled
  <2>2. Shown' = Shown /\ Firm' = Firm
    BY <1>4 DEF Writeback, Shown, Firm, Reached
  <2>3. Shelf!Settle(k)
    BY <1>4, <2>1, <2>2 DEF Writeback, Shelf!Settle, Shown, Settled, Firm
  <2> QED BY <2>3 DEF Shelf!Next
<1>5. CASE Crash
  BY <1>5 DEF Crash, Halt, Shelf!shelfVars, Reached
<1>6. CASE PowerLoss
  <2>1. Shown' = Settled \cap Firm /\ Settled' = Settled \cap Firm
    BY <1>0, <1>6 DEF PowerLoss, Left, TypeOK, Shown, Settled, Firm
  <2>2. acked' = acked \cap Firm
    BY <1>0, <1>6 DEF PowerLoss, TypeOK, Firm
  <2>3. Firm' = Firm
    <3>1. ASSUME NEW k \in Keys, Reached(k) PROVE Reached(k)'
      <4>1. \A d \in Above[k] : d \in Dirs /\ dirs[d] = "kept" /\ Reached(d)
        BY <3>1, DirsAssumption DEF Reached
      <4>2. \A d \in Above[k] : dirs'[d] = "kept"
        BY <1>6, <4>1 DEF PowerLoss
      <4> QED BY <4>2 DEF Reached
    <3>2. ASSUME NEW k \in Keys, Reached(k)' PROVE Reached(k)
      <4>1. \A d \in Dirs : dirs'[d] = "kept" => dirs[d] = "kept"
        BY <1>6 DEF PowerLoss, Fresh
      <4> QED BY <3>2, <4>1, DirsAssumption DEF Reached
    <3> QED BY <3>1, <3>2 DEF Firm
  <2>4. Shelf!PowerCut
    BY <2>1, <2>2, <2>3 DEF Shelf!PowerCut, Shown, Settled, Firm
  <2> QED BY <2>4 DEF Shelf!Next
<1>7. ASSUME NEW d \in Dirs, WritebackDir(d) PROVE [Shelf!Next]_(Shelf!shelfVars)
  <2>1. \A e \in Dirs : dirs[e] = "kept" => dirs'[e] = "kept"
    BY <1>0, <1>7 DEF WritebackDir, TypeOK
  <2>2. Firm \subseteq Firm' /\ Shown' = Shown /\ Settled' = Settled
    BY <1>7, <2>1, FirmGrows DEF WritebackDir, Shown, Settled
  <2>3. Shelf!MakeFirm
    BY <1>7, <2>2 DEF WritebackDir, Shelf!MakeFirm, Shown, Settled, Firm
  <2> QED BY <2>3 DEF Shelf!Next
<1> QED BY <1>1, <1>2, <1>3, <1>4, <1>5, <1>6, <1>7 DEF Put

\* One step of the store is at most one step of the shelf.
LEMMA StepOnShelf == IInv /\ [Next]_vars => [Shelf!Next]_(Shelf!shelfVars)
<1>1. ASSUME UNCHANGED vars PROVE UNCHANGED Shelf!shelfVars
  BY <1>1 DEF vars, Shelf!shelfVars, Reached
<1> QED BY <1>1, ProcStepOnShelf, OtherStepsOnShelf DEF Next, Powered

(* The store is the set of complete files its callers take it for, for any *)
(* number of goroutines, keys and directories: a power cut takes what has  *)
(* not settled or stands in a place that is not firm, and nothing else     *)
(* (blobstore.go:15-17, 46).                                               *)
THEOREM Implements == Spec => ImplementsShelf
<1>1. Init => Shelf!Init
  BY DEF Init, Shelf!Init
<1> QED BY <1>1, StepOnShelf, Inductive, PTL DEF Spec, ImplementsShelf, Shelf!Spec
==============================================================================
