----------------------------- MODULE HeartsProofs -----------------------------
(* The count of hearts and the refinement of HeartBoard, for any number of *)
(* requests, guests and photos.                                            *)
EXTENDS Hearts, FiniteSetTheorems, TLAPS

USE HeartsAssumption
USE DEF IInv, TypeOK, LockHeld, SnapshotTrue, NoOrphans, Writing, Readers, dbVars, draftVars,
        reqVars

(* An empty gallery.                                                       *)
LEMMA InitIInv == Init => IInv
BY FS_EmptySet DEF Init, CountIsLikers, DraftRight

(* A new transaction has the newest snapshot, in which the photo is        *)
(* visible.                                                                *)
LEMMA SelectIInv ==
  ASSUME IInv, NEW r \in Requests, NEW p \in Photos, NEW s \in Sessions, Select(r, p, s)
  PROVE  IInv'
BY DEF Select, CountIsLikers, DraftRight

(* The writer starts from the tables as they are.                          *)
LEMMA LockIInv ==
  ASSUME IInv, NEW r \in Requests, Lock(r)
  PROVE  IInv'
BY DEF Lock, CountIsLikers, DraftRight

\* A refusal touches nothing.
LEMMA BusyIInv ==
  ASSUME IInv, NEW r \in Requests, Busy(r)
  PROVE  IInv'
BY DEF Busy, CountIsLikers, DraftRight

\* The row of the heart, ahead of its count.
LEMMA InsertHeartIInv ==
  ASSUME IInv, NEW r \in Requests, InsertHeart(r)
  PROVE  IInv'
BY DEF InsertHeart, CountIsLikers, DraftRight

(* The count catches up: this is where cardinalities are counted.          *)
LEMMA UpdateCountIInv ==
  ASSUME IInv, NEW r \in Requests, UpdateCount(r)
  PROVE  IInv'
<1> DEFINE p == photo[r]  s == session[r]
<1>1. IsFiniteSet(likers[p]) /\ count[p] = Cardinality(likers[p])
  BY DEF CountIsLikers
<1>2. Cardinality(likers[p] \cup {s}) = IF s \in likers[p] THEN Cardinality(likers[p]) ELSE Cardinality(likers[p]) + 1
  BY <1>1, FS_AddElement
<1>3. Cardinality(likers[p] \ {s}) = IF s \in likers[p] THEN Cardinality(likers[p]) - 1 ELSE Cardinality(likers[p])
  BY <1>1, FS_RemoveElement
<1>4. draftLikers = Board!Flip(likers[p], s) /\ draftCount' = Cardinality(draftLikers)
  <2>1. CASE req[r] = "up"
    <3>1. s \notin likers[p] /\ draftLikers = likers[p] \cup {s} /\ draftCount = count[p]
      BY <2>1 DEF DraftRight
    <3>2. draftCount' = draftCount + 1
      BY <2>1 DEF UpdateCount
    <3> QED BY <1>1, <1>2, <3>1, <3>2 DEF Board!Flip
  <2>2. CASE req[r] = "down"
    <3>1. s \in likers[p] /\ draftLikers = likers[p] \ {s} /\ draftCount = count[p]
      BY <2>2 DEF DraftRight
    <3>2. draftCount' = draftCount + (-1) /\ count[p] \in Int
      BY <2>2 DEF UpdateCount
    <3> QED BY <1>1, <1>3, <3>1, <3>2 DEF Board!Flip
  <2> QED BY <2>1, <2>2 DEF UpdateCount
<1>5. writer = r
  BY DEF UpdateCount
<1>6. UNCHANGED <<row, likers, count, writer, draftLikers, photo, session, stale>> /\ answer' = answer
  BY DEF UpdateCount
<1>7. req' = [req EXCEPT ![r] = "read"] /\ req[r] \in {"up", "down"} /\ draftCount' \in Int
  BY DEF UpdateCount
<1>8. got' = [got EXCEPT ![r] = <<draftCount', s \in draftLikers>>]
  <2>1. (req[r] = "up") = (s \in draftLikers)
    <3>1. req[r] = "up" <=> s \in draftLikers
      BY <1>7 DEF DraftRight
    <3> QED BY <3>1
  <2>2. got' = [got EXCEPT ![r] = <<draftCount', req[r] = "up">>]
    BY DEF UpdateCount
  <2> QED BY <2>1, <2>2, Zenon
<1>9. <<draftCount', s \in draftLikers>> \in Int \X BOOLEAN
  <2>1. (s \in draftLikers) \in BOOLEAN
    OBVIOUS
  <2> QED BY <2>1, <1>7, Zenon
<1>10. \A q \in Requests : req'[q] \in {"read", "commit"} => q = r
  BY <1>5, <1>7
<1>11. got'[r] = <<draftCount', s \in draftLikers>>
  BY <1>8
<1>12. DraftRight'
  BY <1>4, <1>5, <1>6, <1>7, <1>10, <1>11 DEF DraftRight
<1>13. TypeOK' /\ CountIsLikers' /\ LockHeld' /\ SnapshotTrue' /\ NoOrphans'
  BY <1>5, <1>6, <1>7, <1>8, <1>9 DEF CountIsLikers
<1> QED BY <1>12, <1>13

\* The answer is written down before the commit.
LEMMA ReadCountIInv ==
  ASSUME IInv, NEW r \in Requests, ReadCount(r)
  PROVE  IInv'
<1>1. UNCHANGED <<row, likers, count, writer, draftLikers, draftCount, photo, session, stale>>
  BY DEF ReadCount
<1>2. /\ req[r] = "read" /\ req' = [req EXCEPT ![r] = "commit"]
      /\ got' = [got EXCEPT ![r] = <<draftCount, session[r] \in draftLikers>>]
  <2>1. got[r] = <<draftCount, session[r] \in draftLikers>>
    BY DEF ReadCount, DraftRight
  <2>2. got[r][2] = (session[r] \in draftLikers)
    BY <2>1
  <2>3. got' = [got EXCEPT ![r] = <<draftCount, got[r][2]>>]
    BY DEF ReadCount
  <2>4. got' = [got EXCEPT ![r] = <<draftCount, session[r] \in draftLikers>>]
    BY <2>2, <2>3, Zenon
  <2> QED BY <2>4 DEF ReadCount
<1>3. <<draftCount, session[r] \in draftLikers>> \in Int \X BOOLEAN
  <2>1. (session[r] \in draftLikers) \in BOOLEAN
    OBVIOUS
  <2>2. draftCount \in Int
    OBVIOUS
  <2> QED BY <2>1, <2>2, Zenon
<1>4. TypeOK' /\ CountIsLikers' /\ LockHeld' /\ SnapshotTrue' /\ NoOrphans'
  <2>1. UNCHANGED answer
    BY DEF ReadCount
  <2> QED BY <1>1, <1>2, <1>3, <2>1 DEF CountIsLikers
<1>5. writer = r
  BY <1>2
<1>6. ASSUME NEW q \in Requests, req'[q] = "commit"
      PROVE  got'[q] = <<draftCount, session[q] \in draftLikers>>
  BY <1>2, <1>5, <1>6
<1>7. DraftRight'
  BY <1>1, <1>2, <1>5, <1>6 DEF DraftRight
<1> QED BY <1>7, <1>4

(* The commit makes the draft the tables; whoever holds an older snapshot  *)
(* is stale from now on.                                                   *)
LEMMA CommitIInv ==
  ASSUME IInv, NEW r \in Requests, Commit(r)
  PROVE  IInv'
<1>1. /\ writer = r /\ req[r] = "commit" /\ photo[r] \in Photos /\ row[photo[r]] = "visible"
      /\ draftCount = Cardinality(draftLikers)
      /\ draftLikers = Board!Flip(likers[photo[r]], session[r])
  BY DEF Commit, DraftRight
<1>2. /\ UNCHANGED <<row, photo, session>> /\ writer' = Nobody
      /\ draftLikers' = {} /\ draftCount' = 0
      /\ req' = [req EXCEPT ![r] = "idle"]
      /\ likers' = [likers EXCEPT ![photo[r]] = draftLikers]
      /\ count' = [count EXCEPT ![photo[r]] = draftCount]
      /\ stale' = stale \cup {q \in Requests : req[q] = "delete"}
  BY <1>1 DEF Commit, Over
<1>3. TypeOK'
  <2>1. answer' = [answer EXCEPT ![r] = got[r]] /\ got' = [got EXCEPT ![r] = NoAnswer]
    BY DEF Commit, Over
  <2> QED BY <1>1, <1>2, <2>1
<1>4. CountIsLikers'
  BY <1>1, <1>2 DEF CountIsLikers
<1>5. IsFiniteSet(draftLikers)
  <2>1. IsFiniteSet(likers[photo[r]])
    BY <1>1
  <2> QED BY <1>1, <2>1, FS_AddElement, FS_RemoveElement DEF Board!Flip
<1>6. NoOrphans'
  BY <1>1, <1>2, <1>5
<1>7. LockHeld' /\ SnapshotTrue'
  BY <1>1, <1>2
<1>8. DraftRight'
  <2>1. \A q \in Requests : req'[q] \notin Writing
    BY <1>1, <1>2
  <2> QED BY <2>1 DEF DraftRight
<1> QED BY <1>3, <1>4, <1>6, <1>7, <1>8

(* A rollback, with or without the lock, leaves the tables alone.          *)
LEMMA RollbackIInv ==
  ASSUME IInv, NEW r \in Requests, Rollback(r)
  PROVE  IInv'
<1>1. UNCHANGED <<row, likers, count, photo, session>> /\ stale' = stale \ {r}
  BY DEF Rollback, Over
<1>2. /\ req' = [req EXCEPT ![r] = "idle"] /\ got' = [got EXCEPT ![r] = NoAnswer]
      /\ answer' = [answer EXCEPT ![r] = NoAnswer]
  BY DEF Rollback, Over
<1>3. CASE writer = r
  <2>1. writer' = Nobody /\ draftLikers' = {} /\ draftCount' = 0
    BY <1>3 DEF Rollback, Over
  <2>2. \A q \in Requests : req'[q] \notin Writing
    BY <1>2, <1>3
  <2>3. DraftRight'
    BY <2>2 DEF DraftRight
  <2>4. TypeOK' /\ CountIsLikers' /\ LockHeld' /\ SnapshotTrue' /\ NoOrphans'
    BY <1>1, <1>2, <1>3, <2>1 DEF CountIsLikers
  <2> QED BY <2>3, <2>4
<1>4. CASE writer # r
  <2>1. UNCHANGED <<writer, draftLikers, draftCount>>
    BY <1>4 DEF Rollback, Over
  <2>2. TypeOK' /\ CountIsLikers' /\ LockHeld' /\ SnapshotTrue' /\ NoOrphans'
    BY <1>1, <1>2, <1>4, <2>1 DEF CountIsLikers
  <2>3. DraftRight'
    BY <1>1, <1>2, <1>4, <2>1 DEF DraftRight
  <2> QED BY <2>2, <2>3
<1> QED BY <1>3, <1>4

\* The part of IInv that is about the tables alone.
Tables ==
  /\ row \in [Photos -> {"none", "visible", "hidden"}]
  /\ likers \in [Photos -> SUBSET Sessions]
  /\ count \in [Photos -> Int]
  /\ CountIsLikers /\ NoOrphans

(* A single statement runs while nobody writes, so there is no draft; it   *)
(* may change what a snapshot shows, and makes every snapshot stale.       *)
LEMMA StatementIInv ==
  ASSUME IInv,
         \/ UpsertSession
         \/ \E p \in Photos :
              InsertPhoto(p) \/ DeletePhoto(p) \/ \E hidden \in BOOLEAN : SetHidden(p, hidden)
  PROVE  IInv'
<1>1. /\ writer = Nobody /\ UNCHANGED <<writer, draftLikers, draftCount>>
      /\ UNCHANGED <<req, photo, session, got, answer>>
      /\ stale' = stale \cup {q \in Requests : req[q] = "delete"}
  BY DEF UpsertSession, InsertPhoto, DeletePhoto, SetHidden, Overtake
<1>2. \A q \in Requests : req[q] \notin Writing
  BY <1>1
<1>3. LockHeld' /\ SnapshotTrue'
  BY <1>1, <1>2
<1>4. DraftRight'
  BY <1>1, <1>2 DEF DraftRight
<1>5. Tables'
  <2>1. CASE UpsertSession
    BY <2>1 DEF UpsertSession, Tables, CountIsLikers
  <2>2. ASSUME NEW p \in Photos, InsertPhoto(p) \/ \E hidden \in BOOLEAN : SetHidden(p, hidden)
        PROVE  Tables'
    BY <2>2 DEF InsertPhoto, SetHidden, Tables, CountIsLikers
  <2>3. ASSUME NEW p \in Photos, DeletePhoto(p)
        PROVE  Tables'
    BY <2>3, FS_EmptySet DEF DeletePhoto, Tables, CountIsLikers
  <2> QED BY <2>1, <2>2, <2>3
<1>6. TypeOK'
  BY <1>1, <1>5 DEF Tables
<1> QED BY <1>3, <1>4, <1>5, <1>6 DEF Tables

\* A crash lets go of every transaction.
LEMMA CrashIInv ==
  ASSUME IInv, Crash
  PROVE  IInv'
BY DEF Crash, CountIsLikers, DraftRight

\* Every step keeps IInv.
LEMMA NextIInv == IInv /\ [Next]_vars => IInv'
<1> SUFFICES ASSUME IInv, [Next]_vars PROVE IInv'
  OBVIOUS
<1>1. CASE UNCHANGED vars
  BY <1>1 DEF vars, CountIsLikers, DraftRight
<1>2. ASSUME NEW r \in Requests, ToggleHeart(r) PROVE IInv'
  BY <1>2, LockIInv, BusyIInv, InsertHeartIInv, UpdateCountIInv, ReadCountIInv, CommitIInv,
     RollbackIInv
  DEF ToggleHeart
<1>3. ASSUME NEW r \in Requests, NEW p \in Photos, NEW s \in Sessions, Select(r, p, s)
      PROVE  IInv'
  BY <1>3, SelectIInv
<1>4. CASE Crash
  BY <1>4, CrashIInv
<1> QED BY <1>1, <1>2, <1>3, <1>4, StatementIInv DEF Next

(* The transactions keep the tables in order.                              *)
THEOREM HeartsInductive == Spec => []IInv
BY InitIInv, NextIInv, PTL DEF Spec

(* CountIsLikers: the count is the number of hearts, always.               *)
THEOREM CountNeverDiverges == Spec => []CountIsLikers
<1>1. IInv => CountIsLikers
  BY DEF IInv
<1> QED BY <1>1, HeartsInductive, PTL

------------------------------------------------------------------------------
\* The board counts as the tables do.
LEMMA SameSize == \A S : Board!Cardinality(S) = Cardinality(S)
BY DEF Board!Cardinality, Cardinality

(* A commit is a tap, on a photo that is visible at that moment; every     *)
(* other step of a toggle changes nothing the board shows.                 *)
LEMMA StepImplements == IInv /\ [Next]_vars => [Board!Next]_(Board!hbVars)
<1> SUFFICES ASSUME IInv, [Next]_vars PROVE [Board!Next]_(Board!hbVars)
  OBVIOUS
<1> USE DEF Board!hbVars
<1>1. CASE UNCHANGED vars
  BY <1>1 DEF vars
<1>2. ASSUME NEW r \in Requests,
             Lock(r) \/ Busy(r) \/ InsertHeart(r) \/ UpdateCount(r) \/ ReadCount(r)
      PROVE  UNCHANGED Board!hbVars
  BY <1>2 DEF Lock, Busy, InsertHeart, UpdateCount, ReadCount
<1>3. ASSUME NEW r \in Requests,
             Rollback(r) \/ \E p \in Photos, s \in Sessions : Select(r, p, s)
      PROVE  Board!Forget(r)
  BY <1>3 DEF Rollback, Select, Board!Forget
<1>4. ASSUME NEW r \in Requests, Commit(r) PROVE Board!Tap(r, photo[r], session[r])
  <2>1. /\ likers' = [likers EXCEPT ![photo[r]] = draftLikers]
        /\ answer' = [answer EXCEPT ![r] = got[r]] /\ row' = row
        /\ photo[r] \in Photos
    BY <1>4 DEF Commit
  <2>2. /\ draftLikers = Board!Flip(likers[photo[r]], session[r])
        /\ got[r] = <<Cardinality(draftLikers), session[r] \in draftLikers>>
        /\ row[photo[r]] = "visible"
    BY <1>4 DEF Commit, DraftRight
  <2>3. likers'[photo[r]] = draftLikers
    BY <2>1
  <2>4. got[r] = <<Cardinality(likers'[photo[r]]), session[r] \in likers'[photo[r]]>>
    BY <2>2, <2>3, Zenon
  <2>5. likers' = [likers EXCEPT ![photo[r]] = Board!Flip(likers[photo[r]], session[r])]
    BY <2>1, <2>2
  <2>6. answer' = [answer EXCEPT ![r] = <<Board!Cardinality(likers'[photo[r]]), session[r] \in likers'[photo[r]]>>]
    BY <2>1, <2>4, SameSize, Zenon
  <2>7. row[photo[r]] = "visible" /\ UNCHANGED row
    BY <2>1, <2>2
  <2> QED BY <2>5, <2>6, <2>7, Zenon DEF Board!Tap
<1>5. ASSUME NEW p \in Photos, DeletePhoto(p) PROVE Board!Delete(p)
  BY <1>5 DEF DeletePhoto, Board!Delete
<1>6. ASSUME NEW p \in Photos, InsertPhoto(p) PROVE Board!SetRow(p, "visible")
  BY <1>6 DEF InsertPhoto, Board!SetRow
<1>7. ASSUME NEW p \in Photos, NEW hidden \in BOOLEAN, SetHidden(p, hidden)
      PROVE  Board!SetRow(p, "visible") \/ Board!SetRow(p, "hidden")
  BY <1>7 DEF SetHidden, Board!SetRow
<1>8. CASE UpsertSession
  BY <1>8 DEF UpsertSession
<1>9. CASE Crash
  BY <1>9 DEF Crash, Board!ForgetAll, Board!Next
<1> QED
  BY <1>1, <1>2, <1>3, <1>4, <1>5, <1>6, <1>7, <1>8, <1>9 DEF Next, ToggleHeart, Board!Next

(* The transactions implement taps that happen at one instant.             *)
THEOREM Implements == Spec => ImplementsBoard
<1>1. Init => Board!Init
  BY DEF Init, Board!Init
<1> QED BY <1>1, StepImplements, HeartsInductive, PTL DEF Spec, ImplementsBoard, Board!Spec
==============================================================================
