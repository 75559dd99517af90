-------------------------------- MODULE Hearts --------------------------------
(***************************************************************************)
(* internal/store/hearts.go: ToggleHeart, a transaction of several         *)
(* statements, run by several requests at once over SQLite in WAL mode,    *)
(* among the single statements of uploads, of the operator and of the      *)
(* session table.                                                          *)
(*                                                                         *)
(* BEGIN is deferred.  The SELECT takes a snapshot, and the first write    *)
(* needs the write lock and a snapshot that is still the newest: where one *)
(* of them is missing SQLite refuses at once, because waiting could not    *)
(* help.  A single statement takes lock and snapshot together, and waits.  *)
(***************************************************************************)
EXTENDS Integers, FiniteSets

CONSTANTS Requests,  \* requests to /heart, one transaction each
          Sessions,  \* guests
          Photos,
          Nobody,    \* not a request
          NoAnswer   \* not an answer

ASSUME HeartsAssumption == Nobody \notin Requests

VARIABLES row,     \* photo -> "none", "visible" or "hidden"
          likers,  \* photo -> the sessions of its rows in hearts
          count,   \* photo -> photos.heart_count
          writer,  \* who holds the write lock
          draftLikers, draftCount,  \* what the writer sees of its photo
          req,     \* request -> where it is in ToggleHeart
          photo, session,  \* request -> its arguments
          stale,   \* requests whose snapshot is not the newest any more
          got,     \* request -> what it is going to answer
          answer   \* request -> its answer

dbVars    == <<row, likers, count>>
draftVars == <<writer, draftLikers, draftCount>>
reqVars   == <<req, photo, session, got, answer>>
vars == <<dbVars, draftVars, reqVars, stale>>

TypeOK ==
  /\ row \in [Photos -> {"none", "visible", "hidden"}]
  /\ likers \in [Photos -> SUBSET Sessions]
  /\ count \in [Photos -> Int]
  /\ writer \in Requests \cup {Nobody}
  /\ draftLikers \subseteq Sessions
  /\ draftCount \in Int
  /\ req \in [Requests -> {"idle", "delete", "insert", "up", "down", "read", "commit", "busy"}]
  /\ photo \in [Requests -> Photos]
  /\ session \in [Requests -> Sessions]
  /\ stale \subseteq Requests
  /\ got \in [Requests -> (Int \X BOOLEAN) \cup {NoAnswer}]
  /\ answer \in [Requests -> (Int \X BOOLEAN) \cup {NoAnswer}]

Init ==
  /\ row = [p \in Photos |-> "none"]
  /\ likers = [p \in Photos |-> {}]
  /\ count = [p \in Photos |-> 0]
  /\ writer = Nobody
  /\ draftLikers = {}
  /\ draftCount = 0
  /\ req = [r \in Requests |-> "idle"]
  /\ photo \in [Requests -> Photos]
  /\ session \in [Requests -> Sessions]
  /\ stale = {}
  /\ got = [r \in Requests |-> NoAnswer]
  /\ answer = [r \in Requests |-> NoAnswer]

------------------------------------------------------------------------------
(* ToggleHeart, one step per statement.                                    *)

\* Transactions that hold a snapshot.
Readers == {r \in Requests : req[r] = "delete"}

\* BEGIN; SELECT id ... WHERE hidden_at IS NULL (mutant: without the WHERE).
SelectAny(r, p, s) ==
  /\ req[r] = "idle"
  /\ row[p] # "none"
  /\ req' = [req EXCEPT ![r] = "delete"]
  /\ photo' = [photo EXCEPT ![r] = p]
  /\ session' = [session EXCEPT ![r] = s]
  /\ answer' = [answer EXCEPT ![r] = NoAnswer]
  /\ UNCHANGED <<dbVars, draftVars, stale, got>>

Select(r, p, s) ==
  /\ req[r] = "idle"
  /\ row[p] = "visible"
  /\ req' = [req EXCEPT ![r] = "delete"]
  /\ photo' = [photo EXCEPT ![r] = p]
  /\ session' = [session EXCEPT ![r] = s]
  /\ answer' = [answer EXCEPT ![r] = NoAnswer]
  /\ UNCHANGED <<dbVars, draftVars, stale, got>>

\* The DELETE may write (it does, even if it finds no heart).
Lock(r) ==
  /\ req[r] = "delete"
  /\ writer = Nobody /\ r \notin stale
  /\ writer' = r
  /\ draftLikers' = likers[photo[r]] \ {session[r]}
  /\ draftCount' = count[photo[r]]
  /\ req' = [req EXCEPT ![r] = IF session[r] \in likers[photo[r]] THEN "down" ELSE "insert"]
  /\ UNCHANGED <<dbVars, photo, session, got, answer, stale>>

\* SQLITE_BUSY or SQLITE_BUSY_SNAPSHOT, without waiting.
Busy(r) ==
  /\ req[r] = "delete"
  /\ writer # Nobody \/ r \in stale
  /\ req' = [req EXCEPT ![r] = "busy"]
  /\ UNCHANGED <<dbVars, draftVars, photo, session, got, answer, stale>>

InsertHeart(r) ==
  /\ req[r] = "insert"
  /\ draftLikers' = draftLikers \cup {session[r]}
  /\ req' = [req EXCEPT ![r] = "up"]
  /\ UNCHANGED <<dbVars, writer, draftCount, photo, session, got, answer, stale>>

\* (mutant: the count is written by a statement outside the transaction.)
CountOutside(r) ==
  /\ req[r] \in {"up", "down"}
  /\ draftCount' = draftCount + (IF req[r] = "up" THEN 1 ELSE -1)
  /\ count' = [count EXCEPT ![photo[r]] = draftCount']
  /\ got' = [got EXCEPT ![r] = <<draftCount', req[r] = "up">>]
  /\ req' = [req EXCEPT ![r] = "read"]
  /\ UNCHANGED <<row, likers, writer, draftLikers, photo, session, answer, stale>>

\* The UPDATE; the branch taken is the hearted of the answer.
UpdateCount(r) ==
  /\ req[r] \in {"up", "down"}
  /\ draftCount' = draftCount + (IF req[r] = "up" THEN 1 ELSE -1)
  /\ got' = [got EXCEPT ![r] = <<draftCount', req[r] = "up">>]
  /\ req' = [req EXCEPT ![r] = "read"]
  /\ UNCHANGED <<dbVars, writer, draftLikers, photo, session, answer, stale>>

ReadCount(r) ==
  /\ req[r] = "read"
  /\ got' = [got EXCEPT ![r] = <<draftCount, got[r][2]>>]
  /\ req' = [req EXCEPT ![r] = "commit"]
  /\ UNCHANGED <<dbVars, draftVars, photo, session, answer, stale>>

\* The end of a transaction: the lock is free and the snapshot let go.
Over(r) ==
  /\ writer' = IF writer = r THEN Nobody ELSE writer
  /\ draftLikers' = IF writer = r THEN {} ELSE draftLikers
  /\ draftCount' = IF writer = r THEN 0 ELSE draftCount
  /\ req' = [req EXCEPT ![r] = "idle"]
  /\ got' = [got EXCEPT ![r] = NoAnswer]
  /\ UNCHANGED <<photo, session>>

Commit(r) ==
  /\ req[r] = "commit"
  /\ likers' = [likers EXCEPT ![photo[r]] = draftLikers]
  /\ count' = [count EXCEPT ![photo[r]] = draftCount]
  /\ answer' = [answer EXCEPT ![r] = got[r]]
  /\ stale' = stale \cup Readers
  /\ Over(r)
  /\ UNCHANGED row

\* An error of any statement, or of Commit: the deferred Rollback.
Rollback(r) ==
  /\ req[r] # "idle"
  /\ answer' = [answer EXCEPT ![r] = NoAnswer]
  /\ stale' = stale \ {r}
  /\ Over(r)
  /\ UNCHANGED dbVars

------------------------------------------------------------------------------
(* Single statements of the rest of the program: each needs the lock, and  *)
(* leaves every open snapshot behind.                                      *)

Overtake == stale' = stale \cup Readers

InsertPhoto(p) ==
  /\ writer = Nobody
  /\ row[p] = "none"
  /\ row' = [row EXCEPT ![p] = "visible"]
  /\ Overtake
  /\ UNCHANGED <<likers, count, draftVars, reqVars>>

SetHidden(p, hidden) ==
  /\ writer = Nobody
  /\ row[p] # "none"
  /\ row' = [row EXCEPT ![p] = IF hidden THEN "hidden" ELSE "visible"]
  /\ Overtake
  /\ UNCHANGED <<likers, count, draftVars, reqVars>>

\* ON DELETE CASCADE takes the hearts, and a new row starts at 0.
DeletePhoto(p) ==
  /\ writer = Nobody
  /\ row[p] # "none"
  /\ row' = [row EXCEPT ![p] = "none"]
  /\ likers' = [likers EXCEPT ![p] = {}]
  /\ count' = [count EXCEPT ![p] = 0]
  /\ Overtake
  /\ UNCHANGED <<draftVars, reqVars>>

\* UpsertSession, which every request starts with.
UpsertSession ==
  /\ writer = Nobody
  /\ Overtake
  /\ UNCHANGED <<dbVars, draftVars, reqVars>>

\* The process dies: SQLite rolls back what was not committed.
Crash ==
  /\ writer' = Nobody
  /\ draftLikers' = {}
  /\ draftCount' = 0
  /\ req' = [r \in Requests |-> "idle"]
  /\ got' = [r \in Requests |-> NoAnswer]
  /\ answer' = [r \in Requests |-> NoAnswer]
  /\ stale' = {}
  /\ UNCHANGED <<dbVars, photo, session>>

ToggleHeart(r) ==
  \/ Lock(r) \/ Busy(r) \/ InsertHeart(r) \/ UpdateCount(r) \/ ReadCount(r)
  \/ Commit(r) \/ Rollback(r)

Next ==
  \/ \E r \in Requests :
       ToggleHeart(r) \/ \E p \in Photos, s \in Sessions : Select(r, p, s)
  \/ UpsertSession
  \/ \E p \in Photos :
       InsertPhoto(p) \/ DeletePhoto(p) \/ \E hidden \in BOOLEAN : SetHidden(p, hidden)
  \/ Crash

Spec == Init /\ [][Next]_vars

------------------------------------------------------------------------------
(* "The count and the membership row never diverge" (hearts.go:13-14),     *)
(* whatever fails and whoever writes in between.                           *)
CountIsLikers == \A p \in Photos : count[p] = Cardinality(likers[p])

(* A toggle flips one heart of a visible photo at one instant and answers  *)
(* with what is true then, though its SELECT lies several steps back and   *)
(* the photo may be hidden or deleted meanwhile.                           *)
Board == INSTANCE HeartBoard
ImplementsBoard == Board!Spec

------------------------------------------------------------------------------
(* What keeps them true.                                                   *)

Writing == {"insert", "up", "down", "read", "commit"}

\* The lock is held from the first write to the end.
LockHeld == \A r \in Requests : req[r] \in Writing <=> writer = r

\* A snapshot that is not stale shows the photo as it is: still visible.
SnapshotTrue ==
  \A r \in Requests : (req[r] = "delete" /\ r \notin stale) \/ req[r] \in Writing => row[photo[r]] = "visible"

\* How far the draft is ahead of the tables.
DraftRight ==
  \A r \in Requests :
    LET p == photo[r]  s == session[r] IN
    /\ req[r] \in {"insert", "up"} => s \notin likers[p]
    /\ req[r] = "insert" => draftLikers = likers[p] /\ draftCount = count[p]
    /\ req[r] = "up" => draftLikers = likers[p] \cup {s} /\ draftCount = count[p]
    /\ req[r] = "down" =>
         s \in likers[p] /\ draftLikers = likers[p] \ {s} /\ draftCount = count[p]
    /\ req[r] \in {"read", "commit"} =>
         draftLikers = Board!Flip(likers[p], s) /\ draftCount = Cardinality(draftLikers)
    /\ req[r] \in {"read", "commit"} => got[r] = <<draftCount, s \in draftLikers>>

\* Nobody likes a photo that is not there.
NoOrphans == \A p \in Photos : IsFiniteSet(likers[p]) /\ (row[p] = "none" => likers[p] = {})

IInv == TypeOK /\ CountIsLikers /\ LockHeld /\ SnapshotTrue /\ DraftRight /\ NoOrphans
==============================================================================
