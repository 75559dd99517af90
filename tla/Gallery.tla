------------------------------- MODULE Gallery -------------------------------
(***************************************************************************)
(* What a guest gets to see while others upload and the operator hides and *)
(* deletes: the gallery page with its infinite scroll (pages.go, api.go,   *)
(* assets/gallery.js), and the routes that serve one photo (thumb.go,      *)
(* photoview.go).                                                          *)
(*                                                                         *)
(* Ids are handed out in order and never again (AUTOINCREMENT), so a photo *)
(* deleted and uploaded again comes back under a higher id.  A page of the *)
(* feed is the set of its ids; within a page the order is newest first.    *)
(***************************************************************************)
EXTENDS Naturals, FiniteSets

CONSTANTS Hashes,    \* contents
          MaxId,     \* uploads looked at
          PageSize,  \* galleryPageSize
          Fetches,   \* requests the script can have under way
          Routes,    \* subset of {"thumb", "photo", "original", "p"}
          NoHash

ASSUME GalleryAssumption == PageSize \in Nat \ {0} /\ MaxId \in Nat /\ NoHash \notin Hashes

Ids == 1 .. MaxId

VARIABLES status,   \* id -> "free", "visible", "hidden" or "deleted"
          content,  \* id -> its hash
          page,     \* "closed" or "open"
          tiles,    \* hash -> number of tiles in the grid
          cursor,   \* the script's cursor; 0 once there is no more
          loading,  \* the script's flag
          watching, \* the sentinel is observed
          near,     \* it is near the viewport
          fetch,    \* fetch -> "none", "asked" or "answered"
          before,   \* fetch -> the cursor it carries
          items,    \* fetch -> the page it brings
          steady,   \* ids visible ever since the page was opened (history)
          view,     \* where the request for one photo is
          route, wanted,  \* its route and its photo
          secret    \* the photo has been hidden since it was asked for (history)

rowVars   == <<status, content>>
feedVars  == <<page, tiles, cursor, loading, watching, near, fetch, before, items>>
viewVars  == <<view, route, wanted>>
vars == <<rowVars, feedVars, viewVars, steady, secret>>

TypeOK ==
  /\ status \in [Ids -> {"free", "visible", "hidden", "deleted"}]
  /\ content \in [Ids -> Hashes \cup {NoHash}]
  /\ page \in {"closed", "open"}
  /\ tiles \in [Hashes -> Nat]
  /\ cursor \in Ids \cup {0}
  /\ {loading, watching, near, secret} \subseteq BOOLEAN
  /\ fetch \in [Fetches -> {"none", "asked", "answered"}]
  /\ before \in [Fetches -> Ids \cup {0}]
  /\ items \in [Fetches -> SUBSET Ids]
  /\ steady \subseteq Ids
  /\ view \in {"none", "asked", "found"}
  /\ route \in Routes \cup {"none"}
  /\ wanted \in Hashes \cup {NoHash}

Init ==
  /\ status = [i \in Ids |-> "free"]
  /\ content = [i \in Ids |-> NoHash]
  /\ page = "closed"
  /\ tiles = [h \in Hashes |-> 0]
  /\ cursor = 0
  /\ loading = FALSE /\ watching = FALSE /\ near = FALSE
  /\ fetch = [f \in Fetches |-> "none"]
  /\ before = [f \in Fetches |-> 0]
  /\ items = [f \in Fetches |-> {}]
  /\ steady = {}
  /\ view = "none"
  /\ route = "none" /\ wanted = NoHash
  /\ secret = FALSE

------------------------------------------------------------------------------
(* The photos table.                                                       *)

Rows == {i \in Ids : status[i] \in {"visible", "hidden"}}
RowOf(h) == {i \in Rows : content[i] = h}
Used == {i \in Ids : status[i] # "free"}
Visible == {i \in Ids : status[i] = "visible"}

\* INSERT ... ON CONFLICT(content_hash) DO NOTHING.
InsertPhoto(i, h) ==
  /\ status[i] = "free" /\ \A j \in Ids : status[j] = "free" => i <= j
  /\ RowOf(h) = {}
  /\ status' = [status EXCEPT ![i] = "visible"]
  /\ content' = [content EXCEPT ![i] = h]
  /\ UNCHANGED <<feedVars, viewVars, steady, secret>>

SetHidden(i, hidden) ==
  /\ i \in Rows
  /\ status' = [status EXCEPT ![i] = IF hidden THEN "hidden" ELSE "visible"]
  /\ steady' = IF hidden THEN steady \ {i} ELSE steady
  /\ secret' = (secret /\ (hidden \/ wanted # content[i]))
  /\ UNCHANGED <<content, feedVars, viewVars>>

DeletePhoto(i) ==
  /\ i \in Rows
  /\ status' = [status EXCEPT ![i] = "deleted"]
  /\ steady' = steady \ {i}
  /\ secret' = (secret /\ wanted # content[i])
  /\ UNCHANGED <<content, feedVars, viewVars>>

------------------------------------------------------------------------------
(* The feed.                                                               *)

\* WHERE hidden_at IS NULL AND id < before.
Eligible(b) == {i \in Visible : b = 0 \/ i < b}

\* ORDER BY id DESC LIMIT PageSize.
GalleryPhotos(b) ==
  {i \in Eligible(b) : Cardinality({j \in Eligible(b) : j > i}) < PageSize}

Oldest(P) == CHOOSE i \in P : \A j \in P : i <= j

\* The cursor after a page (mutant: a full page is taken for the last one).
NextOfLonger(P) == IF Cardinality(P) <= PageSize THEN 0 ELSE Oldest(P)
NextCursor(P) == IF Cardinality(P) < PageSize THEN 0 ELSE Oldest(P)

AppendTiles(P) == [h \in Hashes |-> tiles[h] + Cardinality({i \in P : content[i] = h})]

------------------------------------------------------------------------------
(* The page and its script.                                                *)

\* GET /gallery; without a cursor the script does nothing.
Open ==
  /\ page = "closed"
  /\ page' = "open"
  /\ LET P == GalleryPhotos(0) IN
       /\ tiles' = AppendTiles(P)
       /\ cursor' = NextCursor(P)
       /\ watching' = (NextCursor(P) # 0)
  /\ steady' = Visible
  /\ UNCHANGED <<rowVars, viewVars, loading, near, fetch, before, items, secret>>

\* The query fails: an empty grid, and no scroll.
OpenFails ==
  /\ page = "closed"
  /\ page' = "open"
  /\ steady' = {}
  /\ UNCHANGED <<rowVars, viewVars, tiles, cursor, loading, watching, near, fetch, before, items>>
  /\ UNCHANGED <<secret>>

\* loadMore past its guard.
Ask(f, c) ==
  /\ fetch' = [fetch EXCEPT ![f] = "asked"]
  /\ before' = [before EXCEPT ![f] = c]
  /\ loading' = TRUE

\* The observer's callback (mutant: the guard forgets loading).
LoadAlways ==
  /\ watching /\ ~near
  /\ near' = TRUE
  /\ \E f \in Fetches : fetch[f] = "none" /\ Ask(f, cursor)
  /\ UNCHANGED <<rowVars, viewVars, page, tiles, cursor, watching, items, steady, secret>>

ComesNear ==
  /\ watching /\ ~near
  /\ near' = TRUE
  /\ \/ loading /\ UNCHANGED <<loading, fetch, before>>
     \/ ~loading /\ \E f \in Fetches : fetch[f] = "none" /\ Ask(f, cursor)
  /\ UNCHANGED <<rowVars, viewVars, page, tiles, cursor, watching, items, steady, secret>>

GoesAway ==
  /\ watching /\ near
  /\ near' = FALSE
  /\ UNCHANGED <<rowVars, viewVars, page, tiles, cursor, loading, watching>>
  /\ UNCHANGED <<fetch, before, items, steady, secret>>

\* GET /api/photos?before=...; the answer's next_before is NextCursor of its page.
HandlePhotos(f) ==
  /\ fetch[f] = "asked"
  /\ fetch' = [fetch EXCEPT ![f] = "answered"]
  /\ items' = [items EXCEPT ![f] = GalleryPhotos(before[f])]
  /\ UNCHANGED <<rowVars, viewVars, page, tiles, cursor, loading, watching, near, before>>
  /\ UNCHANGED <<steady, secret>>

Drop(f) ==
  /\ fetch' = [fetch EXCEPT ![f] = "none"]
  /\ before' = [before EXCEPT ![f] = 0]
  /\ items' = [items EXCEPT ![f] = {}]

\* The request or its answer is lost, or is no JSON: the catch (mutant: the
\* catch forgets loading).
FailsForGood(f) ==
  /\ fetch[f] # "none"
  /\ Drop(f)
  /\ UNCHANGED <<rowVars, viewVars, page, tiles, cursor, loading, watching, near>>
  /\ UNCHANGED <<steady, secret>>

Fails(f) ==
  /\ fetch[f] # "none"
  /\ Drop(f)
  /\ loading' = FALSE
  /\ UNCHANGED <<rowVars, viewVars, page, tiles, cursor, watching, near>>
  /\ UNCHANGED <<steady, secret>>

\* The tiles are in the grid: the end, more at once, or the next scroll.
Arrives(f) ==
  /\ fetch[f] = "answered"
  /\ tiles' = AppendTiles(items[f])
  /\ cursor' = NextCursor(items[f])
  /\ watching' = (cursor' # 0)
  /\ \/ /\ cursor' # 0 /\ near
        /\ Ask(f, cursor')
        /\ items' = [items EXCEPT ![f] = {}]
        /\ UNCHANGED near
     \/ near' = FALSE /\ Drop(f) /\ loading' = FALSE
  /\ UNCHANGED <<rowVars, viewVars, page, steady, secret>>

------------------------------------------------------------------------------
(* One photo at a time: /thumb, /photo, /original, /p.  Contents never     *)
(* uploaded are 404 everywhere and are left out.                           *)

Get(r, h) ==
  /\ view = "none" /\ \E i \in Used : content[i] = h
  /\ view' = "asked"
  /\ route' = r
  /\ wanted' = h
  /\ secret' = (\E i \in RowOf(h) : status[i] = "hidden")
  /\ UNCHANGED <<rowVars, feedVars, steady>>

\* The answer is complete, or is a 404.
Over == view' = "none" /\ route' = "none" /\ wanted' = NoHash /\ secret' = FALSE

Found == view' = "found" /\ UNCHANGED <<route, wanted, secret>>

\* PhotoMeta, of visible photos only (mutant: PhotoByHash, of all).
PhotoByHash ==
  /\ view = "asked" /\ route # "thumb"
  /\ (RowOf(wanted) # {} /\ Found) \/ Over
  /\ UNCHANGED <<rowVars, feedVars, steady>>

PhotoMeta ==
  /\ view = "asked" /\ route # "thumb"
  /\ (RowOf(wanted) \cap Visible # {} /\ Found) \/ Over
  /\ UNCHANGED <<rowVars, feedVars, steady>>

\* The file is there, or is made again for any row, or there is none.
FindThumb ==
  /\ view = "asked" /\ route = "thumb"
  /\ Found \/ Over
  /\ UNCHANGED <<rowVars, feedVars, steady>>

Serve ==
  /\ view = "found"
  /\ Over
  /\ UNCHANGED <<rowVars, feedVars, steady>>

Scroll == ComesNear \/ GoesAway

Next ==
  \/ \E i \in Ids :
       \/ \E h \in Hashes : InsertPhoto(i, h)
       \/ \E hidden \in BOOLEAN : SetHidden(i, hidden)
       \/ DeletePhoto(i)
  \/ Open \/ OpenFails \/ Scroll
  \/ \E f \in Fetches : HandlePhotos(f) \/ Fails(f) \/ Arrives(f)
  \/ \E r \in Routes, h \in Hashes : Get(r, h)
  \/ PhotoMeta \/ FindThumb \/ Serve

Spec == Init /\ [][Next]_vars

\* The guest goes on scrolling up and down, and the Wi-Fi does not lose
\* every answer.
Fairness ==
  /\ WF_vars(ComesNear) /\ WF_vars(GoesAway)
  /\ \A f \in Fetches : SF_vars(HandlePhotos(f)) /\ SF_vars(Arrives(f)) /\ WF_vars(Fails(f) \/ Arrives(f))

FairSpec == Spec /\ Fairness

------------------------------------------------------------------------------
(* No photo appears twice in the grid, whatever is uploaded, hidden,       *)
(* deleted or uploaded again between two fetches, however the guest        *)
(* scrolls (gallery.js:64-93).                                             *)
NoTileTwice == \A h \in Hashes : tiles[h] <= 1

(* And none is missed: what was visible all the time is in the grid as     *)
(* soon as the cursor has passed it, and all of it at the end              *)
(* (photos.go:147-150).                                                    *)
NothingSkipped ==
  \A i \in steady : cursor <= i => tiles[content[i]] = 1

(* A guest who goes on scrolling gets to the end of the gallery, also over *)
(* a network that loses answers now and then (gallery.js:89-92).           *)
EndReached == page = "open" ~> cursor = 0

(* "Hidden photos are excluded from /api/photos, /thumb, /photo, /original *)
(* and /p - so a hide is immediate" (photos.go:216-218): whatever is hid,  *)
(* shown, deleted and uploaded again in between, no route but one finds a  *)
(* photo that was hidden when it was asked for and ever since.  The one is *)
(* /thumb, which asks the database only when it misses the file, and then  *)
(* not for hidden_at (thumb.go:25-58).                                     *)
OnlyThumbShowsHidden == view = "found" /\ secret => route = "thumb"

------------------------------------------------------------------------------
(* What keeps them true.                                                   *)

\* Ids are handed out in order, and of the uploads of one content only the
\* last can still have a row.
InOrder ==
  /\ \A i \in Used, j \in Ids : j < i => j \in Used
  /\ \A i \in Used : content[i] \in Hashes
  /\ \A i \in Rows, j \in Used : content[i] = content[j] => j <= i

\* One fetch at most, and it carries the cursor.
OneFetch ==
  /\ loading <=> \E f \in Fetches : fetch[f] # "none"
  /\ \A f, g \in Fetches : fetch[f] # "none" /\ fetch[g] # "none" => f = g
  /\ \A f \in Fetches : fetch[f] # "none" => before[f] = cursor /\ cursor # 0
  /\ \A f \in Fetches : items[f] # {} => fetch[f] = "answered"
  /\ watching <=> cursor # 0

\* The grid is ahead of the cursor: nothing older than the cursor is in it.
Ahead ==
  /\ cursor # 0 => cursor \in Used
  /\ cursor # 0 => \A i \in Rows : i < cursor => tiles[content[i]] = 0
  /\ page = "closed" => cursor = 0 /\ steady = {} /\ tiles = [h \in Hashes |-> 0]
  /\ steady \subseteq Visible

\* A page under way holds only what is new to the grid, and all of that
\* down to its own cursor.
PageFits ==
  \A f \in Fetches :
    /\ \A i \in items[f] : i \in Used /\ i < cursor /\ tiles[content[i]] = 0
    /\ \A i, j \in items[f] : content[i] = content[j] => i = j
    /\ fetch[f] = "answered" =>
         \A i \in steady : i < cursor /\ NextCursor(items[f]) <= i => i \in items[f]

\* Every route but /thumb looks at hidden_at.
MetaHides ==
  /\ OnlyThumbShowsHidden
  /\ secret => \E i \in RowOf(wanted) : status[i] = "hidden"

IInv ==
  /\ TypeOK /\ NoTileTwice /\ NothingSkipped
  /\ InOrder /\ OneFetch /\ Ahead /\ PageFits /\ MetaHides
==============================================================================
