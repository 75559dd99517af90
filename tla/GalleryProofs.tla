---------------------------- MODULE GalleryProofs ----------------------------
(* No photo twice and none skipped, for galleries and pages of any size.   *)
EXTENDS Gallery, FiniteSetTheorems, TLAPS

USE GalleryAssumption
USE DEF OnlyThumbShowsHidden

------------------------------------------------------------------------------
(* Facts about pages: finite sets of ids.                                  *)

(* A page that is not empty has an oldest and a newest photo.              *)
LEMMA Ends ==
  ASSUME NEW P \in SUBSET Ids, P # {}
  PROVE  (\E i \in P : \A j \in P : i <= j) /\ (\E i \in P : \A j \in P : j <= i)
<1> DEFINE Below == {1 .. i : i \in P}
           Above == {i .. MaxId : i \in P}
<1>1. IsWellFoundedOn(StrictSubsetOrdering(Ids), FiniteSubsetsOf(Ids))
  BY FS_StrictSubsetOrderingWellFounded
<1>2. FiniteSubsetsOf(Ids) = SUBSET Ids
  BY FS_FiniteSubsetsOfFinite, FS_Interval DEF Ids
<1>3. Below \subseteq SUBSET Ids /\ Above \subseteq SUBSET Ids /\ Below # {} /\ Above # {}
  <2>1. \A i \in P : 1 .. i \subseteq Ids /\ i .. MaxId \subseteq Ids
    BY DEF Ids
  <2>2. \A i \in P : 1 .. i \in Below /\ i .. MaxId \in Above
    OBVIOUS
  <2> QED  BY <2>1, <2>2, Zenon
<1>4. PICK S \in Below : \A T \in Below : <<T, S>> \notin StrictSubsetOrdering(Ids)
  <2> HIDE DEF Below
  <2> QED  BY <1>1, <1>2, <1>3, WFMin
<1>5. PICK S2 \in Above : \A T \in Above : <<T, S2>> \notin StrictSubsetOrdering(Ids)
  <2> HIDE DEF Above
  <2> QED  BY <1>1, <1>2, <1>3, WFMin
<1>6. PICK i \in P : S = 1 .. i
  OBVIOUS
<1>7. PICK k \in P : S2 = k .. MaxId
  OBVIOUS
<1>8. \A j \in P : i <= j
  <2> SUFFICES ASSUME NEW j \in P, ~(i <= j) PROVE FALSE
    OBVIOUS
  <2>1. 1 .. j \in Below /\ 1 .. j \subseteq 1 .. i /\ i \in 1 .. i /\ i \notin 1 .. j
    BY DEF Ids
  <2>2. <<1 .. j, S>> \in StrictSubsetOrdering(Ids)
    BY <2>1, <1>6, <1>3 DEF StrictSubsetOrdering
  <2> QED  BY <2>1, <2>2, <1>4
<1>9. \A j \in P : j <= k
  <2> SUFFICES ASSUME NEW j \in P, ~(j <= k) PROVE FALSE
    OBVIOUS
  <2>1. j .. MaxId \in Above /\ j .. MaxId \subseteq k .. MaxId /\ k \in k .. MaxId /\ k \notin j .. MaxId
    BY DEF Ids
  <2>2. <<j .. MaxId, S2>> \in StrictSubsetOrdering(Ids)
    BY <2>1, <1>7, <1>3 DEF StrictSubsetOrdering
  <2> QED  BY <2>1, <2>2, <1>5
<1> QED  BY <1>8, <1>9

(* Subsets of a set of ids are finite, and smaller ones have no more ids.  *)
LEMMA Sizes ==
  ASSUME NEW P \in SUBSET Ids, NEW Q \in SUBSET P
  PROVE  /\ Cardinality(P) \in Nat /\ Cardinality(Q) \in Nat
         /\ Cardinality(Q) <= Cardinality(P)
<1>1. IsFiniteSet(Ids)
  BY FS_Interval DEF Ids
<1>2. IsFiniteSet(P)
  BY <1>1, FS_Subset
<1> QED  BY <1>2, FS_Subset, FS_CardinalityType

(* The cursor is the id of the oldest photo of a full page.                *)
LEMMA CursorFacts ==
  ASSUME NEW P \in SUBSET Ids, NextCursor(P) # 0
  PROVE  NextCursor(P) \in P /\ \A i \in P : NextCursor(P) <= i
<1>1. NextCursor(P) = Oldest(P) /\ ~(Cardinality(P) < PageSize)
  BY DEF NextCursor
<1>2. P # {}
  BY <1>1, FS_EmptySet
<1> QED  BY <1>1, <1>2, Ends DEF Oldest

(* A page holds every eligible photo down to its own cursor.               *)
LEMMA PageIsWhole ==
  ASSUME NEW b, NEW i \in Eligible(b), NextCursor(GalleryPhotos(b)) <= i
  PROVE  i \in GalleryPhotos(b)
<1> DEFINE E == Eligible(b)
           P == GalleryPhotos(b)
           Newer(k) == {j \in E : j > k}
<1>1. E \subseteq Ids /\ P \subseteq E /\ P \subseteq Ids
  BY DEF Eligible, GalleryPhotos, Visible
<1>2. \A k \in E : k \in P <=> Cardinality(Newer(k)) < PageSize
  BY DEF GalleryPhotos
<1>3. \A k \in Ids : Newer(k) \in SUBSET Ids
  BY <1>1
<1>4. CASE NextCursor(P) = 0
  \* The page is not full, so nothing can be left out.
  <2> SUFFICES ASSUME i \notin P PROVE FALSE
    OBVIOUS
  <2>1. Cardinality(P) < PageSize
    <3>1. P # {} => Oldest(P) \in P
      BY <1>1, Ends DEF Oldest
    <3>2. Cardinality({}) = 0
      BY FS_EmptySet
    <3> HIDE DEF P
    <3>3. CASE ~(Cardinality(P) < PageSize)
      <4>1. Oldest(P) = 0
        BY <1>4, <3>3 DEF NextCursor
      <4>2. P = {}
        BY <4>1, <3>1, <1>1 DEF Ids
      <4> QED  BY <4>2, <3>2, <3>3, GalleryAssumption
    <3> QED  BY <3>3
  <2>2. E \ P # {} /\ E \ P \in SUBSET Ids
    BY <1>1
  <2>3. PICK k \in E \ P : \A j \in E \ P : j <= k
    BY <2>2, Ends
  <2>4. Newer(k) \subseteq P
    BY <2>3, <1>1 DEF Ids
  <2>5. Cardinality(Newer(k)) <= Cardinality(P) /\ Cardinality(Newer(k)) \in Nat /\ Cardinality(P) \in Nat
    BY <2>4, <1>1, Sizes
  <2> HIDE DEF P, E, Newer
  <2>6. ~(Cardinality(Newer(k)) < PageSize)
    BY <2>3, <1>2
  <2> QED  BY <2>1, <2>5, <2>6
<1>5. CASE NextCursor(P) # 0
  \* Nothing eligible lies between i and the oldest photo of the page.
  <2>1. PICK o \in P : o = NextCursor(P)
    BY <1>5, <1>1, CursorFacts
  <2>2. Newer(i) \subseteq Newer(o)
    BY <2>1, <1>1 DEF Ids
  <2>3. Newer(o) \in SUBSET Ids
    BY <1>1, <2>1
  <2>4. Cardinality(Newer(i)) <= Cardinality(Newer(o)) /\ Cardinality(Newer(i)) \in Nat
        /\ Cardinality(Newer(o)) \in Nat
    BY <2>2, <2>3, Sizes
  <2> HIDE DEF P, E, Newer
  <2>5. Cardinality(Newer(o)) < PageSize
    BY <2>1, <1>1, <1>2
  <2>6. i \in E
    BY DEF E
  <2> QED  BY <2>4, <2>5, <2>6, <1>2 DEF P
<1> QED  BY <1>4, <1>5

(* The tiles after a page whose photos differ.                             *)
LEMMA TilesAfter ==
  ASSUME tiles \in [Hashes -> Nat], NEW P \in SUBSET Ids,
         \A i, j \in P : content[i] = content[j] => i = j
  PROVE  /\ AppendTiles(P) \in [Hashes -> Nat]
         /\ \A i \in P : content[i] \in Hashes => AppendTiles(P)[content[i]] = tiles[content[i]] + 1
         /\ \A h \in Hashes : (\A i \in P : content[i] # h) => AppendTiles(P)[h] = tiles[h]
<1> DEFINE Of(h) == {i \in P : content[i] = h}
<1>1. \A h \in Hashes : AppendTiles(P)[h] = tiles[h] + Cardinality(Of(h))
  BY DEF AppendTiles
<1>2. \A h \in Hashes : Cardinality(Of(h)) \in Nat
  BY Sizes
<1>3. ASSUME NEW i \in P PROVE Cardinality(Of(content[i])) = 1
  <2>1. Of(content[i]) = {i}
    OBVIOUS
  <2> QED  BY <2>1, FS_Singleton
<1>4. ASSUME NEW h \in Hashes, \A i \in P : content[i] # h PROVE Cardinality(Of(h)) = 0
  <2>1. Of(h) = {}
    BY <1>4
  <2> QED  BY <2>1, FS_EmptySet
<1>5. AppendTiles(P) \in [Hashes -> Nat]
  <2> HIDE DEF Of
  <2> QED  BY <1>1, <1>2 DEF AppendTiles, Of
<1> HIDE DEF Of
<1> QED  BY <1>1, <1>3, <1>4, <1>5

------------------------------------------------------------------------------
(* The invariant, action by action.                                        *)

USE DEF Rows, Used, Visible, RowOf, rowVars, feedVars, viewVars

(* An empty gallery and no page.                                           *)
LEMMA InitIInv == Init => IInv
<1> SUFFICES ASSUME Init PROVE IInv
  OBVIOUS
<1>1. TypeOK /\ NoTileTwice /\ NothingSkipped
  <2>1. TypeOK
    BY DEF Init, TypeOK
  <2>2. NoTileTwice /\ NothingSkipped
    BY DEF Init, NoTileTwice, NothingSkipped
  <2> QED  BY <2>1, <2>2
<1>2. InOrder /\ MetaHides
  BY DEF Init, InOrder, MetaHides
<1>3. OneFetch
  BY DEF Init, OneFetch
<1>4. Ahead /\ PageFits
  BY DEF Init, Ahead, PageFits
<1> QED  BY <1>1, <1>2, <1>3, <1>4 DEF IInv

(* A new photo is newer than the cursor and than every page under way.     *)
LEMMA InsertIInv ==
  ASSUME IInv, NEW i \in Ids, NEW h \in Hashes, InsertPhoto(i, h)
  PROVE  IInv'
<1> USE DEF InsertPhoto
<1>1. TypeOK'
  BY DEF IInv, TypeOK
<1>2. /\ \A j \in Ids : j \in Used' <=> j \in Used \/ j = i
      /\ \A j \in Used : j < i /\ content'[j] = content[j]
      /\ content'[i] = h /\ i \notin Used
  BY DEF IInv, TypeOK, InOrder, Ids
<1>3. \A j \in Rows' : j = i \/ j \in Rows
  BY DEF IInv, TypeOK
<1>4. InOrder'
  <2>1. \A j \in Used', k \in Ids : k < j => k \in Used'
    BY <1>2 DEF IInv, InOrder, Ids
  <2>2. \A j \in Used' : content'[j] \in Hashes
    BY <1>2 DEF IInv, InOrder
  <2>3. ASSUME NEW j \in Rows', NEW k \in Used', content'[j] = content'[k] PROVE k <= j
    <3>1. CASE j = i
      BY <3>1, <1>2 DEF Ids
    <3>2. CASE j # i /\ k # i
      BY <3>2, <2>3, <1>2, <1>3 DEF IInv, InOrder
    <3>3. CASE j # i /\ k = i
      BY <3>3, <2>3, <1>2, <1>3
    <3> QED  BY <3>1, <3>2, <3>3
  <2> QED  BY <2>1, <2>2, <2>3 DEF InOrder
<1>5. steady \subseteq Used
  BY DEF IInv, Ahead
<1>6. NoTileTwice' /\ NothingSkipped'
  BY <1>2, <1>5 DEF IInv, NoTileTwice, NothingSkipped
<1>7. OneFetch'
  BY DEF IInv, OneFetch
<1>8. Ahead'
  <2>1. \A j \in steady : status'[j] = "visible"
    BY <1>2, <1>5 DEF IInv, Ahead, TypeOK
  <2>2. cursor # 0 => ~(i < cursor)
    BY <1>2 DEF IInv, Ahead, Ids
  <2> QED  BY <2>1, <2>2, <1>2, <1>3 DEF IInv, Ahead
<1>9. PageFits'
  BY <1>2, <1>5 DEF IInv, PageFits, NextCursor, Oldest
<1>10. MetaHides'
  BY <1>2 DEF IInv, MetaHides, TypeOK
<1> QED  BY <1>1, <1>4, <1>6, <1>7, <1>8, <1>9, <1>10 DEF IInv

(* Hiding and deleting only take something away from what was there all    *)
(* the time.                                                               *)
LEMMA HideOrDeleteIInv ==
  ASSUME IInv, NEW i \in Ids, DeletePhoto(i) \/ \E hidden \in BOOLEAN : SetHidden(i, hidden)
  PROVE  IInv'
<1>1. /\ UNCHANGED <<content, feedVars, viewVars>>
      /\ status' \in [Ids -> {"free", "visible", "hidden", "deleted"}]
      /\ steady' \subseteq steady
      /\ \A j \in Ids : j # i => status'[j] = status[j]
      /\ i \in Rows /\ status'[i] # "free"
      /\ status'[i] # "visible" => i \notin steady'
      /\ secret' \in BOOLEAN /\ (secret' => secret)
      /\ secret' => content[i] # wanted \/ status'[i] = "hidden"
  BY DEF DeletePhoto, SetHidden, IInv, TypeOK
<1>2. TypeOK'
  BY <1>1 DEF IInv, TypeOK
<1>3. Used' = Used /\ Rows' \subseteq Rows
  BY <1>1
<1>4. NoTileTwice' /\ NothingSkipped'
  BY <1>1 DEF IInv, NoTileTwice, NothingSkipped
<1>5. InOrder' /\ OneFetch'
  BY <1>1, <1>3 DEF IInv, InOrder, OneFetch
<1>6. Ahead'
  BY <1>1, <1>3 DEF IInv, Ahead
<1>7. PageFits'
  BY <1>1, <1>3 DEF IInv, PageFits, NextCursor, Oldest
<1>8. MetaHides'
  BY <1>1 DEF IInv, MetaHides, TypeOK
<1> QED  BY <1>2, <1>4, <1>5, <1>6, <1>7, <1>8 DEF IInv

------------------------------------------------------------------------------
(* A page is taken from the rows, below its cursor, and its contents       *)
(* differ.                                                                 *)
LEMMA PageOfRows ==
  ASSUME IInv, NEW b
  PROVE  /\ GalleryPhotos(b) \in SUBSET Ids
         /\ \A i \in GalleryPhotos(b) : i \in Visible /\ (b = 0 \/ i < b)
         /\ \A i, j \in GalleryPhotos(b) : content[i] = content[j] => i = j
<1>1. GalleryPhotos(b) \subseteq Eligible(b)
  BY DEF GalleryPhotos
<1>2. \A i, j \in Rows : content[i] = content[j] => i = j
  BY DEF IInv, InOrder, Ids
<1> QED  BY <1>1, <1>2 DEF Eligible

(* What is older than a page is not in it: of a content, only the last     *)
(* upload can have a row.                                                  *)
LEMMA OlderRows ==
  ASSUME InOrder, NEW P \in SUBSET Used, NextCursor(P) # 0, NEW i \in Rows, i < NextCursor(P)
  PROVE  \A j \in P : content[j] # content[i]
<1>1. \A j \in P : NextCursor(P) <= j /\ NextCursor(P) \in Ids
  BY CursorFacts
<1> QED  BY <1>1 DEF InOrder, Ids

(* The first page goes into an empty grid.                                 *)
LEMMA OpenIInv ==
  ASSUME IInv, Open
  PROVE  IInv'
<1> DEFINE P == GalleryPhotos(0)
<1>1. /\ page' = "open" /\ tiles' = AppendTiles(P) /\ cursor' = NextCursor(P)
      /\ watching' = (NextCursor(P) # 0) /\ steady' = Visible
      /\ UNCHANGED <<rowVars, viewVars, loading, near, fetch, before, items, secret>>
      /\ cursor = 0 /\ tiles = [h \in Hashes |-> 0]
  BY DEF Open, IInv, Ahead
<1>2. /\ P \in SUBSET Ids /\ P \subseteq Visible
      /\ \A i, j \in P : content[i] = content[j] => i = j
  BY PageOfRows
<1>3. /\ tiles' \in [Hashes -> Nat]
      /\ \A i \in P : content[i] \in Hashes /\ tiles'[content[i]] = 1
      /\ \A h \in Hashes : (\A i \in P : content[i] # h) => tiles'[h] = 0
  <2>1. \A i \in P : content[i] \in Hashes
    BY <1>2 DEF IInv, InOrder
  <2> HIDE DEF P
  <2> QED  BY <2>1, <1>1, <1>2, TilesAfter
<1>4. \A i \in Visible : NextCursor(P) <= i => i \in P
  BY PageIsWhole DEF Eligible
<1>5. cursor' # 0 => cursor' \in P
  BY <1>1, <1>2, CursorFacts
<1>6. fetch = [f \in Fetches |-> "none"] /\ (\A f \in Fetches : items[f] = {})
  BY <1>1 DEF IInv, OneFetch, TypeOK
<1> HIDE DEF P
<1>7. TypeOK'
  BY <1>1, <1>2, <1>3, <1>5 DEF IInv, TypeOK
<1>8. NoTileTwice'
  <2> SUFFICES ASSUME NEW h \in Hashes PROVE tiles'[h] <= 1
    BY DEF NoTileTwice
  <2> QED  BY <1>3
<1>9. NothingSkipped'
  BY <1>1, <1>3, <1>4 DEF NothingSkipped
<1>10. InOrder'
  BY <1>1 DEF IInv, InOrder
<1>11. OneFetch'
  BY <1>1, <1>6 DEF IInv, OneFetch
<1>12. Ahead'
  <2>1. ASSUME cursor' # 0, NEW i \in Rows, i < cursor' PROVE tiles'[content[i]] = 0
    <3>1. \A j \in P : content[j] # content[i]
      BY <2>1, <1>1, <1>2, OlderRows DEF IInv
    <3> QED  BY <3>1, <1>3 DEF IInv, InOrder
  <2> QED  BY <2>1, <1>1, <1>2, <1>5 DEF Ahead
<1>13. PageFits'
  BY <1>1, <1>6 DEF PageFits
<1>14. MetaHides'
  BY <1>1 DEF IInv, MetaHides
<1> QED  BY <1>7, <1>8, <1>9, <1>10, <1>11, <1>12, <1>13, <1>14 DEF IInv

(* The scroll, the failing page and the lost answer touch neither the grid *)
(* nor the table.                                                          *)
LEMMA ScrollIInv ==
  ASSUME IInv, OpenFails \/ Scroll \/ \E f \in Fetches : Fails(f)
  PROVE  IInv'
<1> USE DEF IInv
<1>1. /\ UNCHANGED <<rowVars, viewVars, tiles, cursor, watching, secret>>
      /\ steady' \subseteq steady /\ (page = "open" => page' = "open")
      /\ (page' = "closed" => page = "closed" /\ steady' = steady)
  BY DEF OpenFails, Scroll, ComesNear, GoesAway, Fails, Drop, Ask, Ahead, TypeOK
<1>2. TypeOK'
  <2>1. CASE OpenFails \/ GoesAway
    BY <2>1 DEF OpenFails, GoesAway, TypeOK
  <2>2. CASE ComesNear
    <3>1. CASE loading
      BY <2>2, <3>1 DEF ComesNear, TypeOK
    <3>2. CASE ~loading
      <4>1. PICK f \in Fetches : Ask(f, cursor)
        BY <2>2, <3>2 DEF ComesNear
      <4>2. /\ UNCHANGED <<rowVars, viewVars, page, tiles, cursor, watching, items, steady, secret>>
            /\ near' = TRUE
        BY <2>2 DEF ComesNear
      <4> QED  BY <4>1, <4>2 DEF Ask, TypeOK
    <3> QED  BY <3>1, <3>2
  <2>3. ASSUME NEW f \in Fetches, Fails(f) PROVE TypeOK'
    BY <2>3 DEF Fails, Drop, TypeOK
  <2> QED  BY <2>1, <2>2, <2>3 DEF Scroll
<1>3. OneFetch'
  <2>1. CASE OpenFails \/ GoesAway
    BY <2>1 DEF OpenFails, GoesAway, OneFetch
  <2>2. CASE ComesNear
    BY <2>2 DEF ComesNear, Ask, OneFetch, TypeOK
  <2>3. ASSUME NEW f \in Fetches, Fails(f) PROVE OneFetch'
    BY <2>3 DEF Fails, Drop, OneFetch, TypeOK
  <2> QED  BY <2>1, <2>2, <2>3 DEF Scroll
<1>4. \A f \in Fetches :
        /\ items'[f] = items[f] \/ items'[f] = {}
        /\ fetch'[f] = "answered" => fetch[f] = "answered" /\ items'[f] = items[f]
  BY DEF OpenFails, Scroll, ComesNear, GoesAway, Fails, Drop, Ask, TypeOK
<1>5. PageFits'
  BY <1>1, <1>4 DEF PageFits, NextCursor, Oldest
<1>6. NoTileTwice' /\ NothingSkipped' /\ InOrder' /\ Ahead' /\ MetaHides'
  BY <1>1 DEF NoTileTwice, NothingSkipped, InOrder, Ahead, MetaHides
<1> QED  BY <1>2, <1>3, <1>5, <1>6

(* The server's answer is below the cursor, where nothing is in the grid.  *)
LEMMA HandleIInv ==
  ASSUME IInv, NEW f \in Fetches, HandlePhotos(f)
  PROVE  IInv'
<1> DEFINE P == GalleryPhotos(cursor)
<1>1. /\ fetch[f] = "asked" /\ fetch' = [fetch EXCEPT ![f] = "answered"]
      /\ items' = [items EXCEPT ![f] = P]
      /\ UNCHANGED <<rowVars, viewVars, page, tiles, cursor, loading, watching, near, before>>
      /\ UNCHANGED <<steady, secret>>
      /\ cursor # 0
  BY DEF HandlePhotos, IInv, OneFetch
<1>2. /\ P \in SUBSET Ids /\ \A i \in P : i \in Visible /\ i < cursor
      /\ \A i, j \in P : content[i] = content[j] => i = j
  BY <1>1, PageOfRows
<1>3. \A i \in Visible : i < cursor /\ NextCursor(P) <= i => i \in P
  BY PageIsWhole DEF Eligible
<1> HIDE DEF P
<1>4. TypeOK'
  BY <1>1, <1>2 DEF IInv, TypeOK
<1>5. OneFetch'
  BY <1>1 DEF IInv, OneFetch, TypeOK
<1>6. PageFits'
  <2> SUFFICES ASSUME NEW g \in Fetches PROVE PageFits!(g)'
    BY DEF PageFits
  <2>1. CASE g # f
    <3>1. items'[g] = items[g] /\ fetch'[g] = fetch[g]
      BY <2>1, <1>1 DEF IInv, TypeOK
    <3>2. NextCursor(items[g])' = NextCursor(items[g])
      BY <3>1 DEF NextCursor, Oldest
    <3> QED  BY <3>1, <3>2, <1>1 DEF IInv, PageFits
  <2>2. CASE g = f
    <3>1. items'[f] = P
      BY <1>1 DEF IInv, TypeOK
    <3>2. \A i \in P : i \in Used /\ i < cursor /\ tiles[content[i]] = 0
      BY <1>1, <1>2 DEF IInv, Ahead
    <3>3. \A i \in steady : i < cursor /\ NextCursor(P) <= i => i \in P
      BY <1>3 DEF IInv, Ahead
    <3> QED  BY <2>2, <3>1, <3>2, <3>3, <1>1, <1>2 DEF NextCursor, Oldest
  <2> QED  BY <2>1, <2>2
<1>7. NoTileTwice' /\ NothingSkipped' /\ InOrder' /\ Ahead' /\ MetaHides'
  BY <1>1 DEF IInv, NoTileTwice, NothingSkipped, InOrder, Ahead, MetaHides
<1> QED  BY <1>4, <1>5, <1>6, <1>7 DEF IInv

(* The page under way fits: new to the grid, and whole.                    *)
LEMMA ArrivesIInv ==
  ASSUME IInv, NEW f \in Fetches, Arrives(f)
  PROVE  IInv'
<1> DEFINE P == items[f]
           c == NextCursor(P)
<1>1. /\ fetch[f] = "answered" /\ tiles' = AppendTiles(P) /\ cursor' = c
      /\ items' = [items EXCEPT ![f] = {}] /\ watching' = (c # 0)
      /\ UNCHANGED <<rowVars, viewVars, page, steady, secret>>
      /\ \/ /\ c # 0 /\ loading' = TRUE
            /\ fetch' = [fetch EXCEPT ![f] = "asked"] /\ before' = [before EXCEPT ![f] = c]
         \/ /\ loading' = FALSE
            /\ fetch' = [fetch EXCEPT ![f] = "none"] /\ before' = [before EXCEPT ![f] = 0]
      /\ near' \in BOOLEAN
  BY DEF Arrives, Ask, Drop, IInv, TypeOK
<1>2. /\ P \in SUBSET Ids /\ P \subseteq Used
      /\ \A i \in P : i < cursor /\ tiles[content[i]] = 0 /\ content[i] \in Hashes
      /\ \A i, j \in P : content[i] = content[j] => i = j
      /\ \A i \in steady : i < cursor /\ c <= i => i \in P
      /\ cursor # 0
  BY <1>1 DEF IInv, PageFits, TypeOK, InOrder, OneFetch
<1>3. /\ tiles' \in [Hashes -> Nat]
      /\ \A i \in P : tiles'[content[i]] = 1
      /\ \A h \in Hashes : (\A i \in P : content[i] # h) => tiles'[h] = tiles[h]
  <2>1. tiles \in [Hashes -> Nat]
    BY DEF IInv, TypeOK
  <2> HIDE DEF P
  <2> QED  BY <2>1, <1>1, <1>2, TilesAfter
<1>4. c # 0 => c \in P
  BY <1>2, CursorFacts
<1>5. \A g \in Fetches : g # f => fetch[g] = "none" /\ items[g] = {}
  BY <1>1 DEF IInv, OneFetch, TypeOK
<1> HIDE DEF P, c
<1>6. TypeOK'
  <2>1. fetch' \in [Fetches -> {"none", "asked", "answered"}]
    BY <1>1 DEF IInv, TypeOK
  <2>2. before' \in [Fetches -> Ids \cup {0}]
    BY <1>1, <1>2, <1>4 DEF IInv, TypeOK
  <2>3. items' \in [Fetches -> SUBSET Ids]
    BY <1>1 DEF IInv, TypeOK
  <2> QED  BY <2>1, <2>2, <2>3, <1>1, <1>2, <1>3, <1>4 DEF IInv, TypeOK
<1>7. NoTileTwice'
  <2> SUFFICES ASSUME NEW h \in Hashes PROVE tiles'[h] <= 1
    BY DEF NoTileTwice
  <2> QED  BY <1>3 DEF IInv, NoTileTwice
<1>8. NothingSkipped'
  <2> SUFFICES ASSUME NEW i \in steady, c <= i PROVE tiles'[content[i]] = 1
    BY <1>1 DEF NothingSkipped
  <2>1. CASE i \in P
    BY <2>1, <1>3
  <2>2. CASE i \notin P
    <3>1. i \in Ids /\ content[i] \in Hashes /\ tiles[content[i]] = 1
      BY <2>2, <1>2 DEF IInv, TypeOK, NothingSkipped, Ahead, InOrder, Ids
    <3>2. \A j \in P : content[j] # content[i]
      BY <3>1, <1>2
    <3> QED  BY <3>1, <3>2, <1>3
  <2> QED  BY <2>1, <2>2
<1>9. InOrder'
  BY <1>1 DEF IInv, InOrder
<1>10. OneFetch'
  <2>1. /\ \A g \in Fetches : g # f => fetch'[g] = "none" /\ items'[g] = {}
        /\ items'[f] = {} /\ watching' = (cursor' # 0)
        /\ \/ loading' = TRUE /\ fetch'[f] = "asked" /\ before'[f] = cursor' /\ cursor' # 0
           \/ loading' = FALSE /\ fetch'[f] = "none"
    BY <1>1, <1>5 DEF IInv, TypeOK
  <2> QED  BY <2>1 DEF OneFetch
<1>11. Ahead'
  <2>1. ASSUME c # 0, NEW i \in Rows, i < c PROVE tiles'[content[i]] = 0
    <3>1. \A j \in P : content[j] # content[i]
      BY <2>1, <1>2, OlderRows DEF IInv, c
    <3>2. i < cursor
      <4>1. c \in Ids /\ c < cursor /\ cursor \in Ids \cup {0}
        BY <2>1, <1>2, <1>4 DEF IInv, TypeOK
      <4> QED  BY <4>1, <2>1 DEF Ids
    <3>3. tiles[content[i]] = 0 /\ content[i] \in Hashes
      BY <3>2, <1>2 DEF IInv, Ahead, InOrder
    <3> QED  BY <3>1, <3>3, <1>3
  <2>2. page # "closed"
    BY <1>2 DEF IInv, Ahead
  <2> QED  BY <2>1, <2>2, <1>1, <1>2, <1>4 DEF IInv, Ahead
<1>12. PageFits'
  BY <1>1, <1>5 DEF IInv, PageFits, TypeOK
<1>13. MetaHides'
  BY <1>1 DEF IInv, MetaHides
<1> QED  BY <1>6, <1>7, <1>8, <1>9, <1>10, <1>11, <1>12, <1>13 DEF IInv

(* PhotoMeta finds a photo only if its one row is visible.                 *)
LEMMA ViewIInv ==
  ASSUME IInv, (\E r \in Routes, h \in Hashes : Get(r, h)) \/ PhotoMeta \/ FindThumb \/ Serve
  PROVE  IInv'
<1>1. UNCHANGED <<rowVars, feedVars, steady>>
  BY DEF Get, PhotoMeta, FindThumb, Serve
<1>2. TypeOK'
  BY DEF Get, PhotoMeta, FindThumb, Serve, Found, Over, IInv, TypeOK
<1>3. \A i, j \in Rows : content[i] = content[j] => i = j
  BY DEF IInv, InOrder, Ids
<1>4. MetaHides'
  <2>1. ASSUME NEW r \in Routes, NEW h \in Hashes, Get(r, h) PROVE MetaHides'
    BY <2>1 DEF Get, MetaHides
  <2>2. CASE PhotoMeta
    \* One row per content: a visible one leaves no room for a hidden one.
    <3>1. RowOf(wanted) \cap Visible # {} => ~ \E i \in RowOf(wanted) : status[i] = "hidden"
      BY <1>3
    <3>2. (RowOf(wanted) \cap Visible # {} /\ Found) \/ Over
      BY <2>2 DEF PhotoMeta
    <3>3. CASE Over
      BY <3>3 DEF Over, MetaHides
    <3>4. CASE RowOf(wanted) \cap Visible # {} /\ Found
      BY <3>1, <3>4, <1>1 DEF Found, MetaHides, IInv
    <3> QED  BY <3>2, <3>3, <3>4
  <2>3. CASE FindThumb \/ Serve
    BY <2>3 DEF FindThumb, Serve, Found, Over, MetaHides, IInv
  <2> QED  BY <2>1, <2>2, <2>3
<1>5. NoTileTwice' /\ NothingSkipped' /\ InOrder' /\ OneFetch' /\ Ahead' /\ PageFits'
  BY <1>1 DEF IInv, NoTileTwice, NothingSkipped, InOrder, OneFetch, Ahead, PageFits, NextCursor,
              Oldest
<1> QED  BY <1>2, <1>4, <1>5 DEF IInv

(* Every step of the next-state relation.                                  *)
LEMMA NextIInv == IInv /\ [Next]_vars => IInv'
<1> SUFFICES ASSUME IInv, [Next]_vars PROVE IInv'
  OBVIOUS
<1>1. CASE UNCHANGED vars
  BY <1>1 DEF vars, IInv, TypeOK, NoTileTwice, NothingSkipped, InOrder, OneFetch, Ahead, PageFits,
              MetaHides, NextCursor, Oldest
<1>2. CASE Next
  BY <1>2, InsertIInv, HideOrDeleteIInv, OpenIInv, ScrollIInv, HandleIInv, ArrivesIInv, ViewIInv
     DEF Next
<1> QED  BY <1>1, <1>2

------------------------------------------------------------------------------
(* The invariant of the gallery holds in every reachable state, for any    *)
(* numbers of photos and requests and any page size.                       *)
THEOREM GalleryInductive == Spec => []IInv
BY InitIInv, NextIInv, PTL DEF Spec

(* The infinite scroll (gallery.js) puts no photo into the grid twice.     *)
THEOREM NeverTwice == Spec => []NoTileTwice
<1>1. IInv => NoTileTwice
  BY DEF IInv
<1> QED  BY <1>1, GalleryInductive, PTL

(* The infinite scroll misses no photo that was visible all the time.      *)
THEOREM NeverSkipped == Spec => []NothingSkipped
<1>1. IInv => NothingSkipped
  BY DEF IInv
<1> QED  BY <1>1, GalleryInductive, PTL

(* On every route but /thumb a hide is immediate as the source says it is: *)
(* /photo, /original and /p look at hidden_at before they find the file,   *)
(* so what they serve was visible at some time since it was asked for.     *)
THEOREM RoutesHide == Spec => []OnlyThumbShowsHidden
<1>1. IInv => OnlyThumbShowsHidden
  BY DEF IInv, MetaHides
<1> QED  BY <1>1, GalleryInductive, PTL
==============================================================================
