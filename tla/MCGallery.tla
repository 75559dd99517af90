------------------------------ MODULE MCGallery ------------------------------
(* An instance of the gallery for TLC: pages of one photo, so that two     *)
(* photos are two pages and an empty third one, and two ids more, for      *)
(* photos uploaded while the guest scrolls, or deleted and uploaded again. *)
EXTENDS Gallery
==============================================================================
