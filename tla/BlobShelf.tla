------------------------------ MODULE BlobShelf ------------------------------
(***************************************************************************)
(* What internal/blobstore promises its callers: a set of keys under which *)
(* a complete file is found.  A key comes by filing one, and goes when it  *)
(* is discarded, or when the power fails before it has settled in its      *)
(* place on the medium or before that place is firm there.  What has been  *)
(* reported stored is settled; in a firm place it goes only when discarded.*)
(***************************************************************************)

CONSTANT Keys

VARIABLES shown,    \* keys under which a reader finds a file
          settled,  \* keys under which their directory has it on the medium
          firm,     \* keys whose directory a power cut cannot take
          kept      \* keys reported stored, neither discarded nor lost since

shelfVars == <<shown, settled, firm, kept>>

Init == shown = {} /\ settled = {} /\ firm \in SUBSET Keys /\ kept = {}

File(k) ==
  /\ shown' = shown \cup {k}
  /\ UNCHANGED <<settled, firm, kept>>

\* In its own time, the medium agrees with what is shown ...
Settle(k) ==
  /\ settled' = IF k \in shown THEN settled \cup {k} ELSE settled \ {k}
  /\ firm \subseteq firm'
  /\ UNCHANGED <<shown, kept>>

\* ... and directories get there that may hold many keys.
MakeFirm ==
  /\ firm \subseteq firm'
  /\ UNCHANGED <<shown, settled, kept>>

\* "stored": it is settled, and lasts as long as its place does.
Report(k) ==
  /\ k \in shown
  /\ kept' = kept \cup {k}
  /\ settled' = settled \cup {k}
  /\ firm \subseteq firm'
  /\ UNCHANGED shown

\* The name goes at once, from the medium whenever that settles.
Discard(k) ==
  /\ shown' = shown \ {k}
  /\ kept' = kept \ {k}
  /\ UNCHANGED <<settled, firm>>

PowerCut ==
  /\ shown' = settled \cap firm
  /\ settled' = settled \cap firm
  /\ kept' = kept \cap firm
  /\ UNCHANGED firm

Next ==
  \/ \E k \in Keys : File(k) \/ Settle(k) \/ Report(k) \/ Discard(k)
  \/ MakeFirm \/ PowerCut

Spec == Init /\ [][Next]_shelfVars
==============================================================================
