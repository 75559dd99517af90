------------------------------ MODULE HeartBoard ------------------------------
(***************************************************************************)
(* What the hearts of the gallery promise: a guest either likes a photo or *)
(* does not, a tap flips that at one instant, and its answer tells what    *)
(* was true at that instant.  Hidden photos cannot be tapped.              *)
(***************************************************************************)
EXTENDS Integers, FiniteSets

CONSTANTS Requests,  \* taps under way
          Sessions,  \* guests
          Photos,
          NoAnswer

VARIABLES row,     \* photo -> "none", "visible" or "hidden"
          likers,  \* photo -> the guests who like it
          answer   \* tap -> <<count, hearted>>, or NoAnswer

hbVars == <<row, likers, answer>>

Init ==
  /\ row = [p \in Photos |-> "none"]
  /\ likers = [p \in Photos |-> {}]
  /\ answer = [r \in Requests |-> NoAnswer]

Flip(set, s) == IF s \in set THEN set \ {s} ELSE set \cup {s}

Tap(r, p, s) ==
  /\ row[p] = "visible"
  /\ likers' = [likers EXCEPT ![p] = Flip(likers[p], s)]
  /\ answer' = [answer EXCEPT ![r] = <<Cardinality(likers'[p]), s \in likers'[p]>>]
  /\ UNCHANGED row

\* The request is over, or was refused.
Forget(r) ==
  /\ answer' = [answer EXCEPT ![r] = NoAnswer]
  /\ UNCHANGED <<row, likers>>

ForgetAll ==
  /\ answer' = [r \in Requests |-> NoAnswer]
  /\ UNCHANGED <<row, likers>>

\* An upload, a hide, an unhide.
SetRow(p, status) ==
  /\ row[p] # "none" \/ likers[p] = {}
  /\ row' = [row EXCEPT ![p] = status]
  /\ UNCHANGED <<likers, answer>>

Delete(p) ==
  /\ row' = [row EXCEPT ![p] = "none"]
  /\ likers' = [likers EXCEPT ![p] = {}]
  /\ UNCHANGED answer

Next ==
  \/ \E r \in Requests : Forget(r) \/ \E p \in Photos, s \in Sessions : Tap(r, p, s)
  \/ \E p \in Photos : Delete(p) \/ \E status \in {"visible", "hidden"} : SetRow(p, status)
  \/ ForgetAll

Spec == Init /\ [][Next]_hbVars
==============================================================================
