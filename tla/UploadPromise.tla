----------------------------- MODULE UploadPromise -----------------------------
(***************************************************************************)
(* What the upload pages promise a guest: every photo chosen is pending    *)
(* until it is shared, refused, or handed back with "tap to retry".  It is *)
(* shared only if the server has it in one of its forms; it is handed back *)
(* after exactly one try more than MaxRetries (a shot: after one), and     *)
(* nothing but the guest takes it up again.                                *)
(***************************************************************************)
EXTENDS Naturals

CONSTANTS Items,      \* rows and tiles
          Shots,      \* those of the polaroid page
          Files,      \* files on the phone
          Blobs,      \* contents
          Sends,      \* file -> the contents it may be sent as
          MaxRetries,
          None        \* no file

VARIABLES state,   \* item -> "none", "pending", "shared", "refused" or "returned"
          file,    \* item -> its file
          fails,   \* item -> failed tries since the guest last asked
          stored,  \* contents the server has
          marks    \* files remembered as shared

promiseVars == <<state, file, fails, stored, marks>>

Init ==
  /\ state = [i \in Items |-> "none"]
  /\ file = [i \in Items |-> None]
  /\ fails = [i \in Items |-> 0]
  /\ stored = {}
  /\ marks = {}

Becomes(i, s) == state' = [state EXCEPT ![i] = s]

\* What is remembered as shared is not sent again; a shot always is.
Choose(i, f) ==
  /\ state[i] = "none" /\ fails[i] = 0
  /\ i \in Shots \/ f \notin marks
  /\ Becomes(i, "pending")
  /\ file' = [file EXCEPT ![i] = f]
  /\ UNCHANGED <<fails, stored, marks>>

Store(b) ==
  /\ stored' = stored \cup {b}
  /\ UNCHANGED <<state, file, fails, marks>>

\* Remembered, unless the browser refuses to.
Share(i) ==
  /\ state[i] = "pending"
  /\ Sends[file[i]] \cap stored # {}
  /\ Becomes(i, "shared")
  /\ marks' = marks \/ (i \notin Shots /\ marks' = marks \cup {file[i]})
  /\ UNCHANGED <<file, fails, stored>>

Refuse(i) ==
  /\ state[i] = "pending" /\ i \notin Shots
  /\ Becomes(i, "refused")
  /\ UNCHANGED <<file, fails, stored, marks>>

TryFails(i) ==
  /\ state[i] = "pending" /\ i \notin Shots
  /\ fails[i] <= MaxRetries
  /\ fails' = [fails EXCEPT ![i] = @ + 1]
  /\ Becomes(i, IF fails'[i] > MaxRetries THEN "returned" ELSE "pending")
  /\ UNCHANGED <<file, stored, marks>>

ShotFails(i) ==
  /\ state[i] = "pending" /\ i \in Shots
  /\ Becomes(i, "returned")
  /\ UNCHANGED <<file, fails, stored, marks>>

\* The guest taps.
Again(i) ==
  /\ state[i] = "returned"
  /\ Becomes(i, "pending")
  /\ fails' = [fails EXCEPT ![i] = 0]
  /\ UNCHANGED <<file, stored, marks>>

\* What is shared goes by itself; the rest when its page is left.
Leave(P) ==
  /\ P \in {Shots, Items \ Shots} \/ \E i \in Items : P = {i} /\ state[i] = "shared"
  /\ state' = [i \in Items |-> IF i \in P THEN "none" ELSE state[i]]
  /\ file' = [i \in Items |-> IF i \in P THEN None ELSE file[i]]
  /\ fails' = [i \in Items |-> IF i \in P THEN 0 ELSE fails[i]]
  /\ UNCHANGED <<stored, marks>>

Next ==
  \/ \E i \in Items :
       \/ \E f \in Files : Choose(i, f)
       \/ Share(i) \/ Refuse(i) \/ TryFails(i) \/ ShotFails(i) \/ Again(i)
  \/ \E P \in SUBSET Items : Leave(P)
  \/ \E b \in Blobs : Store(b)

Spec == Init /\ [][Next]_promiseVars
==============================================================================
