----------------------------- MODULE MCLifecycle -----------------------------
(* An instance of the process for TLC: two requests, so that one can stall *)
(* while the other is answered, and more photos than the queue has slots.  *)
EXTENDS Lifecycle, TLC

\* A release and one that adds a number below its last; what both have
\* before is left out.
MCReleases == {{2}, {1, 2}}
==============================================================================
