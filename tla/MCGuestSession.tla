---------------------------- MODULE MCGuestSession ----------------------------
(* Instances of the guest session for TLC. *)
EXTENDS GuestSession
==============================================================================
