---------------------------- MODULE MCUploadClient ----------------------------
(* Instances of the upload scripts and the upload handler for TLC. *)
EXTENDS UploadClient, TLC

CONSTANTS photo, full, small, huge, plain

\* A photo that is one byte too long as it is, and of the length of the limit
\* once it is shrunk; one that is longer still; and a file that is no image.
MCBlobs == {full, small, huge, plain}
MCImages == {full, small, huge}
MCMaxBody == 2
MCSize == (full :> 3) @@ (small :> 2) @@ (huge :> 4) @@ (plain :> 1)
MCSends == photo :> {full, small}

\* The plain form with no file, and with two of which the first fails.
MCFormBodies == {<<>>, <<huge, small>>, <<plain, small>>}
==============================================================================
