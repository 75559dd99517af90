---------------------------- MODULE MCConvertPool ----------------------------
(* An instance of the pool for TLC.  Three photos for two slots and two    *)
(* workers: the queue can be full when one more photo comes.               *)
EXTENDS ConvertPool, TLC
==============================================================================
