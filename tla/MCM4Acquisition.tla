-------------------------- MODULE MCM4Acquisition --------------------------
(***************************************************************************)
(* M4Acquisition with answers of two pieces, of which response[64] and the *)
(* receiver of 32 bytes hold three, and batches of two samples.            *)
(***************************************************************************)
EXTENDS M4Acquisition
=============================================================================
