---------------------------- MODULE MCFileStorage ----------------------------
(***************************************************************************)
(* FileStorage on months of two days and an SD card of a few blocks, so    *)
(* that it fills up within the bounds.                                     *)
(***************************************************************************)
EXTENDS FileStorage
=============================================================================
