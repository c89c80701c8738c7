----------------------------- MODULE MCDataDisk -----------------------------
(***************************************************************************)
(* DataDisk for TLC.                                                       *)
(***************************************************************************)
EXTENDS DataDisk
=============================================================================
