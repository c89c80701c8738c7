---------------------------- MODULE MCUBootBoot ----------------------------
(***************************************************************************)
(* UBootBoot for TLC: a good release, which the disk is flashed with, and  *)
(* a bad one; either can be installed.                                     *)
(***************************************************************************)
EXTENDS UBootBoot
CONSTANTS r0, bad

MCImages == {r0, bad}
MCGood == {r0}
=============================================================================
