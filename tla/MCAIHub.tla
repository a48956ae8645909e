------------------------------- MODULE MCAIHub -------------------------------
(***************************************************************************)
(* Small instances of AIHub for TLC.                                        *)
(***************************************************************************)
EXTENDS AIHub
=============================================================================
