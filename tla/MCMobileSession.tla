---------------------------- MODULE MCMobileSession ----------------------------
(***************************************************************************)
(* The mobility client shared by a poll, which may be cancelled, and two   *)
(* imports.                                                                *)
(***************************************************************************)
EXTENDS MobileSession

CONSTANTS poll, import1, import2

MCCallers == {poll, import1, import2}
MCPolls == {poll}
===============================================================================
