---------------------------- MODULE MCPortalSession ----------------------------
(***************************************************************************)
(* One client of the web portal shared by a poll and two imports.          *)
(***************************************************************************)
EXTENDS PortalSession

CONSTANTS poll, import1, import2

MCCallers == {poll, import1, import2}
MCPolls == {poll}
===============================================================================
