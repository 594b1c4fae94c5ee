---------------------------- MODULE MCSteamCache ----------------------------
(***************************************************************************)
(* Two requests, two players that Steam knows or one that it does not, two *)
(* lengths of report, and a clock that lets a file expire.                 *)
(***************************************************************************)
EXTENDS SteamCache
=============================================================================
