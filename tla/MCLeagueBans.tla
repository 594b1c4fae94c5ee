---------------------------- MODULE MCLeagueBans ----------------------------
(***************************************************************************)
(* Both leagues, pages of two and lists of up to three bans: a full page,  *)
(* a last one that is not, and bans that move from one to the other.       *)
(***************************************************************************)
EXTENDS LeagueBans

CONSTANTS s1, s2, bad

MCBan == {[sid |-> s1, at |-> 1], [sid |-> s1, at |-> 2], [sid |-> s2, at |-> 1],
          [sid |-> bad, at |-> 1]}
=============================================================================
