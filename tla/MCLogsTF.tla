------------------------------ MODULE MCLogsTF ------------------------------
(***************************************************************************)
(* Two threads, five logs. The logs 2..4 are scraped when the index names  *)
(* the fifth: 2 and 3 share a player, and 3 and 4 another.                 *)
(***************************************************************************)
EXTENDS LogsTF, TLC

CONSTANTS t1, t2, p1, p2

MCPlayers == 1 :> {p1} @@ 2 :> {p1} @@ 3 :> {p1, p2} @@ 4 :> {p2} @@ 5 :> {p2}

MCInit == Init /\ published >= 4

MCSpec == MCInit /\ [][Next]_vars /\ Fairness
=============================================================================
