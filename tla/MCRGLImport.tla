---------------------------- MODULE MCRGLImport ----------------------------
(***************************************************************************)
(* Seasons 1, 3 and 4, and a gap that costs one of two errors. Season 1    *)
(* has a match that was not played; season 3 has no teams of its own, and  *)
(* nothing to enqueue before a match of the first season's teams is        *)
(* announced; season 4 has a match without an opponent.                    *)
(***************************************************************************)
EXTENDS RGLImport, TLC

CONSTANTS t1, t2, t3, m1, m2, m3, m4, p1, p2

MCTeamsOf == (1 :> <<t1, t2>>) @@ (3 :> <<>>) @@ (4 :> <<t3>>)
MCMatchesOf == (1 :> <<m1, m2>>) @@ (3 :> <<m3>>) @@ (4 :> <<m4>>)
MCRoster == (t1 :> <<p1, p2>>) @@ (t2 :> <<p2>>) @@ (t3 :> <<p1>>)
MCPlayedBy == (m1 :> {t1, t2}) @@ (m2 :> {t1, t2}) @@ (m3 :> {t1, t2}) @@ (m4 :> {t3})
MCWinner == (m1 :> t1) @@ (m2 :> NoTeam) @@ (m3 :> t2) @@ (m4 :> t3)

\* Seasons 1 and 4 are over; season 3 goes on.
MCInit == Init /\ listed[1] = 2 /\ listed[4] = 1

MCSpec == MCInit /\ [][Next]_vars /\ Fairness
=============================================================================
