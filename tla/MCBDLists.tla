---------------------------- MODULE MCBDLists ----------------------------
(***************************************************************************)
(* Two lists, two overlapping jobs. The documents give each case of the *)
(* plan its turn: a player added, dropped, renamed, spelled differently,   *)
(* blanked, named twice, or not a steam id at all.                         *)
(***************************************************************************)
EXTENDS BDLists, TLC

CONSTANTS l1, l2, s1, s2, bad

MCCanon == ("Cheater" :> "cheater") @@ ("cheater" :> "cheater") @@ (" " :> "")

P(s, as, n, t) == [sid |-> s, attrs |-> as, name |-> n, seen |-> t]

MCDoc == {
    <<P(s1, {"cheater"}, "n1", 1)>>,
    <<P(bad, {"cheater"}, "n1", 1), P(s1, {"cheater", " "}, "n2", 2),
      P(s2, {"cheater"}, "n2", 1)>>,
    <<P(s1, {" "}, "n1", 1), P(s2, {"Cheater"}, "n2", 1), P(s2, {"Cheater"}, "n3", 1)>>}

\* One list in a changing world with faults, or two lists in a quiet one.
MCInit ==
    /\ Init
    /\ \/ lists = {l1} /\ served[l2] = served[l1] /\ changes = 0 /\ faults = 0
       \/ lists = {l1, l2} /\ changes = MaxChanges /\ faults = MaxFaults

MCSpec == MCInit /\ [][Next]_vars /\ Fairness
=============================================================================
