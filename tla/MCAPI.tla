------------------------------- MODULE MCAPI -------------------------------
(***************************************************************************)
(* Two requests, one player that Steam knows and one that it does not, two *)
(* lengths of report; a player with two games; a clock that lets what is   *)
(* kept expire.                                                            *)
(***************************************************************************)
EXTENDS API, TLC

\* Requests and games are interchangeable, and invariants are all that is checked.
Symmetry == Permutations(Reader) \union Permutations(Game)

\* Only the part that a behaviour is about has a choice of initial states.
MCInit ==
    /\ APIInit
    /\ part # "steam" => kind = "summary"
    /\ part # "games" => \A s \in Owner : Games!Library(s) = {}

MCSpec == MCInit /\ [][APINext]_<<part, vars, games, kept>>
=============================================================================
