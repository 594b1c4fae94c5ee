-------------------------- MODULE MCPlayerStore --------------------------
(***************************************************************************)
(* Three goroutines and two players: enough for a winner, a loser that     *)
(* waits on the winner's key, and a bystander on another key.              *)
(***************************************************************************)
EXTENDS PlayerStore
=============================================================================
