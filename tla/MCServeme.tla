----------------------------- MODULE MCServeme -----------------------------
(***************************************************************************)
(* The default queue's two workers and the smallest pool that serves them. *)
(* The lists: two that share a player under another name, one that names a *)
(* player twice, one without a valid steam id.                             *)
(***************************************************************************)
EXTENDS Serveme

CONSTANTS s1, s2, s3, bad

R(s, n) == [sid |-> s, name |-> n]

MCCsv == {
    <<R(s1, "a"), R(bad, "x"), R(s2, "b"), R(s3, "c")>>,
    <<R(s2, "b2"), R(s1, "a")>>,
    <<R(s1, "a"), R(s1, "a2"), R(s2, "b")>>,
    <<R(bad, "x")>>}
=============================================================================
