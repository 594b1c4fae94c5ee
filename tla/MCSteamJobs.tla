---------------------------- MODULE MCSteamJobs ----------------------------
(***************************************************************************)
(* Three players in batches of two, one of them (s3) unknown to Steam. It  *)
(* starts after the logs.tf scraper has met s1 and s3; s2 comes later.     *)
(* Three servers on two maps, and time for three statements in a job that  *)
(* needs up to seven.                                                      *)
(***************************************************************************)
EXTENDS SteamJobs

CONSTANTS s1, s2, s3, v1, v2, v3, m1, m2

MCMapOf == [v \in Server |-> IF v = v3 THEN m2 ELSE m1]

MCInit ==
    /\ part \in {"profiles", "servers"}
    /\ order = IF part = "profiles" THEN <<s3, s1>> ELSE <<>>
    /\ fresh = 0
    /\ queue = <<>>
    /\ run = Nothing
    /\ due = [k \in FollowUp |-> {}]
    /\ cut = [k \in FollowUp |-> {}]
    /\ current = {}
    /\ excused = {}
    /\ expiries = 0
    /\ Servers!Init
    /\ part = "profiles" => \A v \in Server : listing[v] = "no"

MCSpec ==
    /\ MCInit
    /\ [][JobsNext]_<<part, vars, list>>
    /\ JobsFairness
=============================================================================
