----------------------------- MODULE SteamJobs -----------------------------
(***************************************************************************)
(* The jobs of the Steam queue: SteamRefresh and SteamServers. They share  *)
(* the queue's one worker, so they never overlap, and no table, cache or   *)
(* row: a behaviour is about the one (part = "profiles") or the other      *)
(* ("servers").                                                            *)
(***************************************************************************)
EXTENDS SteamRefresh

CONSTANTS Server, MapName, MapOf, None, MaxSteps, MaxChanges

ASSUME ServersAssumption ==
    /\ MapOf \in [Server -> MapName] /\ None \notin Server
    /\ MaxSteps \in Nat \ 0..1 /\ MaxChanges \in Nat

VARIABLES part, listing, servers, maps, serverCache, mapCache, worker, counted, changes

Servers == INSTANCE SteamServers

refresh == <<rows, queue, run, history, expiries>>
list    == <<listing, servers, maps, serverCache, mapCache, worker, counted, changes>>

\* Each part's state is well typed.
JobsTypeOK ==
    /\ part \in {"profiles", "servers"}
    /\ TypeOK
    /\ Servers!TypeOK

JobsInit ==
    \/ part = "profiles" /\ Init /\ Servers!Init /\ \A s \in Server : listing[s] = "no"
    \/ part = "servers" /\ Init /\ Servers!Init

Profiles(A) == part = "profiles" /\ A /\ UNCHANGED <<part, list>>

ServerList(A) == part = "servers" /\ A /\ UNCHANGED <<part, refresh>>

JobsNext == Profiles(Next) \/ ServerList(Servers!Next)

\* Each part's own fairness.
JobsFairness ==
    /\ WF_vars(part = "profiles" /\ Step)
    /\ WF_vars(part = "profiles" /\ Period)
    /\ WF_list(part = "servers" /\ Servers!JobStep)

JobsSpec == JobsInit /\ [][JobsNext]_<<part, vars, list>> /\ JobsFairness

\* Statistics of the servers come again and again (SteamServersWorker.Work).
ServersCounted == Servers!CountedAgainAndAgain
=============================================================================
