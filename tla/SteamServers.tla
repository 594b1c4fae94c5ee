---------------------------- MODULE SteamServers ----------------------------
(***************************************************************************)
(* The list of game servers (SteamServersWorker, src/jobs_steam.go:190-344 *)
(* and its queries in src/store.go). Now and then a job asks Steam for the *)
(* servers of each region, sees to it that each server and its map have a  *)
(* row, and in the end inserts the statistics of all of them.              *)
(*                                                                         *)
(* What it has seen to it keeps in two caches in memory, which outlive the *)
(* job: the first jobs have more rows to insert than their five minutes    *)
(* allow, and each leaves less for the next one.                           *)
(*                                                                         *)
(* The queue has one worker: no two of these jobs overlap. River's retries *)
(* and the next period are not told apart: a job starts again. Left out:   *)
(* the regions (they only order the servers), what the numbers count.      *)
(***************************************************************************)
EXTENDS Naturals, FiniteSets

CONSTANTS
    Server,     \* steam ids of servers
    MapName,
    MapOf,      \* MapOf[s]: the map that server s plays
    None,
    MaxSteps,   \* statements that five minutes allow
    MaxChanges, \* bound: changes of Steam's list, servers whose 12 hours pass
    MaxFaults   \* bound: requests and statements that fail, restarts

VARIABLES
    listing,     \* listing[s]: "no", "good", or "bad" (its address does not parse)
    servers,     \* table steam_server
    maps,        \* table maps
    serverCache, \* servers cached less than 12 hours ago
    mapCache,
    worker,      \* the job: [pc, todo, stats, steps]
    counted,     \* history: there is no job, or the last one has inserted its statistics
    changes,
    faults       \* faults so far

tables == <<servers, maps>>
caches == <<serverCache, mapCache>>
serverVars == <<listing, tables, caches, worker, counted, changes, faults>>

\* server: the one in hand; todo: servers of the list not seen to yet; stats: those that
\* were; steps: the statements that it still has time for.
NoWork == [pc |-> "idle", server |-> None, todo |-> {}, stats |-> {}, steps |-> 0]

TypeOK ==
    /\ listing \in [Server -> {"no", "good", "bad"}]
    /\ serverCache \subseteq servers /\ servers \subseteq Server
    /\ mapCache \subseteq maps /\ maps \subseteq MapName
    /\ worker.pc \in {"idle", "server", "map", "stats", "counts"}
    /\ IF worker.pc = "map" THEN worker.server \in worker.todo ELSE worker.server = None
    /\ worker.todo \union worker.stats \subseteq Server
    /\ worker.steps \in 0..MaxSteps
    /\ counted \in BOOLEAN
    /\ changes \in 0..MaxChanges
    /\ faults \in 0..MaxFaults

Init ==
    /\ listing \in [Server -> {"no", "good", "bad"}]
    /\ servers = {}
    /\ maps = {}
    /\ serverCache = {}
    /\ mapCache = {}
    /\ worker = NoWork
    /\ counted = TRUE
    /\ changes = 0
    /\ faults = 0

Fault ==
    /\ faults < MaxFaults
    /\ faults' = faults + 1

----------------------------------------------------------------------------
(* Steam, and time. *)

Change ==
    /\ changes < MaxChanges
    /\ changes' = changes + 1

Relist ==
    /\ Change
    /\ \E s \in Server, l \in {"no", "good", "bad"} : listing' = [listing EXCEPT ![s] = l]
    /\ UNCHANGED <<tables, caches, worker, counted, faults>>

\* A server was cached 12 hours ago.
Expire ==
    /\ Change
    /\ \E s \in serverCache : serverCache' = serverCache \ {s}
    /\ UNCHANGED <<listing, tables, mapCache, worker, counted, faults>>

----------------------------------------------------------------------------
(* The job. *)

At(pc) == worker.pc = pc

Start ==
    /\ At("idle")
    /\ worker' = [NoWork EXCEPT !.pc = "server", !.steps = MaxSteps,
                                !.todo = {s \in Server : listing[s] # "no"}]
    /\ counted' = FALSE
    /\ UNCHANGED <<listing, tables, caches, changes, faults>>

End == worker' = NoWork

\* createMap: a map that has its row takes a second statement, getMap.
MapSteps == IF worker.pc # "map" \/ MapOf[worker.server] \in mapCache THEN 0
            ELSE IF MapOf[worker.server] \in maps THEN 2 ELSE 1

\* The rest of it fails: Work returns an error.
TimeOut ==
    /\ ~At("idle")
    /\ worker.steps = 0 \/ worker.steps < MapSteps
    /\ End
    /\ UNCHANGED <<listing, tables, caches, counted, changes, faults>>

\* A request or a statement fails.
Fail ==
    /\ ~At("idle")
    /\ Fault
    /\ End
    /\ UNCHANGED <<listing, tables, caches, counted, changes>>

\* The process ends, and its caches with it.
Restart ==
    /\ Fault
    /\ End
    /\ serverCache' = {}
    /\ mapCache' = {}
    /\ UNCHANGED <<listing, tables, counted, changes>>

\* Mutant: what was inserted is not cached.
EnsureServerAgain ==
    /\ At("server")
    /\ worker.steps > 0
    /\ \E s \in worker.todo :
        /\ servers' = servers \union {s}
        /\ worker' = [worker EXCEPT !.pc = "map", !.server = s, !.steps = @ - 1]
    /\ UNCHANGED <<listing, maps, caches, counted, changes, faults>>

\* ensureServer: a server that is cached is passed, whatever it lists now. An address
\* that does not parse ends the job. The insert updates a row that is there.
EnsureServer ==
    /\ At("server")
    /\ \E s \in worker.todo :
        LET next == [worker EXCEPT !.pc = "map", !.server = s] IN
        \/ /\ s \in serverCache
           /\ worker' = next
           /\ UNCHANGED <<servers, serverCache>>
        \/ /\ s \notin serverCache /\ listing[s] = "bad"
           /\ End
           /\ UNCHANGED <<servers, serverCache>>
        \/ /\ s \notin serverCache /\ listing[s] # "bad"
           /\ worker.steps > 0
           /\ servers' = servers \union {s}
           /\ serverCache' = serverCache \union {s}
           /\ worker' = [next EXCEPT !.steps = @ - 1]
    /\ UNCHANGED <<listing, maps, mapCache, counted, changes, faults>>

\* ensureMap.
EnsureMap ==
    LET s == worker.server IN
    /\ At("map")
    /\ worker.steps >= MapSteps
    /\ maps' = maps \union {MapOf[s]}
    /\ mapCache' = mapCache \union {MapOf[s]}
    /\ worker' = [worker EXCEPT !.pc = "server", !.server = None, !.steps = @ - MapSteps,
                                !.todo = @ \ {s}, !.stats = @ \union {s}]
    /\ UNCHANGED <<listing, servers, serverCache, counted, changes, faults>>

\* insertSteamServersStats: all of them or none. Each names its server and its map.
InsertStats ==
    /\ At("server")
    /\ worker.todo = {}
    /\ worker.steps > 0
    /\ worker' = IF worker.stats \subseteq servers /\ {MapOf[s] : s \in worker.stats} \subseteq maps
                 THEN [worker EXCEPT !.pc = "counts", !.steps = @ - 1]
                 ELSE NoWork
    /\ UNCHANGED <<listing, tables, caches, counted, changes, faults>>

InsertCounts ==
    /\ At("counts")
    /\ worker.steps > 0
    /\ counted' = TRUE
    /\ End
    /\ UNCHANGED <<listing, tables, caches, changes, faults>>

JobStep ==
    \/ Start
    \/ EnsureServer
    \/ EnsureMap
    \/ InsertStats
    \/ InsertCounts
    \/ TimeOut

Next == JobStep \/ Fail \/ Restart \/ Relist \/ Expire

\* The worker goes on, and there is a job again and again.
Spec == Init /\ [][Next]_serverVars /\ WF_serverVars(JobStep)

----------------------------------------------------------------------------
(* What makes it right. *)

\* A server that ends every job.
Bad(s) == listing[s] = "bad" /\ s \notin serverCache

\* However few rows a job has the time to insert, what it did is not lost on the next
\* one: again and again there are statistics. Unless one server out of all has an
\* address that does not parse: then there are none of any.
CountedAgainAndAgain == []<>(counted \/ \E s \in Server : Bad(s))
=============================================================================
