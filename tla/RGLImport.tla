----------------------------- MODULE RGLImport -----------------------------
(***************************************************************************)
(* The import of RGL's seasons, teams and matches (src/jobs_rgl.go, its    *)
(* queries in src/store.go). Once a day a season job walks the season ids, *)
(* stores each season it does not have and enqueues a job for each of its  *)
(* teams and matches; those jobs store what is not there yet. A season's   *)
(* row lists the matches RGL had listed by the time it was stored.         *)
(*                                                                         *)
(* The RGL queue has one worker. River (external) hands out jobs in the    *)
(* order they are due, runs a job that failed again, behind those that     *)
(* wait, and discards it after MaxAttempts. Nothing but the order of the   *)
(* queue sees to it that a team is there when its match is stored.         *)
(*                                                                         *)
(* Left out: the ban job of the same queue (LeagueBans), the limiter (it   *)
(* waits), the columns of the rows.                                        *)
(***************************************************************************)
EXTENDS Integers, Sequences, FiniteSets, SequencesExt

CONSTANTS
    Season,      \* season ids RGL knows, out of 1, 2, 3...
    TeamsOf,     \* TeamsOf[s]: the teams of season s, in RGL's order
    MatchesOf,   \* MatchesOf[s]: the matches season s comes to have, in RGL's order
    Team, Match, Player,
    Roster,      \* Roster[t]: the players of team t, in RGL's order
    PlayedBy,    \* PlayedBy[m]: the teams of match m
    Winner,      \* Winner[m]: one of them, or NoTeam (a match that was not played)
    NoTeam,
    MaxErr,      \* season ids that may fail before a season job stops
    MaxAttempts, \* attempts River gives a job
    MaxFaults    \* bound: requests and statements that fail, rate limits, crashes

ASSUME SeasonAssumption == Season \subseteq Nat \ {0}
ASSUME RGLAssumption ==
    /\ TeamsOf \in [Season -> Seq(Team)]
    /\ MatchesOf \in [Season -> Seq(Match)]
    /\ Roster \in [Team -> Seq(Player)]
ASSUME WinnerAssumption == \A m \in Match : Winner[m] \in PlayedBy[m] \union {NoTeam}
ASSUME BoundAssumption ==
    MaxErr \in Nat \ {0} /\ MaxAttempts \in Nat \ {0} /\ MaxFaults \in Nat

\* Teams come to RGL with the season of their match, or with an earlier one.
ASSUME MatchAssumption ==
    \A s \in Season : \A m \in ToSet(MatchesOf[s]) :
        PlayedBy[m] \subseteq UNION {ToSet(TeamsOf[r]) : r \in {q \in Season : q <= s}}

VARIABLES
    listed,     \* listed[s]: how many of its matches RGL lists by now
    limited,    \* RGL answers that it was asked too often
    seasons,    \* seasons[s]: how many the row in rgl_season lists, or NoRow
    teams,      \* ids in table rgl_team
    members,    \* rows of rgl_team_member: [team, player]
    matches,    \* ids in table rgl_match
    queue,      \* waiting jobs: [kind, id, attempts] in the order they are due
    run,        \* the running job: [job, pc, errs, left]
    cut,        \* history: teams whose roster a fault cut short
    faults      \* faults so far

vars == <<listed, limited, seasons, teams, members, matches, queue, run, cut, faults>>

NoRow == -1

Stored(s) == s \in Season /\ seasons[s] # NoRow

Job(kind, id) == [kind |-> kind, id |-> id, attempts |-> MaxAttempts]

NoJob == Job("none", 0)

Nothing == [job |-> NoJob, pc |-> "idle", errs |-> 0, left |-> <<>>]

Idle == run = Nothing

Jobs ==
    [kind : {"season"}, id : Nat, attempts : 1..MaxAttempts]
    \union [kind : {"team"}, id : Team, attempts : 1..MaxAttempts]
    \union [kind : {"match"}, id : Match, attempts : 1..MaxAttempts]

TypeOK ==
    /\ limited \in BOOLEAN
    /\ \A s \in Season : /\ listed[s] \in 0..Len(MatchesOf[s])
                         /\ seasons[s] \in NoRow..listed[s]
    /\ teams \subseteq Team
    /\ members \subseteq [team : teams, player : Player]
    /\ matches \subseteq Match
    /\ ToSet(queue) \subseteq Jobs
    /\ run.job \in Jobs \union {NoJob}
    /\ run.pc \in {"idle", "season", "enqueue", "team", "members", "match"}
    /\ run.errs \in 0..MaxErr
    /\ cut \subseteq Team
    /\ faults \in 0..MaxFaults

Init ==
    /\ listed \in {n \in [Season -> 0..Cardinality(Match)] :
                    \A s \in Season : n[s] <= Len(MatchesOf[s])}
    /\ limited = FALSE
    /\ seasons = [s \in Season |-> NoRow]
    /\ teams = {}
    /\ members = {}
    /\ matches = {}
    /\ queue = <<>>
    /\ run = Nothing
    /\ cut = {}
    /\ faults = 0

rgl    == <<listed, limited>>
tables == <<seasons, teams, members, matches>>

Fault ==
    /\ faults < MaxFaults
    /\ faults' = faults + 1

----------------------------------------------------------------------------
(* RGL. *)

\* A match of a running season is set up.
Announce(s) ==
    /\ listed[s] < Len(MatchesOf[s])
    /\ listed' = [listed EXCEPT ![s] = @ + 1]
    /\ UNCHANGED <<limited, tables, queue, run, cut, faults>>

\* It is asked too often, and answers nothing else until it is left alone.
Limit ==
    /\ run.pc = "season"
    /\ ~limited
    /\ Fault
    /\ limited' = TRUE
    /\ UNCHANGED <<listed, tables, queue, run, cut>>

Relent ==
    /\ limited
    /\ run.job.kind # "season"
    /\ limited' = FALSE
    /\ UNCHANGED <<listed, tables, queue, run, cut, faults>>

----------------------------------------------------------------------------
(* The queue. *)

Waits(kind, id) == \E i \in DOMAIN queue : queue[i].kind = kind /\ queue[i].id = id

\* The periodic job, StartSeasonID 1; unique by its arguments and period.
Period ==
    /\ ~Waits("season", 1)
    /\ run.job.kind # "season"
    /\ queue' = Append(queue, Job("season", 1))
    /\ UNCHANGED <<rgl, tables, run, cut, faults>>

Take ==
    /\ Idle
    /\ queue # <<>>
    /\ run' = [Nothing EXCEPT !.job = Head(queue), !.pc = Head(queue).kind]
    /\ queue' = Tail(queue)
    /\ UNCHANGED <<rgl, tables, cut, faults>>

Done == run' = Nothing /\ UNCHANGED queue

\* Work returns an error: the job waits to be run again, from its start, or is discarded.
Error ==
    /\ run' = Nothing
    /\ LET again == [run.job EXCEPT !.id = IF run.job.kind = "season" THEN 1 ELSE @,
                                    !.attempts = @ - 1]
       IN  queue' = IF again.attempts > 0 THEN Append(queue, again) ELSE queue

----------------------------------------------------------------------------
(* RGLSeasonWorker. The job's id is the season it has come to (curID). *)

StoreSeason(s) == seasons' = IF Stored(s) THEN seasons ELSE [seasons EXCEPT ![s] = listed[s]]

\* Mutant: only a season that is new has its jobs enqueued.
UpdateNewSeason ==
    /\ run.pc = "season"
    /\ run.errs < MaxErr
    /\ run.job.id \in Season
    /\ Stored(run.job.id) \/ ~limited
    /\ StoreSeason(run.job.id)
    /\ run' = IF Stored(run.job.id) THEN [run EXCEPT !.job.id = @ + 1]
                                   ELSE [run EXCEPT !.pc = "enqueue"]
    /\ UNCHANGED <<rgl, teams, members, matches, queue, cut, faults>>

\* updateSeason: a season that is stored is not asked for again. (One that is not,
\* while RGL limits the rate, is asked for again at once, without an error being
\* counted: nothing changes until the job's time is up.)
UpdateSeason ==
    /\ run.pc = "season"
    /\ run.errs < MaxErr
    /\ run.job.id \in Season
    /\ Stored(run.job.id) \/ ~limited
    /\ StoreSeason(run.job.id)
    /\ run' = [run EXCEPT !.pc = "enqueue"]
    /\ UNCHANGED <<rgl, teams, members, matches, queue, cut, faults>>

\* An id RGL does not know, or any other error but the rate limit's: on to the
\* next id. (The joined error never reads "invalid status code: 404 Not Found",
\* so maxErr does not grow.)
SkipSeason ==
    /\ run.pc = "season"
    /\ run.errs < MaxErr
    /\ IF run.job.id \in Season THEN Fault ELSE ~limited /\ UNCHANGED faults
    /\ run' = [run EXCEPT !.job.id = @ + 1, !.errs = @ + 1]
    /\ UNCHANGED <<rgl, tables, queue, cut>>

\* Mutant: matches come before teams.
FollowUpsSwapped(s) ==
    [i \in 1..seasons[s] |-> Job("match", MatchesOf[s][i])]
    \o [i \in DOMAIN TeamsOf[s] |-> Job("team", TeamsOf[s][i])]

FollowUps(s) ==
    [i \in DOMAIN TeamsOf[s] |-> Job("team", TeamsOf[s][i])]
    \o [i \in 1..seasons[s] |-> Job("match", MatchesOf[s][i])]

\* The positions, from the first to the last.
InOrder(positions) ==
    {at \in Bijection(1..Cardinality(positions), positions) :
        \A i, j \in DOMAIN at : i < j => at[i] < at[j]}

\* insertJobsTx: all of them or none.
\* Bound: a job that waits is not enqueued a second time.
EnqueueSeason ==
    /\ run.pc = "enqueue"
    /\ FollowUps(run.job.id) # <<>>
    /\ LET jobs == FollowUps(run.job.id)
           new  == {i \in DOMAIN jobs : ~Waits(jobs[i].kind, jobs[i].id)}
       IN  \E at \in InOrder(new) : queue' = queue \o [k \in DOMAIN at |-> jobs[at[k]]]
    /\ run' = [run EXCEPT !.pc = "season", !.job.id = @ + 1]
    /\ UNCHANGED <<rgl, tables, cut, faults>>

\* River does not insert no jobs at all: a season that had neither teams nor matches
\* when it was stored fails this job, and that of every other day.
EnqueueNothing ==
    /\ run.pc = "enqueue"
    /\ FollowUps(run.job.id) = <<>>
    /\ Error
    /\ UNCHANGED <<rgl, tables, cut, faults>>

\* With its time up (after 5 minutes) every further id fails at once, and the job
\* reports success. When RGL limits the rate it always comes to this.
SeasonTimeout ==
    /\ run.pc = "season"
    /\ IF limited THEN UNCHANGED faults ELSE Fault
    /\ Done
    /\ UNCHANGED <<rgl, tables, cut>>

SeasonsDone ==
    /\ run.pc = "season"
    /\ run.errs = MaxErr
    /\ Done
    /\ UNCHANGED <<rgl, tables, cut, faults>>

----------------------------------------------------------------------------
(* RGLTeamWorker. *)

\* Mutant: an error of rglTeamInsert is ignored.
InsertTeamOrNot ==
    LET t == run.job.id IN
    /\ run.pc = "team"
    /\ teams' \in {teams, teams \union {t}}
    /\ IF t \in teams
       THEN Done
       ELSE run' = [run EXCEPT !.pc = "members", !.left = Roster[t]] /\ UNCHANGED queue
    /\ UNCHANGED <<rgl, seasons, members, matches, cut, faults>>

\* A team that is stored is done, whatever became of its members.
InsertTeam ==
    LET t == run.job.id IN
    /\ run.pc = "team"
    /\ teams' = teams \union {t}
    /\ IF t \in teams
       THEN Done
       ELSE run' = [run EXCEPT !.pc = "members", !.left = Roster[t]] /\ UNCHANGED queue
    /\ UNCHANGED <<rgl, seasons, members, matches, cut, faults>>

\* Mutant: the unique index is on the player alone.
InsertMemberOnce ==
    LET p == Head(run.left) IN
    /\ run.pc = "members"
    /\ run.left # <<>>
    /\ members' = IF \E r \in members : r.player = p
                  THEN members
                  ELSE members \union {[team |-> run.job.id, player |-> p]}
    /\ run' = [run EXCEPT !.left = Tail(@)]
    /\ UNCHANGED <<rgl, seasons, teams, matches, queue, cut, faults>>

\* An error of rglTeamMemberInsert is logged: on to the next player.
InsertMember ==
    LET t == run.job.id IN
    /\ run.pc = "members"
    /\ run.left # <<>>
    /\ \/ /\ members' = members \union {[team |-> t, player |-> Head(run.left)]}
          /\ UNCHANGED <<cut, faults>>
       \/ Fault /\ cut' = cut \union {t} /\ UNCHANGED members
    /\ run' = [run EXCEPT !.left = Tail(@)]
    /\ UNCHANGED <<rgl, seasons, teams, matches, queue>>

TeamDone ==
    /\ run.pc = "members"
    /\ run.left = <<>>
    /\ Done
    /\ UNCHANGED <<rgl, tables, cut, faults>>

----------------------------------------------------------------------------
(* RGLMatchWorker. *)

\* The foreign keys of rgl_match on rgl_team; a match's season comes first anyway.
TeamsStored(m) == PlayedBy[m] \union {Winner[m]} \subseteq teams

\* What RGL gives fewer than two teams is no match.
InsertMatch ==
    LET m == run.job.id IN
    /\ run.pc = "match"
    /\ IF m \in matches \/ (Cardinality(PlayedBy[m]) = 2 /\ TeamsStored(m))
       THEN matches' = matches \union {m} /\ Done
       ELSE Error /\ UNCHANGED matches
    /\ UNCHANGED <<rgl, seasons, teams, members, cut, faults>>

----------------------------------------------------------------------------

\* A statement or request fails where that ends the job, or the process dies and
\* River rescues the job.
Fail ==
    /\ ~Idle
    /\ Fault
    /\ cut' = IF run.pc = "members" /\ run.left # <<>> THEN cut \union {run.job.id} ELSE cut
    /\ Error
    /\ UNCHANGED <<rgl, tables>>

Step ==
    \/ Take
    \/ UpdateSeason
    \/ run.job.id \notin Season /\ SkipSeason
    \/ EnqueueSeason
    \/ EnqueueNothing
    \/ SeasonsDone
    \/ InsertTeam
    \/ InsertMember
    \/ TeamDone
    \/ InsertMatch

Next ==
    \/ Period
    \/ Step
    \/ SkipSeason
    \/ SeasonTimeout
    \/ Fail
    \/ Limit
    \/ Relent
    \/ \E s \in Season : Announce(s)

\* The worker goes on as long as there are jobs; every day has a season job; the
\* time of a job runs out. RGL answers again some time after it was left alone.
Fairness ==
    /\ WF_vars(Step)
    /\ WF_vars(Period)
    /\ WF_vars(limited /\ SeasonTimeout)
    /\ SF_vars(Relent)

Spec == Init /\ [][Next]_vars /\ Fairness

----------------------------------------------------------------------------
(* What makes the import right. *)

\* Teams are enqueued before the matches they played, and one worker takes the
\* jobs in that order: as long as nothing fails, no match of a season's own teams
\* runs into its foreign keys (jobs_rgl.go:81-90).
MatchesFindTeams ==
    faults = 0 /\ run.pc = "match" => PlayedBy[run.job.id] \subseteq teams

\* Only a fault between the team's row and its last member costs members; then no
\* retry brings them back, the team's row says that it is done.
RosterLostToFaultsOnly ==
    \A t \in teams \ cut :
        \/ \A i \in DOMAIN Roster[t] : [team |-> t, player |-> Roster[t][i]] \in members
        \/ run.job.kind = "team" /\ run.job.id = t

\* Ids that RGL does not know, below s: they use up errors of every walk.
Gaps(s) == Cardinality((1..s) \ Season)

\* Before s is a season that was stored when it had nothing to enqueue.
Blocked(s) == \E r \in Season : r < s /\ TeamsOf[r] = <<>> /\ seasons[r] = 0

\* Matches that are never stored: for fewer than two teams, or for the foreign key on
\* the winner, of which a match that was not played has none.
Unfit == {m \in Match : Cardinality(PlayedBy[m]) # 2 \/ Winner[m] = NoTeam}

\* Whatever was discarded after its attempts, or cut off by a timeout or RGL's rate
\* limit, a later day's walk enqueues again: each season the walk can reach is
\* stored in the end, with its teams and, of the matches that are fit for it, exactly
\* those that RGL listed when it was stored; what was announced later never comes.
AllImported ==
    <>[]( \A s \in Season : Gaps(s) < MaxErr /\ ~Blocked(s) =>
        /\ Stored(s)
        /\ ToSet(TeamsOf[s]) \subseteq teams
        /\ matches \intersect ToSet(MatchesOf[s])
             = {MatchesOf[s][i] : i \in 1..seasons[s]} \ Unfit)
=============================================================================
