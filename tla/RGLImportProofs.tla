--------------------------- MODULE RGLImportProofs ---------------------------
(***************************************************************************)
(* For any seasons, teams, matches and rosters, any number of attempts and *)
(* of faults: the types, that no match runs into the foreign key on its    *)
(* teams as long as nothing fails, and that only a fault costs a team      *)
(* members.                                                                *)
(***************************************************************************)
EXTENDS RGLImport, SequenceTheorems, FiniteSetTheorems, TLAPS

----------------------------------------------------------------------------
(* The inductive invariant. *)

RunState ==
    [job  : Jobs \union {NoJob},
     pc   : {"idle", "season", "enqueue", "team", "members", "match"},
     errs : 0..MaxErr,
     left : Seq(Player)]

\* Where a job is goes with its kind; an enqueueing one has stored its season, one that
\* stores members has stored their team.
RunShape ==
    /\ run.pc = "idle" => run = Nothing
    /\ run.pc # "idle" => run.job \in Jobs
    /\ run.job.kind = "season" <=> run.pc \in {"season", "enqueue"}
    /\ run.job.kind = "team" <=> run.pc \in {"team", "members"}
    /\ run.job.kind = "match" <=> run.pc = "match"
    /\ run.pc = "enqueue" => run.job.id \in Season /\ seasons[run.job.id] # NoRow
    /\ run.pc = "members" => run.job.id \in teams

Types ==
    /\ TypeOK
    /\ listed \in [Season -> Nat] /\ seasons \in [Season -> Int]
    /\ queue \in Seq(Jobs)
    /\ run \in RunState
    /\ RunShape

\* A walk begins at the first id.
FromStart == \A i \in DOMAIN queue : queue[i].kind = "season" => queue[i].id = 1

\* The teams of the seasons a walk has come by are stored, or have a job.
Walked ==
    faults = 0 /\ run.job.kind = "season" =>
        \A r \in Season : \A t \in ToSet(TeamsOf[r]) :
            r < run.job.id => t \in teams \/ Waits("team", t)

\* A match's teams are stored, or the running job is about to, or their jobs are
\* ahead of the match's.
TeamsAhead ==
    faults = 0 =>
        \A i \in DOMAIN queue : queue[i].kind = "match" =>
            \A t \in PlayedBy[queue[i].id] :
                \/ t \in teams
                \/ run.pc = "team" /\ run.job.id = t
                \/ \E j \in DOMAIN queue : j < i /\ queue[j].kind = "team" /\ queue[j].id = t

Ordered == Walked /\ TeamsAhead /\ MatchesFindTeams

\* The members of a team are stored, unless a fault came between or the running job
\* has them left.
RostersWhole ==
    \A t \in teams \ cut : \A i \in DOMAIN Roster[t] :
        \/ [team |-> t, player |-> Roster[t][i]] \in members
        \/ run.pc = "members" /\ run.job.id = t /\ Roster[t][i] \in ToSet(run.left)

IInv == Types /\ FromStart /\ Ordered /\ RostersWhole

----------------------------------------------------------------------------
(* Jobs and queues. *)

LEMMA InSeq == ASSUME NEW S, NEW q \in Seq(S) PROVE ToSet(q) \subseteq S /\ DOMAIN q = 1..Len(q)
BY DEF ToSet

LEMMA NothingRuns ==
    /\ Nothing \in RunState /\ Nothing.pc = "idle" /\ Nothing.left = <<>>
    /\ Nothing.job = NoJob /\ NoJob.kind = "none"
    /\ Nothing.errs \in 0..MaxErr /\ 0 \in 0..MaxFaults
<1>1. 0 \in 0..MaxErr /\ 0 \in 0..MaxFaults
    BY BoundAssumption
<1>2. QED
    BY <1>1 DEF Nothing, NoJob, Job, RunState

LEMMA NewJob ==
    /\ \A t \in Team : /\ Job("team", t) \in Jobs /\ Job("team", t).kind = "team"
                       /\ Job("team", t).id = t
    /\ \A m \in Match : /\ Job("match", m) \in Jobs /\ Job("match", m).kind = "match"
                        /\ Job("match", m).id = m
    /\ /\ Job("season", 1) \in Jobs /\ Job("season", 1).kind = "season"
       /\ Job("season", 1).id = 1
<1>1. MaxAttempts \in 1..MaxAttempts
    BY BoundAssumption
<1>2. QED
    BY <1>1 DEF Job, Jobs

\* A queue that has got another job.
LEMMA Longer ==
    ASSUME NEW q \in Seq(Jobs), NEW j \in Jobs, NEW r, r = Append(q, j)
    PROVE  /\ r \in Seq(Jobs) /\ Len(r) = Len(q) + 1 /\ Len(q) \in Nat
           /\ DOMAIN q = 1..Len(q) /\ DOMAIN r = 1..Len(q) + 1
           /\ \A i \in 1..Len(q) : r[i] = q[i]
           /\ r[Len(q) + 1] = j
BY AppendProperties, LenProperties

----------------------------------------------------------------------------
(* What a step leaves alone. *)

\* Once a fault has been met, nothing is said of the order of the jobs.
LEMMA Faulty == ASSUME IInv, Fault PROVE Ordered' /\ faults' \in 0..MaxFaults
<1>1. faults \in 0..MaxFaults /\ faults < MaxFaults /\ faults' = faults + 1
    BY DEF IInv, Types, TypeOK, Fault
<1>2. faults' # 0 /\ faults' \in 0..MaxFaults
    BY <1>1, BoundAssumption
<1>3. QED
    BY <1>2 DEF Ordered, Walked, TeamsAhead, MatchesFindTeams

\* The running job ends; it, or another, may have to be run again.
LEMMA Ended ==
    ASSUME IInv, run' = Nothing, UNCHANGED <<listed, seasons, teams, members>>,
           limited' \in BOOLEAN, matches' \subseteq Match,
           cut \subseteq cut', cut' \subseteq Team, faults' \in 0..MaxFaults,
           run.pc = "members" => run.left = <<>> \/ run.job.id \in cut',
           (faults' = faults /\ (run.pc = "team" => run.job.id \in teams)) \/ faults' # 0,
           NEW again \in Jobs, queue' = queue \/ queue' = Append(queue, again),
           again.kind = "season" => again.id = 1,
           faults' = 0 /\ again.kind = "match" => PlayedBy[again.id] \subseteq teams
    PROVE  IInv'
<1>1. /\ queue \in Seq(Jobs) /\ queue' \in Seq(Jobs) /\ Len(queue) \in Nat
      /\ DOMAIN queue = 1..Len(queue) /\ DOMAIN queue \subseteq DOMAIN queue'
      /\ \A i \in DOMAIN queue : queue'[i] = queue[i]
      /\ \A i \in DOMAIN queue' : i \in DOMAIN queue \/ queue'[i] = again
    <2>1. queue \in Seq(Jobs)
        BY DEF IInv, Types
    <2>2. CASE queue' = queue
        BY <2>1, <2>2, LenProperties
    <2>3. CASE queue' = Append(queue, again)
        <3>1. /\ queue' \in Seq(Jobs) /\ Len(queue) \in Nat
              /\ DOMAIN queue = 1..Len(queue) /\ DOMAIN queue' = 1..Len(queue) + 1
              /\ \A i \in 1..Len(queue) : queue'[i] = queue[i]
              /\ queue'[Len(queue) + 1] = again
            BY <2>1, <2>3, Longer
        <3>2. \A i \in 1..Len(queue) + 1 : i \in 1..Len(queue) \/ i = Len(queue) + 1
            BY <3>1
        <3>3. \A i \in 1..Len(queue) : i \in 1..Len(queue) + 1
            BY <3>1
        <3>4. QED
            BY <2>1, <3>1, <3>2, <3>3, Zenon
    <2>4. QED
        BY <2>2, <2>3
<1>2. TypeOK'
    BY <1>1, InSeq, NothingRuns DEF IInv, Types, TypeOK
<1>3. Types'
    BY <1>1, <1>2, NothingRuns DEF IInv, Types, RunShape
<1>4. FromStart'
    BY <1>1 DEF IInv, FromStart
<1>5. Ordered'
    BY <1>1, NothingRuns DEF IInv, Ordered, Walked, TeamsAhead, MatchesFindTeams
<1>6. RostersWhole'
    <2>1. ToSet(<<>>) = {}
        BY DEF ToSet
    <2>2. QED
        BY <2>1 DEF IInv, RostersWhole
<1>7. QED
    BY <1>3, <1>4, <1>5, <1>6 DEF IInv

----------------------------------------------------------------------------
(* Each step keeps the invariant. *)

LEMMA InitIInv == Init => IInv
<1> SUFFICES ASSUME Init PROVE IInv
    OBVIOUS
<1>1. <<>> \in Seq(Jobs) /\ ToSet(<<>>) = {} /\ DOMAIN <<>> = {}
    BY DEF ToSet
<1>2. \A s \in Season : Len(MatchesOf[s]) \in Nat
    BY RGLAssumption
<1>3. \A s \in Season : listed[s] \in 0..Len(MatchesOf[s]) /\ seasons[s] \in NoRow..listed[s]
    BY <1>2 DEF Init, NoRow
<1>4. listed \in [Season -> Nat] /\ seasons \in [Season -> Int]
    BY DEF Init, NoRow
<1>5. TypeOK
    <2>1. limited \in BOOLEAN
        BY DEF Init
    <2>2. QED
        BY <1>1, <1>3, <2>1, NothingRuns DEF Init, TypeOK
<1>6. Types /\ FromStart /\ RostersWhole
    BY <1>1, <1>4, <1>5, NothingRuns DEF Init, Types, RunShape, FromStart, RostersWhole
<1>7. Ordered
    BY <1>1, NothingRuns DEF Init, Ordered, Walked, TeamsAhead, MatchesFindTeams
<1>8. QED
    BY <1>6, <1>7 DEF IInv

LEMMA AnnounceIInv == ASSUME IInv, NEW s \in Season, Announce(s) PROVE IInv'
<1>1. /\ listed[s] < Len(MatchesOf[s]) /\ listed' = [listed EXCEPT ![s] = @ + 1]
      /\ UNCHANGED <<limited, seasons, teams, members, matches, queue, run, cut, faults>>
    BY DEF Announce, tables
<1>2. /\ listed' \in [Season -> Nat]
      /\ \A r \in Season : listed'[r] \in 0..Len(MatchesOf[r]) /\ seasons[r] \in NoRow..listed'[r]
    <2>1. \A r \in Season : /\ Len(MatchesOf[r]) \in Nat /\ listed[r] \in Nat
                            /\ listed[r] <= Len(MatchesOf[r])
                            /\ seasons[r] \in NoRow..listed[r]
        BY RGLAssumption DEF IInv, Types, TypeOK
    <2>2. \A r \in Season : listed'[r] = listed[r] \/ (r = s /\ listed'[r] = listed[r] + 1)
        BY <1>1 DEF IInv, Types
    <2>3. listed' \in [Season -> Nat]
        BY <1>1, <2>1 DEF IInv, Types
    <2>4. QED
        BY <1>1, <2>1, <2>2, <2>3 DEF NoRow
<1>3. Types'
    BY <1>1, <1>2 DEF IInv, Types, TypeOK, RunShape
<1>4. QED
    BY <1>1, <1>3 DEF IInv, FromStart, Ordered, Walked, TeamsAhead, MatchesFindTeams,
                      RostersWhole, Waits

LEMMA LimitIInv ==
    ASSUME IInv, UNCHANGED <<listed, tables, queue, run, cut>>, limited' \in BOOLEAN,
           UNCHANGED faults \/ Fault
    PROVE  IInv'
<1>1. UNCHANGED <<seasons, teams, members, matches>>
    BY DEF tables
<1>2. Ordered' /\ faults' \in 0..MaxFaults
    <2>1. CASE UNCHANGED faults
        BY <1>1, <2>1 DEF IInv, Types, TypeOK, Ordered, Walked, TeamsAhead, MatchesFindTeams, Waits
    <2>2. CASE Fault
        BY <2>2, Faulty
    <2>3. QED
        BY <2>1, <2>2
<1>3. Types'
    BY <1>1, <1>2 DEF IInv, Types, TypeOK, RunShape
<1>4. QED
    BY <1>1, <1>2, <1>3 DEF IInv, FromStart, RostersWhole

LEMMA PeriodIInv == ASSUME IInv, Period PROVE IInv'
<1>1. /\ queue' = Append(queue, Job("season", 1)) /\ queue \in Seq(Jobs)
      /\ UNCHANGED <<listed, limited, seasons, teams, members, matches, run, cut, faults>>
    BY DEF Period, rgl, tables, IInv, Types
<1>2. /\ queue' \in Seq(Jobs) /\ Len(queue) \in Nat
      /\ DOMAIN queue = 1..Len(queue) /\ DOMAIN queue' = 1..Len(queue) + 1
      /\ \A i \in 1..Len(queue) : queue'[i] = queue[i]
      /\ queue'[Len(queue) + 1] = Job("season", 1)
    BY <1>1, NewJob, Longer
<1>3. \A i \in DOMAIN queue' : i \in DOMAIN queue \/ queue'[i] = Job("season", 1)
    BY <1>2
<1>4. Types'
    BY <1>1, <1>2, InSeq, ZenonT(40) DEF IInv, Types, TypeOK, RunShape
<1>5. FromStart'
    BY <1>2, <1>3, NewJob DEF IInv, FromStart
<1>6. Ordered'
    BY <1>1, <1>2, <1>3, NewJob
       DEF IInv, Ordered, Walked, TeamsAhead, MatchesFindTeams, Waits
<1>7. QED
    BY <1>1, <1>4, <1>5, <1>6 DEF IInv, RostersWhole

LEMMA TakeIInv == ASSUME IInv, Take PROVE IInv'
<1>1. PICK j : j = Head(queue)
    OBVIOUS
<1>2. /\ run = Nothing /\ queue # <<>> /\ queue \in Seq(Jobs)
      /\ run' = [Nothing EXCEPT !.job = j, !.pc = j.kind] /\ queue' = Tail(queue)
      /\ UNCHANGED <<listed, limited, seasons, teams, members, matches, cut, faults>>
    BY <1>1 DEF Take, Idle, rgl, tables, IInv, Types
<1>3. /\ j \in Jobs /\ j = queue[1] /\ queue' \in Seq(Jobs) /\ Len(queue) \in Nat \ {0}
      /\ DOMAIN queue = 1..Len(queue) /\ DOMAIN queue' = 1..Len(queue) - 1
      /\ \A i \in 1..Len(queue) - 1 : queue'[i] = queue[i + 1]
    <2>1. /\ j \in Jobs /\ queue' \in Seq(Jobs) /\ Len(queue') = Len(queue) - 1
          /\ \A i \in 1..Len(queue') : queue'[i] = queue[i + 1]
        BY <1>1, <1>2, HeadTailProperties
    <2>2. j = queue[1] /\ Len(queue) \in Nat \ {0}
        BY <1>1, <1>2, EmptySeq
    <2>3. QED
        BY <1>2, <2>1, <2>2, InSeq
<1>4. j.kind \in {"season", "team", "match"}
    BY <1>3 DEF Jobs
<1>5. /\ run' \in RunState /\ run'.job = j /\ run'.pc = j.kind
    BY <1>2, <1>3, <1>4, NothingRuns DEF RunState
<1>6. Types'
    <2>1. RunShape'
        BY <1>3, <1>4, <1>5 DEF RunShape
    <2>2. QED
        BY <1>2, <1>3, <1>5, <2>1, InSeq DEF IInv, Types, TypeOK, RunState
<1>7. FromStart'
    BY <1>3 DEF IInv, FromStart
<1>8. Walked'
    <2>1. j.kind = "season" => j.id = 1
        BY <1>3 DEF IInv, FromStart
    <2>2. \A r \in Season : ~(r < 1)
        BY SeasonAssumption
    <2>3. QED
        BY <1>5, <2>1, <2>2 DEF Walked
<1>9. TeamsAhead'
    <2> SUFFICES ASSUME faults = 0, NEW i \in DOMAIN queue', queue'[i].kind = "match",
                        NEW t \in PlayedBy[queue'[i].id]
                 PROVE  \/ t \in teams
                        \/ run'.pc = "team" /\ run'.job.id = t
                        \/ \E k \in DOMAIN queue' :
                            k < i /\ queue'[k].kind = "team" /\ queue'[k].id = t
        BY <1>2 DEF TeamsAhead
    <2>1. i + 1 \in DOMAIN queue /\ queue'[i] = queue[i + 1]
        BY <1>3
    <2>2. \/ t \in teams
          \/ \E k \in DOMAIN queue : k < i + 1 /\ queue[k].kind = "team" /\ queue[k].id = t
        BY <1>2, <2>1, NothingRuns DEF IInv, Ordered, TeamsAhead
    <2>3. ASSUME NEW k \in DOMAIN queue, k < i + 1, queue[k].kind = "team", queue[k].id = t
          PROVE  \/ run'.pc = "team" /\ run'.job.id = t
                 \/ \E l \in DOMAIN queue' : l < i /\ queue'[l].kind = "team" /\ queue'[l].id = t
        <3>1. CASE k = 1
            BY <1>3, <1>5, <2>3, <3>1
        <3>2. CASE k # 1
            <4>1. PICK l : l = k - 1
                OBVIOUS
            <4>2. l \in DOMAIN queue' /\ l < i /\ l + 1 = k
                BY <1>3, <2>3, <3>2, <4>1
            <4>3. queue'[l] = queue[k]
                BY <1>3, <4>2
            <4>4. QED
                BY <2>3, <4>2, <4>3
        <3>3. QED
            BY <3>1, <3>2
    <2>4. QED
        BY <2>2, <2>3
<1>10. MatchesFindTeams'
    <2> SUFFICES ASSUME faults = 0, j.kind = "match", NEW t \in PlayedBy[j.id]
                 PROVE  t \in teams
        BY <1>2, <1>5 DEF MatchesFindTeams
    <2>1. 1 \in DOMAIN queue /\ \A k \in DOMAIN queue : ~(k < 1)
        BY <1>3
    <2>2. QED
        BY <1>2, <1>3, <2>1, NothingRuns DEF IInv, Ordered, TeamsAhead
<1>11. RostersWhole'
    BY <1>2, <1>4, <1>5, NothingRuns DEF IInv, RostersWhole
<1>12. QED
    BY <1>6, <1>7, <1>8, <1>9, <1>10, <1>11 DEF IInv, Ordered

LEMMA UpdateSeasonIInv == ASSUME IInv, UpdateSeason PROVE IInv'
<1>1. PICK s \in Season : s = run.job.id
    BY DEF UpdateSeason
<1>2. /\ run.pc = "season" /\ run' = [run EXCEPT !.pc = "enqueue"] /\ StoreSeason(s)
      /\ UNCHANGED <<listed, limited, teams, members, matches, queue, cut, faults>>
      /\ run \in RunState /\ run.job.kind = "season"
    BY <1>1 DEF UpdateSeason, rgl, IInv, Types, RunShape
<1>3. /\ run' \in RunState /\ run'.pc = "enqueue" /\ run'.job = run.job
    BY <1>2 DEF RunState
<1>4. /\ seasons' \in [Season -> Int] /\ seasons'[s] # NoRow
      /\ \A r \in Season : seasons'[r] \in NoRow..listed[r]
    <2>1. \A r \in Season : listed[r] \in Nat /\ seasons[r] \in NoRow..listed[r]
        BY DEF IInv, Types, TypeOK
    <2>2. CASE Stored(s)
        BY <1>2, <2>1, <2>2 DEF StoreSeason, Stored, IInv, Types
    <2>3. CASE ~Stored(s)
        <3>1. seasons' = [seasons EXCEPT ![s] = listed[s]] /\ listed[s] \in NoRow..listed[s]
            BY <1>2, <2>1, <2>3 DEF StoreSeason, NoRow
        <3>2. seasons'[s] = listed[s] /\ \A r \in Season \ {s} : seasons'[r] = seasons[r]
            BY <3>1 DEF IInv, Types
        <3>3. QED
            BY <2>1, <3>1, <3>2 DEF IInv, Types, NoRow
    <2>4. QED
        BY <2>2, <2>3
<1>5. TypeOK'
    BY <1>2, <1>3, <1>4 DEF IInv, Types, TypeOK, RunState
<1>6. Types'
    BY <1>1, <1>2, <1>3, <1>4, <1>5 DEF IInv, Types, RunShape
<1>7. Ordered'
    BY <1>2, <1>3 DEF IInv, Ordered, Walked, TeamsAhead, MatchesFindTeams, Waits
<1>8. RostersWhole' /\ FromStart'
    BY <1>2, <1>3 DEF IInv, RostersWhole, FromStart
<1>9. QED
    BY <1>6, <1>7, <1>8 DEF IInv

LEMMA SkipSeasonIInv == ASSUME IInv, SkipSeason PROVE IInv'
<1>1. PICK j : j = run.job
    OBVIOUS
<1>2. /\ run.pc = "season" /\ run.errs < MaxErr
      /\ run' = [run EXCEPT !.job = [j EXCEPT !.id = @ + 1], !.errs = @ + 1]
      /\ UNCHANGED <<listed, limited, seasons, teams, members, matches, queue, cut>>
      /\ run \in RunState /\ j.kind = "season" /\ j \in Jobs
    BY <1>1 DEF SkipSeason, rgl, tables, IInv, Types, RunShape
<1>3. j \in [kind : {"season"}, id : Nat, attempts : 1..MaxAttempts]
    BY <1>2 DEF Jobs
<1>4. PICK k : k = [j EXCEPT !.id = @ + 1]
    OBVIOUS
<1>5. k \in Jobs /\ k.kind = "season" /\ k.id = j.id + 1 /\ j.id \in Nat
    BY <1>3, <1>4 DEF Jobs
<1>6. run.errs + 1 \in 0..MaxErr
    BY <1>2, BoundAssumption DEF RunState
<1>7. run' \in RunState /\ run'.pc = "season" /\ run'.job = k
    BY <1>2, <1>4, <1>5, <1>6 DEF RunState
<1>8. Ordered' /\ faults' \in 0..MaxFaults
    <2>1. CASE j.id \in Season
        BY <1>1, <2>1, Faulty DEF SkipSeason
    <2>2. CASE j.id \notin Season
        <3>1. UNCHANGED faults
            BY <1>1, <2>2 DEF SkipSeason
        <3>2. \A r \in Season : r < k.id => r < j.id
            BY <1>5, <2>2, SeasonAssumption
        <3>3. Walked'
            BY <1>1, <1>2, <1>5, <1>7, <3>1, <3>2 DEF IInv, Ordered, Walked, Waits
        <3>4. QED
            BY <1>2, <1>7, <3>1, <3>3 DEF IInv, Types, TypeOK, Ordered, TeamsAhead, MatchesFindTeams
    <2>3. QED
        BY <2>1, <2>2
<1>9. TypeOK'
    BY <1>2, <1>7, <1>8 DEF IInv, Types, TypeOK, RunState
<1>10. Types'
    BY <1>2, <1>5, <1>7, <1>9 DEF IInv, Types, RunShape
<1>11. RostersWhole' /\ FromStart'
    BY <1>2, <1>7 DEF IInv, RostersWhole, FromStart
<1>12. QED
    BY <1>8, <1>10, <1>11 DEF IInv

\* The jobs of a season: its teams, and then its matches.
LEMMA FollowUpJobs ==
    ASSUME Types, NEW s \in Season, seasons[s] # NoRow
    PROVE  LET n == Len(TeamsOf[s]) IN
           /\ n \in Nat /\ FollowUps(s) \in Seq(Jobs) /\ IsFiniteSet(DOMAIN FollowUps(s))
           /\ \A i \in 1..n : i \in DOMAIN FollowUps(s) /\ FollowUps(s)[i] = Job("team", TeamsOf[s][i])
           /\ \A i \in DOMAIN FollowUps(s) : i \in 1..n \/ (i > n /\
                \E m \in ToSet(MatchesOf[s]) : m \in Match /\ FollowUps(s)[i] = Job("match", m))
<1>1. PICK n, k : n = Len(TeamsOf[s]) /\ k = seasons[s]
    OBVIOUS
<1>2. /\ TeamsOf[s] \in Seq(Team) /\ n \in Nat /\ DOMAIN TeamsOf[s] = 1..n
      /\ MatchesOf[s] \in Seq(Match) /\ k \in Nat /\ k <= Len(MatchesOf[s])
      /\ Len(MatchesOf[s]) \in Nat
    <2>1. TeamsOf[s] \in Seq(Team) /\ MatchesOf[s] \in Seq(Match)
        BY RGLAssumption
    <2>2. n \in Nat /\ DOMAIN TeamsOf[s] = 1..n /\ Len(MatchesOf[s]) \in Nat
        BY <1>1, <2>1, LenProperties
    <2>3. k \in NoRow..listed[s] /\ listed[s] \in 0..Len(MatchesOf[s]) /\ k # NoRow
        BY <1>1 DEF Types, TypeOK
    <2>4. QED
        BY <2>1, <2>2, <2>3 DEF NoRow
<1>3. PICK ts : ts = [i \in 1..n |-> Job("team", TeamsOf[s][i])]
    OBVIOUS
<1>4. PICK ms : ms = [i \in 1..k |-> Job("match", MatchesOf[s][i])]
    OBVIOUS
<1>5. ts \in Seq(Jobs) /\ Len(ts) = n /\ \A i \in 1..n : ts[i] = Job("team", TeamsOf[s][i])
    <2>1. \A i \in 1..n : TeamsOf[s][i] \in Team
        BY <1>2
    <2>2. \A i \in 1..n : Job("team", TeamsOf[s][i]) \in Jobs
        BY <2>1, NewJob
    <2>3. QED
        BY <1>2, <1>3, <2>2
<1>6. /\ \A i \in 1..k : MatchesOf[s][i] \in Match /\ MatchesOf[s][i] \in ToSet(MatchesOf[s])
      /\ ms \in Seq(Jobs) /\ Len(ms) = k /\ \A i \in 1..k : ms[i] = Job("match", MatchesOf[s][i])
    <2>1. \A i \in 1..k : MatchesOf[s][i] \in Match /\ MatchesOf[s][i] \in ToSet(MatchesOf[s])
        BY <1>2 DEF ToSet
    <2>2. \A i \in 1..k : Job("match", MatchesOf[s][i]) \in Jobs
        BY <2>1, NewJob
    <2>3. QED
        BY <1>2, <1>4, <2>1, <2>2
<1>7. PICK all : all = ts \o ms
    OBVIOUS
<1>8. FollowUps(s) = all
    BY <1>1, <1>2, <1>3, <1>4, <1>7 DEF FollowUps
<1>9. /\ all \in Seq(Jobs) /\ Len(all) = n + k /\ DOMAIN all = 1..n + k
      /\ \A i \in 1..n + k : all[i] = IF i <= n THEN ts[i] ELSE ms[i - n]
    <2>1. /\ all \in Seq(Jobs) /\ Len(all) = Len(ts) + Len(ms)
          /\ \A i \in 1..Len(ts) + Len(ms) : all[i] = IF i <= Len(ts) THEN ts[i] ELSE ms[i - Len(ts)]
        BY <1>5, <1>6, <1>7, ConcatProperties
    <2>2. QED
        BY <1>5, <1>6, <2>1, LenProperties
<1>10. IsFiniteSet(DOMAIN all)
    BY <1>2, <1>9, FS_Interval
<1>11. \A i \in 1..n : i \in DOMAIN all /\ all[i] = Job("team", TeamsOf[s][i])
    BY <1>2, <1>5, <1>9
<1>12. ASSUME NEW i \in DOMAIN all, i \notin 1..n
       PROVE  i > n /\ \E m \in ToSet(MatchesOf[s]) : m \in Match /\ all[i] = Job("match", m)
    <2>1. i > n /\ i - n \in 1..k /\ all[i] = ms[i - n]
        BY <1>2, <1>9, <1>12
    <2>2. QED
        BY <1>6, <2>1
<1>13. QED
    BY <1>1, <1>2, <1>8, <1>9, <1>10, <1>11, <1>12

LEMMA EnqueueSeasonIInv == ASSUME IInv, EnqueueSeason PROVE IInv'
<1>1. PICK j : j = run.job
    OBVIOUS
<1>2. /\ run.pc = "enqueue" /\ j.kind = "season" /\ j.id \in Season /\ seasons[j.id] # NoRow
      /\ UNCHANGED <<listed, limited, seasons, teams, members, matches, cut, faults>>
      /\ run \in RunState /\ j \in Jobs /\ queue \in Seq(Jobs)
      /\ run' = [run EXCEPT !.pc = "season", !.job = [j EXCEPT !.id = @ + 1]]
    BY <1>1 DEF EnqueueSeason, rgl, tables, IInv, Types, RunShape
<1>3. PICK s, jobs, n : s = j.id /\ jobs = FollowUps(s) /\ n = Len(TeamsOf[s])
    OBVIOUS
<1>4. /\ n \in Nat /\ jobs \in Seq(Jobs) /\ IsFiniteSet(DOMAIN jobs) /\ s \in Season
      /\ \A i \in 1..n : i \in DOMAIN jobs /\ jobs[i] = Job("team", TeamsOf[s][i])
      /\ \A i \in DOMAIN jobs : i \in 1..n \/ (i > n /\
            \E m \in ToSet(MatchesOf[s]) : m \in Match /\ jobs[i] = Job("match", m))
    BY <1>2, <1>3, FollowUpJobs DEF IInv
<1>5. PICK new : new = {i \in DOMAIN jobs : ~Waits(jobs[i].kind, jobs[i].id)}
    OBVIOUS
<1>6. PICK at \in InOrder(new) : queue' = queue \o [k \in DOMAIN at |-> jobs[at[k]]]
    BY <1>1, <1>3, <1>5 DEF EnqueueSeason
<1>7. PICK c : c = Cardinality(new)
    OBVIOUS
<1>8. /\ c \in Nat /\ DOMAIN at = 1..c /\ \A k \in 1..c : at[k] \in new
      /\ \A i \in new : \E k \in 1..c : at[k] = i
      /\ \A k, l \in 1..c : k < l => at[k] < at[l]
    <2>1. c \in Nat
        BY <1>4, <1>5, <1>7, FS_Subset, FS_CardinalityType
    <2>2. at \in [1..c -> new] /\ \A i \in new : \E k \in 1..c : at[k] = i
        BY <1>6, <1>7 DEF InOrder, Bijection, Surjection
    <2>3. \A k, l \in DOMAIN at : k < l => at[k] < at[l]
        BY <1>6 DEF InOrder
    <2>4. QED
        BY <2>1, <2>2, <2>3
<1>9. PICK add : add = [k \in 1..c |-> jobs[at[k]]]
    OBVIOUS
<1>10. add \in Seq(Jobs) /\ Len(add) = c /\ \A k \in 1..c : add[k] = jobs[at[k]]
    <2>1. \A k \in 1..c : jobs[at[k]] \in Jobs
        BY <1>4, <1>5, <1>8, ElementOfSeq, InSeq
    <2>2. QED
        BY <1>8, <1>9, <2>1
<1>11. PICK q : q = Len(queue)
    OBVIOUS
<1>12. /\ queue' \in Seq(Jobs) /\ q \in Nat /\ DOMAIN queue = 1..q /\ DOMAIN queue' = 1..q + c
       /\ \A i \in 1..q : queue'[i] = queue[i]
       /\ \A k \in 1..c : q + k \in 1..q + c /\ queue'[q + k] = jobs[at[k]]
       /\ \A i \in 1..q + c : i \in 1..q \/ \E k \in 1..c : i = q + k
    <2>1. queue' = queue \o add
        BY <1>6, <1>8, <1>9
    <2>0. /\ queue' \in Seq(Jobs) /\ Len(queue') = Len(queue) + Len(add)
          /\ \A i \in 1..Len(queue) + Len(add) :
                queue'[i] = IF i <= Len(queue) THEN queue[i] ELSE add[i - Len(queue)]
        BY <1>2, <1>10, <2>1, ConcatProperties
    <2>2. /\ queue' \in Seq(Jobs) /\ Len(queue') = q + c
          /\ \A i \in 1..q + c : queue'[i] = IF i <= q THEN queue[i] ELSE add[i - q]
        BY <1>10, <1>11, <2>0
    <2>3. q \in Nat /\ DOMAIN queue = 1..q /\ DOMAIN queue' = 1..q + c
        BY <1>2, <1>10, <1>11, <2>2, LenProperties
    <2>4. \A i \in 1..q : queue'[i] = queue[i]
        BY <1>8, <1>10, <2>2, <2>3
    <2>5. ASSUME NEW k \in 1..c PROVE q + k \in 1..q + c /\ queue'[q + k] = jobs[at[k]]
        <3>1. q + k \in 1..q + c /\ ~(q + k <= q) /\ (q + k) - q = k
            BY <1>8, <2>3
        <3>2. queue'[q + k] = add[(q + k) - q]
            BY <2>2, <3>1
        <3>3. QED
            BY <1>10, <3>1, <3>2
    <2>6. ASSUME NEW i \in 1..q + c, i \notin 1..q PROVE \E k \in 1..c : i = q + k
        <3>1. PICK k : k = i - q
            OBVIOUS
        <3>2. k \in 1..c /\ i = q + k
            BY <1>8, <2>3, <2>6, <3>1
        <3>3. QED
            BY <3>2
    <2>7. QED
        BY <2>2, <2>3, <2>4, <2>5, <2>6
<1>13. \A kind, id : Waits(kind, id) => Waits(kind, id)'
    BY <1>8, <1>12 DEF Waits
<1>14. \A i \in 1..n : TeamsOf[s][i] \in Team
    BY <1>3, <1>4, RGLAssumption
<1>15. ASSUME NEW i \in 1..n
       PROVE  \/ Waits("team", TeamsOf[s][i])
              \/ \E k \in 1..c : at[k] = i /\ queue'[q + k] = Job("team", TeamsOf[s][i])
    <2>1. i \in DOMAIN jobs /\ jobs[i] = Job("team", TeamsOf[s][i])
        BY <1>4
    <2>2. jobs[i].kind = "team" /\ jobs[i].id = TeamsOf[s][i]
        BY <1>14, <2>1, NewJob
    <2>3. i \in new \/ Waits("team", TeamsOf[s][i])
        BY <1>5, <2>1, <2>2
    <2>4. QED
        BY <1>8, <1>12, <2>1, <2>3, SMTT(30)
<1>16. ToSet(TeamsOf[s]) = {TeamsOf[s][i] : i \in 1..n}
    BY <1>3, <1>4, RGLAssumption DEF ToSet
<1>17. \A t \in ToSet(TeamsOf[s]) : Waits("team", t)'
    <2> SUFFICES ASSUME NEW i \in 1..n PROVE Waits("team", TeamsOf[s][i])'
        BY <1>16
    <2>1. ASSUME NEW k \in 1..c, queue'[q + k] = Job("team", TeamsOf[s][i])
          PROVE  Waits("team", TeamsOf[s][i])'
        <3>1. q + k \in DOMAIN queue'
            BY <1>12
        <3>2. queue'[q + k].kind = "team" /\ queue'[q + k].id = TeamsOf[s][i]
            BY <1>14, <2>1, NewJob
        <3>3. QED
            BY <3>1, <3>2 DEF Waits
    <2>2. QED
        BY <1>13, <1>15, <2>1
<1>18. PICK next : next = [j EXCEPT !.id = @ + 1]
    OBVIOUS
<1>19. next \in Jobs /\ next.kind = "season" /\ next.id = s + 1 /\ s \in Nat
    <2>1. j \in [kind : {"season"}, id : Nat, attempts : 1..MaxAttempts]
        BY <1>2 DEF Jobs
    <2>2. QED
        BY <1>3, <1>18, <2>1 DEF Jobs
<1>20. run' \in RunState /\ run'.pc = "season" /\ run'.job = next
    BY <1>2, <1>18, <1>19 DEF RunState
<1>21. Types'
    <2>1. TypeOK'
        BY <1>2, <1>12, <1>20, InSeq DEF IInv, Types, TypeOK, RunState
    <2>2. QED
        BY <1>2, <1>12, <1>19, <1>20, <2>1 DEF IInv, Types, RunShape
<1>22. ASSUME NEW k \in 1..c
       PROVE  \/ at[k] \in 1..n /\ queue'[q + k].kind = "team"
              \/ /\ at[k] > n /\ queue'[q + k].kind = "match"
                 /\ queue'[q + k].id \in ToSet(MatchesOf[s])
    <2>1. at[k] \in DOMAIN jobs /\ queue'[q + k] = jobs[at[k]]
        BY <1>5, <1>8, <1>12
    <2>2. CASE at[k] \in 1..n
        BY <1>4, <1>14, <2>1, <2>2, NewJob
    <2>3. CASE at[k] \notin 1..n
        BY <1>4, <2>1, <2>3, NewJob
    <2>4. QED
        BY <2>2, <2>3
<1>23. FromStart'
    BY <1>12, <1>22 DEF IInv, FromStart
<1>24. Walked'
    <2> SUFFICES ASSUME faults = 0, NEW r \in Season, r < s + 1, NEW t \in ToSet(TeamsOf[r])
                 PROVE  t \in teams \/ Waits("team", t)'
        BY <1>2, <1>19, <1>20 DEF Walked
    <2>1. r = s \/ r < s
        BY <1>19, SeasonAssumption
    <2>2. QED
        BY <1>1, <1>2, <1>3, <1>13, <1>17, <2>1 DEF IInv, Ordered, Walked
<1>25. TeamsAhead'
    <2> SUFFICES ASSUME faults = 0, NEW i \in 1..q + c, queue'[i].kind = "match",
                        NEW t \in PlayedBy[queue'[i].id]
                 PROVE  \/ t \in teams
                        \/ \E l \in 1..q + c :
                            l < i /\ queue'[l].kind = "team" /\ queue'[l].id = t
        BY <1>2, <1>12 DEF TeamsAhead
    <2>1. CASE i \in 1..q
        <3>1. \/ t \in teams
              \/ \E l \in 1..q : l < i /\ queue[l].kind = "team" /\ queue[l].id = t
            BY <1>2, <1>12, <2>1 DEF IInv, Ordered, TeamsAhead
        <3>2. QED
            BY <1>8, <1>12, <3>1
    <2>2. ASSUME NEW k \in 1..c, i = q + k
          PROVE  \/ t \in teams
                 \/ \E l \in 1..q + c : l < i /\ queue'[l].kind = "team" /\ queue'[l].id = t
        <3>1. at[k] > n /\ queue'[i].id \in ToSet(MatchesOf[s])
            BY <1>22, <2>2
        <3>2. PICK r \in Season : r <= s /\ t \in ToSet(TeamsOf[r])
            BY <1>4, <3>1, MatchAssumption
        <3>3. ASSUME Waits("team", t)
              PROVE  \E l \in 1..q + c : l < i /\ queue'[l].kind = "team" /\ queue'[l].id = t
            <4>1. PICK l \in 1..q : queue[l].kind = "team" /\ queue[l].id = t
                BY <1>12, <3>3 DEF Waits
            <4>2. l \in 1..q + c /\ l < i /\ queue'[l] = queue[l]
                BY <1>8, <1>12, <2>2, <4>1
            <4>3. QED
                BY <4>1, <4>2
        <3>4. CASE r < s
            BY <1>1, <1>2, <1>3, <3>2, <3>3, <3>4 DEF IInv, Ordered, Walked
        <3>5. CASE r = s
            <4>1. PICK h \in 1..n : t = TeamsOf[s][h]
                BY <1>16, <3>2, <3>5
            <4>2. ASSUME NEW l \in 1..c, at[l] = h, queue'[q + l] = Job("team", t)
                  PROVE  \E m \in 1..q + c : m < i /\ queue'[m].kind = "team" /\ queue'[m].id = t
                <5>0. at[k] \in Nat
                    <6>1. at[k] \in DOMAIN jobs /\ DOMAIN jobs = 1..Len(jobs) /\ Len(jobs) \in Nat
                        BY <1>4, <1>5, <1>8, InSeq, LenProperties
                    <6>2. QED
                        BY <6>1
                <5>1. l # k /\ at[l] < at[k]
                    BY <1>4, <3>1, <4>1, <4>2, <5>0
                <5>2. ~(k < l)
                    <6>1. at[l] \in Nat
                        BY <4>1, <4>2
                    <6>2. ~(at[k] < at[l])
                        BY <5>0, <5>1, <6>1
                    <6>3. QED
                        BY <1>8, <6>2
                <5>3. q + l \in 1..q + c /\ q + l < i
                    BY <1>8, <1>12, <2>2, <5>1, <5>2
                <5>4. queue'[q + l].kind = "team" /\ queue'[q + l].id = t
                    BY <1>14, <4>1, <4>2, NewJob
                <5>5. QED
                    BY <5>3, <5>4
            <4>3. QED
                BY <1>15, <3>3, <4>1, <4>2
        <3>6. QED
            BY <1>4, <3>2, <3>4, <3>5, SeasonAssumption
    <2>3. QED
        BY <1>12, <2>1, <2>2
<1>26. MatchesFindTeams' /\ RostersWhole'
    BY <1>2, <1>20 DEF IInv, MatchesFindTeams, RostersWhole
<1>27. QED
    BY <1>21, <1>23, <1>24, <1>25, <1>26 DEF IInv, Ordered

LEMMA SeasonTimeoutIInv == ASSUME IInv, SeasonTimeout PROVE IInv'
<1>1. /\ run.pc = "season" /\ run' = Nothing
      /\ UNCHANGED <<listed, limited, seasons, teams, members, matches, queue, cut>>
      /\ UNCHANGED faults \/ Fault
    BY DEF SeasonTimeout, Done, rgl, tables
<1>2. faults \in 0..MaxFaults /\ cut \subseteq Team /\ limited \in BOOLEAN /\ matches \subseteq Match
    BY DEF IInv, Types, TypeOK
<1>3. faults' = faults \/ (faults' # 0 /\ faults' \in 0..MaxFaults)
    BY <1>1, <1>2, Faulty DEF Fault
<1>4. QED
    BY <1>1, <1>2, <1>3, NewJob, Ended

LEMMA SeasonsDoneIInv == ASSUME IInv, SeasonsDone \/ TeamDone PROVE IInv'
<1>1. /\ run' = Nothing /\ run.pc # "team" /\ (run.pc = "members" => run.left = <<>>)
      /\ UNCHANGED <<listed, limited, seasons, teams, members, matches, queue, cut, faults>>
    BY DEF SeasonsDone, TeamDone, Done, rgl, tables
<1>2. faults \in 0..MaxFaults /\ cut \subseteq Team /\ limited \in BOOLEAN /\ matches \subseteq Match
    BY DEF IInv, Types, TypeOK
<1>3. QED
    BY <1>1, <1>2, NewJob, Ended

LEMMA InsertTeamIInv == ASSUME IInv, InsertTeam PROVE IInv'
<1>1. PICK t : t = run.job.id
    OBVIOUS
<1>2. /\ run.pc = "team" /\ teams' = teams \union {t}
      /\ UNCHANGED <<listed, limited, seasons, members, matches, cut, faults>>
      /\ run \in RunState /\ run.job \in Jobs /\ run.job.kind = "team"
    BY <1>1 DEF InsertTeam, rgl, IInv, Types, RunShape
<1>3. t \in Team
    BY <1>1, <1>2 DEF Jobs
<1>4. CASE t \in teams
    <2>1. run' = Nothing /\ UNCHANGED <<teams, queue>>
        BY <1>1, <1>2, <1>4 DEF InsertTeam, Done
    <2>2. /\ faults \in 0..MaxFaults /\ cut \subseteq Team /\ limited \in BOOLEAN
          /\ matches \subseteq Match
        BY DEF IInv, Types, TypeOK
    <2>3. QED
        BY <1>1, <1>2, <1>4, <2>1, <2>2, NewJob, Ended
<1>5. CASE t \notin teams
    <2>1. UNCHANGED queue /\ run' = [run EXCEPT !.pc = "members", !.left = Roster[t]]
        BY <1>1, <1>5 DEF InsertTeam
    <2>2. Roster[t] \in Seq(Player)
        BY <1>3, RGLAssumption
    <2>3. /\ run' \in RunState /\ run'.pc = "members" /\ run'.left = Roster[t]
          /\ run'.job = run.job
        BY <1>2, <2>1, <2>2 DEF RunState
    <2>4. Types'
        <3>1. TypeOK'
            BY <1>2, <1>3, <2>1, <2>3 DEF IInv, Types, TypeOK, RunState
        <3>2. QED
            BY <1>1, <1>2, <2>1, <2>3, <3>1 DEF IInv, Types, RunShape
    <2>5. Ordered' /\ FromStart'
        BY <1>1, <1>2, <2>1, <2>3
           DEF IInv, FromStart, Ordered, Walked, TeamsAhead, MatchesFindTeams, Waits
    <2>6. RostersWhole'
        <3>1. \A i \in DOMAIN Roster[t] : Roster[t][i] \in ToSet(run'.left)
            BY <2>3 DEF ToSet
        <3>2. QED
            BY <1>1, <1>2, <2>3, <3>1 DEF IInv, RostersWhole
    <2>7. QED
        BY <2>4, <2>5, <2>6 DEF IInv
<1>6. QED
    BY <1>4, <1>5

LEMMA InsertMemberIInv == ASSUME IInv, InsertMember PROVE IInv'
<1>1. PICK t, p : t = run.job.id /\ p = Head(run.left)
    OBVIOUS
<1>2. /\ run.pc = "members" /\ run.left # <<>> /\ run' = [run EXCEPT !.left = Tail(@)]
      /\ UNCHANGED <<listed, limited, seasons, teams, matches, queue>>
      /\ \/ members' = members \union {[team |-> t, player |-> p]} /\ UNCHANGED <<cut, faults>>
         \/ Fault /\ cut' = cut \union {t} /\ UNCHANGED members
      /\ run \in RunState /\ run.job \in Jobs /\ run.job.kind = "team" /\ t \in teams
    BY <1>1 DEF InsertMember, rgl, IInv, Types, RunShape
<1>3. t \in Team
    BY <1>2 DEF IInv, Types, TypeOK
<1>4. /\ p \in Player /\ Tail(run.left) \in Seq(Player)
      /\ \A x \in ToSet(run.left) : x = p \/ x \in ToSet(Tail(run.left))
    <2>1. PICK left : left = run.left
        OBVIOUS
    <2>2. left \in Seq(Player) /\ left # <<>>
        BY <1>2, <2>1 DEF RunState
    <2>3. /\ Head(left) \in Player /\ Tail(left) \in Seq(Player)
          /\ Len(Tail(left)) = Len(left) - 1
          /\ \A i \in 1..Len(Tail(left)) : Tail(left)[i] = left[i + 1]
        BY <2>2, HeadTailProperties
    <2>4. Head(left) = left[1] /\ DOMAIN left = 1..Len(left) /\ Len(left) \in Nat
        BY <2>2, LenProperties
    <2>5. DOMAIN Tail(left) = 1..Len(left) - 1
        BY <2>3, LenProperties
    <2>6. ASSUME NEW i \in DOMAIN left, i # 1 PROVE left[i] \in ToSet(Tail(left))
        <3>1. PICK h : h = i - 1
            OBVIOUS
        <3>2. h \in 1..Len(left) - 1 /\ h + 1 = i
            BY <2>4, <2>6, <3>1
        <3>3. Tail(left)[h] = left[i]
            BY <2>3, <3>2
        <3>4. QED
            BY <2>5, <3>2, <3>3 DEF ToSet
    <2>7. QED
        BY <1>1, <2>1, <2>3, <2>4, <2>6 DEF ToSet
<1>5. /\ run' \in RunState /\ run'.left = Tail(run.left) /\ run'.pc = "members"
      /\ run'.job = run.job
    BY <1>2, <1>4 DEF RunState
<1>6. /\ members' \subseteq [team : teams', player : Player] /\ cut' \subseteq Team
      /\ members \subseteq members' /\ cut \subseteq cut'
    BY <1>2, <1>3, <1>4 DEF IInv, Types, TypeOK
<1>7. Ordered' /\ faults' \in 0..MaxFaults
    <2>1. CASE Fault
        BY <2>1, Faulty
    <2>2. CASE UNCHANGED faults
        BY <1>2, <1>5, <2>2
           DEF IInv, Types, TypeOK, Ordered, Walked, TeamsAhead, MatchesFindTeams, Waits
    <2>3. QED
        BY <1>2, <2>1, <2>2
<1>8. Types'
    <2>1. TypeOK'
        BY <1>2, <1>5, <1>6, <1>7 DEF IInv, Types, TypeOK, RunState
    <2>2. QED
        BY <1>2, <1>5, <2>1 DEF IInv, Types, RunShape
<1>9. RostersWhole'
    <2> SUFFICES ASSUME NEW u \in teams \ cut', NEW i \in DOMAIN Roster[u]
                 PROVE  \/ [team |-> u, player |-> Roster[u][i]] \in members'
                        \/ t = u /\ Roster[u][i] \in ToSet(Tail(run.left))
        BY <1>1, <1>2, <1>5 DEF RostersWhole
    <2>1. \/ [team |-> u, player |-> Roster[u][i]] \in members
          \/ t = u /\ Roster[u][i] \in ToSet(run.left)
        BY <1>1, <1>6 DEF IInv, RostersWhole
    <2>2. CASE t = u /\ Roster[u][i] = p
        BY <1>2, <2>2
    <2>3. QED
        BY <1>4, <1>6, <2>1, <2>2
<1>10. QED
    BY <1>2, <1>7, <1>8, <1>9 DEF IInv, FromStart

\* A job that failed waits behind all others, to start again, or is gone.
LEMMA ErrorIInv ==
    ASSUME IInv, run # Nothing, Error,
           UNCHANGED <<listed, limited, seasons, teams, members, matches>>,
           cut \subseteq cut', cut' \subseteq Team, faults' \in 0..MaxFaults,
           run.pc = "members" => run.left = <<>> \/ run.job.id \in cut',
           (faults' = faults /\ run.pc # "team") \/ faults' # 0
    PROVE  IInv'
<1>1. PICK j : j = run.job
    OBVIOUS
<1>2. PICK again : again = [j EXCEPT !.id = IF j.kind = "season" THEN 1 ELSE @,
                                     !.attempts = @ - 1]
    OBVIOUS
<1>3. run' = Nothing /\ queue' = IF again.attempts > 0 THEN Append(queue, again) ELSE queue
    BY <1>1, <1>2 DEF Error
<1>4. j \in Jobs /\ (j.kind = "match" => run.pc = "match")
    BY <1>1 DEF IInv, Types, TypeOK, RunShape
<1>5. /\ again.kind = j.kind /\ (again.kind = "season" => again.id = 1)
      /\ (again.kind = "match" => again.id = j.id)
      /\ (again.attempts > 0 => again \in Jobs)
    <2>1. CASE j \in [kind : {"season"}, id : Nat, attempts : 1..MaxAttempts]
        <3>1. again = [j EXCEPT !.id = 1, !.attempts = @ - 1]
            BY <1>2, <2>1
        <3>2. j.attempts - 1 > 0 => j.attempts - 1 \in 1..MaxAttempts
            BY <2>1, BoundAssumption
        <3>3. QED
            BY <2>1, <3>1, <3>2 DEF Jobs
    <2>2. CASE j \notin [kind : {"season"}, id : Nat, attempts : 1..MaxAttempts]
        <3>1. \/ j \in [kind : {"team"}, id : Team, attempts : 1..MaxAttempts]
              \/ j \in [kind : {"match"}, id : Match, attempts : 1..MaxAttempts]
            BY <1>4, <2>2 DEF Jobs
        <3>2. again = [j EXCEPT !.attempts = @ - 1] /\ j.kind # "season"
            BY <1>2, <3>1
        <3>3. j.attempts - 1 > 0 => j.attempts - 1 \in 1..MaxAttempts
            BY <3>1, BoundAssumption
        <3>4. QED
            BY <3>1, <3>2, <3>3 DEF Jobs
    <2>3. QED
        BY <2>1, <2>2
<1>6. limited' \in BOOLEAN /\ matches' \subseteq Match
    BY DEF IInv, Types, TypeOK
<1>7. faults' = 0 /\ again.kind = "match" => PlayedBy[again.id] \subseteq teams
    BY <1>1, <1>4, <1>5 DEF IInv, Ordered, MatchesFindTeams
<1>8. CASE again.attempts > 0
    BY <1>1, <1>3, <1>5, <1>6, <1>7, <1>8, Ended
<1>9. CASE ~(again.attempts > 0)
    BY <1>1, <1>3, <1>6, <1>9, NewJob, Ended
<1>10. QED
    BY <1>8, <1>9

LEMMA EnqueueNothingIInv == ASSUME IInv, EnqueueNothing PROVE IInv'
<1>1. /\ run.pc = "enqueue" /\ run # Nothing /\ Error
      /\ UNCHANGED <<listed, limited, seasons, teams, members, matches, cut, faults>>
    BY DEF EnqueueNothing, Nothing, rgl, tables
<1>2. faults \in 0..MaxFaults /\ cut \subseteq Team
    BY DEF IInv, Types, TypeOK
<1>3. QED
    BY <1>1, <1>2, ErrorIInv

LEMMA InsertMatchIInv == ASSUME IInv, InsertMatch PROVE IInv'
<1>1. PICK j : j = run.job
    OBVIOUS
<1>2. /\ run.pc = "match" /\ UNCHANGED <<listed, limited, seasons, teams, members, cut, faults>>
      /\ \/ matches' = matches \union {j.id} /\ run' = Nothing /\ UNCHANGED queue
         \/ Error /\ UNCHANGED matches
      /\ j \in Jobs /\ j.kind = "match"
    BY <1>1 DEF InsertMatch, Done, rgl, IInv, Types, RunShape
<1>3. j \in [kind : {"match"}, id : Match, attempts : 1..MaxAttempts]
    BY <1>2 DEF Jobs
<1>4. faults \in 0..MaxFaults /\ cut \subseteq Team /\ limited \in BOOLEAN /\ matches \subseteq Match
    BY DEF IInv, Types, TypeOK
<1>5. CASE matches' = matches \union {j.id} /\ run' = Nothing /\ UNCHANGED queue
    <2>1. matches' \subseteq Match
        BY <1>3, <1>4, <1>5
    <2>2. QED
        BY <1>2, <1>4, <1>5, <2>1, NewJob, Ended
<1>6. CASE Error /\ UNCHANGED matches
    <2>1. run # Nothing
        BY <1>2 DEF Nothing
    <2>2. QED
        BY <1>2, <1>4, <1>6, <2>1, ErrorIInv
<1>7. QED
    BY <1>2, <1>5, <1>6

LEMMA FailIInv == ASSUME IInv, Fail PROVE IInv'
<1>1. /\ run # Nothing /\ Fault /\ Error
      /\ cut' = IF run.pc = "members" /\ run.left # <<>> THEN cut \union {run.job.id} ELSE cut
      /\ UNCHANGED <<listed, limited, seasons, teams, members, matches>>
    BY DEF Fail, Idle, rgl, tables
<1>2. run.pc = "members" => run.job.id \in Team
    BY <1>1 DEF IInv, Types, TypeOK, RunShape
<1>3. /\ cut \subseteq cut' /\ cut' \subseteq Team
      /\ (run.pc = "members" => run.left = <<>> \/ run.job.id \in cut')
    BY <1>1, <1>2 DEF IInv, Types, TypeOK
<1>4. faults' \in 0..MaxFaults /\ faults' # 0
    <2>1. faults \in 0..MaxFaults
        BY DEF IInv, Types, TypeOK
    <2>2. QED
        BY <1>1, <2>1, Faulty DEF Fault
<1>5. QED
    BY <1>1, <1>3, <1>4, ErrorIInv

LEMMA NextIInv == ASSUME IInv, [Next]_vars PROVE IInv'
<1>1. ASSUME Step PROVE IInv'
    BY <1>1, TakeIInv, UpdateSeasonIInv, SkipSeasonIInv, EnqueueSeasonIInv, EnqueueNothingIInv,
       SeasonsDoneIInv, InsertTeamIInv, InsertMemberIInv, InsertMatchIInv DEF Step
<1>2. ASSUME Limit \/ Relent PROVE IInv'
    BY <1>2, LimitIInv DEF Limit, Relent, tables
<1>3. ASSUME UNCHANGED vars PROVE IInv'
    <2>1. UNCHANGED <<listed, tables, queue, run, cut, faults>> /\ UNCHANGED limited
        BY <1>3 DEF vars, tables
    <2>2. limited \in BOOLEAN
        BY DEF IInv, Types, TypeOK
    <2>3. QED
        BY <2>1, <2>2, LimitIInv
<1>4. QED
    BY <1>1, <1>2, <1>3, PeriodIInv, SkipSeasonIInv, SeasonTimeoutIInv, FailIInv, AnnounceIInv
       DEF Next

LEMMA Inductive == Spec => []IInv
<1>1. Init => IInv
    BY InitIInv
<1>2. IInv /\ [Next]_vars => IInv'
    BY NextIInv
<1>3. QED
    BY <1>1, <1>2, PTL DEF Spec

----------------------------------------------------------------------------
(* What the import keeps, whatever is imported and whatever fails. *)

\* No step leaves the tables, the queue or the running job outside their types: a
\* season's row never lists more matches than RGL does, a member's team is stored.
THEOREM TypeCorrect == Spec => []TypeOK
<1>1. IInv => TypeOK
    BY DEF IInv, Types
<1>2. QED
    BY <1>1, Inductive, PTL

\* As long as nothing fails, a match finds its teams in rgl_team: the walk enqueues a
\* season's teams before its matches, and has been by every earlier season
\* (jobs_rgl.go:81-90).
THEOREM TeamsComeFirst == Spec => []MatchesFindTeams
<1>1. IInv => MatchesFindTeams
    BY DEF IInv, Ordered
<1>2. QED
    BY <1>1, Inductive, PTL

\* A team whose job has ended has all its members, unless a fault came between its
\* row and the last of them (jobs_rgl.go, RGLTeamWorker).
THEOREM RostersLostToFaultsOnly == Spec => []RosterLostToFaultsOnly
<1>1. IInv => RosterLostToFaultsOnly
    <2> SUFFICES ASSUME IInv, NEW t \in teams \ cut, ~(run.job.kind = "team" /\ run.job.id = t),
                        NEW i \in DOMAIN Roster[t]
                 PROVE  [team |-> t, player |-> Roster[t][i]] \in members
        BY DEF RosterLostToFaultsOnly
    <2>1. ~(run.pc = "members" /\ run.job.id = t)
        BY DEF IInv, Types, RunShape
    <2>2. QED
        BY <2>1 DEF IInv, RostersWhole
<1>2. QED
    BY <1>1, Inductive, PTL
=============================================================================
