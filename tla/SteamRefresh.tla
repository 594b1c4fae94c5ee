---------------------------- MODULE SteamRefresh ----------------------------
(***************************************************************************)
(* The refresh of Steam profiles (src/jobs_steam.go): every two minutes a  *)
(* summary job takes the newest of the expired profiles, saves what Steam  *)
(* says of them and enqueues a job for their bans and one for the games of *)
(* each. What is expired is read off player.updated_on, which the summary  *)
(* and the ban job set when they save a profile (the update branch of      *)
(* playerRecordSave, src/store.go): it is all the program remembers.       *)
(*                                                                         *)
(* The queue has one worker, so nothing else updates a profile. River      *)
(* (external) hands out jobs in the order they are due, runs a job that    *)
(* failed again behind those that wait, and discards it after MaxAttempts. *)
(* A summary job has ten seconds; when they are over, all that is left of  *)
(* it fails: that is Fail.                                                 *)
(*                                                                         *)
(* Left out: the other columns of a profile; the tables of the games job;  *)
(* the server job of the same queue; the limiter, which lets a request     *)
(* through even when its wait fails.                                       *)
(***************************************************************************)
EXTENDS Naturals, Sequences, FiniteSets, SequencesExt

CONSTANTS
    Sid,         \* steam ids
    Known,       \* those Steam answers for
    BatchSize,   \* profiles in a summary job (maxQueuedCount)
    MaxAttempts, \* attempts River gives a job
    MaxQueue,    \* bound: jobs that wait when a period begins
    MaxExpiries, \* bound: profiles that pass 24 hours
    MaxFaults    \* bound: requests and statements that fail, crashes

ASSUME KnownAssumption == Known \subseteq Sid
ASSUME BatchAssumption == BatchSize \in Nat \ {0} /\ MaxAttempts \in Nat \ {0}
ASSUME BoundAssumption == {MaxExpiries, MaxFaults} \subseteq Nat

VARIABLES
    order,      \* the rows of table player, by updated_on, newest first
    fresh,      \* how many of them were updated in the last 24 hours
    queue,      \* waiting jobs: [kind, ids, attempts] in the order they are due
    run,        \* the running job: [job, pc, left]
    due,        \* history: due[k]: saved profiles not looked up by a k job since
    cut,        \* history: cut[k]: those of them a fault cost their k job
    current,    \* history: profiles whose summary was saved after they expired
    excused,    \* history: profiles that may look fresh without
    expiries, faults

rows    == <<order, fresh>>
history == <<due, cut, current, excused>>
vars    == <<rows, queue, run, history, expiries, faults>>

FollowUp == {"bans", "games"}

Job(kind, ids) == [kind |-> kind, ids |-> ids, attempts |-> MaxAttempts]

Nothing == [job |-> Job("none", {}), pc |-> "idle", left |-> {}]

Idle == run = Nothing

TypeOK ==
    /\ IsInjective(order)
    /\ ToSet(order) \subseteq Sid
    /\ fresh \in 0..Len(order)
    /\ \A i \in DOMAIN queue :
        /\ queue[i].kind \in {"summary"} \union FollowUp
        /\ queue[i].ids \subseteq ToSet(order)
        /\ queue[i].attempts \in 1..MaxAttempts
    /\ run.pc \in {"idle", "summary", "save", "enqueue games"} \union FollowUp
    /\ run.left \subseteq run.job.ids
    /\ run.job.ids \subseteq ToSet(order)
    /\ {due, cut} \subseteq [FollowUp -> SUBSET Sid]
    /\ current \union excused \subseteq Sid
    /\ expiries \in 0..MaxExpiries
    /\ faults \in 0..MaxFaults

Init ==
    /\ order = <<>>
    /\ fresh = 0
    /\ queue = <<>>
    /\ run = Nothing
    /\ due = [k \in FollowUp |-> {}]
    /\ cut = [k \in FollowUp |-> {}]
    /\ current = {}
    /\ excused = {}
    /\ expiries = 0
    /\ faults = 0

Fault ==
    /\ faults < MaxFaults
    /\ faults' = faults + 1

NoFault == UNCHANGED faults

----------------------------------------------------------------------------
(* Table player. *)

Fresh(s) == \E i \in 1..fresh : order[i] = s

\* An importer meets a new player: newPlayerRecord has the time of now, the record
\* of logsTFMatchCreate the zero time, which is the oldest of all.
AddPlayer(s) ==
    /\ s \notin ToSet(order)
    /\ \/ order' = <<s>> \o order /\ fresh' = fresh + 1 /\ excused' = excused \union {s}
       \/ order' = Append(order, s) /\ UNCHANGED <<fresh, excused>>
    /\ UNCHANGED <<queue, run, due, cut, current, expiries, faults>>

\* Mutant: the row is not found and inserted again.
RefreshTwice(s) ==
    /\ order' = <<s>> \o order
    /\ fresh' = fresh + 1

\* UPDATE player with updated_on = now.
Refresh(s) ==
    /\ \E i \in DOMAIN order : order[i] = s /\ order' = <<s>> \o RemoveAt(order, i)
    /\ fresh' = IF Fresh(s) THEN fresh ELSE fresh + 1

\* Mutant: an off-by-one in the limit.
BatchButOne ==
    {order[i] : i \in {j \in DOMAIN order : fresh < j /\ j < fresh + BatchSize}}

\* playerGetExpiredProfiles: "order by updated_on desc limit 100".
Batch ==
    {order[i] : i \in {j \in DOMAIN order : fresh < j /\ j <= fresh + BatchSize}}

\* A summary or ban job that is under way will set s's updated_on.
WillTouch(s) ==
    \/ run.job.kind \in {"summary", "bans"} /\ s \in run.job.ids
    \/ \E i \in DOMAIN queue : queue[i].kind = "bans" /\ s \in queue[i].ids

\* The oldest of the fresh profiles has become 24 hours old.
Expire ==
    /\ fresh > 0
    /\ expiries < MaxExpiries
    /\ expiries' = expiries + 1
    /\ fresh' = fresh - 1
    /\ current' = current \ {order[fresh]}
    /\ excused' = IF WillTouch(order[fresh]) THEN excused \union {order[fresh]}
                                            ELSE excused \ {order[fresh]}
    /\ UNCHANGED <<order, queue, run, due, cut, faults>>

----------------------------------------------------------------------------
(* The queue. *)

\* The periodic job is not unique. Bound: none comes when MaxQueue jobs wait.
Period ==
    /\ Len(queue) < MaxQueue
    /\ queue' = Append(queue, Job("summary", {}))
    /\ UNCHANGED <<rows, run, history, expiries, faults>>

\* A ban job asks Steam first; the bans of those it knows are left to save.
Take ==
    /\ Idle
    /\ queue # <<>>
    /\ LET j == Head(queue) IN
       run' = [job |-> j, pc |-> j.kind, left |-> IF j.kind = "bans" THEN j.ids \intersect Known
                                                                    ELSE {}]
    /\ queue' = Tail(queue)
    /\ UNCHANGED <<rows, history, expiries, faults>>

Done == run' = Nothing

At(pc) == run.pc = pc

\* Profiles whose k job is lost when the running job gives up: a summary job's, as
\* its next attempt does not find the saved ones expired; another's with its last.
Lost(k) ==
    IF run.job.kind = "summary"
    THEN IF At("save") \/ (At("enqueue games") /\ k = "games")
         THEN (run.job.ids \ run.left) \intersect Known ELSE {}
    ELSE IF run.job.kind = k /\ run.job.attempts = 1 THEN run.job.ids ELSE {}

\* Work returns an error, or its time is up, or the process dies.
Fail ==
    /\ ~Idle
    /\ Fault
    /\ cut' = [k \in FollowUp |-> cut[k] \union Lost(k)]
    /\ LET again == [run.job EXCEPT !.attempts = @ - 1,
                                    !.ids = IF run.job.kind = "summary" THEN {} ELSE @] IN
       queue' = IF again.attempts > 0 THEN Append(queue, again) ELSE queue
    /\ Done
    /\ UNCHANGED <<rows, due, current, excused, expiries>>

----------------------------------------------------------------------------
(* SteamSummaryWorker. *)

\* The query ignores rows.Err: a broken connection shortens its result.
ReadExpired ==
    /\ At("summary")
    /\ \E ids \in SUBSET Batch :
        /\ IF ids = Batch THEN NoFault ELSE Fault
        /\ run' = IF ids = {} THEN Nothing
                  ELSE [run EXCEPT !.job.ids = ids, !.left = ids, !.pc = "save"]
    /\ UNCHANGED <<rows, queue, history, expiries>>

\* Mutant: updated_on is set whether there is a summary or not.
SaveProfileAnyway ==
    /\ At("save")
    /\ \E s \in run.left :
        /\ run' = [run EXCEPT !.left = @ \ {s}]
        /\ Refresh(s)
        /\ IF s \in Known
           THEN /\ current' = current \union {s}
                /\ due' = [k \in FollowUp |-> due[k] \union {s}]
                /\ cut' = [k \in FollowUp |-> cut[k] \ {s}]
           ELSE UNCHANGED <<current, due, cut>>
    /\ UNCHANGED <<queue, excused, expiries, faults>>

\* Profiles Steam does not answer for are saved as they were read. An error of
\* the save is logged only. In any order: the table's is arbitrary among equals.
SaveProfile ==
    /\ At("save")
    /\ \E s \in run.left :
        /\ run' = [run EXCEPT !.left = @ \ {s}]
        /\ \/ /\ s \in Known
              /\ Refresh(s)
              /\ current' = current \union {s}
              /\ due' = [k \in FollowUp |-> due[k] \union {s}]
              /\ cut' = [k \in FollowUp |-> cut[k] \ {s}]
              /\ UNCHANGED excused /\ NoFault
           \/ /\ s \notin Known
              /\ UNCHANGED <<rows, history>> /\ NoFault
           \/ /\ Fault
              /\ excused' = excused \union {s}
              /\ UNCHANGED <<rows, due, cut, current>>
    /\ UNCHANGED <<queue, expiries>>

\* Mutant: the ids are read again after the saves.
EnqueueBansOfExpired ==
    /\ At("save")
    /\ run.left = {}
    /\ queue' = Append(queue, Job("bans", Batch))
    /\ run' = [run EXCEPT !.pc = "enqueue games"]
    /\ UNCHANGED <<rows, history, expiries, faults>>

\* insertJobTx.
EnqueueBans ==
    /\ At("save")
    /\ run.left = {}
    /\ queue' = Append(queue, Job("bans", run.job.ids))
    /\ run' = [run EXCEPT !.pc = "enqueue games"]
    /\ UNCHANGED <<rows, history, expiries, faults>>

\* insertJobsTx: all of them or none. In any order, as above.
EnqueueGames ==
    /\ At("enqueue games")
    /\ \E ids \in Bijection(1..Cardinality(run.job.ids), run.job.ids) :
        queue' = queue \o [i \in DOMAIN ids |-> Job("games", {ids[i]})]
    /\ Done
    /\ UNCHANGED <<rows, history, expiries, faults>>

----------------------------------------------------------------------------
(* SteamBanWorker and SteamGamesWorker. *)

\* An error of the SELECT skips the player; one of the save is Fail.
CheckBans ==
    /\ At("bans")
    /\ \E s \in run.left :
        /\ run' = [run EXCEPT !.left = @ \ {s}]
        /\ \/ Refresh(s) /\ due' = [due EXCEPT !["bans"] = @ \ {s}] /\ UNCHANGED cut /\ NoFault
           \/ Fault /\ cut' = [cut EXCEPT !["bans"] = @ \union {s}] /\ UNCHANGED <<rows, due>>
    /\ UNCHANGED <<queue, current, excused, expiries>>

BansDone ==
    /\ At("bans")
    /\ run.left = {}
    /\ Done
    /\ UNCHANGED <<rows, queue, history, expiries, faults>>

\* Mutant: a library that is private puts its job off (river.JobSnooze).
UpdateGamesOrSnooze ==
    /\ At("games")
    /\ queue' = Append(queue, run.job)
    /\ Done
    /\ UNCHANGED <<rows, history, expiries, faults>>

UpdateGames ==
    /\ At("games")
    /\ due' = [due EXCEPT !["games"] = @ \ run.job.ids]
    /\ Done
    /\ UNCHANGED <<rows, queue, cut, current, excused, expiries, faults>>

----------------------------------------------------------------------------

Step ==
    \/ Take
    \/ ReadExpired
    \/ SaveProfile
    \/ EnqueueBans
    \/ EnqueueGames
    \/ CheckBans
    \/ BansDone
    \/ UpdateGames

Next ==
    \/ \E s \in Sid : AddPlayer(s)
    \/ Expire
    \/ Period
    \/ Step
    \/ Fail

\* The worker goes on as long as there are jobs; a period begins again and again.
Fairness == WF_vars(Step) /\ WF_vars(Period)

Spec == Init /\ [][Next]_vars /\ Fairness

----------------------------------------------------------------------------
(* What makes the refresh right. *)

\* The ids of the k jobs that wait or run.
Pending(k) ==
    UNION ({queue[i].ids : i \in {j \in DOMAIN queue : queue[j].kind = k}}
           \union {IF run.job.kind = k THEN run.job.ids ELSE {}})

\* A profile that was saved has its follow-up jobs, until they have looked it up,
\* or the summary job is about to enqueue them - unless a fault came between: then
\* no retry makes up for it, because the profile is not expired any more
\* (jobs_steam.go:78-106).
FollowUpsLostToFaultsOnly ==
    \A k \in FollowUp : \A s \in due[k] \ cut[k] :
        s \in Pending(k) \/ (run.job.kind = "summary" /\ s \in run.job.ids)

\* updated_on does not lie: a profile that looks fresh has had its summary saved
\* since it expired last. The exceptions: a new player; a save that failed, or a
\* profile that expired while its ban job was waiting - the ban job sets updated_on
\* too (store.go:165), and hides for a day that the summary is missing.
FreshMeansSummarised ==
    \A s \in Sid : Fresh(s) => s \in current \union excused

\* Unknown profiles keep their updated_on and are read again by every job. With
\* fewer of them than a batch holds, each profile Steam knows is refreshed in the
\* end; with more, those that are older than they are may wait for ever.
EventuallyFresh ==
    \/ <>[](\A s \in ToSet(order) \intersect Known : Fresh(s))
    \/ <>[](Cardinality(ToSet(order) \ Known) >= BatchSize)

\* Whatever the summary jobs of the next periods add to the queue, follow-up jobs
\* get their turn: a saved profile is looked up, or a fault has cost it its job.
FollowUpsRun ==
    \A s \in Sid, k \in FollowUp :
        s \in due[k] ~> (s \notin due[k] \/ s \in cut[k])
=============================================================================
