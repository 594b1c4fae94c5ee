------------------------------- MODULE LogsTF -------------------------------
(***************************************************************************)
(* The logs.tf scraper (src/logstf.go, src/jobs_logstf.go): each hour a    *)
(* job reads the newest log id off the site's index and requests every log *)
(* between the newest one that is stored and that; the collector's threads *)
(* parse and store them side by side.                                      *)
(*                                                                         *)
(* The collector (colly, external) is given a CacheDir (src/scraper.go):   *)
(* what the site answers is kept on disk and stands for the page ever      *)
(* after, the index and the answer 429 (rate limited) included; answers    *)
(* above 499 are not kept. The list of retried ids is shared by the        *)
(* threads without a lock, so that an append may be lost to another.       *)
(*                                                                         *)
(* Left out: parsing (Parsable are the logs that have the extended stats), *)
(* the tables below logstf, filled in the same transaction, the counters.  *)
(***************************************************************************)
EXTENDS Naturals, FiniteSetsExt

CONSTANTS
    Thread,     \* threads of the collector's queue
    MaxLog,     \* bound: ids of logs are in 1..MaxLog
    Parsable,   \* logs that have all the scraper needs
    Player,
    Players,    \* Players[i]: who played in log i
    MaxFaults   \* bound: requests and statements that fail, time limits, crashes

Log == 1..MaxLog

Index == 0  \* the start page

ASSUME LogAssumption == MaxLog \in Nat \ {0} /\ Parsable \subseteq Log
ASSUME FaultsAssumption == MaxFaults \in Nat
ASSUME PlayersAssumption == Players \in [Log -> SUBSET Player]

VARIABLES
    published,  \* the newest log of the site
    index,      \* the newest log of the cached index, or 0
    page,       \* page[i]: what is cached of a log, or of the Index
    stored,     \* table logstf
    player,     \* table player
    job,        \* [pc, next, last, late]: logs next..last wait in the queue
    thread,     \* thread[t]: [pc, log, left, read]: left: players not seen to yet,
                \* read: the retries, or the player, as the thread last read them
    retries,    \* the ids that were retried
    lost,       \* history: logs that a run dealt with without storing them
    faults

site == <<index, page>>
db   == <<stored, player>>
vars == <<published, site, db, job, thread, retries, lost, faults>>

NoJob  == [pc |-> "idle", next |-> 1, last |-> 0, late |-> FALSE]
Resting == [pc |-> "idle", log |-> 1, left |-> {}, read |-> {}]

TypeOK ==
    /\ published \in Log
    /\ index \in 0..published
    /\ page \in [Log \union {Index} -> {"none", "html", "limited"}]
    /\ index = 0 <=> page[Index] # "html"
    /\ stored \subseteq Parsable
    /\ player \subseteq UNION {Players[i] : i \in Log}
    /\ \A i \in stored : Players[i] \subseteq player
    /\ job.pc \in {"idle", "index", "run"}
    /\ job.next \in 1..MaxLog + 1
    /\ job.last < published
    /\ \A t \in Thread :
        /\ thread[t].pc \in {"idle", "get", "limited", "retry", "select", "insert"}
        /\ thread[t].pc = "insert" => thread[t].left # {}
        /\ thread[t].log \notin stored \/ thread[t] = Resting
    /\ retries \subseteq Log
    /\ lost \subseteq Log \ stored
    /\ faults \in 0..MaxFaults

Init ==
    /\ published \in Log
    /\ index = 0
    /\ page = [i \in Log \union {Index} |-> "none"]
    /\ stored = {}
    /\ player = {}
    /\ job = NoJob
    /\ thread = [t \in Thread |-> Resting]
    /\ retries = {}
    /\ lost = {}
    /\ faults = 0

Fault ==
    /\ faults < MaxFaults
    /\ faults' = faults + 1

NoFault == UNCHANGED faults

At(t, pc) == thread[t].pc = pc

Goto(t, pc) == thread' = [thread EXCEPT ![t].pc = pc]

Rest(t) == thread' = [thread EXCEPT ![t] = Resting]

Quiet == \A t \in Thread : At(t, "idle")

\* The logs that wait or are under way.
Pending == (job.next..job.last) \union {thread[t].log : t \in {u \in Thread : ~At(u, "idle")}}

----------------------------------------------------------------------------
(* The run. *)

\* Mutant: the newest id is asked for and not used.
StartAtFirst ==
    /\ job.pc = "idle"
    /\ job' = [NoJob EXCEPT !.pc = "index", !.next = 2]
    /\ retries' = {}
    /\ UNCHANGED <<published, site, db, thread, lost, faults>>

\* Mutant: the log behind the newest is taken for stored.
StartBehind ==
    /\ job.pc = "idle"
    /\ job' = [NoJob EXCEPT !.pc = "index", !.next = Max(stored \union {1}) + 2]
    /\ retries' = {}
    /\ UNCHANGED <<published, site, db, thread, lost, faults>>

\* NewLogsTFScraper and logsTFNewestID: "coalesce(max(log_id), 1)". The queue has
\* one worker. An error of the query is a run that has not begun yet.
Start ==
    /\ job.pc = "idle"
    /\ job' = [NoJob EXCEPT !.pc = "index", !.next = Max(stored \union {1}) + 1]
    /\ retries' = {}
    /\ UNCHANGED <<published, site, db, thread, lost, faults>>

\* Mutant: an off-by-one in the range.
LastShort(newest) == newest - 2

\* "for i := range maxID": the newest log itself is left for another run.
Last(newest) == newest - 1

\* The process dies: the queue in memory is lost.
Stop ==
    /\ job' = NoJob
    /\ thread' = [t \in Thread |-> Resting]
    /\ retries' = {}
    /\ lost' = lost \union (Pending \ stored)

\* The index, from the cache or from the site. A request that fails leaves the
\* run without a log. On 429 OnError panics, as the path of the index is not an id.
ReadIndex ==
    /\ job.pc = "index"
    /\ \/ /\ page[Index] = "html"
          /\ job' = [job EXCEPT !.pc = "run", !.last = Last(index)]
          /\ UNCHANGED <<site, thread, retries, lost>> /\ NoFault
       \/ /\ page[Index] = "none"
          /\ index' = published
          /\ page' = [page EXCEPT ![Index] = "html"]
          /\ job' = [job EXCEPT !.pc = "run", !.last = Last(published)]
          /\ UNCHANGED <<thread, retries, lost>> /\ NoFault
       \/ /\ page[Index] = "none"
          /\ job' = NoJob
          /\ UNCHANGED <<site, thread, retries, lost>> /\ Fault
       \/ /\ page[Index] \in {"none", "limited"}
          /\ IF page[Index] = "none" THEN Fault ELSE NoFault
          /\ page' = [page EXCEPT ![Index] = "limited"]
          /\ Stop
          /\ UNCHANGED index
    /\ UNCHANGED <<published, db>>

\* The job's six hours are over, which the collector is not told: the requests go
\* on, and every statement fails from now on. The job will report success.
TimeOut ==
    /\ job.pc # "idle"
    /\ ~job.late
    /\ Fault
    /\ job' = [job EXCEPT !.late = TRUE]
    /\ UNCHANGED <<published, site, db, thread, retries, lost>>

\* queue.Run returns.
Finish ==
    /\ job.pc = "run"
    /\ job.next > job.last
    /\ Quiet
    /\ job' = NoJob
    /\ UNCHANGED <<published, site, db, thread, retries, lost, faults>>

Crash ==
    /\ job.pc # "idle"
    /\ Fault
    /\ Stop
    /\ UNCHANGED <<published, site, db>>

Publish ==
    /\ published < MaxLog
    /\ published' = published + 1
    /\ UNCHANGED <<site, db, job, thread, retries, lost, faults>>

----------------------------------------------------------------------------
(* A thread of the queue. *)

Take(t) ==
    /\ job.pc = "run"
    /\ At(t, "idle")
    /\ job.next <= job.last
    /\ thread' = [thread EXCEPT ![t] = [Resting EXCEPT !.pc = "get", !.log = job.next]]
    /\ job' = [job EXCEPT !.next = @ + 1]
    /\ UNCHANGED <<published, site, db, retries, lost, faults>>

\* The thread is done with its log, which is not stored.
GiveUp(t) ==
    /\ Rest(t)
    /\ lost' = lost \union {thread[t].log}

\* OnHTML, up to the first player.
Parse(t) ==
    IF thread[t].log \in Parsable
    THEN /\ thread' = [thread EXCEPT ![t].pc = "select", ![t].left = Players[thread[t].log]]
         /\ UNCHANGED lost
    ELSE GiveUp(t)

\* A page from the cache or from the site; 429 and other errors go to OnError.
Get(t) ==
    LET i == thread[t].log IN
    /\ At(t, "get")
    /\ \/ page[i] = "html" /\ Parse(t) /\ UNCHANGED page /\ NoFault
       \/ page[i] = "none" /\ Parse(t) /\ page' = [page EXCEPT ![i] = "html"] /\ NoFault
       \/ page[i] = "none" /\ GiveUp(t) /\ UNCHANGED page /\ Fault
       \/ /\ page[i] \in {"none", "limited"}
          /\ IF page[i] = "none" THEN Fault ELSE NoFault
          /\ page' = [page EXCEPT ![i] = "limited"]
          /\ Goto(t, "limited")
          /\ UNCHANGED lost
    /\ UNCHANGED <<published, index, db, job, retries>>

\* OnError, after two seconds: a second 429 is the end. The append reads the slice.
CheckRetries(t) ==
    /\ At(t, "limited")
    /\ IF thread[t].log \in retries
       THEN GiveUp(t)
       ELSE /\ thread' = [thread EXCEPT ![t].pc = "retry", ![t].read = retries]
            /\ UNCHANGED lost
    /\ UNCHANGED <<published, site, db, job, retries, faults>>

\* Mutant: the id is recorded in a copy of the slice.
RetryUnrecorded(t) ==
    /\ At(t, "retry")
    /\ Goto(t, "get")
    /\ UNCHANGED <<published, site, db, job, retries, lost, faults>>

\* What the append stores is what it read and its own id; then the request again.
Retry(t) ==
    /\ At(t, "retry")
    /\ retries' = thread[t].read \union {thread[t].log}
    /\ thread' = [thread EXCEPT ![t].pc = "get", ![t].read = {}]
    /\ UNCHANGED <<published, site, db, job, lost, faults>>

\* A statement of logsTFMatchCreate fails: the error is logged.
Fail(t) ==
    /\ thread[t].pc \in {"select", "insert"}
    /\ GiveUp(t)
    /\ IF job.late THEN NoFault ELSE Fault
    /\ UNCHANGED <<published, site, db, job, retries>>

\* playerGetOrCreate of the next player.
Select(t) ==
    /\ At(t, "select")
    /\ ~job.late
    /\ \E p \in thread[t].left :
        thread' = IF p \in player THEN [thread EXCEPT ![t].left = @ \ {p}]
                                  ELSE [thread EXCEPT ![t].pc = "insert", ![t].read = {p}]
    /\ UNCHANGED <<published, site, db, job, retries, lost, faults>>

\* Mutant: success is not set after the commit, and an error returned.
InsertNoSuccess(t) ==
    /\ At(t, "insert")
    /\ ~job.late
    /\ GiveUp(t)
    /\ player' = player \union thread[t].read
    /\ UNCHANGED <<published, site, stored, job, retries, faults>>

\* ... who is new, unless another thread inserted him meanwhile: the unique
\* violation ends the match.
Insert(t) ==
    /\ At(t, "insert")
    /\ ~job.late
    /\ IF thread[t].read \subseteq player
       THEN GiveUp(t) /\ UNCHANGED player
       ELSE /\ player' = player \union thread[t].read
            /\ thread' = [thread EXCEPT ![t].pc = "select", ![t].left = @ \ thread[t].read,
                                        ![t].read = {}]
            /\ UNCHANGED lost
    /\ UNCHANGED <<published, site, stored, job, retries, faults>>

\* The match and all that is under it, in one transaction.
Store(t) ==
    /\ At(t, "select")
    /\ ~job.late
    /\ thread[t].left = {}
    /\ stored' = stored \union {thread[t].log}
    /\ lost' = lost \ {thread[t].log}
    /\ Rest(t)
    /\ UNCHANGED <<published, site, player, job, retries, faults>>

----------------------------------------------------------------------------

ThreadStep(t) ==
    \/ Take(t)
    \/ Get(t)
    \/ CheckRetries(t)
    \/ Retry(t)
    \/ Select(t)
    \/ Insert(t)
    \/ Store(t)
    \/ Fail(t)

Next ==
    \/ Start
    \/ ReadIndex
    \/ TimeOut
    \/ Finish
    \/ Crash
    \/ Publish
    \/ \E t \in Thread : ThreadStep(t)

\* The job comes each hour; the collector goes on until its queue is empty.
Fairness ==
    /\ WF_vars(Start) /\ WF_vars(ReadIndex) /\ WF_vars(Finish)
    /\ \A t \in Thread : WF_vars(ThreadStep(t))

Spec == Init /\ [][Next]_vars /\ Fairness

----------------------------------------------------------------------------
(* What makes the scraper right. *)

\* The next run begins behind the newest log that is stored (logstf.go:98). So a
\* log below it that is not stored is under way, or some run has dealt with it: its
\* page or a statement failed, the site limited it, another log's thread inserted
\* the same player first, or the process died with the log in its queue. No log is
\* passed over silently.
NoLogPassedOver ==
    \A i \in Parsable :
        1 < i /\ i < Max(stored \union {1}) => i \in stored \union Pending \union lost

Share(i, j) == Players[i] \intersect Players[j] # {}

\* Threads that store logs of the same new player run into each other, and the
\* loser's log is gone (store.go:1045). But no race has only losers: whatever logs
\* were lost without a fault, some log they share a player with is stored, under
\* way, or lost to yet another one.
RacesHaveWinners ==
    faults = 0 =>
        \A raced \in (SUBSET (lost \intersect Parsable)) \ {{}} :
            \E i \in raced, j \in (stored \union Pending \union lost) \ raced : Share(i, j)

\* A run comes to its end, whatever the threads do to the list of retries: an id
\* that is limited again is given up, even if its first record was lost.
RunsEnd == job.pc # "idle" ~> job.pc = "idle"

\* Every log between the first and the newest of the index is dealt with in the
\* end. The exception: an index that was limited once is so for ever, and with it
\* each run ends in a panic.
AllScraped ==
    <>[](\/ page[Index] = "limited"
         \/ /\ index > 0
            /\ \A i \in Parsable : 1 < i /\ i < index => i \in stored \union lost)
=============================================================================
