----------------------------- MODULE LeagueBans -----------------------------
(***************************************************************************)
(* The ban tables of the leagues: RGLBansWorker (src/jobs_rgl.go) with     *)
(* rglBansReplace, and updateETF2LBans (src/etf2l.go) with etf2lBansUpdate *)
(* (both src/store.go). A job downloads the league's list page by page,    *)
(* empties the table, makes sure of the players and inserts everything in  *)
(* one batch. Each league has a queue with one worker of its own, so       *)
(* downloads of one league do not overlap; the two leagues do not meet.    *)
(* A behaviour is about one of them.                                       *)
(*                                                                         *)
(* The list may change between two pages, and River runs a job that failed *)
(* again: both are in the model. A batch is one implicit transaction.      *)
(*                                                                         *)
(* The order of a table's rows is left out: nothing reads it.              *)
(***************************************************************************)
EXTENDS Naturals, Sequences, FiniteSets, SequencesExt

CONSTANTS
    League,     \* the leagues
    Keyed,      \* leagues with a unique index on steam id and start (etf2l)
    Sid,        \* valid steam ids
    Ban,        \* bans a league may list: [sid, at]
    PageSize,   \* bans in a page
    MaxBans,    \* bound: length of a league's list
    MaxChanges, \* bound: changes of the list
    MaxFaults   \* bound: statements and requests that fail, crashes

ASSUME KeyedAssumption == Keyed \subseteq League
ASSUME PageAssumption  == PageSize \in Nat \ {0}
ASSUME BoundAssumption == {MaxBans, MaxChanges, MaxFaults} \subseteq Nat

VARIABLES
    league,     \* the league this behaviour is about; never changes
    served,     \* the list the league publishes now
    table,      \* its table: how many rows each ban has
    players,    \* steam ids in table player
    job,        \* the league's job: [pc, offset, bans]; bans: what it has downloaded
    first,      \* history: what was served when the running download began
    moved,      \* history: how served changed since: "no", "grew", "shrank"
    origin,     \* history: first and moved of the download the table is from
    changes,    \* changes made so far
    faults      \* faults so far

vars == <<league, served, table, players, job, first, moved, origin, changes, faults>>

Lists == UNION {[1..n -> Ban] : n \in 0..MaxBans}

\* Bans of players who have a valid steam id. The others are skipped.
Valid == {b \in Ban : b.sid \in Sid}

\* How often each of them is on the list at one of the positions.
Tally(list, positions) == [b \in Valid |-> Cardinality({i \in positions : list[i] = b})]

Whole(list) == Tally(list, DOMAIN list)

NoBans == [b \in Valid |-> 0]

Plus(bans, more) == [b \in Valid |-> bans[b] + more[b]]

Some(bans) == {b \in Valid : bans[b] > 0}

\* The same ban twice.
Repeats(bans) == \E b \in Valid : bans[b] > 1

Idle == [pc |-> "idle", offset |-> 0, bans |-> NoBans]

Nothing == [first |-> <<>>, moved |-> "no"]

TypeOK ==
    /\ league \in League
    /\ served \in Lists
    /\ table \in [Valid -> Nat]
    /\ \A b \in Some(table) : b.sid \in players
    /\ league \in Keyed => ~Repeats(table)
    /\ players \subseteq Sid
    /\ job.pc \in {"idle", "fetch", "delete", "players", "batch"}
    /\ job.offset \in Nat
    /\ job.bans \in [Valid -> Nat]
    /\ first \in Lists
    /\ {moved, origin.moved} \subseteq {"no", "grew", "shrank"}
    /\ changes \in 0..MaxChanges
    /\ faults \in 0..MaxFaults

Init ==
    /\ league \in League
    /\ served \in Lists
    /\ table = NoBans
    /\ players = {}
    /\ job = Idle
    /\ first = <<>>
    /\ moved = "no"
    /\ origin = Nothing
    /\ changes = 0
    /\ faults = 0

----------------------------------------------------------------------------
(* The download. *)

Start ==
    /\ job = Idle
    /\ job' = [Idle EXCEPT !.pc = "fetch"]
    /\ first' = served
    /\ moved' = "no"
    /\ UNCHANGED <<league, served, table, players, origin, changes, faults>>

\* Mutant: the last ban of a full page is left out.
PageButLast(offset) ==
    {i \in DOMAIN served : offset < i /\ (i < offset + PageSize \/ i = Len(served))}

\* Positions of the list.
Page(offset) == {i \in DOMAIN served : offset < i /\ i <= offset + PageSize}

\* Mutant: a page without a valid steam id is taken for the end.
FetchPageToInvalid ==
    /\ job.pc = "fetch"
    /\ LET bans == Tally(served, Page(job.offset)) IN
       job' = IF bans = NoBans
              THEN [job EXCEPT !.pc = "delete"]
              ELSE [job EXCEPT !.offset = @ + PageSize, !.bans = Plus(@, bans)]
    /\ UNCHANGED <<league, served, table, players, first, moved, origin, changes, faults>>

\* An empty page is the end.
FetchPage ==
    /\ job.pc = "fetch"
    /\ job' = IF Page(job.offset) = {}
              THEN [job EXCEPT !.pc = "delete"]
              ELSE [job EXCEPT !.offset = @ + PageSize,
                               !.bans = Plus(@, Tally(served, Page(job.offset)))]
    /\ UNCHANGED <<league, served, table, players, first, moved, origin, changes, faults>>

----------------------------------------------------------------------------
(* rglBansReplace, etf2lBansUpdate. *)

\* Mutant: the batch is added to what the table has.
DeleteNothing ==
    /\ job.pc = "delete"
    /\ job' = [job EXCEPT !.pc = "players"]
    /\ UNCHANGED <<league, served, table, players, first, moved, origin, changes, faults>>

Delete ==
    /\ job.pc = "delete"
    /\ table' = NoBans
    /\ origin' = Nothing
    /\ job' = [job EXCEPT !.pc = "players"]
    /\ UNCHANGED <<league, served, players, first, moved, changes, faults>>

\* playerGetOrCreate for one ban after the other; its errors are Fail.
EnsurePlayers ==
    /\ job.pc = "players"
    /\ players' = players \union {b.sid : b \in Some(job.bans)}
    /\ job' = [job EXCEPT !.pc = "batch"]
    /\ UNCHANGED <<league, served, table, first, moved, origin, changes, faults>>

\* Mutant: no unique index on etf2l_ban.
SendBatchNoIndex ==
    /\ job.pc = "batch"
    /\ table' = Plus(table, job.bans)
    /\ origin' = [first |-> first, moved |-> moved]
    /\ job' = Idle
    /\ UNCHANGED <<league, served, players, first, moved, changes, faults>>

\* Two rows with the same key fail the batch, which is the end of the job.
SendBatch ==
    /\ job.pc = "batch"
    /\ IF league \in Keyed /\ Repeats(job.bans)
       THEN UNCHANGED <<table, origin>>
       ELSE /\ table' = Plus(table, job.bans)
            /\ origin' = [first |-> first, moved |-> moved]
    /\ job' = Idle
    /\ UNCHANGED <<league, served, players, first, moved, changes, faults>>

\* A request or a statement fails, the job runs out of time, the process dies.
Fail ==
    /\ job # Idle
    /\ faults < MaxFaults
    /\ faults' = faults + 1
    /\ job' = Idle
    /\ UNCHANGED <<league, served, table, players, first, moved, origin, changes>>

----------------------------------------------------------------------------
(* The league's list. *)

Change(how) ==
    /\ changes < MaxChanges
    /\ changes' = changes + 1
    /\ moved' = IF moved = "shrank" THEN moved ELSE how
    /\ UNCHANGED <<league, table, players, job, first, origin, faults>>

AddBan ==
    /\ Len(served) < MaxBans
    /\ \E i \in 1..Len(served) + 1, b \in Ban : served' = InsertAt(served, i, b)
    /\ Change("grew")

LiftBan ==
    /\ \E i \in 1..Len(served) : served' = RemoveAt(served, i)
    /\ Change("shrank")

Step == FetchPage \/ Delete \/ EnsurePlayers \/ SendBatch

Next == Start \/ Step \/ Fail \/ AddBan \/ LiftBan

\* A running job goes on; its period begins again and again.
Fairness == WF_vars(Step) /\ WF_vars(Start)

Spec == Init /\ [][Next]_vars /\ Fairness

----------------------------------------------------------------------------
(* What makes the tables right. *)

\* The table is the list as its download found it, each ban as often as the list
\* has it, unless the list changed between two pages; from a DELETE to the next
\* batch it is empty. No retry adds to what an earlier attempt left, no page is
\* skipped or fetched twice (jobs_rgl.go:160-191).
TableIsSnapshot ==
    \/ origin.moved # "no"
    \/ table = Whole(origin.first)

\* While a league only adds bans, wherever in its list, the shifting pages may
\* repeat a ban but never skip one. (A ban that is lifted may hide another.)
AdditionsHideNothing ==
    \/ origin.moved = "shrank"
    \/ Some(Whole(origin.first)) \subseteq Some(table)

\* When the list is quiet the table is the list again and again - each job empties
\* it for a while - unless a keyed league lists the same ban twice: that fails
\* every batch, after the table was emptied.
AgainAndAgainCurrent ==
    \/ []<>(table = Whole(served))
    \/ []<>(league \in Keyed /\ Repeats(Whole(served)))
=============================================================================
