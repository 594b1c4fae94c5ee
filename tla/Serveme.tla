------------------------------ MODULE Serveme ------------------------------
(***************************************************************************)
(* The serveme.tf ban table: updateServeMe (src/serveme.go) and            *)
(* servemeUpdate (src/store.go). A ServemeWorker job downloads the ban     *)
(* list, makes sure its players exist, and replaces the table's rows. The  *)
(* default queue has two workers and no uniqueness for this job, so two    *)
(* replacements may overlap.                                               *)
(*                                                                         *)
(* servemeUpdate opens a transaction but sends its DELETE and its INSERTs  *)
(* to the pool: each takes a second connection, commits by itself and is   *)
(* visible at once. The transaction only keeps its own connection busy.    *)
(*                                                                         *)
(* A download that fails, is no CSV or lists nobody ends the job before it *)
(* changes anything: there is no action for it.                            *)
(***************************************************************************)
EXTENDS Naturals, Sequences, FiniteSets, Functions

CONSTANTS
    Sid,        \* valid steam ids
    Csv,        \* ban lists the site may publish: sequences of [sid, name]
    Worker,     \* workers of the default queue
    PoolSize,   \* connections of the pool (pgxpool: 4, or more with more CPUs)
    MaxChanges, \* bound: new lists the site publishes
    MaxFaults   \* bound: statements that fail, crashes

Row == UNION {Range(c) : c \in Csv}

ASSUME CsvAssumption   == Csv \subseteq Seq(Row)
ASSUME BoundAssumption == MaxChanges \in Nat /\ MaxFaults \in Nat

\* The code relies on it: every worker may hold one connection and want another.
ASSUME PoolAssumption ==
    IsFiniteSet(Worker) /\ PoolSize \in Nat /\ PoolSize > Cardinality(Worker)

VARIABLES
    table,      \* rows of table serveme
    players,    \* steam ids in table player
    csv,        \* the ban list the site publishes now
    job,        \* job[w]: where worker w's job is: [pc, rows, i]
    free,       \* idle connections of the pool
    calm,       \* history: since the workers were last all idle, each job had
                \* the list of now and none failed but on the primary key
    changes,    \* lists published so far
    faults      \* faults so far

vars == <<table, players, csv, job, free, calm, changes, faults>>

\* rows: the list it downloaded; i: the row it has dealt with last, 0 for none.
Idle == [pc |-> "idle", rows |-> <<>>, i |-> 0]

Place == {"idle", "ensure", "begin", "delete", "insert", "commit"}

\* servemeUpdate's transaction is open.
InTx(w)  == job[w].pc \in {"delete", "insert", "commit"}
AllIdle  == \A w \in Worker : job[w] = Idle
Sids(rs) == {r.sid : r \in rs}

TypeOK ==
    /\ table \subseteq Row
    /\ \A r, q \in table : r.sid = q.sid => r = q
    /\ players \subseteq Sid
    /\ csv \in Csv
    /\ job \in [Worker -> [pc : Place, rows : Seq(Row), i : Nat]]
    /\ free \in 0..PoolSize
    /\ calm \in BOOLEAN
    /\ changes \in 0..MaxChanges
    /\ faults \in 0..MaxFaults

Init ==
    /\ table = {}
    /\ players = {}
    /\ csv \in Csv
    /\ job = [w \in Worker |-> Idle]
    /\ free = PoolSize
    /\ calm = FALSE
    /\ changes = 0
    /\ faults = 0

\* downloadServeMeList skips rows without a valid steam id.
Listed(c) == {k \in DOMAIN c : c[k].sid \in Sid}

At(w, pc) == job[w].pc = pc

Goto(w, pc) == job' = [job EXCEPT ![w].pc = pc]

\* The loops over the entries: k is the row to deal with now.
IsNext(w, k) ==
    /\ k \in Listed(job[w].rows)
    /\ k > job[w].i
    /\ \A m \in Listed(job[w].rows) : m > job[w].i => k <= m

\* Mutant: the last row is left out.
DealtWithButLast(w, k, pc) ==
    job' = [job EXCEPT ![w] =
        IF \E m \in Listed(@.rows) : m > k + 1 THEN [@ EXCEPT !.i = k]
                                              ELSE [@ EXCEPT !.pc = pc, !.i = 0]]

\* After the last row the job goes on to pc.
DealtWith(w, k, pc) ==
    job' = [job EXCEPT ![w] =
        IF \E m \in Listed(@.rows) : m > k THEN [@ EXCEPT !.i = k]
                                          ELSE [@ EXCEPT !.pc = pc, !.i = 0]]

----------------------------------------------------------------------------
(* updateServeMe. *)

\* River starts a job: a period began, or an earlier attempt failed.
Start(w) ==
    /\ At(w, "idle")
    /\ Listed(csv) # {}
    /\ job' = [job EXCEPT ![w] = [pc |-> "ensure", rows |-> csv, i |-> 0]]
    /\ calm' = (calm \/ AllIdle)
    /\ UNCHANGED <<table, players, csv, free, changes, faults>>

\* Mutant: an error of playerGetOrCreate is logged and ignored.
EnsurePlayerOrNot(w) ==
    /\ At(w, "ensure")
    /\ free > 0
    /\ \E k \in DOMAIN job[w].rows :
        /\ IsNext(w, k)
        /\ players' \in {players, players \union {job[w].rows[k].sid}}
        /\ DealtWith(w, k, "begin")
    /\ UNCHANGED <<table, csv, free, calm, changes, faults>>

\* playerGetOrCreate, as PlayerRegistry has it; its errors are Fail.
EnsurePlayer(w) ==
    /\ At(w, "ensure")
    /\ free > 0
    /\ \E k \in DOMAIN job[w].rows :
        /\ IsNext(w, k)
        /\ players' = players \union {job[w].rows[k].sid}
        /\ DealtWith(w, k, "begin")
    /\ UNCHANGED <<table, csv, free, calm, changes, faults>>

----------------------------------------------------------------------------
(* servemeUpdate. *)

Begin(w) ==
    /\ At(w, "begin")
    /\ free > 0
    /\ free' = free - 1
    /\ Goto(w, "delete")
    /\ UNCHANGED <<table, players, csv, calm, changes, faults>>

\* Mutant: only players that the list no longer names are deleted.
DeleteUnlisted(w) ==
    /\ At(w, "delete")
    /\ free > 0
    /\ table' = {r \in table : r.sid \in Sids(Range(job[w].rows))}
    /\ Goto(w, "insert")
    /\ UNCHANGED <<players, csv, free, calm, changes, faults>>

Delete(w) ==
    /\ At(w, "delete")
    /\ free > 0
    /\ table' = {}
    /\ Goto(w, "insert")
    /\ UNCHANGED <<players, csv, free, calm, changes, faults>>

\* Mutant: without the deferred Rollback; only Commit gives the connection back.
EndNoRollback(w) ==
    /\ job' = [job EXCEPT ![w] = Idle]
    /\ free' = IF At(w, "commit") THEN free + 1 ELSE free

\* The deferred Rollback gives the transaction's connection back.
End(w) ==
    /\ job' = [job EXCEPT ![w] = Idle]
    /\ free' = IF InTx(w) THEN free + 1 ELSE free

\* Mutant: table serveme without its primary key.
InsertNoKey(w) ==
    /\ At(w, "insert")
    /\ free > 0
    /\ \E k \in DOMAIN job[w].rows :
        /\ IsNext(w, k)
        /\ table' = table \union {job[w].rows[k]}
        /\ DealtWith(w, k, "commit")
    /\ UNCHANGED <<players, csv, free, calm, changes, faults>>

\* A second row for a steam id violates the primary key and ends the job; the
\* rows it inserted before stay.
Insert(w) ==
    /\ At(w, "insert")
    /\ free > 0
    /\ \E k \in DOMAIN job[w].rows :
        LET r == job[w].rows[k] IN
        /\ IsNext(w, k)
        /\ IF r.sid \in Sids(table)
           THEN End(w) /\ UNCHANGED table
           ELSE /\ table' = table \union {r}
                /\ DealtWith(w, k, "commit")
                /\ UNCHANGED free
    /\ UNCHANGED <<players, csv, calm, changes, faults>>

Commit(w) ==
    /\ At(w, "commit")
    /\ End(w)
    /\ UNCHANGED <<table, players, csv, calm, changes, faults>>

----------------------------------------------------------------------------
(* Faults, and the site. *)

Fault ==
    /\ faults < MaxFaults
    /\ faults' = faults + 1
    /\ calm' = FALSE

\* A statement fails: database, the job's five minutes, a lost race for a player.
Fail(w) ==
    /\ ~At(w, "idle")
    /\ Fault
    /\ End(w)
    /\ UNCHANGED <<table, players, csv, changes>>

\* The process dies; PostgreSQL and the next process have all connections back.
Crash ==
    /\ Fault
    /\ job' = [w \in Worker |-> Idle]
    /\ free' = PoolSize
    /\ UNCHANGED <<table, players, csv, changes>>

Publish ==
    /\ changes < MaxChanges
    /\ changes' = changes + 1
    /\ csv' \in Csv \ {csv}
    /\ calm' = FALSE
    /\ UNCHANGED <<table, players, job, free, faults>>

Step(w) ==
    \/ EnsurePlayer(w)
    \/ Begin(w)
    \/ Delete(w)
    \/ Insert(w)
    \/ Commit(w)

Next ==
    \/ \E w \in Worker : Start(w) \/ Step(w) \/ Fail(w)
    \/ Crash
    \/ Publish

\* A running job goes on, and a period begins again and again.
Fairness ==
    /\ \A w \in Worker : WF_vars(Step(w))
    /\ WF_vars(\E w \in Worker : Start(w))

Spec == Init /\ [][Next]_vars

FairSpec == Spec /\ Fairness

----------------------------------------------------------------------------
(* What makes the table right. *)

Target == {csv[k] : k \in Listed(csv)}

\* No two rows of the list are for the same player.
Distinct == \A k, m \in Listed(csv) : csv[k].sid = csv[m].sid => k = m

\* Every row has its player: the loop before servemeUpdate ("Ensure FK's are
\* satisfied", serveme.go:27-42) reaches each row that will be inserted, so the
\* foreign key, which Insert does not look at, never ends an import half-way.
ForeignKeyHolds == Sids(table) \subseteq players

\* Overlapping replacements of the same list, each deleting what the other has
\* inserted and running into the primary key, do not lose a ban between them:
\* when both are done the table is the list. It rests on both inserting in the
\* same order (servemeUpdate, store.go:1583-1592).
OverlapKeepsAll ==
    AllIdle /\ calm /\ Distinct => table = Target

\* No path out of servemeUpdate keeps its connection: the pool is not drained by
\* failing imports (the deferred Rollback, store.go:1576-1582).
ConnectionsReturned ==
    free = PoolSize - Cardinality({w \in Worker : InTx(w)})

\* No import waits for ever, though each holds a connection and wants another. And
\* whatever overlapped, failed or crashed before, once imports keep apart (their
\* period is 12 hours, a job has 5 minutes) and the site lists players, each once,
\* the table is that list again and again: each import deletes it for a while.
AgainAndAgainCurrent ==
    /\ \A w \in Worker : At(w, "ensure") ~> At(w, "idle")
    /\ <>[](/\ \A v, w \in Worker : At(v, "idle") \/ At(w, "idle") \/ v = w
            /\ Listed(csv) # {}
            /\ Distinct)
       => []<>(table = Target)

\* docs/API.md:743, on the readers of the table: the result consists "of all known
\* serveme bans". So a known ban stays while the site lists it. The code deletes
\* all of them in every import, in a statement of its own.
KnownBansStay ==
    [][csv' = csv => table \intersect Target \subseteq table']_vars
=============================================================================
