----------------------------- MODULE BDLists -----------------------------
(***************************************************************************)
(* The TF2 bot detector lists (src/bd.go, its queries in src/store.go, the *)
(* `bd add` and `bd del` commands of src/cmd.go). A BDListWorker job runs  *)
(* every minute on the default queue, which has two workers and no         *)
(* uniqueness for this job: two updates may overlap, each with its own     *)
(* stale copy of the lists, the downloads and the entries. Nothing here is *)
(* a transaction: every statement commits by itself.                       *)
(*                                                                         *)
(* An error ends the job and River runs it again, as the next period does: *)
(* both are Start. A process crash is a failure of every running job.      *)
(* Deleted = true is never written to bd_list by the program (the guard of *)
(* bd.go:64 skips nothing), and an entry's proof is compared and stored as *)
(* its name is: one field, "name", stands for both.                        *)
(***************************************************************************)
EXTENDS Naturals, Sequences, FiniteSets, Functions

CONSTANTS
    List,       \* rows of bd_list: the ids the table's serial may hand out
    ValidSid,   \* valid steam ids
    Doc,        \* documents a list's URL may serve
    Canon,      \* Canon[t]: attribute t trimmed and in lower case
    Blank,      \* the canonical form of an attribute of white space
    Job,        \* workers of the default queue
    Id,         \* ids of bd_list_entries
    NoList,     \* "no list is being applied"
    MaxChanges, \* bound: edits of a served document, `bd add`s and `bd del`s
    MaxFaults   \* bound: failed or truncated calls

\* A document is the sequence of its players: [sid, attrs, name, seen]. The
\* order and repetition of attributes do not survive normalizeAttrs, so attrs
\* is a set. An invalid steam id is any value outside ValidSid.
ASSUME DocAssumption ==
    \A d \in Doc :
        /\ d \in Seq(Range(d))
        /\ \A p \in Range(d) : p.attrs \subseteq DOMAIN Canon

\* What is trimmed and in lower case stays as it is.
ASSUME CanonAssumption ==
    \A t \in DOMAIN Canon : \/ Canon[t] = Blank
                            \/ Canon[t] \in DOMAIN Canon /\ Canon[Canon[t]] = Canon[t]

ASSUME BoundAssumption == MaxChanges \in Nat /\ MaxFaults \in Nat

VARIABLES
    lists,      \* ids in table bd_list
    entries,    \* rows of bd_list_entries: [id, list, sid, attrs, name, seen]
    players,    \* steam ids in table player
    served,     \* served[l]: the document list l's URL serves now
    job,        \* job[j]: where the job on worker j is and what it carries
    changes,    \* changes made so far
    faults      \* faults so far

vars == <<lists, entries, players, served, job, changes, faults>>

ListMapping == [list : List, doc : Doc \union {<<>>}]

ASSUME NoListAssumption == NoList \notin ListMapping

\* A job on its way. todo: lists still to download; docs: what was downloaded
\* and waits to be applied (listMapping); cur: the download being applied;
\* creates, updates, deletes: what is left of the plan for it, new and changed
\* players by their position in the document.
Progress ==
    [pc : {"idle", "run", "insert"}, todo : SUBSET List, docs : SUBSET ListMapping,
     cur : ListMapping \union {NoList}, creates : SUBSET Nat,
     updates : SUBSET [at : Nat, id : Id], deletes : SUBSET Id]

Idle ==
    [pc |-> "idle", todo |-> {}, docs |-> {}, cur |-> NoList,
     creates |-> {}, updates |-> {}, deletes |-> {}]

Running(j) == job[j].pc # "idle"
Rows(l)    == {e \in entries : e.list = l}
Listed(d)  == {p.sid : p \in Range(d)}

NormalizeAttrs(attrs) == {Canon[t] : t \in attrs} \ {Blank}

\* Attributes are stored in the form in which botDetectorListSearch looks for them
\* (store.go:985-998, bd.go:156-172).
TypeOK ==
    /\ lists \subseteq List
    /\ \A e \in entries : e.id \in Id /\ e.list \in lists /\ e.sid \in players
    /\ \A e, f \in entries :
        (e.id = f.id \/ (e.list = f.list /\ e.sid = f.sid)) => e = f
    /\ \A e \in entries : e.attrs # {} /\ e.attrs = NormalizeAttrs(e.attrs)
    /\ players \subseteq ValidSid
    /\ served \in [List -> Doc]
    /\ job \in [Job -> Progress]
    /\ changes \in 0..MaxChanges
    /\ faults \in 0..MaxFaults

Init ==
    /\ lists \in SUBSET List
    /\ entries = {}
    /\ players = {}
    /\ served \in [List -> Doc]
    /\ job = [j \in Job |-> Idle]
    /\ changes \in 0..MaxChanges
    /\ faults \in 0..MaxFaults

Fault ==
    /\ faults < MaxFaults
    /\ faults' = faults + 1

NoFault == UNCHANGED faults

Set(j, r) == job' = [job EXCEPT ![j] = r]

----------------------------------------------------------------------------
(* The plan: findNewAndUpdated and findDeleted. *)

\* Mutant: attributes are stored as they were downloaded.
StoredRaw(p) == p

Stored(p) ==
    [sid |-> p.sid, attrs |-> NormalizeAttrs(p.attrs), name |-> p.name, seen |-> p.seen]

Known(existing, p) == \E e \in existing : e.sid = p.sid

Match(existing, p) == CHOOSE e \in existing : e.sid = p.sid

\* Mutant: a new name is no difference.
DiffersInAttrs(e, p) == e.attrs # NormalizeAttrs(p.attrs)

\* last_seen is not among what is compared.
Differs(e, p) == e.attrs # NormalizeAttrs(p.attrs) \/ e.name # p.name

FindNew(existing, d) == {k \in DOMAIN d : d[k].sid \in ValidSid /\ ~Known(existing, d[k])}

FindUpdated(existing, d) ==
    {[at |-> k, id |-> Match(existing, d[k]).id] :
        k \in {i \in DOMAIN d : /\ d[i].sid \in ValidSid
                               /\ Known(existing, d[i])
                               /\ Differs(Match(existing, d[i]), d[i])}}

\* Mutant: an entry whose data changed is replaced instead of updated.
FindDeletedOrChanged(existing, d) ==
    {e.id : e \in {x \in existing :
                    \A p \in Range(d) : p.sid # x.sid \/ Differs(x, p)}}

FindDeleted(existing, d) == {e.id : e \in {x \in existing : x.sid \notin Listed(d)}}

----------------------------------------------------------------------------
(* updateLists: the download of every list. *)

\* botDetectorLists ignores rows.Err: a broken connection shortens the result.
\* Which of the idle workers takes the job makes no difference.
Start(j) ==
    /\ \E k \in Job : ~Running(k)
    /\ j = CHOOSE k \in Job : ~Running(k)
    /\ \E ls \in SUBSET lists :
        /\ IF ls = lists THEN NoFault ELSE Fault
        /\ Set(j, [Idle EXCEPT !.pc = "run", !.todo = ls])
    /\ UNCHANGED <<lists, entries, players, served, changes>>

\* The status code is not looked at: the JSON of an error page decodes to a
\* document without players. A download that fails is logged and skipped.
Fetch(j) ==
    /\ \E l \in job[j].todo :
        LET Got(ds) == Set(j, [job[j] EXCEPT !.todo = @ \ {l}, !.docs = @ \union ds])
        IN  \/ Got({[list |-> l, doc |-> served[l]]}) /\ NoFault
            \/ Got({[list |-> l, doc |-> <<>>]}) /\ Fault
            \/ Got({}) /\ Fault
    /\ UNCHANGED <<lists, entries, players, served, changes>>

----------------------------------------------------------------------------
(* updateListEntries: one list, in the order the downloads ended (any). *)

PlanDone(j) ==
    /\ job[j].pc = "run"
    /\ job[j].todo = {}
    /\ job[j].creates = {}
    /\ job[j].updates = {}
    /\ job[j].deletes = {}

\* botDetectorListEntries ignores rows.Err as well.
ReadEntries(j) ==
    /\ PlanDone(j)
    /\ \E m \in job[j].docs, existing \in SUBSET entries :
        /\ existing \subseteq Rows(m.list)
        /\ IF existing = Rows(m.list) THEN NoFault ELSE Fault
        /\ Set(j, [job[j] EXCEPT
                !.docs = @ \ {m},
                !.cur = m,
                !.creates = FindNew(existing, m.doc),
                !.updates = FindUpdated(existing, m.doc),
                !.deletes = FindDeleted(existing, m.doc)])
    /\ UNCHANGED <<lists, entries, players, served, changes>>

\* The player the next insert is about: both slices keep the document's order.
NextNew(j) == {k \in job[j].creates : \A i \in job[j].creates : k <= i}

NextChanged(j) == {u \in job[j].updates : \A v \in job[j].updates : u.at <= v.at}

PlayerStored(j) ==
    /\ job[j].pc = "run"
    /\ \E k \in NextNew(j) : players' = players \union {job[j].cur.doc[k].sid}

\* playerGetOrCreate as PlayerRegistry has it; its failure is Fail.
EnsurePlayer(j) ==
    /\ PlayerStored(j)
    /\ Set(j, [job[j] EXCEPT !.pc = "insert"])
    /\ UNCHANGED <<lists, entries, served, changes, faults>>

\* Ids that a row or a plan holds.
HeldIds ==
    {e.id : e \in entries} \union
    UNION {job[j].deletes \union {u.id : u \in job[j].updates} : j \in Job}

\* Mutant: the ids of deleted rows are handed out again.
UnusedId == CHOOSE i \in Id : \A e \in entries : e.id # i

\* The next value of the serial, which never hands out one twice.
FreshId == CHOOSE i \in Id : i \notin HeldIds

Entry(i, l, s, p) ==
    [id |-> i, list |-> l, sid |-> s, attrs |-> p.attrs, name |-> p.name, seen |-> p.seen]

\* Mutant: without the unique index on list and steam id.
AcceptedTwice(l, p) == l \in lists /\ p.sid \in players /\ p.attrs # {}

\* The constraints of bd_list_entries (migrations/0002).
Accepted(l, p) ==
    /\ l \in lists
    /\ p.sid \in players
    /\ p.attrs # {}
    /\ ~Known(Rows(l), p)

\* Bound: an insert waits while Id has no value left.
Insert(l, p) ==
    /\ Accepted(l, p)
    /\ Id \ HeldIds # {}
    /\ entries' = entries \union {Entry(FreshId, l, p.sid, p)}

\* An insert that fails, for whatever reason, is logged at most: on to the next.
InsertEntry(j) ==
    /\ job[j].pc = "insert"
    /\ \E k \in NextNew(j) :
        LET l == job[j].cur.list
            p == Stored(job[j].cur.doc[k])
        IN  /\ \/ Insert(l, p) /\ NoFault
               \/ ~Accepted(l, p) /\ UNCHANGED entries /\ NoFault
               \/ UNCHANGED entries /\ Fault
            /\ Set(j, [job[j] EXCEPT !.pc = "run", !.creates = @ \ {k}])
    /\ UNCHANGED <<lists, players, served, changes>>

\* An UPDATE of an id that is gone changes no row and is no error; one that
\* would store no attributes violates NOT NULL and ends the job.
UpdateEntry(j) ==
    /\ job[j].pc = "run"
    /\ job[j].creates = {}
    /\ \E u \in NextChanged(j) :
        LET to   == Stored(job[j].cur.doc[u.at])
            rows == {e \in entries : e.id = u.id}
        IN  IF rows # {} /\ to.attrs = {}
            THEN Set(j, Idle) /\ UNCHANGED entries
            ELSE /\ entries' = (entries \ rows) \union
                                {Entry(e.id, e.list, e.sid, to) : e \in rows}
                 /\ Set(j, [job[j] EXCEPT !.updates = @ \ {u}])
    /\ UNCHANGED <<lists, players, served, changes, faults>>

DeleteEntry(j) ==
    /\ job[j].pc = "run"
    /\ job[j].creates = {}
    /\ job[j].updates = {}
    /\ \E i \in job[j].deletes :
        /\ entries' = {e \in entries : e.id # i}
        /\ Set(j, [job[j] EXCEPT !.deletes = @ \ {i}])
    /\ UNCHANGED <<lists, players, served, changes, faults>>

Finish(j) ==
    /\ PlanDone(j)
    /\ job[j].docs = {}
    /\ Set(j, Idle)
    /\ UNCHANGED <<lists, entries, players, served, changes, faults>>

\* A statement fails (database, the job's 5 minutes, a crash, a lost race in
\* playerGetOrCreate, which may have stored the player all the same): what was
\* committed stays, the rest of the plan and the lists still to come are dropped.
Fail(j) ==
    /\ Running(j)
    /\ Fault
    /\ Set(j, Idle)
    /\ PlayerStored(j) \/ UNCHANGED players
    /\ UNCHANGED <<lists, entries, served, changes>>

----------------------------------------------------------------------------
(* The world outside the job. *)

Change ==
    /\ changes < MaxChanges
    /\ changes' = changes + 1

\* The list's author publishes another document.
Publish(l) ==
    /\ Change
    /\ \E d \in Doc \ {served[l]} : served' = [served EXCEPT ![l] = d]
    /\ UNCHANGED <<lists, entries, players, job, faults>>

\* `bd del`: the foreign key of the entries cascades.
DeleteList(l) ==
    /\ Change
    /\ l \in lists
    /\ lists' = lists \ {l}
    /\ entries' = entries \ Rows(l)
    /\ UNCHANGED <<players, served, job, faults>>

\* `bd add`: the serial never hands out an id again, so l is in no job either.
\* Bound: a list is added to an empty table, by the last change.
AddList(l) ==
    /\ Change /\ changes' = MaxChanges
    /\ lists = {}
    /\ \A j \in Job : /\ l \notin job[j].todo
                      /\ \A m \in job[j].docs \union ({job[j].cur} \ {NoList}) : m.list # l
    /\ lists' = lists \union {l}
    /\ UNCHANGED <<entries, players, served, job, faults>>

----------------------------------------------------------------------------

Step(j) ==
    \/ Fetch(j)
    \/ ReadEntries(j)
    \/ EnsurePlayer(j)
    \/ InsertEntry(j)
    \/ UpdateEntry(j)
    \/ DeleteEntry(j)
    \/ Finish(j)

Next ==
    \/ \E j \in Job : Start(j) \/ Step(j) \/ Fail(j)
    \/ \E l \in List : Publish(l) \/ DeleteList(l) \/ AddList(l)

\* A running job goes on, and when nothing runs the next period starts one.
Fairness ==
    /\ \A j \in Job : WF_vars(Step(j))
    /\ WF_vars(\E j \in Job : Start(j))

Spec == Init /\ [][Next]_vars /\ Fairness

----------------------------------------------------------------------------
(* What makes the lists right. *)

\* Running job j applies a download of list l.
Applies(j, l) == Running(j) /\ job[j].cur # NoList /\ job[j].cur.list = l

MayGo(e) ==
    \/ e.list \notin lists'
    \/ \E f \in entries' : f.id = e.id
    \/ \E j \in Job : Applies(j, e.list) /\ e.sid \notin Listed(job[j].cur.doc)

MayAppear(f) ==
    \E j \in Job :
        /\ Applies(j, f.list)
        /\ \E p \in Range(job[j].cur.doc) :
            f.sid = p.sid /\ f.attrs = NormalizeAttrs(p.attrs) /\ f.name = p.name

\* An entry disappears only with its list, or because a running update holds a
\* download of that list which does not name the player; and what appears or
\* changes says what such a download says of this very player. A stale plan, which
\* goes by row ids, takes no entry that another job created since the table was
\* read, and writes no player's data into another's row (bd.go:121-147).
EntriesFollowDownloads ==
    [][(\A e \in entries : MayGo(e)) /\ (\A f \in entries' \ entries : MayAppear(f))]_vars

Target(d) ==
    {<<p.sid, NormalizeAttrs(p.attrs), p.name>> :
        p \in {q \in Range(d) : q.sid \in ValidSid /\ NormalizeAttrs(q.attrs) # {}}}

Synced(l) == {<<e.sid, e.attrs, e.name>> : e \in Rows(l)} = Target(served[l])

\* A known player whose attributes the document blanks: his UPDATE fails always.
Poisoned(l) ==
    \E e \in Rows(l), p \in Range(served[l]) :
        p.sid = e.sid /\ NormalizeAttrs(p.attrs) = {}

\* A player the document names twice, with different data.
Ambiguous(l) ==
    \E p, q \in Range(served[l]) : p.sid = q.sid /\ Differs(Stored(p), q)

\* Once documents, lists and database are quiet, the entries of every list become
\* and stay what its document says, however many stale updates were under way -
\* unless a document blanks a known player (then updateListEntries fails in every
\* run, before its deletions and before the lists behind it) or names one twice.
EventuallySynced ==
    \/ <>[](\A l \in lists : Synced(l))
    \/ []<>(\E l \in lists : Poisoned(l) \/ Ambiguous(l))

\* The contract of updateLists, bd.go:54: "If a known entry is no longer in the
\* downloaded list, it is marked as deleted" - so its row stays as long as its
\* list does. The code deletes it.
KnownEntriesStay ==
    [][\A e \in entries :
        e.list \in lists' => \E f \in entries' : f.id = e.id]_vars
=============================================================================
