--------------------------- MODULE ServemeProofs ---------------------------
(***************************************************************************)
(* For every set of ban lists, every finite set of workers and every pool: *)
(* the type invariant of Serveme, that no connection is lost, and that     *)
(* overlapping imports of one list lose no ban.                            *)
(***************************************************************************)
EXTENDS Serveme, FiniteSetTheorems, TLAPS

----------------------------------------------------------------------------
(* The inductive invariant. *)

\* A worker in a job has a list; one without is Idle altogether.
\* Before it deletes, a job has dealt with no row.
JobShape ==
    \A w \in Worker :
        /\ At(w, "idle") => job[w] = Idle
        /\ At(w, "begin") \/ At(w, "delete") => job[w].i = 0

\* The players a job has made sure of: all of them, once it left its first loop.
Ensured ==
    \A w \in Worker : \A m \in Listed(job[w].rows) :
        (At(w, "ensure") => m <= job[w].i) => job[w].rows[m].sid \in players

\* Jobs of a calm period import the list of now.
CalmJobs == calm => \A w \in Worker : At(w, "idle") \/ job[w].rows = csv

\* A job that will still delete whatever the table holds.
DeleteAhead == \E w \in Worker : job[w].pc \in {"ensure", "begin", "delete"}

\* A job that has none of the rows up to k in front of it in the table yet: it
\* will insert row k, unless another job does so before.
Brings(w, k) ==
    /\ At(w, "insert")
    /\ job[w].i < k
    /\ \A m \in Listed(csv) : job[w].i < m /\ m <= k => csv[m] \notin table

\* The table holds nothing foreign, and some job brings every row it lacks.
Covered ==
    /\ table \subseteq Target
    /\ \A k \in Listed(csv) : csv[k] \in table \/ \E w \in Worker : Brings(w, k)

Coverage == calm /\ Distinct => DeleteAhead \/ Covered

IInv ==
    /\ TypeOK
    /\ ConnectionsReturned
    /\ JobShape
    /\ Ensured
    /\ ForeignKeyHolds
    /\ CalmJobs
    /\ Coverage

----------------------------------------------------------------------------
(* The pool. *)

Holders == {w \in Worker : InTx(w)}

LEMMA PoolSuffices ==
    ASSUME NEW S \in SUBSET Worker
    PROVE  IsFiniteSet(S) /\ PoolSize - Cardinality(S) \in 0..PoolSize
<1>1. IsFiniteSet(S) /\ Cardinality(S) <= Cardinality(Worker)
    BY FS_Subset, PoolAssumption
<1>2. Cardinality(S) \in Nat /\ Cardinality(Worker) \in Nat
    BY <1>1, FS_CardinalityType, PoolAssumption
<1>3. QED
    BY <1>1, <1>2, PoolAssumption

LEMMA SameHolders ==
    ASSUME TypeOK, ConnectionsReturned, free' = free, Holders' = Holders
    PROVE  ConnectionsReturned' /\ free' \in 0..PoolSize
    BY DEF ConnectionsReturned, Holders, TypeOK

\* A job ends: its connection, if it had one, is back.
LEMMA EndEffect ==
    ASSUME TypeOK, ConnectionsReturned, NEW w \in Worker, End(w)
    PROVE  /\ ConnectionsReturned'
           /\ free' \in 0..PoolSize
           /\ job' \in [Worker -> [pc : Place, rows : Seq(Row), i : Nat]]
           /\ job'[w] = Idle
           /\ \A v \in Worker \ {w} : job'[v] = job[v]
<1>1. /\ job' \in [Worker -> [pc : Place, rows : Seq(Row), i : Nat]]
      /\ job'[w] = Idle
      /\ \A v \in Worker \ {w} : job'[v] = job[v]
    BY DEF End, TypeOK, Idle, Place
<1>2. Holders' = Holders \ {w}
    BY <1>1 DEF Holders, InTx, Idle
<1>3. /\ IsFiniteSet(Holders) /\ Cardinality(Holders) \in Nat
      /\ Cardinality(Holders') = IF InTx(w) THEN Cardinality(Holders) - 1
                                           ELSE Cardinality(Holders)
    BY <1>2, PoolSuffices, FS_CardinalityType, FS_RemoveElement DEF Holders
<1>4. free' = PoolSize - Cardinality(Holders')
    BY <1>3, PoolAssumption DEF ConnectionsReturned, Holders, End
<1>5. free' \in 0..PoolSize
    <2>1. Holders' \in SUBSET Worker
        BY DEF Holders
    <2>2. QED
        BY <1>4, <2>1, PoolSuffices
<1>6. QED
    BY <1>1, <1>4, <1>5 DEF ConnectionsReturned, Holders

----------------------------------------------------------------------------
(* Initially, and what the invariant is for. *)

LEMMA InitIInv == Init => IInv
<1> SUFFICES ASSUME Init PROVE IInv
    OBVIOUS
<1> USE DEF Init
<1>1. Idle \in [pc : Place, rows : Seq(Row), i : Nat]
    BY DEF Idle, Place
<1>2. calm \in BOOLEAN
    BY Zenon
<1>3. TypeOK
    BY <1>1, <1>2, PoolAssumption, BoundAssumption DEF TypeOK, Sids
<1>4. JobShape /\ CalmJobs /\ Coverage
    BY DEF JobShape, CalmJobs, Coverage, At, Idle
<1>5. ConnectionsReturned
    <2>1. {w \in Worker : InTx(w)} = {}
        BY DEF InTx, Idle
    <2>2. QED
        BY <2>1, FS_EmptySet, PoolAssumption DEF ConnectionsReturned
<1>6. Ensured /\ ForeignKeyHolds
    BY DEF Ensured, ForeignKeyHolds, Sids, Listed, Idle
<1>7. QED
    BY <1>3, <1>4, <1>5, <1>6 DEF IInv

LEMMA IInvKeepsAll == IInv => OverlapKeepsAll
<1> SUFFICES ASSUME IInv, AllIdle, calm, Distinct
             PROVE  table = Target
    BY DEF OverlapKeepsAll
<1>1. ~DeleteAhead
    BY DEF DeleteAhead, AllIdle, Idle
<1>2. \A w \in Worker, k \in Listed(csv) : ~Brings(w, k)
    BY DEF Brings, AllIdle, Idle, At
<1>3. table \subseteq Target /\ \A k \in Listed(csv) : csv[k] \in table
    BY <1>1, <1>2 DEF IInv, Coverage, Covered
<1>4. QED
    BY <1>3 DEF Target

----------------------------------------------------------------------------
(* Helpers. *)

LEMMA IdleType == Idle \in [pc : Place, rows : Seq(Row), i : Nat]
    BY DEF Idle, Place

\* What the loops do to the job of the worker, and to no other.
LEMMA DealtWithEffect ==
    ASSUME TypeOK, NEW w \in Worker, NEW k \in DOMAIN job[w].rows,
           NEW pc \in Place, DealtWith(w, k, pc)
    PROVE  /\ job' \in [Worker -> [pc : Place, rows : Seq(Row), i : Nat]]
           /\ \A v \in Worker \ {w} : job'[v] = job[v]
           /\ job'[w].rows = job[w].rows
           /\ IF \E m \in Listed(job[w].rows) : m > k
              THEN job'[w].pc = job[w].pc /\ job'[w].i = k
              ELSE job'[w].pc = pc /\ job'[w].i = 0
<1>1. k \in Nat
    BY DEF TypeOK
<1>2. QED
    BY <1>1 DEF TypeOK, DealtWith

\* A job that will delete the table makes any table do.
LEMMA DeleteAheadIsEnough ==
    ASSUME NEW w \in Worker, job'[w].pc \in {"ensure", "begin", "delete"}
    PROVE  Coverage'
    BY DEF Coverage, DeleteAhead

----------------------------------------------------------------------------
(* One lemma per action of a job. *)

LEMMA StartIInv ==
    ASSUME IInv, NEW w \in Worker, Start(w)
    PROVE  IInv'
<1> USE DEF Start, At
<1>1. TypeOK'
    <2>1. csv \in Seq(Row)
        BY CsvAssumption DEF IInv, TypeOK
    <2>2. calm' \in BOOLEAN
        BY Zenon DEF IInv, TypeOK
    <2>3. QED
        BY <2>1, <2>2 DEF IInv, TypeOK, Place
<1>0. ConnectionsReturned'
    <2>1. Holders' = Holders
        BY DEF IInv, TypeOK, Holders, InTx
    <2>2. QED
        BY <2>1, SameHolders DEF IInv
<1>2. JobShape'
    BY DEF IInv, TypeOK, JobShape
<1>3. CalmJobs'
    BY DEF IInv, TypeOK, CalmJobs, AllIdle, Idle
<1>7. Ensured' /\ ForeignKeyHolds'
    <2>1. \A m \in Listed(csv) : m \in Nat /\ ~(m <= 0)
        BY CsvAssumption DEF IInv, TypeOK, Listed
    <2>2. QED
        BY <2>1 DEF IInv, TypeOK, Ensured, ForeignKeyHolds
<1>4. job'[w].pc = "ensure"
    BY DEF IInv, TypeOK
<1>5. Coverage'
    BY <1>4, DeleteAheadIsEnough
<1>6. QED
    BY <1>0, <1>1, <1>2, <1>3, <1>5, <1>7 DEF IInv

LEMMA EnsurePlayerIInv ==
    ASSUME IInv, NEW w \in Worker, EnsurePlayer(w)
    PROVE  IInv'
<1>1. PICK k \in DOMAIN job[w].rows :
        /\ IsNext(w, k)
        /\ players' = players \union {job[w].rows[k].sid}
        /\ DealtWith(w, k, "begin")
    BY DEF EnsurePlayer
<1>2. job[w].rows[k].sid \in Sid
    BY <1>1 DEF IsNext, Listed
<1>3. /\ job' \in [Worker -> [pc : Place, rows : Seq(Row), i : Nat]]
      /\ \A v \in Worker \ {w} : job'[v] = job[v]
      /\ job'[w].rows = job[w].rows
      /\ \/ job'[w].pc = "ensure" /\ job'[w].i = k
         \/ /\ job'[w].pc = "begin" /\ job'[w].i = 0
            /\ ~\E m \in Listed(job[w].rows) : m > k
    <2>1. "begin" \in Place /\ TypeOK /\ job[w].pc = "ensure"
        BY DEF Place, IInv, EnsurePlayer, At
    <2>2. DealtWith(w, k, "begin")
        BY <1>1
    <2>3. QED
        BY <2>1, <2>2, DealtWithEffect
<1>10. ForeignKeyHolds'
    BY <1>1 DEF IInv, ForeignKeyHolds, EnsurePlayer, Sids
<1>11. Ensured'
    <2>1. SUFFICES ASSUME NEW v \in Worker, NEW m \in Listed(job'[v].rows),
                          At(v, "ensure")' => m <= job'[v].i
                   PROVE  job'[v].rows[m].sid \in players'
        BY DEF Ensured, Listed
    <2>2. CASE v # w
        BY <1>1, <1>3, <2>1, <2>2 DEF IInv, Ensured, At
    <2>3. CASE v = w
        <3>1. m \in Listed(job[w].rows) /\ m \in Nat /\ k \in Nat /\ job[w].i \in Nat
            BY <1>3, <2>3 DEF Listed, IInv, TypeOK
        <3>2. m <= k
            BY <1>3, <2>1, <2>3, <3>1 DEF At
        <3>3. m <= job[w].i \/ m = k
            BY <1>1, <3>1, <3>2 DEF IsNext
        <3>4. QED
            BY <1>1, <1>3, <2>3, <3>1, <3>3 DEF IInv, Ensured
    <2>4. QED
        BY <2>2, <2>3
<1>4. TypeOK'
    <2>1. calm' \in BOOLEAN
        BY Zenon DEF IInv, TypeOK, EnsurePlayer
    <2>2. QED
        BY <1>1, <1>2, <1>3, <2>1 DEF IInv, TypeOK, EnsurePlayer, Sids
<1>5. ConnectionsReturned'
    <2>1. Holders' = Holders
        BY <1>3 DEF IInv, TypeOK, EnsurePlayer, Holders, InTx, At
    <2>2. QED
        BY <2>1, SameHolders DEF IInv, EnsurePlayer
<1>6. JobShape'
    BY <1>3 DEF IInv, JobShape, At
<1>7. CalmJobs'
    BY <1>3 DEF IInv, CalmJobs, EnsurePlayer, At
<1>8. Coverage'
    BY <1>3, DeleteAheadIsEnough
<1>9. QED
    BY <1>4, <1>5, <1>6, <1>7, <1>8, <1>10, <1>11 DEF IInv

LEMMA BeginIInv ==
    ASSUME IInv, NEW w \in Worker, Begin(w)
    PROVE  IInv'
<1> USE DEF Begin, Goto, At
<1>0. ConnectionsReturned' /\ free' \in 0..PoolSize
    <2>1. w \notin Holders /\ Holders' = Holders \union {w}
        BY DEF IInv, TypeOK, Holders, InTx
    <2>2. /\ Cardinality(Holders') = Cardinality(Holders) + 1
          /\ Cardinality(Holders) \in Nat
        BY <2>1, PoolSuffices, FS_AddElement, FS_CardinalityType DEF Holders
    <2>3. free' = PoolSize - Cardinality(Holders')
        BY <2>2, PoolAssumption DEF IInv, ConnectionsReturned, Holders
    <2>4. Holders' \in SUBSET Worker
        BY DEF Holders
    <2>5. QED
        BY <2>3, <2>4, PoolSuffices DEF ConnectionsReturned, Holders
<1>1. TypeOK'
    <2>1. calm' \in BOOLEAN
        BY Zenon DEF IInv, TypeOK
    <2>2. job' \in [Worker -> [pc : Place, rows : Seq(Row), i : Nat]]
        BY ZenonT(40) DEF IInv, TypeOK, Place
    <2>3. QED
        BY <1>0, <2>1, <2>2 DEF IInv, TypeOK
<1>2. JobShape'
    BY DEF IInv, TypeOK, JobShape
<1>7. Ensured' /\ ForeignKeyHolds'
    BY DEF IInv, TypeOK, Ensured, ForeignKeyHolds, Sids
<1>3. CalmJobs'
    BY DEF IInv, TypeOK, CalmJobs
<1>4. job'[w].pc = "delete"
    BY DEF IInv, TypeOK
<1>5. Coverage'
    BY <1>4, DeleteAheadIsEnough
<1>6. QED
    BY <1>0, <1>1, <1>2, <1>3, <1>5, <1>7 DEF IInv

\* The table is empty and w is about to bring every row.
LEMMA DeleteIInv ==
    ASSUME IInv, NEW w \in Worker, Delete(w)
    PROVE  IInv'
<1> USE DEF Delete, Goto, At
<1>1. TypeOK'
    <2>1. calm' \in BOOLEAN
        BY Zenon DEF IInv, TypeOK
    <2>2. QED
        BY <2>1, SMTT(30) DEF IInv, TypeOK, Place, Sids
<1>0. ConnectionsReturned'
    <2>1. Holders' = Holders
        BY DEF IInv, TypeOK, Holders, InTx
    <2>2. QED
        BY <2>1, SameHolders DEF IInv
<1>2. JobShape'
    BY DEF IInv, TypeOK, JobShape
<1>7. Ensured' /\ ForeignKeyHolds'
    BY DEF IInv, TypeOK, Ensured, ForeignKeyHolds, Sids
<1>3. CalmJobs'
    BY DEF IInv, TypeOK, CalmJobs
<1>4. Covered'
    <2>1. job'[w].pc = "insert" /\ job'[w].i = 0
        BY DEF IInv, TypeOK, JobShape
    <2>2. \A k \in Listed(csv)' : k > 0
        BY CsvAssumption DEF IInv, TypeOK, Listed
    <2>3. \A k \in Listed(csv)' : Brings(w, k)'
        BY <2>1, <2>2 DEF Brings
    <2>4. QED
        BY <2>3 DEF Covered
<1>5. QED
    BY <1>0, <1>1, <1>2, <1>3, <1>4, <1>7 DEF IInv, Coverage

LEMMA CommitIInv ==
    ASSUME IInv, NEW w \in Worker, Commit(w)
    PROVE  IInv'
<1>1. /\ ConnectionsReturned'
      /\ free' \in 0..PoolSize
      /\ job' \in [Worker -> [pc : Place, rows : Seq(Row), i : Nat]]
      /\ job'[w] = Idle
      /\ \A v \in Worker \ {w} : job'[v] = job[v]
    BY EndEffect DEF IInv, Commit
<1>2. TypeOK'
    <2>1. calm' \in BOOLEAN
        BY Zenon DEF IInv, TypeOK, Commit
    <2>2. QED
        BY <1>1, <2>1 DEF IInv, TypeOK, Commit, Sids
<1>3. JobShape' /\ CalmJobs'
    <2>1. Idle.pc = "idle"
        BY DEF Idle
    <2>2. JobShape'
        BY <1>1, <2>1 DEF IInv, JobShape, At
    <2>3. CalmJobs'
        BY <1>1, <2>1 DEF IInv, CalmJobs, Commit, At
    <2>4. QED
        BY <2>2, <2>3
<1>4. DeleteAhead => DeleteAhead'
    BY <1>1 DEF DeleteAhead, Commit, At
<1>5. Covered => Covered'
    BY <1>1 DEF Covered, Brings, Commit, At, Target, Listed
<1>6. Coverage'
    BY <1>4, <1>5 DEF IInv, Coverage, Commit, Distinct, Listed
<1>7. Ensured' /\ ForeignKeyHolds'
    BY <1>1, SMTT(30) DEF IInv, Ensured, ForeignKeyHolds, Commit, At, Sids, Idle, Listed
<1>8. QED
    BY <1>1, <1>2, <1>3, <1>6, <1>7 DEF IInv

\* The primary key ends the job: its row is in the table already, so it is the
\* job that brings none of the rows still missing.
LEMMA InsertTakenIInv ==
    ASSUME IInv, NEW w \in Worker, At(w, "insert"), NEW k \in DOMAIN job[w].rows,
           IsNext(w, k), job[w].rows[k].sid \in Sids(table), End(w),
           UNCHANGED <<table, players, csv, calm, changes, faults>>
    PROVE  IInv'
<1>1. /\ ConnectionsReturned'
      /\ free' \in 0..PoolSize
      /\ job' \in [Worker -> [pc : Place, rows : Seq(Row), i : Nat]]
      /\ job'[w] = Idle
      /\ \A v \in Worker \ {w} : job'[v] = job[v]
    BY EndEffect DEF IInv
<1>2. TypeOK'
    <2>1. calm' \in BOOLEAN
        BY Zenon DEF IInv, TypeOK
    <2>2. QED
        BY <1>1, <2>1 DEF IInv, TypeOK, Sids
<1>3. Idle.pc = "idle"
    BY DEF Idle
<1>4. JobShape'
    BY <1>1, <1>3 DEF IInv, JobShape, At
<1>5. CalmJobs'
    BY <1>1, <1>3 DEF IInv, CalmJobs, At
<1>6. DeleteAhead => DeleteAhead'
    BY <1>1 DEF DeleteAhead, At
<1>7. ASSUME calm, Distinct, Covered
      PROVE  Covered'
    <2>1. job[w].rows = csv
        BY <1>7 DEF IInv, CalmJobs, At
    <2>2. k \in Listed(csv) /\ job[w].i < k /\ csv \in Seq(Row) /\ job[w].i \in Nat
        BY <2>1, CsvAssumption DEF IsNext, IInv, TypeOK, Listed
    <2>3. csv[k] \in table
        <3>1. PICK r \in table : r.sid = csv[k].sid
            BY <2>1 DEF Sids
        <3>2. PICK m \in Listed(csv) : r = csv[m]
            BY <1>7, <3>1 DEF Covered, Target
        <3>3. QED
            BY <1>7, <2>2, <3>1, <3>2 DEF Distinct
    <2>4. \A m \in Listed(csv) : csv[m] \notin table => ~Brings(w, m)
        <3>1. SUFFICES ASSUME NEW m \in Listed(csv), Brings(w, m) PROVE FALSE
            OBVIOUS
        <3>2. job[w].i < m /\ m \in Nat /\ k \in Nat
            BY <2>2, <3>1 DEF Brings, Listed
        <3>3. k <= m
            BY <2>1, <3>2 DEF IsNext
        <3>4. QED
            BY <2>2, <2>3, <3>1, <3>3 DEF Brings
    <2>5. \A m \in Listed(csv), v \in Worker \ {w} : Brings(v, m) => Brings(v, m)'
        BY <1>1 DEF Brings, At, Listed
    <2>6. QED
        BY <1>7, <2>4, <2>5 DEF Covered, Target, Listed
<1>8. Coverage'
    BY <1>6, <1>7 DEF IInv, Coverage, Distinct, Listed
<1>9. Ensured' /\ ForeignKeyHolds'
    <2>1. Listed(Idle.rows) = {}
        BY DEF Idle, Listed
    <2>2. Ensured'
        BY <1>1, <2>1 DEF IInv, Ensured, At
    <2>3. QED
        BY <2>2 DEF IInv, ForeignKeyHolds, Sids
<1>10. QED
    BY <1>1, <1>2, <1>4, <1>5, <1>8, <1>9 DEF IInv

\* The row goes in: the job brings the rows after it, and whoever brought a later
\* row past this one gives way to it.
LEMMA InsertRowIInv ==
    ASSUME IInv, NEW w \in Worker, At(w, "insert"), NEW k \in DOMAIN job[w].rows,
           IsNext(w, k), job[w].rows[k].sid \notin Sids(table),
           table' = table \union {job[w].rows[k]}, DealtWith(w, k, "commit"),
           UNCHANGED <<players, csv, free, calm, changes, faults>>
    PROVE  IInv'
<1>1. /\ job' \in [Worker -> [pc : Place, rows : Seq(Row), i : Nat]]
      /\ \A v \in Worker \ {w} : job'[v] = job[v]
      /\ job'[w].rows = job[w].rows
      /\ IF \E m \in Listed(job[w].rows) : m > k
         THEN job'[w].pc = "insert" /\ job'[w].i = k
         ELSE job'[w].pc = "commit" /\ job'[w].i = 0
    <2>1. "commit" \in Place /\ TypeOK
        BY DEF Place, IInv
    <2>2. QED
        BY <2>1, DealtWithEffect DEF At
<1>2. k \in Listed(job[w].rows) /\ k \in Nat /\ job[w].i \in Nat /\ job[w].i < k
    BY DEF IsNext, IInv, TypeOK, Listed
<1>3. job[w].rows[k] \in Row
    BY DEF IInv, TypeOK
<1>4. TypeOK'
    <2>1. calm' \in BOOLEAN
        BY Zenon DEF IInv, TypeOK
    <2>2. \A r, q \in table' : r.sid = q.sid => r = q
        BY DEF IInv, TypeOK, Sids
    <2>3. QED
        BY <1>1, <1>3, <2>1, <2>2 DEF IInv, TypeOK
<1>5. ConnectionsReturned'
    <2>1. Holders' = Holders
        BY <1>1 DEF Holders, InTx, At
    <2>2. QED
        BY <2>1, SameHolders DEF IInv
<1>6. JobShape'
    BY <1>1 DEF IInv, JobShape, At
<1>7. Ensured'
    BY <1>1 DEF IInv, Ensured, At
<1>8. ForeignKeyHolds'
    BY <1>2 DEF IInv, ForeignKeyHolds, Ensured, Sids, At
<1>9. CalmJobs'
    BY <1>1 DEF IInv, CalmJobs, At
<1>10. DeleteAhead => DeleteAhead'
    BY <1>1 DEF DeleteAhead, At
<1>11. ASSUME calm, Distinct, Covered
       PROVE  Covered'
    <2>1. job[w].rows = csv /\ k \in Listed(csv)
        BY <1>2, <1>11 DEF IInv, CalmJobs, At
    <2>2. table' = table \union {csv[k]} /\ table' \subseteq Target'
        BY <1>11, <2>1 DEF Covered, Target, Listed
    <2>3. SUFFICES ASSUME NEW m \in Listed(csv), csv[m] \notin table'
                   PROVE  \E v \in Worker : Brings(v, m)'
        BY <2>2 DEF Covered, Listed
    <2>4. m \in Nat /\ m # k /\ csv[m] \notin table
        BY <2>1, <2>2, <2>3, CsvAssumption DEF IInv, TypeOK, Listed
    <2>5. PICK v \in Worker : Brings(v, m)
        BY <1>11, <2>4 DEF Covered
    \* Either v brought row k on the way to m, and w takes over, or it did not.
    <2>6. ASSUME k < m, \A l \in Listed(csv) : k < l /\ l <= m => csv[l] \notin table
          PROVE  Brings(w, m)'
        <3>1. job'[w].pc = "insert" /\ job'[w].i = k
            BY <1>1, <2>1, <2>6
        <3>2. \A l \in Listed(csv) : k < l /\ l <= m => csv[l] # csv[k]
            BY <1>2, <1>11, <2>1 DEF Distinct, Listed
        <3>3. QED
            BY <2>2, <2>6, <3>1, <3>2 DEF Brings, At, Listed
    <2>7. CASE v = w \/ (job[v].i < k /\ k <= m)
        <3>1. k < m
            <4>1. CASE v = w
                BY <1>2, <2>1, <2>4, <2>5, <4>1 DEF Brings, IsNext
            <4>2. CASE job[v].i < k /\ k <= m
                BY <1>2, <2>4, <4>2
            <4>3. QED
                BY <2>7, <4>1, <4>2
        <3>2. job[v].i < k /\ job[v].i \in Nat
            BY <1>2, <2>7 DEF IInv, TypeOK
        <3>3. \A l \in Listed(csv) : k < l /\ l <= m => job[v].i < l
            BY <1>2, <3>2, CsvAssumption DEF IInv, TypeOK, Listed
        <3>4. \A l \in Listed(csv) : k < l /\ l <= m => csv[l] \notin table
            BY <2>5, <3>3 DEF Brings
        <3>5. QED
            BY <2>6, <3>1, <3>4
    <2>8. CASE v # w /\ ~(job[v].i < k /\ k <= m)
        <3>1. \A l \in Listed(csv) : job[v].i < l /\ l <= m => l # k
            BY <2>8
        <3>2. \A l \in Listed(csv) : job[v].i < l /\ l <= m => csv[l] # csv[k]
            BY <1>11, <2>1, <3>1 DEF Distinct, Listed
        <3>3. QED
            BY <1>1, <2>2, <2>5, <2>8, <3>2 DEF Brings, At, Listed
    <2>9. QED
        BY <2>7, <2>8
<1>12. Coverage'
    BY <1>10, <1>11 DEF IInv, Coverage, Distinct, Listed
<1>13. QED
    BY <1>4, <1>5, <1>6, <1>7, <1>8, <1>9, <1>12 DEF IInv

LEMMA InsertIInv ==
    ASSUME IInv, NEW w \in Worker, Insert(w)
    PROVE  IInv'
<1>1. PICK k \in DOMAIN job[w].rows :
        /\ IsNext(w, k)
        /\ IF job[w].rows[k].sid \in Sids(table)
           THEN End(w) /\ UNCHANGED table
           ELSE /\ table' = table \union {job[w].rows[k]}
                /\ DealtWith(w, k, "commit")
                /\ UNCHANGED free
    BY DEF Insert
<1>2. CASE job[w].rows[k].sid \in Sids(table)
    BY <1>1, <1>2, InsertTakenIInv DEF Insert
<1>3. CASE job[w].rows[k].sid \notin Sids(table)
    BY <1>1, <1>3, InsertRowIInv DEF Insert
<1>4. QED
    BY <1>2, <1>3

----------------------------------------------------------------------------
(* Faults, and the site: they end the calm. *)

LEMMA FailIInv ==
    ASSUME IInv, NEW w \in Worker, Fail(w)
    PROVE  IInv'
<1>1. /\ ConnectionsReturned'
      /\ free' \in 0..PoolSize
      /\ job' \in [Worker -> [pc : Place, rows : Seq(Row), i : Nat]]
      /\ job'[w] = Idle
      /\ \A v \in Worker \ {w} : job'[v] = job[v]
    BY EndEffect DEF IInv, Fail
<1>2. TypeOK'
    <2>1. calm' \in BOOLEAN
        BY Zenon DEF Fail, Fault
    <2>2. QED
        BY <2>1, <1>1, BoundAssumption DEF IInv, TypeOK, Fail, Fault
<1>3. Idle.pc = "idle" /\ Listed(Idle.rows) = {}
    BY DEF Idle, Listed
<1>4. JobShape'
    BY <1>1, <1>3 DEF IInv, JobShape, At
<1>5. Ensured'
    BY <1>1, <1>3 DEF IInv, Ensured, At, Fail
<1>6. ForeignKeyHolds'
    BY DEF IInv, ForeignKeyHolds, Fail, Sids
<1>7. CalmJobs' /\ Coverage'
    BY DEF CalmJobs, Coverage, Fail, Fault
<1>8. QED
    BY <1>1, <1>2, <1>4, <1>5, <1>6, <1>7 DEF IInv

LEMMA CrashIInv ==
    ASSUME IInv, Crash
    PROVE  IInv'
<1>1. TypeOK'
    <2>1. calm' \in BOOLEAN
        BY Zenon DEF Crash, Fault
    <2>2. QED
        BY <2>1, IdleType, PoolAssumption, BoundAssumption DEF IInv, TypeOK, Crash, Fault
<1>2. ConnectionsReturned'
    <2>1. Holders' = {}
        BY DEF Holders, InTx, Crash, Idle
    <2>2. QED
        BY <2>1, FS_EmptySet, PoolAssumption DEF ConnectionsReturned, Holders, Crash
<1>3. JobShape' /\ Ensured' /\ ForeignKeyHolds'
    BY DEF IInv, JobShape, Ensured, ForeignKeyHolds, Crash, At, Idle, Listed, Sids
<1>4. CalmJobs' /\ Coverage'
    BY DEF CalmJobs, Coverage, Crash, Fault
<1>5. QED
    BY <1>1, <1>2, <1>3, <1>4 DEF IInv

LEMMA PublishIInv ==
    ASSUME IInv, Publish
    PROVE  IInv'
<1>1. TypeOK'
    <2>1. calm' \in BOOLEAN
        BY Zenon DEF Publish
    <2>2. QED
        BY <2>1, BoundAssumption DEF IInv, TypeOK, Publish
<1>2. ConnectionsReturned'
    BY SameHolders DEF IInv, Publish, Holders, InTx
<1>3. JobShape' /\ Ensured' /\ ForeignKeyHolds'
    BY DEF IInv, JobShape, Ensured, ForeignKeyHolds, Publish, At, Listed, Sids
<1>4. CalmJobs' /\ Coverage'
    BY DEF CalmJobs, Coverage, Publish
<1>5. QED
    BY <1>1, <1>2, <1>3, <1>4 DEF IInv

LEMMA StutterIInv ==
    ASSUME IInv, UNCHANGED vars
    PROVE  IInv'
<1> USE DEF vars
<1>1. TypeOK' /\ JobShape' /\ Ensured' /\ ForeignKeyHolds' /\ CalmJobs'
    BY DEF IInv, TypeOK, JobShape, Ensured, ForeignKeyHolds, CalmJobs, At, Listed, Sids
<1>2. ConnectionsReturned'
    BY SameHolders DEF IInv, Holders, InTx
<1>3. Coverage'
    BY DEF IInv, Coverage, DeleteAhead, Covered, Brings, At, Listed, Distinct, Target
<1>4. QED
    BY <1>1, <1>2, <1>3 DEF IInv

----------------------------------------------------------------------------
(* The theorems. *)

LEMMA Invariance == Spec => []IInv
<1>1. IInv /\ [Next]_vars => IInv'
    <2>1. SUFFICES ASSUME IInv, [Next]_vars PROVE IInv'
        OBVIOUS
    <2>2. ASSUME NEW w \in Worker, Start(w) \/ Step(w) \/ Fail(w)
          PROVE  IInv'
        BY <2>1, <2>2, StartIInv, EnsurePlayerIInv, BeginIInv, DeleteIInv, InsertIInv,
           CommitIInv, FailIInv DEF Step
    <2>3. QED
        BY <2>1, <2>2, CrashIInv, PublishIInv, StutterIInv DEF Next
<1>2. QED
    BY InitIInv, <1>1, PTL DEF Spec

\* The variables keep their types, and no player has two rows (the primary key of
\* table serveme), for any number of workers.
THEOREM TypeCorrect == Spec => []TypeOK
<1>1. IInv => TypeOK
    BY DEF IInv
<1>2. QED
    BY <1>1, Invariance, PTL

\* No path through servemeUpdate loses a connection, whatever fails.
THEOREM PoolSafe == Spec => []ConnectionsReturned
<1>1. IInv => ConnectionsReturned
    BY DEF IInv
<1>2. QED
    BY <1>1, Invariance, PTL

\* updateServeMe makes sure of every player before servemeUpdate inserts his row.
THEOREM PlayersFirst == Spec => []ForeignKeyHolds
<1>1. IInv => ForeignKeyHolds
    BY DEF IInv
<1>2. QED
    BY <1>1, Invariance, PTL

\* Any number of overlapping imports of the same list, each deleting the rows of
\* the others and failing on their keys, leave exactly the list.
THEOREM OverlapSafe == Spec => []OverlapKeepsAll
<1>1. QED
    BY IInvKeepsAll, Invariance, PTL
=============================================================================
