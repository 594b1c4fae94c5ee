--------------------------- MODULE SteamJobsProofs ---------------------------
(***************************************************************************)
(* For any players, batches, servers and faults: the types of both parts   *)
(* of the Steam queue, that only a fault costs a saved profile its         *)
(* follow-up jobs, and that a profile does not look fresh without its      *)
(* summary.                                                                *)
(***************************************************************************)
EXTENDS SteamJobs, SequenceTheorems, FiniteSetTheorems, TLAPS

----------------------------------------------------------------------------
(* The inductive invariant. *)

Jobs == [kind : {"summary"} \union FollowUp, ids : SUBSET Sid, attempts : 1..MaxAttempts]

RunState ==
    [job  : Jobs \union {Nothing.job},
     pc   : {"idle", "summary", "save", "enqueue games"} \union FollowUp,
     left : SUBSET Sid]

\* Where a job is goes with its kind; a ban job saves what Steam knows.
RunShape ==
    /\ run.pc = "idle" => run = Nothing
    /\ run.pc # "idle" => run.job \in Jobs
    /\ run.job.kind = "summary" <=> run.pc \in {"summary", "save", "enqueue games"}
    /\ run.job.kind = "bans" <=> run.pc = "bans"
    /\ run.job.kind = "games" <=> run.pc = "games"
    /\ run.pc = "enqueue games" => run.left = {}
    /\ run.pc = "bans" => run.left = run.left \intersect Known

Types ==
    /\ TypeOK
    /\ order \in Seq(Sid) /\ queue \in Seq(Jobs) /\ run \in RunState
    /\ RunShape
    /\ \A k \in FollowUp : due[k] \subseteq Known

Waits(k, s) == \E i \in DOMAIN queue : queue[i].kind = k /\ s \in queue[i].ids

\* The running job is about to look s up, or to enqueue the job that does.
Runs(k, s) ==
    \/ run.job.kind = k /\ s \in run.job.ids /\ (k = "bans" => s \in run.left)
    \/ run.pc = "save" /\ s \in run.job.ids \ run.left
    \/ run.pc = "enqueue games" /\ k = "games" /\ s \in run.job.ids

Covered == \A k \in FollowUp : \A s \in due[k] \ cut[k] : Waits(k, s) \/ Runs(k, s)

\* A ban job has s, or is about to get it.
HasBanJob(s) ==
    \/ Waits("bans", s)
    \/ run.pc = "bans" /\ s \in run.job.ids
    \/ run.pc \in {"save", "enqueue games"} /\ s \in run.job.ids \ run.left

\* The ban job makes a profile look fresh: until it has, the summary is there or the
\* profile is excused.
BanJobsFollow == \A s \in Known : HasBanJob(s) => s \in current \union excused

IInv == Types /\ Covered /\ BanJobsFollow /\ FreshMeansSummarised

\* The server job.
WorkerState ==
    [pc : {"idle", "server", "map", "stats", "counts"}, server : Server \union {None},
     todo : SUBSET Server, stats : SUBSET Server, steps : 0..MaxSteps]

ServersInv == Servers!TypeOK /\ worker \in WorkerState

----------------------------------------------------------------------------
(* Sequences: the rows of the table and the waiting jobs. *)

LEMMA InSeq == ASSUME NEW S, NEW q \in Seq(S)
               PROVE  /\ ToSet(q) \subseteq S /\ DOMAIN q = 1..Len(q) /\ Len(q) \in Nat
                      /\ \A i \in 1..Len(q) : q[i] \in ToSet(q)
BY LenProperties DEF ToSet

\* A sequence that has got another element, at its end or at its front.
LEMMA Longer ==
    ASSUME NEW S, NEW q \in Seq(S), NEW j \in S, NEW r, r = Append(q, j)
    PROVE  /\ r \in Seq(S) /\ Len(r) = Len(q) + 1 /\ Len(q) \in Nat
           /\ DOMAIN q = 1..Len(q) /\ DOMAIN r = 1..Len(q) + 1
           /\ \A i \in 1..Len(q) : r[i] = q[i]
           /\ r[Len(q) + 1] = j
BY AppendProperties, LenProperties

Ahead(e, q) == <<e>> \o q

IsFront(r, e, q) ==
    /\ r \in Seq(Sid) /\ Len(r) = Len(q) + 1 /\ Len(q) \in Nat
    /\ DOMAIN q = 1..Len(q) /\ DOMAIN r = 1..Len(q) + 1
    /\ r[1] = e
    /\ \A i \in 2..Len(q) + 1 : i - 1 \in 1..Len(q) /\ r[i] = q[i - 1]

LEMMA InFront ==
    ASSUME NEW q \in Seq(Sid), NEW j \in Sid, NEW r, r = Ahead(j, q) PROVE IsFront(r, j, q)
<1>1. PICK f : f = <<j>>
    OBVIOUS
<1>2. f \in Seq(Sid) /\ Len(f) = 1 /\ f[1] = j /\ r = f \o q
    BY <1>1 DEF Ahead
<1>3. /\ r \in Seq(Sid) /\ Len(r) = Len(f) + Len(q)
      /\ \A i \in 1..Len(f) + Len(q) : r[i] = IF i <= Len(f) THEN f[i] ELSE q[i - Len(f)]
    BY <1>1, <1>2, ConcatProperties
<1>4. /\ Len(q) \in Nat /\ DOMAIN q = 1..Len(q) /\ DOMAIN r = 1..Len(r)
    BY <1>3, LenProperties
<1>5. /\ Len(r) = Len(q) + 1
      /\ \A i \in 1..Len(q) + 1 : r[i] = IF i <= 1 THEN f[i] ELSE q[i - 1]
    BY <1>2, <1>3, <1>4
<1>6. \A i \in 2..Len(q) + 1 : i \in 1..Len(q) + 1 /\ ~(i <= 1) /\ i - 1 \in 1..Len(q)
    BY <1>4
<1>7. 1 \in 1..Len(q) + 1
    BY <1>4
<1>8. QED
    BY <1>2, <1>3, <1>4, <1>5, <1>6, <1>7 DEF IsFront

\* The i-th element out of a sequence.
LEMMA Removed ==
    ASSUME NEW S, NEW q \in Seq(S), NEW i \in 1..Len(q), NEW r, r = RemoveAt(q, i)
    PROVE  /\ r \in Seq(S) /\ Len(r) = Len(q) - 1
           /\ \A j \in 1..Len(q) - 1 : r[j] = IF j < i THEN q[j] ELSE q[j + 1]
<1>1. Len(q) \in Nat /\ \A j \in 1..Len(q) : q[j] \in S
    BY LenProperties
<1>2. PICK before, after : before = SubSeq(q, 1, i - 1) /\ after = SubSeq(q, i + 1, Len(q))
    OBVIOUS
<1>3. before \in Seq(S) /\ Len(before) = i - 1 /\ \A j \in 1..i - 1 : before[j] = q[j]
    BY <1>1, <1>2, SubSeqProperties
<1>4. /\ after \in Seq(S) /\ Len(after) = Len(q) - i
      /\ \A j \in 1..Len(q) - i : after[j] = q[i + j]
    <2>1. after \in Seq(S) /\ Len(after) = Len(q) - i
        BY <1>1, <1>2, SubSeqProperties
    <2>2. \A j \in 1..Len(after) : after[j] = q[i + 1 + j - 1]
        BY <1>1, <1>2, <2>1, SubSeqProperties
    <2>3. QED
        BY <1>1, <2>1, <2>2
<1>5. r = before \o after
    BY <1>2 DEF RemoveAt
<1>6. /\ r \in Seq(S) /\ Len(r) = Len(before) + Len(after)
      /\ \A j \in 1..Len(before) + Len(after) :
            r[j] = IF j <= Len(before) THEN before[j] ELSE after[j - Len(before)]
    <2>1. before \in Seq(S) /\ after \in Seq(S)
        BY <1>3, <1>4
    <2>2. QED
        BY <1>5, <2>1, ConcatProperties
<1>7. r \in Seq(S) /\ Len(r) = Len(q) - 1
    BY <1>1, <1>3, <1>4, <1>6
<1>8. ASSUME NEW j \in 1..Len(q) - 1 PROVE r[j] = IF j < i THEN q[j] ELSE q[j + 1]
    <2>1. j \in 1..Len(before) + Len(after)
        BY <1>1, <1>3, <1>4
    <2>2. r[j] = IF j <= i - 1 THEN before[j] ELSE after[j - (i - 1)]
        BY <1>3, <1>6, <2>1
    <2>3. CASE j < i
        <3>1. j <= i - 1 /\ j \in 1..i - 1
            BY <1>1, <2>3
        <3>2. QED
            BY <1>3, <2>2, <2>3, <3>1
    <2>4. CASE ~(j < i)
        <3>1. PICK k : k = j - (i - 1)
            OBVIOUS
        <3>2. ~(j <= i - 1) /\ k \in 1..Len(q) - i /\ i + k = j + 1
            BY <1>1, <2>4, <3>1
        <3>3. QED
            BY <1>4, <2>2, <2>4, <3>1, <3>2
    <2>5. QED
        BY <2>3, <2>4
<1>9. QED
    BY <1>7, <1>8

\* An element of the table moves to its front.
IsMoved(r, q, i) ==
    /\ r \in Seq(Sid) /\ Len(r) = Len(q) /\ IsInjective(r) /\ ToSet(r) = ToSet(q)
    /\ r[1] = q[i]
    /\ \A j \in 2..i : r[j] = q[j - 1]
    /\ \A j \in i + 1..Len(q) : r[j] = q[j]

LEMMA Moved ==
    ASSUME NEW q \in Seq(Sid), IsInjective(q), NEW i \in 1..Len(q),
           NEW r, r = Ahead(q[i], RemoveAt(q, i))
    PROVE  IsMoved(r, q, i)
<1>1. Len(q) \in Nat /\ DOMAIN q = 1..Len(q) /\ \A j \in 1..Len(q) : q[j] \in Sid
    BY LenProperties
<1>2. PICK rest : rest = RemoveAt(q, i)
    OBVIOUS
<1>3. /\ rest \in Seq(Sid) /\ Len(rest) = Len(q) - 1
      /\ \A j \in 1..Len(q) - 1 : rest[j] = IF j < i THEN q[j] ELSE q[j + 1]
    BY <1>2, Removed, SMTT(30)
<1>4. PICK e : e = q[i]
    OBVIOUS
<1>5. /\ r \in Seq(Sid) /\ Len(r) = Len(rest) + 1 /\ DOMAIN r = 1..Len(rest) + 1 /\ r[1] = e
      /\ \A j \in 2..Len(rest) + 1 : j - 1 \in 1..Len(rest) /\ r[j] = rest[j - 1]
    <2>1. rest \in Seq(Sid) /\ e \in Sid /\ r = Ahead(e, rest)
        BY <1>1, <1>2, <1>3, <1>4
    <2>2. IsFront(r, e, rest)
        BY <2>1, InFront
    <2>3. QED
        BY <2>2 DEF IsFront
<1>6. /\ Len(r) = Len(q) /\ DOMAIN r = 1..Len(q)
      /\ \A j \in 2..Len(q) : j - 1 \in 1..Len(q) - 1 /\ r[j] = rest[j - 1]
    <2>1. Len(rest) = Len(q) - 1 /\ Len(rest) + 1 = Len(q)
        BY <1>1, <1>3
    <2>2. QED
        BY <1>5, <2>1
<1>7. ASSUME NEW j \in 2..Len(q) PROVE r[j] = IF j <= i THEN q[j - 1] ELSE q[j]
    <2>1. PICK k : k = j - 1
        OBVIOUS
    <2>2. k \in 1..Len(q) - 1 /\ k + 1 = j /\ (k < i <=> j <= i)
        BY <1>1, <2>1
    <2>3. QED
        BY <1>3, <1>6, <2>1, <2>2
\* Where the elements of r stand in q.
<1>8. PICK from : from = [j \in 1..Len(q) |-> IF j = 1 THEN i ELSE IF j <= i THEN j - 1 ELSE j]
    OBVIOUS
<1>9. /\ \A j \in 1..Len(q) : from[j] \in 1..Len(q)
      /\ \A j, k \in 1..Len(q) : from[j] = from[k] => j = k
    BY <1>1, <1>8
<1>10. \A j \in 1..Len(q) : r[j] = q[from[j]]
    <2>1. \A j \in 1..Len(q) : j = 1 \/ j \in 2..Len(q)
        BY <1>1
    <2>2. \A j \in 2..Len(q) : j # 1 /\ j \in 1..Len(q)
        BY <1>1
    <2>3. 1 \in 1..Len(q) /\ from[1] = i
        BY <1>1, <1>8
    <2>4. \A j \in 2..Len(q) : from[j] = IF j <= i THEN j - 1 ELSE j
        BY <1>8, <2>2
    <2>5. QED
        BY <1>4, <1>5, <1>7, <2>1, <2>3, <2>4
<1>11. \A k \in 1..Len(q) : \E j \in 1..Len(q) : from[j] = k
    <2> SUFFICES ASSUME NEW k \in 1..Len(q) PROVE \E j \in 1..Len(q) : from[j] = k
        OBVIOUS
    <2>1. CASE k = i
        BY <1>1, <1>8, <2>1
    <2>2. CASE k < i
        <3>1. k + 1 \in 1..Len(q) /\ k + 1 # 1 /\ k + 1 <= i /\ (k + 1) - 1 = k
            BY <1>1, <2>2
        <3>2. from[k + 1] = k
            BY <1>8, <3>1
        <3>3. QED
            BY <3>1, <3>2
    <2>3. CASE k > i
        BY <1>1, <1>8, <2>3
    <2>4. QED
        BY <1>1, <2>1, <2>2, <2>3
<1>12. IsInjective(r)
    <2> SUFFICES ASSUME NEW j \in 1..Len(q), NEW k \in 1..Len(q), r[j] = r[k]
                 PROVE  j = k
        BY <1>6 DEF IsInjective
    <2>1. q[from[j]] = q[from[k]] /\ from[j] \in DOMAIN q /\ from[k] \in DOMAIN q
        BY <1>1, <1>9, <1>10
    <2>2. from[j] = from[k]
        BY <2>1 DEF IsInjective
    <2>3. QED
        BY <1>9, <2>2
<1>13. ToSet(r) = ToSet(q)
    <2>1. ASSUME NEW j \in DOMAIN r PROVE \E k \in DOMAIN q : r[j] = q[k]
        BY <1>1, <1>6, <1>9, <1>10
    <2>2. ASSUME NEW k \in DOMAIN q PROVE \E j \in DOMAIN r : r[j] = q[k]
        <3>1. PICK j \in 1..Len(q) : from[j] = k
            BY <1>1, <1>11
        <3>2. QED
            BY <1>6, <1>10, <3>1
    <2>3. ASSUME NEW x \in ToSet(r) PROVE x \in ToSet(q)
        <3>1. PICK j \in DOMAIN r : x = r[j]
            BY DEF ToSet
        <3>2. QED
            BY <2>1, <3>1 DEF ToSet
    <2>4. ASSUME NEW x \in ToSet(q) PROVE x \in ToSet(r)
        <3>1. PICK k \in DOMAIN q : x = q[k]
            BY DEF ToSet
        <3>2. QED
            BY <2>2, <3>1 DEF ToSet
    <2>5. QED
        BY <2>3, <2>4
<1>14. /\ \A j \in 2..i : r[j] = q[j - 1]
       /\ \A j \in i + 1..Len(q) : r[j] = q[j]
    <2>1. /\ \A j \in 2..i : j \in 2..Len(q) /\ j <= i
          /\ \A j \in i + 1..Len(q) : j \in 2..Len(q) /\ ~(j <= i)
        BY <1>1
    <2>2. QED
        BY <1>7, <2>1
<1>15. QED
    BY <1>4, <1>5, <1>6, <1>12, <1>13, <1>14 DEF IsMoved

----------------------------------------------------------------------------
(* What a step does to the table and the queue. *)

\* A profile whose updated_on is set stays in the table, and it alone becomes fresh.
LEMMA Refreshed ==
    ASSUME Types, NEW s, Refresh(s)
    PROVE  /\ order' \in Seq(Sid) /\ IsInjective(order') /\ ToSet(order') = ToSet(order)
           /\ fresh' \in 0..Len(order') /\ s \in Sid
           /\ \A t : Fresh(t)' => Fresh(t) \/ t = s
<1>1. /\ order \in Seq(Sid) /\ IsInjective(order) /\ fresh \in 0..Len(order)
      /\ DOMAIN order = 1..Len(order) /\ Len(order) \in Nat
    BY InSeq DEF Types, TypeOK
<1>2. PICK i \in 1..Len(order) : order[i] = s /\ order' = <<order[i]>> \o RemoveAt(order, i)
    BY <1>1 DEF Refresh
<1>3. /\ order' \in Seq(Sid) /\ Len(order') = Len(order) /\ IsInjective(order')
      /\ ToSet(order') = ToSet(order) /\ order'[1] = s
      /\ \A j \in 2..i : order'[j] = order[j - 1]
      /\ \A j \in i + 1..Len(order) : order'[j] = order[j]
    <2>1. order' = Ahead(order[i], RemoveAt(order, i))
        BY <1>2 DEF Ahead
    <2>2. IsMoved(order', order, i)
        BY <1>1, <2>1, Moved
    <2>3. QED
        BY <1>2, <2>2 DEF IsMoved
<1>4. Fresh(s) <=> i <= fresh
    <2>1. \A j \in 1..fresh : j \in DOMAIN order
        BY <1>1
    <2>2. \A j \in 1..fresh : order[j] = s => j = i
        BY <1>1, <1>2, <2>1 DEF IsInjective
    <2>3. QED
        BY <1>1, <1>2, <2>2 DEF Fresh
<1>5. fresh' = IF i <= fresh THEN fresh ELSE fresh + 1
    BY <1>4 DEF Refresh
<1>6. ASSUME NEW j \in 1..fresh', j # 1
      PROVE  \E k \in 1..fresh : order'[j] = order[k]
    <2>1. (j \in 2..i /\ j - 1 \in 1..fresh) \/ (j \in i + 1..Len(order) /\ j \in 1..fresh)
        BY <1>1, <1>5, <1>6
    <2>2. QED
        BY <1>3, <2>1
<1>7. \A t : Fresh(t)' => Fresh(t) \/ t = s
    BY <1>3, <1>6 DEF Fresh
<1>8. QED
    BY <1>1, <1>2, <1>3, <1>5, <1>7

\* A queue that has got another job.
LEMMA Enqueued ==
    ASSUME Types, NEW j \in Jobs, queue' = Append(queue, j), j.ids \subseteq ToSet(order),
           ToSet(order) \subseteq ToSet(order')
    PROVE  /\ queue' \in Seq(Jobs)
           /\ \A i \in DOMAIN queue' : queue'[i] \in Jobs /\ queue'[i].ids \subseteq ToSet(order')
           /\ \A k, s : Waits(k, s)' <=> Waits(k, s) \/ (j.kind = k /\ s \in j.ids)
<1>1. /\ queue' \in Seq(Jobs) /\ Len(queue) \in Nat
      /\ DOMAIN queue = 1..Len(queue) /\ DOMAIN queue' = 1..Len(queue) + 1
      /\ \A i \in 1..Len(queue) : queue'[i] = queue[i]
      /\ queue'[Len(queue) + 1] = j
    BY Longer DEF Types
<1>2. \A i \in DOMAIN queue' : (i \in DOMAIN queue /\ queue'[i] = queue[i]) \/ queue'[i] = j
    BY <1>1
<1>3. \A i \in DOMAIN queue : i \in DOMAIN queue' /\ queue'[i] = queue[i]
    BY <1>1
<1>4. Len(queue) + 1 \in DOMAIN queue'
    BY <1>1
<1>5. \A i \in DOMAIN queue : queue[i] \in Jobs /\ queue[i].ids \subseteq ToSet(order)
    <2>1. \A i \in DOMAIN queue : queue[i] \in Jobs
        BY <1>1 DEF Types
    <2>2. \A i \in DOMAIN queue : queue[i].ids \subseteq ToSet(order)
        BY DEF Types, TypeOK
    <2>3. QED
        BY <2>1, <2>2
<1>6. \A k, s : Waits(k, s)' <=> Waits(k, s) \/ (j.kind = k /\ s \in j.ids)
    BY <1>1, <1>2, <1>3, <1>4 DEF Waits
<1>7. QED
    BY <1>1, <1>2, <1>5, <1>6

\* What TypeOK says of the queue.
LEMMA JobType == ASSUME NEW j \in Jobs
                 PROVE  /\ j.kind \in {"summary"} \union FollowUp /\ j.ids \subseteq Sid
                        /\ j.attempts \in 1..MaxAttempts
BY DEF Jobs

LEMMA NewJob ==
    ASSUME NEW kind \in {"summary"} \union FollowUp, NEW ids \in SUBSET Sid
    PROVE  /\ Job(kind, ids) \in Jobs /\ Job(kind, ids).kind = kind /\ Job(kind, ids).ids = ids
<1>1. MaxAttempts \in 1..MaxAttempts
    BY BatchAssumption
<1>2. QED
    BY <1>1 DEF Job, Jobs

LEMMA NothingRuns ==
    /\ Nothing \in RunState /\ Nothing.pc = "idle" /\ Nothing.left = {}
    /\ Nothing.job.kind = "none" /\ Nothing.job.ids = {}
BY DEF Nothing, Job, RunState

LEMMA Faulty == ASSUME TypeOK, UNCHANGED faults \/ Fault PROVE faults' \in 0..MaxFaults
<1>1. faults \in 0..MaxFaults /\ MaxFaults \in Nat
    BY BoundAssumption DEF TypeOK
<1>2. QED
    BY <1>1 DEF Fault

----------------------------------------------------------------------------
(* Each step of the refresh keeps the invariant. *)

LEMMA InitIInv == Init => IInv
<1> SUFFICES ASSUME Init PROVE IInv
    OBVIOUS
<1>1. /\ <<>> \in Seq(Sid) /\ <<>> \in Seq(Jobs) /\ ToSet(<<>>) = {} /\ DOMAIN <<>> = {}
      /\ Len(<<>>) = 0
    BY DEF ToSet
<1>2. IsInjective(order) /\ fresh \in 0..Len(order)
    BY <1>1 DEF Init, IsInjective
<1>3. expiries \in 0..MaxExpiries /\ faults \in 0..MaxFaults
    BY BoundAssumption DEF Init
<1>4. {due, cut} \subseteq [FollowUp -> SUBSET Sid]
    BY DEF Init
<1>5. Types
    BY <1>1, <1>2, <1>3, <1>4, NothingRuns DEF Init, Types, TypeOK, RunShape
<1>6. \A s : ~Fresh(s)
    BY DEF Init, Fresh
<1>7. Covered /\ BanJobsFollow /\ FreshMeansSummarised
    BY <1>1, <1>6, NothingRuns
       DEF Init, Covered, BanJobsFollow, HasBanJob, Waits, FreshMeansSummarised
<1>8. QED
    BY <1>5, <1>7 DEF IInv

LEMMA AddPlayerIInv == ASSUME IInv, NEW s \in Sid, AddPlayer(s) PROVE IInv'
<1>1. /\ s \notin ToSet(order) /\ UNCHANGED <<queue, run, due, cut, current, expiries, faults>>
      /\ order \in Seq(Sid) /\ IsInjective(order) /\ fresh \in 0..Len(order)
      /\ DOMAIN order = 1..Len(order) /\ Len(order) \in Nat
    BY InSeq DEF AddPlayer, IInv, Types, TypeOK
<1>2. \A i \in DOMAIN order : order[i] # s
    BY <1>1 DEF ToSet
<1>3. /\ order' \in Seq(Sid) /\ IsInjective(order') /\ ToSet(order) \subseteq ToSet(order')
      /\ fresh' \in 0..Len(order') /\ excused' \subseteq excused \union {s}
      /\ excused \subseteq excused' /\ \A t : Fresh(t)' => Fresh(t) \/ (t = s /\ s \in excused')
    <2>1. CASE order' = <<s>> \o order /\ fresh' = fresh + 1 /\ excused' = excused \union {s}
        <3>1. order' = Ahead(s, order)
            BY <2>1 DEF Ahead
        <3>2. IsFront(order', s, order)
            BY <1>1, <3>1, InFront
        <3>3. /\ order' \in Seq(Sid) /\ Len(order') = Len(order) + 1
              /\ DOMAIN order' = 1..Len(order) + 1 /\ order'[1] = s
              /\ \A i \in 2..Len(order) + 1 : i - 1 \in 1..Len(order) /\ order'[i] = order[i - 1]
            BY <3>2 DEF IsFront
        <3>4. \A i \in 1..Len(order) + 1 : i = 1 \/ i \in 2..Len(order) + 1
            BY <1>1
        <3>5. IsInjective(order')
            <4> SUFFICES ASSUME NEW i \in 1..Len(order) + 1, NEW j \in 1..Len(order) + 1,
                                order'[i] = order'[j]
                         PROVE  i = j
                BY <3>3 DEF IsInjective
            <4>1. \A k \in 2..Len(order) + 1 : order'[k] # s
                BY <1>1, <1>2, <3>3
            <4>2. i = 1 <=> j = 1
                BY <3>3, <3>4, <4>1
            <4>3. CASE i # 1
                <5>1. /\ i \in 2..Len(order) + 1 /\ j \in 2..Len(order) + 1
                      /\ i - 1 \in DOMAIN order /\ j - 1 \in DOMAIN order
                      /\ order[i - 1] = order[j - 1]
                    BY <1>1, <3>3, <3>4, <4>2, <4>3
                <5>2. i - 1 = j - 1
                    BY <1>1, <5>1 DEF IsInjective
                <5>3. QED
                    BY <1>1, <5>2
            <4>4. QED
                BY <4>2, <4>3
        <3>6. \A i \in 1..Len(order) : i + 1 \in 1..Len(order) + 1 /\ order'[i + 1] = order[i]
            <4>1. \A i \in 1..Len(order) : /\ i + 1 \in 2..Len(order) + 1
                                           /\ i + 1 \in 1..Len(order) + 1 /\ (i + 1) - 1 = i
                BY <1>1
            <4>2. QED
                BY <3>3, <4>1
        <3>7. ToSet(order) \subseteq ToSet(order')
            BY <1>1, <3>3, <3>6, SMTT(30) DEF ToSet
        <3>8. ASSUME NEW t, NEW i \in 1..fresh', order'[i] = t PROVE Fresh(t) \/ t = s
            <4>1. i = 1 \/ (i \in 2..Len(order) + 1 /\ i - 1 \in 1..fresh)
                BY <1>1, <2>1
            <4>2. QED
                BY <3>3, <3>8, <4>1 DEF Fresh
        <3>9. \A t : Fresh(t)' => Fresh(t) \/ (t = s /\ s \in excused')
            BY <2>1, <3>8 DEF Fresh
        <3>10. fresh' \in 0..Len(order')
            BY <1>1, <2>1, <3>3
        <3>11. QED
            BY <2>1, <3>3, <3>5, <3>7, <3>9, <3>10
    <2>2. CASE order' = Append(order, s) /\ UNCHANGED <<fresh, excused>>
        <3>1. /\ order' \in Seq(Sid) /\ Len(order') = Len(order) + 1
              /\ DOMAIN order' = 1..Len(order) + 1
              /\ \A i \in 1..Len(order) : order'[i] = order[i]
              /\ order'[Len(order) + 1] = s
            BY <1>1, <2>2, Longer
        <3>2. \A i \in 1..Len(order) + 1 : i \in 1..Len(order) \/ i = Len(order) + 1
            BY <1>1
        <3>3. IsInjective(order')
            BY <1>1, <1>2, <3>1, <3>2 DEF IsInjective
        <3>4. \A i \in 1..Len(order) : i \in DOMAIN order'
            BY <1>1, <3>1
        <3>5. ToSet(order) \subseteq ToSet(order')
            BY <1>1, <3>1, <3>4 DEF ToSet
        <3>6. \A i \in 1..fresh : i \in 1..Len(order)
            BY <1>1
        <3>7. \A t : Fresh(t)' => Fresh(t)
            BY <2>2, <3>1, <3>6 DEF Fresh
        <3>8. fresh' \in 0..Len(order')
            BY <1>1, <2>2, <3>1
        <3>9. QED
            BY <2>2, <3>1, <3>3, <3>5, <3>7, <3>8
    <2>3. QED
        BY <2>1, <2>2 DEF AddPlayer
<1>4. TypeOK'
    <2>1. ToSet(order') \subseteq Sid
        BY <1>3, InSeq
    <2>2. QED
        BY <1>1, <1>3, <2>1 DEF IInv, Types, TypeOK
<1>5. Types'
    BY <1>1, <1>3, <1>4 DEF IInv, Types, RunShape
<1>6. Covered' /\ BanJobsFollow'
    <2>1. \A k, t : (Waits(k, t)' <=> Waits(k, t)) /\ (Runs(k, t)' <=> Runs(k, t))
        BY <1>1 DEF Waits, Runs
    <2>2. \A t : HasBanJob(t)' <=> HasBanJob(t)
        BY <1>1, <2>1 DEF HasBanJob
    <2>3. QED
        BY <1>1, <1>3, <2>1, <2>2 DEF IInv, Covered, BanJobsFollow
<1>7. FreshMeansSummarised'
    BY <1>1, <1>3 DEF IInv, FreshMeansSummarised
<1>8. QED
    BY <1>5, <1>6, <1>7 DEF IInv

LEMMA ExpireIInv == ASSUME IInv, Expire PROVE IInv'
<1>1. PICK old : old = order[fresh]
    OBVIOUS
<1>2. /\ fresh > 0 /\ expiries < MaxExpiries /\ expiries' = expiries + 1 /\ fresh' = fresh - 1
      /\ current' = current \ {old}
      /\ excused' = IF WillTouch(old) THEN excused \union {old} ELSE excused \ {old}
      /\ UNCHANGED <<order, queue, run, due, cut, faults>>
      /\ order \in Seq(Sid) /\ IsInjective(order) /\ fresh \in 0..Len(order)
      /\ DOMAIN order = 1..Len(order) /\ Len(order) \in Nat
    BY <1>1, InSeq DEF Expire, IInv, Types, TypeOK
<1>3. old \in Sid /\ fresh \in DOMAIN order
    BY <1>1, <1>2
<1>4. expiries' \in 0..MaxExpiries /\ fresh' \in 0..Len(order)
    <2>1. expiries \in 0..MaxExpiries /\ MaxExpiries \in Nat
        BY BoundAssumption DEF IInv, Types, TypeOK
    <2>2. QED
        BY <1>2, <2>1
<1>5. Types'
    <2>1. TypeOK'
        BY <1>2, <1>3, <1>4 DEF IInv, Types, TypeOK
    <2>2. QED
        BY <1>2, <2>1 DEF IInv, Types, RunShape
<1>6. Covered'
    <2>1. \A k, s : (Waits(k, s)' <=> Waits(k, s)) /\ (Runs(k, s)' <=> Runs(k, s))
        BY <1>2 DEF Waits, Runs
    <2>2. QED
        BY <1>2, <2>1 DEF IInv, Covered
<1>7. BanJobsFollow'
    <2>1. HasBanJob(old) => WillTouch(old)
        BY DEF HasBanJob, Waits, WillTouch, IInv, Types, RunShape
    <2>2. \A s : HasBanJob(s)' <=> HasBanJob(s)
        BY <1>2 DEF HasBanJob, Waits
    <2>3. QED
        BY <1>2, <2>1, <2>2 DEF IInv, BanJobsFollow
<1>8. FreshMeansSummarised'
    <2>1. \A i \in 1..fresh' : i \in 1..fresh /\ i \in DOMAIN order /\ i # fresh
        BY <1>2
    <2>2. \A i \in 1..fresh' : order[i] # old
        BY <1>1, <1>2, <1>3, <2>1 DEF IsInjective
    <2>3. \A s : Fresh(s)' => Fresh(s) /\ s # old
        BY <1>2, <2>1, <2>2 DEF Fresh
    <2>4. QED
        BY <1>2, <2>3 DEF IInv, FreshMeansSummarised
<1>9. QED
    BY <1>5, <1>6, <1>7, <1>8 DEF IInv

LEMMA PeriodIInv == ASSUME IInv, Period PROVE IInv'
<1>1. PICK j : j = Job("summary", {})
    OBVIOUS
<1>2. /\ queue' = Append(queue, j)
      /\ UNCHANGED <<order, fresh, run, due, cut, current, excused, expiries, faults>>
    BY <1>1 DEF Period, rows, history
<1>3. j \in Jobs /\ j.kind = "summary" /\ j.ids = {}
    BY <1>1, NewJob
<1>4. /\ queue' \in Seq(Jobs)
      /\ \A i \in DOMAIN queue' : queue'[i] \in Jobs /\ queue'[i].ids \subseteq ToSet(order')
      /\ \A k, s : Waits(k, s)' <=> Waits(k, s)
    BY <1>2, <1>3, Enqueued DEF IInv
<1>5. Types'
    <2>1. TypeOK'
        BY <1>2, <1>4, JobType DEF IInv, Types, TypeOK
    <2>2. QED
        BY <1>2, <1>4, <2>1 DEF IInv, Types, RunShape
<1>6. QED
    BY <1>2, <1>4, <1>5
       DEF IInv, Covered, Runs, BanJobsFollow, HasBanJob, FreshMeansSummarised, Fresh

LEMMA TakeIInv == ASSUME IInv, Take PROVE IInv'
<1>1. PICK j, left : /\ j = Head(queue)
                     /\ left = IF j.kind = "bans" THEN j.ids \intersect Known ELSE {}
    OBVIOUS
<1>2. /\ run = Nothing /\ queue # <<>> /\ queue' = Tail(queue) /\ queue \in Seq(Jobs)
      /\ run' = [job |-> j, pc |-> j.kind, left |-> left]
      /\ UNCHANGED <<order, fresh, due, cut, current, excused, expiries, faults>>
    BY <1>1 DEF Take, Idle, rows, history, IInv, Types
<1>3. /\ j \in Jobs /\ j = queue[1] /\ queue' \in Seq(Jobs) /\ 1 \in DOMAIN queue
      /\ \A i \in DOMAIN queue' : i + 1 \in DOMAIN queue /\ queue'[i] = queue[i + 1]
      /\ \A i \in DOMAIN queue : i # 1 => \E h \in DOMAIN queue' : queue'[h] = queue[i]
    <2>1. /\ j \in Jobs /\ queue' \in Seq(Jobs) /\ Len(queue') = Len(queue) - 1
          /\ \A i \in 1..Len(queue') : queue'[i] = queue[i + 1]
        BY <1>1, <1>2, HeadTailProperties
    <2>2. /\ j = queue[1] /\ Len(queue) \in Nat \ {0}
          /\ DOMAIN queue = 1..Len(queue) /\ DOMAIN queue' = 1..Len(queue')
        BY <1>1, <1>2, <2>1, EmptySeq, InSeq
    <2>3. \A i \in DOMAIN queue' : i + 1 \in DOMAIN queue /\ queue'[i] = queue[i + 1]
        BY <2>1, <2>2
    <2>4. ASSUME NEW i \in DOMAIN queue, i # 1 PROVE \E h \in DOMAIN queue' : queue'[h] = queue[i]
        <3>1. PICK h : h = i - 1
            OBVIOUS
        <3>2. h \in 1..Len(queue') /\ h + 1 = i
            BY <2>1, <2>2, <2>4, <3>1
        <3>3. QED
            BY <2>1, <2>2, <3>2
    <2>5. QED
        BY <2>1, <2>2, <2>3, <2>4
<1>4. /\ \A k, s : Waits(k, s)' => Waits(k, s)
      /\ \A k, s : Waits(k, s) => Waits(k, s)' \/ (j.kind = k /\ s \in j.ids)
      /\ \A s : j.kind = "bans" /\ s \in j.ids => Waits("bans", s)
    BY <1>3 DEF Waits
<1>5. j.kind \in {"summary", "bans", "games"} /\ j.ids \subseteq Sid
    BY <1>3, JobType DEF FollowUp
<1>6. /\ run' \in RunState /\ run'.job = j /\ run'.pc = j.kind /\ run'.left = left
      /\ left \subseteq j.ids /\ j.ids \subseteq ToSet(order)
    <2>1. run' \in RunState /\ run'.job = j /\ run'.pc = j.kind /\ run'.left = left
        BY <1>1, <1>2, <1>3, <1>5 DEF RunState, FollowUp
    <2>2. j.ids \subseteq ToSet(order)
        BY <1>3 DEF IInv, Types, TypeOK
    <2>3. QED
        BY <1>1, <2>1, <2>2
<1>7. Types'
    <2>1. \A i \in DOMAIN queue' : queue'[i] \in Jobs /\ queue'[i].ids \subseteq ToSet(order)
        <3>1. \A i \in DOMAIN queue' : queue'[i] \in Jobs
            BY <1>3, InSeq
        <3>2. \A i \in DOMAIN queue : queue[i].ids \subseteq ToSet(order)
            BY DEF IInv, Types, TypeOK
        <3>3. QED
            BY <1>3, <3>1, <3>2
    <2>2. TypeOK'
        BY <1>2, <1>3, <1>6, <2>1, JobType DEF IInv, Types, TypeOK, RunState
    <2>3. RunShape'
        BY <1>1, <1>3, <1>5, <1>6 DEF RunShape
    <2>4. QED
        BY <1>2, <1>3, <1>6, <2>2, <2>3 DEF IInv, Types
<1>8. Covered'
    <2> SUFFICES ASSUME NEW k \in FollowUp, NEW s \in due[k] \ cut[k]
                 PROVE  Waits(k, s)' \/ (j.kind = k /\ s \in j.ids /\ (k = "bans" => s \in left))
        BY <1>2, <1>6 DEF Covered, Runs
    <2>1. Waits(k, s) /\ s \in Known
        BY <1>2, NothingRuns DEF IInv, Types, Covered, Runs, FollowUp
    <2>2. QED
        BY <1>1, <1>4, <2>1
<1>9. BanJobsFollow'
    <2>1. \A s : HasBanJob(s)' => HasBanJob(s)
        BY <1>4, <1>5, <1>6 DEF HasBanJob
    <2>2. QED
        BY <1>2, <2>1 DEF IInv, BanJobsFollow
<1>10. QED
    BY <1>2, <1>7, <1>8, <1>9 DEF IInv, FreshMeansSummarised, Fresh

\* The running job ends or goes on, the queue and the profiles as they were.
LEMMA RunsOn ==
    ASSUME IInv, UNCHANGED <<order, fresh, queue, current, excused, expiries>>,
           faults' \in 0..MaxFaults, {due, cut}' \subseteq [FollowUp -> SUBSET Sid],
           \A k \in FollowUp : due'[k] \ cut'[k] \subseteq due[k] \ cut[k],
           \A k \in FollowUp : due'[k] \subseteq due[k],
           run' \in RunState, RunShape', run'.left \subseteq run'.job.ids,
           run'.job.ids \subseteq ToSet(order),
           \A k \in FollowUp : \A s \in due'[k] \ cut'[k] : Runs(k, s) => Runs(k, s)',
           \A s \in Known : HasBanJob(s)' => HasBanJob(s)
    PROVE  IInv'
<1>1. TypeOK'
    BY DEF IInv, Types, TypeOK, RunState
<1>2. Types'
    BY <1>1 DEF IInv, Types
<1>3. \A k, s : Waits(k, s)' <=> Waits(k, s)
    BY DEF Waits
<1>4. Covered'
    BY <1>3 DEF IInv, Covered
<1>5. QED
    BY <1>2, <1>4 DEF IInv, BanJobsFollow, FreshMeansSummarised, Fresh

LEMMA ReadExpiredIInv == ASSUME IInv, ReadExpired PROVE IInv'
<1>1. PICK ids \in SUBSET Batch :
        /\ UNCHANGED faults \/ Fault
        /\ run' = IF ids = {} THEN Nothing
                  ELSE [run EXCEPT !.job.ids = ids, !.left = ids, !.pc = "save"]
    BY DEF ReadExpired, NoFault
<1>2. /\ run.pc = "summary" /\ run \in RunState /\ run.job.kind = "summary" /\ run.job \in Jobs
      /\ UNCHANGED <<order, fresh, queue, due, cut, current, excused, expiries>>
    BY DEF ReadExpired, At, rows, history, IInv, Types, RunShape
<1>3. ids \subseteq ToSet(order) /\ ids \subseteq Sid
    BY DEF Batch, ToSet, IInv, Types, TypeOK
<1>4. faults' \in 0..MaxFaults /\ {due, cut}' \subseteq [FollowUp -> SUBSET Sid]
    BY <1>1, <1>2, Faulty DEF IInv, Types, TypeOK
<1>5. \A k \in FollowUp : \A s : ~Runs(k, s)
    BY <1>2 DEF Runs, FollowUp
<1>6. PICK j : j = [run.job EXCEPT !.ids = ids]
    OBVIOUS
<1>7. j \in Jobs /\ j.kind = "summary" /\ j.ids = ids
    BY <1>2, <1>3, <1>6 DEF Jobs
<1>8. run' = Nothing \/ run' = [run EXCEPT !.job = j, !.left = ids, !.pc = "save"]
    BY <1>1, <1>2, <1>6 DEF RunState
<1>9. \/ run' = Nothing
      \/ /\ run' \in RunState /\ run'.job = j /\ run'.left = ids /\ run'.pc = "save"
    BY <1>2, <1>3, <1>7, <1>8 DEF RunState
<1>10. /\ run' \in RunState /\ RunShape' /\ run'.left \subseteq run'.job.ids
       /\ run'.job.ids \subseteq ToSet(order)
    BY <1>3, <1>7, <1>9, NothingRuns DEF RunShape
<1>11. \A s : HasBanJob(s)' => HasBanJob(s)
    BY <1>2, <1>7, <1>9, NothingRuns DEF HasBanJob, Waits
<1>12. QED
    BY <1>2, <1>4, <1>5, <1>10, <1>11, RunsOn

LEMMA BansDoneIInv == ASSUME IInv, BansDone PROVE IInv'
<1>1. /\ run.pc = "bans" /\ run.left = {} /\ run' = Nothing /\ run.job.kind = "bans"
      /\ UNCHANGED <<order, fresh, queue, due, cut, current, excused, expiries, faults>>
    BY DEF BansDone, At, Done, rows, history, IInv, Types, RunShape
<1>2. faults \in 0..MaxFaults /\ {due, cut} \subseteq [FollowUp -> SUBSET Sid]
    BY DEF IInv, Types, TypeOK
<1>3. \A k \in FollowUp : \A s : ~Runs(k, s)
    BY <1>1 DEF Runs
<1>4. \A s : HasBanJob(s)' => HasBanJob(s)
    BY <1>1, NothingRuns DEF HasBanJob, Waits
<1>5. RunShape'
    BY <1>1, NothingRuns DEF RunShape
<1>6. QED
    BY <1>1, <1>2, <1>3, <1>4, <1>5, NothingRuns, RunsOn

LEMMA UpdateGamesIInv == ASSUME IInv, UpdateGames PROVE IInv'
<1>1. /\ run.pc = "games" /\ run' = Nothing /\ run.job.kind = "games"
      /\ due' = [due EXCEPT !["games"] = @ \ run.job.ids]
      /\ UNCHANGED <<order, fresh, queue, cut, current, excused, expiries, faults>>
    BY DEF UpdateGames, At, Done, rows, IInv, Types, RunShape
<1>2. faults \in 0..MaxFaults /\ {due, cut} \subseteq [FollowUp -> SUBSET Sid]
    BY DEF IInv, Types, TypeOK
<1>3. /\ {due, cut}' \subseteq [FollowUp -> SUBSET Sid]
      /\ due'["games"] = due["games"] \ run.job.ids /\ due'["bans"] = due["bans"]
    BY <1>1, <1>2 DEF FollowUp
<1>4. \A k \in FollowUp : \A s \in due'[k] \ cut'[k] : ~Runs(k, s)
    BY <1>1, <1>3 DEF Runs, FollowUp
<1>5. \A k \in FollowUp : due'[k] \subseteq due[k] /\ due'[k] \ cut'[k] \subseteq due[k] \ cut[k]
    BY <1>1, <1>3 DEF FollowUp
<1>6. \A s : HasBanJob(s)' => HasBanJob(s)
    BY <1>1, NothingRuns DEF HasBanJob, Waits
<1>7. RunShape'
    BY <1>1, NothingRuns DEF RunShape
<1>8. QED
    BY <1>1, <1>2, <1>3, <1>4, <1>5, <1>6, <1>7, NothingRuns, RunsOn

LEMMA SaveProfileIInv == ASSUME IInv, SaveProfile PROVE IInv'
<1>1. PICK s \in run.left :
        /\ run' = [run EXCEPT !.left = @ \ {s}]
        /\ \/ /\ s \in Known
              /\ Refresh(s)
              /\ current' = current \union {s}
              /\ due' = [k \in FollowUp |-> due[k] \union {s}]
              /\ cut' = [k \in FollowUp |-> cut[k] \ {s}]
              /\ UNCHANGED excused /\ UNCHANGED faults
           \/ /\ s \notin Known
              /\ UNCHANGED <<order, fresh, due, cut, current, excused, faults>>
           \/ /\ Fault
              /\ excused' = excused \union {s}
              /\ UNCHANGED <<order, fresh, due, cut, current>>
    BY DEF SaveProfile, NoFault, rows, history
<1>2. /\ run.pc = "save" /\ run \in RunState /\ run.job.kind = "summary" /\ run.job \in Jobs
      /\ run.left \subseteq run.job.ids /\ run.job.ids \subseteq Sid
      /\ run.job.ids \subseteq ToSet(order) /\ UNCHANGED <<queue, expiries>>
    BY DEF SaveProfile, At, IInv, Types, TypeOK, RunShape
<1>3. /\ run' \in RunState /\ run'.pc = "save" /\ run'.job = run.job
      /\ run'.left = run.left \ {s}
    BY <1>1, <1>2 DEF RunState
<1>4. /\ order' \in Seq(Sid) /\ IsInjective(order') /\ ToSet(order') = ToSet(order)
      /\ fresh' \in 0..Len(order') /\ (\A t : Fresh(t)' => Fresh(t) \/ (t = s /\ s \in current'))
    <2>1. CASE s \in Known /\ Refresh(s) /\ current' = current \union {s}
        BY <2>1, Refreshed DEF IInv
    <2>2. CASE UNCHANGED <<order, fresh>>
        BY <2>2 DEF IInv, Types, TypeOK, Fresh
    <2>3. QED
        BY <1>1, <2>1, <2>2
<1>5. /\ {due, cut}' \subseteq [FollowUp -> SUBSET Sid] /\ \A k \in FollowUp : due'[k] \subseteq Known
      /\ \A k \in FollowUp : due'[k] \ cut'[k] \subseteq (due[k] \ cut[k]) \union {s}
    <2>1. due \in [FollowUp -> SUBSET Sid] /\ cut \in [FollowUp -> SUBSET Sid] /\ s \in Sid
        BY <1>2 DEF IInv, Types, TypeOK
    <2>2. \A k \in FollowUp : due[k] \subseteq Known
        BY DEF IInv, Types
    <2>3. CASE /\ s \in Known
               /\ due' = [k \in FollowUp |-> due[k] \union {s}]
               /\ cut' = [k \in FollowUp |-> cut[k] \ {s}]
        BY <2>1, <2>2, <2>3
    <2>4. CASE UNCHANGED <<due, cut>>
        BY <2>1, <2>2, <2>4
    <2>5. QED
        BY <1>1, <2>3, <2>4
<1>6. /\ current' \union excused' \subseteq Sid
      /\ current \union excused \subseteq current' \union excused'
      /\ (s \in Known => s \in current' \union excused')
    BY <1>1, <1>2 DEF IInv, Types, TypeOK
<1>7. faults' \in 0..MaxFaults
    BY <1>1, Faulty DEF IInv, Types
<1>8. Types'
    <2>1. TypeOK'
        BY <1>2, <1>3, <1>4, <1>5, <1>6, <1>7, InSeq DEF IInv, Types, TypeOK
    <2>2. QED
        BY <1>2, <1>3, <1>4, <1>5, <2>1 DEF IInv, Types, RunShape
<1>9. \A k, t : Waits(k, t)' <=> Waits(k, t)
    BY <1>2 DEF Waits
<1>10. Covered'
    <2>1. \A k : Runs(k, s)'
        BY <1>1, <1>2, <1>3 DEF Runs
    <2>2. \A k \in FollowUp : \A t : Runs(k, t) => Runs(k, t)'
        BY <1>2, <1>3 DEF Runs, FollowUp
    <2>3. QED
        BY <1>5, <1>9, <2>1, <2>2 DEF IInv, Covered
<1>11. BanJobsFollow'
    <2>1. \A t : HasBanJob(t)' => HasBanJob(t) \/ t = s
        BY <1>2, <1>3, <1>9 DEF HasBanJob
    <2>2. QED
        BY <1>6, <2>1 DEF IInv, BanJobsFollow
<1>12. FreshMeansSummarised'
    BY <1>4, <1>6 DEF IInv, FreshMeansSummarised
<1>13. QED
    BY <1>8, <1>10, <1>11, <1>12 DEF IInv

LEMMA CheckBansIInv == ASSUME IInv, CheckBans PROVE IInv'
<1>1. PICK s \in run.left :
        /\ run' = [run EXCEPT !.left = @ \ {s}]
        /\ \/ /\ Refresh(s) /\ due' = [due EXCEPT !["bans"] = @ \ {s}]
              /\ UNCHANGED cut /\ UNCHANGED faults
           \/ /\ Fault /\ cut' = [cut EXCEPT !["bans"] = @ \union {s}]
              /\ UNCHANGED <<order, fresh, due>>
    BY DEF CheckBans, NoFault, rows
<1>2. /\ run.pc = "bans" /\ run \in RunState /\ run.job.kind = "bans" /\ run.job \in Jobs
      /\ run.left \subseteq run.job.ids /\ run.job.ids \subseteq Sid /\ s \in Known
      /\ run.job.ids \subseteq ToSet(order) /\ UNCHANGED <<queue, current, excused, expiries>>
    BY DEF CheckBans, At, IInv, Types, TypeOK, RunShape
<1>3. /\ run' \in RunState /\ run'.pc = "bans" /\ run'.job = run.job
      /\ run'.left = run.left \ {s}
    BY <1>1, <1>2 DEF RunState
<1>4. /\ order' \in Seq(Sid) /\ IsInjective(order') /\ ToSet(order') = ToSet(order)
      /\ fresh' \in 0..Len(order') /\ (\A t : Fresh(t)' => Fresh(t) \/ t = s)
    <2>1. CASE Refresh(s)
        BY <2>1, Refreshed DEF IInv
    <2>2. CASE UNCHANGED <<order, fresh>>
        BY <2>2 DEF IInv, Types, TypeOK, Fresh
    <2>3. QED
        BY <1>1, <2>1, <2>2
<1>5. /\ {due, cut}' \subseteq [FollowUp -> SUBSET Sid] /\ \A k \in FollowUp : due'[k] \subseteq Known
      /\ \A k \in FollowUp : due'[k] \ cut'[k] \subseteq due[k] \ cut[k]
      /\ s \notin due'["bans"] \ cut'["bans"]
    <2>1. due \in [FollowUp -> SUBSET Sid] /\ cut \in [FollowUp -> SUBSET Sid] /\ s \in Sid
        BY <1>2 DEF IInv, Types, TypeOK
    <2>2. \A k \in FollowUp : due[k] \subseteq Known
        BY DEF IInv, Types
    <2>3. CASE due' = [due EXCEPT !["bans"] = @ \ {s}] /\ UNCHANGED cut
        BY <2>1, <2>2, <2>3 DEF FollowUp
    <2>4. CASE cut' = [cut EXCEPT !["bans"] = @ \union {s}] /\ UNCHANGED due
        BY <2>1, <2>2, <2>4 DEF FollowUp
    <2>5. QED
        BY <1>1, <2>3, <2>4
<1>6. faults' \in 0..MaxFaults
    BY <1>1, Faulty DEF IInv, Types
<1>7. Types'
    <2>1. TypeOK'
        BY <1>2, <1>3, <1>4, <1>5, <1>6, InSeq DEF IInv, Types, TypeOK
    <2>2. RunShape'
        BY <1>2, <1>3 DEF IInv, Types, RunShape
    <2>3. QED
        BY <1>2, <1>3, <1>4, <1>5, <2>1, <2>2 DEF IInv, Types
<1>8. \A k, t : Waits(k, t)' <=> Waits(k, t)
    BY <1>2 DEF Waits
<1>9. Covered'
    <2>1. \A k \in FollowUp : \A t \in due'[k] \ cut'[k] : Runs(k, t) => Runs(k, t)'
        BY <1>2, <1>3, <1>5 DEF Runs, FollowUp
    <2>2. QED
        BY <1>5, <1>8, <2>1 DEF IInv, Covered
<1>10. BanJobsFollow'
    <2>1. \A t : HasBanJob(t)' => HasBanJob(t)
        BY <1>2, <1>3, <1>8 DEF HasBanJob
    <2>2. QED
        BY <1>2, <2>1 DEF IInv, BanJobsFollow
<1>11. FreshMeansSummarised'
    <2>1. HasBanJob(s)
        BY <1>2 DEF HasBanJob
    <2>2. s \in current \union excused
        BY <1>2, <2>1 DEF IInv, BanJobsFollow
    <2>3. QED
        BY <1>2, <1>4, <2>2 DEF IInv, FreshMeansSummarised
<1>12. QED
    BY <1>7, <1>9, <1>10, <1>11 DEF IInv

LEMMA EnqueueBansIInv == ASSUME IInv, EnqueueBans PROVE IInv'
<1>1. PICK j : j = Job("bans", run.job.ids)
    OBVIOUS
<1>2. /\ run.pc = "save" /\ run.left = {} /\ run \in RunState /\ run.job.kind = "summary"
      /\ run.job \in Jobs /\ run.job.ids \subseteq Sid /\ run.job.ids \subseteq ToSet(order)
      /\ queue' = Append(queue, j) /\ run' = [run EXCEPT !.pc = "enqueue games"]
      /\ UNCHANGED <<order, fresh, due, cut, current, excused, expiries, faults>>
    BY <1>1 DEF EnqueueBans, At, rows, history, IInv, Types, TypeOK, RunShape
<1>3. j \in Jobs /\ j.kind = "bans" /\ j.ids = run.job.ids
    <2>1. "bans" \in {"summary"} \union FollowUp /\ run.job.ids \in SUBSET Sid
        BY <1>2 DEF FollowUp
    <2>2. QED
        BY <1>1, <2>1, NewJob
<1>4. /\ queue' \in Seq(Jobs)
      /\ \A i \in DOMAIN queue' : queue'[i] \in Jobs /\ queue'[i].ids \subseteq ToSet(order')
      /\ \A k, s : Waits(k, s)' <=> Waits(k, s) \/ (j.kind = k /\ s \in j.ids)
    BY <1>2, <1>3, Enqueued DEF IInv
<1>5. /\ run' \in RunState /\ run'.pc = "enqueue games" /\ run'.job = run.job /\ run'.left = {}
    BY <1>2 DEF RunState
<1>6. Types'
    <2>1. TypeOK'
        BY <1>2, <1>4, <1>5, JobType DEF IInv, Types, TypeOK
    <2>2. RunShape'
        BY <1>2, <1>5 DEF IInv, Types, RunShape
    <2>3. QED
        BY <1>2, <1>4, <1>5, <2>1, <2>2 DEF IInv, Types
<1>7. Covered'
    <2>1. \A k \in FollowUp : \A s : Runs(k, s) => Runs(k, s)' \/ (k = "bans" /\ s \in j.ids)
        BY <1>2, <1>3, <1>5 DEF Runs, FollowUp
    <2>2. QED
        BY <1>2, <1>3, <1>4, <2>1 DEF IInv, Covered
<1>8. BanJobsFollow'
    <2>1. \A s : HasBanJob(s)' => HasBanJob(s)
        BY <1>2, <1>3, <1>4, <1>5 DEF HasBanJob
    <2>2. QED
        BY <1>2, <2>1 DEF IInv, BanJobsFollow
<1>9. QED
    BY <1>2, <1>6, <1>7, <1>8 DEF IInv, FreshMeansSummarised, Fresh

LEMMA EnqueueGamesIInv == ASSUME IInv, EnqueueGames PROVE IInv'
<1>1. PICK ids, c : ids = run.job.ids /\ c = Cardinality(ids)
    OBVIOUS
<1>2. /\ run.pc = "enqueue games" /\ run.left = {} /\ run \in RunState
      /\ run.job.kind = "summary" /\ run.job \in Jobs
      /\ ids \subseteq Sid /\ ids \subseteq ToSet(order) /\ run' = Nothing
      /\ UNCHANGED <<order, fresh, due, cut, current, excused, expiries, faults>>
    BY <1>1 DEF EnqueueGames, At, Done, rows, history, IInv, Types, TypeOK, RunShape
<1>3. PICK at \in Bijection(1..c, ids) :
        queue' = queue \o [i \in DOMAIN at |-> Job("games", {at[i]})]
    BY <1>1 DEF EnqueueGames
<1>4. c \in Nat
    <2>1. DOMAIN order = 1..Len(order) /\ Len(order) \in Nat /\ order \in Seq(Sid)
        BY InSeq DEF IInv, Types
    <2>2. IsFiniteSet(DOMAIN order)
        BY <2>1, FS_Interval
    <2>3. order \in Surjection(DOMAIN order, ToSet(order))
        BY <2>1 DEF Surjection, ToSet
    <2>4. IsFiniteSet(ToSet(order))
        BY <2>2, <2>3, FS_Surjection
    <2>5. IsFiniteSet(ids)
        BY <1>2, <2>4, FS_Subset
    <2>6. QED
        BY <1>1, <2>5, FS_CardinalityType
<1>5. DOMAIN at = 1..c /\ (\A i \in 1..c : at[i] \in ids) /\ (\A s \in ids : \E i \in 1..c : at[i] = s)
    BY <1>3 DEF Bijection, Injection, Surjection
<1>6. PICK add : add = [i \in 1..c |-> Job("games", {at[i]})]
    OBVIOUS
<1>7. /\ \A i \in 1..c : /\ add[i] \in Jobs /\ add[i].kind = "games" /\ add[i].ids = {at[i]}
      /\ add \in Seq(Jobs) /\ Len(add) = c
    <2>1. \A i \in 1..c : {at[i]} \in SUBSET Sid
        BY <1>2, <1>5
    <2>2. \A i \in 1..c : /\ Job("games", {at[i]}) \in Jobs /\ Job("games", {at[i]}).kind = "games"
                          /\ Job("games", {at[i]}).ids = {at[i]}
        BY <2>1, NewJob DEF FollowUp
    <2>3. \A i \in 1..c : add[i] = Job("games", {at[i]})
        BY <1>6
    <2>4. \A i \in 1..c : add[i] \in Jobs /\ add[i].kind = "games" /\ add[i].ids = {at[i]}
        BY <2>2, <2>3
    <2>5. DOMAIN add = 1..c /\ add = [i \in DOMAIN add |-> add[i]]
        BY <1>6
    <2>6. add \in [1..c -> Jobs]
        BY <2>4, <2>5
    <2>7. add \in Seq(Jobs)
        BY <1>4, <2>6, SeqDef
    <2>8. Len(add) = c
        BY <1>4, <2>5, <2>7, LenProperties
    <2>9. QED
        BY <2>4, <2>7, <2>8
<1>8. PICK q : q = Len(queue)
    OBVIOUS
<1>9. /\ queue' \in Seq(Jobs) /\ q \in Nat /\ DOMAIN queue = 1..q /\ DOMAIN queue' = 1..q + c
      /\ \A i \in 1..q + c : queue'[i] = IF i <= q THEN queue[i] ELSE add[i - q]
    <2>1. queue \in Seq(Jobs) /\ add \in Seq(Jobs) /\ queue' = queue \o add
        BY <1>3, <1>5, <1>6, <1>7 DEF IInv, Types
    <2>2. /\ queue' \in Seq(Jobs) /\ Len(queue') = Len(queue) + Len(add)
          /\ \A i \in 1..Len(queue) + Len(add) :
                queue'[i] = IF i <= Len(queue) THEN queue[i] ELSE add[i - Len(queue)]
        BY <2>1, ConcatProperties
    <2>3. q \in Nat /\ DOMAIN queue = 1..q /\ DOMAIN queue' = 1..Len(queue')
        BY <1>8, <2>1, <2>2, InSeq
    <2>4. QED
        BY <1>7, <1>8, <2>2, <2>3
<1>10. /\ \A i \in 1..q : i \in 1..q + c /\ queue'[i] = queue[i]
       /\ \A i \in 1..q + c : i \in 1..q \/ (i - q \in 1..c /\ queue'[i] = add[i - q])
    BY <1>4, <1>9
<1>11. \A h \in 1..c : q + h \in 1..q + c /\ queue'[q + h] = add[h]
    <2>1. \A h \in 1..c : q + h \in 1..q + c /\ ~(q + h <= q) /\ (q + h) - q = h
        BY <1>4, <1>9
    <2>2. QED
        BY <1>9, <2>1
<1>12. \A k, s : Waits(k, s)' <=> Waits(k, s) \/ (k = "games" /\ s \in ids)
    <2>1. \A k, s : Waits(k, s) => Waits(k, s)'
        BY <1>9, <1>10 DEF Waits
    <2>2. ASSUME NEW s \in ids PROVE Waits("games", s)'
        <3>1. PICK h \in 1..c : at[h] = s
            BY <1>5
        <3>2. q + h \in DOMAIN queue' /\ queue'[q + h].kind = "games" /\ s \in queue'[q + h].ids
            BY <1>7, <1>9, <1>11, <3>1
        <3>3. QED
            BY <3>2 DEF Waits
    <2>3. ASSUME NEW k, NEW s, NEW i \in DOMAIN queue', queue'[i].kind = k, s \in queue'[i].ids
          PROVE  Waits(k, s) \/ (k = "games" /\ s \in ids)
        BY <1>5, <1>7, <1>9, <1>10, <2>3 DEF Waits
    <2>4. QED
        BY <2>1, <2>2, <2>3 DEF Waits
<1>13. \A i \in DOMAIN queue' : queue'[i] \in Jobs /\ queue'[i].ids \subseteq ToSet(order)
    <2>1. \A i \in DOMAIN queue : queue[i].ids \subseteq ToSet(order)
        BY DEF IInv, Types, TypeOK
    <2>2. ASSUME NEW h \in 1..c PROVE add[h].ids \subseteq ToSet(order)
        <3>1. add[h].ids = {at[h]} /\ at[h] \in ids
            BY <1>5, <1>7
        <3>2. QED
            BY <1>2, <3>1
    <2>3. \A i \in DOMAIN queue' : queue'[i] \in Jobs
        BY <1>9, InSeq
    <2>4. QED
        BY <1>9, <1>10, <2>1, <2>2, <2>3
<1>14. Types'
    <2>1. TypeOK'
        BY <1>2, <1>13, JobType, NothingRuns DEF IInv, Types, TypeOK
    <2>2. QED
        BY <1>2, <1>9, <2>1, NothingRuns DEF IInv, Types, RunShape
<1>15. Covered'
    <2>1. \A k \in FollowUp : \A s : Runs(k, s) => k = "games" /\ s \in ids
        BY <1>1, <1>2 DEF Runs, FollowUp
    <2>2. QED
        BY <1>2, <1>12, <2>1 DEF IInv, Covered
<1>16. BanJobsFollow'
    <2>1. \A s : HasBanJob(s)' => HasBanJob(s)
        BY <1>2, <1>12, NothingRuns DEF HasBanJob
    <2>2. QED
        BY <1>2, <2>1 DEF IInv, BanJobsFollow
<1>17. QED
    BY <1>2, <1>14, <1>15, <1>16 DEF IInv, FreshMeansSummarised, Fresh

LEMMA FailIInv == ASSUME IInv, Fail PROVE IInv'
<1>1. PICK j : j = run.job
    OBVIOUS
<1>2. PICK again :
        again = [j EXCEPT !.attempts = @ - 1, !.ids = IF j.kind = "summary" THEN {} ELSE @]
    OBVIOUS
<1>3. /\ run.pc # "idle" /\ Fault /\ run' = Nothing
      /\ cut' = [k \in FollowUp |-> cut[k] \union Lost(k)]
      /\ queue' = IF again.attempts > 0 THEN Append(queue, again) ELSE queue
      /\ UNCHANGED <<order, fresh, due, current, excused, expiries>>
    BY <1>1, <1>2 DEF Fail, Idle, Done, rows, IInv, Types, RunShape
<1>4. j \in Jobs /\ j.ids \subseteq ToSet(order) /\ j.ids \subseteq Sid
    BY <1>1, <1>3 DEF IInv, Types, TypeOK, RunShape
<1>5. /\ again.kind = j.kind /\ again.ids \subseteq j.ids
      /\ (j.kind # "summary" => again.ids = j.ids) /\ again.attempts = j.attempts - 1
    BY <1>2, <1>4 DEF Jobs
<1>6. /\ j.attempts \in 1..MaxAttempts /\ MaxAttempts \in Nat
      /\ (again.attempts > 0 <=> j.attempts # 1)
      /\ (again.attempts > 0 => again \in Jobs)
    <2>1. j.attempts \in 1..MaxAttempts /\ MaxAttempts \in Nat
        BY <1>4, BatchAssumption DEF Jobs
    <2>2. again.attempts > 0 <=> j.attempts # 1
        BY <1>5, <2>1
    <2>3. again.attempts > 0 => j.attempts - 1 \in 1..MaxAttempts
        BY <1>5, <2>1
    <2>4. again.attempts > 0 => again \in Jobs
        BY <1>2, <1>4, <2>3 DEF Jobs
    <2>5. QED
        BY <2>1, <2>2, <2>4
<1>7. /\ queue' \in Seq(Jobs)
      /\ \A i \in DOMAIN queue' : queue'[i] \in Jobs /\ queue'[i].ids \subseteq ToSet(order')
      /\ \A k, s : Waits(k, s)' <=>
            Waits(k, s) \/ (again.attempts > 0 /\ again.kind = k /\ s \in again.ids)
    <2>1. CASE again.attempts > 0
        <3>1. again \in Jobs /\ again.ids \subseteq ToSet(order) /\ queue' = Append(queue, again)
            BY <1>3, <1>4, <1>5, <1>6, <2>1
        <3>2. ToSet(order) \subseteq ToSet(order')
            BY <1>3
        <3>3. QED
            BY <2>1, <3>1, <3>2, Enqueued DEF IInv
    <2>2. CASE ~(again.attempts > 0)
        <3>1. queue' = queue /\ queue \in Seq(Jobs)
            BY <1>3, <2>2 DEF IInv, Types
        <3>2. \A i \in DOMAIN queue : queue[i] \in Jobs
            BY <3>1, InSeq
        <3>3. \A i \in DOMAIN queue : queue[i].ids \subseteq ToSet(order)
            BY DEF IInv, Types, TypeOK
        <3>4. \A k, s : Waits(k, s)' <=> Waits(k, s)
            BY <3>1 DEF Waits
        <3>5. QED
            BY <1>3, <2>2, <3>1, <3>2, <3>3, <3>4
    <2>3. QED
        BY <2>1, <2>2
<1>8. \A k \in FollowUp : Lost(k) \subseteq Sid
    BY <1>1, <1>4 DEF Lost
<1>9. /\ cut \in [FollowUp -> SUBSET Sid] /\ due \in [FollowUp -> SUBSET Sid]
      /\ cut' \in [FollowUp -> SUBSET Sid]
      /\ \A k \in FollowUp : cut'[k] = cut[k] \union Lost(k)
    BY <1>3, <1>8 DEF IInv, Types, TypeOK
<1>10. faults' \in 0..MaxFaults
    BY <1>3, Faulty DEF IInv, Types
<1>11. Types'
    <2>1. TypeOK'
        BY <1>3, <1>7, <1>9, <1>10, JobType, NothingRuns DEF IInv, Types, TypeOK
    <2>2. QED
        BY <1>3, <1>7, <2>1, NothingRuns DEF IInv, Types, RunShape
<1>12. Covered'
    <2> SUFFICES ASSUME NEW k \in FollowUp, NEW s \in due[k] \ cut[k], s \notin Lost(k),
                        ~Waits(k, s)
                 PROVE  again.attempts > 0 /\ again.kind = k /\ s \in again.ids
        BY <1>3, <1>7, <1>9 DEF Covered
    <2>1. Runs(k, s) /\ s \in Known /\ k # "summary"
        BY DEF IInv, Types, Covered, FollowUp
    <2>2. ~(run.pc = "save" /\ s \in run.job.ids \ run.left)
        BY <2>1 DEF Lost, At, IInv, Types, RunShape
    <2>3. ~(run.pc = "enqueue games" /\ k = "games" /\ s \in run.job.ids)
        BY <2>1 DEF Lost, At, IInv, Types, RunShape
    <2>4. j.kind = k /\ s \in j.ids
        BY <1>1, <2>1, <2>2, <2>3 DEF Runs
    <2>5. j.attempts # 1
        BY <1>1, <2>1, <2>4 DEF Lost
    <2>6. QED
        BY <1>5, <1>6, <2>1, <2>4, <2>5
<1>13. BanJobsFollow'
    <2>1. \A s : HasBanJob(s)' => HasBanJob(s)
        BY <1>1, <1>3, <1>5, <1>7, NothingRuns DEF HasBanJob, IInv, Types, RunShape
    <2>2. QED
        BY <1>3, <2>1 DEF IInv, BanJobsFollow
<1>14. QED
    BY <1>3, <1>11, <1>12, <1>13 DEF IInv, FreshMeansSummarised, Fresh

LEMMA NextIInv == ASSUME IInv, Next PROVE IInv' /\ faults' \in 0..MaxFaults
<1>1. ASSUME Step PROVE IInv'
    BY <1>1, TakeIInv, ReadExpiredIInv, SaveProfileIInv, EnqueueBansIInv, EnqueueGamesIInv,
       CheckBansIInv, BansDoneIInv, UpdateGamesIInv DEF Step
<1>2. IInv'
    BY <1>1, AddPlayerIInv, ExpireIInv, PeriodIInv, FailIInv DEF Next
<1>3. QED
    BY <1>2 DEF IInv, Types, TypeOK

\* Steps that leave the refresh alone.
LEMMA RefreshRests ==
    ASSUME IInv, UNCHANGED refresh, faults' \in 0..MaxFaults
    PROVE  IInv'
<1>1. UNCHANGED <<order, fresh, queue, run, due, cut, current, excused, expiries>>
    BY DEF refresh, rows, history
<1>2. \A k, s : (Waits(k, s)' <=> Waits(k, s)) /\ (Runs(k, s)' <=> Runs(k, s))
    BY <1>1 DEF Waits, Runs
<1>3. \A s : (HasBanJob(s)' <=> HasBanJob(s)) /\ (Fresh(s)' <=> Fresh(s))
    BY <1>1, <1>2 DEF HasBanJob, Fresh
<1>4. Types'
    BY <1>1 DEF IInv, Types, TypeOK, RunShape
<1>5. QED
    BY <1>1, <1>2, <1>3, <1>4 DEF IInv, Covered, BanJobsFollow, FreshMeansSummarised

----------------------------------------------------------------------------
(* Each step of the server job keeps its types. *)

LEMMA NoWorkType ==
    /\ Servers!NoWork \in WorkerState /\ Servers!NoWork.pc = "idle"
    /\ Servers!NoWork.server = None /\ Servers!NoWork.todo = {} /\ Servers!NoWork.stats = {}
    /\ Servers!NoWork.steps \in 0..MaxSteps
<1>1. 0 \in 0..MaxSteps
    BY ServersAssumption
<1>2. QED
    BY <1>1 DEF Servers!NoWork, WorkerState

LEMMA ServersStart == Servers!Init => ServersInv
<1>1. 0 \in 0..MaxChanges /\ 0 \in 0..MaxFaults
    BY BoundAssumption, ServersAssumption
<1>2. QED
    BY <1>1, NoWorkType DEF Servers!Init, ServersInv, Servers!TypeOK

\* The tables and caches keep their types; so does the worker.
LEMMA ServersKeep ==
    ASSUME ServersInv, listing' \in [Server -> {"no", "good", "bad"}],
           serverCache' \subseteq servers', servers' \subseteq Server,
           mapCache' \subseteq maps', maps' \subseteq MapName,
           counted' \in BOOLEAN, changes' \in 0..MaxChanges, faults' \in 0..MaxFaults,
           worker' \in WorkerState,
           IF worker'.pc = "map" THEN worker'.server \in worker'.todo ELSE worker'.server = None
    PROVE  ServersInv'
<1>1. worker'.pc \in {"idle", "server", "map", "stats", "counts"}
    BY DEF WorkerState
<1>2. worker'.todo \union worker'.stats \subseteq Server /\ worker'.steps \in 0..MaxSteps
    BY DEF WorkerState
<1>3. QED
    BY <1>1, <1>2 DEF ServersInv, Servers!TypeOK

LEMMA ServersNextInv == ASSUME ServersInv, Servers!Next PROVE ServersInv' /\ faults' \in 0..MaxFaults
<1> USE DEF Servers!TypeOK
<1>1. /\ listing \in [Server -> {"no", "good", "bad"}]
      /\ serverCache \subseteq servers /\ servers \subseteq Server
      /\ mapCache \subseteq maps /\ maps \subseteq MapName
      /\ counted \in BOOLEAN /\ changes \in 0..MaxChanges /\ faults \in 0..MaxFaults
      /\ worker \in WorkerState
      /\ IF worker.pc = "map" THEN worker.server \in worker.todo ELSE worker.server = None
    BY DEF ServersInv
<1>2. MaxChanges \in Nat /\ MaxFaults \in Nat /\ MaxSteps \in Nat
    BY BoundAssumption, ServersAssumption
<1>3. Servers!Change => changes' \in 0..MaxChanges
    BY <1>1, <1>2 DEF Servers!Change
<1>4. Servers!Fault => faults' \in 0..MaxFaults
    BY <1>1, <1>2 DEF Servers!Fault
<1>5. Servers!End => worker' \in WorkerState /\ worker'.pc = "idle" /\ worker'.server = None
    BY NoWorkType DEF Servers!End
<1>6. CASE Servers!Relist
    <2>1. PICK s \in Server, l \in {"no", "good", "bad"} : listing' = [listing EXCEPT ![s] = l]
        BY <1>6 DEF Servers!Relist
    <2>2. listing' \in [Server -> {"no", "good", "bad"}]
        BY <1>1, <2>1
    <2>3. QED
        BY <1>1, <1>3, <1>6, <2>2, ServersKeep DEF Servers!Relist, Servers!tables, Servers!caches
<1>7. CASE Servers!Expire
    <2>1. serverCache' \subseteq serverCache
        BY <1>7 DEF Servers!Expire
    <2>2. QED
        BY <1>1, <1>3, <1>7, <2>1, ServersKeep DEF Servers!Expire, Servers!tables
<1>8. CASE Servers!Start
    <2>1. PICK todo : todo = {s \in Server : listing[s] # "no"}
        OBVIOUS
    <2>2. worker' = [Servers!NoWork EXCEPT !.pc = "server", !.steps = MaxSteps, !.todo = todo]
        BY <1>8, <2>1 DEF Servers!Start
    <2>3. todo \subseteq Server /\ MaxSteps \in 0..MaxSteps
        BY <1>2, <2>1
    <2>4. worker' \in WorkerState /\ worker'.pc = "server" /\ worker'.server = None
        BY <2>2, <2>3, NoWorkType DEF WorkerState
    <2>5. QED
        BY <1>1, <1>8, <2>4, ServersKeep DEF Servers!Start, Servers!tables, Servers!caches
<1>9. CASE Servers!EnsureServer
    <2>1. PICK s \in worker.todo :
            LET next == [worker EXCEPT !.pc = "map", !.server = s] IN
            \/ /\ s \in serverCache
               /\ worker' = next
               /\ UNCHANGED <<servers, serverCache>>
            \/ /\ s \notin serverCache /\ listing[s] = "bad"
               /\ Servers!End
               /\ UNCHANGED <<servers, serverCache>>
            \/ /\ s \notin serverCache /\ listing[s] # "bad"
               /\ worker.steps > 0
               /\ servers' = servers \union {s}
               /\ serverCache' = serverCache \union {s}
               /\ worker' = [next EXCEPT !.steps = @ - 1]
        BY <1>9 DEF Servers!EnsureServer
    <2>2. PICK next : next = [worker EXCEPT !.pc = "map", !.server = s]
        OBVIOUS
    <2>3. /\ s \in Server /\ next \in WorkerState /\ next.pc = "map" /\ next.server = s
          /\ s \in next.todo /\ next.steps = worker.steps /\ worker.steps \in 0..MaxSteps
        BY <1>1, <2>1, <2>2 DEF WorkerState
    <2>4. /\ serverCache' \subseteq servers' /\ servers' \subseteq Server
          /\ worker' \in WorkerState
          /\ IF worker'.pc = "map" THEN worker'.server \in worker'.todo ELSE worker'.server = None
        <3>1. CASE worker' = next /\ UNCHANGED <<servers, serverCache>>
            BY <1>1, <2>3, <3>1
        <3>2. CASE Servers!End /\ UNCHANGED <<servers, serverCache>>
            BY <1>1, <1>5, <3>2
        <3>3. CASE /\ worker.steps > 0
                   /\ servers' = servers \union {s} /\ serverCache' = serverCache \union {s}
                   /\ worker' = [next EXCEPT !.steps = @ - 1]
            <4>1. next.steps - 1 \in 0..MaxSteps
                BY <1>2, <2>3, <3>3
            <4>2. worker' \in WorkerState /\ worker'.pc = "map" /\ worker'.server = s
                  /\ worker'.todo = next.todo
                BY <2>3, <3>3, <4>1 DEF WorkerState
            <4>3. QED
                BY <1>1, <2>3, <3>3, <4>2
        <3>4. QED
            BY <2>1, <2>2, <3>1, <3>2, <3>3
    <2>5. QED
        BY <1>1, <1>9, <2>4, ServersKeep DEF Servers!EnsureServer
<1>10. CASE Servers!EnsureMap
    <2>1. PICK s, n : s = worker.server /\ n = Servers!MapSteps
        OBVIOUS
    <2>2. /\ worker.pc = "map" /\ worker.steps >= n
          /\ maps' = maps \union {MapOf[s]} /\ mapCache' = mapCache \union {MapOf[s]}
          /\ worker' = [worker EXCEPT !.pc = "server", !.server = None, !.steps = @ - n,
                                      !.todo = @ \ {s}, !.stats = @ \union {s}]
        BY <1>10, <2>1 DEF Servers!EnsureMap, Servers!At
    <2>3. /\ s \in Server /\ n \in 0..2 /\ worker.steps \in 0..MaxSteps
          /\ worker.todo \subseteq Server /\ worker.stats \subseteq Server
        BY <1>1, <2>1, <2>2 DEF Servers!MapSteps, WorkerState
    <2>4. MapOf[s] \in MapName /\ worker.steps - n \in 0..MaxSteps
        BY <1>2, <2>2, <2>3, ServersAssumption
    <2>5. worker' \in WorkerState /\ worker'.pc = "server" /\ worker'.server = None
        BY <1>1, <2>2, <2>3, <2>4 DEF WorkerState
    <2>6. QED
        BY <1>1, <1>10, <2>2, <2>4, <2>5, ServersKeep DEF Servers!EnsureMap
<1>11. CASE Servers!InsertStats
    <2>1. /\ worker.pc = "server" /\ worker.steps > 0 /\ worker.steps \in 0..MaxSteps
          /\ worker' = [worker EXCEPT !.pc = "counts", !.steps = @ - 1] \/ Servers!End
        BY <1>1, <1>11 DEF Servers!InsertStats, Servers!At, Servers!End, WorkerState
    <2>2. worker.steps - 1 \in 0..MaxSteps
        BY <1>2, <2>1
    <2>3. worker' \in WorkerState /\ worker'.pc # "map" /\ worker'.server = None
        BY <1>1, <1>5, <2>1, <2>2 DEF WorkerState
    <2>4. QED
        BY <1>1, <1>11, <2>3, ServersKeep DEF Servers!InsertStats, Servers!tables, Servers!caches
<1>12. CASE Servers!InsertCounts
    BY <1>1, <1>5, <1>12, ServersKeep DEF Servers!InsertCounts, Servers!tables, Servers!caches
<1>13. CASE Servers!TimeOut \/ Servers!Fail
    <2>1. /\ Servers!End /\ faults' \in 0..MaxFaults
          /\ UNCHANGED <<listing, servers, maps, serverCache, mapCache, counted, changes>>
        BY <1>1, <1>4, <1>13 DEF Servers!TimeOut, Servers!Fail, Servers!tables, Servers!caches
    <2>2. QED
        BY <1>1, <1>5, <2>1, ServersKeep
<1>14. CASE Servers!Restart
    BY <1>1, <1>4, <1>5, <1>14, ServersKeep DEF Servers!Restart, Servers!tables
<1>15. ServersInv'
    BY <1>6, <1>7, <1>8, <1>9, <1>10, <1>11, <1>12, <1>13, <1>14
       DEF Servers!Next, Servers!JobStep
<1>16. QED
    BY <1>15 DEF ServersInv

----------------------------------------------------------------------------
(* The two parts together. *)

JobsInv == part \in {"profiles", "servers"} /\ IInv /\ ServersInv

LEMMA JobsInductive == JobsSpec => []JobsInv
<1>1. JobsInit => JobsInv
    BY InitIInv, ServersStart DEF JobsInit, JobsInv
<1>2. ASSUME JobsInv, [JobsNext]_<<part, vars, list>> PROVE JobsInv'
    <2>1. faults \in 0..MaxFaults
        BY <1>2 DEF JobsInv, IInv, Types, TypeOK
    <2>2. ASSUME UNCHANGED list, faults' \in 0..MaxFaults PROVE ServersInv'
        BY <1>2, <2>2 DEF JobsInv, ServersInv, Servers!TypeOK, list
    <2>3. CASE Profiles(Next)
        BY <1>2, <2>2, <2>3, NextIInv DEF Profiles, JobsInv
    <2>4. CASE ServerList(Servers!Next)
        BY <1>2, <2>4, ServersNextInv, RefreshRests DEF ServerList, JobsInv
    <2>5. CASE UNCHANGED <<part, vars, list>>
        <3>1. UNCHANGED refresh /\ UNCHANGED faults /\ UNCHANGED list /\ UNCHANGED part
            BY <2>5 DEF vars, refresh
        <3>2. QED
            BY <1>2, <2>1, <2>2, <3>1, RefreshRests DEF JobsInv
    <2>6. QED
        BY <1>2, <2>3, <2>4, <2>5 DEF JobsNext
<1>3. QED
    BY <1>1, <1>2, PTL DEF JobsSpec

----------------------------------------------------------------------------
(* What the jobs of the queue keep. *)

\* No step leaves the tables, the queue, the jobs, or the caches of the server job
\* outside their types: the table has each player once, jobs are for players that are
\* in it, and what is cached is stored.
THEOREM TypesCorrect == JobsSpec => []JobsTypeOK
<1>1. JobsInv => JobsTypeOK
    BY DEF JobsInv, JobsTypeOK, IInv, Types, ServersInv
<1>2. QED
    BY <1>1, JobsInductive, PTL

\* A profile that was saved keeps its follow-up jobs until they have looked it up,
\* unless a fault comes between the save and the jobs (jobs_steam.go:78-106).
THEOREM FollowUpsKept == JobsSpec => []FollowUpsLostToFaultsOnly
<1>1. JobsInv => FollowUpsLostToFaultsOnly
    <2> SUFFICES ASSUME JobsInv, NEW k \in FollowUp, NEW s \in due[k] \ cut[k]
                 PROVE  s \in Pending(k) \/ (run.job.kind = "summary" /\ s \in run.job.ids)
        BY DEF FollowUpsLostToFaultsOnly
    <2>1. Waits(k, s) => s \in Pending(k)
        BY DEF Waits, Pending
    <2>2. run.job.kind = k /\ s \in run.job.ids => s \in Pending(k)
        BY DEF Pending
    <2>3. run.pc \in {"save", "enqueue games"} => run.job.kind = "summary"
        BY DEF JobsInv, IInv, Types, RunShape
    <2>4. Waits(k, s) \/ Runs(k, s)
        BY DEF JobsInv, IInv, Covered
    <2>5. QED
        BY <2>1, <2>2, <2>3, <2>4 DEF Runs
<1>2. QED
    BY <1>1, JobsInductive, PTL

\* A profile that looks fresh has had its summary saved since it expired last, or is
\* excused: a ban job, which sets updated_on too, is for profiles whose summary was
\* saved or whose save failed (jobs_steam.go, store.go:165).
THEOREM FreshIsSummarised == JobsSpec => []FreshMeansSummarised
<1>1. JobsInv => FreshMeansSummarised
    BY DEF JobsInv, IInv
<1>2. QED
    BY <1>1, JobsInductive, PTL
=============================================================================
