---------------------------- MODULE LogsTFProofs ----------------------------
(***************************************************************************)
(* For any number of threads and logs, and whoever played in them: the     *)
(* type invariant of LogsTF, that no log is passed over silently, and that *)
(* races over a new player never have only losers.                         *)
(***************************************************************************)
EXTENDS LogsTF, WellFoundedInduction, TLAPS

----------------------------------------------------------------------------
(* The inductive invariant. *)

ThreadState == [pc   : {"idle", "get", "limited", "retry", "select", "insert"},
                log  : Log,
                left : SUBSET Player,
                read : SUBSET (Log \union Player)]

JobState == [pc : {"idle", "index", "run"}, next : 1..MaxLog + 1, last : Nat, late : BOOLEAN]

\* A thread without a log is Resting altogether. One that writes has a log that
\* can be parsed, and has made sure of the players that are not left; when it
\* inserts one, it is one of those left.
ThreadShape ==
    \A t \in Thread :
        /\ At(t, "idle") => thread[t] = Resting
        /\ At(t, "retry") => thread[t].read \subseteq Log
        /\ At(t, "select") \/ At(t, "insert") =>
            /\ thread[t].log \in Parsable
            /\ thread[t].left \subseteq Players[thread[t].log]
            /\ Players[thread[t].log] \ thread[t].left \subseteq player
        /\ At(t, "insert") => \E p \in thread[t].left : thread[t].read = {p}

\* Threads work in a run only, and a run begins behind all that is stored.
JobShape ==
    /\ job.pc = "idle" => job = NoJob
    /\ job.pc = "index" => job.last = 0
    /\ job.pc # "run" => Quiet
    /\ job.pc # "idle" => \A i \in stored \union {1} : i < job.next

\* What the threads hold was taken from the queue, once, and is not stored.
HeldApart ==
    \A t \in Thread : ~At(t, "idle") =>
        /\ thread[t].log < job.next
        /\ thread[t].log \notin stored
        /\ \A u \in Thread \ {t} : ~At(u, "idle") => thread[u].log # thread[t].log

DealtWith == stored \union Pending \union lost

\* A run deals with all that is before the head of its queue.
RunPassesNothing ==
    job.pc # "idle" => \A i \in Parsable : 1 < i /\ i < job.next => i \in DealtWith

\* What needs a fault to happen.
Faultless ==
    faults = 0 =>
        /\ ~job.late
        /\ \A i \in Log \union {Index} : page[i] # "limited"
        /\ \A t \in Thread : ~At(t, "limited") /\ ~At(t, "retry")

\* A thread that will find its player inserted by another.
Doomed == {thread[t].log : t \in {u \in Thread : At(u, "insert") /\ thread[u].read \subseteq player}}

Losers == (lost \intersect Parsable) \union Doomed

Linked(S) == \E i \in S, j \in DealtWith \ S : Share(i, j)

\* Every set of losers, those of the future with them, shares a player with a log
\* outside of the set.
LosersLinked == faults = 0 => \A S \in SUBSET Losers : S # {} => Linked(S)

\* Logs that an earlier run lost, and this run takes or will take once more.
Again == {i \in lost \intersect Parsable :
            i >= job.next \/ \E t \in Thread : ~At(t, "idle") /\ thread[t].log = i}

\* Logs that no race can lose any more.
Settled == stored \union (lost \ Parsable)

\* So a log that is taken again was not lost to one that may still lose.
AgainLinked ==
    faults = 0 =>
        \A S \in SUBSET (DealtWith \ Settled) : S \intersect Again # {} => Linked(S)

IInv ==
    /\ TypeOK
    /\ thread \in [Thread -> ThreadState]
    /\ job \in JobState
    /\ ThreadShape
    /\ JobShape
    /\ HeldApart
    /\ RunPassesNothing
    /\ NoLogPassedOver
    /\ Faultless
    /\ LosersLinked
    /\ AgainLinked

----------------------------------------------------------------------------
(* The newest stored log. *)

\* The greatest of some naturals below a bound: one below their least bound is
\* not a bound.
LEMMA MaxOfBounded ==
    ASSUME NEW S \in SUBSET Nat, S # {}, NEW n \in Nat, \A i \in S : i <= n
    PROVE  Max(S) \in S /\ \A i \in S : i <= Max(S)
<1> DEFINE Bounds == {k \in Nat : \A i \in S : i <= k}
<1>1. PICK b \in Bounds : \A k \in Bounds : ~(<<k, b>> \in OpToRel(<, Nat))
    <2>1. Bounds \subseteq Nat /\ Bounds # {}
        OBVIOUS
    <2>2. QED
        BY <2>1, WFMin, NatLessThanWellFounded
<1>2. \A k \in Bounds : ~(k < b)
    BY <1>1 DEF OpToRel
<1>3. b \in S
    <2>1. SUFFICES ASSUME b \notin S PROVE FALSE
        OBVIOUS
    <2>2. \A i \in S : i \in Nat /\ i < b
        BY <2>1
    <2>3. b - 1 \in Bounds
        <3>1. PICK i \in S : TRUE
            OBVIOUS
        <3>2. b \in Nat /\ b # 0
            BY <2>2, <3>1
        <3>3. \A j \in S : j <= b - 1
            BY <2>2, <3>2
        <3>4. QED
            BY <3>2, <3>3
    <2>4. QED
        BY <1>2, <2>3
<1>4. \E m \in S : \A i \in S : m >= i
    BY <1>3
<1>5. QED
    BY <1>4 DEF Max

Newest == Max(stored \union {1})

LEMMA NewestStored ==
    ASSUME TypeOK
    PROVE  /\ Newest \in stored \union {1}
           /\ Newest \in Log
           /\ \A i \in stored : i <= Newest
<1>1. stored \union {1} \in SUBSET Nat /\ \A i \in stored \union {1} : i \in Log
    BY LogAssumption DEF TypeOK, Log
<1>2. \A i \in stored \union {1} : i <= MaxLog
    BY <1>1, LogAssumption DEF Log
<1>3. Newest \in stored \union {1} /\ \A i \in stored \union {1} : i <= Newest
    BY <1>1, <1>2, MaxOfBounded, LogAssumption DEF Newest
<1>4. QED
    BY <1>1, <1>3

----------------------------------------------------------------------------
(* Sets of losers. *)

LEMMA NothingIn ==
    /\ \A S \in SUBSET {} : S = {}
    /\ \A S : S \intersect {} = {}
OBVIOUS

LEMMA LosersStayLinked ==
    ASSUME LosersLinked, faults' = 0 => faults = 0,
           DealtWith \subseteq DealtWith', Losers' \subseteq Losers
    PROVE  LosersLinked'
BY DEF LosersLinked, Linked

LEMMA AgainStaysLinked ==
    ASSUME AgainLinked, faults' = 0 => faults = 0,
           DealtWith \subseteq DealtWith', Again' \subseteq Again, Settled \subseteq Settled'
    PROVE  AgainLinked'
<1> SUFFICES ASSUME faults' = 0, NEW S \in SUBSET (DealtWith' \ Settled'),
                    S \intersect Again' # {}
             PROVE  Linked(S)'
    BY DEF AgainLinked
<1> DEFINE T == S \intersect DealtWith
<1>1. T \in SUBSET (DealtWith \ Settled) /\ T \intersect Again # {}
    BY DEF Again, DealtWith
<1>2. Linked(T)
    BY <1>1 DEF AgainLinked
<1>3. QED
    BY <1>2 DEF Linked

\* At the end of a run nothing is pending: what is left of the losers is lost.
LEMMA QuietAgain ==
    ASSUME LosersLinked, Pending = {}
    PROVE  faults = 0 => \A S \in SUBSET (DealtWith \ Settled) : S # {} => Linked(S)
<1>1. DealtWith \ Settled \subseteq Losers
    BY DEF DealtWith, Settled, Losers
<1>2. \A S \in SUBSET (DealtWith \ Settled) : S \in SUBSET Losers
    BY <1>1
<1>3. QED
    BY <1>2 DEF LosersLinked

----------------------------------------------------------------------------
(* Initially, and what the invariant is for. *)

LEMMA InitIInv == Init => IInv
<1> SUFFICES ASSUME Init PROVE IInv
    OBVIOUS
<1> USE DEF Init
<1>1. Resting \in ThreadState /\ NoJob \in JobState /\ Resting.pc = "idle" /\ NoJob.pc = "idle"
    BY LogAssumption DEF Resting, ThreadState, NoJob, JobState, Log
<1>2. TypeOK
    BY <1>1, LogAssumption, FaultsAssumption DEF TypeOK, Log, Index, NoJob, Resting
<1>3. ThreadShape /\ JobShape /\ HeldApart /\ RunPassesNothing
    BY <1>1 DEF ThreadShape, JobShape, HeldApart, RunPassesNothing, At, Quiet
<1>4. NoLogPassedOver
    <2>1. Newest = 1
        BY <1>2, NewestStored
    <2>2. QED
        BY <2>1, LogAssumption DEF NoLogPassedOver, Newest, Log
<1>5. Faultless
    BY <1>1 DEF Faultless, At, Index, NoJob
<1>6. LosersLinked /\ AgainLinked
    <2>1. Losers = {} /\ Again = {}
        BY <1>1 DEF Losers, Doomed, Again, At
    <2>2. QED
        BY <2>1, NothingIn DEF LosersLinked, AgainLinked
<1>7. QED
    BY <1>1, <1>2, <1>3, <1>4, <1>5, <1>6 DEF IInv

LEMMA IInvRaces == IInv => RacesHaveWinners
<1> SUFFICES ASSUME IInv, faults = 0, NEW raced \in (SUBSET (lost \intersect Parsable)) \ {{}}
             PROVE  \E i \in raced, j \in DealtWith \ raced : Share(i, j)
    BY DEF RacesHaveWinners, DealtWith
<1>1. raced \in SUBSET Losers /\ raced # {}
    BY DEF Losers
<1>2. QED
    BY <1>1 DEF IInv, LosersLinked, Linked

----------------------------------------------------------------------------
(* The run. *)

LEMMA StartIInv == ASSUME IInv, Start PROVE IInv'
<1> USE DEF IInv
<1>1. /\ job = NoJob /\ Quiet
      /\ job'.pc = "index" /\ job'.next = Newest + 1 /\ job'.last = 0 /\ job'.late = FALSE
      /\ job' \in JobState
    <2>1. job = NoJob /\ Quiet
        BY DEF Start, JobShape
    <2>2. job' = [pc |-> "index", next |-> Newest + 1, last |-> 0, late |-> FALSE]
        BY DEF Start, NoJob, Newest
    <2>3. Newest + 1 \in 1..MaxLog + 1
        BY NewestStored, LogAssumption DEF Log
    <2>4. QED
        BY <2>1, <2>2, <2>3 DEF JobState
<1>2. UNCHANGED <<published, index, page, stored, player, thread, lost, faults>> /\ retries' = {}
    BY DEF Start, site, db
<1>3. Pending = {} /\ Pending' = {}
    BY <1>1, <1>2, NewestStored, LogAssumption DEF Pending, NoJob, Quiet, At, Log
<1>4. TypeOK'
    BY <1>1, <1>2 DEF TypeOK, Log, JobState
<1>5. thread' \in [Thread -> ThreadState] /\ ThreadShape' /\ HeldApart'
    BY <1>1, <1>2 DEF ThreadShape, HeldApart, Quiet, At
<1>6. JobShape'
    BY <1>1, <1>2, NewestStored, LogAssumption DEF JobShape, Quiet, At, TypeOK, Log
<1>7. RunPassesNothing'
    <2> SUFFICES ASSUME NEW i \in Parsable, 1 < i, i < Newest + 1
                 PROVE  i \in stored \union lost
        BY <1>1, <1>2 DEF RunPassesNothing, DealtWith
    <2>1. CASE i = Newest
        BY <2>1, NewestStored
    <2>2. CASE i < Newest
        BY <2>2, <1>3 DEF NoLogPassedOver, Newest
    <2>3. QED
        BY <2>1, <2>2, NewestStored, LogAssumption DEF Log
<1>8. NoLogPassedOver' /\ Faultless'
    BY <1>1, <1>2, <1>3 DEF NoLogPassedOver, Faultless, At
<1>9. LosersLinked' /\ AgainLinked'
    <2>1. DealtWith' = DealtWith /\ Losers' = Losers /\ Settled' = Settled
        BY <1>2, <1>3 DEF DealtWith, Losers, Doomed, At, Settled
    <2>2. LosersLinked'
        BY <2>1, <1>2 DEF LosersLinked, Linked
    <2>3. QED
        BY <2>1, <2>2, <1>2, <1>3, QuietAgain DEF AgainLinked, Linked
<1>10. QED
    BY <1>1, <1>4, <1>5, <1>6, <1>7, <1>8, <1>9

\* What is pending when the run stops is lost.
LEMMA StopEffect ==
    ASSUME IInv, Stop, UNCHANGED <<published, stored, player>>
    PROVE  /\ thread' \in [Thread -> ThreadState] /\ job' \in JobState
           /\ job'.pc = "idle" /\ job'.last = 0 /\ retries' = {}
           /\ \A t \in Thread : thread'[t] = Resting /\ thread'[t].pc = "idle"
           /\ ThreadShape' /\ JobShape' /\ HeldApart'
           /\ RunPassesNothing' /\ NoLogPassedOver'
           /\ lost' \subseteq Log \ stored'
<1> USE DEF IInv
<1>1. Resting \in ThreadState /\ NoJob \in JobState /\ Resting.pc = "idle" /\ NoJob.pc = "idle"
    BY LogAssumption DEF Resting, ThreadState, NoJob, JobState, Log
<1>2. /\ thread' \in [Thread -> ThreadState] /\ job' \in JobState
      /\ job' = NoJob /\ retries' = {}
      /\ \A t \in Thread : thread'[t] = Resting
    BY <1>1 DEF Stop
<1>3. ThreadShape' /\ JobShape' /\ HeldApart' /\ RunPassesNothing'
    BY <1>1, <1>2 DEF ThreadShape, JobShape, HeldApart, RunPassesNothing, Quiet, At
<1>4. Pending \subseteq Log
    BY LogAssumption DEF Pending, TypeOK, JobState, ThreadState, Log
<1>5. lost' = lost \union (Pending \ stored)
    BY DEF Stop
<1>6. lost' \subseteq Log \ stored'
    BY <1>4, <1>5 DEF TypeOK
<1>7. NoLogPassedOver'
    BY <1>5 DEF NoLogPassedOver
<1>8. NoJob.last = 0
    BY DEF NoJob
<1>9. QED
    BY <1>1, <1>2, <1>3, <1>6, <1>7, <1>8

LEMMA ReadIndexIInv == ASSUME IInv, ReadIndex PROVE IInv'
<1> USE DEF IInv
<1>1. /\ job.pc = "index" /\ UNCHANGED <<published, stored, player>>
      /\ Quiet /\ job.last = 0 /\ job.next \in 1..MaxLog + 1 /\ 1 < job.next
    BY DEF ReadIndex, db, JobShape, JobState
<1>2. Pending = {}
    BY <1>1, LogAssumption DEF Pending, Quiet, At
<1>3. ASSUME UNCHANGED <<thread, retries, lost, faults>>, page'[Index] = "html",
             page' = page \/ page' = [page EXCEPT ![Index] = "html"],
             index' \in 1..published, job' = [job EXCEPT !.pc = "run", !.last = Last(index')]
      PROVE  IInv'
    <2>1. /\ job'.pc = "run" /\ job'.next = job.next /\ job'.late = job.late
          /\ job'.last \in Nat /\ job'.last < published /\ job' \in JobState
        <3>1. index' - 1 \in Nat /\ index' - 1 < published
            BY <1>3 DEF TypeOK, Log
        <3>2. job' = [job EXCEPT !.pc = "run", !.last = index' - 1]
            BY <1>3 DEF Last
        <3>3. QED
            BY <3>1, <3>2 DEF JobState
    <2>2. TypeOK'
        BY <1>1, <1>3, <2>1 DEF TypeOK, JobState, Index
    <2>3. ThreadShape' /\ JobShape' /\ HeldApart'
        BY <1>1, <1>3, <2>1 DEF ThreadShape, JobShape, HeldApart, Quiet, At
    <2>4. /\ DealtWith \subseteq DealtWith' /\ Pending \subseteq Pending'
          /\ Losers' = Losers /\ Again' = Again /\ Settled' = Settled
        BY <1>1, <1>2, <1>3, <2>1 DEF DealtWith, Losers, Doomed, Again, Settled, At
    <2>5. RunPassesNothing'
        BY <1>1, <2>1, <2>4 DEF RunPassesNothing
    <2>6. NoLogPassedOver'
        BY <1>1, <1>3, <2>4 DEF NoLogPassedOver
    <2>7. Faultless'
        BY <1>3, <2>1 DEF Faultless, At, TypeOK
    <2>8. LosersLinked' /\ AgainLinked'
        BY <1>3, <2>4, LosersStayLinked, AgainStaysLinked
    <2>9. QED
        BY <1>3, <2>1, <2>2, <2>3, <2>5, <2>6, <2>7, <2>8
<1>4. ASSUME job' = NoJob, UNCHANGED <<site, thread, retries, lost>>, Fault
      PROVE  IInv'
    <2>1. NoJob \in JobState /\ NoJob.pc = "idle" /\ NoJob.last = 0 /\ NoJob.next = 1
        BY LogAssumption DEF NoJob, JobState
    <2>2. faults' \in 1..MaxFaults
        BY <1>4, FaultsAssumption DEF Fault, TypeOK
    <2>3. TypeOK'
        <3>1. 1 \in 1..MaxLog + 1 /\ 0 < published
            BY LogAssumption DEF TypeOK, Log
        <3>2. QED
            BY <1>1, <1>4, <2>1, <2>2, <3>1 DEF TypeOK, site
    <2>4. ThreadShape' /\ JobShape' /\ HeldApart' /\ RunPassesNothing'
        BY <1>1, <1>4, <2>1 DEF ThreadShape, JobShape, HeldApart, RunPassesNothing, Quiet, At
    <2>5. NoLogPassedOver'
        BY <1>1, <1>2, <1>4 DEF NoLogPassedOver
    <2>6. Faultless' /\ LosersLinked' /\ AgainLinked'
        BY <2>2 DEF Faultless, LosersLinked, AgainLinked
    <2>7. QED
        BY <1>4, <2>1, <2>3, <2>4, <2>5, <2>6
<1>5. ASSUME page[Index] \in {"none", "limited"},
             IF page[Index] = "none" THEN Fault ELSE NoFault,
             page' = [page EXCEPT ![Index] = "limited"], Stop, UNCHANGED index
      PROVE  IInv'
    <2>1. faults' \in 1..MaxFaults
        <3>1. CASE page[Index] = "none"
            BY <1>5, <3>1, FaultsAssumption DEF Fault, TypeOK
        <3>2. CASE page[Index] = "limited"
            BY <1>5, <3>2 DEF NoFault, Faultless, TypeOK
        <3>3. QED
            BY <1>5, <3>1, <3>2
    <2>2. TypeOK'
        <3>1. /\ page' \in [Log \union {Index} -> {"none", "html", "limited"}]
              /\ index' = 0 <=> page'[Index] # "html"
            BY <1>5 DEF TypeOK, Index
        <3>2. QED
            BY <1>1, <1>5, <2>1, <3>1, StopEffect, LogAssumption DEF TypeOK, JobState, Log
    <2>3. Faultless' /\ LosersLinked' /\ AgainLinked'
        BY <2>1 DEF Faultless, LosersLinked, AgainLinked
    <2>4. QED
        BY <1>1, <1>5, <2>2, <2>3, StopEffect
<1>6. CASE page[Index] = "html" /\ job' = [job EXCEPT !.pc = "run", !.last = Last(index)]
           /\ UNCHANGED <<site, thread, retries, lost>> /\ NoFault
    <2>1. index' = index /\ page' = page /\ index \in 1..published /\ faults' = faults
        BY <1>6 DEF site, TypeOK, Log, NoFault
    <2>2. QED
        BY <1>3, <1>6, <2>1
<1>7. CASE page[Index] = "none" /\ index' = published /\ page' = [page EXCEPT ![Index] = "html"]
           /\ job' = [job EXCEPT !.pc = "run", !.last = Last(published)]
           /\ UNCHANGED <<thread, retries, lost>> /\ NoFault
    <2>1. index' \in 1..published /\ page'[Index] = "html" /\ faults' = faults
        BY <1>7, LogAssumption DEF TypeOK, Log, NoFault
    <2>2. QED
        BY <1>3, <1>7, <2>1
<1>8. QED
    BY <1>4, <1>5, <1>6, <1>7 DEF ReadIndex

LEMMA TimeOutIInv == ASSUME IInv, TimeOut PROVE IInv'
<1> USE DEF IInv
<1>1. /\ job' = [job EXCEPT !.late = TRUE]
      /\ UNCHANGED <<published, index, page, stored, player, thread, retries, lost>>
    BY DEF TimeOut, site, db
<1>2. job'.pc = job.pc /\ job'.next = job.next /\ job'.last = job.last /\ job' \in JobState
      /\ job.pc # "idle"
    BY <1>1 DEF JobState, TimeOut
<1>3. faults' \in 1..MaxFaults
    BY FaultsAssumption DEF TimeOut, Fault, TypeOK
<1>4. TypeOK'
    BY <1>1, <1>2, <1>3 DEF TypeOK
<1>5. ThreadShape' /\ JobShape' /\ HeldApart'
    BY <1>1, <1>2 DEF ThreadShape, JobShape, HeldApart, Quiet, At
<1>6. Pending' = Pending
    BY <1>1, <1>2 DEF Pending, At
<1>7. RunPassesNothing' /\ NoLogPassedOver'
    BY <1>1, <1>2, <1>6 DEF RunPassesNothing, NoLogPassedOver, DealtWith
<1>8. Faultless' /\ LosersLinked' /\ AgainLinked'
    BY <1>3 DEF Faultless, LosersLinked, AgainLinked
<1>9. QED
    BY <1>1, <1>2, <1>4, <1>5, <1>7, <1>8

LEMMA FinishIInv == ASSUME IInv, Finish PROVE IInv'
<1> USE DEF IInv
<1>1. /\ job.pc = "run" /\ job.next > job.last /\ Quiet /\ job' = NoJob
      /\ UNCHANGED <<published, index, page, stored, player, thread, retries, lost, faults>>
    BY DEF Finish, site, db
<1>2. NoJob \in JobState /\ NoJob.pc = "idle" /\ NoJob.last = 0 /\ NoJob.next = 1 /\ ~NoJob.late
    BY LogAssumption DEF NoJob, JobState
<1>3. Pending = {} /\ Pending' = {}
    BY <1>1, <1>2, LogAssumption DEF Pending, Quiet, At, JobState
<1>4. 1 \in 1..MaxLog + 1 /\ 0 < published
    BY LogAssumption DEF TypeOK, Log
<1>5. TypeOK'
    BY <1>1, <1>2, <1>4 DEF TypeOK
<1>6. ThreadShape' /\ JobShape' /\ HeldApart' /\ RunPassesNothing'
    BY <1>1, <1>2 DEF ThreadShape, JobShape, HeldApart, RunPassesNothing, Quiet, At
<1>7. NoLogPassedOver'
    BY <1>1, <1>3 DEF NoLogPassedOver
<1>8. Faultless'
    BY <1>1, <1>2 DEF Faultless, At
<1>9. LosersLinked' /\ AgainLinked'
    <2>1. DealtWith' = DealtWith /\ Losers' = Losers /\ Settled' = Settled
        BY <1>1, <1>3 DEF DealtWith, Losers, Doomed, At, Settled
    <2>2. LosersLinked'
        BY <2>1, <1>1 DEF LosersLinked, Linked
    <2>3. QED
        BY <2>1, <2>2, <1>1, <1>3, QuietAgain DEF AgainLinked, Linked
<1>10. QED
    BY <1>1, <1>2, <1>5, <1>6, <1>7, <1>8, <1>9

LEMMA CrashIInv == ASSUME IInv, Crash PROVE IInv'
<1> USE DEF IInv
<1>1. Stop /\ UNCHANGED <<published, index, page, stored, player>>
    BY DEF Crash, site, db
<1>2. faults' \in 1..MaxFaults
    BY FaultsAssumption DEF Crash, Fault, TypeOK
<1>3. TypeOK'
    <2>1. job'.pc = "idle" /\ job'.next \in 1..MaxLog + 1 /\ job'.last < published'
        BY <1>1, StopEffect, LogAssumption DEF TypeOK, JobState, Log
    <2>2. \A t \in Thread : thread'[t].pc = "idle" /\ thread'[t] = Resting
        BY <1>1, StopEffect
    <2>3. lost' \subseteq Log \ stored' /\ retries' = {}
        BY <1>1, StopEffect
    <2>4. QED
        BY <1>1, <1>2, <2>1, <2>2, <2>3 DEF TypeOK
<1>4. Faultless' /\ LosersLinked' /\ AgainLinked'
    BY <1>2 DEF Faultless, LosersLinked, AgainLinked
<1>5. QED
    BY <1>1, <1>3, <1>4, StopEffect

LEMMA PublishIInv == ASSUME IInv, Publish PROVE IInv'
<1> USE DEF IInv
<1>1. UNCHANGED <<index, page, stored, player, job, thread, retries, lost, faults>>
    BY DEF Publish, site, db
<1>2. TypeOK'
    <2>1. /\ published \in Nat /\ published' = published + 1
          /\ published' \in Log /\ index' \in 0..published'
        BY <1>1, LogAssumption DEF TypeOK, Publish, Log
    <2>2. job'.last < published'
        BY <1>1, <2>1 DEF TypeOK, JobState
    <2>3. QED
        BY <1>1, <2>1, <2>2 DEF TypeOK
<1>3. ThreadShape' /\ JobShape' /\ HeldApart' /\ Faultless'
    BY <1>1 DEF ThreadShape, JobShape, HeldApart, Faultless, Quiet, At
<1>4. Pending' = Pending /\ Losers' = Losers /\ Again' = Again /\ Settled' = Settled
    BY <1>1 DEF Pending, Losers, Doomed, Again, Settled, At
<1>5. RunPassesNothing' /\ NoLogPassedOver' /\ DealtWith' = DealtWith
    BY <1>1, <1>4 DEF RunPassesNothing, NoLogPassedOver, DealtWith
<1>6. LosersLinked' /\ AgainLinked'
    BY <1>1, <1>4, <1>5, LosersStayLinked, AgainStaysLinked
<1>7. QED
    BY <1>1, <1>2, <1>3, <1>5, <1>6

----------------------------------------------------------------------------
(* A thread. *)

\* A thread that keeps its log disturbs nothing that is said of the logs.
LEMMA KeepEffect ==
    ASSUME IInv, NEW t \in Thread, ~At(t, "idle"), thread'[t].pc # "idle",
           thread' \in [Thread -> ThreadState], thread'[t].log = thread[t].log,
           \A u \in Thread \ {t} : thread'[u] = thread[u],
           UNCHANGED <<stored, job, lost>>
    PROVE  /\ JobShape' /\ HeldApart' /\ RunPassesNothing' /\ NoLogPassedOver'
           /\ DealtWith' = DealtWith /\ Again' = Again /\ Settled' = Settled
<1> USE DEF IInv
<1>1. /\ \A u \in Thread : thread'[u].log = thread[u].log
      /\ \A u \in Thread : At(u, "idle")' <=> At(u, "idle")
    BY DEF At
<1>2. Pending' = Pending /\ Again' = Again /\ Settled' = Settled
    BY <1>1 DEF Pending, Again, Settled
<1>3. JobShape' /\ HeldApart'
    BY <1>1 DEF JobShape, HeldApart, Quiet
<1>4. RunPassesNothing' /\ NoLogPassedOver' /\ DealtWith' = DealtWith
    BY <1>2 DEF RunPassesNothing, NoLogPassedOver, DealtWith
<1>5. QED
    BY <1>2, <1>3, <1>4

\* A thread that gives its log up does so for good: the log is lost instead.
LEMMA GiveUpEffect ==
    ASSUME IInv, NEW t \in Thread, ~At(t, "idle"), GiveUp(t),
           UNCHANGED <<stored, job>>, player \subseteq player'
    PROVE  /\ thread' \in [Thread -> ThreadState]
           /\ thread'[t] = Resting /\ thread'[t].pc = "idle"
           /\ \A u \in Thread \ {t} : thread'[u] = thread[u]
           /\ ThreadShape' /\ JobShape' /\ HeldApart' /\ RunPassesNothing' /\ NoLogPassedOver'
           /\ lost' \subseteq Log \ stored'
           /\ DealtWith \subseteq DealtWith' /\ Again' \subseteq Again /\ Settled \subseteq Settled'
<1> USE DEF IInv
<1>1. /\ thread' \in [Thread -> ThreadState]
      /\ thread'[t] = Resting /\ Resting.pc = "idle"
      /\ \A u \in Thread \ {t} : thread'[u] = thread[u]
      /\ lost' = lost \union {thread[t].log}
    BY LogAssumption DEF GiveUp, Rest, Resting, ThreadState, Log
<1>2. lost' \subseteq Log \ stored'
    BY <1>1 DEF TypeOK, HeldApart, ThreadState
<1>3. JobShape' /\ HeldApart'
    BY <1>1 DEF JobShape, HeldApart, Quiet, At
<1>4. ThreadShape'
    BY <1>1 DEF ThreadShape, At
<1>5. DealtWith \subseteq DealtWith'
    BY <1>1 DEF DealtWith, Pending, At
<1>6. Again' \subseteq Again
    BY <1>1, LogAssumption DEF Again, At, HeldApart, ThreadState, JobState, Log
<1>7. Settled \subseteq Settled'
    BY <1>1 DEF Settled
<1>8. RunPassesNothing' /\ NoLogPassedOver'
    BY <1>5 DEF RunPassesNothing, NoLogPassedOver, DealtWith
<1>9. QED
    BY <1>1, <1>2, <1>3, <1>4, <1>5, <1>6, <1>7, <1>8

LEMMA TakeIInv == ASSUME IInv, NEW t \in Thread, Take(t) PROVE IInv'
<1> USE DEF IInv
<1>1. /\ job.pc = "run" /\ At(t, "idle") /\ job.next <= job.last /\ job.next \in Log
      /\ job' = [job EXCEPT !.next = @ + 1]
      /\ UNCHANGED <<published, index, page, stored, player, retries, lost, faults>>
    BY LogAssumption DEF Take, site, db, TypeOK, JobState, Log
<1>2. /\ job'.pc = "run" /\ job'.next = job.next + 1 /\ job'.last = job.last
      /\ job'.late = job.late /\ job' \in JobState
    BY <1>1, LogAssumption DEF JobState, Log
<1>3. /\ thread' \in [Thread -> ThreadState]
      /\ thread'[t].pc = "get" /\ thread'[t].log = job.next
      /\ \A u \in Thread \ {t} : thread'[u] = thread[u]
    BY <1>1 DEF Take, Resting, ThreadState
<1>4. TypeOK'
    BY <1>1, <1>2, <1>3, LogAssumption DEF TypeOK, JobState, JobShape, Log
<1>5. ThreadShape'
    BY <1>1, <1>3 DEF ThreadShape, At
<1>6. JobShape'
    BY <1>1, <1>2, LogAssumption DEF JobShape, JobState, TypeOK, Log
<1>7. HeldApart'
    BY <1>1, <1>2, <1>3 DEF HeldApart, At, JobShape, JobState, ThreadState, Log
<1>8. DealtWith \subseteq DealtWith' /\ job.next \in DealtWith'
    BY <1>1, <1>2, <1>3, LogAssumption DEF DealtWith, Pending, At, JobState, TypeOK, Log
<1>9. RunPassesNothing' /\ NoLogPassedOver'
    <2>1. ASSUME NEW k \in Parsable, 1 < k, k < job.next + 1
          PROVE  k \in DealtWith'
        <3>1. CASE k < job.next
            BY <1>1, <1>8, <2>1, <3>1 DEF RunPassesNothing
        <3>2. CASE k = job.next
            BY <1>8, <3>2
        <3>3. QED
            BY <1>1, <2>1, <3>1, <3>2, LogAssumption DEF Log
    <2>2. RunPassesNothing'
        BY <1>2, <2>1 DEF RunPassesNothing
    <2>3. NoLogPassedOver'
        BY <1>1, <1>8 DEF NoLogPassedOver, DealtWith
    <2>4. QED
        BY <2>2, <2>3
<1>10. Faultless'
    BY <1>1, <1>2, <1>3 DEF Faultless, At
<1>11. LosersLinked' /\ AgainLinked'
    <2>1. Losers' = Losers /\ Settled' = Settled
        BY <1>1, <1>3 DEF Losers, Doomed, Settled, At
    <2>2. Again' \subseteq Again
        BY <1>1, <1>2, <1>3, LogAssumption DEF Again, At, JobState, Log
    <2>3. QED
        BY <1>1, <1>8, <2>1, <2>2, LosersStayLinked, AgainStaysLinked
<1>12. QED
    BY <1>2, <1>3, <1>4, <1>5, <1>6, <1>7, <1>9, <1>10, <1>11

\* A page, or a limit: neither can undo what a faultless history has shown.
LEMMA GetIInv == ASSUME IInv, NEW t \in Thread, Get(t) PROVE IInv'
<1> USE DEF IInv
<1> DEFINE i == thread[t].log
           Pages == [Log \union {Index} -> {"none", "html", "limited"}]
<1>1. /\ At(t, "get") /\ ~At(t, "idle") /\ i \in Log
      /\ UNCHANGED <<published, index, stored, player, job, retries>>
    BY DEF Get, db, At, ThreadState
<1>2. /\ page' \in Pages /\ page'[Index] = page[Index]
      /\ faults' \in 0..MaxFaults /\ (faults' = 0 => faults = 0)
      /\ faults' = 0 => \A k \in Log \union {Index} : page'[k] # "limited"
    <2>1. page \in Pages /\ i # Index /\ i \in Log /\ faults \in 0..MaxFaults
        BY <1>1, LogAssumption DEF TypeOK, Index, Log
    <2>2. CASE page' = page /\ NoFault
        BY <2>1, <2>2 DEF NoFault, Faultless
    <2>3. CASE page[i] = "none" /\ page' = [page EXCEPT ![i] = "html"] /\ NoFault
        BY <2>1, <2>3 DEF NoFault, Faultless
    <2>4. CASE page' = page /\ Fault
        BY <2>1, <2>4, FaultsAssumption DEF Fault
    <2>5. CASE /\ page[i] \in {"none", "limited"}
               /\ IF page[i] = "none" THEN Fault ELSE NoFault
               /\ page' = [page EXCEPT ![i] = "limited"]
        <3>1. /\ page' \in Pages /\ page'[Index] = page[Index]
              /\ faults' \in 0..MaxFaults /\ (faults' = 0 => faults = 0)
            BY <2>1, <2>5, FaultsAssumption DEF Fault, NoFault
        <3>2. faults' # 0
            BY <2>1, <2>5, FaultsAssumption DEF Fault, NoFault, Faultless
        <3>3. QED
            BY <3>1, <3>2
    <2>6. QED
        BY <2>2, <2>3, <2>4, <2>5 DEF Get
<1>3. CASE /\ i \in Parsable
           /\ thread' = [thread EXCEPT ![t].pc = "select", ![t].left = Players[i]]
           /\ UNCHANGED lost
    <2>1. /\ thread' \in [Thread -> ThreadState]
          /\ thread'[t].pc = "select" /\ thread'[t].log = i /\ thread'[t].left = Players[i]
          /\ \A u \in Thread \ {t} : thread'[u] = thread[u]
        BY <1>1, <1>3, PlayersAssumption DEF ThreadState
    <2>2. TypeOK'
        BY <1>1, <1>2, <1>3, <2>1 DEF TypeOK, HeldApart
    <2>3. ThreadShape'
        BY <1>1, <1>3, <2>1 DEF ThreadShape, At
    <2>4. Losers' = Losers
        BY <1>1, <1>3, <2>1 DEF Losers, Doomed, At
    <2>5. Faultless'
        BY <1>1, <1>2, <2>1 DEF Faultless, At
    <2>6. QED
        BY <1>1, <1>2, <1>3, <2>1, <2>2, <2>3, <2>4, <2>5, KeepEffect,
           LosersStayLinked, AgainStaysLinked
<1>4. CASE GiveUp(t) /\ (i \notin Parsable \/ faults' # 0)
    <2>1. TypeOK'
        BY <1>1, <1>2, <1>4, GiveUpEffect DEF TypeOK
    <2>2. Faultless'
        BY <1>1, <1>2, <1>4, GiveUpEffect DEF Faultless, At
    <2>3. faults' = 0 => Losers' \subseteq Losers
        BY <1>1, <1>4, GiveUpEffect DEF Losers, Doomed, At, GiveUp
    <2>4. LosersLinked' /\ AgainLinked'
        BY <1>1, <1>2, <1>4, <2>3, GiveUpEffect, LosersStayLinked, AgainStaysLinked DEF LosersLinked
    <2>5. QED
        BY <1>1, <1>2, <1>4, <2>1, <2>2, <2>4, GiveUpEffect
<1>5. CASE Goto(t, "limited") /\ UNCHANGED lost /\ faults' # 0
    <2>1. /\ thread' \in [Thread -> ThreadState]
          /\ thread'[t].pc = "limited" /\ thread'[t].log = i
          /\ \A u \in Thread \ {t} : thread'[u] = thread[u]
        BY <1>1, <1>5 DEF ThreadState, Goto
    <2>2. TypeOK'
        BY <1>1, <1>2, <1>5, <2>1 DEF TypeOK, HeldApart
    <2>3. ThreadShape'
        BY <1>1, <1>5, <2>1 DEF ThreadShape, At
    <2>4. Faultless' /\ LosersLinked' /\ AgainLinked'
        BY <1>5 DEF Faultless, LosersLinked, AgainLinked
    <2>5. QED
        BY <1>1, <1>5, <2>1, <2>2, <2>3, <2>4, KeepEffect
<1>6. QED
    <2>1. CASE Parse(t)
        BY <2>1, <1>3, <1>4 DEF Parse
    <2>2. CASE GiveUp(t) /\ Fault
        BY <2>2, <1>4, FaultsAssumption DEF Fault, TypeOK
    <2>3. CASE page'[i] = "limited" /\ Goto(t, "limited") /\ UNCHANGED lost
        BY <2>3, <1>1, <1>2, <1>5
    <2>4. page'[i] = "limited" \/ page' # [page EXCEPT ![i] = "limited"]
        BY <1>1 DEF TypeOK
    <2>5. QED
        BY <2>1, <2>2, <2>3, <2>4 DEF Get

LEMMA CheckRetriesIInv == ASSUME IInv, NEW t \in Thread, CheckRetries(t) PROVE IInv'
<1> USE DEF IInv
<1>1. /\ At(t, "limited") /\ ~At(t, "idle") /\ faults # 0
      /\ UNCHANGED <<published, index, page, stored, player, job, retries, faults>>
    BY DEF CheckRetries, site, db, At, Faultless
<1>2. Faultless' /\ LosersLinked' /\ AgainLinked'
    BY <1>1 DEF Faultless, LosersLinked, AgainLinked
<1>3. CASE GiveUp(t)
    <2>1. TypeOK'
        BY <1>1, <1>3, GiveUpEffect DEF TypeOK
    <2>2. QED
        BY <1>1, <1>2, <1>3, <2>1, GiveUpEffect
<1>4. CASE /\ thread' = [thread EXCEPT ![t].pc = "retry", ![t].read = retries]
           /\ UNCHANGED lost
    <2>1. /\ thread' \in [Thread -> ThreadState]
          /\ thread'[t].pc = "retry" /\ thread'[t].log = thread[t].log
          /\ thread'[t].read = retries
          /\ \A u \in Thread \ {t} : thread'[u] = thread[u]
        BY <1>1, <1>4 DEF ThreadState, TypeOK
    <2>2. TypeOK'
        BY <1>1, <1>4, <2>1 DEF TypeOK, HeldApart
    <2>3. ThreadShape'
        BY <1>1, <2>1 DEF ThreadShape, At, TypeOK
    <2>4. QED
        BY <1>1, <1>2, <1>4, <2>1, <2>2, <2>3, KeepEffect
<1>5. QED
    BY <1>3, <1>4 DEF CheckRetries

LEMMA RetryIInv == ASSUME IInv, NEW t \in Thread, Retry(t) PROVE IInv'
<1> USE DEF IInv
<1>1. /\ At(t, "retry") /\ ~At(t, "idle") /\ faults # 0
      /\ UNCHANGED <<published, index, page, stored, player, job, lost, faults>>
    BY DEF Retry, site, db, At, Faultless
<1>2. Faultless' /\ LosersLinked' /\ AgainLinked'
    BY <1>1 DEF Faultless, LosersLinked, AgainLinked
<1>3. /\ thread' \in [Thread -> ThreadState]
      /\ thread'[t].pc = "get" /\ thread'[t].log = thread[t].log
      /\ \A u \in Thread \ {t} : thread'[u] = thread[u]
    BY <1>1 DEF ThreadState, Retry
<1>4. retries' \subseteq Log
    BY <1>1 DEF Retry, ThreadShape, ThreadState
<1>5. TypeOK'
    BY <1>1, <1>3, <1>4 DEF TypeOK, HeldApart
<1>6. ThreadShape'
    BY <1>1, <1>3 DEF ThreadShape, At
<1>7. QED
    BY <1>1, <1>2, <1>3, <1>5, <1>6, KeepEffect

LEMMA FailIInv == ASSUME IInv, NEW t \in Thread, Fail(t) PROVE IInv'
<1> USE DEF IInv
<1>1. /\ ~At(t, "idle") /\ GiveUp(t)
      /\ UNCHANGED <<published, index, page, stored, player, job, retries>>
    BY DEF Fail, site, db, At
<1>2. faults' \in 1..MaxFaults
    BY FaultsAssumption DEF Fail, Fault, NoFault, Faultless, TypeOK
<1>3. TypeOK'
    BY <1>1, <1>2, GiveUpEffect DEF TypeOK
<1>4. Faultless' /\ LosersLinked' /\ AgainLinked'
    BY <1>2 DEF Faultless, LosersLinked, AgainLinked
<1>5. QED
    BY <1>1, <1>3, <1>4, GiveUpEffect

LEMMA SelectIInv == ASSUME IInv, NEW t \in Thread, Select(t) PROVE IInv'
<1> USE DEF IInv
<1>1. /\ At(t, "select") /\ ~At(t, "idle")
      /\ UNCHANGED <<published, index, page, stored, player, job, retries, lost, faults>>
    BY DEF Select, site, db, At
<1>2. PICK p \in thread[t].left :
        thread' = IF p \in player THEN [thread EXCEPT ![t].left = @ \ {p}]
                                  ELSE [thread EXCEPT ![t].pc = "insert", ![t].read = {p}]
    BY DEF Select
<1>3. /\ thread[t].left \subseteq Players[thread[t].log] /\ p \in Player
      /\ Players[thread[t].log] \ thread[t].left \subseteq player
      /\ thread[t].log \in Parsable
    BY <1>1 DEF ThreadShape, ThreadState
<1>4. /\ thread' \in [Thread -> ThreadState]
      /\ thread'[t].log = thread[t].log /\ thread'[t].pc \in {"select", "insert"}
      /\ \A u \in Thread \ {t} : thread'[u] = thread[u]
      /\ p \in player => thread'[t].pc = "select" /\ thread'[t].left = thread[t].left \ {p}
      /\ p \notin player => /\ thread'[t].pc = "insert" /\ thread'[t].read = {p}
                            /\ thread'[t].left = thread[t].left
    <2>1. CASE p \in player
        BY <1>1, <1>2, <1>3, <2>1 DEF ThreadState, At
    <2>2. CASE p \notin player
        BY <1>1, <1>2, <1>3, <2>2 DEF ThreadState, At
    <2>3. QED
        BY <2>1, <2>2
<1>5. thread'[t].pc # "idle"
    BY <1>4
<1>6. TypeOK'
    BY <1>1, <1>4 DEF TypeOK, HeldApart
<1>7. ThreadShape'
    BY <1>1, <1>3, <1>4 DEF ThreadShape, At
<1>8. Faultless'
    BY <1>1, <1>4 DEF Faultless, At
<1>9. Losers' = Losers
    BY <1>1, <1>4 DEF Losers, Doomed, At
<1>10. QED
    BY <1>1, <1>4, <1>5, <1>6, <1>7, <1>8, <1>9, KeepEffect, LosersStayLinked, AgainStaysLinked

\* Another thread inserted the player first: the log was doomed, and now it is lost.
LEMMA InsertFailsIInv ==
    ASSUME IInv, NEW t \in Thread, Insert(t), thread[t].read \subseteq player PROVE IInv'
<1> USE DEF IInv
<1>1. /\ At(t, "insert") /\ ~At(t, "idle") /\ GiveUp(t)
      /\ UNCHANGED <<published, index, page, stored, player, job, retries, faults>>
    BY DEF Insert, site, At
<1>2. TypeOK'
    BY <1>1, GiveUpEffect DEF TypeOK
<1>3. Faultless'
    BY <1>1, GiveUpEffect DEF Faultless, At
<1>4. Losers' \subseteq Losers
    BY <1>1, GiveUpEffect DEF Losers, Doomed, At, GiveUp
<1>5. QED
    BY <1>1, <1>2, <1>3, <1>4, GiveUpEffect, LosersStayLinked, AgainStaysLinked

\* The player is inserted. Threads about to insert him too are doomed, and all share
\* him with this thread's log: which is no loser, unless it was lost before, and then
\* it is linked to a log that is settled.
LEMMA InsertIInv == ASSUME IInv, NEW t \in Thread, Insert(t) PROVE IInv'
<1> USE DEF IInv
<1> SUFFICES ASSUME ~(thread[t].read \subseteq player) PROVE IInv'
    BY InsertFailsIInv
<1> DEFINE i == thread[t].log
<1>1. /\ At(t, "insert") /\ ~At(t, "idle") /\ player' = player \union thread[t].read
      /\ UNCHANGED <<published, index, page, stored, job, retries, lost, faults>>
      /\ thread' = [thread EXCEPT ![t].pc = "select", ![t].left = @ \ thread[t].read,
                                  ![t].read = {}]
    BY DEF Insert, site, At
<1>2. PICK p \in thread[t].left : thread[t].read = {p}
    BY <1>1 DEF ThreadShape
<1>3. /\ p \notin player /\ player' = player \union {p}
      /\ i \in Parsable /\ i \in Log
      /\ thread[t].left \subseteq Players[i] /\ Players[i] \ thread[t].left \subseteq player
    BY <1>1, <1>2, LogAssumption DEF ThreadShape
<1>4. /\ thread' \in [Thread -> ThreadState]
      /\ thread'[t].pc = "select" /\ thread'[t].log = i
      /\ thread'[t].left = thread[t].left \ {p}
      /\ \A u \in Thread \ {t} : thread'[u] = thread[u]
    BY <1>1, <1>2 DEF ThreadState
<1>5. TypeOK'
    BY <1>1, <1>3, <1>4 DEF TypeOK, HeldApart
<1>6. ThreadShape'
    BY <1>1, <1>3, <1>4 DEF ThreadShape, At
<1>7. Faultless'
    BY <1>1, <1>4 DEF Faultless, At
<1>8. /\ JobShape' /\ HeldApart' /\ RunPassesNothing' /\ NoLogPassedOver'
      /\ DealtWith' = DealtWith /\ Again' = Again /\ Settled' = Settled
    BY <1>1, <1>4, KeepEffect
<1>9. LosersLinked'
    <2> SUFFICES ASSUME faults = 0, NEW S \in SUBSET Losers', S # {}
                 PROVE  Linked(S)
        BY <1>1, <1>8 DEF LosersLinked, Linked
    <2>1. CASE S \subseteq Losers
        BY <2>1 DEF LosersLinked
    <2>2. CASE ~(S \subseteq Losers)
        <3>1. PICK u \in Thread : /\ u # t /\ At(u, "insert") /\ thread[u].read = {p}
                                  /\ thread[u].log \in S
            <4>1. PICK k \in S : k \notin Losers
                BY <2>2
            <4>2. k \in Doomed'
                BY <1>1, <4>1 DEF Losers
            <4>3. PICK u \in Thread : /\ At(u, "insert")' /\ thread'[u].read \subseteq player'
                                      /\ thread'[u].log = k
                BY <4>2 DEF Doomed
            <4>4. /\ u # t /\ At(u, "insert") /\ thread[u].log = k
                  /\ thread[u].read \subseteq player \union {p}
                BY <1>3, <1>4, <4>3 DEF At
            <4>5. ~(thread[u].read \subseteq player)
                BY <4>1, <4>4 DEF Losers, Doomed
            <4>6. \E q \in thread[u].left : thread[u].read = {q}
                BY <4>4 DEF ThreadShape
            <4>7. QED
                BY <4>1, <4>4, <4>5, <4>6
        <3>2. Share(thread[u].log, i)
            BY <1>3, <3>1 DEF ThreadShape, Share
        <3>3. i \in DealtWith
            BY <1>1 DEF DealtWith, Pending
        <3>4. CASE i \notin S
            BY <3>1, <3>2, <3>3, <3>4 DEF Linked
        <3>5. CASE i \in S
            <4>1. i \in Losers'
                BY <3>5
            <4>2. i \notin Doomed'
                BY <1>1, <1>4 DEF Doomed, HeldApart, At
            <4>3. i \in lost /\ i \in Again
                BY <1>1, <1>3, <4>1, <4>2 DEF Losers, Again
            <4>4. \A k \in Doomed' : k \in Parsable /\ k \in DealtWith /\ k \notin stored
                BY <1>1, <1>4 DEF Doomed, DealtWith, Pending, ThreadShape, HeldApart, At
            <4>5. S \in SUBSET (DealtWith \ Settled)
                BY <1>1, <4>4 DEF Losers, Settled, DealtWith, TypeOK
            <4>6. S \intersect Again # {}
                BY <3>5, <4>3
            <4>7. QED
                BY <4>5, <4>6 DEF AgainLinked
        <3>6. QED
            BY <3>4, <3>5
    <2>3. QED
        BY <2>1, <2>2
<1>10. AgainLinked'
    BY <1>1, <1>8, AgainStaysLinked
<1>11. QED
    BY <1>1, <1>4, <1>5, <1>6, <1>7, <1>8, <1>9, <1>10

LEMMA StoreIInv == ASSUME IInv, NEW t \in Thread, Store(t) PROVE IInv'
<1> USE DEF IInv
<1> DEFINE i == thread[t].log
<1>1. /\ At(t, "select") /\ ~At(t, "idle") /\ i \in Parsable /\ i \in Log
      /\ Players[i] \subseteq player
      /\ stored' = stored \union {i} /\ lost' = lost \ {i}
      /\ UNCHANGED <<published, index, page, player, job, retries, faults>>
    BY LogAssumption DEF Store, site, At, ThreadShape
<1>2. /\ thread' \in [Thread -> ThreadState]
      /\ thread'[t] = Resting /\ Resting.pc = "idle"
      /\ \A u \in Thread \ {t} : thread'[u] = thread[u]
    BY LogAssumption DEF Store, Rest, Resting, ThreadState, Log
<1>3. HeldApart'
    BY <1>1, <1>2 DEF HeldApart, At
<1>4. TypeOK'
    <2>1. \A u \in Thread : thread'[u].log \notin stored' \/ thread'[u] = Resting
        BY <1>2, <1>3 DEF HeldApart, ThreadShape, At
    <2>2. QED
        BY <1>1, <1>2, <2>1 DEF TypeOK
<1>5. ThreadShape'
    BY <1>1, <1>2 DEF ThreadShape, At
<1>6. JobShape'
    BY <1>1, <1>2 DEF JobShape, Quiet, At, HeldApart
<1>7. DealtWith \subseteq DealtWith'
    BY <1>1, <1>2 DEF DealtWith, Pending, At
<1>8. RunPassesNothing'
    BY <1>1, <1>7 DEF RunPassesNothing
<1>9. NoLogPassedOver'
    <2>1. job.pc # "idle" /\ job.next \in Nat
        BY <1>1, LogAssumption DEF JobShape, Quiet, JobState
    <2>2. \A k \in stored' \union {1} : k \in Nat /\ k < job.next
        BY <1>1, <1>4, <1>6, <2>1, LogAssumption DEF JobShape, TypeOK, Log
    <2>3. Max(stored' \union {1}) \in stored' \union {1}
        <3> DEFINE S == stored' \union {1}
        <3>1. S \in SUBSET Nat /\ S # {} /\ \A k \in S : k <= job.next
            BY <2>1, <2>2
        <3>2. QED
            BY <2>1, <3>1, MaxOfBounded
    <2>4. SUFFICES ASSUME NEW k \in Parsable, 1 < k, k < Max(stored' \union {1})
                   PROVE  k \in DealtWith'
        BY DEF NoLogPassedOver, DealtWith
    <2>5. k < job.next
        BY <2>1, <2>2, <2>3, <2>4, LogAssumption DEF Log
    <2>6. QED
        BY <1>1, <1>8, <2>1, <2>4, <2>5 DEF RunPassesNothing
<1>10. Faultless'
    BY <1>1, <1>2 DEF Faultless, At
<1>11. LosersLinked' /\ AgainLinked'
    <2>1. Losers' \subseteq Losers /\ Again' \subseteq Again /\ Settled \subseteq Settled'
        BY <1>1, <1>2 DEF Losers, Doomed, Again, Settled, At
    <2>2. QED
        BY <1>1, <1>7, <2>1, LosersStayLinked, AgainStaysLinked
<1>12. QED
    BY <1>1, <1>2, <1>3, <1>4, <1>5, <1>6, <1>8, <1>9, <1>10, <1>11

----------------------------------------------------------------------------
(* The theorems. *)

LEMMA NextIInv == IInv /\ [Next]_vars => IInv'
<1> SUFFICES ASSUME IInv, [Next]_vars PROVE IInv'
    OBVIOUS
<1>1. ASSUME NEW t \in Thread, ThreadStep(t) PROVE IInv'
    BY <1>1, TakeIInv, GetIInv, CheckRetriesIInv, RetryIInv, SelectIInv, InsertIInv, StoreIInv,
       FailIInv DEF ThreadStep
<1>2. CASE UNCHANGED vars
    <2>1. UNCHANGED <<published, index, page, stored, player, job, thread, retries, lost, faults>>
        BY <1>2 DEF vars, site, db
    <2>2. /\ TypeOK' /\ thread' \in [Thread -> ThreadState] /\ job' \in JobState
          /\ ThreadShape' /\ JobShape' /\ HeldApart' /\ Faultless'
        BY <2>1 DEF IInv, TypeOK, ThreadShape, JobShape, HeldApart, Faultless, Quiet, At
    <2>3. Pending' = Pending /\ Losers' = Losers /\ Again' = Again /\ Settled' = Settled
        BY <2>1 DEF Pending, Losers, Doomed, Again, Settled, At
    <2>4. RunPassesNothing' /\ NoLogPassedOver' /\ DealtWith' = DealtWith
        BY <2>1, <2>3 DEF IInv, RunPassesNothing, NoLogPassedOver, DealtWith
    <2>5. LosersLinked' /\ AgainLinked'
        BY <2>1, <2>3, <2>4, LosersStayLinked, AgainStaysLinked DEF IInv
    <2>6. QED
        BY <2>2, <2>4, <2>5 DEF IInv
<1>3. QED
    BY <1>1, <1>2, StartIInv, ReadIndexIInv, TimeOutIInv, FinishIInv, CrashIInv, PublishIInv
    DEF Next

LEMMA Inductive == Spec => []IInv
BY InitIInv, NextIInv, PTL DEF Spec

\* The state of the scraper has its type; and a stored log has all of its players in
\* the player table, as the foreign key demands (store.go, logsTFMatchCreate).
THEOREM TypeCorrect == Spec => []TypeOK
<1>1. IInv => TypeOK
    BY DEF IInv
<1>2. QED
    BY <1>1, Inductive, PTL

\* No log below the newest stored one is passed over silently (logstf.go:98), however
\* the threads, the limits, the crashes and the runs that follow interleave.
THEOREM NothingPassedOver == Spec => []NoLogPassedOver
<1>1. IInv => NoLogPassedOver
    BY DEF IInv
<1>2. QED
    BY <1>1, Inductive, PTL

\* As long as nothing fails, no race over a new player (store.go:1045) has only
\* losers, over any number of runs that take lost logs again.
THEOREM RacesWon == Spec => []RacesHaveWinners
BY IInvRaces, Inductive, PTL
=============================================================================
