--------------------------- MODULE LeagueBansProofs ---------------------------
(***************************************************************************)
(* For any league, list and page size, any number of changes of the list   *)
(* and of faults: the types, that a table is what its download found, and  *)
(* that bans which come during a download hide none of those that were     *)
(* there.                                                                  *)
(***************************************************************************)
EXTENDS LeagueBans, SequenceTheorems, FiniteSetTheorems, TLAPS

----------------------------------------------------------------------------
(* The inductive invariant. *)

JobState ==
    [pc     : {"idle", "fetch", "delete", "players", "batch"},
     offset : Nat,
     bans   : [Valid -> Nat]]

History == [first : Lists, moved : {"no", "grew", "shrank"}]

\* A download of a list that has not changed has counted its pages so far, each once.
Exact ==
    job.pc # "idle" /\ moved = "no" =>
        /\ served = first
        /\ job.pc = "fetch" =>
            job.bans = Tally(first, {i \in DOMAIN first : i <= job.offset})
        /\ job.pc # "fetch" => job.bans = Whole(first)

\* While bans only come, one that was on the list when the download began has been
\* downloaded, or stands at a position that is still to be fetched.
Covered ==
    job.pc # "idle" /\ moved # "shrank" =>
        \A b \in Some(Whole(first)) :
            \/ b \in Some(job.bans)
            \/ job.pc = "fetch" /\ \E i \in DOMAIN served : job.offset < i /\ served[i] = b

\* What the steps of a job find: an empty table, and the players it has ensured.
Prepared ==
    /\ job.pc = "idle" => job = Idle
    /\ job.pc \in {"players", "batch"} => table = NoBans /\ origin = Nothing
    /\ job.pc = "batch" => \A b \in Some(job.bans) : b.sid \in players

IInv ==
    /\ TypeOK
    /\ job \in JobState
    /\ origin \in History
    /\ Exact
    /\ Covered
    /\ Prepared
    /\ TableIsSnapshot
    /\ AdditionsHideNothing

----------------------------------------------------------------------------
(* Lists and tallies. *)

LEMMA ListLength ==
    ASSUME NEW l \in Lists
    PROVE  l \in Seq(Ban) /\ Len(l) \in 0..MaxBans /\ DOMAIN l = 1..Len(l)
<1>1. PICK n \in 0..MaxBans : l \in [1..n -> Ban]
    BY DEF Lists
<1>2. n \in Nat
    BY <1>1, BoundAssumption
<1>3. QED
    BY <1>1, <1>2

LEMMA IsList ==
    ASSUME NEW l \in Seq(Ban), Len(l) <= MaxBans
    PROVE  l \in Lists
<1>1. Len(l) \in 0..MaxBans /\ l \in [1..Len(l) -> Ban]
    BY LenProperties, BoundAssumption
<1>2. QED
    BY <1>1 DEF Lists

LEMMA Inserted ==
    ASSUME NEW l \in Seq(Ban), NEW i \in 1..Len(l) + 1, NEW b \in Ban
    PROVE  /\ InsertAt(l, i, b) \in Seq(Ban)
           /\ Len(InsertAt(l, i, b)) = Len(l) + 1
           /\ \A j \in 1..Len(l) : \E k \in 1..Len(l) + 1 : j <= k /\ InsertAt(l, i, b)[k] = l[j]
<1>1. Len(l) \in Nat /\ \A j \in 1..Len(l) : l[j] \in Ban
    BY LenProperties
<1>2. PICK before : before = SubSeq(l, 1, i - 1)
    OBVIOUS
<1>3. PICK after : after = SubSeq(l, i, Len(l))
    OBVIOUS
<1>4. /\ before \in Seq(Ban) /\ Len(before) = i - 1
      /\ \A j \in 1..i - 1 : before[j] = l[j]
    BY <1>1, <1>2, SubSeqProperties
<1>5. /\ after \in Seq(Ban) /\ Len(after) = Len(l) - i + 1
      /\ \A j \in 1..Len(l) - i + 1 : after[j] = l[i + j - 1]
    BY <1>1, <1>3, SubSeqProperties
<1>6. /\ <<b>> \in Seq(Ban) /\ Len(<<b>>) = 1
    OBVIOUS
<1>7. PICK front : front = before \o <<b>>
    OBVIOUS
<1>8. /\ front \in Seq(Ban) /\ Len(front) = i
      /\ \A j \in 1..i - 1 : front[j] = l[j]
    BY <1>4, <1>6, <1>7, ConcatProperties
<1>9. InsertAt(l, i, b) = front \o after
    BY <1>2, <1>3, <1>7 DEF InsertAt
<1>10. /\ front \o after \in Seq(Ban) /\ Len(front \o after) = Len(l) + 1
       /\ \A k \in 1..Len(l) + 1 : (front \o after)[k] = IF k <= i THEN front[k] ELSE after[k - i]
    <2>1. Len(front) + Len(after) = Len(l) + 1
        BY <1>1, <1>5, <1>8
    <2>2. /\ front \o after \in Seq(Ban) /\ Len(front \o after) = Len(front) + Len(after)
          /\ \A k \in 1..Len(front) + Len(after) :
                (front \o after)[k] = IF k <= Len(front) THEN front[k] ELSE after[k - Len(front)]
        BY <1>5, <1>8, ConcatProperties
    <2>3. QED
        BY <1>8, <2>1, <2>2
<1>11. PICK joined : joined = front \o after
    OBVIOUS
<1>12. ASSUME NEW j \in 1..Len(l)
       PROVE  \E k \in 1..Len(l) + 1 : j <= k /\ joined[k] = l[j]
    <2>1. CASE j < i
        <3>1. j \in 1..Len(l) + 1 /\ j <= i /\ j \in 1..i - 1 /\ j <= j
            BY <1>1, <2>1
        <3>2. joined[j] = l[j]
            BY <1>8, <1>10, <1>11, <3>1
        <3>3. QED
            BY <3>1, <3>2
    <2>2. CASE j >= i
        <3>1. /\ j + 1 \in 1..Len(l) + 1 /\ ~(j + 1 <= i) /\ j <= j + 1
              /\ j + 1 - i \in 1..Len(l) - i + 1
            BY <1>1, <2>2
        <3>2. joined[j + 1] = after[j + 1 - i]
            BY <1>10, <1>11, <3>1
        <3>3. after[j + 1 - i] = l[i + (j + 1 - i) - 1] /\ i + (j + 1 - i) - 1 = j
            BY <1>1, <1>5, <3>1
        <3>4. joined[j + 1] = l[j]
            BY <3>2, <3>3
        <3>5. QED
            BY <3>1, <3>4
    <2>3. QED
        BY <1>1, <2>1, <2>2
<1>13. QED
    BY <1>9, <1>10, <1>11, <1>12

LEMMA Removed ==
    ASSUME NEW l \in Seq(Ban), NEW i \in 1..Len(l)
    PROVE  RemoveAt(l, i) \in Seq(Ban) /\ Len(RemoveAt(l, i)) <= Len(l)
<1>1. Len(l) \in Nat /\ \A j \in 1..Len(l) : l[j] \in Ban
    BY LenProperties
<1>2. PICK before : before = SubSeq(l, 1, i - 1)
    OBVIOUS
<1>3. PICK after : after = SubSeq(l, i + 1, Len(l))
    OBVIOUS
<1>4. before \in Seq(Ban) /\ Len(before) = i - 1
    BY <1>1, <1>2, SubSeqProperties
<1>5. after \in Seq(Ban) /\ Len(after) = Len(l) - i
    BY <1>1, <1>3, SubSeqProperties
<1>6. before \o after \in Seq(Ban) /\ Len(before \o after) = Len(before) + Len(after)
    BY <1>4, <1>5, ConcatProperties
<1>7. Len(before) + Len(after) <= Len(l)
    BY <1>1, <1>4, <1>5
<1>8. RemoveAt(l, i) = before \o after
    BY <1>2, <1>3 DEF RemoveAt
<1>9. QED
    BY <1>6, <1>7, <1>8

\* The positions of a list at which one ban stands are finitely many.
LEMMA PlacesFinite ==
    ASSUME NEW l \in Lists, NEW I \in SUBSET DOMAIN l, NEW b
    PROVE  /\ IsFiniteSet({i \in I : l[i] = b})
           /\ Cardinality({i \in I : l[i] = b}) \in Nat
<1>1. Len(l) \in Nat /\ DOMAIN l = 1..Len(l)
    BY ListLength, BoundAssumption
<1>2. IsFiniteSet(1..Len(l))
    BY <1>1, FS_Interval
<1>3. {i \in I : l[i] = b} \subseteq 1..Len(l)
    BY <1>1
<1>4. IsFiniteSet({i \in I : l[i] = b})
    BY <1>2, <1>3, FS_Subset
<1>5. QED
    BY <1>4, FS_CardinalityType

LEMMA TallyType ==
    ASSUME NEW l \in Lists, NEW I \in SUBSET DOMAIN l
    PROVE  /\ Tally(l, I) \in [Valid -> Nat]
           /\ Some(Tally(l, I)) = {b \in Valid : \E i \in I : l[i] = b}
<1>1. ASSUME NEW b \in Valid
      PROVE  /\ Tally(l, I)[b] \in Nat
             /\ Tally(l, I)[b] > 0 <=> \E i \in I : l[i] = b
    <2>1. PICK P : P = {i \in I : l[i] = b}
        OBVIOUS
    <2>2. IsFiniteSet(P) /\ Cardinality(P) \in Nat /\ Tally(l, I)[b] = Cardinality(P)
        BY <2>1, PlacesFinite DEF Tally
    <2>3. Cardinality(P) = 0 <=> P = {}
        BY <2>2, FS_EmptySet
    <2>4. P # {} <=> \E i \in I : l[i] = b
        BY <2>1
    <2>5. QED
        BY <2>2, <2>3, <2>4
<1>2. QED
    BY <1>1 DEF Tally, Some

\* Two parts of a list are counted one after the other.
LEMMA TallyUnion ==
    ASSUME NEW l \in Lists, NEW I \in SUBSET DOMAIN l, NEW J \in SUBSET DOMAIN l,
           I \intersect J = {}
    PROVE  Tally(l, I \union J) = Plus(Tally(l, I), Tally(l, J))
<1>1. ASSUME NEW b \in Valid
      PROVE  Tally(l, I \union J)[b] = Tally(l, I)[b] + Tally(l, J)[b]
    <2>1. PICK P, Q : P = {i \in I : l[i] = b} /\ Q = {i \in J : l[i] = b}
        OBVIOUS
    <2>2. IsFiniteSet(P) /\ IsFiniteSet(Q) /\ Cardinality(P) \in Nat /\ Cardinality(Q) \in Nat
        BY <2>1, PlacesFinite
    <2>3. P \intersect Q = {} /\ {i \in I \union J : l[i] = b} = P \union Q
        BY <2>1
    <2>4. Cardinality(P \union Q) = Cardinality(P) + Cardinality(Q) - Cardinality(P \intersect Q)
        BY <2>2, FS_Union
    <2>5. Cardinality(P \intersect Q) = 0
        BY <2>3, FS_EmptySet
    <2>6. /\ Tally(l, I)[b] = Cardinality(P) /\ Tally(l, J)[b] = Cardinality(Q)
          /\ Tally(l, I \union J)[b] = Cardinality(P \union Q)
        BY <2>1, <2>3 DEF Tally
    <2>7. QED
        BY <2>2, <2>4, <2>5, <2>6
<1>2. QED
    BY <1>1 DEF Tally, Plus

LEMMA PlusType ==
    ASSUME NEW p \in [Valid -> Nat], NEW q \in [Valid -> Nat]
    PROVE  /\ Plus(p, q) \in [Valid -> Nat]
           /\ Some(Plus(p, q)) = Some(p) \union Some(q)
           /\ p = NoBans => Plus(p, q) = q
BY DEF Plus, Some, NoBans

LEMMA NothingCounted ==
    /\ <<>> \in Lists /\ DOMAIN <<>> = {}
    /\ NoBans \in [Valid -> Nat] /\ Some(NoBans) = {} /\ ~Repeats(NoBans)
    /\ \A l : Tally(l, {}) = NoBans
    /\ Idle \in JobState /\ Nothing \in History
<1>1. <<>> \in Lists /\ DOMAIN <<>> = {}
    <2>1. <<>> \in Seq(Ban) /\ Len(<<>>) = 0
        BY EmptySeq
    <2>2. <<>> \in Lists
        <3>1. 0 <= MaxBans
            BY BoundAssumption
        <3>2. Len(<<>>) <= MaxBans
            BY <2>1, <3>1
        <3>3. QED
            BY <2>1, <3>2, IsList
    <2>3. QED
        BY <2>1, <2>2, ListLength
<1>2. NoBans \in [Valid -> Nat] /\ Some(NoBans) = {} /\ ~Repeats(NoBans)
    BY DEF NoBans, Some, Repeats
<1>3. ASSUME NEW l PROVE Tally(l, {}) = NoBans
    <2>1. \A b : {i \in {} : l[i] = b} = {}
        OBVIOUS
    <2>2. QED
        BY <2>1, FS_EmptySet DEF Tally, NoBans
<1>4. QED
    BY <1>1, <1>2, <1>3 DEF Idle, Nothing, JobState, History

----------------------------------------------------------------------------
(* Each step keeps the invariant. *)

LEMMA InitIInv == Init => IInv
<1> SUFFICES ASSUME Init PROVE IInv
    OBVIOUS
<1>1. TypeOK /\ job \in JobState /\ origin \in History
    BY NothingCounted, BoundAssumption DEF Init, TypeOK, Idle, Nothing
<1>2. Exact /\ Covered /\ Prepared
    BY NothingCounted DEF Init, Exact, Covered, Prepared, Idle
<1>3. Whole(<<>>) = NoBans
    BY NothingCounted DEF Whole
<1>4. TableIsSnapshot /\ AdditionsHideNothing
    BY <1>3 DEF Init, TableIsSnapshot, AdditionsHideNothing, Nothing
<1>5. QED
    BY <1>1, <1>2, <1>4 DEF IInv

LEMMA StartIInv == ASSUME IInv, Start PROVE IInv'
<1>1. /\ job = Idle /\ job' = [Idle EXCEPT !.pc = "fetch"] /\ first' = served /\ moved' = "no"
      /\ UNCHANGED <<league, served, table, players, origin, changes, faults>>
    BY DEF Start
<1>2. /\ job' \in JobState /\ job'.pc = "fetch" /\ job'.offset = 0 /\ job'.bans = NoBans
    BY <1>1, NothingCounted DEF JobState, Idle
<1>3. served \in Lists /\ DOMAIN served = 1..Len(served)
    BY ListLength DEF IInv, TypeOK
<1>4. TypeOK'
    BY <1>1, <1>2 DEF IInv, TypeOK, JobState, Some, Repeats
<1>5. Exact'
    <2>1. {i \in DOMAIN served : i <= 0} = {}
        BY <1>3
    <2>2. QED
        BY <1>1, <1>2, <2>1, NothingCounted DEF Exact
<1>6. Covered'
    <2>1. \A b \in Some(Whole(served)) : \E i \in DOMAIN served : 0 < i /\ served[i] = b
        BY <1>3, TallyType DEF Whole
    <2>2. QED
        BY <1>1, <1>2, <2>1 DEF Covered
<1>7. Prepared'
    BY <1>2 DEF Prepared
<1>8. TableIsSnapshot' /\ AdditionsHideNothing'
    BY <1>1 DEF IInv, TableIsSnapshot, AdditionsHideNothing
<1>9. QED
    BY <1>1, <1>2, <1>4, <1>5, <1>6, <1>7, <1>8 DEF IInv

\* A page, and all that came before it.
LEMMA FetchPageIInv == ASSUME IInv, FetchPage PROVE IInv'
<1>1. /\ job.pc = "fetch"
      /\ UNCHANGED <<league, served, table, players, first, moved, origin, changes, faults>>
    BY DEF FetchPage
<1>2. /\ served \in Lists /\ first \in Lists /\ DOMAIN served = 1..Len(served)
      /\ Len(served) \in Nat /\ job \in JobState /\ job.offset \in Nat /\ PageSize \in Nat \ {0}
    BY ListLength, BoundAssumption, PageAssumption DEF IInv, TypeOK, JobState
<1>3. PICK page : page = Page(job.offset)
    OBVIOUS
<1>4. page \in SUBSET DOMAIN served
    BY <1>3 DEF Page
<1>5. /\ Tally(served, page) \in [Valid -> Nat]
      /\ Some(Tally(served, page)) = {b \in Valid : \E i \in page : served[i] = b}
    BY <1>2, <1>4, TallyType
<1>6. CASE page = {}
    <2>1. job' = [job EXCEPT !.pc = "delete"]
        BY <1>3, <1>6 DEF FetchPage
    <2>2. /\ job' \in JobState /\ job'.pc = "delete" /\ job'.offset = job.offset
          /\ job'.bans = job.bans
        BY <1>2, <2>1 DEF JobState
    <2>3. \A i \in DOMAIN served : i <= job.offset
        <3> SUFFICES ASSUME NEW i \in DOMAIN served, job.offset < i PROVE FALSE
            BY <1>2
        <3>1. job.offset + 1 \in DOMAIN served
            BY <1>2
        <3>2. job.offset + 1 \in page
            BY <1>2, <1>3, <3>1 DEF Page
        <3>3. QED
            BY <1>6, <3>2
    <2>4. Exact'
        <3>1. served = first => {i \in DOMAIN first : i <= job.offset} = DOMAIN first
            BY <2>3
        <3>2. QED
            BY <1>1, <2>2, <3>1 DEF IInv, Exact, Whole
    <2>5. Covered'
        BY <1>1, <1>2, <2>2, <2>3 DEF IInv, Covered
    <2>6. Prepared'
        BY <2>2 DEF Prepared
    <2>7. QED
        BY <1>1, <2>2, <2>4, <2>5, <2>6
           DEF IInv, TypeOK, JobState, Some, Repeats, TableIsSnapshot, AdditionsHideNothing
<1>7. CASE page # {}
    <2>1. job' = [job EXCEPT !.offset = @ + PageSize, !.bans = Plus(@, Tally(served, page))]
        BY <1>3, <1>7 DEF FetchPage
    <2>2. /\ job.bans \in [Valid -> Nat] /\ job.offset + PageSize \in Nat
          /\ Plus(job.bans, Tally(served, page)) \in [Valid -> Nat]
          /\ Some(Plus(job.bans, Tally(served, page)))
                = Some(job.bans) \union Some(Tally(served, page))
        <3>1. job.bans \in [Valid -> Nat] /\ job.offset + PageSize \in Nat
            BY <1>2 DEF JobState
        <3>2. QED
            BY <1>5, <3>1, PlusType
    <2>3. /\ job' \in JobState /\ job'.pc = "fetch" /\ job'.offset = job.offset + PageSize
          /\ job'.bans = Plus(job.bans, Tally(served, page))
        BY <1>1, <1>2, <2>1, <2>2 DEF JobState
    <2>4. Exact'
        <3> SUFFICES ASSUME moved = "no", served = first
                     PROVE  job'.bans = Tally(first, {i \in DOMAIN first : i <= job'.offset})
            BY <1>1, <2>3 DEF IInv, Exact
        <3>1. PICK past : past = {i \in DOMAIN served : i <= job.offset}
            OBVIOUS
        <3>2. past \in SUBSET DOMAIN served /\ past \intersect page = {}
            BY <1>2, <1>3, <3>1 DEF Page
        <3>3. past \union page = {i \in DOMAIN first : i <= job'.offset}
            BY <1>2, <1>3, <2>3, <3>1 DEF Page
        <3>4. job.bans = Tally(served, past)
            BY <1>1, <3>1 DEF IInv, Exact
        <3>5. QED
            BY <1>2, <1>4, <2>3, <3>2, <3>3, <3>4, TallyUnion
    <2>5. Covered'
        <3> SUFFICES ASSUME moved # "shrank", NEW b \in Some(Whole(first))
                     PROVE  \/ b \in Some(job'.bans)
                            \/ \E i \in DOMAIN served : job'.offset < i /\ served[i] = b
            BY <1>1, <2>3 DEF Covered
        <3>1. Some(job'.bans) = Some(job.bans) \union Some(Tally(served, page))
            BY <2>2, <2>3
        <3>2. b \in Some(job.bans) \/ \E i \in DOMAIN served : job.offset < i /\ served[i] = b
            BY <1>1 DEF IInv, Covered
        <3>3. ASSUME NEW i \in DOMAIN served, job.offset < i, served[i] = b, i <= job'.offset
              PROVE  b \in Some(job'.bans)
            <4>1. i \in page
                BY <1>2, <1>3, <2>3, <3>3 DEF Page
            <4>2. b \in Valid
                BY DEF Some
            <4>3. QED
                BY <1>5, <3>1, <3>3, <4>1, <4>2
        <3>4. QED
            BY <1>2, <2>3, <3>1, <3>2, <3>3
    <2>6. Prepared'
        BY <2>3 DEF Prepared
    <2>7. QED
        BY <1>1, <2>3, <2>4, <2>5, <2>6
           DEF IInv, TypeOK, JobState, Some, Repeats, TableIsSnapshot, AdditionsHideNothing
<1>8. QED
    BY <1>6, <1>7

LEMMA DeleteIInv == ASSUME IInv, Delete PROVE IInv'
<1>1. /\ job.pc = "delete" /\ job' = [job EXCEPT !.pc = "players"]
      /\ table' = NoBans /\ origin' = Nothing /\ job \in JobState
      /\ UNCHANGED <<league, served, players, first, moved, changes, faults>>
    BY DEF Delete, IInv
<1>2. /\ job' \in JobState /\ job'.pc = "players" /\ job'.bans = job.bans
    BY <1>1 DEF JobState
<1>3. TypeOK' /\ origin' \in History
    BY <1>1, <1>2, NothingCounted DEF IInv, TypeOK, JobState, Nothing, Some, Repeats
<1>4. Exact' /\ Covered'
    BY <1>1, <1>2 DEF IInv, Exact, Covered
<1>5. Prepared'
    BY <1>1, <1>2 DEF Prepared
<1>6. TableIsSnapshot' /\ AdditionsHideNothing'
    BY <1>1, NothingCounted DEF TableIsSnapshot, AdditionsHideNothing, Nothing, Whole
<1>7. QED
    BY <1>2, <1>3, <1>4, <1>5, <1>6 DEF IInv

LEMMA EnsurePlayersIInv == ASSUME IInv, EnsurePlayers PROVE IInv'
<1>1. /\ job.pc = "players" /\ job' = [job EXCEPT !.pc = "batch"]
      /\ players' = players \union {b.sid : b \in Some(job.bans)} /\ job \in JobState
      /\ UNCHANGED <<league, served, table, first, moved, origin, changes, faults>>
    BY DEF EnsurePlayers, IInv
<1>2. /\ job' \in JobState /\ job'.pc = "batch" /\ job'.bans = job.bans
    BY <1>1 DEF JobState
<1>3. players' \subseteq Sid
    BY <1>1 DEF IInv, TypeOK, Some, Valid
<1>4. TypeOK'
    BY <1>1, <1>2, <1>3 DEF IInv, TypeOK, JobState, Some, Repeats
<1>5. Exact' /\ Covered'
    BY <1>1, <1>2 DEF IInv, Exact, Covered
<1>6. Prepared'
    BY <1>1, <1>2 DEF IInv, Prepared
<1>7. TableIsSnapshot' /\ AdditionsHideNothing'
    BY <1>1 DEF IInv, TableIsSnapshot, AdditionsHideNothing
<1>8. QED
    BY <1>1, <1>2, <1>4, <1>5, <1>6, <1>7 DEF IInv

LEMMA SendBatchIInv == ASSUME IInv, SendBatch PROVE IInv'
<1>1. /\ job.pc = "batch" /\ job' = Idle /\ job \in JobState
      /\ UNCHANGED <<league, served, players, first, moved, changes, faults>>
    BY DEF SendBatch, IInv
<1>2. job' \in JobState /\ job'.pc = "idle"
    BY <1>1, NothingCounted DEF Idle
<1>3. Exact' /\ Covered' /\ Prepared'
    BY <1>1, <1>2 DEF Exact, Covered, Prepared
<1>4. CASE league \in Keyed /\ Repeats(job.bans)
    <2>1. UNCHANGED <<table, origin>>
        BY <1>4 DEF SendBatch
    <2>2. QED
        BY <1>1, <1>2, <1>3, <2>1
           DEF IInv, TypeOK, JobState, Some, Repeats, TableIsSnapshot, AdditionsHideNothing
<1>5. CASE ~(league \in Keyed /\ Repeats(job.bans))
    <2>1. table' = Plus(table, job.bans) /\ origin' = [first |-> first, moved |-> moved]
        BY <1>5 DEF SendBatch
    <2>2. table' = job.bans /\ job.bans \in [Valid -> Nat]
        <3>1. job.bans \in [Valid -> Nat] /\ table = NoBans
            BY <1>1 DEF IInv, Prepared, JobState
        <3>2. QED
            BY <2>1, <3>1, NothingCounted, PlusType
    <2>3. origin' \in History /\ origin'.first = first /\ origin'.moved = moved
        BY <2>1 DEF IInv, TypeOK, History
    <2>4. TypeOK'
        <3>1. \A b \in Some(table') : b.sid \in players
            BY <1>1, <2>2 DEF IInv, Prepared
        <3>2. league \in Keyed => ~Repeats(table')
            BY <1>5, <2>2
        <3>3. QED
            BY <1>1, <1>2, <2>2, <2>3, <3>1, <3>2
               DEF IInv, TypeOK, JobState, Some, Repeats, History
    <2>5. TableIsSnapshot'
        BY <1>1, <2>2, <2>3 DEF IInv, Exact, TableIsSnapshot
    <2>6. AdditionsHideNothing'
        BY <1>1, <2>2, <2>3 DEF IInv, Covered, AdditionsHideNothing
    <2>7. QED
        BY <1>2, <1>3, <2>3, <2>4, <2>5, <2>6 DEF IInv
<1>6. QED
    BY <1>4, <1>5

LEMMA FailIInv == ASSUME IInv, Fail PROVE IInv'
<1>1. /\ job' = Idle /\ faults < MaxFaults /\ faults' = faults + 1
      /\ UNCHANGED <<league, served, table, players, first, moved, origin, changes>>
    BY DEF Fail
<1>2. job' \in JobState /\ job'.pc = "idle"
    BY <1>1, NothingCounted DEF Idle
<1>3. faults' \in 0..MaxFaults
    BY <1>1, BoundAssumption DEF IInv, TypeOK
<1>4. TypeOK'
    BY <1>1, <1>2, <1>3 DEF IInv, TypeOK, JobState, Some, Repeats
<1>5. Exact' /\ Covered' /\ Prepared'
    BY <1>1, <1>2 DEF Exact, Covered, Prepared
<1>6. QED
    BY <1>1, <1>2, <1>4, <1>5 DEF IInv, TableIsSnapshot, AdditionsHideNothing

\* The list changes: what a download has counted stays, what it has not may move away
\* from the page it is to fetch next.
LEMMA ChangeIInv ==
    ASSUME IInv, NEW how \in {"grew", "shrank"}, Change(how), served' \in Lists,
           how = "grew" => \A i \in DOMAIN served :
                \E j \in DOMAIN served' : i <= j /\ served'[j] = served[i]
    PROVE  IInv'
<1>1. /\ changes < MaxChanges /\ changes' = changes + 1
      /\ moved' = (IF moved = "shrank" THEN moved ELSE how)
      /\ UNCHANGED <<league, table, players, job, first, origin, faults>>
    BY DEF Change
<1>2. moved' # "no" /\ moved' \in {"no", "grew", "shrank"}
    BY <1>1
<1>3. changes' \in 0..MaxChanges
    BY <1>1, BoundAssumption DEF IInv, TypeOK
<1>4. TypeOK'
    BY <1>1, <1>2, <1>3 DEF IInv, TypeOK, Some, Repeats
<1>5. Exact'
    BY <1>2 DEF Exact
<1>6. Covered'
    <2> SUFFICES ASSUME job.pc # "idle", moved' # "shrank", NEW b \in Some(Whole(first)),
                        b \notin Some(job.bans)
                 PROVE  job.pc = "fetch" /\ \E j \in DOMAIN served' : job.offset < j /\ served'[j] = b
        BY <1>1 DEF Covered
    <2>1. how = "grew" /\ moved # "shrank"
        BY <1>1
    <2>2. PICK i \in DOMAIN served : job.pc = "fetch" /\ job.offset < i /\ served[i] = b
        BY <2>1 DEF IInv, Covered
    <2>3. PICK j \in DOMAIN served' : i <= j /\ served'[j] = served[i]
        BY <2>1
    <2>4. i \in Nat /\ j \in Nat /\ job.offset \in Nat
        BY ListLength DEF IInv, TypeOK
    <2>5. QED
        BY <2>2, <2>3, <2>4
<1>7. Prepared'
    BY <1>1 DEF IInv, Prepared
<1>8. QED
    BY <1>1, <1>4, <1>5, <1>6, <1>7 DEF IInv, TableIsSnapshot, AdditionsHideNothing

LEMMA AddBanIInv == ASSUME IInv, AddBan PROVE IInv'
<1>1. PICK i \in 1..Len(served) + 1, b \in Ban : served' = InsertAt(served, i, b)
    BY DEF AddBan
<1>2. Len(served) < MaxBans /\ Change("grew")
    BY DEF AddBan
<1>3. served \in Seq(Ban) /\ Len(served) \in Nat /\ DOMAIN served = 1..Len(served)
    BY ListLength, BoundAssumption DEF IInv, TypeOK
<1>4. /\ served' \in Seq(Ban) /\ Len(served') = Len(served) + 1
      /\ \A j \in 1..Len(served) : \E k \in 1..Len(served) + 1 : j <= k /\ served'[k] = served[j]
    BY <1>1, <1>3, Inserted
<1>5. served' \in Lists /\ DOMAIN served' = 1..Len(served) + 1
    <2>1. Len(served') <= MaxBans
        BY <1>2, <1>3, <1>4, BoundAssumption
    <2>2. QED
        BY <1>4, <2>1, IsList, ListLength
<1>6. ASSUME NEW j \in DOMAIN served
      PROVE  \E k \in DOMAIN served' : j <= k /\ served'[k] = served[j]
    BY <1>3, <1>4, <1>5
<1>7. QED
    BY <1>2, <1>5, <1>6, ChangeIInv

LEMMA LiftBanIInv == ASSUME IInv, LiftBan PROVE IInv'
<1>1. PICK i \in 1..Len(served) : served' = RemoveAt(served, i)
    BY DEF LiftBan
<1>2. served \in Seq(Ban) /\ Len(served) \in 0..MaxBans
    BY ListLength DEF IInv, TypeOK
<1>3. served' \in Seq(Ban) /\ Len(served') <= Len(served)
    BY <1>1, <1>2, Removed
<1>4. served' \in Lists
    <2>1. Len(served') \in Nat
        BY <1>3
    <2>2. Len(served') <= MaxBans
        BY <1>2, <1>3, <2>1, BoundAssumption
    <2>3. QED
        BY <1>3, <2>2, IsList
<1>5. QED
    BY <1>4, ChangeIInv DEF LiftBan

LEMMA NextIInv == IInv /\ [Next]_vars => IInv'
<1> SUFFICES ASSUME IInv, [Next]_vars PROVE IInv'
    OBVIOUS
<1>1. CASE UNCHANGED vars
    <2>1. /\ UNCHANGED <<league, served, table, players, job, first, moved, origin>>
          /\ UNCHANGED <<changes, faults>>
        BY <1>1 DEF vars
    <2>2. TypeOK' /\ TableIsSnapshot' /\ AdditionsHideNothing'
        BY <2>1 DEF IInv, TypeOK, TableIsSnapshot, AdditionsHideNothing, Some, Repeats
    <2>3. Exact' /\ Covered' /\ Prepared'
        BY <2>1 DEF IInv, Exact, Covered, Prepared
    <2>4. QED
        BY <2>1, <2>2, <2>3 DEF IInv
<1>2. QED
    BY <1>1, StartIInv, FetchPageIInv, DeleteIInv, EnsurePlayersIInv, SendBatchIInv, FailIInv,
       AddBanIInv, LiftBanIInv DEF Next, Step

LEMMA Inductive == Spec => []IInv
BY InitIInv, NextIInv, PTL DEF Spec

----------------------------------------------------------------------------
(* The theorems. *)

\* The tables have their types, whoever is banned is in the player table, and no ban
\* is twice in a table with a unique index (migrations/0006_etf2l_ban_table.up.sql).
THEOREM TypeCorrect == Spec => []TypeOK
<1>1. IInv => TypeOK
    BY DEF IInv
<1>2. QED
    BY <1>1, Inductive, PTL

\* A table is empty or the list as its download found it (rglBansReplace,
\* etf2lBansUpdate), with each ban as often as it was on the list, unless the list
\* changed during the download - whatever attempts failed before and where.
THEOREM TablesAreSnapshots == Spec => []TableIsSnapshot
<1>1. IInv => TableIsSnapshot
    BY DEF IInv
<1>2. QED
    BY <1>1, Inductive, PTL

\* Bans that come between two pages (jobs_rgl.go, RGLBansWorker.Work; etf2l.go,
\* updateETF2LBans) hide none of those that were there when the download began.
THEOREM NothingHidden == Spec => []AdditionsHideNothing
<1>1. IInv => AdditionsHideNothing
    BY DEF IInv
<1>2. QED
    BY <1>1, Inductive, PTL
=============================================================================
