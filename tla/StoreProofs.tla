---------------------------- MODULE StoreProofs ----------------------------
(***************************************************************************)
(* What the statements of store.go keep, each committing by itself.        *)
(* Players, for every set of steam ids and callers: the type invariant,    *)
(* the two safety invariants of PlayerStore and its refinement of          *)
(* PlayerRegistry. The entries of the detector lists, for all documents    *)
(* and any number of lists and overlapping jobs: the type invariant of     *)
(* BDLists, and that entries follow the downloads; and the two together:   *)
(* jobs that call the real store implement BDLists.                        *)
(***************************************************************************)
EXTENDS ListsOverStore, TLAPS

----------------------------------------------------------------------------
(* The inductive invariant. *)

\* What an open transaction holds, statement by statement.
Stage(c) ==
    /\ pc[c] = "name" => tx[c] = {"player"}
    /\ pc[c] = "avatar" => tx[c] = {"player", "name"}
    /\ pc[c] = "commit" => tx[c] = Tables
    /\ pc[c] \notin {"name", "avatar", "commit"} => tx[c] = {}

Stages == \A c \in Caller : Stage(c)

\* Exactly the callers in a call have a steam id.
CallHasSid ==
    \A c \in Caller : IF pc[c] = "idle" THEN sid[c] = NoSid ELSE sid[c] \in Sid

\* At most one open transaction holds a key, and it is not yet committed.
HolderUnique ==
    \A c, d \in Caller :
        ("player" \in tx[c] /\ "player" \in tx[d] /\ sid[c] = sid[d]) => c = d

HolderFresh == \A c \in Caller : "player" \in tx[c] => sid[c] \notin player

StoreInv ==
    /\ StoreTypeOK
    /\ Stages
    /\ CallHasSid
    /\ HolderUnique
    /\ HolderFresh
    /\ AnswerMeansStored
    /\ HistoryComplete

----------------------------------------------------------------------------
(* Initially. *)

LEMMA StoreInitInv == StoreInit => StoreInv
<1> SUFFICES ASSUME StoreInit PROVE StoreInv
    OBVIOUS
<1> USE DEF StoreInit
<1>1. StoreTypeOK
    BY DEF StoreTypeOK
<1>2. Stages
    BY DEF Stages, Stage
<1>3. CallHasSid
    BY DEF CallHasSid
<1>4. HolderUnique /\ HolderFresh
    BY DEF HolderUnique, HolderFresh
<1>5. AnswerMeansStored /\ HistoryComplete
    BY DEF AnswerMeansStored, HistoryComplete
<1>6. QED
    BY <1>1, <1>2, <1>3, <1>4, <1>5 DEF StoreInv

----------------------------------------------------------------------------
(* One lemma per action of a caller. *)

LEMMA CallKeepsStoreInv ==
    ASSUME StoreInv, NEW c \in Caller, NEW s \in Sid, Call(c, s)
    PROVE  StoreInv'
<1> USE DEF Call, Goto, db
<1>1. StoreTypeOK'
    BY DEF StoreInv, StoreTypeOK, Statements, Answers
<1>2. Stages'
    BY DEF StoreInv, StoreTypeOK, Stages, Stage, Tables
<1>3. tx[c] = {}
    BY DEF StoreInv, Stages, Stage
<1>4. CallHasSid'
    BY DEF StoreInv, StoreTypeOK, CallHasSid
<1>5. HolderUnique' /\ HolderFresh'
    BY <1>3 DEF StoreInv, StoreTypeOK, HolderUnique, HolderFresh
<1>6. AnswerMeansStored' /\ HistoryComplete'
    BY DEF StoreInv, StoreTypeOK, AnswerMeansStored, HistoryComplete
<1>7. QED
    BY <1>1, <1>2, <1>4, <1>5, <1>6 DEF StoreInv

LEMMA SelectKeepsStoreInv ==
    ASSUME StoreInv, NEW c \in Caller, Select(c)
    PROVE  StoreInv'
<1> USE DEF Select, Goto, db
<1>1. StoreTypeOK'
    BY DEF StoreInv, StoreTypeOK, Statements, Answers
<1>2. Stages'
    BY DEF StoreInv, StoreTypeOK, Stages, Stage, Tables
<1>3. CallHasSid'
    BY DEF StoreInv, StoreTypeOK, CallHasSid
<1>4. HolderUnique' /\ HolderFresh'
    BY DEF StoreInv, StoreTypeOK, HolderUnique, HolderFresh
<1>5. AnswerMeansStored'
    BY DEF StoreInv, StoreTypeOK, AnswerMeansStored
<1>6. HistoryComplete'
    BY DEF StoreInv, HistoryComplete
<1>7. QED
    BY <1>1, <1>2, <1>3, <1>4, <1>5, <1>6 DEF StoreInv

LEMMA InsertPlayerKeepsStoreInv ==
    ASSUME StoreInv, NEW c \in Caller, InsertPlayer(c)
    PROVE  StoreInv'
<1> USE DEF InsertPlayer, Goto, db
<1>1. StoreTypeOK'
    BY DEF StoreInv, StoreTypeOK, Statements, Answers, Tables
<1>2. Stages'
    BY DEF StoreInv, StoreTypeOK, Stages, Stage, Tables
<1>3. CallHasSid'
    BY DEF StoreInv, StoreTypeOK, CallHasSid
<1>4. HolderUnique'
    BY DEF StoreInv, StoreTypeOK, HolderUnique, KeyHeld
<1>5. HolderFresh'
    BY DEF StoreInv, StoreTypeOK, HolderFresh
<1>6. AnswerMeansStored'
    BY DEF StoreInv, StoreTypeOK, AnswerMeansStored
<1>7. HistoryComplete'
    BY DEF StoreInv, HistoryComplete
<1>8. QED
    BY <1>1, <1>2, <1>3, <1>4, <1>5, <1>6, <1>7 DEF StoreInv

LEMMA SaveKeepsStoreInv ==
    ASSUME StoreInv, NEW c \in Caller, SaveName(c) \/ SaveAvatar(c)
    PROVE  StoreInv'
<1> USE DEF SaveName, SaveAvatar, Goto, db
<1>1. StoreTypeOK'
    BY DEF StoreInv, StoreTypeOK, Statements, Answers, Tables
<1>2. Stages'
    BY DEF StoreInv, StoreTypeOK, Stages, Stage, Tables
<1>3. CallHasSid'
    BY DEF StoreInv, StoreTypeOK, CallHasSid
<1>4. "player" \in tx[c]
    BY DEF StoreInv, Stages, Stage
<1>5. HolderUnique'
    BY <1>4 DEF StoreInv, StoreTypeOK, HolderUnique
<1>6. HolderFresh'
    BY <1>4 DEF StoreInv, StoreTypeOK, HolderFresh
<1>7. AnswerMeansStored' /\ HistoryComplete'
    BY DEF StoreInv, StoreTypeOK, AnswerMeansStored, HistoryComplete
<1>8. QED
    BY <1>1, <1>2, <1>3, <1>5, <1>6, <1>7 DEF StoreInv

LEMMA CommitKeepsStoreInv ==
    ASSUME StoreInv, NEW c \in Caller, NEW a \in {"ok", "error"}, Commit(c, a)
    PROVE  StoreInv'
<1> USE DEF Commit, Goto
<1>1. /\ tx[c] = Tables
      /\ sid[c] \in Sid
      /\ sid[c] \notin player
    BY DEF StoreInv, Stages, Stage, CallHasSid, HolderFresh, Tables
<1>2. /\ player' = player \union {sid[c]}
      /\ names' = [names EXCEPT ![sid[c]] = @ + 1]
      /\ avatars' = [avatars EXCEPT ![sid[c]] = @ + 1]
      /\ tx' = [tx EXCEPT ![c] = {}]
    BY <1>1 DEF PublishRows, Tables
<1>3. StoreTypeOK'
    BY <1>1, <1>2 DEF StoreInv, StoreTypeOK, Statements, Answers
<1>4. Stages'
    BY <1>2 DEF StoreInv, StoreTypeOK, Stages, Stage, Tables
<1>5. CallHasSid'
    BY DEF StoreInv, StoreTypeOK, CallHasSid
<1>6. HolderUnique'
    BY <1>2 DEF StoreInv, StoreTypeOK, HolderUnique
<1>7. HolderFresh'
    BY <1>1, <1>2 DEF StoreInv, StoreTypeOK, HolderFresh, HolderUnique, Tables
<1>8. AnswerMeansStored'
    BY <1>2 DEF StoreInv, StoreTypeOK, AnswerMeansStored
<1>9. HistoryComplete'
    BY <1>1, <1>2 DEF StoreInv, StoreTypeOK, HistoryComplete
<1>10. QED
    BY <1>3, <1>4, <1>5, <1>6, <1>7, <1>8, <1>9 DEF StoreInv

LEMMA FailKeepsStoreInv ==
    ASSUME StoreInv, NEW c \in Caller, FailCall(c)
    PROVE  StoreInv'
<1> USE DEF FailCall, db
<1>1. StoreTypeOK'
    BY DEF StoreInv, StoreTypeOK, Statements, Answers
<1>2. Stages'
    BY DEF StoreInv, StoreTypeOK, Stages, Stage, Tables
<1>3. CallHasSid'
    BY DEF StoreInv, StoreTypeOK, CallHasSid, Statements
<1>4. HolderUnique' /\ HolderFresh'
    BY DEF StoreInv, StoreTypeOK, HolderUnique, HolderFresh
<1>5. AnswerMeansStored' /\ HistoryComplete'
    BY DEF StoreInv, StoreTypeOK, AnswerMeansStored, HistoryComplete
<1>6. QED
    BY <1>1, <1>2, <1>3, <1>4, <1>5 DEF StoreInv

LEMMA ReturnKeepsStoreInv ==
    ASSUME StoreInv, NEW c \in Caller, Return(c)
    PROVE  StoreInv'
<1> USE DEF Return, db
<1>1. StoreTypeOK'
    BY DEF StoreInv, StoreTypeOK
<1>2. Stages'
    BY DEF StoreInv, StoreTypeOK, Stages, Stage, Tables, Answers
<1>3. tx[c] = {}
    BY DEF StoreInv, Stages, Stage, Answers
<1>4. CallHasSid'
    BY DEF StoreInv, StoreTypeOK, CallHasSid
<1>5. HolderUnique' /\ HolderFresh'
    BY <1>3 DEF StoreInv, StoreTypeOK, HolderUnique, HolderFresh
<1>6. AnswerMeansStored' /\ HistoryComplete'
    BY DEF StoreInv, StoreTypeOK, AnswerMeansStored, HistoryComplete
<1>7. QED
    BY <1>1, <1>2, <1>4, <1>5, <1>6 DEF StoreInv

LEMMA CrashKeepsStoreInv ==
    ASSUME StoreInv, Crash
    PROVE  StoreInv'
<1> USE DEF Crash, db
<1>1. StoreTypeOK'
    BY DEF StoreInv, StoreTypeOK
<1>2. Stages' /\ CallHasSid' /\ HolderUnique' /\ HolderFresh'
    BY DEF Stages, Stage, CallHasSid, HolderUnique, HolderFresh
<1>3. AnswerMeansStored' /\ HistoryComplete'
    BY DEF StoreInv, AnswerMeansStored, HistoryComplete
<1>4. QED
    BY <1>1, <1>2, <1>3 DEF StoreInv

LEMMA StoreNextInv == StoreInv /\ [StoreNext]_storeVars => StoreInv'
<1> SUFFICES ASSUME StoreInv, [StoreNext]_storeVars PROVE StoreInv'
    OBVIOUS
<1>1. CASE UNCHANGED storeVars
    BY <1>1 DEF storeVars, StoreInv, StoreTypeOK, Stages, Stage, CallHasSid, HolderUnique,
                HolderFresh, AnswerMeansStored, HistoryComplete
<1>2. CASE Crash
    BY <1>2, CrashKeepsStoreInv
<1>3. ASSUME NEW c \in Caller, CallStep(c) PROVE StoreInv'
    BY <1>3, SelectKeepsStoreInv, InsertPlayerKeepsStoreInv, SaveKeepsStoreInv, CommitKeepsStoreInv DEF CallStep
<1>4. ASSUME NEW c \in Caller,
             \/ \E s \in Sid : Call(c, s)
             \/ Commit(c, "error")
             \/ FailCall(c)
             \/ Return(c)
      PROVE  StoreInv'
    BY <1>4, CallKeepsStoreInv, CommitKeepsStoreInv, FailKeepsStoreInv, ReturnKeepsStoreInv
<1>5. QED
    BY <1>1, <1>2, <1>3, <1>4 DEF StoreNext

LEMMA StoreSpecInv == StoreSpec => []StoreInv
<1>1. QED
    BY StoreInitInv, StoreNextInv, PTL DEF StoreSpec

----------------------------------------------------------------------------
(* The results. *)

\* The state of the store is well typed in every behaviour (store.go:459-491,
\* 370-457).
THEOREM StoreTypeCorrect == StoreSpec => []StoreTypeOK
<1>1. StoreInv => StoreTypeOK
    BY DEF StoreInv
<1>2. QED
    BY <1>1, StoreSpecInv, PTL

\* Whoever is told "ok" or "taken" by playerGetOrCreate finds the player
\* stored, for any number of racing callers.
THEOREM AnswerSafe == StoreSpec => []AnswerMeansStored
<1>1. StoreInv => AnswerMeansStored
    BY DEF StoreInv
<1>2. QED
    BY <1>1, StoreSpecInv, PTL

\* One name and one avatar for every stored player, none for any other: the
\* transaction of playerRecordSave is all or nothing and runs once.
THEOREM HistorySafe == StoreSpec => []HistoryComplete
<1>1. StoreInv => HistoryComplete
    BY DEF StoreInv
<1>2. QED
    BY <1>1, StoreSpecInv, PTL

----------------------------------------------------------------------------
(* The refinement. *)

\* What an action of a caller is to the registry.
LEMMA CallIsAsk ==
    ASSUME StoreInv, NEW c \in Caller, NEW s \in Sid, Call(c, s)
    PROVE  Registry!Ask(c, s)
BY DEF Call, Goto, db, StoreInv, StoreTypeOK, CallHasSid, Registry!Ask, Answers

LEMMA StepRefines ==
    ASSUME StoreInv, NEW c \in Caller, CallStep(c)
    PROVE  Registry!AnswerOk(c) \/ Registry!AnswerTaken(c) \/ UNCHANGED Registry!rvars
<1> USE DEF StoreInv, StoreTypeOK, Goto, db, Answers, Registry!rvars
<1>0. pc[c] # "idle" => sid[c] \in Sid /\ sid[c] # NoSid
    BY NoSidAssumption DEF CallHasSid
<1>1. CASE Select(c) /\ sid[c] \in player
    BY <1>0, <1>1 DEF Select, Registry!AnswerOk, Registry!Answer
<1>2. CASE Select(c) /\ sid[c] \notin player
    BY <1>2 DEF Select
<1>3. CASE InsertPlayer(c) /\ sid[c] \in player
    BY <1>0, <1>3 DEF InsertPlayer, Registry!AnswerTaken, Registry!Answer
<1>4. CASE InsertPlayer(c) /\ sid[c] \notin player
    BY <1>4 DEF InsertPlayer
<1>5. CASE SaveName(c) \/ SaveAvatar(c)
    BY <1>5 DEF SaveName, SaveAvatar
<1>6. CASE Commit(c, "ok")
  <2>1. "player" \in tx[c]
    BY <1>6 DEF Commit, Stages, Stage, Tables
  <2>2. QED
    BY <1>0, <1>6, <2>1 DEF Commit, PublishRows, Registry!AnswerOk, Registry!Answer
<1>7. QED
    BY <1>1, <1>2, <1>3, <1>4, <1>5, <1>6 DEF CallStep

LEMMA ErrorRefines ==
    ASSUME StoreInv, NEW c \in Caller, Commit(c, "error") \/ FailCall(c)
    PROVE  Registry!AnswerError(c)
<1> USE DEF StoreInv, StoreTypeOK, Goto, db, Answers, Statements,
            Registry!AnswerError, Registry!Answer
<1>0. pc[c] # "idle" => sid[c] \in Sid /\ sid[c] # NoSid
    BY NoSidAssumption DEF CallHasSid
<1>1. CASE Commit(c, "error")
  <2>1. "player" \in tx[c]
    BY <1>1 DEF Commit, Stages, Stage, Tables
  <2>2. QED
    BY <1>0, <1>1, <2>1 DEF Commit, PublishRows
<1>2. CASE FailCall(c)
    BY <1>0, <1>2 DEF FailCall
<1>3. QED
    BY <1>1, <1>2

LEMMA ReturnIsForget ==
    ASSUME StoreInv, NEW c \in Caller, Return(c)
    PROVE  Registry!Forget(c)
BY DEF StoreInv, StoreTypeOK, Return, db, Answers, Registry!Forget

LEMMA CrashIsForgetAll == Crash => Registry!ForgetAll
BY DEF Crash, db, Answers, Registry!ForgetAll

LEMMA NextRefines == StoreInv /\ [StoreNext]_storeVars => [Registry!RNext]_(Registry!rvars)
<1> SUFFICES ASSUME StoreInv, [StoreNext]_storeVars
             PROVE  Registry!RNext \/ UNCHANGED Registry!rvars
    OBVIOUS
<1>1. CASE UNCHANGED storeVars
    BY <1>1 DEF storeVars, Registry!rvars
<1>2. CASE Crash
    BY <1>2, CrashIsForgetAll DEF Registry!RNext
<1>3. ASSUME NEW c \in Caller, CallStep(c)
      PROVE  Registry!RNext \/ UNCHANGED Registry!rvars
    BY <1>3, StepRefines DEF Registry!RNext
<1>4. ASSUME NEW c \in Caller, \E s \in Sid : Call(c, s)
      PROVE  Registry!RNext
    BY <1>4, CallIsAsk DEF Registry!RNext
<1>5. ASSUME NEW c \in Caller, Commit(c, "error") \/ FailCall(c) \/ Return(c)
      PROVE  Registry!RNext
    BY <1>5, ErrorRefines, ReturnIsForget DEF Registry!RNext
<1>6. QED
    BY <1>1, <1>2, <1>3, <1>4, <1>5 DEF StoreNext

LEMMA InitRefines == StoreInit => Registry!RInit
BY DEF StoreInit, Answers, Registry!RInit

\* playerGetOrCreate is atomic to its callers, for any number of them: every
\* step of the store is a step of the registry or invisible to it.
THEOREM StoreImplementsRegistry == StoreSpec => ImplementsRegistry
<1>1. QED
    BY InitRefines, NextRefines, StoreSpecInv, PTL
    DEF StoreSpec, ImplementsRegistry, Registry!RSpec

----------------------------------------------------------------------------
(* The detector lists: the inductive invariant. *)

\* What is left of a plan is about the download in hand, and the rows that it
\* names by their ids are, as far as they still exist, the rows it was made for.
Sound(w, rows) ==
    /\ (w.creates # {} \/ w.updates # {} \/ w.deletes # {}) =>
            w.pc # "idle" /\ w.cur # NoList
    /\ \A k \in w.creates : k \in DOMAIN w.cur.doc /\ w.cur.doc[k].sid \in ValidSid
    /\ \A u \in w.updates :
        /\ u.at \in DOMAIN w.cur.doc
        /\ \A e \in rows : e.id = u.id =>
                e.list = w.cur.list /\ e.sid = w.cur.doc[u.at].sid
    /\ \A i \in w.deletes, e \in rows : e.id = i =>
            e.list = w.cur.list /\ e.sid \notin Listed(w.cur.doc)

PlansSound == \A j \in Job : Sound(job[j], entries)

ListsInv == TypeOK /\ PlansSound

----------------------------------------------------------------------------
(* Documents and attributes. *)

LEMMA DocFacts ==
    ASSUME NEW d \in Doc \union {<<>>}
    PROVE  /\ DOMAIN d \subseteq Nat
           /\ \A k \in DOMAIN d : d[k] \in Range(d) /\ d[k].attrs \subseteq DOMAIN Canon
           /\ \A p \in Range(d) : p.attrs \subseteq DOMAIN Canon
<1>1. \A k \in DOMAIN d : d[k] \in Range(d)
    BY DEF Range
<1>2. CASE d \in Doc
    BY <1>1, <1>2, DocAssumption
<1>3. CASE d = <<>>
    BY <1>3 DEF Range
<1>4. QED
    BY <1>2, <1>3

LEMMA NormalIsNormal ==
    ASSUME NEW attrs, attrs \subseteq DOMAIN Canon
    PROVE  NormalizeAttrs(NormalizeAttrs(attrs)) = NormalizeAttrs(attrs)
<1>1. \A x \in NormalizeAttrs(attrs) : Canon[x] = x /\ x # Blank
    BY CanonAssumption DEF NormalizeAttrs
<1>2. QED
    BY <1>1 DEF NormalizeAttrs

----------------------------------------------------------------------------
(* The soundness of a plan. *)

\* Row f stands where a row stood when the plan was sound, or no plan knows it.
Traced(f, rows, w) ==
    \/ \E e \in rows : e.id = f.id /\ e.list = f.list /\ e.sid = f.sid
    \/ f.id \notin w.deletes /\ \A u \in w.updates : u.id # f.id

LEMMA SoundKept ==
    ASSUME NEW w, NEW rows, NEW more, Sound(w, rows),
           \A f \in more : Traced(f, rows, w)
    PROVE  Sound(w, more)
BY DEF Sound, Traced

LEMMA SoundRest ==
    ASSUME NEW w, NEW v, NEW rows, Sound(w, rows),
           v.creates \subseteq w.creates, v.updates \subseteq w.updates,
           v.deletes \subseteq w.deletes, v.cur = w.cur, v.pc # "idle"
    PROVE  Sound(v, rows)
BY DEF Sound

LEMMA SoundNothing ==
    ASSUME NEW v, NEW rows, v.creates = {}, v.updates = {}, v.deletes = {}
    PROVE  Sound(v, rows)
BY DEF Sound

LEMMA IdleFacts ==
    /\ Idle \in Progress
    /\ Idle.pc = "idle"
    /\ Idle.creates = {} /\ Idle.updates = {} /\ Idle.deletes = {}
BY DEF Idle, Progress

\* A job's step: the others keep their plans if the rows can be traced.
LEMMA PlansKept ==
    ASSUME TypeOK, PlansSound, NEW j \in Job, NEW w, Set(j, w), Sound(w, entries'),
           \A k \in Job : \A f \in entries' : Traced(f, entries, job[k])
    PROVE  PlansSound'
<1>1. ASSUME NEW k \in Job PROVE Sound(job'[k], entries')
  <2>1. CASE k = j
    BY <2>1 DEF TypeOK, Set
  <2>2. CASE k # j
    <3>1. job'[k] = job[k]
      BY <2>2 DEF TypeOK, Set
    <3>2. Sound(job[k], entries) /\ \A f \in entries' : Traced(f, entries, job[k])
      BY DEF PlansSound
    <3>3. QED
      BY <3>1, <3>2, SoundKept
  <2>3. QED
    BY <2>1, <2>2
<1>2. QED
    BY <1>1 DEF PlansSound

LEMMA SameRowsTraced ==
    ASSUME NEW rows, NEW w PROVE \A f \in rows : Traced(f, rows, w)
BY DEF Traced

----------------------------------------------------------------------------
(* One lemma per action of the lists. *)

LEMMA ListsInitInv == Init => ListsInv
<1> SUFFICES ASSUME Init PROVE ListsInv
    OBVIOUS
<1>1. TypeOK
    BY IdleFacts, BoundAssumption DEF Init, TypeOK
<1>2. PlansSound
    BY IdleFacts, SoundNothing DEF Init, PlansSound
<1>3. QED
    BY <1>1, <1>2 DEF ListsInv

\* A step that leaves the rows alone.
LEMMA QuietStep ==
    ASSUME ListsInv, NEW j \in Job, NEW w \in Progress, Set(j, w), Sound(w, entries),
           UNCHANGED <<lists, entries, players, served, changes>>,
           faults' \in 0..MaxFaults
    PROVE  ListsInv'
<1>1. TypeOK'
    BY DEF ListsInv, TypeOK, Set
<1>2. PlansSound'
  <2>1. Sound(w, entries')
    OBVIOUS
  <2>2. \A k \in Job : \A f \in entries' : Traced(f, entries, job[k])
    BY SameRowsTraced
  <2>3. QED
    BY <2>1, <2>2, PlansKept DEF ListsInv
<1>3. QED
    BY <1>1, <1>2 DEF ListsInv

LEMMA FaultCounts ==
    ASSUME TypeOK, Fault \/ NoFault
    PROVE  faults' \in 0..MaxFaults
BY BoundAssumption DEF TypeOK, Fault, NoFault

LEMMA StartKeepsLists ==
    ASSUME ListsInv, NEW j \in Job, Start(j)
    PROVE  ListsInv'
<1>1. faults' \in 0..MaxFaults
    BY FaultCounts DEF Start, ListsInv
<1>2. PICK ls \in SUBSET lists : Set(j, [Idle EXCEPT !.pc = "run", !.todo = ls])
    BY DEF Start
<1> DEFINE w == [Idle EXCEPT !.pc = "run", !.todo = ls]
<1>3. w \in Progress /\ w.creates = {} /\ w.updates = {} /\ w.deletes = {}
    BY <1>2 DEF Idle, Progress, ListsInv, TypeOK
<1>4. Sound(w, entries)
    BY <1>3, SoundNothing
<1>5. Set(j, w) /\ UNCHANGED <<lists, entries, players, served, changes>>
    BY <1>2 DEF Start
<1> HIDE DEF w
<1>6. QED
    BY <1>1, <1>3, <1>4, <1>5, QuietStep

LEMMA FetchKeepsLists ==
    ASSUME ListsInv, NEW j \in Job, Fetch(j)
    PROVE  ListsInv'
<1>1. faults' \in 0..MaxFaults
    BY FaultCounts DEF Fetch, ListsInv
<1>2. PICK v \in Progress : v = job[j]
    BY DEF ListsInv, TypeOK
<1>3. PICK l \in v.todo, ds \in SUBSET ListMapping :
        Set(j, [v EXCEPT !.todo = @ \ {l}, !.docs = @ \union ds])
  <2>1. PICK l \in v.todo :
            \/ Set(j, [v EXCEPT !.todo = @ \ {l}, !.docs = @ \union {[list |-> l, doc |-> served[l]]}])
            \/ Set(j, [v EXCEPT !.todo = @ \ {l}, !.docs = @ \union {[list |-> l, doc |-> <<>>]}])
            \/ Set(j, [v EXCEPT !.todo = @ \ {l}, !.docs = @ \union {}])
    BY <1>2 DEF Fetch
  <2>2. l \in List /\ served[l] \in Doc
    BY DEF Progress, ListsInv, TypeOK
  <2>3. /\ {[list |-> l, doc |-> served[l]]} \in SUBSET ListMapping
        /\ {[list |-> l, doc |-> <<>>]} \in SUBSET ListMapping
        /\ {} \in SUBSET ListMapping
    BY <2>2 DEF ListMapping
  <2>4. QED
    BY <2>1, <2>3
<1> DEFINE w == [v EXCEPT !.todo = @ \ {l}, !.docs = @ \union ds]
<1>4. /\ w \in Progress
      /\ w.creates = v.creates /\ w.updates = v.updates /\ w.deletes = v.deletes
      /\ w.cur = v.cur /\ w.pc = v.pc
    BY DEF Progress
<1>5. Sound(v, entries)
    BY <1>2 DEF ListsInv, PlansSound
<1>6. Sound(w, entries)
    BY <1>4, <1>5 DEF Sound
<1>7. Set(j, w) /\ UNCHANGED <<lists, entries, players, served, changes>>
    BY <1>3 DEF Fetch
<1> HIDE DEF w
<1>8. QED
    BY <1>1, <1>4, <1>6, <1>7, QuietStep

\* What findNewAndUpdated and findDeleted return is sound for the table they saw.
LEMMA PlanIsSound ==
    ASSUME TypeOK, NEW m \in ListMapping, NEW existing, existing \subseteq Rows(m.list),
           NEW w, w.pc # "idle", w.cur = m,
           w.creates = FindNew(existing, m.doc),
           w.updates = FindUpdated(existing, m.doc),
           w.deletes = FindDeleted(existing, m.doc)
    PROVE  Sound(w, entries)
<1>1. \A x \in existing : x \in entries /\ x.list = m.list
    BY DEF Rows
<1>2. \A e, f \in entries : e.id = f.id => e = f
    BY DEF TypeOK
<1>3. w.cur # NoList
    BY NoListAssumption
<1>4. \A k \in w.creates : k \in DOMAIN m.doc /\ m.doc[k].sid \in ValidSid
    BY DEF FindNew
<1>5. ASSUME NEW u \in w.updates
      PROVE  /\ u.at \in DOMAIN m.doc
             /\ \A e \in entries : e.id = u.id => e.list = m.list /\ e.sid = m.doc[u.at].sid
  <2>1. PICK k \in DOMAIN m.doc : /\ Known(existing, m.doc[k])
                                  /\ u = [at |-> k, id |-> Match(existing, m.doc[k]).id]
    BY DEF FindUpdated
  <2>2. /\ Match(existing, m.doc[k]) \in existing
        /\ Match(existing, m.doc[k]).sid = m.doc[k].sid
    BY <2>1 DEF Known, Match
  <2>3. PICK x \in existing : x = Match(existing, m.doc[k])
    BY <2>2
  <2>4. u.at = k /\ u.id = x.id /\ x.sid = m.doc[k].sid
    BY <2>1, <2>2, <2>3
  <2>5. QED
    BY <1>1, <1>2, <2>4
<1>6. ASSUME NEW i \in w.deletes, NEW e \in entries, e.id = i
      PROVE  e.list = m.list /\ e.sid \notin Listed(m.doc)
  <2>1. PICK x \in existing : x.sid \notin Listed(m.doc) /\ i = x.id
    BY DEF FindDeleted
  <2>2. QED
    BY <1>1, <1>2, <1>6, <2>1
<1>7. QED
    BY <1>3, <1>4, <1>5, <1>6 DEF Sound

LEMMA PlanIsTyped ==
    ASSUME TypeOK, NEW m \in ListMapping, NEW existing, existing \subseteq Rows(m.list)
    PROVE  /\ FindNew(existing, m.doc) \in SUBSET Nat
           /\ FindUpdated(existing, m.doc) \in SUBSET [at : Nat, id : Id]
           /\ FindDeleted(existing, m.doc) \in SUBSET Id
<1>1. \A x \in existing : x.id \in Id
    BY DEF Rows, TypeOK
<1>2. m.doc \in Doc \union {<<>>}
    BY DEF ListMapping
<1>3. DOMAIN m.doc \subseteq Nat
    BY <1>2, DocFacts
<1>4. FindNew(existing, m.doc) \in SUBSET Nat
    BY <1>3 DEF FindNew
<1>5. ASSUME NEW u \in FindUpdated(existing, m.doc) PROVE u \in [at : Nat, id : Id]
  <2>1. PICK k \in DOMAIN m.doc : /\ Known(existing, m.doc[k])
                                  /\ u = [at |-> k, id |-> Match(existing, m.doc[k]).id]
    BY DEF FindUpdated
  <2>2. Match(existing, m.doc[k]) \in existing
    BY <2>1 DEF Known, Match
  <2>3. QED
    BY <1>1, <1>3, <2>1, <2>2
<1>6. FindDeleted(existing, m.doc) \in SUBSET Id
    BY <1>1 DEF FindDeleted
<1>7. QED
    BY <1>4, <1>5, <1>6

LEMMA ReadEntriesKeepsLists ==
    ASSUME ListsInv, NEW j \in Job, ReadEntries(j)
    PROVE  ListsInv'
<1>1. faults' \in 0..MaxFaults
    BY FaultCounts DEF ReadEntries, ListsInv
<1>2. PICK v \in Progress : v = job[j] /\ v.pc = "run"
    BY DEF ListsInv, TypeOK, ReadEntries, PlanDone
<1>3. PICK m \in v.docs, existing \in SUBSET entries :
        /\ existing \subseteq Rows(m.list)
        /\ Set(j, [v EXCEPT !.docs = @ \ {m}, !.cur = m,
                            !.creates = FindNew(existing, m.doc),
                            !.updates = FindUpdated(existing, m.doc),
                            !.deletes = FindDeleted(existing, m.doc)])
    BY <1>2 DEF ReadEntries
<1>4. PICK c, u, d : /\ c = FindNew(existing, m.doc)
                     /\ u = FindUpdated(existing, m.doc)
                     /\ d = FindDeleted(existing, m.doc)
    OBVIOUS
<1>5. m \in ListMapping
    BY DEF Progress
<1>6. c \in SUBSET Nat /\ u \in SUBSET [at : Nat, id : Id] /\ d \in SUBSET Id
    BY <1>3, <1>4, <1>5, PlanIsTyped DEF ListsInv
<1> DEFINE w == [v EXCEPT !.docs = @ \ {m}, !.cur = m, !.creates = c, !.updates = u,
                          !.deletes = d]
<1>7. /\ w \in Progress
      /\ w.pc = "run" /\ w.cur = m /\ w.creates = c /\ w.updates = u /\ w.deletes = d
    BY <1>2, <1>5, <1>6 DEF Progress
<1>8. Set(j, w) /\ UNCHANGED <<lists, entries, players, served, changes>>
    BY <1>3, <1>4 DEF ReadEntries
<1> HIDE DEF w
<1>9. Sound(w, entries)
    BY <1>3, <1>4, <1>5, <1>7, PlanIsSound DEF ListsInv
<1>10. QED
    BY <1>1, <1>7, <1>8, <1>9, QuietStep

LEMMA EnsurePlayerKeepsLists ==
    ASSUME ListsInv, NEW j \in Job, EnsurePlayer(j)
    PROVE  ListsInv'
<1>1. PICK v \in Progress : v = job[j]
    BY DEF ListsInv, TypeOK
<1>2. Sound(v, entries)
    BY <1>1 DEF ListsInv, PlansSound
<1>3. PICK k \in v.creates : players' = players \union {v.cur.doc[k].sid}
    BY <1>1 DEF EnsurePlayer, PlayerStored, NextNew
<1>4. v.cur.doc[k].sid \in ValidSid
    BY <1>2 DEF Sound
<1> DEFINE w == [v EXCEPT !.pc = "insert"]
<1>5. /\ w \in Progress
      /\ w.creates = v.creates /\ w.updates = v.updates /\ w.deletes = v.deletes
      /\ w.cur = v.cur /\ w.pc = "insert"
    BY DEF Progress
<1>6. Set(j, w) /\ UNCHANGED <<lists, entries, served, changes, faults>>
    BY <1>1 DEF EnsurePlayer
<1> HIDE DEF w
<1>7. Sound(w, entries)
    BY <1>2, <1>5, SoundRest
<1>8. TypeOK'
    BY <1>3, <1>4, <1>5, <1>6 DEF ListsInv, TypeOK, Set
<1>9. \A i \in Job : \A f \in entries' : Traced(f, entries, job[i])
    BY <1>6, SameRowsTraced
<1>10. Sound(w, entries')
    BY <1>6, <1>7
<1>11. PlansSound'
    BY <1>6, <1>9, <1>10, PlansKept DEF ListsInv
<1>12. QED
    BY <1>8, <1>11 DEF ListsInv

\* The type invariant's conjuncts about the entries.
RowsOK(rows) ==
    /\ \A e \in rows : e.id \in Id /\ e.list \in lists /\ e.sid \in players
    /\ \A e, f \in rows : (e.id = f.id \/ (e.list = f.list /\ e.sid = f.sid)) => e = f
    /\ \A e \in rows : e.attrs # {} /\ e.attrs = NormalizeAttrs(e.attrs)

\* A step of a job that may change rows.
LEMMA RowStep ==
    ASSUME ListsInv, NEW j \in Job, NEW w \in Progress, Set(j, w), Sound(w, entries),
           UNCHANGED <<lists, players, served, changes>>, faults' \in 0..MaxFaults,
           RowsOK(entries'),
           \A i \in Job : \A f \in entries' : Traced(f, entries, job[i]),
           \A f \in entries' : Traced(f, entries, w)
    PROVE  ListsInv'
<1>1. TypeOK'
    BY DEF ListsInv, TypeOK, Set, RowsOK
<1>2. Sound(w, entries')
    BY SoundKept
<1>3. PlansSound'
    BY <1>2, PlansKept DEF ListsInv
<1>4. QED
    BY <1>1, <1>3 DEF ListsInv

LEMMA FreshIdFacts ==
    ASSUME Id \ HeldIds # {}
    PROVE  FreshId \in Id /\ FreshId \notin HeldIds
BY DEF FreshId

LEMMA EntryFacts ==
    ASSUME NEW i, NEW l, NEW s, NEW p, NEW f, f = Entry(i, l, s, Stored(p))
    PROVE  /\ f.id = i /\ f.list = l /\ f.sid = s
           /\ f.attrs = NormalizeAttrs(p.attrs) /\ f.name = p.name
BY DEF Entry, Stored

\* The statement of botDetectorListEntryCreate that adds a row.
LEMMA InsertFacts ==
    ASSUME ListsInv, NEW l, NEW p, Insert(l, Stored(p)), p.attrs \subseteq DOMAIN Canon
    PROVE  \E f : /\ entries' = entries \union {f}
                  /\ RowsOK(entries')
                  /\ f.id \notin HeldIds
                  /\ f.list = l /\ f.sid = p.sid
                  /\ f.attrs = NormalizeAttrs(p.attrs) /\ f.name = p.name
<1>1. FreshId \in Id /\ FreshId \notin HeldIds
    BY FreshIdFacts DEF Insert
<1>2. Stored(p).sid = p.sid /\ Stored(p).attrs = NormalizeAttrs(p.attrs)
    BY DEF Stored
<1>3. PICK f : f = Entry(FreshId, l, p.sid, Stored(p))
    OBVIOUS
<1>4. /\ f.id = FreshId /\ f.list = l /\ f.sid = p.sid
      /\ f.attrs = NormalizeAttrs(p.attrs) /\ f.name = p.name
    BY <1>3, EntryFacts
<1>5. entries' = entries \union {f}
    BY <1>2, <1>3 DEF Insert
<1>6. /\ l \in lists /\ p.sid \in players /\ f.attrs # {}
      /\ \A e \in entries : ~(e.list = l /\ e.sid = p.sid)
    BY <1>2, <1>4 DEF Insert, Accepted, Known, Rows
<1>7. \A e \in entries : e.id # f.id
    BY <1>1, <1>4 DEF HeldIds
<1>8. f.attrs = NormalizeAttrs(f.attrs)
    BY <1>4, NormalIsNormal
<1>9. RowsOK(entries)
    BY DEF ListsInv, TypeOK, RowsOK
<1>10. RowsOK(entries \union {f})
    BY <1>1, <1>4, <1>6, <1>7, <1>8, <1>9 DEF RowsOK
<1>11. QED
    BY <1>1, <1>4, <1>5, <1>10

LEMMA FreshRowTraced ==
    ASSUME NEW f, f.id \notin HeldIds, NEW i \in Job, NEW rows
    PROVE  Traced(f, rows, job[i])
BY DEF HeldIds, Traced

LEMMA InsertEntryKeepsLists ==
    ASSUME ListsInv, NEW j \in Job, InsertEntry(j)
    PROVE  ListsInv'
<1>1. PICK v \in Progress : v = job[j]
    BY DEF ListsInv, TypeOK
<1>2. Sound(v, entries)
    BY <1>1 DEF ListsInv, PlansSound
<1>3. PICK k \in v.creates :
        /\ \/ Insert(v.cur.list, Stored(v.cur.doc[k])) /\ NoFault
           \/ UNCHANGED entries /\ NoFault
           \/ UNCHANGED entries /\ Fault
        /\ Set(j, [v EXCEPT !.pc = "run", !.creates = @ \ {k}])
    BY <1>1 DEF InsertEntry, NextNew
<1>4. faults' \in 0..MaxFaults
    BY <1>3, FaultCounts DEF ListsInv
<1> DEFINE w == [v EXCEPT !.pc = "run", !.creates = @ \ {k}]
<1>5. /\ w \in Progress
      /\ w.creates \subseteq v.creates /\ w.updates = v.updates /\ w.deletes = v.deletes
      /\ w.cur = v.cur /\ w.pc = "run"
    BY DEF Progress
<1>6. Set(j, w) /\ UNCHANGED <<lists, players, served, changes>>
    BY <1>3 DEF InsertEntry
<1> HIDE DEF w
<1>7. Sound(w, entries)
    BY <1>2, <1>5, SoundRest
<1>8. CASE UNCHANGED entries
    BY <1>4, <1>5, <1>6, <1>7, <1>8, QuietStep
<1>9. CASE Insert(v.cur.list, Stored(v.cur.doc[k]))
  <2>1. k \in DOMAIN v.cur.doc /\ v.cur \in ListMapping
    BY <1>2 DEF Sound, Progress
  <2>2. v.cur.doc \in Doc \union {<<>>}
    BY <2>1 DEF ListMapping
  <2>3. v.cur.doc[k].attrs \subseteq DOMAIN Canon
    BY <2>1, <2>2, DocFacts
  <2>4. PICK f : /\ entries' = entries \union {f}
                 /\ RowsOK(entries')
                 /\ f.id \notin HeldIds
    BY <1>9, <2>3, InsertFacts
  <2>5. \A i \in Job : \A e \in entries' : Traced(e, entries, job[i])
    BY <2>4, FreshRowTraced, SameRowsTraced
  <2>6. \A e \in entries' : Traced(e, entries, v)
    BY <1>1, <2>5
  <2>7. \A e \in entries' : Traced(e, entries, w)
    BY <1>5, <2>6 DEF Traced
  <2>8. QED
    BY <1>4, <1>5, <1>6, <1>7, <2>4, <2>5, <2>7, RowStep
<1>10. QED
    BY <1>3, <1>8, <1>9

\* The statement of botDetectorListEntryUpdate: the row of an id, if there is one.
Updated(i, to) ==
    LET rows == {e \in entries : e.id = i}
    IN  (entries \ rows) \union {Entry(e.id, e.list, e.sid, to) : e \in rows}

LEMMA UpdatedFacts ==
    ASSUME ListsInv, NEW i, NEW p, p.attrs \subseteq DOMAIN Canon,
           {e \in entries : e.id = i} = {} \/ Stored(p).attrs # {}
    PROVE  /\ RowsOK(Updated(i, Stored(p)))
           /\ \A f \in Updated(i, Stored(p)) :
                \/ f \in entries
                \/ \E e \in entries : /\ e.id = i
                                      /\ f.id = e.id /\ f.list = e.list /\ f.sid = e.sid
                                      /\ f.attrs = NormalizeAttrs(p.attrs)
                                      /\ f.name = p.name
           /\ \A e \in entries : \E f \in Updated(i, Stored(p)) : f.id = e.id
<1> DEFINE rows == {e \in entries : e.id = i}
<1>1. RowsOK(entries)
    BY DEF ListsInv, TypeOK, RowsOK
<1>2. ASSUME NEW f \in Updated(i, Stored(p))
      PROVE  \/ f \in entries /\ f.id # i
             \/ \E e \in entries : /\ e.id = i
                                   /\ f.id = e.id /\ f.list = e.list /\ f.sid = e.sid
                                   /\ f.attrs = NormalizeAttrs(p.attrs)
                                   /\ f.name = p.name
                                   /\ f.attrs # {}
  <2>1. CASE f \in entries \ rows
    BY <2>1
  <2>2. CASE f \notin entries \ rows
    <3>1. PICK e \in rows : f = Entry(e.id, e.list, e.sid, Stored(p))
      BY <2>2 DEF Updated
    <3>2. /\ f.id = e.id /\ f.list = e.list /\ f.sid = e.sid
          /\ f.attrs = NormalizeAttrs(p.attrs) /\ f.name = p.name
      BY <3>1, EntryFacts
    <3>3. NormalizeAttrs(p.attrs) # {}
      BY <3>1 DEF Stored
    <3>4. QED
      BY <3>1, <3>2, <3>3
  <2>3. QED
    BY <2>1, <2>2
<1>3. \A f \in Updated(i, Stored(p)) :
        /\ f.attrs # {} /\ f.attrs = NormalizeAttrs(f.attrs)
        /\ \E e \in entries : f.id = e.id /\ f.list = e.list /\ f.sid = e.sid
  <2>1. NormalizeAttrs(NormalizeAttrs(p.attrs)) = NormalizeAttrs(p.attrs)
    BY NormalIsNormal
  <2>2. QED
    BY <1>1, <1>2, <2>1 DEF RowsOK
\* Two rows with one id are one row: both are old, or both are the row of i.
<1>4. ASSUME NEW f \in Updated(i, Stored(p)), NEW g \in Updated(i, Stored(p)), f.id = g.id
      PROVE  f = g
  <2>1. CASE f \in entries /\ f.id # i
    BY <1>1, <1>2, <1>4, <2>1 DEF RowsOK
  <2>2. CASE ~(f \in entries /\ f.id # i)
    <3>1. f.id = i /\ f \notin entries \ rows /\ g \notin entries \ rows
      BY <1>2, <1>4, <2>2
    <3>2. PICK d \in rows : f = Entry(d.id, d.list, d.sid, Stored(p))
      BY <3>1 DEF Updated
    <3>3. PICK e \in rows : g = Entry(e.id, e.list, e.sid, Stored(p))
      BY <3>1 DEF Updated
    <3>4. d = e
      BY <1>1, <3>2, <3>3 DEF RowsOK
    <3>5. QED
      BY <3>2, <3>3, <3>4
  <2>3. QED
    BY <2>1, <2>2
<1>5. ASSUME NEW f \in Updated(i, Stored(p)), NEW g \in Updated(i, Stored(p)),
             f.list = g.list, f.sid = g.sid
      PROVE  f.id = g.id
  <2>1. PICK d \in entries : f.id = d.id /\ f.list = d.list /\ f.sid = d.sid
    BY <1>3
  <2>2. PICK e \in entries : g.id = e.id /\ g.list = e.list /\ g.sid = e.sid
    BY <1>3
  <2>3. d = e
    BY <1>1, <1>5, <2>1, <2>2 DEF RowsOK
  <2>4. QED
    BY <2>1, <2>2, <2>3
<1>6. RowsOK(Updated(i, Stored(p)))
  <2>1. \A f \in Updated(i, Stored(p)) : f.id \in Id /\ f.list \in lists /\ f.sid \in players
    BY <1>1, <1>3 DEF RowsOK
  <2>2. QED
    BY <1>3, <1>4, <1>5, <2>1 DEF RowsOK
<1>7. ASSUME NEW e \in entries PROVE \E f \in Updated(i, Stored(p)) : f.id = e.id
  <2>1. CASE e.id # i
    BY <2>1 DEF Updated
  <2>2. CASE e.id = i
    <3>1. PICK f : f = Entry(e.id, e.list, e.sid, Stored(p))
      OBVIOUS
    <3>2. f \in Updated(i, Stored(p))
      BY <2>2, <3>1 DEF Updated
    <3>3. f.id = e.id
      BY <3>1, EntryFacts
    <3>4. QED
      BY <3>2, <3>3
  <2>3. QED
    BY <2>1, <2>2
<1>8. QED
    BY <1>2, <1>6, <1>7

LEMMA IdleStep ==
    ASSUME ListsInv, NEW j \in Job, Set(j, Idle),
           UNCHANGED <<lists, entries, players, served, changes>>,
           faults' \in 0..MaxFaults
    PROVE  ListsInv'
BY IdleFacts, SoundNothing, QuietStep

LEMMA UpdateEntryKeepsLists ==
    ASSUME ListsInv, NEW j \in Job, UpdateEntry(j)
    PROVE  ListsInv'
<1>1. PICK v \in Progress : v = job[j]
    BY DEF ListsInv, TypeOK
<1>2. Sound(v, entries)
    BY <1>1 DEF ListsInv, PlansSound
<1>3. PICK u \in v.updates :
        IF {e \in entries : e.id = u.id} # {} /\ Stored(v.cur.doc[u.at]).attrs = {}
        THEN Set(j, Idle) /\ UNCHANGED entries
        ELSE /\ entries' = Updated(u.id, Stored(v.cur.doc[u.at]))
             /\ Set(j, [v EXCEPT !.updates = @ \ {u}])
    BY <1>1 DEF UpdateEntry, NextChanged, Updated
<1>4. UNCHANGED <<lists, players, served, changes>> /\ faults' \in 0..MaxFaults
    BY DEF UpdateEntry, ListsInv, TypeOK
<1>5. CASE Set(j, Idle) /\ UNCHANGED entries
    BY <1>4, <1>5, IdleStep
<1>6. CASE /\ {e \in entries : e.id = u.id} = {} \/ Stored(v.cur.doc[u.at]).attrs # {}
           /\ entries' = Updated(u.id, Stored(v.cur.doc[u.at]))
           /\ Set(j, [v EXCEPT !.updates = @ \ {u}])
  <2> DEFINE w == [v EXCEPT !.updates = @ \ {u}]
  <2>1. /\ w \in Progress
        /\ w.creates = v.creates /\ w.updates \subseteq v.updates /\ w.deletes = v.deletes
        /\ w.cur = v.cur /\ w.pc = v.pc
    BY DEF Progress
  <2>2. Set(j, w)
    BY <1>6
  <2> HIDE DEF w
  <2>3. Sound(w, entries)
    BY <1>2, <2>1 DEF Sound
  <2>4. u.at \in DOMAIN v.cur.doc /\ v.cur \in ListMapping
    BY <1>2 DEF Sound, Progress
  <2>5. v.cur.doc \in Doc \union {<<>>}
    BY <2>4 DEF ListMapping
  <2>6. v.cur.doc[u.at].attrs \subseteq DOMAIN Canon
    BY <2>4, <2>5, DocFacts
  <2>7. PICK p : p = v.cur.doc[u.at]
    OBVIOUS
  <2>8. /\ RowsOK(entries')
        /\ \A f \in entries' :
            \E e \in entries : e.id = f.id /\ e.list = f.list /\ e.sid = f.sid
    BY <1>6, <2>6, <2>7, UpdatedFacts
  <2>9. /\ \A i \in Job : \A f \in entries' : Traced(f, entries, job[i])
        /\ \A f \in entries' : Traced(f, entries, w)
    BY <2>8 DEF Traced
  <2>10. QED
    BY <1>4, <2>1, <2>2, <2>3, <2>8, <2>9, RowStep
<1>7. QED
    BY <1>3, <1>5, <1>6

LEMMA DeleteEntryKeepsLists ==
    ASSUME ListsInv, NEW j \in Job, DeleteEntry(j)
    PROVE  ListsInv'
<1>1. PICK v \in Progress : v = job[j]
    BY DEF ListsInv, TypeOK
<1>2. Sound(v, entries)
    BY <1>1 DEF ListsInv, PlansSound
<1>3. PICK i \in v.deletes : /\ entries' = {e \in entries : e.id # i}
                             /\ Set(j, [v EXCEPT !.deletes = @ \ {i}])
    BY <1>1 DEF DeleteEntry
<1> DEFINE w == [v EXCEPT !.deletes = @ \ {i}]
<1>4. /\ w \in Progress
      /\ w.creates = v.creates /\ w.updates = v.updates /\ w.deletes \subseteq v.deletes
      /\ w.cur = v.cur /\ w.pc = v.pc
    BY DEF Progress
<1>5. Set(j, w) /\ UNCHANGED <<lists, players, served, changes>> /\ faults' \in 0..MaxFaults
    BY <1>3 DEF DeleteEntry, ListsInv, TypeOK
<1> HIDE DEF w
<1>6. Sound(w, entries)
    BY <1>2, <1>4 DEF Sound
<1>7. RowsOK(entries')
    BY <1>3 DEF RowsOK, ListsInv, TypeOK
<1>8. \A f \in entries' : f \in entries
    BY <1>3
<1>9. /\ \A k \in Job : \A f \in entries' : Traced(f, entries, job[k])
      /\ \A f \in entries' : Traced(f, entries, w)
    BY <1>8 DEF Traced
<1>10. QED
    BY <1>4, <1>5, <1>6, <1>7, <1>9, RowStep

LEMMA EndKeepsLists ==
    ASSUME ListsInv, NEW j \in Job, Finish(j) \/ Fail(j)
    PROVE  ListsInv'
<1>1. Set(j, Idle) /\ UNCHANGED <<lists, entries, served, changes>>
    BY DEF Finish, Fail
<1>2. faults' \in 0..MaxFaults
    BY FaultCounts DEF Finish, Fail, ListsInv, TypeOK
<1>3. players \subseteq players' /\ players' \subseteq ValidSid
  <2>1. CASE UNCHANGED players
    BY <2>1 DEF ListsInv, TypeOK
  <2>2. CASE PlayerStored(j)
    <3>1. PICK k \in job[j].creates : players' = players \union {job[j].cur.doc[k].sid}
      BY <2>2 DEF PlayerStored, NextNew
    <3>2. job[j].cur.doc[k].sid \in ValidSid
      BY DEF ListsInv, PlansSound, Sound
    <3>3. QED
      BY <3>1, <3>2 DEF ListsInv, TypeOK
  <2>3. QED
    BY <2>1, <2>2 DEF Finish, Fail
<1>4. TypeOK'
    BY <1>1, <1>2, <1>3, IdleFacts DEF ListsInv, TypeOK, Set
<1>5. PlansSound'
  <2>1. Sound(Idle, entries')
    BY IdleFacts, SoundNothing
  <2>2. \A k \in Job : \A f \in entries' : Traced(f, entries, job[k])
    BY <1>1, SameRowsTraced
  <2>3. QED
    BY <1>1, <2>1, <2>2, PlansKept DEF ListsInv
<1>6. QED
    BY <1>4, <1>5 DEF ListsInv

LEMMA WorldKeepsLists ==
    ASSUME ListsInv, NEW l \in List, Publish(l) \/ DeleteList(l) \/ AddList(l)
    PROVE  ListsInv'
<1>1. UNCHANGED <<players, job, faults>> /\ changes' \in 0..MaxChanges
    BY BoundAssumption DEF Publish, DeleteList, AddList, Change, ListsInv, TypeOK
<1>2. served' \in [List -> Doc]
    BY DEF Publish, DeleteList, AddList, ListsInv, TypeOK
<1>3. /\ lists' \subseteq List
      /\ \A e \in entries' : e \in entries /\ e.list \in lists'
    BY DEF Publish, DeleteList, AddList, ListsInv, TypeOK, Rows
<1>4. TypeOK'
    BY <1>1, <1>2, <1>3 DEF ListsInv, TypeOK
<1>5. PlansSound'
  <2>1. ASSUME NEW j \in Job PROVE Sound(job'[j], entries')
    <3>1. Sound(job[j], entries) /\ \A f \in entries' : Traced(f, entries, job[j])
      BY <1>3 DEF ListsInv, PlansSound, Traced
    <3>2. Sound(job[j], entries')
      BY <3>1, SoundKept
    <3>3. QED
      BY <1>1, <3>2
  <2>2. QED
    BY <2>1 DEF PlansSound
<1>6. QED
    BY <1>4, <1>5 DEF ListsInv

LEMMA ListsNextInv == ListsInv /\ [Next]_vars => ListsInv'
<1> SUFFICES ASSUME ListsInv, [Next]_vars PROVE ListsInv'
    OBVIOUS
<1>1. CASE UNCHANGED vars
    BY <1>1 DEF vars, ListsInv, TypeOK, PlansSound
<1>2. ASSUME NEW j \in Job, Start(j) \/ Step(j) \/ Fail(j) PROVE ListsInv'
    BY <1>2, StartKeepsLists, FetchKeepsLists, ReadEntriesKeepsLists,
       EnsurePlayerKeepsLists, InsertEntryKeepsLists, UpdateEntryKeepsLists,
       DeleteEntryKeepsLists, EndKeepsLists DEF Step
<1>3. ASSUME NEW l \in List, Publish(l) \/ DeleteList(l) \/ AddList(l) PROVE ListsInv'
    BY <1>3, WorldKeepsLists
<1>4. QED
    BY <1>1, <1>2, <1>3 DEF Next

LEMMA ListsSpecInv == Spec => []ListsInv
<1>1. QED
    BY ListsInitInv, ListsNextInv, PTL DEF Spec

----------------------------------------------------------------------------
(* What a step may do to the entries. *)

Follow == (\A e \in entries : MayGo(e)) /\ (\A f \in entries' \ entries : MayAppear(f))

\* An entry with this id is still there, or there is no new one.
LEMMA QuietFollows == UNCHANGED entries => Follow
BY DEF Follow, MayGo

LEMMA InsertEntryFollows ==
    ASSUME ListsInv, NEW j \in Job, InsertEntry(j)
    PROVE  Follow
<1>1. PICK v : v = job[j]
    OBVIOUS
<1>2. v \in Progress /\ Sound(v, entries)
    BY <1>1 DEF ListsInv, TypeOK, PlansSound
<1>3. PICK k \in v.creates : \/ Insert(v.cur.list, Stored(v.cur.doc[k]))
                             \/ UNCHANGED entries
    BY <1>1 DEF InsertEntry, NextNew
<1>4. CASE Insert(v.cur.list, Stored(v.cur.doc[k]))
  <2>1. k \in DOMAIN v.cur.doc /\ v.cur \in ListMapping /\ v.pc # "idle" /\ v.cur # NoList
    BY <1>2 DEF Sound, Progress
  <2>2. v.cur.doc \in Doc \union {<<>>}
    BY <2>1 DEF ListMapping
  <2>3. v.cur.doc[k].attrs \subseteq DOMAIN Canon /\ v.cur.doc[k] \in Range(v.cur.doc)
    BY <2>1, <2>2, DocFacts
  <2>4. PICK p : p = v.cur.doc[k]
    OBVIOUS
  <2>5. PICK f : /\ entries' = entries \union {f}
                 /\ f.list = v.cur.list /\ f.sid = p.sid
                 /\ f.attrs = NormalizeAttrs(p.attrs) /\ f.name = p.name
    BY <1>4, <2>3, <2>4, InsertFacts
  <2>6. Applies(j, f.list)
    BY <1>1, <2>1, <2>5 DEF Applies, Running
  <2>7. MayAppear(f)
    BY <1>1, <2>3, <2>4, <2>5, <2>6 DEF MayAppear
  <2>8. QED
    BY <2>5, <2>7 DEF Follow, MayGo
<1>5. QED
    BY <1>3, <1>4, QuietFollows

LEMMA UpdateEntryFollows ==
    ASSUME ListsInv, NEW j \in Job, UpdateEntry(j)
    PROVE  Follow
<1>1. PICK v : v = job[j]
    OBVIOUS
<1>2. v \in Progress /\ Sound(v, entries)
    BY <1>1 DEF ListsInv, TypeOK, PlansSound
<1>3. PICK u \in v.updates :
        \/ UNCHANGED entries
        \/ /\ {e \in entries : e.id = u.id} = {} \/ Stored(v.cur.doc[u.at]).attrs # {}
           /\ entries' = Updated(u.id, Stored(v.cur.doc[u.at]))
    BY <1>1 DEF UpdateEntry, NextChanged, Updated
<1>4. CASE /\ {e \in entries : e.id = u.id} = {} \/ Stored(v.cur.doc[u.at]).attrs # {}
           /\ entries' = Updated(u.id, Stored(v.cur.doc[u.at]))
  <2>1. /\ u.at \in DOMAIN v.cur.doc /\ v.cur \in ListMapping
        /\ v.pc # "idle" /\ v.cur # NoList
        /\ \A e \in entries : e.id = u.id =>
                e.list = v.cur.list /\ e.sid = v.cur.doc[u.at].sid
    BY <1>2 DEF Sound, Progress
  <2>2. v.cur.doc \in Doc \union {<<>>}
    BY <2>1 DEF ListMapping
  <2>3. /\ v.cur.doc[u.at].attrs \subseteq DOMAIN Canon
        /\ v.cur.doc[u.at] \in Range(v.cur.doc)
    BY <2>1, <2>2, DocFacts
  <2>4. PICK p : p = v.cur.doc[u.at]
    OBVIOUS
  <2>5. /\ \A f \in entries' :
            \/ f \in entries
            \/ \E e \in entries : /\ e.id = u.id
                                  /\ f.id = e.id /\ f.list = e.list /\ f.sid = e.sid
                                  /\ f.attrs = NormalizeAttrs(p.attrs)
                                  /\ f.name = p.name
        /\ \A e \in entries : \E f \in entries' : f.id = e.id
    BY <1>4, <2>3, <2>4, UpdatedFacts
  <2>6. ASSUME NEW f \in entries' \ entries PROVE MayAppear(f)
    <3>1. /\ f.list = v.cur.list /\ f.sid = p.sid
          /\ f.attrs = NormalizeAttrs(p.attrs) /\ f.name = p.name
      BY <2>1, <2>4, <2>5
    <3>2. Applies(j, f.list)
      BY <1>1, <2>1, <3>1 DEF Applies, Running
    <3>3. QED
      BY <1>1, <2>3, <2>4, <3>1, <3>2 DEF MayAppear
  <2>7. QED
    BY <2>5, <2>6 DEF Follow, MayGo
<1>5. QED
    BY <1>3, <1>4, QuietFollows

LEMMA DeleteEntryFollows ==
    ASSUME ListsInv, NEW j \in Job, DeleteEntry(j)
    PROVE  Follow
<1>1. PICK i \in job[j].deletes : entries' = {e \in entries : e.id # i}
    BY DEF DeleteEntry
<1>2. Sound(job[j], entries)
    BY DEF ListsInv, PlansSound
<1>3. ASSUME NEW e \in entries, e.id = i PROVE MayGo(e)
  <2>1. /\ job[j].pc # "idle" /\ job[j].cur # NoList
        /\ e.list = job[j].cur.list /\ e.sid \notin Listed(job[j].cur.doc)
    BY <1>2, <1>3 DEF Sound
  <2>2. QED
    BY <2>1 DEF MayGo, Applies, Running
<1>4. ASSUME NEW e \in entries, e.id # i PROVE MayGo(e)
    BY <1>1, <1>4 DEF MayGo
<1>5. QED
    BY <1>1, <1>3, <1>4 DEF Follow

LEMMA NextFollows == ListsInv /\ [Next]_vars => [Follow]_vars
<1> SUFFICES ASSUME ListsInv, [Next]_vars PROVE Follow
    OBVIOUS
<1>1. CASE UNCHANGED entries
    BY <1>1, QuietFollows
<1>2. ASSUME NEW j \in Job, Start(j) \/ Step(j) \/ Fail(j) PROVE Follow
    BY <1>2, QuietFollows, InsertEntryFollows, UpdateEntryFollows, DeleteEntryFollows
    DEF Step, Start, Fetch, ReadEntries, EnsurePlayer, Finish, Fail
<1>3. ASSUME NEW l \in List, Publish(l) \/ DeleteList(l) \/ AddList(l) PROVE Follow
  <2>1. CASE DeleteList(l)
    BY <2>1 DEF DeleteList, Rows, Follow, MayGo
  <2>2. CASE Publish(l) \/ AddList(l)
    BY <2>2, QuietFollows DEF Publish, AddList
  <2>3. QED
    BY <1>3, <2>1, <2>2
<1>4. QED
    BY <1>1, <1>2, <1>3 DEF Next, vars

----------------------------------------------------------------------------
(* The results about the lists. *)

\* The lists' tables and jobs are well typed: ids and steam ids are unique where the
\* indices say so, every entry's list and player exist, and attributes are stored in
\* the one form that botDetectorListSearch looks for (store.go:905-998).
THEOREM ListsTypeCorrect == Spec => []TypeOK
<1>1. ListsInv => TypeOK
    BY DEF ListsInv
<1>2. QED
    BY <1>1, ListsSpecInv, PTL

\* However many jobs overlap and whatever documents, lists and faults do: a row goes
\* only with its list or because a running job's download does not name its player,
\* and a row that is new or changed says what the download says of this player.
THEOREM EntriesFollow == Spec => EntriesFollowDownloads
<1>1. [Follow]_vars => [(\A e \in entries : MayGo(e)) /\ (\A f \in entries' \ entries : MayAppear(f))]_vars
    BY DEF Follow
<1>2. QED
    BY <1>1, NextFollows, ListsSpecInv, PTL DEF Spec, EntriesFollowDownloads
----------------------------------------------------------------------------
(* Jobs over the real store. *)

\* A call is about the player whose turn it is in the plan of the job.
CallsFollowPlan ==
    \A j \in Job : InCall(j) =>
        /\ job[j].pc = "run"
        /\ \E k \in NextNew(j) : sid[j] = job[j].cur.doc[k].sid

OverInv == ListsInv /\ StoreInv /\ players = player /\ CallsFollowPlan

LEMMA OverInitInv ==
    ASSUME Job \subseteq Caller, OverInit
    PROVE  OverInv
<1>1. ListsInv /\ StoreInv
    BY ListsInitInv, StoreInitInv DEF OverInit
<1>2. players = player /\ CallsFollowPlan
    BY DEF OverInit, Init, StoreInit, CallsFollowPlan, InCall, Statements
<1>3. QED
    BY <1>1, <1>2 DEF OverInv

\* The call of j is not another's: their plans and calls stay.
LEMMA CallsKept ==
    ASSUME OverInv, NEW j \in Job,
           \A k \in Job \ {j} : job'[k] = job[k] /\ pc'[k] = pc[k] /\ sid'[k] = sid[k],
           InCall(j)' => /\ job'[j].pc = "run"
                         /\ \E k \in NextNew(j)' : sid'[j] = job'[j].cur.doc[k].sid
    PROVE  CallsFollowPlan'
BY DEF OverInv, CallsFollowPlan, InCall, NextNew

\* What the statements of a call do to the player it is about.
LEMMA CallEffect ==
    ASSUME StoreInv, NEW j \in Caller, CallStep(j) \/ Commit(j, "error") \/ FailCall(j)
    PROVE  /\ pc[j] \in Statements
           /\ pc'[j] = "ok" => player' = player \union {sid[j]}
           /\ pc'[j] \notin {"ok", "error"} => UNCHANGED player
           /\ player' \in {player, player \union {sid[j]}}
           /\ sid' = sid
           /\ \A k \in Caller \ {j} : pc'[k] = pc[k]
<1> USE DEF StoreInv, StoreTypeOK, Goto, db, Statements
<1>1. CASE Select(j)
    BY <1>1 DEF Select
<1>2. CASE InsertPlayer(j)
    BY <1>2 DEF InsertPlayer
<1>3. CASE SaveName(j) \/ SaveAvatar(j)
    BY <1>3 DEF SaveName, SaveAvatar
<1>4. CASE Commit(j, "ok") \/ Commit(j, "error")
  <2>1. "player" \in tx[j]
    BY <1>4 DEF Commit, Stages, Stage, Tables
  <2>2. QED
    BY <1>4, <2>1 DEF Commit, PublishRows
<1>5. CASE FailCall(j)
    BY <1>5 DEF FailCall
<1>6. QED
    BY <1>1, <1>2, <1>3, <1>4, <1>5 DEF CallStep

\* A job's step over the store is a step of BDLists or invisible to it.
LEMMA OverRefines ==
    ASSUME OverInv, Job \subseteq Caller, [OverNext]_overVars
    PROVE  [Next]_vars
<1>1. CASE UNCHANGED overVars
    BY <1>1 DEF overVars
<1>2. ASSUME NEW j \in Job, Ask(j) \/ CallOver(j) PROVE UNCHANGED vars
    BY <1>2 DEF Ask, CallOver
<1>3. ASSUME NEW j \in Job, JobWorks(j) PROVE Next
    BY <1>3 DEF JobWorks, Next, Step
<1>4. CASE WorldWorks
    BY <1>4 DEF WorldWorks, Next
<1>5. ASSUME NEW j \in Job, StoreWorks(j) PROVE Next \/ UNCHANGED vars
  <2>1. /\ pc[j] \in Statements
        /\ pc'[j] = "ok" => player' = player \union {sid[j]}
        /\ pc'[j] \notin {"ok", "error"} => UNCHANGED player
        /\ player' \in {player, player \union {sid[j]}}
    BY <1>5, CallEffect DEF OverInv, StoreWorks
  <2>2. /\ job[j].pc = "run"
        /\ \E k \in NextNew(j) : sid[j] = job[j].cur.doc[k].sid
    BY <2>1 DEF OverInv, CallsFollowPlan, InCall
  <2>3. players = player /\ players' = player' /\ UNCHANGED <<lists, entries, served, changes>>
    BY <1>5 DEF OverInv, StoreWorks
  <2>4. players' = players \union {sid[j]} => PlayerStored(j)
    BY <2>2 DEF PlayerStored
  <2>5. CASE pc'[j] = "ok" /\ Set(j, [job[j] EXCEPT !.pc = "insert"]) /\ NoFault
    <3>1. EnsurePlayer(j)
      BY <2>1, <2>3, <2>4, <2>5 DEF EnsurePlayer, NoFault
    <3>2. QED
      BY <3>1 DEF Next, Step
  <2>6. CASE pc'[j] \in {"taken", "error"} /\ Set(j, Idle) /\ Fault
    <3>1. Fail(j)
      BY <2>1, <2>2, <2>3, <2>4, <2>6 DEF Fail, Running
    <3>2. QED
      BY <3>1 DEF Next
  <2>7. CASE pc'[j] \in Statements /\ UNCHANGED <<job, faults>>
    BY <2>1, <2>3, <2>7 DEF vars, Statements
  <2>8. QED
    BY <1>5, <2>5, <2>6, <2>7 DEF StoreWorks, Heed
<1>6. QED
    BY <1>1, <1>2, <1>3, <1>4, <1>5 DEF OverNext

\* And it is a step of the store: a player asked for is in the plan, so he is valid.
LEMMA OverIsStore ==
    ASSUME OverInv, Job \subseteq Caller, ValidSid \subseteq Sid, [OverNext]_overVars
    PROVE  [StoreNext]_storeVars
<1>1. CASE UNCHANGED overVars
    BY <1>1 DEF overVars
<1>2. ASSUME NEW j \in Job, Ask(j) PROVE StoreNext
  <2>1. PICK k \in NextNew(j) : Call(j, job[j].cur.doc[k].sid)
    BY <1>2 DEF Ask
  <2>2. job[j].cur.doc[k].sid \in ValidSid
    BY DEF NextNew, OverInv, ListsInv, PlansSound, Sound
  <2>3. QED
    BY <2>1, <2>2 DEF StoreNext
<1>3. ASSUME NEW j \in Job, StoreWorks(j) \/ CallOver(j) PROVE StoreNext
    BY <1>3 DEF StoreWorks, CallOver, StoreNext
<1>4. ASSUME NEW j \in Job, JobWorks(j) PROVE UNCHANGED storeVars
    BY <1>4 DEF JobWorks
<1>5. CASE WorldWorks
    BY <1>5 DEF WorldWorks
<1>6. QED
    BY <1>1, <1>2, <1>3, <1>4, <1>5 DEF OverNext

LEMMA CallsFollowNext ==
    ASSUME OverInv, Job \subseteq Caller, [OverNext]_overVars
    PROVE  CallsFollowPlan' /\ (players = player)'
<1> USE DEF OverInv
<1>1. CASE UNCHANGED overVars
    BY <1>1 DEF overVars, vars, storeVars, CallsFollowPlan, InCall, NextNew
<1>2. ASSUME NEW j \in Job, Ask(j) PROVE CallsFollowPlan' /\ (players = player)'
  <2>1. PICK k \in NextNew(j) : Call(j, job[j].cur.doc[k].sid)
    BY <1>2 DEF Ask
  <2>2. /\ sid'[j] = job[j].cur.doc[k].sid /\ UNCHANGED <<job, players, player>>
        /\ job[j].pc = "run"
        /\ \A i \in Job \ {j} : pc'[i] = pc[i] /\ sid'[i] = sid[i]
    BY <1>2, <2>1 DEF Ask, vars, Call, Goto, db, StoreInv, StoreTypeOK
  <2>3. NextNew(j)' = NextNew(j)
    BY <2>2 DEF NextNew
  <2>4. CallsFollowPlan'
    BY <2>2, <2>3, CallsKept
  <2>5. QED
    BY <2>2, <2>4
<1>3. ASSUME NEW j \in Job, StoreWorks(j) PROVE CallsFollowPlan' /\ (players = player)'
  <2>1. /\ pc[j] \in Statements /\ sid' = sid
        /\ \A k \in Caller \ {j} : pc'[k] = pc[k]
    BY <1>3, CallEffect DEF StoreWorks
  <2>2. \A k \in Job \ {j} : job'[k] = job[k]
    BY <1>3 DEF StoreWorks, Heed, Set, ListsInv, TypeOK
  <2>3. ASSUME InCall(j)'
        PROVE  job'[j].pc = "run" /\ \E k \in NextNew(j)' : sid'[j] = job'[j].cur.doc[k].sid
    <3>1. UNCHANGED job
      BY <1>3, <2>3 DEF StoreWorks, Heed, InCall, Statements
    <3>2. NextNew(j)' = NextNew(j)
      BY <3>1 DEF NextNew
    <3>3. QED
      BY <2>1, <3>1, <3>2 DEF CallsFollowPlan, InCall
  <2>4. CallsFollowPlan'
    BY <2>1, <2>2, <2>3, CallsKept
  <2>5. QED
    BY <1>3, <2>4 DEF StoreWorks
<1>4. ASSUME NEW j \in Job, CallOver(j) PROVE CallsFollowPlan' /\ (players = player)'
  <2>1. /\ UNCHANGED <<job, players, player>> /\ ~InCall(j)'
        /\ \A i \in Job \ {j} : pc'[i] = pc[i] /\ sid'[i] = sid[i]
    BY <1>4 DEF CallOver, vars, Return, db, InCall, Statements, StoreInv, StoreTypeOK
  <2>2. CallsFollowPlan'
    BY <2>1, CallsKept
  <2>3. QED
    BY <2>1, <2>2
<1>5. ASSUME NEW j \in Job, JobWorks(j) PROVE CallsFollowPlan' /\ (players = player)'
  <2>1. /\ ~InCall(j) /\ UNCHANGED <<pc, sid>> /\ players' = player'
    BY <1>5 DEF JobWorks, storeVars
  <2>2. \E w : Set(j, w)
    BY <1>5 DEF JobWorks, Start, Fetch, ReadEntries, InsertEntry, UpdateEntry, DeleteEntry,
                Finish, Fail
  <2>3. \A k \in Job \ {j} : job'[k] = job[k]
    BY <2>2 DEF Set, ListsInv, TypeOK
  <2>4. CallsFollowPlan'
    BY <2>1, <2>3, CallsKept DEF InCall
  <2>5. QED
    BY <2>1, <2>4
<1>6. CASE WorldWorks
  <2>1. UNCHANGED <<job, players, pc, sid, player>>
    BY <1>6 DEF WorldWorks, storeVars, Publish, DeleteList, AddList
  <2>2. QED
    BY <2>1 DEF CallsFollowPlan, InCall, NextNew
<1>7. QED
    BY <1>1, <1>2, <1>3, <1>4, <1>5, <1>6 DEF OverNext

LEMMA OverSpecInv ==
    ASSUME Job \subseteq Caller, ValidSid \subseteq Sid
    PROVE  OverSpec => []OverInv
<1>1. OverInit => OverInv
    BY OverInitInv
<1>2. OverInv /\ [OverNext]_overVars => OverInv'
    BY OverRefines, OverIsStore, CallsFollowNext, ListsNextInv, StoreNextInv DEF OverInv
<1>3. QED
    BY <1>1, <1>2, PTL DEF OverSpec

\* Jobs that run playerGetOrCreate statement by statement, against each other and
\* against the world, implement BDLists, where the call is one step, and use the
\* store as PlayerStore says: no interleaving of the store's statements with the
\* lists' shows in either (bd.go:112-126, store.go:459-491).
THEOREM OverStoreIsLists ==
    ASSUME Job \subseteq Caller, ValidSid \subseteq Sid
    PROVE  OverSpec => (Init /\ [][Next]_vars) /\ StoreSpec
<1>1. OverInv /\ [OverNext]_overVars => [Next]_vars /\ [StoreNext]_storeVars
    BY OverRefines, OverIsStore
<1>2. QED
    BY <1>1, OverSpecInv, PTL DEF OverSpec, OverInit, StoreSpec

\* So what is said of the lists and of the store's answers holds of them together.
THEOREM OverStoreListsFollow ==
    ASSUME Job \subseteq Caller, ValidSid \subseteq Sid
    PROVE  OverSpec => []TypeOK /\ EntriesFollowDownloads /\ []AnswerMeansStored
<1>1. OverInv => ListsInv /\ TypeOK
    BY DEF OverInv, ListsInv
<1>2. [Follow]_vars => [(\A e \in entries : MayGo(e)) /\ (\A f \in entries' \ entries : MayAppear(f))]_vars
    BY DEF Follow
<1>3. OverSpec => []TypeOK /\ EntriesFollowDownloads
    BY <1>1, <1>2, NextFollows, OverSpecInv, OverStoreIsLists, PTL DEF EntriesFollowDownloads
<1>4. QED
    BY <1>3, OverStoreIsLists, AnswerSafe, PTL

=============================================================================
