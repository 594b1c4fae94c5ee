--------------------------- MODULE PlayerStore ---------------------------
(***************************************************************************)
(* pgStore.playerGetOrCreate and the insert branch of playerRecordSave     *)
(* (src/store.go): a SELECT, and when it finds nothing a transaction that  *)
(* inserts the player with its first name and avatar. The SELECT and the   *)
(* transaction are not one: goroutines race between them, and the unique   *)
(* index on player.steam_id decides. Every importer and one HTTP handler   *)
(* call it: they are the Callers.                                          *)
(*                                                                         *)
(* Left out: the columns of a row, and playerVanitySave, which returns     *)
(* early for an empty vanity: the records of all callers leave it empty    *)
(* (newPlayerRecord, serveme.go:30, store.go:1038). SteamBanWorker calls   *)
(* with a record that is not new, and asks for stored players only.        *)
(***************************************************************************)
EXTENDS Naturals

CONSTANTS
    Sid,        \* steam ids
    Caller,     \* goroutines that call playerGetOrCreate
    NoSid       \* "this caller is in no call"

ASSUME NoSidAssumption == NoSid \notin Sid

VARIABLES
    player,     \* the steam ids with a committed row in table player
    names,      \* names[s]: committed rows of player_names for s
    avatars,    \* avatars[s]: committed rows of player_avatars for s
    tx,         \* tx[c]: tables in which c's open transaction holds a row
    sid,        \* sid[c]: the steam id c asked for
    pc          \* pc[c]: the statement c runs next, or what its call returned

db   == <<player, names, avatars>>
storeVars == <<player, names, avatars, tx, sid, pc>>

Answers    == {"ok", "taken", "error"}
Statements == {"select", "insert", "name", "avatar", "commit"}
Tables     == {"player", "name", "avatar"}

StoreTypeOK ==
    /\ player \subseteq Sid
    /\ names \in [Sid -> Nat]
    /\ avatars \in [Sid -> Nat]
    /\ tx \in [Caller -> SUBSET Tables]
    /\ sid \in [Caller -> Sid \union {NoSid}]
    /\ pc \in [Caller -> {"idle"} \union Statements \union Answers]

StoreInit ==
    /\ player = {}
    /\ names = [s \in Sid |-> 0]
    /\ avatars = [s \in Sid |-> 0]
    /\ tx = [c \in Caller |-> {}]
    /\ sid = [c \in Caller |-> NoSid]
    /\ pc = [c \in Caller |-> "idle"]

Goto(c, from, to) ==
    /\ pc[c] = from
    /\ pc' = [pc EXCEPT ![c] = to]

----------------------------------------------------------------------------
(* The call, and its SELECT. *)

Call(c, s) ==
    /\ Goto(c, "idle", "select")
    /\ sid' = [sid EXCEPT ![c] = s]
    /\ UNCHANGED <<db, tx>>

\* Mutant: "no rows" is dropped like a success.
SelectDropsNoRows(c) ==
    /\ Goto(c, "select", "ok")
    /\ UNCHANGED <<db, tx, sid>>

\* errDatabaseNoResults is the one error that leads to the INSERT.
Select(c) ==
    /\ Goto(c, "select", IF sid[c] \in player THEN "ok" ELSE "insert")
    /\ UNCHANGED <<db, tx, sid>>

----------------------------------------------------------------------------
(* The transaction of playerRecordSave for a new record. *)

\* PostgreSQL lets an INSERT wait while another open transaction holds the key.
KeyHeld(c) ==
    \E d \in Caller \ {c} : sid[d] = sid[c] /\ "player" \in tx[d]

\* Mutant: INSERT ... NOWAIT, a held key counts as a unique violation.
InsertPlayerNoWait(c) ==
    /\ IF sid[c] \in player \/ KeyHeld(c)
       THEN Goto(c, "insert", "taken") /\ UNCHANGED tx
       ELSE Goto(c, "insert", "name") /\ tx' = [tx EXCEPT ![c] = {"player"}]
    /\ UNCHANGED <<db, sid>>

\* Mutant: INSERT ... ON CONFLICT DO NOTHING, the history follows regardless.
InsertPlayerOnConflict(c) ==
    /\ ~KeyHeld(c)
    /\ Goto(c, "insert", "name")
    /\ tx' = [tx EXCEPT ![c] = IF sid[c] \in player THEN {} ELSE {"player"}]
    /\ UNCHANGED <<db, sid>>

InsertPlayer(c) ==
    /\ ~KeyHeld(c)
    /\ IF sid[c] \in player
       THEN Goto(c, "insert", "taken") /\ UNCHANGED tx
       ELSE Goto(c, "insert", "name") /\ tx' = [tx EXCEPT ![c] = {"player"}]
    /\ UNCHANGED <<db, sid>>

\* Mutant: playerVanitySave without its early return for an empty vanity.
SaveNameAndVanity(c) ==
    /\ Goto(c, "name", "avatar")
    /\ tx' = [tx EXCEPT ![c] = @ \union {"name", "vanity"}]
    /\ UNCHANGED <<db, sid>>

SaveName(c) ==
    /\ Goto(c, "name", "avatar")
    /\ tx' = [tx EXCEPT ![c] = @ \union {"name"}]
    /\ UNCHANGED <<db, sid>>

SaveAvatar(c) ==
    /\ Goto(c, "avatar", "commit")
    /\ tx' = [tx EXCEPT ![c] = @ \union {"avatar"}]
    /\ UNCHANGED <<db, sid>>

\* The rows of c's transaction become visible together.
PublishRows(c) ==
    LET Rows(t) == IF t \in tx[c] THEN 1 ELSE 0 IN
    /\ player' = IF "player" \in tx[c] THEN player \union {sid[c]} ELSE player
    /\ names' = [names EXCEPT ![sid[c]] = @ + Rows("name")]
    /\ avatars' = [avatars EXCEPT ![sid[c]] = @ + Rows("avatar")]
    /\ tx' = [tx EXCEPT ![c] = {}]

\* a = "error": the server committed but its acknowledgement was lost.
Commit(c, a) ==
    /\ Goto(c, "commit", a)
    /\ PublishRows(c)
    /\ UNCHANGED sid

\* Mutant: no deferred Rollback, the transaction stays open.
FailCallNoRollback(c) ==
    /\ pc[c] \in Statements
    /\ pc' = [pc EXCEPT ![c] = "error"]
    /\ UNCHANGED <<db, tx, sid>>

\* Any statement may fail (connection, cancelled context, job timeout): the
\* deferred Rollback discards the transaction and the caller gets the error.
FailCall(c) ==
    /\ pc[c] \in Statements
    /\ pc' = [pc EXCEPT ![c] = "error"]
    /\ tx' = [tx EXCEPT ![c] = {}]
    /\ UNCHANGED <<db, sid>>

----------------------------------------------------------------------------
(* The caller has seen the answer; the process dies. *)

Return(c) ==
    /\ pc[c] \in Answers
    /\ pc' = [pc EXCEPT ![c] = "idle"]
    /\ sid' = [sid EXCEPT ![c] = NoSid]
    /\ UNCHANGED <<db, tx>>

\* PostgreSQL discards the open transactions of a dead process.
Crash ==
    /\ tx' = [c \in Caller |-> {}]
    /\ sid' = [c \in Caller |-> NoSid]
    /\ pc' = [c \in Caller |-> "idle"]
    /\ UNCHANGED db

CallStep(c) ==
    \/ Select(c)
    \/ InsertPlayer(c)
    \/ SaveName(c)
    \/ SaveAvatar(c)
    \/ Commit(c, "ok")

StoreNext ==
    \/ \E c \in Caller :
        \/ \E s \in Sid : Call(c, s)
        \/ CallStep(c)
        \/ Commit(c, "error")
        \/ FailCall(c)
        \/ Return(c)
    \/ Crash

\* The database answers every statement, and its lock queue is first come,
\* first served: a waiting INSERT that can go ahead again and again does.
StoreFairness ==
    \A c \in Caller : WF_storeVars(CallStep(c)) /\ SF_storeVars(InsertPlayer(c))

StoreSpec == StoreInit /\ [][StoreNext]_storeVars

StoreFairSpec == StoreSpec /\ StoreFairness

----------------------------------------------------------------------------
(* What the callers may rely on. *)

\* A caller that was told "ok" may insert rows with a foreign key on the
\* player, and one that lost the race ("taken") will find it on a retry: the
\* key it waited for was committed, never rolled back (store.go:459-491).
AnswerMeansStored ==
    \A c \in Caller : pc[c] \in {"ok", "taken"} => sid[c] \in player

\* A player is created with exactly one name and one avatar, whoever wins the
\* race and wherever the losers fail, and no history exists without its player
\* (playerRecordSave, store.go:386-417, is all or nothing).
HistoryComplete ==
    \A s \in Sid :
        /\ names[s] = IF s \in player THEN 1 ELSE 0
        /\ avatars[s] = names[s]

\* No call waits for ever for a key: whoever holds it commits or rolls back
\* (the deferred Rollback of store.go:378-384).
EveryCallAnswered ==
    \A c \in Caller : pc[c] = "select" ~> pc[c] \in Answers \union {"idle"}

Registry == INSTANCE PlayerRegistry WITH
    registered <- player,
    asked <- sid,
    answer <- [c \in Caller |-> IF pc[c] \in Answers THEN pc[c] ELSE "none"]

\* SELECT and transaction together look like one step to every caller: each
\* call takes effect at one instant, or not at all (playerGetOrCreate).
ImplementsRegistry == Registry!RSpec
=============================================================================
