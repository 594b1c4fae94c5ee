----------------------------- MODULE OwnedGames -----------------------------
(***************************************************************************)
(* The games a player owns (updateOwnedGames and getOwnedGames,            *)
(* src/steam.go:219-315, their queries in src/store.go). A request reads   *)
(* the rows of its players; for a player without any, or for all of them   *)
(* if it forces an update, it asks Steam and stores what it is told, game  *)
(* by game, each statement committing by itself. The games job of the      *)
(* Steam queue is a request that forces the update of one player.          *)
(*                                                                         *)
(* Whoever has rows is taken to have all of them: a request that comes     *)
(* while another one stores them, or after one that failed half-way, is    *)
(* answered with what is there; and one whose connection breaks while it   *)
(* reads the rows, with what it had read (rows.Err is not looked at).      *)
(*                                                                         *)
(* Left out: play times, games' names, a library that shrinks (no row is   *)
(* ever deleted).                                                          *)
(***************************************************************************)
EXTENDS Naturals

CONSTANTS
    Sid,        \* steam ids
    Game,
    Client,     \* requests and the job
    MaxTime,    \* assumption: the longest that one player's update lasts
    MaxNow,     \* bound: the clock
    MaxFaults   \* bound: calls and statements that fail, restarts

VARIABLES
    now,        \* the time
    bought,     \* bought[s][g]: when s got game g, or Never
    player,     \* table player
    game,       \* table steam_game
    owned,      \* owned[s][g]: updated_on of the row of s and g, or Never if there is none
    call,       \* call[c]: c's request
    cut,        \* history: players whose last update did not get to its end
    faults      \* faults so far

gamesVars == <<now, bought, player, game, owned, call, cut, faults>>

Never == MaxNow + 1

Library(s) == {g \in Game : bought[s][g] # Never}

\* A row's existence is told by its time.
Rows(row) == {g \in Game : row[g] # Never}

NoRows == [g \in Game |-> Never]

\* left: players to ask Steam for; cur: the one that is being updated, at his time
\* asked; new: his games not yet stored; open: the one whose steam_game row is there;
\* got: the answer so far; half: players of whom it read some rows, but not all they
\* should have.
NoCall ==
    [pc |-> "idle", update |-> FALSE, ids |-> {}, left |-> {}, cur |-> {}, asked |-> 0,
     new |-> {}, open |-> {}, got |-> [s \in Sid |-> NoRows], half |-> {}]

Updating(s) == \E c \in Client : call[c].pc = "save" /\ s \in call[c].cur

TypeOK ==
    /\ now \in 0..MaxNow
    /\ bought \in [Sid -> [Game -> 0..now \union {Never}]]
    /\ player \subseteq Sid
    /\ game \subseteq Game
    /\ owned \in [Sid -> [Game -> 0..now \union {Never}]]
    /\ \A s \in Sid : Rows(owned[s]) # {} => s \in player /\ Rows(owned[s]) \subseteq game
    /\ \A c \in Client :
        /\ call[c].pc \in {"idle", "ensure", "query", "ask", "save", "done", "error"}
        /\ call[c].left \union call[c].cur \union call[c].half \subseteq call[c].ids
        /\ call[c].ids \subseteq Sid
        /\ call[c].open \subseteq call[c].new
        /\ call[c].new \subseteq Game
    /\ cut \subseteq Sid
    /\ faults \in 0..MaxFaults

Init ==
    /\ now = 0
    /\ bought \in [Sid -> [Game -> {0, Never}]]
    /\ player = {}
    /\ game = {}
    /\ owned = [s \in Sid |-> NoRows]
    /\ call = [c \in Client |-> NoCall]
    /\ cut = {}
    /\ faults = 0

Fault ==
    /\ faults < MaxFaults
    /\ faults' = faults + 1

At(c, pc) == call[c].pc = pc

Set(c, q) == call' = [call EXCEPT ![c] = q]

----------------------------------------------------------------------------
(* Steam, and time. *)

Buy(s, g) ==
    /\ bought[s][g] = Never
    /\ bought' = [bought EXCEPT ![s][g] = now]
    /\ UNCHANGED <<now, player, game, owned, call, cut, faults>>

Tick ==
    /\ now < MaxNow
    /\ \A c \in Client : At(c, "save") => now - call[c].asked < MaxTime
    /\ now' = now + 1
    /\ UNCHANGED <<bought, player, game, owned, call, cut, faults>>

----------------------------------------------------------------------------
(* handleGetOwnedGames, SteamGamesWorker. *)

Begin(c) ==
    /\ At(c, "idle")
    /\ \E ids \in (SUBSET Sid) \ {{}}, update \in BOOLEAN :
        Set(c, [NoCall EXCEPT !.pc = "ensure", !.ids = ids, !.update = update])
    /\ UNCHANGED <<now, bought, player, game, owned, cut, faults>>

\* playerGetOrCreate of each, as PlayerRegistry has it.
EnsurePlayers(c) ==
    /\ At(c, "ensure")
    /\ player' = player \union call[c].ids
    /\ Set(c, [call[c] EXCEPT !.pc = "query"])
    /\ UNCHANGED <<now, bought, game, owned, cut, faults>>

\* What comes of a row set of which only some games are read.
Part(row, read) == [g \in Game |-> IF g \in read THEN row[g] ELSE Never]

\* getOwnedGames: the age of the rows is not looked at, nor whether they were the last:
\* if the connection breaks, some or all of them are missing.
Query(c) ==
    LET asked == IF call[c].update THEN {} ELSE call[c].ids IN
    /\ At(c, "query")
    /\ \E read \in [asked -> SUBSET Game] :
        /\ \A s \in asked : read[s] \subseteq Rows(owned[s])
        /\ IF \A s \in asked : read[s] = Rows(owned[s]) THEN UNCHANGED faults ELSE Fault
        /\ Set(c, [call[c] EXCEPT
                    !.pc = "ask",
                    !.left = {s \in call[c].ids : s \notin asked \/ read[s] = {}},
                    !.got = [s \in Sid |-> IF s \in asked THEN Part(owned[s], read[s]) ELSE NoRows],
                    !.half = {s \in asked : /\ read[s] # {}
                                            /\ s \in cut \/ Updating(s) \/ read[s] # Rows(owned[s])}])
    /\ UNCHANGED <<now, bought, player, game, owned, cut>>

\* updateOwnedGames: Steam's answer is what is answered.
Ask(c) ==
    /\ At(c, "ask")
    /\ \E s \in call[c].left :
        Set(c, [call[c] EXCEPT
                 !.pc = "save", !.left = @ \ {s}, !.cur = {s}, !.asked = now,
                 !.new = Library(s),
                 !.got[s] = [g \in Game |-> IF g \in Library(s) THEN now ELSE Never]])
    /\ UNCHANGED <<now, bought, player, game, owned, cut, faults>>

EnsureGame(c) ==
    /\ At(c, "save")
    /\ call[c].open = {}
    /\ \E g \in call[c].new :
        /\ game' = game \union {g}
        /\ Set(c, [call[c] EXCEPT !.open = {g}])
    /\ UNCHANGED <<now, bought, player, owned, cut, faults>>

\* Mutant: an error of it is ignored.
UpdateOwnedGameOrNot(c) ==
    /\ At(c, "save")
    /\ \E g \in call[c].open, s \in call[c].cur :
        /\ owned' \in {owned, [owned EXCEPT ![s][g] = now]}
        /\ Set(c, [call[c] EXCEPT !.open = {}, !.new = @ \ {g}])
    /\ UNCHANGED <<now, bought, player, game, cut, faults>>

\* INSERT ... ON CONFLICT DO UPDATE.
UpdateOwnedGame(c) ==
    /\ At(c, "save")
    /\ \E g \in call[c].open, s \in call[c].cur :
        /\ owned' = [owned EXCEPT ![s][g] = now]
        /\ Set(c, [call[c] EXCEPT !.open = {}, !.new = @ \ {g}])
    /\ UNCHANGED <<now, bought, player, game, cut, faults>>

Updated(c) ==
    /\ At(c, "save")
    /\ call[c].new = {}
    /\ cut' = cut \ call[c].cur
    /\ Set(c, [call[c] EXCEPT !.pc = "ask", !.cur = {}, !.asked = 0])
    /\ UNCHANGED <<now, bought, player, game, owned, faults>>

Answer(c) ==
    /\ At(c, "ask")
    /\ call[c].left = {}
    /\ Set(c, [call[c] EXCEPT !.pc = "done"])
    /\ UNCHANGED <<now, bought, player, game, owned, cut, faults>>

\* Another request registers the same player.
Rivals(c) == \E d \in Client \ {c} : call[d].ids \intersect call[c].ids # {}

\* A request to Steam or a statement fails with an error, or the race for a new player is lost: no
\* answer, what was stored stays.
Fail(c) ==
    /\ call[c].pc \in {"ensure", "query", "ask", "save"}
    /\ IF At(c, "ensure") /\ Rivals(c) THEN UNCHANGED faults ELSE Fault
    /\ cut' = IF call[c].new = {} THEN cut ELSE cut \union call[c].cur
    /\ Set(c, [NoCall EXCEPT !.pc = "error"])
    /\ UNCHANGED <<now, bought, player, game, owned>>

Return(c) ==
    /\ call[c].pc \in {"done", "error"}
    /\ Set(c, NoCall)
    /\ UNCHANGED <<now, bought, player, game, owned, cut, faults>>

Restart ==
    /\ Fault
    /\ cut' = cut \union {s \in Sid : Updating(s)}
    /\ call' = [c \in Client |-> NoCall]
    /\ UNCHANGED <<now, bought, player, game, owned>>

Next ==
    \/ \E c \in Client :
        \/ Begin(c)
        \/ EnsurePlayers(c)
        \/ Query(c)
        \/ Ask(c)
        \/ EnsureGame(c)
        \/ UpdateOwnedGame(c)
        \/ Updated(c)
        \/ Answer(c)
        \/ Fail(c)
        \/ Return(c)
    \/ \E s \in Sid, g \in Game : Buy(s, g)
    \/ Restart
    \/ Tick

Spec == Init /\ [][Next]_gamesVars

----------------------------------------------------------------------------
(* What makes the answers right. *)

\* Rows are stored one by one, and later than Steam was asked; two updates of one
\* player may be under way. Still an answer names every game that the player had when
\* any of its rows was stored, but for one update's time - unless its rows were being
\* stored when they were read, or the last update was cut short by a fault, or a broken
\* connection left out rows of that very player: nothing of another player's is missing.
Complete(s, row) ==
    \A g \in Library(s), h \in Rows(row) :
        bought[s][g] + MaxTime < row[h] => g \in Rows(row)

GamesComplete ==
    \A c \in Client : call[c].pc = "done" =>
        \A s \in call[c].ids \ call[c].half : Complete(s, call[c].got[s])
=============================================================================
