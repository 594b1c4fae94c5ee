-------------------------------- MODULE API --------------------------------
(***************************************************************************)
(* The handlers of the HTTP API that keep something between two requests:  *)
(* SteamCache keeps Steam's reports in files, OwnedGames the games of its  *)
(* players in tables, StatsCache the statistics in memory. They share the  *)
(* clock and the process, no data: a behaviour is about the one (part =    *)
(* "steam"), the other ("games") or the third ("stats").                   *)
(***************************************************************************)
EXTENDS SteamCache

CONSTANTS
    Owner,      \* steam ids of players who own games
    Game

VARIABLES
    part,
    stats, updated, statsCall,                      \* of StatsCache
    bought, player, game, owned, gamesCall, cut     \* of OwnedGames

Stats == INSTANCE StatsCache WITH Client <- Reader, call <- statsCall

Games == INSTANCE OwnedGames WITH Client <- Reader, Sid <- Owner, call <- gamesCall

steam == <<kind, file, req>>
kept  == <<stats, updated, statsCall>>
games == <<bought, player, game, owned, gamesCall, cut>>

\* Each part's state is well typed.
APITypeOK ==
    /\ part \in {"steam", "games", "stats"}
    /\ TypeOK
    /\ Games!TypeOK
    /\ Stats!TypeOK

APIInit ==
    /\ part \in {"steam", "games", "stats"}
    /\ Init
    /\ Games!Init
    /\ Stats!Init

APINext ==
    \/ part = "steam" /\ Next /\ UNCHANGED <<part, games, kept>>
    \/ part = "games" /\ Games!Next /\ UNCHANGED <<part, steam, kept>>
    \/ part = "stats" /\ Stats!Next /\ UNCHANGED <<part, steam, games>>

APISpec == APIInit /\ [][APINext]_<<part, vars, games, kept>>

\* A list of games is not cut short (getOwnedGames, updateOwnedGames).
GamesComplete == Games!GamesComplete

\* What a request is told is not older than the age at which it is asked for anew
\* (fsCache.get, handleGetStats). Games have no such age.
AnswersFresh ==
    /\ AnswerFresh
    /\ Stats!StatsFresh
=============================================================================
