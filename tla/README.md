# bd-api in TLA+

bd-api is a Go service that aggregates what is known about TF2 players: their
Steam profiles and bans, the bans of SourceBans sites, serveme.tf and the RGL and
ETF2L leagues, the lists of the bot detector, logs.tf matches. Scrapers and
importers run as jobs of River (a queue in PostgreSQL) and fill the tables; HTTP
handlers answer from the tables, from Steam, and from a file cache.

This directory models the parts in which several actors, failures or a long sequence of
steps decide what the tables and answers hold. TLC checks each model on a small instance;
TLAPS proves all their invariants, and the action property and the refinement among their
properties, for every instance. `PROJECT.json` maps every definition to the lines it
models, lists the hazards of the code with the properties that cover them, and gives each
property a mutation of the code that breaks it.

    tlc -config MCServeme.cfg MCServeme.tla      # one run; see the table below
    tlapm ServemeProofs.tla                      # one proof module

## 1. Inventory

"One worker" and "two workers" are the MaxWorkers of the job's queue
(`jobs.go:280-288`); the default queue, which serves jobs without insert options,
has two.

| Component (source) | State it keeps | Operations | Talks to | What is hard | What makes it correct |
|---|---|---|---|---|---|
| Player store (`store.go:220-491`) | `player`, `player_names`, `player_avatars`, `player_vanity` | `playerGetOrCreate`, `playerRecordSave` (insert and update branch), `playerGetExpiredProfiles` | called by every importer and by `/friends` | SELECT and INSERT are not one step; goroutines race; lost acknowledgements | an answer is true of the database; player and first history appear together; nobody waits for ever for a key |
| Bot detector lists (`bd.go`, `cmd.go`) | `bd_list`, `bd_list_entries` | the update job (each minute, two workers), `bd add`, `bd del`, search | web servers of list authors, player store | jobs overlap with stale plans and no transaction; truncated reads; error pages taken for lists | entries are searchable, disappear only for cause, and end up as the documents say |
| serveme.tf bans (`serveme.go`, `store.go:1570-1599`) | `serveme`, one pooled connection per job | download, ensure players, delete all, insert all (two workers) | serveme.tf, player store, connection pool | the statements bypass the transaction that was opened; jobs overlap | foreign keys hold, overlapping imports lose nothing, connections return |
| League bans (`jobs_rgl.go:149-198`, `etf2l.go`) | `rgl_ban`, `etf2l_ban` | paged download, delete all, one batch (one worker each) | league APIs, player store | the list shifts between pages; a failure after the delete | the table is a snapshot of the league's list |
| RGL seasons, teams, matches (`jobs_rgl.go`) | `rgl_season`, `rgl_team`, `rgl_team_member`, `rgl_match`; queued jobs | season walk, team jobs, match jobs (one worker) | RGL's API, River | order of jobs stands in for foreign keys; attempts; a time limit and a rate limit that report success; seasons that grow | matches find their teams; only faults lose rosters; what was listed is imported in the end |
| Steam cache and lookups (`cache.go`, `steam.go`) | one file per kind and player; `steam_game`, `player_owned_games` | `get`, `set`, the three lookups; `getOwnedGames`, `updateOwnedGames` | Steam, file system, tables, HTTP requests | no lock, no rename, a crash between truncation and write; rows of games stored one by one | no torn file and no half-stored library stands for the whole; no answer is too old |
| Job queue (`jobs.go`; River is external) | `river_job` | periodic insertion, attempts, uniqueness, rescue | all workers | at-least-once execution | each job's own module says what it needs of it |
| Steam profile refresh (`jobs_steam.go:30-190`, `steam.go:219-315`, `limiter.go`) | `player.updated_on`, bans, owned games, queued jobs | summary job (every 2 min), ban job, games job | Steam, player store, River | profiles are marked fresh before their follow-up jobs exist, and by the ban job too; newest-first selection | every expired profile is refreshed, follow-ups included |
| Steam server list (`jobs_steam.go:190-350`) | `steam_server`, `maps`, statistics; two maps in memory | one job every 5 min | Steam | one bad server fails all statistics; jobs too short for all rows; memory and tables must agree after failures | what is cached is in its table; statistics come again and again |
| logs.tf scraper (`logstf.go`) | `logstf` and six tables under it | id range, concurrent collector, retries, one transaction per match | logs.tf, proxies, player store | ids that failed or were queued at the time limit; goroutines that share a slice and insert the same players; a cache without expiry | no log is passed over silently; runs end |
| SourceBans scraper (`sourcebans.go`) | `sb_site`, `sb_ban`, `player`; kept answers; per site a queue and a record under construction | walk a site's pages, parse them, one row per ban | some ninety sites, player store | the goroutines of the sites race for new players; pages kept for ever; the way to the next page; parsers that carry state from cell to cell | a row says what its ban says; no ban is passed over silently; what a walk can reach is stored in the end |
| SourceBans definitions (`sourcebans_sites.go`) | none | a table of constructors: parser, next link, times | - | which next link ends a walk early | - |
| Profile aggregation (`collectors.go`) | none; goroutines and two mutexes | `loadProfiles` | Steam lookups, tables | one failing source of many | a profile has every part that is known, or the request fails |
| Statistics handler (`api_handler.go:360-400`) | cached totals and their expiry | `handleGetStats` | tables | several requests load at once | never older than the expiry, never replaced by an older load |
| HTTP API (`api.go`, `api_handler.go`, `template.go`) | none | stateless reads, rendering | everything above | - | - |
| Proxy manager (`proxy.go`) | map of tunnels | start, stop, round-robin | SSH hosts | an unlocked map, at start-up only | each host has at most one tunnel, stop closes all |
| Rate limiter (`limiter.go`) | token bucket (external) | `Wait` | Steam, RGL, ETF2L jobs | its error is only logged | requests keep to the rate |
| Process lifecycle (`main.go`, `api.go:332-358`, `cmd.go`) | - | start, signal, HTTP shutdown, job client stop | all | stop with a cancelled context | running jobs end before the process does |
| Configuration, logging, helpers (`config.go`, `logger.go`, `http.go`, `util.go`, `rgl.go`, `domain/`) | none | - | - | - | - |

How they interact: a job is due (period or retry) -> a worker downloads -> each
player it met goes through `playerGetOrCreate` -> the importer's own statements.
Nearly all of them commit by themselves, so what another worker or a reader sees
between two statements is what the models are about.

## 2. The modules

All modules share conventions. `job`, `run`, `req` are the local variables of a
running goroutine; one action is one statement or request, together with the local
computation up to the next. `Fail` is an error that leaves the handler (database,
request, cancelled context, the five minutes of `JobTimeout`), `Crash` the death of
the process where that differs from every handler failing. Payloads are model
values. An operator whose comment begins with "Mutant:" belongs to no
specification: it is what the definition below it could have been by mistake, and
`PROJECT.json` names the property that would notice.

### PlayerRegistry and PlayerStore

`PlayerRegistry` is the abstract promise: a call registers a player at one instant
("ok"), or says that somebody else did ("taken"), or fails and may have registered
him all the same (a lost COMMIT acknowledgement). `PlayerStore` has the statements:
`Select` (`store.go:470-491`), then for an unknown player the transaction
`InsertPlayer`, `SaveName`, `SaveAvatar`, `Commit` (`playerRecordSave`,
`store.go:370-457`). `tx[c]` is what the open transaction of `c` has written,
published by `Commit`; `InsertPlayer` waits while another transaction holds the key
and then either inserts or fails with the unique violation. `ImplementsRegistry`
maps `player` to `registered` and the answers of `pc` to `answer`. The importers'
modules use a player as the registry has it, in one step.

### ListsOverStore

That one step is earned, not assumed: here the jobs of `BDLists` are callers of
`PlayerStore`, and where `BDLists` has `EnsurePlayer` they make the call. `Ask` is the
call for the next new player, `StoreWorks` any statement of it with the answer heeded
(`Heed`), `CallOver` the return, `JobWorks` and `WorldWorks` everything else, in between.
It is proved to implement both modules (section 4).

### BDLists

State: the two tables, the documents the URLs serve, and per worker what it still
has to download (`todo`), what it downloaded (`docs`), the download it is applying
(`cur`) and what is left of the plan for it (`creates`, `updates`, `deletes`).
`Fetch` is one `fetchList`; it may yield nothing, or an empty document, because the
status code is not looked at. `ReadEntries` reads the rows of one list (possibly fewer,
`rows.Err` is ignored) and makes the plan with `FindNew`, `FindUpdated`, `FindDeleted`,
translated from `findNewAndUpdated` and `findDeleted` with `normalizeAttrs`. A plan names
new and changed players by their position in the document, which is the order the code's
slices keep, and rows by their ids. `EnsurePlayer`, `InsertEntry`, `UpdateEntry`,
`DeleteEntry` carry it out, whatever happened to the rows meanwhile; `Fail` may have
stored the player of a call whose answer was lost (`PlayerStored`). `Accepted` has the
table's constraints. `Publish`, `AddList`, `DeleteList` are the list's author and the
command line.

### Serveme

State: the table, the published list, the two workers' jobs, and the pool's idle
connections. `Begin` takes a connection for the transaction, yet `Delete` and each
`Insert` need a second one and are visible at once; `End` is the deferred
`Rollback` (or `Commit`). A row whose steam id is in the table already ends the
import where it is. `calm` is a history variable: since all workers were idle every
job has imported the list of now, and none failed for another reason than the
primary key.

### LeagueBans

One behaviour is about one league; `Keyed` are those with a unique index (ETF2L).
Downloads and tables are bags: how many rows each ban has. Their order is left out,
as nothing reads it. `Valid` are the bans of players with a valid steam id.
`FetchPage` takes the page at `offset` of the list as it is now; `Delete`,
`EnsurePlayers`, `SendBatch` are `rglBansReplace` and `etf2lBansUpdate`. `AddBan`
and `LiftBan` change the list at any position at any time. `first`, `moved` and
`origin` are history: what was served when the download began, how the list changed
since, and the same of the download that filled the table.

### RGLImport

State: the four tables, the queue in due order, the running job. `UpdateSeason`,
`EnqueueSeason` and `SkipSeason` are one turn of the season walk, `SeasonTimeout` the walk
when its context has ended (all remaining ids fail at once and the job succeeds).
`Announce`, `Limit` and `Relent` are RGL: a season grows, the rate is limited until RGL is
left alone. `seasons[s]` is what RGL listed when `s` was stored. `EnqueueSeason` appends the
jobs that do not wait yet in the order of the code, teams before matches (`FollowUps`). A
season that has neither teams nor matches fails the job there (`EnqueueNothing`): River's
`InsertMany` refuses an empty list, and with a season's row stored, every later walk comes
to the same point. `InsertTeam` and `InsertMember` are `RGLTeamWorker`, `InsertMatch` is
`RGLMatchWorker`, with its error for fewer than two teams. `Error` and `Fail` send a job to
the end of the queue with one attempt less. `cut` is history: the teams whose members a
fault cost.

### SteamRefresh

State: the players in the order of `updated_on` (the newest first; only order and
"older than 24 hours" matter to `playerGetExpiredProfiles`), the queue in due order,
the one running job. `ReadExpired`, `SaveProfile` (one `playerRecordSave`),
`EnqueueBans`, `EnqueueGames` are the steps of `SteamSummaryWorker.Work`; profiles
of one batch are saved, and their games jobs enqueued, in any order: the order of the
query is arbitrary among equal times;
`CheckBans` is one turn of the ban job's loop, `UpdateGames` a games job. `Fail` is
an error, the summary job's ten seconds, or a crash: the job waits again with one
attempt less, or is discarded. `due` and `cut` are history: the follow-ups a saved
profile still needs, and those that a fault has cost it; `current` and `excused`
say whether a profile that looks fresh really had its summary saved.

### LogsTF

State: the two tables, the site's newest log, the collector's cache (`index`,
`page`), the job with the ids that wait (`next..last`), and the queue's threads.
`ReadIndex` is the first request of a run; `Get`, `CheckRetries` and `Retry` are a
thread's request and the `OnError` callback, with the unlocked append as a read and
a write; `Select`, `Insert` and `Store` are `logsTFMatchCreate`. `TimeOut` ends the
job's context, which only the statements notice. What colly's `CacheDir` does is
external: an answer below 500 is kept and used for ever. `lost` is history.

### SBParser and Sourcebans

`SBParser` translates the four parsers (`parseDefault`, `parseMaterial`, `parseStar`,
`parseFluent`, chosen by `ParseText`) and the setters of the record they fill as folds over
the texts of a ban (`ParseBan`) and the bans of a page (`Parse`): a cell that reads like a
key makes the next one its value, and the row of the reason ends the record. In the original
theme a ban has a line in the list and a table of details below it, nested in the list's;
`parseDefault` selects the cells of the nested table only, and `Cells` names those in the
order of the fixtures: the heading, the rows up to the reason, who lifted the ban
(`LiftedCells`), then banned by, banned from and the blocked attempts, which stand behind
the row that ends the record. `Sourcebans` has a job, a goroutine per site (`walk[s]`), the
sites' lists, and what the collectors keep (`cache[s][u]`: an address's page as of the time
the site listed so many bans, or an error). `Visit` is one request with everything `OnHTML`
does up to the first ban; `Select`, `Insert`, `Save` are the statements of one ban; `Follow`
is the comparison with `lastURL`. `NextURLFirst`, `NextURLLast`, `NextURLFluent` are the
three ways to the next page. `TimeOut` ends the job's context, which only the statements
notice. `lost` is history. `PagesParsed` says of the parsers that they make of a single page
what they should; it is about constants only. TLC evaluates it for the pages of the run,
with people who call themselves like keys and a nameless ban that gets a label for a name,
and section 4 proves it for all lists that keep to `PlainLists`.

### SteamCache

State: a file per player (of one kind of report), a clock, the requests. `set` is
two actions, `Create` (empty file) and `Write`; `Written` gives the outcome of two
writers, the shorter report followed by the tail of the longer. `Read` and
`ReadFriends`, each one step (a rewrite that falls between `get`'s `Stat` and the last read of
`io.ReadAll` is left out), are the two ways the lookups treat a file; `AskSteam` is the one call
for what was missed. `SummaryAnswered` and `ProfileAnswered` are what the handlers
of `/summary` and `/profile` make of a lookup.

### OwnedGames

State: the libraries Steam knows, the two tables with the time of each row, the
requests. `Query` is the one SELECT of `getOwnedGames`, which never looks at `rows.Err`: if
its connection breaks, any part of any player's rows may be missing and still passes for
all of them. `Ask`, `EnsureGame`,
`UpdateOwnedGame` and `Updated` are `updateOwnedGames`, row by row, each statement
committing by itself. The games job of the Steam queue is a request for one player
with `update`. `half` and `cut` are history: players read while their rows were not
all there, or not read to their end, and those whose last update did not get to its end.

### StatsCache

`handleGetStats`: `Look`, `Store` and `Read` are its three critical sections, `Load`
is the first query of `loadStats`, whose time stands for the statistics loaded.

### API

The handlers that keep something between two requests. They share the clock and the
process and no data, so a behaviour of `API` is about one of SteamCache, OwnedGames
(as `Games`) and StatsCache (as `Stats`).

### SteamServers and SteamJobs

`SteamServers` has the tables `steam_server` and `maps`, the worker's two caches,
and the running job with the statements it still has time for (`steps`).
`EnsureServer` and `EnsureMap` see to one server of the list; `InsertStats` and
`InsertCounts` end the job. `Restart` loses the caches. `counted` is history.
`SteamJobs` puts SteamRefresh and SteamServers into the one-worker queue they share:
they never overlap and share no row, so a behaviour is about one of them.

## 3. What is checked

| Run | Distinct states | Properties | Bounds and why they suffice |
|---|---|---|---|
| `player_store` | 5,770 | StoreTypeOK, AnswerMeansStored, HistoryComplete, EveryCallAnswered, ImplementsRegistry | three callers: winner, waiting loser, bystander; two players: same key and another |
| `bd_lists` | 329,000 | TypeOK, EntriesFollowDownloads, EventuallySynced | two jobs overlap; one list with two changes and one fault, or two quiet lists; three documents with every case of the plan (new, gone, renamed, respelled, blanked, doubled, invalid) |
| `bd_lists_known` | violation | KnownEntriesStay | as above |
| `serveme` | 127,000 | TypeOK, ForeignKeyHolds, OverlapKeepsAll, ConnectionsReturned, AgainAndAgainCurrent | the queue's two workers and the least pool; two changes, two faults; lists that share a player, double one, or have none |
| `serveme_known` | violation | KnownBansStay | as above |
| `league_bans` | 852,000 | TypeOK, TableIsSnapshot, AdditionsHideNothing, AgainAndAgainCurrent | pages of two, lists of up to three: a full page, a partial one and the empty end; two changes, one fault |
| `rgl_import` | 472,000 | TypeOK, MatchesFindTeams, RosterLostToFaultsOnly, AllImported | seasons 1, 3 and 4 with a gap; season 3 grows and has nothing to enqueue before its match is announced, so that it blocks season 4 or not; a match across seasons, one never played, one without an opponent; three faults (rate limits among them) use up all attempts of a job |
| `steam_jobs` | 523,000 | JobsTypeOK, FollowUpsLostToFaultsOnly, FreshMeansSummarised, EventuallyFresh, FollowUpsRun, ServersCounted | three players, one unknown to Steam, batches of two; two attempts and two faults, so that a job can be discarded; one profile expires again. Three servers on two maps, time for three statements where up to seven are needed, one change of the list |
| `logs_tf` | 51,000 | TypeOK, NoLogPassedOver, RacesHaveWinners, RunsEnd, AllScraped | two threads; three logs between the first and the newest, neighbours sharing a new player; three faults: two ids limited at once and one more |
| `sourcebans` | 193,000 | TypeOK, RowsAreListed, NoBanPassedOver, EveryBanStored | two sites that share players, three pairs of themes so that all four parsers and all three next links run; pages of two, lists of up to five, so that a walk has a first, a middle and a last page; people who call themselves like keys, a nameless ban below one by a "player"; one fault |
| `api` | 1,555,000 | APITypeOK, AnswerComplete, GamesComplete, AnswersFresh | two requests; two players (one unknown to Steam), two lengths of report; one player with two games; a clock past expiry, one fault, a short read among them. Requests and games are interchangeable (symmetry; invariants only) |
| `steam_cache_friends` | violation | FriendsListed | as above |

In `player_store` neither data nor counters are unbounded. Elsewhere faults,
changes and time are capped by the constants whose names begin with `Max`; ids of
`bd_list_entries` are reused once no row and no plan holds them, which a job cannot
tell from fresh ones; `bd add` is limited to an empty table; a waiting RGL job is
not enqueued twice. Two assumptions are about time: a lookup lasts at most `MaxTime`
(`SteamCache`, `StatsCache`), and so does one player's update (`OwnedGames`), since
the requests' contexts end. `serveme` and `serveme_known` do not check for
deadlock: a site that lists no valid player leaves nothing to do.

What the runs show, beyond the type invariants:

- *Player store.* "ok" and "taken" are always true of the database, and whoever
  waits for a key gets an answer. History is all or nothing. The detailed module
  implements the atomic one, lost acknowledgements and crashes included.
- *Bot detector lists.* A row disappears only with its list or because a running update's
  download does not name the player, and what is new or changed says what such a download
  says of this very player: a stale job never deletes what another has just created, nor
  writes into another player's row. What is stored can be searched for. Once the world is
  quiet the entries become what the documents say - with two exceptions, which the
  property names: a document that blanks a known player's attributes makes every update of
  the lists fail at that statement, and one that names a player twice with different data
  never settles.
- *serveme.tf.* Overlapping imports of one list do not lose a ban between them,
  because both insert in the same order. Connections come back on every path, and
  with more connections than workers no job waits for ever.
- *League bans.* The table is the league's list as served (or empty, from a DELETE to the
  next batch), unless the list moved under the download; a growing list can repeat a ban
  and never hides one. A duplicate in ETF2L's list empties its table until the list is
  corrected.
- *RGL.* Without faults a match finds its teams. A roster is lost only to a fault
  between the team's row and its members - and then for good. A rate limit ends a
  season walk by its time limit, and a later day's walk gets past it. Every reachable
  season is imported in the end as RGL listed it when its row was stored, except matches
  that were not played or have fewer than two teams; what is announced later never comes.
  Not reachable is what lies behind as many errors as a walk may count, and behind a
  season that was stored when it had neither teams nor matches.
- *Steam refresh.* A saved profile has its follow-up jobs until they have run, unless
  a fault came between the save and their insertion: no retry makes up for that, as
  the profile is not expired any more. A fresh `updated_on` means a saved summary,
  except where the ban job set it alone. Profiles Steam does not know are read again
  by every job; as long as they do not fill a batch, everybody else is refreshed.
- *logs.tf.* Behind the newest stored log nothing is missing without a cause, but the
  causes include one that is no fault: two threads that store logs of the same new
  player, of which one is dropped. Some log of every such race survives. The lost
  appends to the list of retries do not keep a run from ending. What the cache keeps
  bounds all later runs: they deal with the logs of the first index, and a rate
  limited index ends each of them in a panic, as `AllScraped` says.
- *Steam servers.* A job that has no time for all rows leaves less for the next one,
  through the caches, so that statistics come again and again; a restart only costs
  time. One server with an address that does not parse, unless it was cached before,
  is the exception the property names: then there are no statistics of any server.
- *SourceBans.* Whatever people call themselves, a row says what its ban says, with
  one exception that `RowsAreListed` names: in the original theme, a ban without a name
  that stands below one whose admin, or blocked attempt, is called "player" gets the label
  behind that cell for its name, and is stored under it. Behind each page a walk has
  met nothing is missing but what a fault or a race between two sites for a new
  player has cost, and some site wins each race. Later walks make up for all of it,
  from the pages that are kept - for ever: a site that once answered with an error
  below 500 is barred, what it lists later is not seen. `EveryBanStored` also says how
  far a walk gets: on "skial", whose next link is the first link of the page, to the
  second page.
- *API.* A torn or empty file is always fetched again by the lookups of summaries and
  bans, an answer is whole or an error, and it is no older than the age for which it
  is kept plus one lookup. The same goes for statistics that several requests load at
  once. A list of games has all that its player owned an update's time before its newest
  row, unless it was read while an update of that player was under way or after one that
  was cut short - then half of it passes for all of it, until somebody forces an update -
  or a broken connection cut off his own rows. Neither touches the other players of the
  request.

### Fairness

- Weak fairness of a running goroutine's steps: PostgreSQL, River and the web
  servers answer or fail within the job's five minutes; both are steps.
- `PlayerStore`: strong fairness of `InsertPlayer`, because PostgreSQL grants a key's
  lock in the order of the waiters; weak fairness would let a waiter be overtaken
  for ever.
- Weak fairness of starting a job (`Start`, `Period`): `createPeriodicJobs`.
- `LogsTF`: each thread of the collector goes on by itself; the site answers or the
  request fails after `requestTimeout`.
- `Sourcebans`: each site's goroutine, and the job, goes on by itself.
- `RGLImport`: a job's time runs out (`limited /\ SeasonTimeout`); RGL answers again
  some time after it was left alone (strong fairness of `Relent`, as each day's walk
  may meet the limit again).
- `SteamJobs`: each part's own fairness; a server job comes again and again.
- None for faults, crashes, new players, expiring profiles, published changes and `bd`
  commands.
- `SteamCache`, `OwnedGames` and `StatsCache` have no liveness property and state no
  fairness.

### Findings

1. `bd.go:142` deletes the entries that a download no longer names; the comment of
   `updateLists` (`bd.go:54`) says they are marked as deleted. Run `bd_lists_known`.
2. `store.go:1584` and the INSERTs after it run on the pool and not in the
   transaction of `servemeUpdate`: readers meet an empty or partial table, and a
   failed import leaves it so. Run `serveme_known`.
3. `steam.go:85`: cached friends are decoded and dropped; from the second lookup on,
   a public profile has no friends for a week. Run `steam_cache_friends`.

## 4. What is proved

TLAPS proves, for every value of the constants that the named assumptions allow, all
invariants of the runs, the action property of the lists, and two refinements: the
player store implements its registry, and the lists over the real store implement the
lists over the registry. It proves the SourceBans parsers right on pages of any length.
Each proof module has an inductive invariant, checked with TLC before it was proved, one
lemma per action, and a theorem per property. The bounds (`Max...`) are any numbers.

| Module | Theorems | Assumptions |
|---|---|---|
| `StoreProofs` | StoreTypeCorrect (`StoreTypeOK`), AnswerSafe (`AnswerMeansStored`), HistorySafe (`HistoryComplete`), StoreImplementsRegistry (`ImplementsRegistry`) | `NoSidAssumption` |
| | ListsTypeCorrect (`TypeOK`), EntriesFollow (`EntriesFollowDownloads`) | `DocAssumption`; `CanonAssumption`: what is trimmed and in lower case stays so; `NoListAssumption`, `BoundAssumption` |
| | OverStoreIsLists, OverStoreListsFollow (`TypeOK`, `EntriesFollowDownloads`, `AnswerMeansStored` of the composition) | all of these; the jobs are callers, and the lists' steam ids are known to the store |
| `ServemeProofs` | TypeCorrect, PoolSafe (`ConnectionsReturned`), PlayersFirst (`ForeignKeyHolds`), OverlapSafe (`OverlapKeepsAll`) | `CsvAssumption`; `PoolAssumption`: finitely many workers, more connections than workers (pgxpool has at least four, the queue two workers) |
| `LeagueBansProofs` | TypeCorrect, TablesAreSnapshots (`TableIsSnapshot`), NothingHidden (`AdditionsHideNothing`) | `KeyedAssumption`, `PageAssumption` |
| `RGLImportProofs` | TypeCorrect, TeamsComeFirst (`MatchesFindTeams`), RostersLostToFaultsOnly (`RosterLostToFaultsOnly`) | `SeasonAssumption`, `RGLAssumption`, `WinnerAssumption`; `MatchAssumption`: a match's teams take part in its season or in an earlier one |
| `SteamJobsProofs` | TypesCorrect (`JobsTypeOK`), FollowUpsKept (`FollowUpsLostToFaultsOnly`), FreshIsSummarised (`FreshMeansSummarised`) | `KnownAssumption`, `BatchAssumption`, `ServersAssumption`: a job has time for at least two statements |
| `LogsTFProofs` | TypeCorrect, NothingPassedOver (`NoLogPassedOver`), RacesWon (`RacesHaveWinners`) | `LogAssumption`, `PlayersAssumption` |
| `SourcebansProofs` | TypeCorrect, RowsComeFromLists (`RowsAreListed`), WalksPassOverNothing (`NoBanPassedOver`) | `ThemeAssumption`, `PerPageAssumption`, `BansAssumption`; each theorem has the hypothesis `PagesParsed` |
| | PlainListsAreParsed (`PlainLists` implies `PagesParsed`), PlainListsAreKept (the three properties above) | also `TextAssumption`; the hypothesis `PlainLists`: no expiry reads like a key, nor the name of who lifted a ban that had expired |
| `APIProofs` | TypesCorrect (`APITypeOK`), LookupsComplete (`AnswerComplete`), ListsOfGamesComplete (`GamesComplete`), AnswersStayFresh (`AnswersFresh`) | `HiddenAssumption`, `SizeAssumption`, `TimeAssumption` |

Why the invariants are not inductive as they stand, and what each argument is:

- *Player store.* That the loser of a race may be told "taken", and that a commit adds
  exactly one name, needs to know what an open transaction holds at each statement
  (`Stages`), that at most one open transaction has a key (`HolderUnique`) and that
  this key is not committed yet (`HolderFresh`). Under that invariant each action maps
  to a step of the registry or to a stutter.
- *Detector lists.* A plan goes by row ids, and other jobs add, change and delete rows
  while it is carried out. `PlansSound`: the rows that a plan names are, as far as they
  still exist, the rows it was made for. It is kept because the serial hands out no id
  that a plan holds, and because an UPDATE keeps a row's list and steam id. Each
  statement then does to a row what the download in hand says of its player.
- *Jobs over the store.* While a job is in a call, its plan does not move and the call is
  about the player whose turn it is (`CallsFollowPlan`). So each statement of the call maps
  to a stutter of `BDLists`, except the one that commits: that is `EnsurePlayer`, or a
  `Fail` that stored the player when the answer was lost.
- *serveme.tf.* In a calm period with a list that names nobody twice, either some job
  has its DELETE still ahead, or the table holds nothing foreign and every row it lacks
  is *brought* by a job that inserts: that row and all rows from the job's position up
  to it are not in the table, so the job cannot run into the primary key before it gets
  there (`Coverage`). When all jobs are done there is nobody left to bring a row, so
  none is missing. `Ensured` does the same service for the foreign keys.
- *League bans.* A download of a list that stands still has counted exactly the
  positions before its offset (`Exact`), which takes that the counts of two adjacent
  stretches of a list add up. While bans only come, each ban of the start has been
  downloaded or stands behind the offset (`Covered`): an addition moves it, if at all,
  away from the head. `Prepared` says what the batch finds.
- *RGL.* The walk begins at the first id, so all earlier seasons' teams are stored or
  have jobs (`Walked`); in the queue the teams of a match are ahead of it
  (`TeamsAhead`), and taking a job from the head and appending at the end keep that.
  A job that fails goes to the end, behind its match: hence "as long as nothing fails".
  `RostersWhole` follows the running team job member by member.
- *Steam queue.* Every follow-up that is due waits, runs, or is about to be enqueued by
  the job that saved the profile (`Covered`). A ban job makes profiles look fresh, and
  it is only ever about profiles whose summary was saved, or which are excused
  (`BanJobsFollow`). The lemmas are about moving a row to the front of the table
  (`InFront`, `Removed`) and about queues.
- *logs.tf.* No two threads hold one log, and none holds one that is stored
  (`HeldApart`); what is before the head of the queue is stored, held, waiting or lost
  (`RunPassesNothing`). That a race has a winner is not a matter of one log, since the
  winner may lose a later race for another player: every set of losers, those to be
  included, shares a player with a log outside of it (`LosersLinked`), and so does every
  set that holds a log taken a second time (`AgainLinked`). Taken for the set of all
  losers this gives the property.
- *SourceBans.* A page that is kept was one of the site's pages when it was kept, and
  walks only come to addresses the site has had (`CacheOK`, `WalkOK`), whatever link
  a theme follows (`LinksStay`). A goroutine that found its player missing inserts him,
  or another site's goroutine has and will store its ban unless there is a fault
  (`Overtaken`, `WonByOther`). What is in hand and what is stored come from bans that
  the site had listed (`AllListed`), what was met is stored, in hand or lost (`SeenTo`).
  What a parser makes of one page enters these proofs as `PagesParsed`.
- *SourceBans parsers.* A parser is a fold over a ban's texts within a fold over a page's
  bans, so its correctness is an induction over data, twice. The library's induction
  rules take an operator as a parameter; here induction is the least-element principle
  (`LeastNumber`, from the well-foundedness of <) applied to the set of positions up to
  which the fold is right (`SegmentInduction`). A fold is a run of states (`TextRun`,
  `PageRun`); a ban takes the record from empty through `Named`, `Identified`, `Dated`,
  `Measured` and `Complete` to empty again, ten rows or twenty-one to twenty-five cells
  long, and adds what it says to the page's result exactly if it is to be reported
  (`CompleteRecord`, `BanRead`). In the theme of cells a name, an id or a reason always
  stands behind a key and is its value, whatever it reads like. What stands behind no key
  may become one: below the reason the admin and the blocked names, whose state is carried
  to the next ban (`Between`, `Stray`), where only "player" does harm, to a ban without a
  name (`TakenFor`); and above the expiry the name of who lifted the ban. That last one is
  what `PlainLists` excludes, for bans that had expired: called like a key it makes the
  heading of the expiry its value, so that the expiry is not read. An expiry that reads
  like a key is excluded for the same reason, and is not to be expected of a time.
- *API.* A file that is not torn holds one writer's report, and was written at most one
  lookup after the report was asked for (`FileInv`); a lookup forgets nobody (`Accounted`),
  and what it has found is young enough (`Young`). For the games, an update's time bounds
  what may be missing: whatever was bought before Steam was asked has a row or is still to
  be stored (`Thorough`, `RowsComplete`), however many updates of a player are under way;
  and rows that were cut off by a broken connection are those of players in `half`, or of
  players whom the request then asks Steam about (`PartRead`). Stored statistics are one
  request older than their time at most (`StatsInv`).

Only model-checked: every liveness property (fairness and ENABLED are out of the
prover's reach). The three contracts that the code does not keep
(section 3) are refuted by TLC and no subject of proofs.

## 5. What is not modelled

- `proxy.go` (a race on one map at start-up, whose only bad outcome is the runtime's
  abort), `limiter.go` (a wrapper of a library), `main.go` (no state; what a stop does
  to the jobs is `Crash`, `Restart` and `Fail` in their modules).
- The read-only handlers and the queries under them, and the other sources of a
  profile (`collectors.go`): one SELECT each, with nothing kept in between.
- The HTML of logs.tf, date formats, steam id spellings,
  templates, ETags: conversions without state; a fixture test reaches them better.
- River, PostgreSQL, pgx, Steam, the leagues and the file system: modelled only as
  the code uses them (statement commits, row locks, unique and foreign keys, attempts,
  order of due jobs).
- `botDetectorListSave`, which only tests call; the columns of rows that no property
  tells apart; limiter delays.

## 6. Seen while modelling, without a run

- `handleGetETF2LList` (`api_handler.go:479`) reads the RGL bans: `/list/etf2l` serves
  the list of `/list/rgl`.
- Permanent bans of sites in other languages are dropped. `setBanLength` knows
  "permanent" in English only (`sourcebans.go:112`); the expiry "Никогда." is then the zero
  time, before the ban began, and `setExpiredOn` takes the ban for an ended one. The fixture
  `testdata/cuteproject.html` has thirty bans, eighteen of them permanent;
  `sourcebans_test.go:514` expects the twelve others. (In the model: a length that is not
  "permanent" with the expiry "never".)
- In the original theme a ban without a name may get a label as its name (section 3), and
  an expired ban that was lifted by somebody called like a key loses its expiry (section 4).
- A season of RGL that is stored before it has teams or matches fails the season job of
  every day at that season (`jobs_rgl.go:89`), and no later season is imported. `Blocked`
  in `AllImported` says so.
- `rows.Err` is looked at by one query of `store.go` (line 763) and by no other. A
  connection that breaks while rows are read shortens the result of all others: of the
  games (modelled, `/owned_games` answers with status 200), of the known lists and entries
  (modelled in `BDLists`), and of the read-only queries.
- `docs/API.md:311` says that owned games older than two weeks are asked for anew;
  `getOwnedGames` never looks at their age.
- `loadProfiles` runs its league queries with `ctx` and not with the group's
  `localCtx` (`collectors.go:101`, `108`).

## 7. Plan

All components with state of their own have their modules, and all invariants of the runs
are proved. What could follow, in this order: compositions of the other importers with
`PlayerStore`, as `ListsOverStore` has it for the detector lists; abstract specifications
for the file cache (an answer is one of Steam's reports) and for the league tables (a table
is replaced at once or emptied), with the refinements.
