----------------------------- MODULE Sourcebans -----------------------------
(***************************************************************************)
(* The SourceBans scraper (src/sourcebans.go, src/jobs_sourcebans.go, its  *)
(* queries in src/store.go). Once a day a job gives every site a goroutine *)
(* that walks the pages of the site's ban list, from next-link to          *)
(* next-link, and stores what the site's parser makes of them.             *)
(*                                                                         *)
(* The goroutines share the tables and nothing else. A collector (colly,   *)
(* external) refuses an address it has already visited; its CacheDir keeps *)
(* every answer below 500 on disk, and that answer stands for the page     *)
(* ever after, errors included. The 6 hours of the job end its context,    *)
(* which only the statements notice.                                       *)
(*                                                                         *)
(* Left out: proxies, delays, the counters that are logged.                *)
(***************************************************************************)
EXTENDS SBParser, Integers, SequencesExt

CONSTANTS
    Site,
    Theme,      \* of "default", "skial", "material", "star", "fluent"
    Bans,       \* Bans[s]: what site s may come to list, the oldest first
    PerPage,    \* bans on a page of a list
    MaxFaults   \* bound: requests and statements that fail, time limits, crashes

ASSUME ThemeAssumption == Theme \subseteq {"default", "skial", "material", "star", "fluent"}
ASSUME PerPageAssumption == PerPage \in Nat \ {0}
ASSUME BansAssumption ==
    \A s \in Site : Bans[s] \in
        Seq([name : STRING, sid : STRING, on : STRING, length : STRING, lifter : STRING,
             why : STRING, expires : STRING, reason : STRING, admin : STRING, blocked : STRING])
ASSUME FaultsAssumption == MaxFaults \in Nat

VARIABLES
    theme,      \* theme[s]: the site's theme; never changes
    listed,     \* listed[s]: how many of its bans the site lists by now
    cache,      \* cache[s][u]: what is kept of address u: a page as of the time the
                \* site listed n > 0 bans, Denied, or Unseen
    site,       \* names in table sb_site
    player,     \* table player
    bans,       \* bans[s]: rows of table sb_ban with the id of s
    job,        \* [pc, todo, late]: todo: sites whose id it has not got yet
    walk,       \* walk[s]: the goroutine of s
    lost,       \* history: lost[s]: bans not stored, because of a race or a fault
    faults      \* faults so far

db   == <<site, player, bans>>
vars == <<theme, listed, cache, db, job, walk, lost, faults>>

----------------------------------------------------------------------------
(* The sites. *)

PageCount(n) == (n + PerPage - 1) \div PerPage

\* Pages have numbers. The first page has a second address, at which a walk
\* starts; the home page has no bans and no links.
Start == 0
Home  == -1
None  == -2
Addresses(s) == Home..PageCount(Len(Bans[s]))

PageOf(u) == IF u = Start THEN 1 ELSE u

\* A page of a site that lists its first n bans: PerPage of them, the newest first.
PageBans(s, n, p) ==
    LET above == (p - 1) * PerPage IN
    [i \in 1..Min({PerPage, n - above}) |-> Bans[s][n + 1 - above - i]]

\* What the site's parser makes of it.
Parsed ==
    [s \in Site |-> [t \in Theme |-> [n \in 1..Len(Bans[s]) |-> [p \in 1..PageCount(n) |->
        Parse(t, PageBans(s, n, p))]]]]

\* A page links to its neighbours, the previous one first (testdata/wonderland.html).
HasPrev(u)    == PageOf(u) > 1
HasNext(u, n) == u # Home /\ PageOf(u) < PageCount(n)

----------------------------------------------------------------------------
(* The state. *)

Unseen == 0
Denied == -1

NoJob == [pc |-> "idle", todo |-> {}, late |-> FALSE]

\* url: what is in the collector's queue; next: the link found on the page in
\* hand; last: lastURL; todo: the bans of the page that are not seen to yet.
NoWalk == [pc |-> "idle", url |-> None, next |-> None, last |-> None,
           visited |-> {}, todo |-> <<>>]

Row == [name : STRING, sid : SteamId, on : Time \union {Zero}, perm : BOOLEAN, length : {0, 1}]

TypeOK ==
    /\ theme \in [Site -> Theme]
    /\ \A s \in Site :
        /\ listed[s] \in 1..Len(Bans[s])
        /\ cache[s] \in [Addresses(s) -> Denied..listed[s]]
        /\ bans[s] \subseteq Row
        /\ lost[s] \subseteq Row
        /\ walk[s].pc \in {"idle", "visit", "select", "insert", "save"}
        /\ walk[s].visited \subseteq Addresses(s)
        /\ ToSet(walk[s].todo) \subseteq Row
        /\ walk[s].pc \in {"insert", "save"} => walk[s].todo # <<>>
        /\ \A r \in bans[s] : s \in site /\ r.sid \in player
    /\ job.pc \in {"idle", "sites", "run"}
    /\ job.todo \subseteq Site
    /\ job.pc # "run" => \A s \in Site : walk[s] = NoWalk
    /\ faults \in 0..MaxFaults

Init ==
    /\ theme \in [Site -> Theme]
    /\ listed \in {n \in [Site -> UNION {1..Len(Bans[s]) : s \in Site}] :
                    \A s \in Site : n[s] <= Len(Bans[s])}
    /\ cache = [s \in Site |-> [u \in Addresses(s) |-> Unseen]]
    /\ site = {}
    /\ player = {}
    /\ bans = [s \in Site |-> {}]
    /\ job = NoJob
    /\ walk = [s \in Site |-> NoWalk]
    /\ lost = [s \in Site |-> {}]
    /\ faults = 0

Fault ==
    /\ faults < MaxFaults
    /\ faults' = faults + 1

NoFault == UNCHANGED faults

sites == <<theme, listed>>

----------------------------------------------------------------------------
(* The job. *)

\* The queue has one worker. initScrapers has the sites in the random order in
\* which their goroutines were constructed.
StartJob ==
    /\ job.pc = "idle"
    /\ job' = [NoJob EXCEPT !.pc = "sites", !.todo = Site]
    /\ UNCHANGED <<sites, cache, db, walk, lost, faults>>

\* sourcebansSiteGetOrCreate: one site has one row.
GetSite ==
    /\ job.pc = "sites"
    /\ ~job.late
    /\ \E s \in job.todo :
        /\ site' = site \union {s}
        /\ job' = [job EXCEPT !.todo = @ \ {s}]
    /\ UNCHANGED <<sites, cache, player, bans, walk, lost, faults>>

\* An error of it ends the job, before anything is scraped.
SiteFails ==
    /\ job.pc = "sites"
    /\ IF job.late THEN NoFault ELSE Fault
    /\ job' = NoJob
    /\ UNCHANGED <<sites, cache, db, walk, lost>>

\* runScrapers.
Launch ==
    /\ job.pc = "sites"
    /\ job.todo = {}
    /\ job' = [job EXCEPT !.pc = "run"]
    /\ walk' = [s \in Site |-> [NoWalk EXCEPT !.pc = "visit", !.url = Start]]
    /\ UNCHANGED <<sites, cache, db, lost, faults>>

\* Mutant: the job does not wait for its goroutines.
JobDoneAtOnce ==
    /\ job.pc = "run"
    /\ job' = NoJob
    /\ UNCHANGED <<sites, cache, db, walk, lost, faults>>

\* waitGroup.Wait returns; the job reports success.
JobDone ==
    /\ job.pc = "run"
    /\ \A s \in Site : walk[s].pc = "idle"
    /\ job' = NoJob
    /\ walk' = [s \in Site |-> NoWalk]
    /\ UNCHANGED <<sites, cache, db, lost, faults>>

TimeOut ==
    /\ job.pc # "idle"
    /\ ~job.late
    /\ Fault
    /\ job' = [job EXCEPT !.late = TRUE]
    /\ UNCHANGED <<sites, cache, db, walk, lost>>

\* The process dies, the cache stays.
Crash ==
    /\ job.pc # "idle"
    /\ Fault
    /\ job' = NoJob
    /\ walk' = [s \in Site |-> NoWalk]
    /\ UNCHANGED <<sites, cache, db, lost>>

\* A site bans somebody.
Ban(s) ==
    /\ listed[s] < Len(Bans[s])
    /\ listed' = [listed EXCEPT ![s] = @ + 1]
    /\ UNCHANGED <<theme, cache, db, job, walk, lost, faults>>

----------------------------------------------------------------------------
(* The goroutine of a site. *)

At(s, pc) == walk[s].pc = pc

Set(s, w) == walk' = [walk EXCEPT ![s] = w]

\* nextURLFirst: the first link; without one, the address it is relative to.
NextURLFirst(u, n) ==
    IF HasPrev(u) THEN PageOf(u) - 1 ELSE IF HasNext(u, n) THEN PageOf(u) + 1 ELSE Home

\* nextURLLast: the last link of the page, which on its last page is the way back.
NextURLLast(u, n) ==
    IF HasNext(u, n) THEN PageOf(u) + 1 ELSE IF HasPrev(u) THEN PageOf(u) - 1 ELSE None

\* nextURLFluent: the link that says "next".
NextURLFluent(u, n) == IF HasNext(u, n) THEN PageOf(u) + 1 ELSE Home

NextURL(s, u, n) ==
    CASE theme[s] = "skial"  -> NextURLFirst(u, n)
      [] theme[s] = "fluent" -> NextURLFluent(u, n)
      [] OTHER               -> NextURLLast(u, n)

\* OnHTML, up to the first ban, with the page as it was when the site listed n bans.
OnHTML(s, n) ==
    LET u == walk[s].url IN
    Set(s, [walk[s] EXCEPT !.pc = "select", !.url = None, !.visited = @ \union {u},
                           !.todo = IF u = Home THEN <<>> ELSE Parsed[s][theme[s]][n][PageOf(u)],
                           !.next = NextURL(s, u, n)])

\* OnError logs: the queue is empty, and so the walk is at its end.
OnError(s) ==
    Set(s, [walk[s] EXCEPT !.pc = "idle", !.url = None, !.visited = @ \union {walk[s].url}])

Keep(s, answer) == cache' = [cache EXCEPT ![s][walk[s].url] = answer]

\* The address in the queue: a page that is kept or is served, an answer below 500
\* that is no page, or none at all.
Visit(s) ==
    LET u == walk[s].url IN
    /\ At(s, "visit")
    /\ u # None /\ u \notin walk[s].visited
    /\ \/ /\ cache[s][u] > 0
          /\ OnHTML(s, cache[s][u])
          /\ UNCHANGED cache /\ NoFault
       \/ /\ cache[s][u] = Unseen
          /\ OnHTML(s, listed[s]) /\ Keep(s, listed[s])
          /\ NoFault
       \/ /\ cache[s][u] = Unseen
          /\ OnError(s) /\ Keep(s, Denied)
          /\ Fault
       \/ /\ cache[s][u] = Denied
          /\ OnError(s)
          /\ UNCHANGED cache /\ NoFault
       \/ /\ cache[s][u] = Unseen
          /\ OnError(s)
          /\ UNCHANGED cache /\ Fault
    /\ UNCHANGED <<sites, db, job, lost>>

\* The queue is empty, or the collector refuses what is in it.
Finish(s) ==
    /\ At(s, "visit")
    /\ walk[s].url \in walk[s].visited \union {None}
    /\ Set(s, [walk[s] EXCEPT !.pc = "idle", !.url = None])
    /\ UNCHANGED <<sites, cache, db, job, lost, faults>>

Current(s) == Head(walk[s].todo)

Seen(s) == Set(s, [walk[s] EXCEPT !.pc = "select", !.todo = Tail(@)])

\* An error is logged: on to the next ban.
Skip(s) ==
    /\ Seen(s)
    /\ lost' = [lost EXCEPT ![s] = @ \union {Current(s)}]

\* playerGetOrCreate of the ban's player.
Select(s) ==
    /\ At(s, "select")
    /\ walk[s].todo # <<>>
    /\ ~job.late
    /\ Set(s, [walk[s] EXCEPT !.pc = IF Current(s).sid \in player THEN "save" ELSE "insert"])
    /\ UNCHANGED <<sites, cache, db, job, lost, faults>>

\* Mutant: a player that another goroutine has inserted ends the page.
InsertOrQuit(s) ==
    /\ At(s, "insert")
    /\ ~job.late
    /\ IF Current(s).sid \in player
       THEN /\ Set(s, [walk[s] EXCEPT !.pc = "select", !.todo = <<>>])
            /\ UNCHANGED player
       ELSE /\ player' = player \union {Current(s).sid}
            /\ Set(s, [walk[s] EXCEPT !.pc = "save"])
    /\ UNCHANGED <<sites, cache, site, bans, job, lost, faults>>

\* ... who is new, unless another goroutine has inserted him meanwhile.
Insert(s) ==
    /\ At(s, "insert")
    /\ ~job.late
    /\ IF Current(s).sid \in player
       THEN Skip(s) /\ UNCHANGED player
       ELSE /\ player' = player \union {Current(s).sid}
            /\ Set(s, [walk[s] EXCEPT !.pc = "save"])
            /\ UNCHANGED lost
    /\ UNCHANGED <<sites, cache, site, bans, job, faults>>

\* Rows of a site are told apart by player and time.
Stored(s, r) == \E q \in bans[s] : q.sid = r.sid /\ q.on = r.on

\* Mutant: the goroutines share the loop's variable, and with it the id of one site.
SaveUnderOneId(s) ==
    LET t == CHOOSE t \in Site : TRUE IN
    /\ At(s, "save")
    /\ ~job.late
    /\ bans' = [bans EXCEPT ![t] = IF Stored(t, Current(s)) THEN @ ELSE @ \union {Current(s)}]
    /\ lost' = [lost EXCEPT ![s] = @ \ {Current(s)}]
    /\ Seen(s)
    /\ UNCHANGED <<sites, cache, site, player, job, faults>>

\* sourcebansBanRecordSave; a ban that is stored is passed over in silence.
Save(s) ==
    /\ At(s, "save")
    /\ ~job.late
    /\ bans' = [bans EXCEPT ![s] = IF Stored(s, Current(s)) THEN @ ELSE @ \union {Current(s)}]
    /\ lost' = [lost EXCEPT ![s] = @ \ {Current(s)}]
    /\ Seen(s)
    /\ UNCHANGED <<sites, cache, site, player, job, faults>>

Fail(s) ==
    /\ walk[s].pc \in {"select", "insert", "save"}
    /\ walk[s].todo # <<>>
    /\ Skip(s)
    /\ IF job.late THEN NoFault ELSE Fault
    /\ UNCHANGED <<sites, cache, db, job>>

\* The link is followed, unless it is the one that was followed last.
Follow(s) ==
    LET w == walk[s] IN
    /\ At(s, "select")
    /\ w.todo = <<>>
    /\ Set(s, IF w.next \in {None, w.last}
              THEN [w EXCEPT !.pc = "visit", !.next = None]
              ELSE [w EXCEPT !.pc = "visit", !.next = None, !.last = w.next, !.url = w.next])
    /\ UNCHANGED <<sites, cache, db, job, lost, faults>>

----------------------------------------------------------------------------

WalkStep(s) ==
    \/ Visit(s)
    \/ Finish(s)
    \/ Select(s)
    \/ Insert(s)
    \/ Save(s)
    \/ Fail(s)
    \/ Follow(s)

JobStep == StartJob \/ GetSite \/ SiteFails \/ Launch \/ JobDone

Next ==
    \/ JobStep
    \/ TimeOut
    \/ Crash
    \/ \E s \in Site : WalkStep(s) \/ Ban(s)

\* The job comes each day; each goroutine goes on by itself.
Fairness == WF_vars(JobStep) /\ \A s \in Site : WF_vars(WalkStep(s))

Spec == Init /\ [][Next]_vars /\ Fairness

----------------------------------------------------------------------------
(* What makes the scraper right. *)

Listed(s) == {Bans[s][i] : i \in 1..listed[s]}

\* All that r says is what ban b says: no field has come from the record before it, or
\* from a cell that reads like a key. Only a ban whose player has no name may have got
\* one, the label that follows a name on a page of cells: if an admin or somebody who was
\* blocked is called "player", the label is the next record's name (parseDefault).
ComesFrom(r, b) ==
    /\ r.name = b.name \/ (b.name = Blank /\ r.name \in Labels)
    /\ Reported([b EXCEPT !.name = r.name])
    /\ r = Said([b EXCEPT !.name = r.name])

\* What the pages of cells have to keep to: no expiry reads like a key, nor does the
\* name of who lifted a ban that had expired, which stands above the key of the expiry.
PlainLists ==
    \A s \in Site : \A i \in 1..Len(Bans[s]) :
        /\ Bans[s][i].expires \notin Keys
        /\ Bans[s][i].length = "expired" => Bans[s][i].lifter \notin Keys

\* What a parser is to make of a page: rows that come from its bans, among them one
\* for each ban that is to be reported. It is about single pages, whatever becomes of
\* the rows.
PagesParsed ==
    \A s \in Site, t \in Theme : \A n \in 1..Len(Bans[s]) : \A p \in 1..PageCount(n) :
        /\ Parsed[s][t][n][p] \in Seq(Row)
        /\ \A b \in ToSet(PageBans(s, n, p)) : Reported(b) => Said(b) \in ToSet(Parsed[s][t][n][p])
        /\ \A r \in ToSet(Parsed[s][t][n][p]) : \E b \in ToSet(PageBans(s, n, p)) : ComesFrom(r, b)

\* A row is a ban of its own site's list, and says what that ban says.
RowsAreListed ==
    \A s \in Site : \A r \in bans[s] : \E b \in Listed(s) : ComesFrom(r, b)

\* The bans of a page that is kept.
Kept(s, u) == IF u # Home /\ cache[s][u] > 0 THEN ToSet(PageBans(s, cache[s][u], PageOf(u))) ELSE {}

\* What became of a ban that a walk has met: it is stored, still to be seen to, or
\* it was lost to a fault or to another site's goroutine, which registered the same
\* new player at that moment. And of those that lost the race somebody won it.
NoBanPassedOver ==
    \A s \in Site :
        /\ \A u \in walk[s].visited : \A b \in Kept(s, u) :
            Reported(b) => \/ Stored(s, Said(b))
                           \/ Said(b) \in ToSet(walk[s].todo) \union lost[s]
        /\ faults = 0 => \A r \in lost[s] : \E t \in Site \ {s} :
            \/ \E q \in bans[t] : q.sid = r.sid
            \/ At(t, "save") /\ Current(t).sid = r.sid

\* A site whose pages are kept as errors is not walked any further.
Barred(s) == \E u \in Addresses(s) : cache[s][u] = Denied

\* The bans a walk gets to: all that the site listed when its start page was kept.
\* On "skial" the second page's first link leads back, so its first two pages.
Reached(s) ==
    IF theme[s] = "skial"
    THEN UNION {Kept(s, u) : u \in Addresses(s)}
    ELSE {Bans[s][i] : i \in 1..cache[s][Start]}

\* Whatever a walk misses for a race, a fault or the time limit, a later one makes
\* up for from the pages that are kept. (What a site lists after its pages were
\* kept is never seen.)
EveryBanStored ==
    <>[](\A s \in Site :
            \/ Barred(s)
            \/ cache[s][Start] > 0 /\ \A b \in Reached(s) : Reported(b) => Stored(s, Said(b)))
=============================================================================
