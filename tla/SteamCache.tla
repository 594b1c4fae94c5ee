----------------------------- MODULE SteamCache -----------------------------
(***************************************************************************)
(* The file cache (src/cache.go) and the lookups that read Steam through   *)
(* it: getSteamSummaries, getSteamBans and getSteamFriends (src/steam.go), *)
(* for the handlers of the summaries and of the profiles.                  *)
(* A player's report has a file of its own. os.Create empties the file     *)
(* before it is written, nothing locks it and nothing renames it: readers  *)
(* meet empty files, and two writers may leave the short report of one     *)
(* followed by the tail of the other's long one ("torn": it does not       *)
(* decode). A crash between the two steps leaves an empty file as well.    *)
(*                                                                         *)
(* The kinds of report share no file; a behaviour is about one kind. A     *)
(* lookup of friends runs one goroutine for each player, and they share    *)
(* nothing: a friends lookup here has one player. Steam is external.       *)
(* Left out: the disabled cache (nopCache), which holds nothing.           *)
(***************************************************************************)
EXTENDS Naturals, FiniteSets

CONSTANTS
    Kind,       \* kinds of report: "summary", "bans", "friends"
    Sid,        \* steam ids
    Hidden,     \* players Steam says nothing about (gone, or friends private)
    Reader,     \* HTTP requests that look reports up
    Size,       \* lengths a report may have
    MaxAge,     \* age at which a file is expired (7 days)
    MaxTime,    \* the longest a lookup lasts (its context's or client's timeout)
    MaxNow,     \* bound: the clock
    MaxFaults   \* bound: calls that fail, crashes

ASSUME HiddenAssumption == Hidden \subseteq Sid
ASSUME SizeAssumption   == Size \subseteq Nat \ {0}
ASSUME TimeAssumption   == {MaxAge, MaxTime, MaxNow} \subseteq Nat
ASSUME FaultsAssumption == MaxFaults \in Nat

VARIABLES
    kind,       \* the kind this behaviour is about; never changes
    now,        \* the time
    file,       \* file[s]: the cache file of s: [torn, at, len, mtime]
    req,        \* req[r]: r's lookup
    faults      \* faults so far

vars == <<kind, now, file, req, faults>>

\* A report is known by the time Steam made it (at) and its length.
Report == [at : 0..MaxNow, len : Size]

NoFile == [torn |-> FALSE, at |-> 0, len |-> 0, mtime |-> 0]

\* since: when it began; ids: its players; todo: players not yet looked for in
\* the cache; missed: players to ask Steam for; got: its reports so far; new:
\* reports of Steam's not yet in the cache; open: the player whose file it has
\* emptied and not yet written; hit: a fault met it.
NoLookup ==
    [pc |-> "idle", since |-> 0, ids |-> {}, todo |-> {}, missed |-> {},
     got |-> <<>>, new |-> {}, open |-> {}, hit |-> FALSE]

TypeOK ==
    /\ kind \in Kind
    /\ now \in 0..MaxNow
    /\ \A s \in Sid :
        /\ file[s].torn \in BOOLEAN
        /\ {file[s].at, file[s].mtime} \subseteq 0..now
        /\ file[s].len \in Size \union {0}
    /\ \A r \in Reader :
        /\ req[r].pc \in {"idle", "cache", "steam", "store", "done", "error"}
        /\ req[r].ids \union req[r].todo \union req[r].missed \subseteq Sid
        /\ DOMAIN req[r].got \subseteq req[r].ids
        /\ \A s \in DOMAIN req[r].got : req[r].got[s] \in Report
        /\ req[r].open \subseteq req[r].new
        /\ req[r].new \subseteq DOMAIN req[r].got
    /\ faults \in 0..MaxFaults

Init ==
    /\ kind \in Kind
    /\ now = 0
    /\ file = [s \in Sid |-> NoFile]
    /\ req = [r \in Reader |-> NoLookup]
    /\ faults = 0

Fault ==
    /\ faults < MaxFaults
    /\ faults' = faults + 1

Set(r, q) == req' = [req EXCEPT ![r] = q]

----------------------------------------------------------------------------
(* fsCache. *)

\* Mutant: the age is not looked at.
FreshAtAnyAge(f) == f # NoFile

\* get: the file is there and was written less than MaxAge ago.
Fresh(f) == f # NoFile /\ now - f.mtime <= MaxAge

\* set, first half: os.Create. An empty file does not decode.
Truncated == [torn |-> TRUE, at |-> 0, len |-> 0, mtime |-> now]

\* Mutant: the file is opened for appending.
WrittenAtEnd(f, p) ==
    [torn |-> f.len > 0, at |-> p.at, len |-> f.len + p.len, mtime |-> now]

\* set, second half: the report is written from the file's first byte on, over
\* whatever another writer has put there since; a longer one's tail stays.
Written(f, p) ==
    [torn |-> f.len > p.len, at |-> p.at, len |-> IF f.len > p.len THEN f.len ELSE p.len,
     mtime |-> now]

----------------------------------------------------------------------------
(* The lookups. *)

Start(r) ==
    /\ req[r].pc = "idle"
    /\ \E ids \in (SUBSET Sid) \ {{}} :
        /\ kind = "friends" => Cardinality(ids) = 1
        /\ Set(r, [NoLookup EXCEPT !.pc = "cache", !.since = now, !.ids = ids, !.todo = ids])
    /\ UNCHANGED <<kind, now, file, faults>>

With(got, s, p) == [t \in DOMAIN got \union {s} |-> IF t = s THEN p ELSE got[t]]

\* Mutant: a file that does not decode is a hit without a report.
ReadTornAsHit(r) ==
    /\ req[r].pc = "cache"
    /\ kind # "friends"
    /\ \E s \in req[r].todo :
        LET f == file[s]
            q == [req[r] EXCEPT !.todo = @ \ {s}]
        IN  IF Fresh(f)
            THEN Set(r, IF ~f.torn THEN [q EXCEPT !.got = With(@, s, [at |-> f.at, len |-> f.len])]
                                      ELSE q)
            ELSE Set(r, [q EXCEPT !.missed = @ \union {s}])
    /\ UNCHANGED <<kind, now, file, faults>>

\* getSteamSummaries, getSteamBans: what does not decode counts as missed.
Read(r) ==
    /\ req[r].pc = "cache"
    /\ kind # "friends"
    /\ \E s \in req[r].todo :
        LET f == file[s]
            q == [req[r] EXCEPT !.todo = @ \ {s}]
        IN  IF Fresh(f) /\ ~f.torn
            THEN Set(r, [q EXCEPT !.got = With(@, s, [at |-> f.at, len |-> f.len])])
            ELSE Set(r, [q EXCEPT !.missed = @ \union {s}])
    /\ UNCHANGED <<kind, now, file, faults>>

\* getSteamFriends: a file that is there ends the lookup, and what was read from
\* it is dropped: output keeps its empty list.
ReadFriends(r) ==
    /\ req[r].pc = "cache"
    /\ kind = "friends"
    /\ \E s \in req[r].todo :
        LET q == [req[r] EXCEPT !.todo = {}] IN
        Set(r, IF Fresh(file[s]) THEN q ELSE [q EXCEPT !.missed = {s}])
    /\ UNCHANGED <<kind, now, file, faults>>

CacheDone(r) ==
    /\ req[r].pc = "cache"
    /\ req[r].todo = {}
    /\ Set(r, [req[r] EXCEPT !.pc = IF req[r].missed = {} THEN "done" ELSE "steam"])
    /\ UNCHANGED <<kind, now, file, faults>>

\* One call for all that were missed.
AskSteam(r) ==
    LET known == req[r].missed \ Hidden IN
    /\ req[r].pc = "steam"
    /\ \E len \in [known -> Size] :
        Set(r, [req[r] EXCEPT
            !.pc = "store",
            !.new = known,
            !.got = [s \in DOMAIN @ \union known |->
                        IF s \in known THEN [at |-> now, len |-> len[s]] ELSE @[s]]])
    /\ UNCHANGED <<kind, now, file, faults>>

\* An error of Steam's fails a lookup with all its hits; friends stay empty.
SteamFails(r) ==
    /\ req[r].pc = "steam"
    /\ Fault
    /\ Set(r, [req[r] EXCEPT !.pc = IF kind = "friends" THEN "done" ELSE "error",
                             !.hit = TRUE])
    /\ UNCHANGED <<kind, now, file>>

Create(r) ==
    /\ req[r].pc = "store"
    /\ req[r].open = {}
    /\ \E s \in req[r].new :
        /\ file' = [file EXCEPT ![s] = Truncated]
        /\ Set(r, [req[r] EXCEPT !.open = {s}])
    /\ UNCHANGED <<kind, now, faults>>

Write(r) ==
    /\ req[r].pc = "store"
    /\ \E s \in req[r].open :
        /\ file' = [file EXCEPT ![s] = Written(@, req[r].got[s])]
        /\ Set(r, [req[r] EXCEPT !.new = @ \ {s}, !.open = {}])
    /\ UNCHANGED <<kind, now, faults>>

\* An error of set is logged: the report is not in the cache, or its file is empty.
SetFails(r) ==
    /\ req[r].pc = "store"
    /\ Fault
    /\ \E s \in IF req[r].open = {} THEN req[r].new ELSE req[r].open :
        Set(r, [req[r] EXCEPT !.new = @ \ {s}, !.open = {}])
    /\ UNCHANGED <<kind, now, file>>

Stored(r) ==
    /\ req[r].pc = "store"
    /\ req[r].new = {}
    /\ Set(r, [req[r] EXCEPT !.pc = "done"])
    /\ UNCHANGED <<kind, now, file, faults>>

\* handleGetSummary: as many summaries as players, or status 400.
SummaryAnswered(r) == req[r].pc = "done" /\ DOMAIN req[r].got = req[r].ids

\* loadProfiles, handleGetProfile: one summary at least, or status 500. (Every other
\* source that fails, the bans among them, leaves its part of the profiles empty.)
ProfileAnswered(r) == req[r].pc = "done" /\ DOMAIN req[r].got # {}

\* The answer is on its way to the client.
Return(r) ==
    /\ req[r].pc \in {"done", "error"}
    /\ Set(r, NoLookup)
    /\ UNCHANGED <<kind, now, file, faults>>

----------------------------------------------------------------------------

\* The process dies, the files stay.
Crash ==
    /\ Fault
    /\ req' = [r \in Reader |-> NoLookup]
    /\ UNCHANGED <<kind, now, file>>

\* A lookup ends within MaxTime.
Tick ==
    /\ now < MaxNow
    /\ \A r \in Reader : req[r].pc # "idle" => now - req[r].since < MaxTime
    /\ now' = now + 1
    /\ UNCHANGED <<kind, file, req, faults>>

Next ==
    \/ \E r \in Reader :
        \/ Start(r)
        \/ Read(r)
        \/ ReadFriends(r)
        \/ CacheDone(r)
        \/ AskSteam(r)
        \/ SteamFails(r)
        \/ Create(r)
        \/ Write(r)
        \/ SetFails(r)
        \/ Stored(r)
        \/ Return(r)
    \/ Crash
    \/ Tick

Spec == Init /\ [][Next]_vars

----------------------------------------------------------------------------
(* What makes the answers right. *)

\* A lookup that ends has a report for every player Steam knows, of those who were
\* asked for. An empty or torn file that a crash, a full disk or another request left
\* behind is fetched again, it never stands for the report; and when Steam fails, no
\* profile is made up of the summaries that were in the cache. But only then is nobody
\* answered, or when Steam knows too few of them for the handler.
AnswerComplete ==
    \A r \in Reader : kind # "friends" =>
        /\ req[r].pc = "done" => DOMAIN req[r].got = req[r].ids \ Hidden
        /\ kind = "summary" /\ req[r].pc \in {"done", "error"} =>
            /\ SummaryAnswered(r) <=> ~req[r].hit /\ req[r].ids \intersect Hidden = {}
            /\ ProfileAnswered(r) <=> ~req[r].hit /\ req[r].ids \ Hidden # {}

\* No answer is older than the cache's age and one lookup: the file's time is that
\* of its last write, and a slow writer may put an older report over a newer one.
AnswerFresh ==
    \A r \in Reader : \A s \in DOMAIN req[r].got :
        req[r].since - req[r].got[s].at <= MaxAge + MaxTime

\* docs/API.md:40-41: friends "will return a empty list when users set their
\* profiles to private" - so one that no fault met is not empty for the others.
FriendsListed ==
    \A r \in Reader :
        req[r].pc = "done" /\ ~req[r].hit /\ kind = "friends"
            => DOMAIN req[r].got = req[r].ids \ Hidden
=============================================================================
