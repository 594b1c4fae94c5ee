------------------------------ MODULE APIProofs ------------------------------
(***************************************************************************)
(* For any number of requests, players, games and reports, any ages and    *)
(* any clock: the types of the three caches behind the API, that a lookup  *)
(* of Steam's reports is complete, that no answer is older than it may be, *)
(* and that no list of games is cut short.                                 *)
(***************************************************************************)
EXTENDS API, TLAPS

----------------------------------------------------------------------------
(* The inductive invariant: the file cache. *)

FileState == [torn : BOOLEAN, at : 0..MaxNow, len : Nat, mtime : 0..MaxNow]

Reports == UNION {[D -> Report] : D \in SUBSET Sid}

Lookup ==
    [pc     : {"idle", "cache", "steam", "store", "done", "error"},
     since  : 0..MaxNow,
     ids    : SUBSET Sid,
     todo   : SUBSET Sid,
     missed : SUBSET Sid,
     got    : Reports,
     new    : SUBSET Sid,
     open   : SUBSET Sid,
     hit    : BOOLEAN]

\* A lookup lasts MaxTime at most, and what it asked Steam for is as old as it can be.
Timely(q) ==
    /\ q.pc # "idle" => q.since <= now /\ now - q.since <= MaxTime
    /\ \A s \in q.new : q.since <= q.got[s].at /\ q.got[s].at <= now

Young(q) == \A s \in DOMAIN q.got : q.since - q.got[s].at <= MaxAge + MaxTime

\* Nobody is forgotten: who is asked for and not hidden is to be looked for in the
\* cache, or to be asked for, or has been found. What is told of one of the others
\* would be made up.
Accounted(q) ==
    /\ q.pc = "idle" => q = NoLookup
    /\ q.todo \subseteq q.ids /\ q.missed \subseteq q.ids
    /\ q.open \subseteq q.new /\ q.new \subseteq DOMAIN q.got
    /\ q.new # {} => q.pc = "store"
    /\ DOMAIN q.got \subseteq q.ids \ Hidden
    /\ kind # "friends" =>
        /\ q.hit <=> q.pc = "error"
        /\ q.pc = "cache" => q.ids \subseteq q.todo \union q.missed \union DOMAIN q.got
        /\ q.pc = "steam" => q.ids \subseteq q.missed \union DOMAIN q.got
        /\ q.pc \in {"store", "done"} => q.ids \ Hidden \subseteq DOMAIN q.got

LookupInv(q) ==
    /\ q \in Lookup
    /\ Timely(q)
    /\ Young(q)
    /\ Accounted(q)

\* A report in a file was made one lookup before the file was written, at most.
FileInv(s, f) ==
    /\ f \in FileState
    /\ f.at <= now /\ f.mtime <= now /\ f.len \in Size \union {0}
    /\ ~f.torn => f = NoFile \/ (f.len \in Size /\ f.mtime - f.at <= MaxTime)
    /\ s \in Hidden => f = NoFile

SteamInv ==
    /\ kind \in Kind /\ now \in 0..MaxNow /\ faults \in 0..MaxFaults
    /\ file \in [Sid -> FileState] /\ \A s \in Sid : FileInv(s, file[s])
    /\ req \in [Reader -> Lookup] /\ \A r \in Reader : LookupInv(req[r])

----------------------------------------------------------------------------
(* ... the statistics. *)

\* A request lasts MaxTime at most, what it loaded is no older than the request, and
\* what is kept was stored one request after it was loaded, at most. Whoever is about
\* to read what is kept finds something that is fresh for him.
StatsInv ==
    /\ Stats!TypeOK
    /\ stats # Stats!None => updated - stats <= MaxTime
    /\ \A c \in Reader :
        /\ statsCall[c].pc # "idle" => now - statsCall[c].since <= MaxTime
        /\ statsCall[c].pc = "store" =>
            statsCall[c].new # Stats!None /\ statsCall[c].since <= statsCall[c].new
        /\ statsCall[c].pc = "read" =>
            stats # Stats!None /\ statsCall[c].since - stats <= MaxAge + MaxTime
    /\ Stats!StatsFresh

----------------------------------------------------------------------------
(* ... the owned games. *)

Row == [Game -> 0..MaxNow + 1]

GamesCall ==
    [pc     : {"idle", "ensure", "query", "ask", "save", "done", "error"},
     update : BOOLEAN,
     ids    : SUBSET Owner,
     left   : SUBSET Owner,
     cur    : SUBSET Owner,
     asked  : 0..MaxNow,
     new    : SUBSET Game,
     open   : SUBSET Game,
     got    : [Owner -> Row],
     half   : SUBSET Owner]

\* What a request has registered is there. An update lasts MaxTime at most; of the
\* games that its player had when Steam was asked, those that are not to be stored any
\* more have a row.
Thorough(q) ==
    /\ q.pc \in {"query", "ask", "save", "done"} => q.ids \subseteq player
    /\ q.open \subseteq q.new /\ q.open \subseteq game
    /\ q.pc # "save" => q.cur = {} /\ q.new = {}
    /\ \A s, t \in q.cur : s = t
    /\ q.pc = "save" =>
        /\ q.asked <= now /\ now - q.asked <= MaxTime
        /\ \A s \in q.cur, g \in Game :
            bought[s][g] < q.asked => g \in q.new \/ g \in Games!Rows(owned[s])

\* What a request was told of a player is complete, unless it read his rows while they
\* were not all there; and all of it is of the past.
Told(q) ==
    /\ q.left \union q.cur \union q.half \subseteq q.ids
    /\ \A s \in q.ids \ q.half : Games!Complete(s, q.got[s])
    /\ \A s \in Owner : \A g \in Games!Rows(q.got[s]) : q.got[s][g] <= now

CallInv(q) ==
    /\ q \in GamesCall
    /\ Thorough(q)
    /\ Told(q)

TablesInv ==
    /\ now \in 0..MaxNow /\ faults \in 0..MaxFaults
    /\ bought \in [Owner -> [Game -> 0..now \union {Games!Never}]]
    /\ owned \in [Owner -> [Game -> 0..now \union {Games!Never}]]
    /\ player \subseteq Owner /\ game \subseteq Game /\ cut \subseteq Owner
    /\ \A s \in Owner :
        Games!Rows(owned[s]) # {} => s \in player /\ Games!Rows(owned[s]) \subseteq game

\* The rows of a player whom nobody updates, and whose last update was not cut short,
\* are complete.
RowsComplete ==
    \A s \in Owner : s \notin cut /\ ~Games!Updating(s) => Games!Complete(s, owned[s])

GamesInv ==
    /\ TablesInv
    /\ gamesCall \in [Reader -> GamesCall] /\ \A c \in Reader : CallInv(gamesCall[c])
    /\ RowsComplete

----------------------------------------------------------------------------
(* ... and the three of them. *)

\* The parts that the behaviour is not about do nothing.
OthersIdle ==
    /\ part # "steam" => \A r \in Reader : req[r] = NoLookup
    /\ part # "stats" => \A r \in Reader : statsCall[r] = Stats!NoCall
    /\ part # "games" => \A r \in Reader : gamesCall[r] = Games!NoCall

IInv ==
    /\ part \in {"steam", "games", "stats"}
    /\ SteamInv
    /\ StatsInv
    /\ GamesInv
    /\ OthersIdle

----------------------------------------------------------------------------
(* The statistics. *)

StatsCall ==
    [pc    : {"idle", "load", "store", "read", "done", "error"},
     since : 0..now,
     new   : Stats!Time]

LEMMA StatsInit == ASSUME Stats!Init PROVE StatsInv
<1>1. /\ Stats!NoCall = [pc |-> "idle", since |-> 0, new |-> Stats!None]
      /\ Stats!None \in Stats!Time /\ 0 \in 0..now
    BY TimeAssumption DEF Stats!Init, Stats!NoCall, Stats!Time
<1>2. Stats!TypeOK
    BY <1>1, TimeAssumption, FaultsAssumption DEF Stats!Init, Stats!TypeOK
<1>3. \A c \in Reader : statsCall[c].pc = "idle"
    BY <1>1 DEF Stats!Init
<1>4. QED
    BY <1>2, <1>3 DEF Stats!Init, StatsInv, Stats!StatsFresh

\* A step of one request: what it has to show for itself and for what is kept.
LEMMA StatsCallStep ==
    ASSUME StatsInv, NEW c \in Reader, NEW q \in StatsCall, Stats!Set(c, q), UNCHANGED now,
           UNCHANGED faults \/ Stats!Fault,
           \/ UNCHANGED <<stats, updated>>
           \/ updated' = now /\ stats' \in 0..now /\ now - stats' <= MaxTime,
           q.pc # "idle" => now - q.since <= MaxTime,
           q.pc = "store" => q.new # Stats!None /\ q.since <= q.new,
           q.pc = "read" => stats' # Stats!None /\ q.since - stats' <= MaxAge + MaxTime,
           q.pc = "done" => q.new # Stats!None /\ q.since - q.new <= MaxAge + MaxTime
    PROVE  StatsInv'
<1> USE TimeAssumption, FaultsAssumption DEF StatsInv
<1>1. /\ now \in Nat /\ stats \in Stats!Time /\ updated \in Stats!Time /\ now <= MaxNow
      /\ statsCall \in [Reader -> StatsCall]
    BY DEF Stats!TypeOK, StatsCall
<1>2. /\ statsCall' = [statsCall EXCEPT ![c] = q] /\ statsCall' \in [Reader -> StatsCall]
      /\ statsCall'[c] = q /\ \A d \in Reader \ {c} : statsCall'[d] = statsCall[d]
    BY <1>1 DEF Stats!Set
<1>3. faults' \in 0..MaxFaults
    BY DEF Stats!Fault, Stats!TypeOK
<1>4. Stats!TypeOK'
    BY <1>1, <1>2, <1>3 DEF Stats!TypeOK, Stats!Time, Stats!None, StatsCall
<1>5. stats' # Stats!None => updated' - stats' <= MaxTime
    BY <1>1 DEF Stats!None
<1>6. \A d \in Reader :
        /\ statsCall'[d].pc # "idle" => now' - statsCall'[d].since <= MaxTime
        /\ statsCall'[d].pc = "store" =>
            statsCall'[d].new # Stats!None /\ statsCall'[d].since <= statsCall'[d].new
    BY <1>2
<1>7. ASSUME NEW d \in Reader, statsCall'[d].pc = "read"
      PROVE  stats' # Stats!None /\ statsCall'[d].since - stats' <= MaxAge + MaxTime
    <2>1. CASE d = c
        BY <1>2, <1>7, <2>1
    <2>2. CASE d # c /\ UNCHANGED stats
        BY <1>2, <1>7, <2>2
    <2>3. CASE d # c /\ stats' \in 0..now /\ now - stats' <= MaxTime
        BY <1>1, <1>2, <2>3 DEF Stats!None, StatsCall
    <2>4. QED
        BY <2>1, <2>2, <2>3
<1>8. Stats!StatsFresh'
    BY <1>2 DEF Stats!StatsFresh
<1>9. QED
    BY <1>4, <1>5, <1>6, <1>7, <1>8

LEMMA StatsStep == ASSUME StatsInv, Stats!Next PROVE StatsInv'
<1> USE TimeAssumption, FaultsAssumption
<1>1. /\ now \in Nat /\ now <= MaxNow /\ stats \in Stats!Time /\ updated \in Stats!Time
      /\ updated = Stats!None <=> stats = Stats!None
      /\ stats # Stats!None => updated - stats <= MaxTime
      /\ statsCall \in [Reader -> StatsCall]
      /\ Stats!None \in Stats!Time /\ now \in Stats!Time /\ \A t \in 0..now : t \in Stats!Time /\ t # Stats!None
      /\ \A t \in Stats!Time : t # Stats!None => t \in 0..now
    BY DEF StatsInv, Stats!TypeOK, StatsCall, Stats!Time, Stats!None
<1>2. \A c \in Reader :
        /\ statsCall[c].pc # "idle" => now - statsCall[c].since <= MaxTime
        /\ statsCall[c].pc = "store" =>
            statsCall[c].new # Stats!None /\ statsCall[c].since <= statsCall[c].new
        /\ statsCall[c].pc = "read" =>
            stats # Stats!None /\ statsCall[c].since - stats <= MaxAge + MaxTime
    BY DEF StatsInv
<1>3. ASSUME NEW c \in Reader, Stats!Look(c) PROVE StatsInv'
    <2> DEFINE pc == IF Stats!Expired THEN "load" ELSE "read"
               q == [Stats!NoCall EXCEPT !.since = now, !.pc = pc]
    <2>1. Stats!Set(c, q) /\ UNCHANGED <<now, stats, updated, faults>>
        BY <1>3 DEF Stats!Look, Stats!Set
    <2>2. pc \in {"load", "read"} /\ (pc = "read" => ~Stats!Expired)
        OBVIOUS
    <2>3. ~Stats!Expired => stats # Stats!None /\ now - stats <= MaxAge + MaxTime
        BY <1>1 DEF Stats!Expired
    <2> HIDE DEF pc
    <2>4. q \in StatsCall /\ q.pc = pc /\ q.since = now
        <3>1. Stats!NoCall \in StatsCall
            BY <1>1 DEF StatsCall, Stats!NoCall
        <3>2. now \in 0..now
            BY <1>1
        <3>3. QED
            BY <2>2, <3>1, <3>2 DEF StatsCall
    <2>5. /\ q.pc # "idle" => now - q.since <= MaxTime
          /\ q.pc = "read" => stats # Stats!None /\ q.since - stats <= MaxAge + MaxTime
          /\ q.pc # "store" /\ q.pc # "done"
        BY <1>1, <2>2, <2>3, <2>4
    <2>6. QED
        BY <2>1, <2>4, <2>5, StatsCallStep
<1>4. ASSUME NEW c \in Reader, Stats!Load(c) PROVE StatsInv'
    <2> DEFINE q == [statsCall[c] EXCEPT !.pc = "store", !.new = now]
    <2>1. Stats!Set(c, q) /\ UNCHANGED <<now, stats, updated, faults>>
        BY <1>4 DEF Stats!Load, Stats!Set
    <2>2. q \in StatsCall /\ q.pc = "store" /\ q.new = now /\ q.since = statsCall[c].since
        BY <1>1 DEF StatsCall
    <2>3. now - q.since <= MaxTime /\ q.new # Stats!None /\ q.since <= q.new
        BY <1>1, <1>2, <1>4, <2>2 DEF Stats!Load, StatsCall
    <2>4. QED
        BY <2>1, <2>2, <2>3, StatsCallStep
<1>5. ASSUME NEW c \in Reader, Stats!LoadFails(c) PROVE StatsInv'
    <2> DEFINE q == [statsCall[c] EXCEPT !.pc = "error", !.new = Stats!None]
    <2>1. Stats!Set(c, q) /\ UNCHANGED <<now, stats, updated>> /\ Stats!Fault
        BY <1>5 DEF Stats!LoadFails, Stats!Set
    <2>2. q \in StatsCall /\ q.pc = "error" /\ q.since = statsCall[c].since
        BY <1>1 DEF StatsCall
    <2>3. now - q.since <= MaxTime
        BY <1>2, <1>5, <2>2 DEF Stats!LoadFails
    <2>4. QED
        BY <2>1, <2>2, <2>3, StatsCallStep
<1>6. ASSUME NEW c \in Reader, Stats!Store(c) PROVE StatsInv'
    <2> DEFINE q == [statsCall[c] EXCEPT !.pc = "read", !.new = Stats!None]
    <2>1. /\ Stats!Set(c, q) /\ UNCHANGED <<now, faults>>
          /\ updated' = now /\ stats' = statsCall[c].new
        BY <1>6 DEF Stats!Store, Stats!Set
    <2>2. q \in StatsCall /\ q.pc = "read" /\ q.since = statsCall[c].since
        BY <1>1 DEF StatsCall
    <2>3. /\ statsCall[c].new \in 0..now /\ now - statsCall[c].since <= MaxTime
          /\ statsCall[c].since <= statsCall[c].new /\ statsCall[c].since \in 0..now
        BY <1>1, <1>2, <1>6 DEF Stats!Store, StatsCall
    <2>4. /\ now - stats' <= MaxTime /\ stats' # Stats!None /\ stats' \in 0..now
          /\ now - q.since <= MaxTime /\ q.since - stats' <= MaxAge + MaxTime
        BY <1>1, <2>1, <2>2, <2>3
    <2>5. QED
        BY <2>1, <2>2, <2>4, StatsCallStep
<1>7. ASSUME NEW c \in Reader, Stats!Read(c) PROVE StatsInv'
    <2> DEFINE q == [statsCall[c] EXCEPT !.pc = "done", !.new = stats]
    <2>1. Stats!Set(c, q) /\ UNCHANGED <<now, stats, updated, faults>>
        BY <1>7 DEF Stats!Read, Stats!Set
    <2>2. q \in StatsCall /\ q.pc = "done" /\ q.new = stats /\ q.since = statsCall[c].since
        BY <1>1 DEF StatsCall
    <2>3. /\ now - q.since <= MaxTime /\ q.new # Stats!None
          /\ q.since - q.new <= MaxAge + MaxTime
        BY <1>2, <1>7, <2>2 DEF Stats!Read
    <2>4. QED
        BY <2>1, <2>2, <2>3, StatsCallStep
<1>8. ASSUME NEW c \in Reader, Stats!Return(c) PROVE StatsInv'
    <2>1. Stats!Set(c, Stats!NoCall) /\ UNCHANGED <<now, stats, updated, faults>>
        BY <1>8 DEF Stats!Return, Stats!Set
    <2>2. Stats!NoCall \in StatsCall /\ Stats!NoCall.pc = "idle"
        BY <1>1 DEF StatsCall, Stats!NoCall
    <2>3. QED
        BY <2>1, <2>2, StatsCallStep
<1>9. CASE Stats!Restart
    <2>1. /\ stats' = Stats!None /\ updated' = Stats!None /\ now' = now
          /\ statsCall' = [c \in Reader |-> Stats!NoCall]
        BY <1>9 DEF Stats!Restart
    <2>2. Stats!NoCall \in StatsCall /\ Stats!NoCall.pc = "idle"
        BY <1>1 DEF StatsCall, Stats!NoCall
    <2>3. faults' \in 0..MaxFaults
        BY <1>9 DEF Stats!Restart, Stats!Fault, StatsInv, Stats!TypeOK
    <2>4. Stats!TypeOK'
        BY <1>1, <2>1, <2>2, <2>3 DEF StatsInv, Stats!TypeOK, Stats!Time, Stats!None, StatsCall
    <2>5. QED
        BY <2>1, <2>2, <2>4 DEF StatsInv, Stats!StatsFresh
<1>10. CASE Stats!Tick
    <2>1. /\ now' = now + 1 /\ now' \in 0..MaxNow
          /\ UNCHANGED <<stats, updated, statsCall, faults>>
          /\ \A c \in Reader : statsCall[c].pc # "idle" => now - statsCall[c].since < MaxTime
        BY <1>1, <1>10 DEF Stats!Tick
    <2>2. Stats!TypeOK'
        BY <1>1, <2>1 DEF StatsInv, Stats!TypeOK, Stats!Time, Stats!None
    <2>3. \A c \in Reader : statsCall[c].pc # "idle" => now' - statsCall[c].since <= MaxTime
        BY <1>1, <2>1 DEF StatsCall
    <2>4. QED
        BY <2>1, <2>2, <2>3 DEF StatsInv, Stats!StatsFresh, Stats!None
<1>11. QED
    BY <1>3, <1>4, <1>5, <1>6, <1>7, <1>8, <1>9, <1>10 DEF Stats!Next

\* A step of another part: the clock and the faults may go on.
LEMMA StatsRest ==
    ASSUME StatsInv, \A c \in Reader : statsCall[c] = Stats!NoCall,
           UNCHANGED kept, now' \in now..MaxNow, faults' \in 0..MaxFaults
    PROVE  StatsInv'
<1> USE TimeAssumption, FaultsAssumption
<1>1. UNCHANGED <<stats, updated, statsCall>>
    BY DEF kept
<1>2. \A c \in Reader : statsCall[c].pc = "idle"
    BY DEF Stats!NoCall
<1>3. Stats!TypeOK'
    BY <1>1 DEF StatsInv, Stats!TypeOK, Stats!Time, Stats!None
<1>4. QED
    BY <1>1, <1>2, <1>3 DEF StatsInv, Stats!StatsFresh, Stats!None

----------------------------------------------------------------------------
(* The file cache. *)

LEMMA NothingLookedUp == NoLookup \in Lookup /\ NoLookup.pc = "idle" /\ LookupInv(NoLookup)
<1>1. <<>> \in Reports /\ DOMAIN <<>> = {}
    <2>1. <<>> \in [{} -> Report]
        OBVIOUS
    <2>2. QED
        BY <2>1 DEF Reports
<1>2. NoLookup \in Lookup /\ NoLookup.pc = "idle" /\ NoLookup.got = <<>>
    BY <1>1, TimeAssumption DEF NoLookup, Lookup
<1>3. /\ NoLookup.ids = {} /\ NoLookup.todo = {} /\ NoLookup.missed = {} /\ NoLookup.new = {}
      /\ NoLookup.open = {} /\ ~NoLookup.hit
    BY DEF NoLookup
<1>4. Timely(NoLookup) /\ Young(NoLookup) /\ Accounted(NoLookup)
    BY <1>1, <1>2, <1>3 DEF Timely, Young, Accounted
<1>5. QED
    BY <1>2, <1>4 DEF LookupInv

LEMMA SteamInit == ASSUME Init PROVE SteamInv
<1> USE TimeAssumption, FaultsAssumption DEF Init
<1>1. \A s \in Sid : FileInv(s, NoFile)
    BY DEF FileInv, NoFile, FileState
<1>2. QED
    BY <1>1, NothingLookedUp DEF SteamInv, FileInv

\* A step of one lookup, and maybe of one file.
LEMMA LookupStep ==
    ASSUME SteamInv, NEW r \in Reader, NEW q, LookupInv(q), Set(r, q), UNCHANGED <<kind, now>>,
           UNCHANGED faults \/ Fault,
           \/ UNCHANGED file
           \/ \E s \in Sid, f \in FileState : FileInv(s, f) /\ file' = [file EXCEPT ![s] = f]
    PROVE  SteamInv'
<1>1. req' \in [Reader -> Lookup] /\ \A t \in Reader : LookupInv(req'[t])
    BY DEF SteamInv, Set, LookupInv
<1>2. file' \in [Sid -> FileState] /\ \A s \in Sid : FileInv(s, file'[s])
    BY DEF SteamInv
<1>3. faults' \in 0..MaxFaults
    BY FaultsAssumption DEF SteamInv, Fault
<1>4. \A t : LookupInv(t)' <=> LookupInv(t)
    BY DEF LookupInv, Timely, Young, Accounted
<1>5. \A s, f : FileInv(s, f)' <=> FileInv(s, f)
    BY DEF FileInv
<1>6. QED
    BY <1>1, <1>2, <1>3, <1>4, <1>5 DEF SteamInv

LEMMA WithReport ==
    ASSUME NEW got \in Reports, NEW s \in Sid, NEW p \in Report
    PROVE  /\ With(got, s, p) \in Reports
           /\ DOMAIN With(got, s, p) = DOMAIN got \union {s}
           /\ With(got, s, p)[s] = p
           /\ \A t \in DOMAIN got \ {s} : With(got, s, p)[t] = got[t]
<1>1. PICK D \in SUBSET Sid : got \in [D -> Report]
    BY DEF Reports
<1>2. With(got, s, p) \in [D \union {s} -> Report]
    BY <1>1 DEF With
<1>3. QED
    BY <1>1, <1>2 DEF With, Reports

\* The shape of a lookup that has begun.
LEMMA Begun ==
    ASSUME NEW q, LookupInv(q), q.pc # "idle"
    PROVE  /\ q \in Lookup /\ q.since <= now /\ now - q.since <= MaxTime /\ q.since \in Nat
           /\ q.got \in Reports
BY TimeAssumption DEF LookupInv, Timely, Lookup

LEMMA StartStep == ASSUME SteamInv, NEW r \in Reader, Start(r) PROVE SteamInv'
<1>1. PICK ids \in SUBSET Sid :
        Set(r, [NoLookup EXCEPT !.pc = "cache", !.since = now, !.ids = ids, !.todo = ids])
    BY DEF Start
<1> DEFINE q == [NoLookup EXCEPT !.pc = "cache", !.since = now, !.ids = ids, !.todo = ids]
<1>2. now \in 0..MaxNow
    BY DEF SteamInv
<1>3. /\ q \in Lookup /\ q.pc = "cache" /\ q.since = now /\ q.ids = ids /\ q.todo = ids
      /\ q.missed = NoLookup.missed /\ q.got = NoLookup.got /\ q.new = NoLookup.new
      /\ q.open = NoLookup.open /\ q.hit = NoLookup.hit
    BY <1>2, NothingLookedUp DEF Lookup
<1>4. /\ NoLookup.missed = {} /\ NoLookup.new = {} /\ NoLookup.open = {} /\ ~NoLookup.hit
      /\ DOMAIN NoLookup.got = {}
    BY DEF NoLookup
<1> HIDE DEF q
<1>5. Timely(q) /\ Young(q) /\ Accounted(q)
    BY <1>2, <1>3, <1>4, TimeAssumption DEF Timely, Young, Accounted
<1>6. LookupInv(q) /\ Set(r, q)
    BY <1>1, <1>3, <1>5 DEF LookupInv, q
<1>7. QED
    BY <1>6, LookupStep DEF Start

\* A file that is fresh and decodes has a report that is no older than a file may
\* be and the lookup that wrote it.
LEMMA ReadStep == ASSUME SteamInv, NEW r \in Reader, Read(r) PROVE SteamInv'
<1>1. PICK s \in req[r].todo :
        LET f == file[s]
            q == [req[r] EXCEPT !.todo = @ \ {s}]
        IN  IF Fresh(f) /\ ~f.torn
            THEN Set(r, [q EXCEPT !.got = With(@, s, [at |-> f.at, len |-> f.len])])
            ELSE Set(r, [q EXCEPT !.missed = @ \union {s}])
    BY DEF Read
<1> DEFINE f == file[s]
           old == req[r]
           q0 == [old EXCEPT !.todo = @ \ {s}]
           p == [at |-> f.at, len |-> f.len]
           q1 == [q0 EXCEPT !.got = With(@, s, p)]
           q2 == [q0 EXCEPT !.missed = @ \union {s}]
<1>2. /\ old.pc = "cache" /\ UNCHANGED <<kind, now, file, faults>> /\ LookupInv(old)
      /\ old \in Lookup /\ s \in Sid /\ FileInv(s, f) /\ now \in 0..MaxNow
    BY DEF Read, SteamInv, Lookup
<1>3. q0 \in Lookup
    BY <1>2 DEF Lookup
<1>4. CASE Fresh(f) /\ ~f.torn
    <2>1. p \in Report /\ s \notin Hidden /\ now - p.at <= MaxAge + MaxTime /\ p.at \in Nat
        <3>1. /\ f.at \in 0..MaxNow /\ f.mtime \in 0..MaxNow /\ f.len \in Size /\ s \notin Hidden
              /\ f.mtime - f.at <= MaxTime /\ now - f.mtime <= MaxAge
            BY <1>2, <1>4 DEF FileInv, FileState, Fresh
        <3>2. QED
            BY <1>2, <3>1, TimeAssumption DEF Report
    <2> HIDE DEF p
    <2>2. /\ With(old.got, s, p) \in Reports
          /\ DOMAIN With(old.got, s, p) = DOMAIN old.got \union {s}
          /\ With(old.got, s, p)[s] = p
          /\ \A t \in DOMAIN old.got \ {s} : With(old.got, s, p)[t] = old.got[t]
        <3>1. old.got \in Reports
            BY <1>2 DEF Lookup
        <3>2. QED
            BY <1>2, <2>1, <3>1, WithReport, ZenonT(40)
    <2>3. /\ q1 \in Lookup /\ q1.pc = old.pc /\ q1.since = old.since /\ q1.ids = old.ids
          /\ q1.todo = old.todo \ {s} /\ q1.missed = old.missed
          /\ q1.got = With(old.got, s, p)
          /\ q1.new = old.new /\ q1.open = old.open /\ q1.hit = old.hit
        BY <1>2, <1>3, <2>2 DEF Lookup
    <2> HIDE DEF q1
    <2>4. Timely(q1)
        BY <1>2, <2>2, <2>3 DEF LookupInv, Timely, Accounted
    <2>5. Young(q1)
        <3>1. old.since <= now /\ old.since \in Nat /\ now \in Nat
            BY <1>2, Begun
        <3>2. old.since - p.at <= MaxAge + MaxTime
            BY <2>1, <3>1, TimeAssumption
        <3>3. QED
            BY <1>2, <2>2, <2>3, <3>2 DEF LookupInv, Young
    <2>6. Accounted(q1)
        BY <1>2, <2>1, <2>2, <2>3 DEF LookupInv, Accounted
    <2>7. LookupInv(q1) /\ Set(r, q1)
        BY <1>1, <1>4, <2>3, <2>4, <2>5, <2>6 DEF LookupInv, q1, p
    <2>8. QED
        BY <1>2, <2>7, LookupStep
<1>5. CASE ~(Fresh(f) /\ ~f.torn)
    <2>1. /\ q2 \in Lookup /\ q2.pc = old.pc /\ q2.since = old.since /\ q2.ids = old.ids
          /\ q2.todo = old.todo \ {s} /\ q2.missed = old.missed \union {s}
          /\ q2.got = old.got
          /\ q2.new = old.new /\ q2.open = old.open /\ q2.hit = old.hit
        BY <1>2, <1>3 DEF Lookup
    <2> HIDE DEF q2
    <2>2. Timely(q2) /\ Young(q2) /\ Accounted(q2)
        BY <1>2, <2>1 DEF LookupInv, Timely, Young, Accounted
    <2>3. LookupInv(q2) /\ Set(r, q2)
        BY <1>1, <1>5, <2>1, <2>2 DEF LookupInv, q2
    <2>4. QED
        BY <1>2, <2>3, LookupStep
<1>6. QED
    BY <1>4, <1>5

LEMMA ReadFriendsStep == ASSUME SteamInv, NEW r \in Reader, ReadFriends(r) PROVE SteamInv'
<1>1. PICK s \in req[r].todo :
        LET q == [req[r] EXCEPT !.todo = {}] IN
        Set(r, IF Fresh(file[s]) THEN q ELSE [q EXCEPT !.missed = {s}])
    BY DEF ReadFriends
<1> DEFINE old == req[r]
           q1 == [old EXCEPT !.todo = {}]
           q2 == [q1 EXCEPT !.missed = {s}]
<1>2. /\ old.pc = "cache" /\ kind = "friends" /\ UNCHANGED <<kind, now, file, faults>>
      /\ LookupInv(old) /\ old \in Lookup /\ s \in Sid
    BY DEF ReadFriends, SteamInv, Lookup
<1>3. /\ q1 \in Lookup /\ q1.pc = old.pc /\ q1.since = old.since /\ q1.ids = old.ids
      /\ q1.todo = {} /\ q1.missed = old.missed /\ q1.got = old.got
      /\ q1.new = old.new /\ q1.open = old.open /\ q1.hit = old.hit
    BY <1>2 DEF Lookup
<1>4. /\ q2 \in Lookup /\ q2.pc = old.pc /\ q2.since = old.since /\ q2.ids = old.ids
      /\ q2.todo = {} /\ q2.missed = {s} /\ q2.got = old.got
      /\ q2.new = old.new /\ q2.open = old.open /\ q2.hit = old.hit
    BY <1>2, <1>3 DEF Lookup
<1>5. Set(r, q1) \/ Set(r, q2)
    BY <1>1
<1> HIDE DEF q1, q2
<1>6. LookupInv(q1) /\ LookupInv(q2)
    BY <1>2, <1>3, <1>4 DEF LookupInv, Timely, Young, Accounted
<1>7. QED
    BY <1>2, <1>5, <1>6, LookupStep

LEMMA CacheDoneStep == ASSUME SteamInv, NEW r \in Reader, CacheDone(r) PROVE SteamInv'
<1> DEFINE old == req[r]
           pc == IF old.missed = {} THEN "done" ELSE "steam"
           q == [old EXCEPT !.pc = pc]
<1>1. /\ old.pc = "cache" /\ old.todo = {} /\ Set(r, q) /\ UNCHANGED <<kind, now, file, faults>>
      /\ LookupInv(old) /\ old \in Lookup
    BY DEF CacheDone, SteamInv
<1>2. pc \in {"done", "steam"} /\ (pc = "done" => old.missed = {})
    OBVIOUS
<1> HIDE DEF pc
<1>3. /\ q \in Lookup /\ q.pc = pc /\ q.since = old.since /\ q.ids = old.ids
      /\ q.todo = {} /\ q.missed = old.missed /\ q.got = old.got
      /\ q.new = old.new /\ q.open = old.open /\ q.hit = old.hit
    BY <1>1, <1>2 DEF Lookup
<1> HIDE DEF q
<1>4. LookupInv(q)
    BY <1>1, <1>2, <1>3 DEF LookupInv, Timely, Young, Accounted
<1>5. QED
    BY <1>1, <1>4, LookupStep

\* What Steam tells is of now; of those it was asked for, it knows who is not hidden.
LEMMA AskSteamStep == ASSUME SteamInv, NEW r \in Reader, AskSteam(r) PROVE SteamInv'
<1> DEFINE old == req[r]
           known == old.missed \ Hidden
<1>1. PICK len \in [known -> Size] :
        Set(r, [old EXCEPT
            !.pc = "store",
            !.new = known,
            !.got = [s \in DOMAIN @ \union known |->
                        IF s \in known THEN [at |-> now, len |-> len[s]] ELSE @[s]]])
    BY DEF AskSteam
<1> DEFINE got == [s \in DOMAIN old.got \union known |->
                    IF s \in known THEN [at |-> now, len |-> len[s]] ELSE old.got[s]]
           q == [old EXCEPT !.pc = "store", !.new = known, !.got = got]
<1>2. /\ old.pc = "steam" /\ UNCHANGED <<kind, now, file, faults>>
      /\ LookupInv(old) /\ old \in Lookup /\ now \in 0..MaxNow
    BY DEF AskSteam, SteamInv
<1>3. /\ old.got \in Reports /\ known \in SUBSET Sid
      /\ old.since <= now /\ now - old.since <= MaxTime /\ old.since \in Nat
    BY <1>2, Begun DEF Lookup
<1>4. /\ DOMAIN got = DOMAIN old.got \union known
      /\ \A s \in known : got[s].at = now
      /\ \A s \in DOMAIN old.got \ known : got[s] = old.got[s]
    OBVIOUS
<1>5. got \in Reports
    <2>1. PICK D \in SUBSET Sid : old.got \in [D -> Report]
        BY <1>3 DEF Reports
    <2>2. \A s \in known : [at |-> now, len |-> len[s]] \in Report
        BY <1>2 DEF Report
    <2>3. got \in [D \union known -> Report]
        BY <2>1, <2>2
    <2>4. QED
        BY <1>3, <2>1, <2>3 DEF Reports
<1> HIDE DEF got
<1>6. /\ q \in Lookup /\ q.pc = "store" /\ q.since = old.since /\ q.ids = old.ids
      /\ q.todo = old.todo /\ q.missed = old.missed /\ q.got = got
      /\ q.new = known /\ q.open = old.open /\ q.hit = old.hit
    BY <1>2, <1>3, <1>5 DEF Lookup
<1>7. Set(r, q)
    BY <1>1 DEF got
<1> HIDE DEF q
<1>8. Timely(q)
    BY <1>2, <1>3, <1>4, <1>6 DEF Timely
<1>9. Young(q)
    <2>1. old.since - now <= MaxAge + MaxTime
        BY <1>2, <1>3, TimeAssumption
    <2>2. QED
        BY <1>2, <1>4, <1>6, <2>1 DEF LookupInv, Young
<1>10. Accounted(q)
    BY <1>2, <1>4, <1>6 DEF LookupInv, Accounted
<1>11. LookupInv(q)
    BY <1>6, <1>8, <1>9, <1>10 DEF LookupInv
<1>12. QED
    BY <1>2, <1>7, <1>11, LookupStep

LEMMA SteamFailsStep == ASSUME SteamInv, NEW r \in Reader, SteamFails(r) PROVE SteamInv'
<1> DEFINE old == req[r]
           pc == IF kind = "friends" THEN "done" ELSE "error"
           q == [old EXCEPT !.pc = pc, !.hit = TRUE]
<1>1. /\ old.pc = "steam" /\ Set(r, q) /\ UNCHANGED <<kind, now, file>> /\ Fault
      /\ LookupInv(old) /\ old \in Lookup
    BY DEF SteamFails, SteamInv
<1>2. pc \in {"done", "error"} /\ (kind # "friends" => pc = "error")
    OBVIOUS
<1> HIDE DEF pc
<1>3. /\ q \in Lookup /\ q.pc = pc /\ q.since = old.since /\ q.ids = old.ids
      /\ q.todo = old.todo /\ q.missed = old.missed /\ q.got = old.got
      /\ q.new = old.new /\ q.open = old.open /\ q.hit = TRUE
    BY <1>1, <1>2 DEF Lookup
<1> HIDE DEF q
<1>4. LookupInv(q)
    BY <1>1, <1>2, <1>3 DEF LookupInv, Timely, Young, Accounted
<1>5. QED
    BY <1>1, <1>4, LookupStep

LEMMA CreateStep == ASSUME SteamInv, NEW r \in Reader, Create(r) PROVE SteamInv'
<1> DEFINE old == req[r]
<1>1. PICK s \in old.new : file' = [file EXCEPT ![s] = Truncated] /\ Set(r, [old EXCEPT !.open = {s}])
    BY DEF Create
<1> DEFINE q == [old EXCEPT !.open = {s}]
<1>2. /\ old.pc = "store" /\ UNCHANGED <<kind, now, faults>>
      /\ LookupInv(old) /\ old \in Lookup /\ now \in 0..MaxNow /\ s \in Sid
    BY DEF Create, SteamInv, Lookup
<1>3. /\ q \in Lookup /\ q.pc = old.pc /\ q.since = old.since /\ q.ids = old.ids
      /\ q.todo = old.todo /\ q.missed = old.missed /\ q.got = old.got
      /\ q.new = old.new /\ q.open = {s} /\ q.hit = old.hit
    BY <1>2 DEF Lookup
<1>4. Set(r, q)
    BY <1>1
<1> HIDE DEF q
<1>5. LookupInv(q)
    BY <1>2, <1>3 DEF LookupInv, Timely, Young, Accounted
<1>6. Truncated \in FileState /\ FileInv(s, Truncated)
    BY <1>2, TimeAssumption DEF Truncated, FileInv, FileState, LookupInv, Accounted
<1>7. QED
    BY <1>1, <1>2, <1>4, <1>5, <1>6, LookupStep

\* A slow writer's report may be older than what it overwrites, but not than itself.
LEMMA WriteStep == ASSUME SteamInv, NEW r \in Reader, Write(r) PROVE SteamInv'
<1> DEFINE old == req[r]
<1>1. PICK s \in old.open :
        /\ file' = [file EXCEPT ![s] = Written(@, old.got[s])]
        /\ Set(r, [old EXCEPT !.new = @ \ {s}, !.open = {}])
    BY DEF Write
<1> DEFINE q == [old EXCEPT !.new = @ \ {s}, !.open = {}]
           f == Written(file[s], old.got[s])
<1>2. /\ old.pc = "store" /\ UNCHANGED <<kind, now, faults>>
      /\ LookupInv(old) /\ old \in Lookup /\ now \in 0..MaxNow /\ s \in Sid
      /\ FileInv(s, file[s]) /\ file \in [Sid -> FileState]
    BY DEF Write, SteamInv, Lookup
<1>3. /\ q \in Lookup /\ q.pc = old.pc /\ q.since = old.since /\ q.ids = old.ids
      /\ q.todo = old.todo /\ q.missed = old.missed /\ q.got = old.got
      /\ q.new = old.new \ {s} /\ q.open = {} /\ q.hit = old.hit
    BY <1>2 DEF Lookup
<1>4. Set(r, q) /\ file' = [file EXCEPT ![s] = f]
    BY <1>1, <1>2
<1> HIDE DEF q
<1>5. LookupInv(q)
    BY <1>2, <1>3 DEF LookupInv, Timely, Young, Accounted
<1>6. /\ s \in old.new /\ s \in DOMAIN old.got /\ s \notin Hidden
      /\ old.since <= old.got[s].at /\ old.got[s].at <= now
    BY <1>2 DEF LookupInv, Timely, Accounted
<1>7. old.got[s] \in Report
    <2>1. PICK D \in SUBSET Sid : old.got \in [D -> Report]
        BY <1>2 DEF Lookup, Reports
    <2>2. QED
        BY <1>6, <2>1
<1>8. /\ old.got[s].at \in 0..MaxNow /\ old.got[s].len \in Size
      /\ now - old.got[s].at <= MaxTime
    <2>1. old.since \in Nat /\ now - old.since <= MaxTime
        BY <1>2, Begun
    <2>2. QED
        BY <1>2, <1>6, <1>7, <2>1, TimeAssumption DEF Report
<1>9. f \in FileState /\ FileInv(s, f)
    <2> DEFINE p == old.got[s]
    <2>1. p.at \in 0..MaxNow /\ p.at <= now /\ p.len \in Size /\ now - p.at <= MaxTime
        BY <1>6, <1>8
    <2>2. /\ now \in 0..MaxNow /\ now <= now /\ s \notin Hidden
          /\ file[s].len \in Size \union {0}
        BY <1>2, <1>6, TimeAssumption DEF FileInv
    <2>3. p.len \in Nat /\ file[s].len \in Nat
        <3>1. \A k \in Size : k \in Nat
            BY SizeAssumption
        <3>2. file[s].len \in Nat
            BY <1>2 DEF FileInv, FileState
        <3>3. QED
            BY <2>1, <3>1, <3>2
    <2>4. CASE file[s].len > p.len
        <3>1. f = [torn |-> TRUE, at |-> p.at, len |-> file[s].len, mtime |-> now]
            BY <2>4 DEF Written
        <3>2. QED
            BY <2>1, <2>2, <2>3, <3>1 DEF FileInv, FileState
    <2>5. CASE ~(file[s].len > p.len)
        <3>1. f = [torn |-> FALSE, at |-> p.at, len |-> p.len, mtime |-> now]
            <4>1. (file[s].len > p.len) = FALSE
                BY <2>5
            <4>2. QED
                BY <2>5, <4>1 DEF Written
        <3>2. QED
            BY <2>1, <2>2, <2>3, <3>1 DEF FileInv, FileState
    <2>6. QED
        BY <2>4, <2>5
<1>10. QED
    BY <1>2, <1>4, <1>5, <1>9, LookupStep

LEMMA SetFailsStep == ASSUME SteamInv, NEW r \in Reader, SetFails(r) PROVE SteamInv'
<1> DEFINE old == req[r]
<1>1. PICK s : Set(r, [old EXCEPT !.new = @ \ {s}, !.open = {}])
    BY DEF SetFails
<1> DEFINE q == [old EXCEPT !.new = @ \ {s}, !.open = {}]
<1>2. /\ old.pc = "store" /\ UNCHANGED <<kind, now, file>> /\ Fault
      /\ LookupInv(old) /\ old \in Lookup
    BY DEF SetFails, SteamInv
<1>3. /\ q \in Lookup /\ q.pc = old.pc /\ q.since = old.since /\ q.ids = old.ids
      /\ q.todo = old.todo /\ q.missed = old.missed /\ q.got = old.got
      /\ q.new = old.new \ {s} /\ q.open = {} /\ q.hit = old.hit
    BY <1>2 DEF Lookup
<1>4. Set(r, q)
    BY <1>1
<1> HIDE DEF q
<1>5. LookupInv(q)
    BY <1>2, <1>3 DEF LookupInv, Timely, Young, Accounted
<1>6. QED
    BY <1>2, <1>4, <1>5, LookupStep

LEMMA StoredStep == ASSUME SteamInv, NEW r \in Reader, Stored(r) PROVE SteamInv'
<1> DEFINE old == req[r]
           q == [old EXCEPT !.pc = "done"]
<1>1. /\ old.pc = "store" /\ old.new = {} /\ Set(r, q) /\ UNCHANGED <<kind, now, file, faults>>
      /\ LookupInv(old) /\ old \in Lookup
    BY DEF Stored, SteamInv
<1>2. /\ q \in Lookup /\ q.pc = "done" /\ q.since = old.since /\ q.ids = old.ids
      /\ q.todo = old.todo /\ q.missed = old.missed /\ q.got = old.got
      /\ q.new = old.new /\ q.open = old.open /\ q.hit = old.hit
    BY <1>1 DEF Lookup
<1> HIDE DEF q
<1>3. LookupInv(q)
    BY <1>1, <1>2 DEF LookupInv, Timely, Young, Accounted
<1>4. QED
    BY <1>1, <1>3, LookupStep

LEMMA SteamStep == ASSUME SteamInv, Next PROVE SteamInv'
<1>1. ASSUME NEW r \in Reader, Return(r) PROVE SteamInv'
    <2>1. Set(r, NoLookup) /\ UNCHANGED <<kind, now, file, faults>>
        BY <1>1 DEF Return
    <2>2. QED
        BY <2>1, NothingLookedUp, LookupStep
<1>2. CASE Crash
    <2>1. /\ req' = [r \in Reader |-> NoLookup] /\ UNCHANGED <<kind, now, file>> /\ Fault
        BY <1>2 DEF Crash
    <2>2. req' \in [Reader -> Lookup] /\ \A r \in Reader : LookupInv(req'[r])
        BY <2>1, NothingLookedUp
    <2>3. \A t : LookupInv(t)' <=> LookupInv(t)
        BY <2>1 DEF LookupInv, Timely, Young, Accounted
    <2>4. \A s, f : FileInv(s, f)' <=> FileInv(s, f)
        BY <2>1 DEF FileInv
    <2>5. QED
        BY <2>1, <2>2, <2>3, <2>4, FaultsAssumption DEF SteamInv, Fault
<1>3. CASE Tick
    <2>1. /\ now' = now + 1 /\ now < MaxNow /\ UNCHANGED <<kind, file, req, faults>>
          /\ \A r \in Reader : req[r].pc # "idle" => now - req[r].since < MaxTime
        BY <1>3 DEF Tick
    <2>2. \A s \in Sid : FileInv(s, file[s])'
        BY <2>1, TimeAssumption DEF SteamInv, FileInv, FileState
    <2>3. ASSUME NEW r \in Reader PROVE LookupInv(req[r])'
        <3>1. req[r] \in Lookup /\ LookupInv(req[r]) /\ now \in Nat
            BY DEF SteamInv
        <3>2. /\ req[r].pc # "idle" => req[r].since <= now' /\ now' - req[r].since <= MaxTime
            BY <2>1, <3>1, TimeAssumption DEF LookupInv, Timely, Lookup
        <3>3. Timely(req[r])'
            <4>1. PICK D \in SUBSET Sid : req[r].got \in [D -> Report]
                BY <3>1 DEF Lookup, Reports
            <4>2. \A s \in req[r].new : req[r].got[s].at \in Nat
                BY <3>1, <4>1, TimeAssumption DEF LookupInv, Accounted, Report
            <4>3. QED
                BY <2>1, <3>1, <3>2, <4>2 DEF LookupInv, Timely
        <3>4. Young(req[r])' /\ Accounted(req[r])'
            BY <2>1, <3>1 DEF LookupInv, Young, Accounted
        <3>5. QED
            BY <2>1, <3>1, <3>3, <3>4 DEF LookupInv
    <2>4. now' \in 0..MaxNow
        BY <2>1, TimeAssumption DEF SteamInv
    <2>5. QED
        BY <2>1, <2>2, <2>3, <2>4 DEF SteamInv
<1>4. QED
    BY <1>1, <1>2, <1>3, StartStep, ReadStep, ReadFriendsStep, CacheDoneStep, AskSteamStep,
       SteamFailsStep, CreateStep, WriteStep, SetFailsStep, StoredStep DEF Next

\* A step of another part: the clock and the faults may go on.
LEMMA SteamRest ==
    ASSUME SteamInv, \A r \in Reader : req[r] = NoLookup, UNCHANGED steam,
           now' \in now..MaxNow, faults' \in 0..MaxFaults
    PROVE  SteamInv'
<1>1. UNCHANGED <<kind, file, req>> /\ now \in Nat /\ now' \in Nat /\ now <= now'
    BY DEF steam, SteamInv
<1>2. now' \in 0..MaxNow
    BY <1>1, TimeAssumption
<1>3. \A s \in Sid : FileInv(s, file[s])'
    BY <1>1, TimeAssumption DEF SteamInv, FileInv, FileState
<1>4. ASSUME NEW r \in Reader PROVE LookupInv(req[r])'
    <2>1. req[r].pc = "idle" /\ req[r].new = {} /\ LookupInv(req[r])
        BY NothingLookedUp DEF NoLookup, SteamInv
    <2>2. QED
        BY <1>1, <2>1 DEF LookupInv, Timely, Young, Accounted
<1>5. QED
    BY <1>1, <1>2, <1>3, <1>4 DEF SteamInv

LEMMA SteamProperties == SteamInv => TypeOK /\ AnswerComplete /\ AnswerFresh
<1> SUFFICES ASSUME SteamInv PROVE TypeOK /\ AnswerComplete /\ AnswerFresh
    OBVIOUS
<1>1. ASSUME NEW r \in Reader
      PROVE  \A s \in DOMAIN req[r].got : req[r].got[s] \in Report
    <2>1. PICK D \in SUBSET Sid : req[r].got \in [D -> Report]
        BY DEF SteamInv, Lookup, Reports
    <2>2. QED
        BY <2>1
<1>2. TypeOK
    BY <1>1 DEF SteamInv, TypeOK, FileInv, FileState, LookupInv, Lookup, Accounted
<1>3. AnswerComplete
    BY DEF SteamInv, AnswerComplete, SummaryAnswered, ProfileAnswered, LookupInv, Accounted
<1>4. AnswerFresh
    BY DEF SteamInv, AnswerFresh, LookupInv, Young
<1>5. QED
    BY <1>2, <1>3, <1>4

----------------------------------------------------------------------------
(* The owned games. *)

LEMMA Nevers ==
    /\ Games!Never = MaxNow + 1 /\ Games!Never \in 0..MaxNow + 1
    /\ \A t \in 0..MaxNow : t # Games!Never /\ t < Games!Never
    /\ Games!NoRows \in Row /\ Games!Rows(Games!NoRows) = {}
BY TimeAssumption DEF Games!Never, Games!NoRows, Games!Rows, Row

LEMMA NoRowsComplete == ASSUME NEW s PROVE Games!Complete(s, Games!NoRows)
BY Nevers DEF Games!Complete

\* A request that has not begun, or has failed.
LEMMA NothingCalled ==
    ASSUME NEW pc \in {"idle", "error"}, NEW q, q = [Games!NoCall EXCEPT !.pc = pc]
    PROVE  CallInv(q)
<1>1. Games!NoCall \in GamesCall
    BY Nevers, TimeAssumption DEF Games!NoCall, GamesCall
<1>2. /\ Games!NoCall.ids = {} /\ Games!NoCall.left = {} /\ Games!NoCall.cur = {}
      /\ Games!NoCall.new = {} /\ Games!NoCall.open = {} /\ Games!NoCall.half = {}
      /\ Games!NoCall.got = [s \in Owner |-> Games!NoRows]
    BY DEF Games!NoCall
<1>3. /\ q \in GamesCall /\ q.pc = pc /\ q.ids = {} /\ q.left = {} /\ q.cur = {}
      /\ q.new = {} /\ q.open = {} /\ q.half = {} /\ q.got = [s \in Owner |-> Games!NoRows]
    BY <1>1, <1>2 DEF GamesCall
<1>4. Thorough(q) /\ Told(q)
    BY <1>3, Nevers DEF Thorough, Told
<1>5. QED
    BY <1>3, <1>4 DEF CallInv

LEMMA NothingCalledLater ==
    ASSUME NEW pc \in {"idle", "error"}, NEW q, q = [Games!NoCall EXCEPT !.pc = pc]
    PROVE  CallInv(q)'
<1>1. Games!NoCall \in GamesCall
    BY Nevers, TimeAssumption DEF Games!NoCall, GamesCall
<1>2. /\ Games!NoCall.ids = {} /\ Games!NoCall.left = {} /\ Games!NoCall.cur = {}
      /\ Games!NoCall.new = {} /\ Games!NoCall.open = {} /\ Games!NoCall.half = {}
      /\ Games!NoCall.got = [s \in Owner |-> Games!NoRows]
    BY DEF Games!NoCall
<1>3. /\ q \in GamesCall /\ q.pc = pc /\ q.ids = {} /\ q.left = {} /\ q.cur = {}
      /\ q.new = {} /\ q.open = {} /\ q.half = {} /\ q.got = [s \in Owner |-> Games!NoRows]
    BY <1>1, <1>2 DEF GamesCall
<1>4. Thorough(q)' /\ Told(q)'
    BY <1>3, Nevers DEF Thorough, Told
<1>5. QED
    BY <1>3, <1>4 DEF CallInv

LEMMA NoCallFits == CallInv(Games!NoCall) /\ Games!NoCall.pc = "idle"
<1>1. Games!NoCall \in GamesCall /\ Games!NoCall.pc = "idle"
    BY Nevers, TimeAssumption DEF Games!NoCall, GamesCall
<1>2. Games!NoCall = [Games!NoCall EXCEPT !.pc = "idle"]
    BY <1>1 DEF GamesCall
<1>3. QED
    BY <1>1, <1>2, NothingCalled

LEMMA GamesInit == ASSUME Games!Init PROVE GamesInv
<1> USE DEF Games!Init
<1>1. /\ Games!Never \in 0..now \union {Games!Never} /\ 0 \in 0..now /\ now \in 0..MaxNow
    BY TimeAssumption
<1>2. owned \in [Owner -> [Game -> 0..now \union {Games!Never}]]
    BY <1>1 DEF Games!NoRows
<1>3. bought \in [Owner -> [Game -> 0..now \union {Games!Never}]]
    BY <1>1
<1>4. TablesInv
    BY <1>1, <1>2, <1>3, Nevers, FaultsAssumption DEF TablesInv
<1>5. RowsComplete
    BY NoRowsComplete DEF RowsComplete
<1>6. QED
    BY <1>4, <1>5, NoCallFits DEF GamesInv, CallInv

\* A step of one request that takes nothing from the tables leaves all that is said of
\* the others.
LEMMA CallStep ==
    ASSUME GamesInv, NEW c \in Reader, NEW q, CallInv(q)', Games!Set(c, q),
           UNCHANGED <<now, bought>>, TablesInv', RowsComplete',
           player \subseteq player', game \subseteq game',
           \A s \in Owner : Games!Rows(owned[s]) \subseteq Games!Rows(owned'[s])
    PROVE  GamesInv'
<1>1. gamesCall' = [gamesCall EXCEPT ![c] = q] /\ q \in GamesCall
    BY DEF Games!Set, CallInv
<1>2. gamesCall' \in [Reader -> GamesCall]
    BY <1>1 DEF GamesInv
<1>3. ASSUME NEW d \in Reader, d # c PROVE CallInv(gamesCall[d])'
    <2>1. PICK p : p = gamesCall[d]
        OBVIOUS
    <2>2. CallInv(p) /\ p \in GamesCall /\ gamesCall'[d] = p
        BY <1>1, <1>3, <2>1 DEF GamesInv
    <2>3. Thorough(p)'
        BY <2>2 DEF CallInv, Thorough, GamesCall
    <2>4. \A s, row : Games!Complete(s, row)' <=> Games!Complete(s, row)
        BY DEF Games!Complete, Games!Library
    <2>5. Told(p)'
        BY <2>2, <2>4 DEF CallInv, Told
    <2>6. CallInv(p)'
        BY <2>2, <2>3, <2>5 DEF CallInv
    <2>7. QED
        BY <2>2, <2>6
<1>4. QED
    BY <1>1, <1>2, <1>3 DEF GamesInv

\* Updates that go on leave nothing new to be complete.
LEMMA UpdatesGoOn ==
    ASSUME GamesInv, NEW c \in Reader, NEW q, Games!Set(c, q), UNCHANGED <<bought, owned, cut>>,
           gamesCall[c].pc = "save" => q.pc = "save" /\ gamesCall[c].cur \subseteq q.cur
    PROVE  RowsComplete'
<1>1. \A s \in Owner : Games!Updating(s) => Games!Updating(s)'
    BY DEF Games!Updating, Games!Set, GamesInv
<1>2. \A s, row : Games!Complete(s, row)' <=> Games!Complete(s, row)
    BY DEF Games!Complete, Games!Library
<1>3. QED
    BY <1>1, <1>2 DEF GamesInv, RowsComplete

LEMMA TablesStay ==
    ASSUME TablesInv, UNCHANGED <<now, bought, owned, player, game>>, cut' \subseteq Owner,
           UNCHANGED faults \/ Games!Fault
    PROVE  TablesInv'
BY FaultsAssumption DEF TablesInv, Games!Fault

LEMMA BeginStep == ASSUME GamesInv, NEW c \in Reader, Games!Begin(c) PROVE GamesInv'
<1>1. PICK ids \in SUBSET Owner, update \in BOOLEAN :
        Games!Set(c, [Games!NoCall EXCEPT !.pc = "ensure", !.ids = ids, !.update = update])
    BY DEF Games!Begin
<1>2. PICK q : q = [Games!NoCall EXCEPT !.pc = "ensure", !.ids = ids, !.update = update]
    OBVIOUS
<1>3. /\ UNCHANGED <<now, bought, player, game, owned, cut, faults>> /\ gamesCall[c].pc = "idle"
    BY DEF Games!Begin, Games!At
<1>4. Games!NoCall \in GamesCall /\ update \in BOOLEAN
    BY NoCallFits DEF CallInv
<1>5. /\ q \in GamesCall /\ q.pc = "ensure" /\ q.ids = ids
      /\ q.left = Games!NoCall.left /\ q.cur = Games!NoCall.cur /\ q.new = Games!NoCall.new
      /\ q.open = Games!NoCall.open /\ q.half = Games!NoCall.half /\ q.got = Games!NoCall.got
    BY <1>2, <1>4 DEF GamesCall
<1>6. /\ Games!NoCall.left = {} /\ Games!NoCall.cur = {} /\ Games!NoCall.new = {}
      /\ Games!NoCall.open = {} /\ Games!NoCall.half = {}
      /\ Games!NoCall.got = [s \in Owner |-> Games!NoRows]
    BY DEF Games!NoCall
<1>7. Thorough(q)'
    BY <1>5, <1>6 DEF Thorough
<1>8. \A s \in Owner : Games!Complete(s, Games!NoRows)'
    BY Nevers DEF Games!Complete
<1>9. Told(q)'
    BY <1>5, <1>6, <1>8, Nevers DEF Told
<1>10. CallInv(q)' /\ Games!Set(c, q)
    BY <1>1, <1>2, <1>5, <1>7, <1>9 DEF CallInv
<1>11. RowsComplete'
    BY <1>3, <1>10, UpdatesGoOn
<1>12. TablesInv'
    BY <1>3, TablesStay DEF GamesInv, TablesInv
<1>13. QED
    BY <1>3, <1>10, <1>11, <1>12, CallStep

LEMMA EnsurePlayersStep == ASSUME GamesInv, NEW c \in Reader, Games!EnsurePlayers(c) PROVE GamesInv'
<1>1. PICK old : old = gamesCall[c]
    OBVIOUS
<1>2. PICK q : q = [old EXCEPT !.pc = "query"]
    OBVIOUS
<1>3. /\ UNCHANGED <<now, bought, game, owned, cut, faults>> /\ old.pc = "ensure"
      /\ player' = player \union old.ids /\ CallInv(old) /\ old \in GamesCall
      /\ Games!Set(c, q)
    BY <1>1, <1>2 DEF Games!EnsurePlayers, Games!At, GamesInv
<1>4. /\ q \in GamesCall /\ q.pc = "query" /\ q.ids = old.ids /\ q.left = old.left
      /\ q.cur = old.cur /\ q.new = old.new /\ q.open = old.open /\ q.half = old.half
      /\ q.got = old.got
    BY <1>2, <1>3 DEF GamesCall
<1>5. Thorough(q)'
    BY <1>3, <1>4 DEF CallInv, Thorough
<1>6. \A s, row : Games!Complete(s, row)' <=> Games!Complete(s, row)
    BY <1>3 DEF Games!Complete, Games!Library
<1>7. Told(q)'
    BY <1>3, <1>4, <1>6 DEF CallInv, Told
<1>8. CallInv(q)'
    BY <1>4, <1>5, <1>7 DEF CallInv
<1>9. RowsComplete'
    BY <1>1, <1>3, UpdatesGoOn
<1>10. TablesInv'
    BY <1>3, <1>4 DEF GamesInv, TablesInv, GamesCall
<1>11. QED
    BY <1>3, <1>8, <1>9, <1>10, CallStep

LEMMA PartRead ==
    ASSUME NEW row \in Row, \A g \in Games!Rows(row) : row[g] <= now,
           NEW read, read \subseteq Games!Rows(row)
    PROVE  /\ Games!Part(row, read) \in Row
           /\ \A g \in Games!Rows(Games!Part(row, read)) : Games!Part(row, read)[g] <= now
           /\ read = Games!Rows(row) => Games!Part(row, read) = row
           /\ read = {} => Games!Part(row, read) = Games!NoRows
<1>1. PICK p : p = Games!Part(row, read)
    OBVIOUS
<1>2. p = [g \in Game |-> IF g \in read THEN row[g] ELSE Games!Never]
    BY <1>1 DEF Games!Part
<1>3. p \in Row
    BY <1>2, Nevers DEF Row
<1>4. \A g \in Games!Rows(p) : g \in read /\ p[g] = row[g]
    BY <1>2 DEF Games!Rows
<1>5. read = Games!Rows(row) => p = row
    BY <1>2 DEF Games!Rows, Row
<1>6. read = {} => p = Games!NoRows
    BY <1>2 DEF Games!NoRows
<1>7. QED
    BY <1>1, <1>3, <1>4, <1>5, <1>6

\* What is read whole of a player who is not being updated is complete, as are his rows.
LEMMA QueryStep == ASSUME GamesInv, NEW c \in Reader, Games!Query(c) PROVE GamesInv'
<1>1. PICK old : old = gamesCall[c]
    OBVIOUS
<1>2. PICK asked : asked = IF old.update THEN {} ELSE old.ids
    OBVIOUS
<1>3. PICK read \in [asked -> SUBSET Game] :
        /\ \A s \in asked : read[s] \subseteq Games!Rows(owned[s])
        /\ UNCHANGED faults \/ Games!Fault
        /\ Games!Set(c, [old EXCEPT
              !.pc = "ask",
              !.left = {s \in old.ids : s \notin asked \/ read[s] = {}},
              !.got = [s \in Owner |-> IF s \in asked THEN Games!Part(owned[s], read[s])
                                       ELSE Games!NoRows],
              !.half = {s \in asked : /\ read[s] # {}
                                      /\ \/ s \in cut \/ Games!Updating(s)
                                         \/ read[s] # Games!Rows(owned[s])}])
    BY <1>1, <1>2 DEF Games!Query
<1>4. PICK left, got, half :
        /\ left = {s \in old.ids : s \notin asked \/ read[s] = {}}
        /\ got = [s \in Owner |-> IF s \in asked THEN Games!Part(owned[s], read[s])
                                  ELSE Games!NoRows]
        /\ half = {s \in asked : /\ read[s] # {}
                                 /\ \/ s \in cut \/ Games!Updating(s)
                                    \/ read[s] # Games!Rows(owned[s])}
    OBVIOUS
<1>5. PICK q : q = [old EXCEPT !.pc = "ask", !.left = left, !.got = got, !.half = half]
    OBVIOUS
<1>6. /\ UNCHANGED <<now, bought, player, game, owned, cut>> /\ old.pc = "query"
      /\ CallInv(old) /\ old \in GamesCall
    BY <1>1 DEF Games!Query, Games!At, GamesInv
<1>7. Games!Set(c, q)
    BY <1>3, <1>4, <1>5
<1>8. old.ids \in SUBSET Owner /\ asked \subseteq old.ids
    BY <1>2, <1>6 DEF GamesCall
<1>9. \A s \in Owner : owned[s] \in Row /\ \A g \in Games!Rows(owned[s]) : owned[s][g] <= now
    BY TimeAssumption DEF GamesInv, TablesInv, Games!Never, Games!Rows, Row
<1>10. ASSUME NEW s \in Owner
       PROVE  /\ got[s] \in Row
              /\ \A g \in Games!Rows(got[s]) : got[s][g] <= now
              /\ s \in asked => \/ got[s] = owned[s] /\ read[s] = Games!Rows(owned[s])
                                \/ got[s] = Games!NoRows
                                \/ s \in half
              /\ s \notin asked => got[s] = Games!NoRows
    <2>1. CASE s \in asked
        <3>1. got[s] = Games!Part(owned[s], read[s]) /\ read[s] \subseteq Games!Rows(owned[s])
            BY <1>3, <1>4, <2>1
        <3>2. owned[s] \in Row /\ \A g \in Games!Rows(owned[s]) : owned[s][g] <= now
            BY <1>9
        <3>3. /\ got[s] \in Row
              /\ \A g \in Games!Rows(got[s]) : got[s][g] <= now
              /\ read[s] = Games!Rows(owned[s]) => got[s] = owned[s]
              /\ read[s] = {} => got[s] = Games!NoRows
            BY <3>1, <3>2, PartRead
        <3>4. QED
            BY <1>4, <2>1, <3>3
    <2>2. CASE s \notin asked
        <3>1. got[s] = Games!NoRows
            BY <1>4, <2>2
        <3>2. QED
            BY <2>2, <3>1, Nevers
    <2>3. QED
        BY <2>1, <2>2
<1>11. /\ left \subseteq old.ids /\ half \subseteq old.ids
       /\ got \in [Owner -> Row]
    <2>1. DOMAIN got = Owner /\ got = [s \in Owner |-> got[s]]
        BY <1>4
    <2>2. QED
        BY <1>4, <1>8, <1>10, <2>1
<1>12. /\ q \in GamesCall /\ q.pc = "ask" /\ q.ids = old.ids /\ q.left = left
       /\ q.cur = old.cur /\ q.new = old.new /\ q.open = old.open /\ q.half = half
       /\ q.got = got
    BY <1>5, <1>6, <1>8, <1>11 DEF GamesCall
<1>13. Thorough(q)'
    BY <1>6, <1>12 DEF CallInv, Thorough
<1>14. \A s, row : Games!Complete(s, row)' <=> Games!Complete(s, row)
    BY <1>6 DEF Games!Complete, Games!Library
<1>15. ASSUME NEW s \in old.ids \ half PROVE Games!Complete(s, got[s])
    <2>1. s \in Owner
        BY <1>8
    <2>2. CASE got[s] = Games!NoRows
        BY <2>2, NoRowsComplete
    <2>3. CASE got[s] # Games!NoRows
        <3>1. s \in asked /\ got[s] = owned[s] /\ read[s] = Games!Rows(owned[s])
            BY <1>10, <2>1, <2>3
        <3>2. CASE read[s] = {}
            BY <2>1, <3>1, <3>2 DEF Games!Complete
        <3>3. CASE read[s] # {}
            <4>1. s \notin cut /\ ~Games!Updating(s)
                BY <1>4, <3>1, <3>3
            <4>2. QED
                BY <2>1, <3>1, <4>1 DEF GamesInv, RowsComplete
        <3>4. QED
            BY <3>2, <3>3
    <2>4. QED
        BY <2>2, <2>3
<1>16. \A s \in Owner : \A g \in Games!Rows(got[s]) : got[s][g] <= now
    BY <1>10
<1>17. Told(q)'
    <2>1. q.left \union q.cur \union q.half \subseteq q.ids
        BY <1>6, <1>11, <1>12 DEF CallInv, Told
    <2>2. \A s : Games!Rows(got[s])' = Games!Rows(got[s])
        BY DEF Games!Rows
    <2>3. QED
        BY <1>6, <1>12, <1>14, <1>15, <1>16, <2>1, <2>2 DEF Told
<1>18. CallInv(q)'
    BY <1>12, <1>13, <1>17 DEF CallInv
<1>19. RowsComplete'
    BY <1>1, <1>6, <1>7, UpdatesGoOn
<1>20. TablesInv'
    <2>1. TablesInv /\ cut' \subseteq Owner
        BY <1>6 DEF GamesInv, TablesInv
    <2>2. QED
        BY <1>3, <1>6, <2>1, TablesStay
<1>21. QED
    BY <1>6, <1>7, <1>18, <1>19, <1>20, CallStep

\* Steam tells all of the games there are, at the time it is asked.
LEMMA AskStep == ASSUME GamesInv, NEW c \in Reader, Games!Ask(c) PROVE GamesInv'
<1>1. PICK old : old = gamesCall[c]
    OBVIOUS
<1>2. PICK s \in old.left :
        Games!Set(c, [old EXCEPT
                 !.pc = "save", !.left = @ \ {s}, !.cur = {s}, !.asked = now,
                 !.new = Games!Library(s),
                 !.got[s] = [g \in Game |-> IF g \in Games!Library(s) THEN now ELSE Games!Never]])
    BY <1>1 DEF Games!Ask
<1>3. PICK row : row = [g \in Game |-> IF g \in Games!Library(s) THEN now ELSE Games!Never]
    OBVIOUS
<1>4. PICK lib : lib = Games!Library(s)
    OBVIOUS
<1>5. PICK q : q = [old EXCEPT !.pc = "save", !.left = @ \ {s}, !.cur = {s}, !.asked = now,
                               !.new = lib, !.got[s] = row]
    OBVIOUS
<1>6. /\ UNCHANGED <<now, bought, player, game, owned, cut, faults>> /\ old.pc = "ask"
      /\ CallInv(old) /\ old \in GamesCall /\ now \in 0..MaxNow
    BY <1>1 DEF Games!Ask, Games!At, GamesInv, TablesInv
<1>7. Games!Set(c, q)
    BY <1>2, <1>3, <1>4, <1>5
<1>8. /\ s \in Owner /\ s \in old.ids /\ lib \in SUBSET Game
    BY <1>4, <1>6 DEF CallInv, Told, GamesCall, Games!Library
<1>9. row \in Row
    BY <1>3, <1>6, Nevers DEF Row
<1>10. /\ q \in GamesCall /\ q.pc = "save" /\ q.ids = old.ids /\ q.left = old.left \ {s}
       /\ q.cur = {s} /\ q.asked = now /\ q.new = lib /\ q.open = old.open /\ q.half = old.half
       /\ q.got[s] = row /\ \A t \in Owner \ {s} : q.got[t] = old.got[t]
    BY <1>5, <1>6, <1>8, <1>9 DEF GamesCall
<1>11. /\ Games!Rows(row) = lib /\ \A g \in lib : row[g] = now
       /\ \A g \in Game : bought[s][g] < now => g \in lib
    BY <1>3, <1>4, <1>6, <1>8, Nevers DEF Games!Rows, Games!Library
<1>12. Thorough(q)'
    BY <1>6, <1>8, <1>10, <1>11, TimeAssumption DEF CallInv, Thorough
<1>13. Games!Complete(s, row)
    BY <1>4, <1>11 DEF Games!Complete
<1>14. \A t, r : Games!Complete(t, r)' <=> Games!Complete(t, r)
    BY <1>6 DEF Games!Complete, Games!Library
<1>15. Told(q)'
    <2>1. q.left \union q.cur \union q.half \subseteq q.ids
        BY <1>6, <1>8, <1>10 DEF CallInv, Told
    <2>2. \A t \in Owner : \A g \in Games!Rows(q.got[t]) : q.got[t][g] <= now
        BY <1>6, <1>10, <1>11 DEF CallInv, Told
    <2>3. \A t \in q.ids \ q.half : Games!Complete(t, q.got[t])
        BY <1>6, <1>10, <1>13 DEF CallInv, Told, GamesCall
    <2>4. \A t : Games!Rows(q.got[t])' = Games!Rows(q.got[t])
        BY DEF Games!Rows
    <2>5. QED
        BY <1>6, <1>14, <2>1, <2>2, <2>3, <2>4 DEF Told
<1>16. CallInv(q)'
    BY <1>10, <1>12, <1>15 DEF CallInv
<1>17. RowsComplete'
    BY <1>1, <1>6, <1>7, UpdatesGoOn
<1>18. TablesInv'
    BY <1>6, TablesStay DEF GamesInv, TablesInv
<1>19. QED
    BY <1>6, <1>7, <1>16, <1>17, <1>18, CallStep

LEMMA EnsureGameStep == ASSUME GamesInv, NEW c \in Reader, Games!EnsureGame(c) PROVE GamesInv'
<1>1. PICK old : old = gamesCall[c]
    OBVIOUS
<1>2. PICK g \in old.new : game' = game \union {g} /\ Games!Set(c, [old EXCEPT !.open = {g}])
    BY <1>1 DEF Games!EnsureGame
<1>3. PICK q : q = [old EXCEPT !.open = {g}]
    OBVIOUS
<1>4. /\ UNCHANGED <<now, bought, player, owned, cut, faults>> /\ old.pc = "save"
      /\ CallInv(old) /\ old \in GamesCall /\ Games!Set(c, q) /\ g \in Game
    BY <1>1, <1>2, <1>3 DEF Games!EnsureGame, Games!At, GamesInv, GamesCall
<1>5. /\ q \in GamesCall /\ q.pc = "save" /\ q.ids = old.ids /\ q.left = old.left
      /\ q.cur = old.cur /\ q.asked = old.asked /\ q.new = old.new /\ q.open = {g}
      /\ q.half = old.half /\ q.got = old.got
    BY <1>3, <1>4 DEF GamesCall
<1>6. Thorough(q)'
    BY <1>2, <1>4, <1>5 DEF CallInv, Thorough
<1>7. \A s, row : Games!Complete(s, row)' <=> Games!Complete(s, row)
    BY <1>4 DEF Games!Complete, Games!Library
<1>8. Told(q)'
    BY <1>4, <1>5, <1>7 DEF CallInv, Told
<1>9. CallInv(q)'
    BY <1>5, <1>6, <1>8 DEF CallInv
<1>10. RowsComplete'
    BY <1>1, <1>4, <1>5, UpdatesGoOn
<1>11. TablesInv'
    BY <1>2, <1>4 DEF GamesInv, TablesInv
<1>12. QED
    BY <1>2, <1>4, <1>9, <1>10, <1>11, CallStep

LEMMA UpdateOwnedGameStep ==
    ASSUME GamesInv, NEW c \in Reader, Games!UpdateOwnedGame(c) PROVE GamesInv'
<1>1. PICK old : old = gamesCall[c]
    OBVIOUS
<1>2. PICK g \in old.open, s \in old.cur :
        /\ owned' = [owned EXCEPT ![s][g] = now]
        /\ Games!Set(c, [old EXCEPT !.open = {}, !.new = @ \ {g}])
    BY <1>1 DEF Games!UpdateOwnedGame
<1>3. PICK q : q = [old EXCEPT !.open = {}, !.new = @ \ {g}]
    OBVIOUS
<1>4. /\ UNCHANGED <<now, bought, player, game, cut, faults>> /\ old.pc = "save"
      /\ CallInv(old) /\ old \in GamesCall /\ Games!Set(c, q) /\ now \in 0..MaxNow
    BY <1>1, <1>2, <1>3 DEF Games!UpdateOwnedGame, Games!At, GamesInv, TablesInv
<1>5. g \in Game /\ g \in game /\ s \in Owner /\ s \in player
    BY <1>4 DEF CallInv, Thorough, Told, GamesCall
<1>6. /\ q \in GamesCall /\ q.pc = "save" /\ q.ids = old.ids /\ q.left = old.left
      /\ q.cur = old.cur /\ q.asked = old.asked /\ q.new = old.new \ {g} /\ q.open = {}
      /\ q.half = old.half /\ q.got = old.got
    BY <1>3, <1>4 DEF GamesCall
<1>7. /\ owned' \in [Owner -> [Game -> 0..now \union {Games!Never}]]
      /\ \A t \in Owner \ {s} : owned'[t] = owned[t]
      /\ Games!Rows(owned'[s]) = Games!Rows(owned[s]) \union {g}
    <2>1. owned \in [Owner -> [Game -> 0..now \union {Games!Never}]]
        BY DEF GamesInv, TablesInv
    <2>2. owned'[s] = [owned[s] EXCEPT ![g] = now] /\ \A t \in Owner \ {s} : owned'[t] = owned[t]
        BY <1>2, <1>5, <2>1
    <2>3. now \in 0..now \union {Games!Never} /\ now # Games!Never
        BY <1>4, Nevers
    <2>4. owned' \in [Owner -> [Game -> 0..now \union {Games!Never}]]
        BY <1>2, <1>5, <2>1, <2>3
    <2>5. Games!Rows(owned'[s]) = Games!Rows(owned[s]) \union {g}
        BY <1>5, <2>1, <2>2, <2>3 DEF Games!Rows
    <2>6. QED
        BY <2>2, <2>4, <2>5
<1>8. \A t \in Owner : Games!Rows(owned[t]) \subseteq Games!Rows(owned'[t])
    BY <1>7
<1>9. TablesInv'
    <2>1. \A t \in Owner : Games!Rows(owned'[t]) # {} =>
            t \in player /\ Games!Rows(owned'[t]) \subseteq game
        BY <1>5, <1>7 DEF GamesInv, TablesInv
    <2>2. \A t : Games!Rows(owned[t])' = Games!Rows(owned'[t])
        BY DEF Games!Rows
    <2>3. QED
        BY <1>4, <1>7, <2>1, <2>2 DEF GamesInv, TablesInv
<1>10. Thorough(q)'
    <2>1. \A t \in q.cur : t = s
        BY <1>2, <1>4, <1>6 DEF CallInv, Thorough
    <2>2. \A h \in Game :
            bought[s][h] < q.asked => h \in q.new \/ h \in Games!Rows(owned'[s])
        BY <1>2, <1>4, <1>6, <1>7 DEF CallInv, Thorough
    <2>3. Games!Rows(owned[s])' = Games!Rows(owned'[s])
        BY DEF Games!Rows
    <2>4. QED
        BY <1>4, <1>6, <2>1, <2>2, <2>3 DEF CallInv, Thorough
<1>11. \A t, row : Games!Complete(t, row)' <=> Games!Complete(t, row)
    BY <1>4 DEF Games!Complete, Games!Library
<1>12. Told(q)'
    BY <1>4, <1>6, <1>11 DEF CallInv, Told
<1>13. CallInv(q)'
    BY <1>6, <1>10, <1>12 DEF CallInv
<1>14. RowsComplete'
    <2> SUFFICES ASSUME NEW t \in Owner, t \notin cut, ~Games!Updating(t)'
                 PROVE  Games!Complete(t, owned'[t])
        BY <1>4, <1>11 DEF RowsComplete
    <2>1. gamesCall' = [gamesCall EXCEPT ![c] = q] /\ gamesCall'[c] = q
        BY <1>4 DEF Games!Set, GamesInv
    <2>2. Games!Updating(s)'
        BY <1>2, <1>6, <2>1 DEF Games!Updating
    <2>3. Games!Updating(t) => Games!Updating(t)'
        BY <1>1, <1>4, <1>6, <2>1 DEF Games!Updating, GamesInv
    <2>4. QED
        BY <1>7, <2>2, <2>3 DEF GamesInv, RowsComplete
<1>15. QED
    BY <1>4, <1>8, <1>9, <1>13, <1>14, CallStep

\* An update that has nothing more to store has a row for each game that its player
\* had MaxTime ago.
LEMMA ThoroughIsComplete ==
    ASSUME TablesInv, NEW q, q \in GamesCall, Thorough(q), q.pc = "save", q.new = {}, NEW s \in q.cur
    PROVE  Games!Complete(s, owned[s])
<1> SUFFICES ASSUME NEW g \in Games!Library(s), NEW h \in Games!Rows(owned[s]),
                    bought[s][g] + MaxTime < owned[s][h]
             PROVE  g \in Games!Rows(owned[s])
    BY DEF Games!Complete
<1>1. /\ g \in Game /\ h \in Game /\ s \in Owner /\ now \in Nat
      /\ bought[s][g] \in 0..now /\ owned[s][h] \in 0..now
      /\ q.asked \in Nat /\ now - q.asked <= MaxTime
    BY TimeAssumption DEF TablesInv, Games!Library, Games!Rows, GamesCall, Thorough
<1>2. bought[s][g] < q.asked
    BY <1>1, TimeAssumption
<1>3. QED
    BY <1>1, <1>2 DEF Thorough

LEMMA UpdatedStep == ASSUME GamesInv, NEW c \in Reader, Games!Updated(c) PROVE GamesInv'
<1>1. PICK old : old = gamesCall[c]
    OBVIOUS
<1>2. PICK q : q = [old EXCEPT !.pc = "ask", !.cur = {}, !.asked = 0]
    OBVIOUS
<1>3. /\ UNCHANGED <<now, bought, player, game, owned, faults>> /\ old.pc = "save"
      /\ old.new = {} /\ cut' = cut \ old.cur
      /\ CallInv(old) /\ old \in GamesCall /\ Games!Set(c, q)
    BY <1>1, <1>2 DEF Games!Updated, Games!At, GamesInv
<1>4. /\ q \in GamesCall /\ q.pc = "ask" /\ q.ids = old.ids /\ q.left = old.left
      /\ q.cur = {} /\ q.new = {} /\ q.open = old.open
      /\ q.half = old.half /\ q.got = old.got
    <2>1. 0 \in 0..MaxNow
        BY TimeAssumption
    <2>2. QED
        BY <1>2, <1>3, <2>1 DEF GamesCall
<1>5. Thorough(q)'
    BY <1>3, <1>4 DEF CallInv, Thorough
<1>6. \A s, row : Games!Complete(s, row)' <=> Games!Complete(s, row)
    BY <1>3 DEF Games!Complete, Games!Library
<1>7. Told(q)'
    BY <1>3, <1>4, <1>6 DEF CallInv, Told
<1>8. CallInv(q)'
    BY <1>4, <1>5, <1>7 DEF CallInv
<1>9. RowsComplete'
    <2> SUFFICES ASSUME NEW t \in Owner, t \notin cut', ~Games!Updating(t)'
                 PROVE  Games!Complete(t, owned[t])
        BY <1>3, <1>6 DEF RowsComplete
    <2>1. CASE t \in old.cur
        BY <1>3, <2>1, ThoroughIsComplete DEF GamesInv, CallInv
    <2>2. CASE t \notin old.cur
        <3>1. gamesCall' = [gamesCall EXCEPT ![c] = q]
            BY <1>3 DEF Games!Set
        <3>2. ~Games!Updating(t)
            BY <1>1, <2>2, <3>1 DEF Games!Updating, GamesInv
        <3>3. QED
            BY <1>3, <2>2, <3>2 DEF GamesInv, RowsComplete
    <2>3. QED
        BY <2>1, <2>2
<1>10. TablesInv'
    BY <1>3, TablesStay DEF GamesInv, TablesInv
<1>11. QED
    BY <1>3, <1>8, <1>9, <1>10, CallStep

LEMMA AnswerStep == ASSUME GamesInv, NEW c \in Reader, Games!Answer(c) PROVE GamesInv'
<1>1. PICK old : old = gamesCall[c]
    OBVIOUS
<1>2. PICK q : q = [old EXCEPT !.pc = "done"]
    OBVIOUS
<1>3. /\ UNCHANGED <<now, bought, player, game, owned, cut, faults>> /\ old.pc = "ask"
      /\ CallInv(old) /\ old \in GamesCall /\ Games!Set(c, q)
    BY <1>1, <1>2 DEF Games!Answer, Games!At, GamesInv
<1>4. /\ q \in GamesCall /\ q.pc = "done" /\ q.ids = old.ids /\ q.left = old.left
      /\ q.cur = old.cur /\ q.new = old.new /\ q.open = old.open
      /\ q.half = old.half /\ q.got = old.got
    BY <1>2, <1>3 DEF GamesCall
<1>5. Thorough(q)'
    BY <1>3, <1>4 DEF CallInv, Thorough
<1>6. \A s, row : Games!Complete(s, row)' <=> Games!Complete(s, row)
    BY <1>3 DEF Games!Complete, Games!Library
<1>7. Told(q)'
    BY <1>3, <1>4, <1>6 DEF CallInv, Told
<1>8. CallInv(q)'
    BY <1>4, <1>5, <1>7 DEF CallInv
<1>9. RowsComplete'
    BY <1>1, <1>3, UpdatesGoOn
<1>10. TablesInv'
    BY <1>3, TablesStay DEF GamesInv, TablesInv
<1>11. QED
    BY <1>3, <1>8, <1>9, <1>10, CallStep

\* An update that fails with games still to store cuts its player's rows short.
LEMMA FailStep == ASSUME GamesInv, NEW c \in Reader, Games!Fail(c) PROVE GamesInv'
<1>1. PICK old : old = gamesCall[c]
    OBVIOUS
<1>2. PICK q : q = [Games!NoCall EXCEPT !.pc = "error"]
    OBVIOUS
<1>3. /\ UNCHANGED <<now, bought, player, game, owned>>
      /\ (UNCHANGED faults \/ Games!Fault)
      /\ old.new = {} => cut' = cut
      /\ old.new # {} => cut' = cut \union old.cur
      /\ CallInv(old) /\ old \in GamesCall /\ Games!Set(c, q)
    BY <1>1, <1>2 DEF Games!Fail, GamesInv
<1>4. CallInv(q)'
    BY <1>2, <1>3, NothingCalledLater
<1>5. RowsComplete'
    <2> SUFFICES ASSUME NEW t \in Owner, t \notin cut', ~Games!Updating(t)'
                 PROVE  Games!Complete(t, owned[t])
        BY <1>3 DEF RowsComplete, Games!Complete, Games!Library
    <2>1. CASE old.pc = "save" /\ t \in old.cur
        <3>1. old.new = {}
            BY <1>3, <2>1
        <3>2. QED
            BY <1>3, <2>1, <3>1, ThoroughIsComplete DEF GamesInv, CallInv
    <2>2. CASE ~(old.pc = "save" /\ t \in old.cur)
        <3>1. gamesCall' = [gamesCall EXCEPT ![c] = q] /\ t \notin cut
            BY <1>3 DEF Games!Set
        <3>2. ~Games!Updating(t)
            BY <1>1, <2>2, <3>1 DEF Games!Updating, GamesInv
        <3>3. QED
            BY <1>3, <3>1, <3>2 DEF GamesInv, RowsComplete
    <2>3. QED
        BY <2>1, <2>2
<1>6. TablesInv'
    <2>1. cut' \subseteq Owner
        BY <1>3 DEF GamesInv, TablesInv, GamesCall
    <2>2. QED
        BY <1>3, <2>1, TablesStay DEF GamesInv
<1>7. QED
    BY <1>3, <1>4, <1>5, <1>6, CallStep

LEMMA ReturnStep == ASSUME GamesInv, NEW c \in Reader, Games!Return(c) PROVE GamesInv'
<1>1. PICK q : q = [Games!NoCall EXCEPT !.pc = "idle"]
    OBVIOUS
<1>2. q = Games!NoCall
    BY <1>1, NoCallFits DEF CallInv, GamesCall
<1>3. /\ UNCHANGED <<now, bought, player, game, owned, cut, faults>> /\ Games!Set(c, q)
      /\ gamesCall[c].pc # "save"
    BY <1>2 DEF Games!Return
<1>4. CallInv(q)'
    BY <1>1, <1>3, NothingCalledLater
<1>5. RowsComplete'
    BY <1>3, UpdatesGoOn
<1>6. TablesInv'
    BY <1>3, TablesStay DEF GamesInv, TablesInv
<1>7. QED
    BY <1>3, <1>4, <1>5, <1>6, CallStep

\* The process ends, and with it every request.
LEMMA RestartStep == ASSUME GamesInv, Games!Restart PROVE GamesInv'
<1>1. PICK q : q = [Games!NoCall EXCEPT !.pc = "idle"]
    OBVIOUS
<1>2. q = Games!NoCall /\ q \in GamesCall
    BY <1>1, NoCallFits DEF CallInv, GamesCall
<1>3. /\ UNCHANGED <<now, bought, player, game, owned>> /\ Games!Fault
      /\ cut' = cut \union {s \in Owner : Games!Updating(s)}
      /\ gamesCall' = [c \in Reader |-> q]
    BY <1>2 DEF Games!Restart
<1>4. CallInv(q)'
    BY <1>1, <1>3, NothingCalledLater
<1>5. gamesCall' \in [Reader -> GamesCall] /\ \A c \in Reader : CallInv(gamesCall[c])'
    BY <1>2, <1>3, <1>4
<1>6. RowsComplete'
    BY <1>3 DEF GamesInv, RowsComplete, Games!Complete, Games!Library
<1>7. TablesInv'
    BY <1>3, TablesStay DEF GamesInv, TablesInv
<1>8. QED
    BY <1>5, <1>6, <1>7 DEF GamesInv

\* A game that is bought now has been bought after all that is stored.
LEMMA BuyStep ==
    ASSUME GamesInv, NEW s \in Owner, NEW g \in Game, Games!Buy(s, g) PROVE GamesInv'
<1>1. /\ UNCHANGED <<now, player, game, owned, gamesCall, cut, faults>>
      /\ bought' = [bought EXCEPT ![s][g] = now] /\ now \in 0..MaxNow /\ now \in Nat
      /\ bought \in [Owner -> [Game -> 0..now \union {Games!Never}]]
    BY TimeAssumption DEF Games!Buy, GamesInv, TablesInv
<1>2. now \in 0..now \union {Games!Never}
    BY <1>1
<1>3. bought' \in [Owner -> [Game -> 0..now \union {Games!Never}]]
    BY <1>1, <1>2
<1>4. \A t \in Owner, h \in Game : bought'[t][h] = bought[t][h] \/ bought'[t][h] = now
    BY <1>1
<1>5. ASSUME NEW t \in Owner, NEW row \in Row, Games!Complete(t, row),
             \A h \in Games!Rows(row) : row[h] <= now
      PROVE  Games!Complete(t, row)'
    <2> SUFFICES ASSUME NEW k \in Game, NEW h \in Games!Rows(row),
                        bought'[t][k] # Games!Never, bought'[t][k] + MaxTime < row[h]
                 PROVE  k \in Games!Rows(row)
        BY DEF Games!Complete, Games!Library, Games!Rows
    <2>1. row[h] \in Nat /\ row[h] <= now
        BY <1>5, TimeAssumption DEF Row, Games!Rows
    <2>2. bought'[t][k] # now
        BY <1>1, <2>1, TimeAssumption
    <2>3. bought'[t][k] = bought[t][k]
        BY <1>4, <2>2
    <2>4. QED
        BY <1>5, <2>3 DEF Games!Complete, Games!Library
<1>6. ASSUME NEW c \in Reader PROVE CallInv(gamesCall[c])'
    <2>1. PICK q : q = gamesCall[c]
        OBVIOUS
    <2>2. CallInv(q) /\ q \in GamesCall /\ q.asked \in Nat
        BY <2>1, TimeAssumption DEF GamesInv, GamesCall
    <2>3. Thorough(q)'
        <3>1. ASSUME q.pc = "save", NEW t \in q.cur, NEW h \in Game, bought'[t][h] < q.asked
              PROVE  bought[t][h] < q.asked
            <4>1. t \in Owner /\ q.asked <= now
                BY <2>2, <3>1 DEF CallInv, Thorough, GamesCall
            <4>2. bought'[t][h] # now
                BY <1>1, <2>2, <3>1, <4>1
            <4>3. QED
                BY <1>4, <3>1, <4>1, <4>2
        <3>2. QED
            BY <1>1, <2>2, <3>1 DEF CallInv, Thorough, Games!Rows
    <2>4. Told(q)'
        <3>1. \A t \in Owner : q.got[t] \in Row
            BY <2>2 DEF GamesCall
        <3>2. \A t \in q.ids : t \in Owner
            BY <2>2 DEF GamesCall
        <3>3. \A t \in q.ids \ q.half : Games!Complete(t, q.got[t])'
            BY <1>5, <2>2, <3>1, <3>2 DEF CallInv, Told
        <3>4. QED
            BY <1>1, <2>2, <3>3 DEF CallInv, Told, Games!Rows
    <2>5. QED
        BY <1>1, <2>1, <2>2, <2>3, <2>4 DEF CallInv
<1>7. RowsComplete'
    <2>1. \A t \in Owner : Games!Updating(t)' <=> Games!Updating(t)
        BY <1>1 DEF Games!Updating
    <2>2. \A t \in Owner : owned[t] \in Row /\ \A h \in Games!Rows(owned[t]) : owned[t][h] <= now
        BY TimeAssumption DEF GamesInv, TablesInv, Games!Never, Games!Rows, Row
    <2>3. \A t \in Owner : Games!Complete(t, owned[t]) => Games!Complete(t, owned[t])'
        BY <1>1, <1>5, <2>2 DEF Games!Complete, Games!Library, Games!Rows
    <2>4. QED
        BY <1>1, <2>1, <2>3 DEF GamesInv, RowsComplete
<1>8. TablesInv'
    BY <1>1, <1>3 DEF GamesInv, TablesInv, Games!Rows
<1>9. QED
    BY <1>1, <1>6, <1>7, <1>8 DEF GamesInv

\* Time goes on, but for an update that has lasted as long as it can.
LEMMA LaterTables ==
    ASSUME GamesInv, UNCHANGED <<bought, player, game, owned, gamesCall, cut>>,
           now' \in now..MaxNow, faults' \in 0..MaxFaults
    PROVE  /\ TablesInv' /\ RowsComplete' /\ now \in Nat /\ now' \in Nat /\ now <= now'
           /\ \A c \in Reader : Told(gamesCall[c])'
<1>1. now \in 0..MaxNow
    BY DEF GamesInv, TablesInv
<1>2. now \in Nat /\ now' \in 0..MaxNow /\ now' \in Nat /\ now <= now' /\ 0..now \subseteq 0..now'
    BY <1>1, TimeAssumption
<1>3. TablesInv'
    <2>1. \A f : f \in [Game -> 0..now \union {Games!Never}]
                    => f \in [Game -> 0..now' \union {Games!Never}]
        BY <1>2
    <2>2. \A f : f \in [Owner -> [Game -> 0..now \union {Games!Never}]]
                    => f \in [Owner -> [Game -> 0..now' \union {Games!Never}]]
        BY <2>1
    <2>3. QED
        BY <1>2, <2>2 DEF GamesInv, TablesInv, Games!Rows
<1>4. \A s, row : Games!Complete(s, row)' <=> Games!Complete(s, row)
    BY DEF Games!Complete, Games!Library
<1>5. RowsComplete'
    BY <1>4 DEF GamesInv, RowsComplete, Games!Updating
<1>6. ASSUME NEW c \in Reader PROVE Told(gamesCall[c])'
    <2>1. PICK q : q = gamesCall[c] /\ gamesCall'[c] = q
        OBVIOUS
    <2>2. q \in GamesCall /\ Told(q)
        BY <2>1 DEF GamesInv, CallInv
    <2>3. \A s \in Owner : \A g \in Games!Rows(q.got[s]) : q.got[s][g] <= now'
        <3> SUFFICES ASSUME NEW s \in Owner, NEW g \in Games!Rows(q.got[s])
                     PROVE  q.got[s][g] <= now'
            OBVIOUS
        <3>1. g \in Game /\ q.got[s] \in Row /\ q.got[s][g] <= now
            BY <2>2 DEF GamesCall, Told, Games!Rows
        <3>2. q.got[s][g] \in Nat
            BY <3>1, TimeAssumption DEF Row
        <3>3. QED
            BY <1>2, <3>1, <3>2
    <2>4. Told(q)'
        BY <1>4, <2>2, <2>3 DEF Told, Games!Rows
    <2>5. QED
        BY <2>1, <2>4
<1>7. QED
    BY <1>2, <1>3, <1>5, <1>6

LEMMA GamesTickStep == ASSUME GamesInv, Games!Tick PROVE GamesInv'
<1>1. /\ now' = now + 1 /\ now < MaxNow
      /\ UNCHANGED <<bought, player, game, owned, gamesCall, cut, faults>>
      /\ \A c \in Reader : gamesCall[c].pc = "save" => now - gamesCall[c].asked < MaxTime
    BY DEF Games!Tick, Games!At
<1>2. now' \in now..MaxNow /\ faults' \in 0..MaxFaults
    BY <1>1, TimeAssumption DEF GamesInv, TablesInv
<1>3. /\ TablesInv' /\ RowsComplete' /\ now \in Nat /\ now' \in Nat /\ now <= now'
      /\ \A c \in Reader : Told(gamesCall[c])'
    BY <1>1, <1>2, LaterTables
<1>4. ASSUME NEW c \in Reader PROVE CallInv(gamesCall[c])'
    <2>1. PICK q : q = gamesCall[c] /\ gamesCall'[c] = q
        BY <1>1
    <2>2. q \in GamesCall /\ CallInv(q) /\ q.asked \in Nat
        BY <2>1, TimeAssumption DEF GamesInv, GamesCall
    <2>3. q.pc = "save" => q.asked <= now' /\ now' - q.asked <= MaxTime
        BY <1>1, <1>3, <2>1, <2>2, TimeAssumption DEF CallInv, Thorough
    <2>4. Thorough(q)'
        BY <1>1, <2>2, <2>3 DEF CallInv, Thorough, Games!Rows
    <2>5. QED
        BY <1>3, <2>1, <2>2, <2>4 DEF CallInv
<1>5. QED
    BY <1>1, <1>3, <1>4 DEF GamesInv

LEMMA GamesStep == ASSUME GamesInv, Games!Next PROVE GamesInv'
BY BeginStep, EnsurePlayersStep, QueryStep, AskStep, EnsureGameStep, UpdateOwnedGameStep,
   UpdatedStep, AnswerStep, FailStep, ReturnStep, RestartStep, BuyStep, GamesTickStep
   DEF Games!Next

\* A step of another part: no request, the clock and the faults may go on.
LEMMA GamesRest ==
    ASSUME GamesInv, \A c \in Reader : gamesCall[c] = Games!NoCall, UNCHANGED games,
           now' \in now..MaxNow, faults' \in 0..MaxFaults
    PROVE  GamesInv'
<1>1. UNCHANGED <<bought, player, game, owned, gamesCall, cut>>
    BY DEF games
<1>2. TablesInv' /\ RowsComplete' /\ \A c \in Reader : Told(gamesCall[c])'
    BY <1>1, LaterTables
<1>3. ASSUME NEW c \in Reader PROVE CallInv(gamesCall[c])'
    <2>1. PICK q : q = gamesCall[c] /\ gamesCall'[c] = q
        BY <1>1
    <2>2. q.pc = "idle" /\ q \in GamesCall /\ CallInv(q)
        BY <2>1, NoCallFits DEF GamesInv
    <2>3. Thorough(q)'
        BY <1>1, <2>2 DEF CallInv, Thorough
    <2>4. QED
        BY <1>2, <2>1, <2>2, <2>3 DEF CallInv
<1>4. QED
    BY <1>1, <1>2, <1>3 DEF GamesInv

LEMMA GamesProperties == GamesInv => Games!TypeOK /\ Games!GamesComplete
<1> SUFFICES ASSUME GamesInv PROVE Games!TypeOK /\ Games!GamesComplete
    OBVIOUS
<1>1. Games!TypeOK
    BY DEF GamesInv, TablesInv, CallInv, Thorough, Told, GamesCall, Games!TypeOK
<1>2. Games!GamesComplete
    BY DEF GamesInv, CallInv, Told, Games!GamesComplete
<1>3. QED
    BY <1>1, <1>2

----------------------------------------------------------------------------
(* The three of them. *)

LEMMA InitIInv == APIInit => IInv
<1> SUFFICES ASSUME APIInit PROVE IInv
    OBVIOUS
<1>1. SteamInv /\ StatsInv /\ GamesInv
    BY SteamInit, StatsInit, GamesInit DEF APIInit
<1>2. OthersIdle
    BY DEF OthersIdle, APIInit, Init, Stats!Init, Games!Init
<1>3. QED
    BY <1>1, <1>2 DEF IInv, APIInit

\* Whichever part makes a step, the clock does not go back, and goes no further than
\* its bound.
LEMMA SteamTime == ASSUME SteamInv, Next PROVE now' \in now..MaxNow /\ faults' \in 0..MaxFaults
<1>1. now \in 0..MaxNow /\ faults \in 0..MaxFaults
    BY DEF SteamInv
<1>2. (now' = now \/ (now < MaxNow /\ now' = now + 1)) /\ (faults' = faults \/ Fault)
    BY DEF Next, Start, Read, ReadFriends, CacheDone, AskSteam, SteamFails, Create, Write,
           SetFails, Stored, Return, Crash, Tick
<1>3. QED
    BY <1>1, <1>2, TimeAssumption, FaultsAssumption DEF Fault

LEMMA StatsTime ==
    ASSUME StatsInv, Stats!Next PROVE now' \in now..MaxNow /\ faults' \in 0..MaxFaults
<1>1. now \in 0..MaxNow /\ faults \in 0..MaxFaults
    BY DEF StatsInv, Stats!TypeOK
<1>2. (now' = now \/ (now < MaxNow /\ now' = now + 1)) /\ (faults' = faults \/ Stats!Fault)
    BY DEF Stats!Next, Stats!Look, Stats!Load, Stats!LoadFails, Stats!Store, Stats!Read,
           Stats!Return, Stats!Restart, Stats!Tick
<1>3. QED
    BY <1>1, <1>2, TimeAssumption, FaultsAssumption DEF Stats!Fault

LEMMA GamesTime ==
    ASSUME GamesInv, Games!Next PROVE now' \in now..MaxNow /\ faults' \in 0..MaxFaults
<1>1. now \in 0..MaxNow /\ faults \in 0..MaxFaults
    BY DEF GamesInv, TablesInv
<1>2. (now' = now \/ (now < MaxNow /\ now' = now + 1)) /\ (faults' = faults \/ Games!Fault)
    BY DEF Games!Next, Games!Begin, Games!EnsurePlayers, Games!Query, Games!Ask,
           Games!EnsureGame, Games!UpdateOwnedGame, Games!Updated, Games!Answer, Games!Fail,
           Games!Return, Games!Restart, Games!Buy, Games!Tick
<1>3. QED
    BY <1>1, <1>2, TimeAssumption, FaultsAssumption DEF Games!Fault

LEMMA NextIInv == IInv /\ [APINext]_<<part, vars, games, kept>> => IInv'
<1> SUFFICES ASSUME IInv, [APINext]_<<part, vars, games, kept>> PROVE IInv'
    OBVIOUS
<1>1. CASE part = "steam" /\ Next /\ UNCHANGED <<part, games, kept>>
    <2>1. /\ \A r \in Reader : statsCall[r] = Stats!NoCall
          /\ \A r \in Reader : gamesCall[r] = Games!NoCall
        BY <1>1 DEF IInv, OthersIdle
    <2>2. SteamInv'
        BY <1>1, SteamStep DEF IInv
    <2>3. StatsInv' /\ GamesInv'
        BY <1>1, <2>1, SteamTime, StatsRest, GamesRest DEF IInv
    <2>4. OthersIdle'
        BY <1>1, <2>1 DEF OthersIdle, games, kept
    <2>5. QED
        BY <1>1, <2>2, <2>3, <2>4 DEF IInv
<1>2. CASE part = "games" /\ Games!Next /\ UNCHANGED <<part, steam, kept>>
    <2>1. /\ \A r \in Reader : statsCall[r] = Stats!NoCall
          /\ \A r \in Reader : req[r] = NoLookup
        BY <1>2 DEF IInv, OthersIdle
    <2>2. GamesInv'
        BY <1>2, GamesStep DEF IInv
    <2>3. StatsInv' /\ SteamInv'
        BY <1>2, <2>1, GamesTime, StatsRest, SteamRest DEF IInv
    <2>4. OthersIdle'
        BY <1>2, <2>1 DEF OthersIdle, steam, kept
    <2>5. QED
        BY <1>2, <2>2, <2>3, <2>4 DEF IInv
<1>3. CASE part = "stats" /\ Stats!Next /\ UNCHANGED <<part, steam, games>>
    <2>1. /\ \A r \in Reader : gamesCall[r] = Games!NoCall
          /\ \A r \in Reader : req[r] = NoLookup
        BY <1>3 DEF IInv, OthersIdle
    <2>2. StatsInv'
        BY <1>3, StatsStep DEF IInv
    <2>3. GamesInv' /\ SteamInv'
        BY <1>3, <2>1, StatsTime, GamesRest, SteamRest DEF IInv
    <2>4. OthersIdle'
        BY <1>3, <2>1 DEF OthersIdle, steam, games
    <2>5. QED
        BY <1>3, <2>2, <2>3, <2>4 DEF IInv
<1>4. CASE UNCHANGED <<part, vars, games, kept>>
    <2>1. /\ UNCHANGED <<part, kind, now, file, req, faults>> /\ UNCHANGED games
          /\ UNCHANGED kept
        BY <1>4 DEF vars
    <2>2. /\ UNCHANGED <<stats, updated, statsCall>>
          /\ UNCHANGED <<bought, player, game, owned, gamesCall, cut>>
        BY <2>1 DEF games, kept
    <2>3. SteamInv'
        BY <2>1 DEF IInv, SteamInv, FileInv, LookupInv, Timely, Young, Accounted
    <2>4. StatsInv'
        BY <2>1, <2>2 DEF IInv, StatsInv, Stats!TypeOK, Stats!Time, Stats!StatsFresh
    <2>5. GamesInv'
        BY <2>1, <2>2 DEF IInv, GamesInv, TablesInv, RowsComplete, CallInv, Thorough, Told,
                          Games!Rows, Games!Complete, Games!Library, Games!Updating
    <2>6. OthersIdle'
        BY <2>1, <2>2 DEF IInv, OthersIdle
    <2>7. QED
        BY <2>1, <2>3, <2>4, <2>5, <2>6 DEF IInv
<1>5. QED
    BY <1>1, <1>2, <1>3, <1>4 DEF APINext

LEMMA Inductive == APISpec => []IInv
BY InitIInv, NextIInv, PTL DEF APISpec

----------------------------------------------------------------------------
(* The theorems. *)

\* Files, tables, statistics and requests have their types; and whoever has rows in
\* steam_game_owned is in the player table, his games in steam_game, as the foreign
\* keys demand (store.go, ensureSteamGame, updateOwnedGame).
THEOREM TypesCorrect == APISpec => []APITypeOK
<1>1. IInv => APITypeOK
    BY SteamProperties, GamesProperties DEF IInv, StatsInv, APITypeOK
<1>2. QED
    BY <1>1, Inductive, PTL

\* A lookup of Steam's reports (steam.go) has one for each player whom Steam knows, or
\* it has failed: no torn or empty file stands for one, however requests and crashes
\* interleave while they write the same files (cache.go).
THEOREM LookupsComplete == APISpec => []AnswerComplete
<1>1. IInv => AnswerComplete
    BY SteamProperties DEF IInv
<1>2. QED
    BY <1>1, Inductive, PTL

\* A list of games (getOwnedGames, updateOwnedGames) has all that its player owned an
\* update's time before its newest row, unless it was read while it was being stored,
\* or its last update was cut short: however many updates of one player are under way.
THEOREM ListsOfGamesComplete == APISpec => []GamesComplete
<1>1. IInv => GamesComplete
    BY GamesProperties DEF IInv, GamesComplete
<1>2. QED
    BY <1>1, Inductive, PTL

\* No report and no statistics are answered that are older than their age and what one
\* or two requests last (fsCache.get, handleGetStats), whatever slow writers put over
\* newer ones.
THEOREM AnswersStayFresh == APISpec => []AnswersFresh
<1>1. IInv => AnswersFresh
    BY SteamProperties DEF IInv, StatsInv, AnswersFresh
<1>2. QED
    BY <1>1, Inductive, PTL
=============================================================================
