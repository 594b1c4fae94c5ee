-------------------------- MODULE SourcebansProofs --------------------------
(***************************************************************************)
(* For any sites, themes, lists of bans and pages of any length, and any   *)
(* number of faults: if the parsers read single pages as they should       *)
(* (PagesParsed), the walks keep to the types, store nothing but what      *)
(* their own site lists, and pass over no ban they have met. And the       *)
(* parsers do, whatever names, ids, times, lengths and reasons read like,  *)
(* as long as expiries and some names do not read like keys (PlainLists).  *)
(***************************************************************************)
EXTENDS Sourcebans, SequenceTheorems, FiniteSetTheorems, WellFoundedInduction, TLAPS

----------------------------------------------------------------------------
(* The inductive invariant. *)

Walk ==
    [pc      : {"idle", "visit", "select", "insert", "save"},
     url     : Int,
     next    : Int,
     last    : Int,
     visited : SUBSET Int,
     todo    : Seq(Row)]

Job == [pc : {"idle", "sites", "run"}, todo : SUBSET Site, late : BOOLEAN]

\* The addresses of a site that lists its first n bans.
Pages(n) == Home..PageCount(n)

SitesOK ==
    /\ theme \in [Site -> Theme]
    /\ listed \in [Site -> Nat]
    /\ \A s \in Site : listed[s] \in 1..Len(Bans[s])

\* A page is kept as of a time at which there was such a page.
CacheOK ==
    /\ DOMAIN cache = Site
    /\ \A s \in Site : cache[s] \in [Addresses(s) -> Denied..listed[s]]
    /\ \A s \in Site : \A u \in Addresses(s) : cache[s][u] > 0 => u \in Pages(cache[s][u])

TablesOK ==
    /\ bans \in [Site -> SUBSET Row]
    /\ lost \in [Site -> SUBSET Row]
    /\ \A s \in Site : \A r \in bans[s] : s \in site /\ r.sid \in player

\* The sites have their ids by the time the walks begin. Only a fault makes a job late.
JobOK ==
    /\ job \in Job
    /\ job.pc = "sites" => Site \ job.todo \subseteq site
    /\ job.pc = "run" => Site \subseteq site
    /\ job.pc # "run" => walk = [s \in Site |-> NoWalk]
    /\ faults \in 0..MaxFaults
    /\ job.late => faults # 0

\* A walk only comes to addresses the site has had, and it is through with a page before
\* it goes to the next.
WalkOK(s) ==
    /\ walk[s].url \in Pages(listed[s]) \union {None}
    /\ walk[s].next \in Pages(listed[s]) \union {None}
    /\ walk[s].visited \subseteq Pages(listed[s])
    /\ walk[s].pc \in {"idle", "visit"} => walk[s].todo = <<>>
    /\ walk[s].pc \in {"insert", "save"} => walk[s].todo # <<>>
    /\ walk[s].pc = "save" => Current(s).sid \in player

WalksOK == walk \in [Site -> Walk] /\ \A s \in Site : WalkOK(s)

Types == SitesOK /\ CacheOK /\ TablesOK /\ JobOK /\ WalksOK

\* Another site's goroutine has inserted the player, and has stored or will store its ban.
WonByOther(s, r) ==
    \E t \in Site \ {s} :
        \/ \E q \in bans[t] : q.sid = r.sid
        \/ At(t, "save") /\ Current(t).sid = r.sid

\* A goroutine that found the player missing was the one that inserts him, or another has.
Overtaken ==
    faults = 0 =>
        \A s \in Site : At(s, "insert") /\ Current(s).sid \in player => WonByOther(s, Current(s))

LostRacesWon == faults = 0 => \A s \in Site : \A r \in lost[s] : WonByOther(s, r)

\* What has become of a ban a walk has met.
Met(s, b) ==
    Reported(b) => \/ Stored(s, Said(b))
                   \/ Said(b) \in ToSet(walk[s].todo) \union lost[s]

SeenTo(s) == \A u \in walk[s].visited : \A b \in Kept(s, u) : Met(s, b)

BansSeenTo == \A s \in Site : SeenTo(s)

FromList(s, r) == \E b \in Listed(s) : ComesFrom(r, b)

OnlyListed(s) == \A r \in ToSet(walk[s].todo) \union bans[s] : FromList(s, r)

AllListed == \A s \in Site : OnlyListed(s)

IInv ==
    /\ Types
    /\ Overtaken /\ LostRacesWon
    /\ BansSeenTo
    /\ AllListed

----------------------------------------------------------------------------
(* Numbers of pages. *)

LEMMA PageCounts ==
    ASSUME NEW n \in Nat \ {0} PROVE PageCount(n) \in Nat \ {0}
BY PerPageAssumption DEF PageCount

LEMMA PageCountGrows ==
    ASSUME NEW m \in Nat \ {0}, NEW n \in Nat, m <= n PROVE PageCount(m) <= PageCount(n)
BY PerPageAssumption DEF PageCount

\* A site that lists more bans has all the addresses it had.
LEMMA PagesGrow ==
    ASSUME NEW m \in Nat \ {0}, NEW n \in Nat, m <= n
    PROVE  /\ Pages(m) \subseteq Pages(n)
           /\ Pages(m) \subseteq Int
           /\ Start \in Pages(m) /\ Home \in Pages(m)
<1>1. PageCount(m) \in Nat \ {0} /\ PageCount(n) \in Nat \ {0}
  BY PageCounts
<1>2. PageCount(m) <= PageCount(n)
  BY PageCountGrows
<1> QED BY <1>1, <1>2 DEF Pages, Start, Home

\* The number of the page at an address.
LEMMA PageNumbers ==
    ASSUME NEW n \in Nat \ {0}, NEW u \in Pages(n), u # Home
    PROVE  PageOf(u) \in 1..PageCount(n)
<1>1. PageCount(n) \in Nat \ {0}
  BY PageCounts
<1> QED BY <1>1 DEF Pages, Start, Home, PageOf

\* Every link leads to an address of the site, or nowhere.
LEMMA LinksStay ==
    ASSUME NEW s \in Site, NEW n \in Nat \ {0}, NEW u \in Pages(n)
    PROVE  NextURL(s, u, n) \in Pages(n) \union {None}
<1>1. PageCount(n) \in Nat \ {0}
  BY PageCounts
<1>2. NextURLFirst(u, n) \in Pages(n) \union {None}
  BY <1>1 DEF Pages, Start, Home, PageOf, NextURLFirst, HasPrev, HasNext
<1>3. NextURLLast(u, n) \in Pages(n) \union {None}
  BY <1>1 DEF Pages, Start, Home, PageOf, NextURLLast, HasPrev, HasNext
<1>4. NextURLFluent(u, n) \in Pages(n) \union {None}
  BY <1>1 DEF Pages, Start, Home, PageOf, NextURLFluent, HasPrev, HasNext
<1> QED BY <1>2, <1>3, <1>4 DEF NextURL

----------------------------------------------------------------------------
(* What is on a page. *)

LEMMA MinOfTwo ==
    ASSUME NEW a \in Int, NEW b \in Int
    PROVE  Min({a, b}) \in Int /\ Min({a, b}) <= b
<1> DEFINE m == IF a <= b THEN a ELSE b
<1>1. m \in {a, b} /\ \A y \in {a, b} : m <= y
  OBVIOUS
<1>2. Min({a, b}) \in {a, b} /\ \A y \in {a, b} : Min({a, b}) <= y
  BY <1>1 DEF Min
<1> QED BY <1>2

\* Whatever page: its bans are among the first n.
LEMMA PageBansListed ==
    ASSUME NEW s \in Site, NEW n \in Nat, NEW p \in Nat \ {0}
    PROVE  \A b \in ToSet(PageBans(s, n, p)) : \E i \in 1..n : b = Bans[s][i]
<1> DEFINE above == (p - 1) * PerPage
<1>1. above \in Nat
  BY PerPageAssumption
<1> HIDE DEF above
<1>2. PageBans(s, n, p) = [i \in 1..Min({PerPage, n - above}) |-> Bans[s][n + 1 - above - i]]
  BY DEF PageBans, above
<1>3. Min({PerPage, n - above}) \in Int /\ Min({PerPage, n - above}) <= n - above
  BY <1>1, MinOfTwo, PerPageAssumption
<1> SUFFICES ASSUME NEW b \in ToSet(PageBans(s, n, p)) PROVE \E i \in 1..n : b = Bans[s][i]
  OBVIOUS
<1>4. PICK i \in 1..Min({PerPage, n - above}) : b = Bans[s][n + 1 - above - i]
  BY <1>2 DEF ToSet
<1>5. n + 1 - above - i \in 1..n
  BY <1>1, <1>3
<1> QED BY <1>4, <1>5

\* What the parser makes of a page that is kept as of the time of n bans.
PageRead(s, n, p, rows) ==
    /\ rows \in Seq(Row)
    /\ \A b \in ToSet(PageBans(s, n, p)) : Reported(b) => Said(b) \in ToSet(rows)
    /\ \A r \in ToSet(rows) : \E b \in ToSet(PageBans(s, n, p)) : ComesFrom(r, b)

LEMMA PageIsRead ==
    ASSUME PagesParsed, NEW s \in Site, NEW t \in Theme, NEW n \in 1..Len(Bans[s]),
           NEW p \in 1..PageCount(n)
    PROVE  PageRead(s, n, p, Parsed[s][t][n][p])
BY DEF PagesParsed, PageRead

----------------------------------------------------------------------------
(* Sequences, and what the invariant says of the goroutine of a site. *)

LEMMA EmptySet == ToSet(<<>>) = {}
BY DEF ToSet

LEMMA HeadAndTail ==
    ASSUME NEW S, NEW q \in Seq(S), q # <<>>
    PROVE  /\ Head(q) \in S /\ Tail(q) \in Seq(S)
           /\ Head(q) \in ToSet(q)
           /\ ToSet(Tail(q)) \subseteq ToSet(q)
           /\ ToSet(q) \subseteq {Head(q)} \union ToSet(Tail(q))
<1>1. /\ Len(q) \in Nat \ {0} /\ DOMAIN q = 1..Len(q)
      /\ Head(q) = q[1] /\ Head(q) \in S
      /\ Tail(q) \in Seq(S) /\ Len(Tail(q)) = Len(q) - 1
      /\ \A i \in 1..Len(Tail(q)) : Tail(q)[i] = q[i + 1]
  BY HeadTailProperties, EmptySeq, LenProperties
<1>2. DOMAIN Tail(q) = 1..Len(q) - 1
  BY <1>1, LenProperties
<1>3. Head(q) \in ToSet(q)
  BY <1>1 DEF ToSet
<1>4. ASSUME NEW x \in ToSet(Tail(q)) PROVE x \in ToSet(q)
  <2>1. PICK i \in 1..Len(q) - 1 : x = Tail(q)[i]
    BY <1>2 DEF ToSet
  <2>2. x = q[i + 1] /\ i + 1 \in DOMAIN q
    BY <1>1, <2>1
  <2> QED BY <2>2 DEF ToSet
<1>5. ASSUME NEW x \in ToSet(q), x # Head(q) PROVE x \in ToSet(Tail(q))
  <2>1. PICK i \in 1..Len(q) : x = q[i]
    BY <1>1 DEF ToSet
  <2>2. i # 1 /\ i - 1 \in 1..Len(q) - 1
    BY <1>1, <1>5, <2>1
  <2>3. x = Tail(q)[i - 1] /\ i - 1 \in DOMAIN Tail(q)
    BY <1>1, <1>2, <2>1, <2>2
  <2> QED BY <2>3 DEF ToSet
<1> QED BY <1>1, <1>3, <1>4, <1>5

\* A site with a ban has a start page and a home page.
LEMMA SiteFacts ==
    ASSUME Types, NEW s \in Site
    PROVE  /\ listed[s] \in Nat \ {0} /\ listed[s] <= Len(Bans[s]) /\ Len(Bans[s]) \in Nat
           /\ theme[s] \in Theme
           /\ Pages(listed[s]) \subseteq Addresses(s)
           /\ Pages(listed[s]) \subseteq Int
           /\ Start \in Pages(listed[s]) /\ Home \in Pages(listed[s])
<1>1. Len(Bans[s]) \in Nat
  BY BansAssumption, LenProperties
<1>2. listed[s] \in Nat \ {0} /\ listed[s] <= Len(Bans[s]) /\ theme[s] \in Theme
  BY <1>1 DEF Types, SitesOK
<1>3. Addresses(s) = Pages(Len(Bans[s]))
  BY DEF Addresses, Pages
<1>4. Pages(listed[s]) \subseteq Pages(Len(Bans[s]))
  BY <1>1, <1>2, PagesGrow
<1>5. Start \in Pages(listed[s]) /\ Home \in Pages(listed[s]) /\ Pages(listed[s]) \subseteq Int
  BY <1>2, PagesGrow
<1> QED BY <1>1, <1>2, <1>3, <1>4, <1>5

LEMMA WalkFacts ==
    ASSUME Types, NEW s \in Site
    PROVE  walk[s] \in Walk /\ WalkOK(s)
BY DEF Types, WalksOK

\* Goroutines are under way only while the job runs.
LEMMA Running ==
    ASSUME Types, NEW s \in Site, walk[s].pc # "idle" PROVE job.pc = "run"
BY DEF Types, JobOK, NoWalk

\* A page that is kept has been one of the site's.
LEMMA KeptPage ==
    ASSUME Types, NEW s \in Site, NEW u \in Pages(listed[s]), cache[s][u] > 0
    PROVE  cache[s][u] \in 1..listed[s] /\ u \in Pages(cache[s][u])
<1>1. u \in Addresses(s) /\ listed[s] \in Nat
  BY SiteFacts
<1>2. cache[s][u] \in Denied..listed[s] /\ u \in Pages(cache[s][u])
  BY <1>1 DEF Types, CacheOK
<1> QED BY <1>1, <1>2 DEF Denied

----------------------------------------------------------------------------
(* Steps of one goroutine. *)

\* w is where a step leaves the goroutine of s.
Moved(s, w) ==
    /\ w \in Walk
    /\ walk' = [walk EXCEPT ![s] = w]
    /\ UNCHANGED <<theme, listed, site, job>>
    /\ player \subseteq player'
    /\ \A t \in Site : bans[t] \subseteq bans'[t]
    /\ faults' \in 0..MaxFaults
    /\ faults # 0 => faults' # 0

\* It is in order, where known are the players by then.
InOrder(s, w, known) ==
    /\ w.url \in Pages(listed[s]) \union {None}
    /\ w.next \in Pages(listed[s]) \union {None}
    /\ w.visited \subseteq Pages(listed[s])
    /\ w.pc \in {"idle", "visit"} => w.todo = <<>>
    /\ w.pc \in {"insert", "save"} => w.todo # <<>>
    /\ w.pc = "save" => Head(w.todo).sid \in known

LEMMA OneMoves ==
    ASSUME Types, NEW s \in Site, NEW w, Moved(s, w)
    PROVE  walk'[s] = w /\ \A t \in Site \ {s} : walk'[t] = walk[t]
BY DEF Types, WalksOK, Moved

LEMMA MovesInOrder ==
    ASSUME Types, NEW s \in Site, walk[s].pc # "idle",
           NEW w, Moved(s, w), InOrder(s, w, player')
    PROVE  SitesOK' /\ JobOK' /\ WalksOK'
<1>1. SitesOK'
  BY DEF Moved, Types, SitesOK
<1>2. job.pc = "run"
  BY Running
<1>3. JobOK'
  BY <1>2 DEF Moved, Types, JobOK
<1>4. WalksOK'
  <2>1. walk' \in [Site -> Walk]
    BY DEF Moved, Types, WalksOK
  <2>2. WalkOK(s)'
    BY OneMoves DEF WalkOK, InOrder, Moved, Current
  <2>3. ASSUME NEW t \in Site \ {s} PROVE WalkOK(t)'
    <3>1. WalkOK(t) /\ walk'[t] = walk[t]
      BY OneMoves DEF Types, WalksOK
    <3> QED BY <3>1 DEF WalkOK, Moved, Current
  <2> QED BY <2>1, <2>2, <2>3 DEF WalksOK
<1> QED BY <1>1, <1>3, <1>4

\* Whoever has won a race stores his ban, unless there is a fault.
LEMMA WinnersStay ==
    ASSUME Types, NEW s \in Site, NEW w, Moved(s, w),
           At(s, "save") => \/ w.pc = "save" /\ w.todo = walk[s].todo
                            \/ \E q \in bans'[s] : q.sid = Current(s).sid,
           NEW t \in Site, NEW r, WonByOther(t, r)
    PROVE  WonByOther(t, r)'
<1>1. PICK v \in Site \ {t} : \/ \E q \in bans[v] : q.sid = r.sid
                              \/ At(v, "save") /\ Current(v).sid = r.sid
  BY DEF WonByOther
<1>2. CASE \E q \in bans[v] : q.sid = r.sid
  BY <1>2 DEF WonByOther, Moved
<1>3. CASE At(v, "save") /\ Current(v).sid = r.sid
  <2>1. CASE v # s
    <3>1. walk'[v] = walk[v]
      BY <2>1, OneMoves
    <3> QED BY <1>3, <3>1 DEF WonByOther, At, Current
  <2>2. CASE v = s
    <3>1. walk'[s] = w
      BY OneMoves
    <3> QED BY <1>3, <2>2, <3>1 DEF WonByOther, At, Current
  <2> QED BY <2>1, <2>2
<1> QED BY <1>1, <1>2, <1>3

\* What a step may do in a race, and owes to the goroutines of the other sites.
RaceKept(s, w) ==
    /\ At(s, "save") => \/ w.pc = "save" /\ w.todo = walk[s].todo
                        \/ \E q \in bans'[s] : q.sid = Current(s).sid
    /\ \A p \in player' \ player : w.pc = "save" /\ Head(w.todo).sid = p
    /\ w.pc = "insert" => Head(w.todo).sid \notin player'
    /\ \A t \in Site \ {s} : lost'[t] = lost[t]
    /\ \A r \in lost'[s] \ lost[s] : WonByOther(s, r)

LEMMA RacesKept ==
    ASSUME Types, Overtaken, LostRacesWon, NEW s \in Site, NEW w, Moved(s, w),
           faults' = 0 => RaceKept(s, w)
    PROVE  Overtaken' /\ LostRacesWon'
<1> SUFFICES ASSUME faults' = 0 PROVE Overtaken' /\ LostRacesWon'
  BY DEF Overtaken, LostRacesWon
<1>1. faults = 0 /\ RaceKept(s, w)
  BY DEF Moved
<1>2. ASSUME NEW t \in Site, NEW r, WonByOther(t, r) PROVE WonByOther(t, r)'
  BY <1>1, <1>2, WinnersStay DEF RaceKept
<1>3. Overtaken'
  <2> SUFFICES ASSUME NEW t \in Site, At(t, "insert")', (Current(t).sid \in player)'
               PROVE  WonByOther(t, Current(t))'
    BY DEF Overtaken
  <2>1. t # s
    BY <1>1, OneMoves DEF At, Current, RaceKept
  <2>2. walk'[t] = walk[t]
    BY <2>1, OneMoves
  <2>3. CASE Current(t).sid \in player
    <3>1. WonByOther(t, Current(t))
      BY <1>1, <2>2, <2>3 DEF Overtaken, At
    <3>2. PICK r : r = Current(t)
      OBVIOUS
    <3>3. WonByOther(t, r)' /\ r = Current(t)'
      BY <1>2, <2>2, <3>1, <3>2 DEF Current
    <3> QED BY <3>3
  <2>4. CASE Current(t).sid \notin player
    <3>1. At(s, "save")' /\ (Current(s).sid = Current(t).sid)'
      BY <1>1, <2>2, <2>4, OneMoves DEF RaceKept, At, Current
    <3> QED BY <2>1, <3>1 DEF WonByOther
  <2> QED BY <2>3, <2>4
<1>4. LostRacesWon'
  <2> SUFFICES ASSUME NEW t \in Site, NEW r \in lost'[t] PROVE WonByOther(t, r)'
    BY DEF LostRacesWon
  <2>1. WonByOther(t, r)
    BY <1>1 DEF LostRacesWon, RaceKept
  <2> QED BY <1>2, <2>1
<1> QED BY <1>3, <1>4

\* The other sites' walks are where they were, and so are their tables.
OnlyFor(s) ==
    \A t \in Site \ {s} : lost'[t] = lost[t] /\ bans'[t] = bans[t] /\ cache'[t] = cache[t]

LEMMA OthersKept ==
    ASSUME Types, BansSeenTo, AllListed, NEW s \in Site, NEW w, Moved(s, w), OnlyFor(s),
           NEW t \in Site \ {s}
    PROVE  SeenTo(t)' /\ OnlyListed(t)'
<1>1. walk'[t] = walk[t] /\ lost'[t] = lost[t] /\ bans'[t] = bans[t] /\ cache'[t] = cache[t]
  BY OneMoves DEF OnlyFor
<1>2. SeenTo(t) /\ OnlyListed(t)
  BY DEF BansSeenTo, AllListed
<1>3. SeenTo(t)'
  <2>1. \A u : Kept(t, u)' = Kept(t, u)
    BY <1>1 DEF Kept
  <2>2. \A b : Met(t, b) => Met(t, b)'
    BY <1>1 DEF Met, Stored
  <2> QED BY <1>1, <1>2, <2>1, <2>2 DEF SeenTo
<1>4. OnlyListed(t)'
  <2>1. \A r : FromList(t, r) => FromList(t, r)'
    BY DEF FromList, Listed, Moved
  <2> QED BY <1>1, <1>2, <2>1 DEF OnlyListed
<1> QED BY <1>3, <1>4

\* On the same page: what leaves todo or lost is stored, or moves to the other.
SameBansLeft(s, w) ==
    /\ w.visited = walk[s].visited
    /\ ToSet(w.todo) \subseteq ToSet(walk[s].todo)
    /\ bans'[s] \subseteq bans[s] \union ToSet(walk[s].todo)
    /\ \A x \in ToSet(walk[s].todo) \union lost[s] :
            x \in ToSet(w.todo) \union lost'[s] \/ Stored(s, x)'
    /\ cache' = cache

LEMMA SamePage ==
    ASSUME Types, BansSeenTo, AllListed, NEW s \in Site, NEW w, Moved(s, w), OnlyFor(s),
           SameBansLeft(s, w)
    PROVE  BansSeenTo' /\ AllListed'
<1>1. walk'[s] = w
  BY OneMoves
<1>2. SeenTo(s) /\ OnlyListed(s)
  BY DEF BansSeenTo, AllListed
<1>3. SeenTo(s)'
  <2>1. \A u : Kept(s, u)' = Kept(s, u)
    BY DEF Kept, SameBansLeft
  <2>2. \A x : Stored(s, x) => Stored(s, x)'
    BY DEF Stored, Moved
  <2>3. ASSUME NEW b, Met(s, b), Reported(b) PROVE Met(s, b)'
    <3>1. PICK x : x = Said(b)
      OBVIOUS
    <3>2. Stored(s, x) \/ x \in ToSet(walk[s].todo) \union lost[s]
      BY <2>3, <3>1 DEF Met
    <3>3. Stored(s, x)' \/ x \in ToSet(w.todo) \union lost'[s]
      BY <2>2, <3>2 DEF SameBansLeft
    <3> QED BY <1>1, <3>1, <3>3 DEF Met
  <2>4. ASSUME NEW u \in walk'[s].visited, NEW b \in Kept(s, u)' PROVE Met(s, b)'
    <3>1. Met(s, b)
      BY <1>1, <1>2, <2>1, <2>4 DEF SeenTo, SameBansLeft
    <3>2. CASE Reported(b)
      BY <2>3, <3>1, <3>2
    <3>3. CASE ~Reported(b)
      BY <3>3 DEF Met
    <3> QED BY <3>2, <3>3
  <2> QED BY <2>4 DEF SeenTo
<1>4. OnlyListed(s)'
  <2>1. \A r : FromList(s, r) => FromList(s, r)'
    BY DEF FromList, Listed, Moved
  <2> QED BY <1>1, <1>2, <2>1 DEF OnlyListed, SameBansLeft
<1> QED BY <1>3, <1>4, OthersKept DEF BansSeenTo, AllListed

\* On to the next ban of the page.
IsSeen(s, w) ==
    /\ w \in Walk
    /\ walk' = [walk EXCEPT ![s] = w]
    /\ w.pc = "select" /\ w.todo = Tail(walk[s].todo)
    /\ w.visited = walk[s].visited
    /\ \A known : InOrder(s, w, known)

LEMMA NextBan ==
    ASSUME Types, NEW s \in Site, walk[s].todo # <<>>, Seen(s)
    PROVE  /\ \E w : IsSeen(s, w)
           /\ Current(s) \in Row /\ Current(s) \in ToSet(walk[s].todo)
           /\ ToSet(Tail(walk[s].todo)) \subseteq ToSet(walk[s].todo)
           /\ ToSet(walk[s].todo) \subseteq {Current(s)} \union ToSet(Tail(walk[s].todo))
<1>1. PICK c : c = walk[s]
  OBVIOUS
<1>2. c \in Walk /\ c.todo \in Seq(Row) /\ c.todo # <<>> /\ WalkOK(s)
  BY <1>1, WalkFacts DEF Walk
<1>3. PICK rest : rest = Tail(c.todo)
  OBVIOUS
<1>4. rest \in Seq(Row)
  BY <1>2, <1>3, HeadAndTail
<1>5. PICK w : w = [c EXCEPT !.pc = "select", !.todo = rest]
  OBVIOUS
<1>6. w \in Walk
  BY <1>2, <1>4, <1>5 DEF Walk
<1>7. /\ w.pc = "select" /\ w.todo = rest /\ w.url = c.url /\ w.next = c.next
      /\ w.visited = c.visited
  BY <1>2, <1>5 DEF Walk
<1>8. walk' = [walk EXCEPT ![s] = w]
  BY <1>1, <1>3, <1>5 DEF Seen, Set
<1>9. IsSeen(s, w)
  BY <1>1, <1>2, <1>3, <1>6, <1>7, <1>8 DEF IsSeen, InOrder, WalkOK
<1> QED BY <1>1, <1>2, <1>9, HeadAndTail DEF Current

\* A step that leaves the tables as they are, but for what it loses.
LEMMA LosesOnly ==
    ASSUME Types, UNCHANGED <<listed, cache, site, player, bans>>,
           NEW s \in Site, NEW x \in Row, lost' = [lost EXCEPT ![s] = @ \union {x}]
    PROVE  CacheOK' /\ TablesOK' /\ OnlyFor(s)
BY DEF Types, CacheOK, TablesOK, OnlyFor, Addresses

LEMMA SameTables ==
    ASSUME Types, UNCHANGED <<listed, cache, site, player, bans, lost>>
    PROVE  CacheOK' /\ TablesOK' /\ \A s \in Site : OnlyFor(s)
BY DEF Types, CacheOK, TablesOK, OnlyFor, Addresses

LEMMA NoAddress == None \in Int
BY DEF None

LEMMA FinishKeeps ==
    ASSUME IInv, NEW s \in Site, Finish(s) PROVE IInv'
<1> USE DEF IInv
<1>1. PICK c : c = walk[s]
  OBVIOUS
<1>2. c \in Walk /\ WalkOK(s) /\ c.pc = "visit"
  BY <1>1, WalkFacts DEF Finish, At
<1>3. PICK w : w = [c EXCEPT !.pc = "idle", !.url = None]
  OBVIOUS
<1>4. w \in Walk
  BY <1>2, <1>3, NoAddress DEF Walk
<1>5. /\ w.pc = "idle" /\ w.url = None /\ w.todo = c.todo /\ w.next = c.next
      /\ w.visited = c.visited
  BY <1>2, <1>3 DEF Walk
<1>6. Moved(s, w)
  BY <1>1, <1>3, <1>4 DEF Finish, Set, Moved, sites, db, Types, JobOK
<1>7. InOrder(s, w, player')
  BY <1>1, <1>2, <1>5 DEF InOrder, WalkOK
<1>8. SitesOK' /\ JobOK' /\ WalksOK'
  BY <1>1, <1>2, <1>6, <1>7, MovesInOrder
<1>9. CacheOK' /\ TablesOK' /\ OnlyFor(s)
  BY SameTables DEF Finish, sites, db
<1>10. Overtaken' /\ LostRacesWon'
  <2>1. RaceKept(s, w)
    BY <1>1, <1>2, <1>5 DEF RaceKept, At, Finish, db
  <2> QED BY <1>6, <2>1, RacesKept
<1>11. BansSeenTo' /\ AllListed'
  <2>1. SameBansLeft(s, w)
    BY <1>1, <1>5 DEF SameBansLeft, Finish, db
  <2> QED BY <1>6, <1>9, <2>1, SamePage
<1> QED BY <1>8, <1>9, <1>10, <1>11 DEF Types

LEMMA FollowKeeps ==
    ASSUME IInv, NEW s \in Site, Follow(s) PROVE IInv'
<1> USE DEF IInv
<1>1. PICK c : c = walk[s]
  OBVIOUS
<1>2. c \in Walk /\ WalkOK(s) /\ c.pc = "select" /\ c.todo = <<>>
  BY <1>1, WalkFacts DEF Follow, At
<1>3. \E w \in Walk :
        /\ walk' = [walk EXCEPT ![s] = w]
        /\ w.pc = "visit" /\ w.todo = c.todo /\ w.visited = c.visited /\ w.next = None
        /\ w.url \in {c.url, c.next}
  <2>1. CASE c.next \in {None, c.last}
    <3>1. PICK w : w = [c EXCEPT !.pc = "visit", !.next = None]
      OBVIOUS
    <3>2. w \in Walk
      BY <1>2, <3>1, NoAddress DEF Walk
    <3>3. walk' = [walk EXCEPT ![s] = w]
      BY <1>1, <2>1, <3>1 DEF Follow, Set
    <3> QED BY <1>2, <3>1, <3>2, <3>3 DEF Walk
  <2>2. CASE c.next \notin {None, c.last}
    <3>1. PICK w : w = [c EXCEPT !.pc = "visit", !.next = None, !.last = c.next, !.url = c.next]
      OBVIOUS
    <3>2. w \in Walk
      BY <1>2, <3>1, NoAddress DEF Walk
    <3>3. walk' = [walk EXCEPT ![s] = w]
      BY <1>1, <2>2, <3>1 DEF Follow, Set
    <3> QED BY <1>2, <3>1, <3>2, <3>3 DEF Walk
  <2> QED BY <2>1, <2>2
<1>4. PICK w \in Walk :
        /\ walk' = [walk EXCEPT ![s] = w]
        /\ w.pc = "visit" /\ w.todo = c.todo /\ w.visited = c.visited /\ w.next = None
        /\ w.url \in {c.url, c.next}
  BY <1>3
<1>5. Moved(s, w)
  BY <1>4 DEF Follow, Moved, sites, db, Types, JobOK
<1>6. InOrder(s, w, player')
  BY <1>1, <1>2, <1>4 DEF InOrder, WalkOK
<1>7. SitesOK' /\ JobOK' /\ WalksOK'
  BY <1>1, <1>2, <1>5, <1>6, MovesInOrder
<1>8. CacheOK' /\ TablesOK' /\ OnlyFor(s)
  BY SameTables DEF Follow, sites, db
<1>9. Overtaken' /\ LostRacesWon'
  <2>1. RaceKept(s, w)
    BY <1>1, <1>2, <1>4 DEF RaceKept, At, Follow, db
  <2> QED BY <1>5, <2>1, RacesKept
<1>10. BansSeenTo' /\ AllListed'
  <2>1. SameBansLeft(s, w)
    BY <1>1, <1>4 DEF SameBansLeft, Follow, db
  <2> QED BY <1>5, <1>8, <2>1, SamePage
<1> QED BY <1>7, <1>8, <1>9, <1>10 DEF Types

LEMMA SelectKeeps ==
    ASSUME IInv, NEW s \in Site, Select(s) PROVE IInv'
<1> USE DEF IInv
<1>1. PICK c : c = walk[s]
  OBVIOUS
<1>2. c \in Walk /\ WalkOK(s) /\ c.pc = "select" /\ c.todo # <<>> /\ Current(s) = Head(c.todo)
  BY <1>1, WalkFacts DEF Select, At, Current
<1>3. PICK to : to = IF Current(s).sid \in player THEN "save" ELSE "insert"
  OBVIOUS
<1>4. PICK w : w = [c EXCEPT !.pc = to]
  OBVIOUS
<1>5. w \in Walk
  BY <1>2, <1>3, <1>4 DEF Walk
<1>6. /\ w.pc = to /\ w.todo = c.todo /\ w.next = c.next /\ w.url = c.url
      /\ w.visited = c.visited
  BY <1>2, <1>4 DEF Walk
<1>7. Moved(s, w)
  BY <1>1, <1>3, <1>4, <1>5 DEF Select, Set, Moved, sites, db, Types, JobOK
<1>8. InOrder(s, w, player')
  BY <1>1, <1>2, <1>3, <1>6 DEF InOrder, WalkOK, Select, db
<1>9. SitesOK' /\ JobOK' /\ WalksOK'
  BY <1>1, <1>2, <1>7, <1>8, MovesInOrder
<1>10. CacheOK' /\ TablesOK' /\ OnlyFor(s)
  BY SameTables DEF Select, sites, db
<1>11. Overtaken' /\ LostRacesWon'
  <2>1. RaceKept(s, w)
    BY <1>1, <1>2, <1>3, <1>6 DEF RaceKept, At, Select, db
  <2> QED BY <1>7, <2>1, RacesKept
<1>12. BansSeenTo' /\ AllListed'
  <2>1. SameBansLeft(s, w)
    BY <1>1, <1>6 DEF SameBansLeft, Select, db
  <2> QED BY <1>7, <1>10, <2>1, SamePage
<1> QED BY <1>9, <1>10, <1>11, <1>12 DEF Types

\* What is skipped goes from todo to lost.
LEMMA SkipKeeps ==
    ASSUME IInv, NEW s \in Site, walk[s].pc # "idle", walk[s].todo # <<>>, Skip(s),
           UNCHANGED <<theme, listed, cache, site, player, bans, job>>,
           faults' \in 0..MaxFaults, faults # 0 => faults' # 0,
           faults' = 0 => ~At(s, "save") /\ WonByOther(s, Current(s))
    PROVE  IInv'
<1> USE DEF IInv
<1>1. PICK w : IsSeen(s, w)
  BY NextBan DEF Skip
<1>2. Moved(s, w) /\ InOrder(s, w, player')
  BY <1>1 DEF IsSeen, Moved
<1>3. SitesOK' /\ JobOK' /\ WalksOK'
  BY <1>2, MovesInOrder
<1>4. Current(s) \in Row /\ lost' = [lost EXCEPT ![s] = @ \union {Current(s)}]
  BY NextBan DEF Skip
<1>5. CacheOK' /\ TablesOK' /\ OnlyFor(s)
  BY <1>4, LosesOnly
<1>6. lost'[s] = lost[s] \union {Current(s)}
  BY <1>4 DEF Types, TablesOK
<1>7. Overtaken' /\ LostRacesWon'
  <2>1. faults' = 0 => RaceKept(s, w)
    BY <1>1, <1>5, <1>6 DEF RaceKept, IsSeen, OnlyFor
  <2> QED BY <1>2, <2>1, RacesKept
<1>8. BansSeenTo' /\ AllListed'
  <2>1. SameBansLeft(s, w)
    <3>1. PICK todo, rest, cur : todo = ToSet(walk[s].todo) /\ rest = ToSet(Tail(walk[s].todo)) /\ cur = Current(s)
      OBVIOUS
    <3>2. todo \subseteq {cur} \union rest /\ rest \subseteq todo
      BY <3>1, NextBan DEF Skip
    <3>3. ToSet(w.todo) = rest /\ lost'[s] = lost[s] \union {cur}
      BY <1>1, <1>6, <3>1 DEF IsSeen
    <3> QED BY <1>1, <3>1, <3>2, <3>3 DEF SameBansLeft, IsSeen
  <2> QED BY <1>2, <1>5, <2>1, SamePage
<1> QED BY <1>3, <1>5, <1>7, <1>8 DEF Types

LEMMA InsertKeeps ==
    ASSUME IInv, NEW s \in Site, Insert(s) PROVE IInv'
<1> USE DEF IInv
<1>1. PICK c : c = walk[s]
  OBVIOUS
<1>2. c \in Walk /\ WalkOK(s) /\ c.pc = "insert" /\ c.todo # <<>> /\ Current(s) = Head(c.todo)
  BY <1>1, WalkFacts DEF Insert, At, Current, WalkOK
<1>3. CASE Current(s).sid \in player
  <2>1. /\ Skip(s) /\ UNCHANGED <<theme, listed, cache, site, player, bans, job>>
        /\ faults' = faults
    BY <1>3 DEF Insert, sites
  <2>2. faults \in 0..MaxFaults
    BY DEF Types, JobOK
  <2>3. faults' = 0 => WonByOther(s, Current(s))
    BY <1>1, <1>2, <1>3, <2>1 DEF Overtaken, At
  <2>4. walk[s].pc # "idle" /\ walk[s].todo # <<>> /\ ~At(s, "save")
    BY <1>1, <1>2 DEF At
  <2> QED BY <2>1, <2>2, <2>3, <2>4, SkipKeeps
<1>4. CASE Current(s).sid \notin player
  <2>1. PICK w : w = [c EXCEPT !.pc = "save"]
    OBVIOUS
  <2>2. w \in Walk
    BY <1>2, <2>1 DEF Walk
  <2>3. /\ w.pc = "save" /\ w.todo = c.todo /\ w.next = c.next /\ w.url = c.url
        /\ w.visited = c.visited
    BY <1>2, <2>1 DEF Walk
  <2>4. /\ walk' = [walk EXCEPT ![s] = w]
        /\ player' = player \union {Current(s).sid}
        /\ UNCHANGED <<theme, listed, cache, site, bans, job, lost, faults>>
    BY <1>1, <1>4, <2>1 DEF Insert, Set, sites
  <2>5. Moved(s, w)
    BY <2>2, <2>4 DEF Moved, Types, JobOK
  <2>6. InOrder(s, w, player')
    BY <1>1, <1>2, <2>3, <2>4 DEF InOrder, WalkOK
  <2>7. SitesOK' /\ JobOK' /\ WalksOK'
    BY <1>1, <1>2, <2>5, <2>6, MovesInOrder
  <2>8. CacheOK' /\ TablesOK' /\ OnlyFor(s)
    BY <2>4 DEF Types, CacheOK, TablesOK, OnlyFor, Addresses
  <2>9. Overtaken' /\ LostRacesWon'
    <3>1. RaceKept(s, w)
      BY <1>1, <1>2, <2>3, <2>4 DEF RaceKept, At
    <3> QED BY <2>5, <3>1, RacesKept
  <2>10. BansSeenTo' /\ AllListed'
    <3>1. SameBansLeft(s, w)
      BY <1>1, <2>3, <2>4 DEF SameBansLeft
    <3> QED BY <2>5, <2>8, <3>1, SamePage
  <2> QED BY <2>7, <2>8, <2>9, <2>10 DEF Types
<1> QED BY <1>3, <1>4

LEMMA FailKeeps ==
    ASSUME IInv, NEW s \in Site, Fail(s) PROVE IInv'
<1> USE DEF IInv
<1>1. /\ Skip(s) /\ walk[s].pc # "idle" /\ walk[s].todo # <<>>
      /\ UNCHANGED <<theme, listed, cache, site, player, bans, job>>
  BY DEF Fail, sites, db
<1>2. faults' \in 0..MaxFaults /\ faults' # 0
  BY FaultsAssumption DEF Fail, Fault, NoFault, Types, JobOK
<1> QED BY <1>1, <1>2, SkipKeeps

LEMMA SaveKeeps ==
    ASSUME IInv, NEW s \in Site, Save(s) PROVE IInv'
<1> USE DEF IInv
<1>1. WalkOK(s) /\ walk[s].pc = "save" /\ walk[s].todo # <<>> /\ Current(s).sid \in player
  BY WalkFacts DEF Save, At, WalkOK
<1>2. PICK w : IsSeen(s, w)
  BY <1>1, NextBan DEF Save
<1>3. /\ bans' = [bans EXCEPT ![s] = IF Stored(s, Current(s)) THEN @ ELSE @ \union {Current(s)}]
      /\ lost' = [lost EXCEPT ![s] = @ \ {Current(s)}]
      /\ UNCHANGED <<theme, listed, cache, site, player, job, faults>>
  BY DEF Save, sites
<1>4. PICK cur : cur = Current(s)
  OBVIOUS
<1>5. cur \in Row
  BY <1>1, <1>4, NextBan DEF Save
<1>6. bans \in [Site -> SUBSET Row] /\ lost \in [Site -> SUBSET Row]
  BY DEF Types, TablesOK
<1>7. /\ bans'[s] = IF Stored(s, cur) THEN bans[s] ELSE bans[s] \union {cur}
      /\ lost'[s] = lost[s] \ {cur}
      /\ \A t \in Site \ {s} : bans'[t] = bans[t] /\ lost'[t] = lost[t]
      /\ bans' \in [Site -> SUBSET Row] /\ lost' \in [Site -> SUBSET Row]
  BY <1>3, <1>4, <1>5, <1>6
<1>8. Moved(s, w)
  BY <1>2, <1>3, <1>7 DEF IsSeen, Moved, Types, JobOK
<1>9. SitesOK' /\ JobOK' /\ WalksOK'
  BY <1>1, <1>2, <1>8, MovesInOrder DEF IsSeen
<1>10. OnlyFor(s)
  BY <1>3, <1>7 DEF OnlyFor
<1>11. CacheOK'
  BY <1>3 DEF Types, CacheOK, Addresses
<1>12. TablesOK'
  <2>1. job.pc = "run"
    BY <1>1, Running
  <2>2. s \in site /\ cur.sid \in player
    BY <1>1, <1>4, <2>1 DEF Types, JobOK
  <2>3. ASSUME NEW t \in Site, NEW r \in bans'[t] PROVE t \in site /\ r.sid \in player
    BY <1>7, <2>2 DEF Types, TablesOK
  <2> QED BY <1>3, <1>7, <2>3 DEF TablesOK
<1>13. \E q \in bans'[s] : q.sid = cur.sid /\ q.on = cur.on
  BY <1>7 DEF Stored
<1>14. Overtaken' /\ LostRacesWon'
  <2>1. RaceKept(s, w)
    BY <1>2, <1>3, <1>4, <1>7, <1>13 DEF RaceKept, IsSeen
  <2> QED BY <1>8, <2>1, RacesKept
<1>15. BansSeenTo' /\ AllListed'
  <2>1. SameBansLeft(s, w)
    <3>1. PICK todo, rest : todo = ToSet(walk[s].todo) /\ rest = ToSet(Tail(walk[s].todo))
      OBVIOUS
    <3>2. todo \subseteq {cur} \union rest /\ rest \subseteq todo /\ cur \in todo
      BY <1>1, <1>4, <3>1, NextBan DEF Save
    <3>3. ToSet(w.todo) = rest /\ w.visited = walk[s].visited
      BY <1>2, <3>1 DEF IsSeen
    <3>4. Stored(s, cur)'
      BY <1>13 DEF Stored
    <3>5. ASSUME NEW x \in todo \union lost[s]
          PROVE  x \in rest \union lost'[s] \/ Stored(s, x)'
      <4>1. CASE x = cur
        BY <3>4, <4>1
      <4>2. CASE x # cur
        BY <1>7, <3>2, <3>5, <4>2
      <4> QED BY <4>1, <4>2
    <3>6. bans'[s] \subseteq bans[s] \union todo
      BY <1>7, <3>2
    <3> QED BY <1>3, <3>1, <3>2, <3>3, <3>5, <3>6 DEF SameBansLeft
  <2> QED BY <1>8, <1>10, <2>1, SamePage
<1> QED BY <1>9, <1>11, <1>12, <1>14, <1>15 DEF Types

\* A page comes in, as of the time of n bans: rows is what the parser makes of it.
LEMMA PageKeeps ==
    ASSUME IInv, NEW s \in Site, At(s, "visit"), NEW u, u = walk[s].url,
           NEW n \in 1..listed[s], u \in Pages(n),
           NEW rows \in Seq(Row),
           u = Home => rows = <<>>,
           u # Home => PageRead(s, n, PageOf(u), rows),
           u \notin walk[s].visited,
           walk' = [walk EXCEPT ![s] =
               [walk[s] EXCEPT !.pc = "select", !.url = None, !.visited = @ \union {u},
                               !.todo = rows, !.next = NextURL(s, u, n)]],
           CacheOK', OnlyFor(s),
           cache'[s][u] = n, \A v \in Addresses(s) \ {u} : cache'[s][v] = cache[s][v],
           UNCHANGED <<theme, listed, site, player, bans, job, lost, faults>>
    PROVE  IInv'
<1> USE DEF IInv
<1>1. PICK c : c = walk[s]
  OBVIOUS
<1>2. c \in Walk /\ WalkOK(s) /\ c.pc = "visit" /\ c.todo = <<>>
  BY <1>1, WalkFacts DEF At, WalkOK
<1>3. /\ n \in Nat \ {0} /\ n <= listed[s] /\ listed[s] \in Nat
      /\ Pages(n) \subseteq Pages(listed[s]) /\ Pages(listed[s]) \subseteq Int
      /\ Pages(listed[s]) \subseteq Addresses(s)
  <2>1. listed[s] \in Nat
    BY SiteFacts
  <2>2. n \in Nat \ {0} /\ n <= listed[s]
    BY <2>1
  <2> QED BY <2>1, <2>2, SiteFacts, PagesGrow
<1>4. PICK next : next = NextURL(s, u, n)
  OBVIOUS
<1>5. next \in Pages(n) \union {None} /\ next \in Int /\ u \in Int
  BY <1>3, <1>4, LinksStay, NoAddress
<1>6. PICK vs : vs = c.visited \union {u}
  OBVIOUS
<1>7. PICK w : w = [c EXCEPT !.pc = "select", !.url = None, !.visited = vs,
                             !.todo = rows, !.next = next]
  OBVIOUS
<1>8. w \in Walk
  BY <1>2, <1>5, <1>6, <1>7, NoAddress DEF Walk
<1>9. /\ w.pc = "select" /\ w.url = None /\ w.visited = c.visited \union {u}
      /\ w.todo = rows /\ w.next = next
  BY <1>2, <1>6, <1>7 DEF Walk
<1>10. walk' = [walk EXCEPT ![s] = w]
  BY <1>1, <1>4, <1>6, <1>7
<1>11. Moved(s, w)
  BY <1>8, <1>10 DEF Moved, Types, JobOK
<1>12. InOrder(s, w, player')
  BY <1>1, <1>2, <1>3, <1>5, <1>9 DEF InOrder, WalkOK
<1>13. SitesOK' /\ JobOK' /\ WalksOK'
  BY <1>1, <1>2, <1>11, <1>12, MovesInOrder
<1>14. TablesOK'
  BY DEF Types, TablesOK
<1>15. Overtaken' /\ LostRacesWon'
  <2>1. RaceKept(s, w)
    BY <1>1, <1>2, <1>9 DEF RaceKept, At
  <2> QED BY <1>11, <2>1, RacesKept
<1>16. walk'[s] = w
  BY <1>11, OneMoves
<1>17. SeenTo(s)'
  <2>1. ASSUME NEW v \in c.visited, NEW b \in Kept(s, v)' PROVE Met(s, b)'
    <3>1. v # u /\ v \in Addresses(s)
      BY <1>1, <1>2, <1>3, <2>1 DEF WalkOK
    <3>2. b \in Kept(s, v)
      BY <2>1, <3>1 DEF Kept
    <3>3. Met(s, b)
      BY <1>1, <2>1, <3>2 DEF BansSeenTo, SeenTo
    <3>4. ToSet(walk[s].todo) = {}
      BY <1>1, <1>2, EmptySet
    <3> QED BY <3>3, <3>4 DEF Met, Stored
  <2>2. ASSUME NEW b \in Kept(s, u)' PROVE Met(s, b)'
    <3>1. u # Home /\ b \in ToSet(PageBans(s, n, PageOf(u)))
      BY <2>2 DEF Kept
    <3>2. Reported(b) => Said(b) \in ToSet(rows)
      BY <3>1 DEF PageRead
    <3> QED BY <1>9, <1>16, <3>2 DEF Met
  <2> QED BY <1>9, <1>16, <2>1, <2>2 DEF SeenTo
<1>18. OnlyListed(s)'
  <2>1. \A r : FromList(s, r) => FromList(s, r)'
    BY DEF FromList, Listed
  <2>2. ASSUME NEW r \in bans'[s] PROVE FromList(s, r)'
    BY <2>1, <2>2 DEF AllListed, OnlyListed
  <2>3. ASSUME NEW r \in ToSet(rows) PROVE FromList(s, r)'
    <3>1. u # Home
      BY <2>3, EmptySet
    <3>2. PICK b \in ToSet(PageBans(s, n, PageOf(u))) : ComesFrom(r, b)
      BY <2>3, <3>1 DEF PageRead
    <3>3. PageOf(u) \in Nat \ {0}
      <4>1. PageOf(u) \in 1..PageCount(n) /\ PageCount(n) \in Nat
        BY <1>3, <3>1, PageNumbers, PageCounts
      <4> QED BY <4>1
    <3>4. PICK i \in 1..n : b = Bans[s][i]
      BY <1>3, <3>3, PageBansListed
    <3>5. i \in 1..listed[s]
      BY <1>3
    <3>6. b \in Listed(s)
      BY <3>4, <3>5 DEF Listed
    <3> QED BY <2>1, <3>2, <3>6 DEF FromList
  <2> QED BY <1>9, <1>16, <2>2, <2>3 DEF OnlyListed
<1>19. BansSeenTo' /\ AllListed'
  BY <1>11, <1>17, <1>18, OthersKept DEF BansSeenTo, AllListed
<1> QED BY <1>13, <1>14, <1>15, <1>19 DEF Types

\* The walk ends; the error may be kept.
LEMMA ErrorKeeps ==
    ASSUME IInv, NEW s \in Site, At(s, "visit"), NEW u, u = walk[s].url,
           u \in Pages(listed[s]), u \notin walk[s].visited, OnError(s),
           CacheOK', OnlyFor(s),
           ~(cache'[s][u] > 0), \A v \in Addresses(s) \ {u} : cache'[s][v] = cache[s][v],
           UNCHANGED <<theme, listed, site, player, bans, job, lost>>,
           faults' \in 0..MaxFaults, faults # 0 => faults' # 0
    PROVE  IInv'
<1> USE DEF IInv
<1>1. PICK c : c = walk[s]
  OBVIOUS
<1>2. c \in Walk /\ WalkOK(s) /\ c.pc = "visit" /\ c.todo = <<>>
  BY <1>1, WalkFacts DEF At, WalkOK
<1>3. PICK vs : vs = c.visited \union {u}
  OBVIOUS
<1>4. PICK w : w = [c EXCEPT !.pc = "idle", !.url = None, !.visited = vs]
  OBVIOUS
<1>5. Pages(listed[s]) \subseteq Int /\ Pages(listed[s]) \subseteq Addresses(s)
  BY SiteFacts
<1>6. w \in Walk
  BY <1>2, <1>3, <1>4, <1>5, NoAddress, ZenonT(40) DEF Walk
<1>7. /\ w.pc = "idle" /\ w.url = None /\ w.visited = c.visited \union {u}
      /\ w.todo = c.todo /\ w.next = c.next
  BY <1>2, <1>3, <1>4 DEF Walk
<1>8. walk' = [walk EXCEPT ![s] = w]
  BY <1>1, <1>3, <1>4 DEF OnError, Set
<1>9. Moved(s, w)
  BY <1>6, <1>8 DEF Moved
<1>10. InOrder(s, w, player')
  BY <1>1, <1>2, <1>7 DEF InOrder, WalkOK
<1>11. SitesOK' /\ JobOK' /\ WalksOK'
  BY <1>1, <1>2, <1>9, <1>10, MovesInOrder
<1>12. TablesOK'
  BY DEF Types, TablesOK
<1>13. Overtaken' /\ LostRacesWon'
  <2>1. RaceKept(s, w)
    BY <1>1, <1>2, <1>7 DEF RaceKept, At
  <2> QED BY <1>9, <2>1, RacesKept
<1>14. walk'[s] = w
  BY <1>9, OneMoves
<1>15. SeenTo(s)'
  <2>1. ASSUME NEW v \in c.visited, NEW b \in Kept(s, v)' PROVE Met(s, b)'
    <3>1. v # u /\ v \in Addresses(s)
      BY <1>1, <1>2, <1>5, <2>1 DEF WalkOK
    <3>2. b \in Kept(s, v)
      BY <2>1, <3>1 DEF Kept
    <3>3. Met(s, b)
      BY <1>1, <2>1, <3>2 DEF BansSeenTo, SeenTo
    <3> QED BY <1>1, <1>7, <1>14, <3>3 DEF Met, Stored
  <2>2. Kept(s, u)' = {}
    BY DEF Kept
  <2> QED BY <1>7, <1>14, <2>1, <2>2 DEF SeenTo
<1>16. OnlyListed(s)'
  <2>1. \A r : FromList(s, r) => FromList(s, r)'
    BY DEF FromList, Listed
  <2> QED BY <1>1, <1>7, <1>14, <2>1 DEF AllListed, OnlyListed
<1>17. BansSeenTo' /\ AllListed'
  BY <1>9, <1>15, <1>16, OthersKept DEF BansSeenTo, AllListed
<1> QED BY <1>11, <1>12, <1>13, <1>17 DEF Types

\* What is kept of an address replaces nothing but that.
LEMMA KeepOne ==
    ASSUME Types, UNCHANGED listed, NEW s \in Site, NEW u \in Pages(listed[s]), u = walk[s].url,
           NEW answer \in {Denied, listed[s]}, Keep(s, answer)
    PROVE  /\ CacheOK' /\ cache'[s][u] = answer
           /\ \A v \in Addresses(s) \ {u} : cache'[s][v] = cache[s][v]
           /\ \A t \in Site \ {s} : cache'[t] = cache[t]
<1>1. listed[s] \in Nat \ {0} /\ u \in Addresses(s)
  BY SiteFacts
<1>2. PICK c : c = cache[s]
  OBVIOUS
<1>3. /\ c \in [Addresses(s) -> Denied..listed[s]] /\ DOMAIN cache = Site
      /\ \A v \in Addresses(s) : c[v] > 0 => v \in Pages(c[v])
  BY <1>2 DEF Types, CacheOK
<1>4. PICK d : d = [c EXCEPT ![u] = answer]
  OBVIOUS
<1>5. answer \in Denied..listed[s] /\ (answer > 0 => answer = listed[s])
  BY <1>1 DEF Denied
<1>6. /\ d \in [Addresses(s) -> Denied..listed[s]]
      /\ d[u] = answer /\ \A v \in Addresses(s) \ {u} : d[v] = c[v]
  BY <1>1, <1>3, <1>4, <1>5
<1>7. \A v \in Addresses(s) : d[v] > 0 => v \in Pages(d[v])
  BY <1>3, <1>5, <1>6
<1>8. cache' = [cache EXCEPT ![s] = d]
  BY <1>2, <1>4 DEF Keep
<1>9. /\ DOMAIN cache' = Site /\ cache'[s] = d
      /\ \A t \in Site \ {s} : cache'[t] = cache[t]
  BY <1>3, <1>8
<1>10. CacheOK'
  <2>1. ASSUME NEW t \in Site
        PROVE  /\ cache'[t] \in [Addresses(t) -> Denied..listed[t]]
               /\ \A v \in Addresses(t) : cache'[t][v] > 0 => v \in Pages(cache'[t][v])
    <3>1. CASE t = s
      BY <1>6, <1>7, <1>9, <3>1
    <3>2. CASE t # s
      BY <1>9, <3>2 DEF Types, CacheOK
    <3> QED BY <3>1, <3>2
  <2>2. \A n : Pages(n)' = Pages(n)
    BY DEF Pages
  <2> QED BY <1>9, <2>1, <2>2 DEF CacheOK, Addresses
<1> QED BY <1>2, <1>6, <1>9, <1>10

LEMMA VisitKeeps ==
    ASSUME PagesParsed, IInv, NEW s \in Site, Visit(s) PROVE IInv'
<1> USE DEF IInv
<1>1. PICK u : u = walk[s].url
  OBVIOUS
<1>2. At(s, "visit") /\ u # None /\ u \notin walk[s].visited
  BY <1>1 DEF Visit
<1>3. UNCHANGED <<theme, listed, site, player, bans, job, lost>>
  BY DEF Visit, sites, db
<1>4. u \in Pages(listed[s])
  BY <1>1, <1>2, WalkFacts DEF WalkOK
<1>5. /\ listed[s] \in Nat \ {0} /\ listed[s] <= Len(Bans[s]) /\ Len(Bans[s]) \in Nat
      /\ theme[s] \in Theme /\ u \in Addresses(s)
  BY <1>4, SiteFacts
<1>6. faults \in 0..MaxFaults /\ MaxFaults \in Nat
  BY FaultsAssumption DEF Types, JobOK
<1>7. ASSUME NEW n \in 1..listed[s], u \in Pages(n), OnHTML(s, n), NoFault,
             CacheOK', OnlyFor(s),
             cache'[s][u] = n, \A v \in Addresses(s) \ {u} : cache'[s][v] = cache[s][v]
      PROVE  IInv'
  <2>1. PICK rows : rows = IF u = Home THEN <<>> ELSE Parsed[s][theme[s]][n][PageOf(u)]
    OBVIOUS
  <2>2. n \in Nat \ {0} /\ n \in 1..Len(Bans[s])
    BY <1>5
  <2>3. u # Home => PageRead(s, n, PageOf(u), rows)
    <3> SUFFICES ASSUME u # Home PROVE PageRead(s, n, PageOf(u), rows)
      OBVIOUS
    <3>1. PageOf(u) \in 1..PageCount(n)
      BY <1>7, <2>2, PageNumbers
    <3>2. PageRead(s, n, PageOf(u), Parsed[s][theme[s]][n][PageOf(u)])
      BY <1>5, <2>2, <3>1, PageIsRead
    <3> QED BY <2>1, <3>2
  <2>4. rows \in Seq(Row) /\ (u = Home => rows = <<>>)
    BY <2>1, <2>3 DEF PageRead
  <2>5. walk' = [walk EXCEPT ![s] =
            [walk[s] EXCEPT !.pc = "select", !.url = None, !.visited = @ \union {u},
                            !.todo = rows, !.next = NextURL(s, u, n)]]
    BY <1>1, <1>7, <2>1 DEF OnHTML, Set
  <2>6. faults' = faults
    BY <1>7 DEF NoFault
  <2> QED BY <1>1, <1>2, <1>3, <1>7, <2>3, <2>4, <2>5, <2>6, PageKeeps
<1>8. CASE cache[s][u] > 0 /\ OnHTML(s, cache[s][u]) /\ UNCHANGED cache /\ NoFault
  <2>1. cache[s][u] \in 1..listed[s] /\ u \in Pages(cache[s][u])
    BY <1>4, <1>8, KeptPage
  <2>2. CacheOK' /\ OnlyFor(s)
    BY <1>3, <1>8, SameTables
  <2> QED BY <1>7, <1>8, <2>1, <2>2
<1>9. CASE /\ cache[s][u] = Unseen
           /\ OnHTML(s, listed[s]) /\ Keep(s, listed[s])
           /\ NoFault
  <2>1. /\ CacheOK' /\ cache'[s][u] = listed[s]
        /\ \A v \in Addresses(s) \ {u} : cache'[s][v] = cache[s][v]
        /\ OnlyFor(s)
    BY <1>1, <1>3, <1>4, <1>9, KeepOne DEF OnlyFor
  <2>2. listed[s] \in 1..listed[s]
    BY <1>5
  <2> QED BY <1>4, <1>7, <1>9, <2>1, <2>2
<1>10. CASE /\ cache[s][u] = Unseen
            /\ OnError(s) /\ Keep(s, Denied)
            /\ Fault
  <2>1. /\ CacheOK' /\ cache'[s][u] = Denied
        /\ \A v \in Addresses(s) \ {u} : cache'[s][v] = cache[s][v]
        /\ OnlyFor(s)
    BY <1>1, <1>3, <1>4, <1>10, KeepOne DEF OnlyFor
  <2>2. ~(cache'[s][u] > 0)
    BY <2>1 DEF Denied
  <2>3. faults' \in 0..MaxFaults /\ faults' # 0
    BY <1>6, <1>10 DEF Fault
  <2> QED BY <1>1, <1>2, <1>3, <1>4, <1>10, <2>1, <2>2, <2>3, ErrorKeeps
<1>11. CASE /\ cache[s][u] \in {Denied, Unseen}
            /\ OnError(s)
            /\ UNCHANGED cache /\ (NoFault \/ Fault)
  <2>1. CacheOK' /\ OnlyFor(s)
    BY <1>3, <1>11, SameTables
  <2>2. ~(cache'[s][u] > 0)
    BY <1>11 DEF Denied, Unseen
  <2>3. faults' \in 0..MaxFaults /\ (faults # 0 => faults' # 0)
    BY <1>6, <1>11 DEF Fault, NoFault
  <2> QED BY <1>1, <1>2, <1>3, <1>4, <1>11, <2>1, <2>2, <2>3, ErrorKeeps
<1> QED BY <1>1, <1>8, <1>9, <1>10, <1>11 DEF Visit

----------------------------------------------------------------------------
(* Steps of the job, of the process and of the sites. *)

\* The job goes on, no goroutine does.
LEMMA JobMoves ==
    ASSUME IInv, UNCHANGED <<theme, listed, cache, player, bans, walk, lost>>,
           site \subseteq site', JobOK', faults' = 0 => faults = 0
    PROVE  IInv'
<1> USE DEF IInv
<1>1. SitesOK' /\ CacheOK' /\ TablesOK'
  BY DEF Types, SitesOK, CacheOK, TablesOK, Addresses, Pages
<1>2. WalksOK'
  <2>1. \A s \in Site : WalkOK(s)'
    BY DEF Types, WalksOK, WalkOK, Current, Pages
  <2> QED BY <2>1 DEF Types, WalksOK
<1>3. \A t, r : WonByOther(t, r)' <=> WonByOther(t, r)
  BY DEF WonByOther, At, Current
<1>4. Overtaken'
  <2> SUFFICES ASSUME faults' = 0, NEW t \in Site, At(t, "insert")', (Current(t).sid \in player)'
               PROVE  WonByOther(t, Current(t))'
    BY DEF Overtaken
  <2>1. PICK r : r = Current(t)
    OBVIOUS
  <2>2. WonByOther(t, r)
    BY <2>1 DEF Overtaken, At, Current
  <2>3. WonByOther(t, r)' /\ r = Current(t)'
    BY <1>3, <2>1, <2>2 DEF Current
  <2> QED BY <2>3
<1>5. LostRacesWon'
  BY <1>3 DEF LostRacesWon
<1>6. BansSeenTo'
  <2>1. \A s \in Site : \A u : Kept(s, u)' = Kept(s, u)
    BY DEF Kept
  <2>2. \A s \in Site : \A b : Met(s, b) => Met(s, b)'
    BY DEF Met, Stored
  <2> QED BY <2>1, <2>2 DEF BansSeenTo, SeenTo
<1>7. AllListed'
  <2>1. \A s \in Site : \A r : FromList(s, r) => FromList(s, r)'
    BY DEF FromList, Listed
  <2> QED BY <2>1 DEF AllListed, OnlyListed
<1> QED BY <1>1, <1>2, <1>4, <1>5, <1>6, <1>7 DEF Types

\* All goroutines begin, or are over.
LEMMA FreshWalks ==
    /\ NoWalk \in Walk /\ NoWalk.pc = "idle" /\ NoWalk.url = None /\ NoWalk.next = None
    /\ NoWalk.visited = {} /\ NoWalk.todo = <<>>
<1>1. <<>> \in Seq(Row) /\ {} \in SUBSET Int
  BY EmptySeq
<1> QED BY <1>1, NoAddress DEF NoWalk, Walk

\* w is where every goroutine is.
LEMMA WalksReset ==
    ASSUME IInv, UNCHANGED <<theme, listed, cache, site, player, bans, lost>>, JobOK',
           NEW w \in Walk, w.pc \in {"idle", "visit"}, w.url \in {Start, None}, w.next = None,
           w.visited = {}, w.todo = <<>>,
           walk' = [s \in Site |-> w],
           faults' = 0 => faults = 0 /\ \A s \in Site : ~At(s, "save")
    PROVE  IInv'
<1> USE DEF IInv
<1>1. SitesOK' /\ CacheOK' /\ TablesOK'
  BY DEF Types, SitesOK, CacheOK, TablesOK, Addresses, Pages
<1>2. WalksOK'
  <2>1. \A s \in Site : Start \in Pages(listed[s])
    BY SiteFacts
  <2>2. ASSUME NEW s \in Site PROVE WalkOK(s)'
    <3>1. walk'[s] = w
      OBVIOUS
    <3> QED BY <2>1, <3>1 DEF WalkOK, Pages
  <2> QED BY <2>2 DEF WalksOK
<1>3. Overtaken'
  BY DEF Overtaken, At
<1>4. LostRacesWon'
  <2> SUFFICES ASSUME faults' = 0, NEW t \in Site, NEW r \in lost[t] PROVE WonByOther(t, r)'
    BY DEF LostRacesWon
  <2>1. PICK v \in Site \ {t} : \E q \in bans[v] : q.sid = r.sid
    BY DEF LostRacesWon, WonByOther
  <2> QED BY <2>1 DEF WonByOther
<1>5. BansSeenTo'
  BY DEF BansSeenTo, SeenTo
<1>6. AllListed'
  <2>1. \A s \in Site : \A r : FromList(s, r) => FromList(s, r)'
    BY DEF FromList, Listed
  <2>2. \A s \in Site : ToSet(walk'[s].todo) = {}
    BY EmptySet
  <2> QED BY <2>1, <2>2 DEF AllListed, OnlyListed
<1> QED BY <1>1, <1>2, <1>3, <1>4, <1>5, <1>6 DEF Types

LEMMA NoJobIsOne ==
    NoJob \in Job /\ NoJob.pc = "idle" /\ NoJob.todo = {} /\ NoJob.late = FALSE
BY DEF NoJob, Job

LEMMA StartJobKeeps == ASSUME IInv, StartJob PROVE IInv'
<1> USE DEF IInv
<1>1. PICK j : j = [NoJob EXCEPT !.pc = "sites", !.todo = Site]
  OBVIOUS
<1>2. j \in Job /\ j.pc = "sites" /\ j.todo = Site /\ j.late = FALSE
  BY <1>1 DEF NoJob, Job
<1>3. job' = j /\ UNCHANGED <<theme, listed, cache, site, player, bans, walk, lost, faults>>
  BY <1>1 DEF StartJob, sites, db
<1>4. JobOK'
  BY <1>2, <1>3 DEF Types, JobOK, StartJob
<1> QED BY <1>3, <1>4, JobMoves

LEMMA GetSiteKeeps == ASSUME IInv, GetSite PROVE IInv'
<1> USE DEF IInv
<1>1. PICK c : c = job
  OBVIOUS
<1>2. c \in Job /\ c.pc = "sites"
  BY <1>1 DEF GetSite, Types, JobOK
<1>3. PICK s \in c.todo : site' = site \union {s} /\ job' = [c EXCEPT !.todo = @ \ {s}]
  BY <1>1 DEF GetSite
<1>4. /\ job' \in Job /\ job'.pc = "sites" /\ job'.todo = c.todo \ {s}
      /\ job'.late = c.late
  BY <1>2, <1>3 DEF Job
<1>5. UNCHANGED <<theme, listed, cache, player, bans, walk, lost, faults>>
  BY DEF GetSite, sites
<1>6. JobOK'
  BY <1>1, <1>2, <1>3, <1>4, <1>5 DEF Types, JobOK
<1> QED BY <1>3, <1>5, <1>6, JobMoves

LEMMA SiteFailsKeeps == ASSUME IInv, SiteFails PROVE IInv'
<1> USE DEF IInv
<1>1. job' = NoJob /\ UNCHANGED <<theme, listed, cache, site, player, bans, walk, lost>>
  BY DEF SiteFails, sites, db
<1>2. faults' \in 0..MaxFaults /\ (faults' = 0 => faults = 0)
  BY FaultsAssumption DEF SiteFails, Fault, NoFault, Types, JobOK
<1>3. JobOK'
  BY <1>1, <1>2, NoJobIsOne DEF Types, JobOK, SiteFails
<1> QED BY <1>1, <1>2, <1>3, JobMoves

LEMMA TimeOutKeeps == ASSUME IInv, TimeOut PROVE IInv'
<1> USE DEF IInv
<1>1. PICK c : c = job
  OBVIOUS
<1>2. c \in Job
  BY <1>1 DEF Types, JobOK
<1>3. job' = [c EXCEPT !.late = TRUE]
  BY <1>1 DEF TimeOut
<1>4. job' \in Job /\ job'.pc = c.pc /\ job'.todo = c.todo
  BY <1>2, <1>3 DEF Job
<1>5. UNCHANGED <<theme, listed, cache, site, player, bans, walk, lost>>
  BY DEF TimeOut, sites, db
<1>6. faults' \in 0..MaxFaults /\ faults' # 0
  BY FaultsAssumption DEF TimeOut, Fault, Types, JobOK
<1>7. JobOK'
  BY <1>1, <1>4, <1>5, <1>6 DEF Types, JobOK
<1> QED BY <1>5, <1>6, <1>7, JobMoves

LEMMA LaunchKeeps == ASSUME IInv, Launch PROVE IInv'
<1> USE DEF IInv
<1>1. PICK w : w = [NoWalk EXCEPT !.pc = "visit", !.url = Start]
  OBVIOUS
<1>2. PICK none : none = NoWalk
  OBVIOUS
<1>3. w = [none EXCEPT !.pc = "visit", !.url = Start] /\ none \in Walk /\ Start \in Int
  BY <1>1, <1>2, FreshWalks DEF Start
<1>4. w \in Walk /\ w.pc = "visit" /\ w.url = Start /\ w.next = None /\ w.visited = {}
      /\ w.todo = <<>>
  BY <1>2, <1>3, FreshWalks DEF Walk
<1>5. walk' = [s \in Site |-> w]
  BY <1>1 DEF Launch
<1>6. UNCHANGED <<theme, listed, cache, site, player, bans, lost, faults>>
  BY DEF Launch, sites, db
<1>7. \A s \in Site : ~At(s, "save")
  BY FreshWalks DEF Launch, Types, JobOK, At
<1>8. JobOK'
  <2>1. PICK c : c = job
    OBVIOUS
  <2>2. c \in Job /\ job' = [c EXCEPT !.pc = "run"] /\ c.pc = "sites" /\ c.todo = {}
    BY <2>1 DEF Types, JobOK, Launch
  <2>3. job' \in Job /\ job'.pc = "run" /\ job'.late = c.late
    BY <2>2 DEF Job
  <2>4. Site \subseteq site
    BY <2>1, <2>2 DEF Types, JobOK
  <2> QED BY <1>6, <2>1, <2>3, <2>4 DEF Types, JobOK
<1> QED BY <1>4, <1>5, <1>6, <1>7, <1>8, WalksReset

LEMMA JobDoneKeeps == ASSUME IInv, JobDone PROVE IInv'
<1> USE DEF IInv
<1>1. UNCHANGED <<theme, listed, cache, site, player, bans, lost, faults>>
  BY DEF JobDone, sites, db
<1>2. \A s \in Site : ~At(s, "save")
  BY DEF JobDone, At
<1>3. job' = NoJob /\ walk' = [s \in Site |-> NoWalk]
  BY DEF JobDone
<1>4. JobOK'
  BY <1>1, <1>3, NoJobIsOne DEF Types, JobOK
<1> QED BY <1>1, <1>2, <1>3, <1>4, FreshWalks, WalksReset

LEMMA CrashKeeps == ASSUME IInv, Crash PROVE IInv'
<1> USE DEF IInv
<1>1. UNCHANGED <<theme, listed, cache, site, player, bans, lost>>
  BY DEF Crash, sites, db
<1>2. faults' \in 0..MaxFaults /\ faults' # 0
  BY FaultsAssumption DEF Crash, Fault, Types, JobOK
<1>3. job' = NoJob /\ walk' = [s \in Site |-> NoWalk]
  BY DEF Crash
<1>4. JobOK'
  BY <1>2, <1>3, NoJobIsOne DEF JobOK
<1> QED BY <1>1, <1>2, <1>3, <1>4, FreshWalks, WalksReset

\* A longer list has all the pages and all the bans the list had.
LEMMA BanKeeps == ASSUME IInv, NEW s \in Site, Ban(s) PROVE IInv'
<1> USE DEF IInv
<1>1. UNCHANGED <<theme, cache, site, player, bans, job, walk, lost, faults>>
  BY DEF Ban, db
<1>2. ASSUME NEW t \in Site
      PROVE  /\ listed[t] \in Nat \ {0} /\ listed'[t] \in Nat \ {0}
             /\ listed[t] <= listed'[t] /\ listed'[t] \in 1..Len(Bans[t])
  <2>1. listed[t] \in Nat \ {0} /\ Len(Bans[t]) \in Nat /\ listed[t] <= Len(Bans[t])
    BY SiteFacts
  <2>2. listed'[t] = IF t = s THEN listed[t] + 1 ELSE listed[t]
    BY DEF Ban, Types, SitesOK
  <2>3. t = s => listed[t] < Len(Bans[t])
    BY DEF Ban
  <2> QED BY <2>1, <2>2, <2>3
<1>3. SitesOK'
  <2>1. DOMAIN listed' = Site /\ listed' = [t \in DOMAIN listed' |-> listed'[t]]
    BY DEF Ban, Types, SitesOK
  <2>2. listed' \in [Site -> Nat]
    BY <1>2, <2>1
  <2> QED BY <1>1, <1>2, <2>2 DEF Types, SitesOK
<1>4. CacheOK'
  <2>1. ASSUME NEW t \in Site PROVE cache'[t] \in [Addresses(t) -> Denied..listed'[t]]
    <3>1. Denied..listed[t] \subseteq Denied..listed'[t]
      BY <1>2 DEF Denied
    <3>2. cache[t] \in [Addresses(t) -> Denied..listed[t]]
      BY DEF Types, CacheOK
    <3> QED BY <1>1, <3>1, <3>2
  <2> QED BY <1>1, <2>1 DEF Types, CacheOK, Addresses, Pages
<1>5. TablesOK' /\ JobOK'
  BY <1>1 DEF Types, TablesOK, JobOK
<1>6. WalksOK'
  <2>1. ASSUME NEW t \in Site PROVE WalkOK(t)'
    <3>1. PICK m, n : m = listed[t] /\ n = listed'[t]
      OBVIOUS
    <3>2. Pages(m) \subseteq Pages(n)
      BY <1>2, <3>1, PagesGrow
    <3>3. WalkOK(t)
      BY WalkFacts
    <3>4. Pages(listed[t])' = Pages(n)
      BY <3>1 DEF Pages
    <3> QED BY <1>1, <3>1, <3>2, <3>3, <3>4 DEF WalkOK, Current
  <2> QED BY <1>1, <2>1 DEF Types, WalksOK
<1>7. \A t, r : WonByOther(t, r) => WonByOther(t, r)'
  BY <1>1 DEF WonByOther, At, Current
<1>8. Overtaken' /\ LostRacesWon'
  <2>1. Overtaken'
    <3> SUFFICES ASSUME faults' = 0, NEW t \in Site, At(t, "insert")', (Current(t).sid \in player)'
                 PROVE  WonByOther(t, Current(t))'
      BY DEF Overtaken
    <3>1. PICK r : r = Current(t)
      OBVIOUS
    <3>2. WonByOther(t, r)
      BY <1>1, <3>1 DEF Overtaken, At, Current
    <3>3. WonByOther(t, r)' /\ r = Current(t)'
      BY <1>1, <1>7, <3>1, <3>2 DEF Current
    <3> QED BY <3>3
  <2>2. LostRacesWon'
    BY <1>1, <1>7 DEF LostRacesWon
  <2> QED BY <2>1, <2>2
<1>9. BansSeenTo'
  <2>1. \A t \in Site : \A u : Kept(t, u)' = Kept(t, u)
    BY <1>1 DEF Kept
  <2>2. \A t \in Site : \A b : Met(t, b) => Met(t, b)'
    BY <1>1 DEF Met, Stored
  <2> QED BY <1>1, <2>1, <2>2 DEF BansSeenTo, SeenTo
<1>10. AllListed'
  <2>1. ASSUME NEW t \in Site, NEW r, FromList(t, r) PROVE FromList(t, r)'
    <3>1. PICK i \in 1..listed[t] : ComesFrom(r, Bans[t][i])
      BY <2>1 DEF FromList, Listed
    <3>2. i \in 1..listed'[t]
      BY <1>2
    <3> QED BY <3>1, <3>2 DEF FromList, Listed
  <2> QED BY <1>1, <2>1 DEF AllListed, OnlyListed
<1> QED BY <1>3, <1>4, <1>5, <1>6, <1>8, <1>9, <1>10 DEF Types

----------------------------------------------------------------------------
(* The theorems. *)

LEMMA InitHolds == Init => IInv
<1> SUFFICES ASSUME Init PROVE IInv
  OBVIOUS
<1> USE DEF Init
<1>1. ASSUME NEW s \in Site
      PROVE  listed[s] \in Nat /\ listed[s] \in 1..Len(Bans[s])
  <2>1. \A t \in Site : Len(Bans[t]) \in Nat
    BY BansAssumption, LenProperties
  <2>2. listed \in [Site -> UNION {1..Len(Bans[t]) : t \in Site}] /\ listed[s] <= Len(Bans[s])
    OBVIOUS
  <2>3. PICK t \in Site : listed[s] \in 1..Len(Bans[t])
    BY <2>2
  <2> QED BY <2>1, <2>2, <2>3
<1>2. listed \in [Site -> Nat]
  <2>1. DOMAIN listed = Site /\ listed = [s \in DOMAIN listed |-> listed[s]]
    OBVIOUS
  <2> QED BY <1>1, <2>1
<1>3. SitesOK
  BY <1>1, <1>2 DEF SitesOK
<1>4. CacheOK
  BY <1>1 DEF CacheOK, Unseen, Denied
<1>5. TablesOK
  BY DEF TablesOK
<1>6. JobOK
  BY NoJobIsOne, FaultsAssumption DEF JobOK
<1>7. WalksOK
  BY FreshWalks DEF WalksOK, WalkOK
<1>8. Overtaken /\ LostRacesWon
  BY FreshWalks DEF Overtaken, LostRacesWon, At
<1>9. BansSeenTo
  BY FreshWalks DEF BansSeenTo, SeenTo
<1>10. AllListed
  BY FreshWalks, EmptySet DEF AllListed, OnlyListed
<1> QED BY <1>3, <1>4, <1>5, <1>6, <1>7, <1>8, <1>9, <1>10 DEF IInv, Types

LEMMA StutterKeeps == ASSUME IInv, UNCHANGED vars PROVE IInv'
<1>1. UNCHANGED <<theme, listed, cache, site, player, bans, job, walk, lost, faults>>
  BY DEF vars, db
<1>2. JobOK'
  BY <1>1 DEF IInv, Types, JobOK
<1> QED BY <1>1, <1>2, JobMoves

LEMMA StepKeeps == ASSUME PagesParsed, IInv, [Next]_vars PROVE IInv'
<1>1. CASE JobStep
  BY <1>1, StartJobKeeps, GetSiteKeeps, SiteFailsKeeps, LaunchKeeps, JobDoneKeeps DEF JobStep
<1>2. CASE TimeOut
  BY <1>2, TimeOutKeeps
<1>3. CASE Crash
  BY <1>3, CrashKeeps
<1>4. ASSUME NEW s \in Site, WalkStep(s) PROVE IInv'
  BY <1>4, VisitKeeps, FinishKeeps, SelectKeeps, InsertKeeps, SaveKeeps, FailKeeps, FollowKeeps
     DEF WalkStep
<1>5. ASSUME NEW s \in Site, Ban(s) PROVE IInv'
  BY <1>5, BanKeeps
<1>6. CASE UNCHANGED vars
  BY <1>6, StutterKeeps
<1> QED BY <1>1, <1>2, <1>3, <1>4, <1>5, <1>6 DEF Next

LEMMA Invariance == ASSUME PagesParsed PROVE Spec => []IInv
<1>1. Init => IInv
  BY InitHolds
<1>2. IInv /\ [Next]_vars => IInv'
  BY StepKeeps
<1> QED BY <1>1, <1>2, PTL DEF Spec

\* The variables keep to their types; only players and sites that are stored are named
\* by rows of bans.
THEOREM TypeCorrect == ASSUME PagesParsed PROVE Spec => []TypeOK
<1>1. IInv => TypeOK
  <2> SUFFICES ASSUME IInv PROVE TypeOK
    OBVIOUS
  <2>1. ASSUME NEW s \in Site
        PROVE  /\ walk[s].visited \subseteq Addresses(s)
               /\ ToSet(walk[s].todo) \subseteq Row
    <3>1. walk[s] \in Walk /\ WalkOK(s) /\ Pages(listed[s]) \subseteq Addresses(s)
      BY WalkFacts, SiteFacts DEF IInv
    <3>2. PICK q : q = walk[s].todo
      OBVIOUS
    <3>3. q \in Seq(Row)
      BY <3>1, <3>2 DEF Walk
    <3>4. ToSet(q) \subseteq Row
      BY <3>3 DEF ToSet
    <3> QED BY <3>1, <3>2, <3>4 DEF WalkOK
  <2>2. ASSUME NEW s \in Site
        PROVE  /\ walk[s].pc \in {"idle", "visit", "select", "insert", "save"}
               /\ walk[s].pc \in {"insert", "save"} => walk[s].todo # <<>>
    BY WalkFacts DEF IInv, WalkOK, Walk
  <2>3. ASSUME NEW s \in Site
        PROVE  /\ listed[s] \in 1..Len(Bans[s])
               /\ cache[s] \in [Addresses(s) -> Denied..listed[s]]
               /\ bans[s] \subseteq Row /\ lost[s] \subseteq Row
               /\ \A r \in bans[s] : s \in site /\ r.sid \in player
    BY DEF IInv, Types, SitesOK, CacheOK, TablesOK
  <2>4. /\ theme \in [Site -> Theme]
        /\ job.pc \in {"idle", "sites", "run"} /\ job.todo \subseteq Site
        /\ job.pc # "run" => \A s \in Site : walk[s] = NoWalk
        /\ faults \in 0..MaxFaults
    BY DEF IInv, Types, SitesOK, JobOK, Job
  <2> QED BY <2>1, <2>2, <2>3, <2>4 DEF TypeOK
<1> QED BY <1>1, Invariance, PTL

\* Each row is a ban of its own site's list and says what that ban says, whichever walk
\* stored it and however old the page it had kept.
THEOREM RowsComeFromLists == ASSUME PagesParsed PROVE Spec => []RowsAreListed
<1>1. IInv => RowsAreListed
  BY DEF IInv, AllListed, OnlyListed, FromList, RowsAreListed
<1> QED BY <1>1, Invariance, PTL

\* What a walk meets it stores, unless there is a fault or another site's goroutine was
\* first to register the player; and that goroutine has stored its ban or is about to.
THEOREM WalksPassOverNothing == ASSUME PagesParsed PROVE Spec => []NoBanPassedOver
<1>1. IInv => NoBanPassedOver
  BY DEF IInv, BansSeenTo, SeenTo, Met, LostRacesWon, WonByOther, NoBanPassedOver
<1> QED BY <1>1, Invariance, PTL

----------------------------------------------------------------------------
(* Induction over an initial segment of the natural numbers, from the library's well-     *)
(* foundedness of <. *)

LEMMA LeastNumber ==
    ASSUME NEW T, T \subseteq Nat, T # {}
    PROVE  \E n \in T : \A m \in T : n <= m
<1> DEFINE R == OpToRel(<, Nat)
<1>1. IsWellFoundedOn(R, Nat)
  BY NatLessThanWellFounded
<1>2. \A x, y \in Nat : x < y => <<x, y>> \in R
  BY DEF OpToRel
<1> HIDE DEF R
<1>3. PICK n \in T : \A m \in T : ~(<<m, n>> \in R)
  BY <1>1, WFMin
<1>4. \A m \in T : m \in Nat /\ n \in Nat /\ ~(m < n)
  BY <1>2, <1>3
<1>5. \A m \in T : n <= m
  BY <1>4
<1> QED BY <1>5

LEMMA SegmentInduction ==
    ASSUME NEW N \in Nat, NEW S, 0 \in S, \A n \in 0..(N - 1) : n \in S => n + 1 \in S
    PROVE  \A n \in 0..N : n \in S
<1> DEFINE Out == {n \in 0..N : n \notin S}
<1>1. Out \subseteq Nat
  OBVIOUS
<1>2. SUFFICES ASSUME Out # {} PROVE FALSE
  OBVIOUS
<1> HIDE DEF Out
<1>3. PICK k \in Out : \A m \in Out : k <= m
  BY <1>1, <1>2, LeastNumber
<1>4. k \in 0..N /\ k \notin S
  BY DEF Out
<1>5. k - 1 \in 0..(N - 1) /\ k - 1 \notin Out
  BY <1>3, <1>4
<1> QED BY <1>4, <1>5 DEF Out

\* Sets of one element each, of which each comes from the one before it.
LEMMA SingletonsToEnd ==
    ASSUME NEW N \in Nat, NEW h, NEW acc, acc[0] = {h[0]},
           \A i \in 1..N : acc[i - 1] = {h[i - 1]} => acc[i] = {h[i]}
    PROVE  acc[N] = {h[N]}
<1> DEFINE S == {i \in 0..N : acc[i] = {h[i]}}
<1>1. 0 \in S
  OBVIOUS
<1>2. ASSUME NEW i \in 0..(N - 1), i \in S PROVE i + 1 \in S
  <2>1. i + 1 \in 1..N /\ (i + 1) - 1 = i
    OBVIOUS
  <2> QED BY <1>2, <2>1
<1>3. \A i \in 0..N : i \in S
  <2> HIDE DEF S
  <2> QED BY <1>1, <1>2, SegmentInduction
<1> QED BY <1>3

----------------------------------------------------------------------------
(* What the folds of the parsers come to: a run of states. *)

TextRun(h, n, t, st, texts) ==
    /\ DOMAIN h = 0..n
    /\ h[0] = st
    /\ \A i \in 1..n : h[i] = ParseText(t, h[i - 1], texts[i])

LEMMA TextRunExists ==
    ASSUME NEW N \in Nat, NEW t, NEW st, NEW texts
    PROVE  \E h : TextRun(h, N, t, st, texts)
<1> DEFINE S == {n \in 0..N : \E h : TextRun(h, n, t, st, texts)}
<1>1. 0 \in S
  <2>1. TextRun([i \in 0..0 |-> st], 0, t, st, texts)
    BY DEF TextRun
  <2> QED BY <2>1
<1>2. ASSUME NEW n \in 0..(N - 1), n \in S PROVE n + 1 \in S
  <2>1. PICK h : TextRun(h, n, t, st, texts)
    BY <1>2
  <2>2. PICK g : g = [i \in 0..(n + 1) |->
                        IF i = n + 1 THEN ParseText(t, h[n], texts[n + 1]) ELSE h[i]]
    OBVIOUS
  <2>3. TextRun(g, n + 1, t, st, texts)
    BY <2>1, <2>2 DEF TextRun
  <2> QED BY <2>3
<1>3. \A n \in 0..N : n \in S
  <2> HIDE DEF S
  <2> QED BY <1>1, <1>2, SegmentInduction
<1> QED BY <1>3

BanRun(h, t, st, b) ==
    /\ TextRun(h, Len(Texts(t, b)), t, st, Texts(t, b))
    /\ ParseBan(t, st, b) = h[Len(Texts(t, b))]

LEMMA ParseBanIsRun ==
    ASSUME NEW t, NEW st, NEW b, Len(Texts(t, b)) \in Nat
    PROVE  \E h : BanRun(h, t, st, b)
<1> DEFINE texts == Texts(t, b)
           N == Len(texts)
           From(acc, i) == {ParseText(t, s, texts[i]) : s \in acc[i - 1]}
           Acc(acc) == acc = [i \in 0..N |-> IF i = 0 THEN {st} ELSE From(acc, i)]
<1>1. PICK h : TextRun(h, N, t, st, texts)
  BY TextRunExists
<1>2. PICK acc : acc = CHOOSE a : Acc(a)
  OBVIOUS
<1>3. ParseBan(t, st, b) = CHOOSE s \in acc[N] : TRUE
  BY <1>2 DEF ParseBan, FoldTexts
<1>4. N \in Nat
  OBVIOUS
<1> HIDE DEF texts, N
<1>5. \E a : Acc(a)
  <2>1. PICK a : a = [i \in 0..N |-> {h[i]}]
    OBVIOUS
  <2>2. ASSUME NEW i \in 0..N PROVE a[i] = IF i = 0 THEN {st} ELSE From(a, i)
    <3>1. CASE i = 0
      BY <1>1, <2>1, <3>1 DEF TextRun
    <3>2. CASE i # 0
      <4>1. i \in 1..N /\ i - 1 \in 0..N
        BY <1>4, <3>2
      <4>2. h[i] = ParseText(t, h[i - 1], texts[i])
        BY <1>1, <4>1 DEF TextRun
      <4>3. a[i] = {h[i]} /\ a[i - 1] = {h[i - 1]}
        BY <2>1, <4>1
      <4> QED BY <3>2, <4>2, <4>3
    <3> QED BY <3>1, <3>2
  <2>3. Acc(a)
    <3> HIDE DEF From
    <3> QED BY <2>1, <2>2
  <2> QED BY <2>3
<1>6. Acc(acc)
  BY <1>2, <1>5
<1>7. \A i \in 0..N : acc[i] = IF i = 0 THEN {st} ELSE From(acc, i)
  <2> HIDE DEF From
  <2> QED BY <1>6
<1>8. acc[0] = {st}
  <2> HIDE DEF From
  <2>1. 0 \in 0..N
    BY <1>4
  <2> QED BY <1>7, <2>1
<1>9. ASSUME NEW i \in 1..N, acc[i - 1] = {h[i - 1]} PROVE acc[i] = {h[i]}
  <2>1. i \in 0..N /\ i # 0
    BY <1>4
  <2>2. acc[i] = From(acc, i)
    <3> HIDE DEF From
    <3> QED BY <1>7, <2>1
  <2>3. h[i] = ParseText(t, h[i - 1], texts[i])
    BY <1>1 DEF TextRun
  <2> QED BY <1>9, <2>2, <2>3
<1>10. acc[N] = {h[N]}
  <2>1. acc[0] = {h[0]}
    BY <1>1, <1>8 DEF TextRun
  <2> QED BY <1>4, <1>9, <2>1, SingletonsToEnd
<1>11. ParseBan(t, st, b) = h[N]
  BY <1>3, <1>10
<1> QED BY <1>1, <1>11 DEF N, texts, BanRun

----------------------------------------------------------------------------
(* The record under construction, row by row. *)

St(q, c, k) == [bans |-> q, cur |-> c, key |-> k]

Draft ==
    [name : STRING \union {Blank}, sid : SteamId \union {Zero}, on : Time \union {Zero},
     perm : BOOLEAN, length : {0, 1}]

IsDraft(c, n, s, o, p, l) ==
    c \in Draft /\ c.name = n /\ c.sid = s /\ c.on = o /\ c.perm = p /\ c.length = l

\* A ban of a page, as its texts show it.
Texted ==
    [name : STRING, sid : STRING, on : STRING, length : STRING, lifter : STRING,
     why : STRING, expires : STRING, reason : STRING, admin : STRING, blocked : STRING]

IdOf(b) == IF b.sid \in SteamId THEN b.sid ELSE Zero
TimeOf(b) == IF b.on \in Time THEN b.on ELSE Zero

\* The record of b after the rows of the name, the ids, the time, the length, and the end.
Named(b) == SetPlayer(NoBan, b.name)
Identified(b) == SetSteam(Named(b), b.sid)
Dated(b) == SetInvokedOn(Identified(b), b.on)
Measured(b) == SetBanLength(Dated(b), b.length)
Complete(b) == SetExpiredOn(Measured(b), b.expires)

LEMMA NoBanRecord == IsDraft(NoBan, Blank, Zero, Zero, FALSE, 0)
<1>1. NoBan \in Draft
  BY DEF NoBan, Draft
<1>2. NoBan.name = Blank /\ NoBan.sid = Zero /\ NoBan.on = Zero /\ NoBan.length = 0
  BY DEF NoBan
<1>3. NoBan.perm = FALSE
  BY DEF NoBan
<1> QED BY <1>1, <1>2, <1>3 DEF IsDraft

LEMMA NamedRecord ==
    ASSUME NEW b \in Texted
    PROVE  IsDraft(Named(b), b.name, Zero, Zero, FALSE, 0) /\ SetPlayer(Named(b), b.name) = Named(b)
<1>1. PICK c : c = NoBan
  OBVIOUS
<1>2. IsDraft(c, Blank, Zero, Zero, FALSE, 0)
  BY <1>1, NoBanRecord
<1>3. PICK d : d = Named(b)
  OBVIOUS
<1>4. IsDraft(d, b.name, Zero, Zero, FALSE, 0)
  BY <1>1, <1>2, <1>3 DEF Named, SetPlayer, IsDraft, Draft, Texted
<1>5. SetPlayer(d, b.name) = d
  BY <1>4 DEF SetPlayer, IsDraft, Draft
<1> QED BY <1>3, <1>4, <1>5

LEMMA IdentifiedRecord ==
    ASSUME NEW b \in Texted
    PROVE  /\ IsDraft(Identified(b), b.name, IdOf(b), Zero, FALSE, 0)
           /\ SetSteam(Identified(b), b.sid) = Identified(b)
<1>1. PICK c : c = Named(b)
  OBVIOUS
<1>2. IsDraft(c, b.name, Zero, Zero, FALSE, 0)
  BY <1>1, NamedRecord
<1>3. PICK d : d = Identified(b)
  OBVIOUS
<1>4. IsDraft(d, b.name, IdOf(b), Zero, FALSE, 0)
  BY <1>1, <1>2, <1>3 DEF Identified, SetSteam, Valid, IdOf, IsDraft, Draft
<1>5. SetSteam(d, b.sid) = d
  BY <1>4, TextAssumption DEF SetSteam, Valid, IdOf, IsDraft, Draft
<1> QED BY <1>3, <1>4, <1>5

LEMMA MeasuredRecord ==
    ASSUME NEW b \in Texted
    PROVE  IsDraft(Measured(b), b.name, IF b.length = "unbanned" THEN Zero ELSE IdOf(b),
                   TimeOf(b), b.length = "permanent", 0)
<1>1. PICK c : c = Identified(b)
  OBVIOUS
<1>2. IsDraft(c, b.name, IdOf(b), Zero, FALSE, 0)
  BY <1>1, IdentifiedRecord
<1>3. PICK d : d = Dated(b)
  OBVIOUS
<1>4. IsDraft(d, b.name, IdOf(b), TimeOf(b), FALSE, 0)
  BY <1>1, <1>2, <1>3 DEF Dated, SetInvokedOn, TimeOf, IsDraft, Draft
<1>5. PICK e : e = Measured(b)
  OBVIOUS
<1>6. IsDraft(e, b.name, IF b.length = "unbanned" THEN Zero ELSE IdOf(b),
              TimeOf(b), b.length = "permanent", 0)
  BY <1>3, <1>4, <1>5 DEF Measured, SetBanLength, IsDraft, Draft
<1> QED BY <1>5, <1>6

\* A complete record is a ban exactly if it is to be reported, and says what the ban says.
LEMMA CompleteRecord ==
    ASSUME NEW b \in Texted
    PROVE  /\ (Valid(Complete(b)) /\ Complete(b).name # Blank) <=> Reported(b)
           /\ Reported(b) => Complete(b) = Said(b) /\ Said(b) \in Row
<1>1. PICK c : c = Measured(b)
  OBVIOUS
<1>2. IsDraft(c, b.name, IF b.length = "unbanned" THEN Zero ELSE IdOf(b),
              TimeOf(b), b.length = "permanent", 0)
  BY <1>1, MeasuredRecord
<1>3. PICK d : d = Complete(b)
  OBVIOUS
<1>4. /\ d \in Draft /\ d.name = b.name /\ d.on = TimeOf(b) /\ d.perm = (b.length = "permanent")
      /\ (d.sid # Zero) <=>
            /\ b.sid \in SteamId /\ b.length # "unbanned"
            /\ b.length = "permanent" \/ TimeOf(b) = Zero \/ b.expires \notin {"earlier", "never"}
      /\ d.sid # Zero => d.sid = b.sid
  BY <1>1, <1>2, <1>3, TextAssumption DEF Complete, SetExpiredOn, Valid, IdOf, IsDraft, Draft
<1>5. d.sid # Zero =>
        d.length = IF b.length # "permanent" /\ b.expires \in {"earlier", "later"} THEN 1 ELSE 0
  BY <1>1, <1>2, <1>3, TextAssumption DEF Complete, SetExpiredOn, Valid, IdOf, IsDraft, Draft
<1>6. TimeOf(b) = Zero <=> b.on \notin Time
  BY TextAssumption DEF TimeOf
<1>7. (Valid(d) /\ d.name # Blank) <=> Reported(b)
  BY <1>4, <1>6 DEF Valid, Reported
<1>8. ASSUME Reported(b) PROVE d = Said(b) /\ Said(b) \in Row
  <2>1. PICK f : f = Said(b)
    OBVIOUS
  <2>2. d.sid # Zero /\ d.sid = b.sid /\ b.sid \in SteamId
    BY <1>4, <1>7, <1>8 DEF Valid
  <2>3. d.length = IF b.length # "permanent" /\ Lasts(b) THEN 1 ELSE 0
    BY <1>5, <1>8, <2>2 DEF Reported, Lasts
  <2>4. d = f
    BY <1>4, <2>1, <2>2, <2>3 DEF Said, Draft, TimeOf
  <2>5. d.name \in STRING
    BY <1>4 DEF Texted
  <2>6. d \in Row
    BY <1>4, <2>2, <2>5 DEF Draft, Row
  <2> QED BY <2>1, <2>4, <2>6
<1> QED BY <1>3, <1>7, <1>8

LEMMA PlayerAssigned ==
    ASSUME NEW q, NEW c, NEW v
    PROVE  Assign(St(q, c, Blank), "player", v) = St(q, SetPlayer(c, v), Blank)
BY DEF Assign, St

LEMMA SteamAssigned ==
    ASSUME NEW q, NEW c, NEW v, NEW k \in {"steam3_id", "steam_community", "community_links"}
    PROVE  Assign(St(q, c, Blank), k, v) = St(q, SetSteam(c, v), Blank)
BY DEF Assign, St

LEMMA InvokedOnAssigned ==
    ASSUME NEW q, NEW c, NEW v
    PROVE  Assign(St(q, c, Blank), "invoked_on", v) = St(q, SetInvokedOn(c, v), Blank)
BY DEF Assign, St

LEMMA BanLengthAssigned ==
    ASSUME NEW q, NEW c, NEW v
    PROVE  Assign(St(q, c, Blank), "ban_length", v) = St(q, SetBanLength(c, v), Blank)
BY DEF Assign, St

LEMMA ExpiresOnAssigned ==
    ASSUME NEW q, NEW c, NEW v
    PROVE  Assign(St(q, c, Blank), "expires_on", v) = St(q, SetExpiredOn(c, v), Blank)
BY DEF Assign, St

LEMMA NothingAssigned ==
    ASSUME NEW st, NEW k, k \notin Keys, NEW v PROVE Assign(st, k, v) = st
BY DEF Assign, Keys

LEMMA ReasonAssigned ==
    ASSUME NEW q, NEW c, NEW v
    PROVE  Assign(St(q, c, Blank), "reason", v) =
                St(IF Valid(c) /\ c.name # Blank THEN Append(q, c) ELSE q, NoBan, Blank)
BY DEF Assign, St, EndRecord

\* What a page comes to with one ban more.
WithBan(q, b) == St(IF Reported(b) THEN Append(q, Said(b)) ELSE q, NoBan, Blank)

LEMMA RecordEnds ==
    ASSUME NEW b \in Texted, NEW q
    PROVE  Assign(St(q, Complete(b), Blank), "reason", b.reason) = WithBan(q, b)
<1>1. PICK c : c = Complete(b)
  OBVIOUS
<1>2. /\ (Valid(c) /\ c.name # Blank) <=> Reported(b)
      /\ Reported(b) => c = Said(b)
  BY <1>1, CompleteRecord
<1>3. Assign(St(q, c, Blank), "reason", b.reason) =
        St(IF Valid(c) /\ c.name # Blank THEN Append(q, c) ELSE q, NoBan, Blank)
  BY ReasonAssigned
<1>4. CASE Reported(b)
  <2>1. Valid(c) /\ c.name # Blank /\ c = Said(b)
    BY <1>2, <1>4
  <2> QED BY <1>1, <1>3, <1>4, <2>1 DEF WithBan
<1>5. CASE ~Reported(b)
  <2>1. ~(Valid(c) /\ c.name # Blank)
    BY <1>2, <1>5
  <2> QED BY <1>1, <1>3, <1>5, <2>1 DEF WithBan
<1> QED BY <1>4, <1>5

----------------------------------------------------------------------------
(* The parsers that read rows. *)

LEMMA RowRead ==
    ASSUME NEW t \in {"material", "star", "fluent"}, NEW st, NEW k, NEW v,
           k \notin {"header", "community_links"}
    PROVE  ParseText(t, st, <<k, v>>) = Assign(st, k, v)
BY DEF ParseText, ParseMaterial, ParseStar, ParseFluent

\* The two rows in which the parsers differ.
LEMMA HeaderRead ==
    ASSUME NEW b \in Texted, NEW t \in {"material", "star", "fluent"}, NEW q
    PROVE  ParseText(t, St(q, NoBan, Blank), <<"header", b.name>>) \in
                {St(q, NoBan, Blank), St(q, Named(b), Blank)}
<1>1. CASE t \in {"material", "fluent"}
  <2>1. ParseText(t, St(q, NoBan, Blank), <<"header", b.name>>) =
            Assign(St(q, NoBan, Blank), "header", b.name)
    BY <1>1 DEF ParseText, ParseMaterial, ParseFluent
  <2> QED BY <2>1, NothingAssigned DEF Keys
<1>2. CASE t = "star"
  <2>1. [NoBan EXCEPT !.name = b.name] = Named(b)
    <3>1. NoBan \in Draft /\ NoBan.name = Blank
      BY NoBanRecord DEF IsDraft
    <3>2. PICK c : c = NoBan
      OBVIOUS
    <3>3. [c EXCEPT !.name = b.name] = IF b.name = Blank THEN c ELSE [c EXCEPT !.name = b.name]
      BY <3>1, <3>2 DEF Draft
    <3> QED BY <3>2, <3>3 DEF Named, SetPlayer
  <2>2. ParseText(t, St(q, NoBan, Blank), <<"header", b.name>>) =
            St(q, [NoBan EXCEPT !.name = b.name], Blank)
    BY <1>2 DEF ParseText, ParseStar, St
  <2> QED BY <2>1, <2>2
<1> QED BY <1>1, <1>2

LEMMA LinksRead ==
    ASSUME NEW b \in Texted, NEW t \in {"material", "star", "fluent"}, NEW q
    PROVE  ParseText(t, St(q, Identified(b), Blank), <<"community_links", b.sid>>) =
                St(q, Identified(b), Blank)
<1>1. CASE t = "fluent"
  BY <1>1 DEF ParseText, ParseFluent
<1>2. CASE t \in {"material", "star"}
  <2>1. ParseText(t, St(q, Identified(b), Blank), <<"community_links", b.sid>>) =
            Assign(St(q, Identified(b), Blank), "community_links", b.sid)
    BY <1>2 DEF ParseText, ParseMaterial, ParseStar
  <2>2. Assign(St(q, Identified(b), Blank), "community_links", b.sid) =
            St(q, SetSteam(Identified(b), b.sid), Blank)
    BY SteamAssigned
  <2> QED BY <2>1, <2>2, IdentifiedRecord
<1> QED BY <1>1, <1>2

LEMMA RowsOfBanRead ==
    ASSUME NEW b \in Texted, NEW t \in {"material", "star", "fluent"}, NEW q
    PROVE  ParseBan(t, St(q, NoBan, Blank), b) = WithBan(q, b)
<1>1. Texts(t, b) = Rows(b)
  BY DEF Texts
<1>2. /\ Len(Rows(b)) = 10
      /\ Rows(b)[1] = <<"header", b.name>>
      /\ Rows(b)[2] = <<"player", b.name>>
      /\ Rows(b)[3] = <<"steam3_id", b.sid>>
      /\ Rows(b)[4] = <<"steam_community", b.sid>>
      /\ Rows(b)[5] = <<"community_links", b.sid>>
      /\ Rows(b)[6] = <<"invoked_on", b.on>>
      /\ Rows(b)[7] = <<"ban_length", b.length>>
      /\ Rows(b)[8] = <<"expires_on", b.expires>>
      /\ Rows(b)[9] = <<"reason", b.reason>>
      /\ Rows(b)[10] = <<"banned_by", b.admin>>
  BY DEF Rows
<1>3. PICK h : /\ TextRun(h, 10, t, St(q, NoBan, Blank), Rows(b))
               /\ ParseBan(t, St(q, NoBan, Blank), b) = h[10]
  <2>1. Len(Texts(t, b)) = 10
    BY <1>1, <1>2
  <2>2. Len(Texts(t, b)) \in Nat
    BY <2>1
  <2>3. PICK h : BanRun(h, t, St(q, NoBan, Blank), b)
    BY <2>2, ParseBanIsRun
  <2> QED BY <1>1, <2>1, <2>3 DEF BanRun
<1>4. h[0] = St(q, NoBan, Blank)
  BY <1>3 DEF TextRun
<1>5. ASSUME NEW i \in 0..9 PROVE h[i + 1] = ParseText(t, h[i], Rows(b)[i + 1])
  <2>1. i + 1 \in 1..10 /\ (i + 1) - 1 = i
    OBVIOUS
  <2> QED BY <1>3, <2>1 DEF TextRun
<1>6. /\ h[1] = ParseText(t, h[0], Rows(b)[1]) /\ h[2] = ParseText(t, h[1], Rows(b)[2])
      /\ h[3] = ParseText(t, h[2], Rows(b)[3]) /\ h[4] = ParseText(t, h[3], Rows(b)[4])
      /\ h[5] = ParseText(t, h[4], Rows(b)[5]) /\ h[6] = ParseText(t, h[5], Rows(b)[6])
      /\ h[7] = ParseText(t, h[6], Rows(b)[7]) /\ h[8] = ParseText(t, h[7], Rows(b)[8])
      /\ h[9] = ParseText(t, h[8], Rows(b)[9]) /\ h[10] = ParseText(t, h[9], Rows(b)[10])
  BY <1>5
<1>7. h[1] \in {St(q, NoBan, Blank), St(q, Named(b), Blank)}
  BY <1>2, <1>4, <1>6, HeaderRead
<1>8. h[2] = St(q, Named(b), Blank)
  <2>1. h[2] = Assign(h[1], "player", b.name)
    BY <1>2, <1>6, RowRead
  <2>2. \/ h[2] = St(q, SetPlayer(NoBan, b.name), Blank)
        \/ h[2] = St(q, SetPlayer(Named(b), b.name), Blank)
    BY <1>7, <2>1, PlayerAssigned
  <2> QED BY <2>2, NamedRecord DEF Named
<1>9. h[3] = St(q, Identified(b), Blank)
  <2>1. h[3] = Assign(St(q, Named(b), Blank), "steam3_id", b.sid)
    BY <1>2, <1>6, <1>8, RowRead
  <2>2. h[3] = St(q, SetSteam(Named(b), b.sid), Blank)
    BY <2>1, SteamAssigned
  <2> QED BY <2>2 DEF Identified
<1>10. h[4] = St(q, Identified(b), Blank)
  <2>1. h[4] = Assign(St(q, Identified(b), Blank), "steam_community", b.sid)
    BY <1>2, <1>6, <1>9, RowRead
  <2>2. h[4] = St(q, SetSteam(Identified(b), b.sid), Blank)
    BY <2>1, SteamAssigned
  <2> QED BY <2>2, IdentifiedRecord
<1>11. h[5] = St(q, Identified(b), Blank)
  BY <1>2, <1>6, <1>10, LinksRead
<1>12. h[6] = St(q, Dated(b), Blank)
  <2>1. h[6] = Assign(St(q, Identified(b), Blank), "invoked_on", b.on)
    BY <1>2, <1>6, <1>11, RowRead
  <2>2. h[6] = St(q, SetInvokedOn(Identified(b), b.on), Blank)
    BY <2>1, InvokedOnAssigned
  <2> QED BY <2>2 DEF Dated
<1>13. h[7] = St(q, Measured(b), Blank)
  <2>1. h[7] = Assign(St(q, Dated(b), Blank), "ban_length", b.length)
    BY <1>2, <1>6, <1>12, RowRead
  <2>2. h[7] = St(q, SetBanLength(Dated(b), b.length), Blank)
    BY <2>1, BanLengthAssigned
  <2> QED BY <2>2 DEF Measured
<1>14. h[8] = St(q, Complete(b), Blank)
  <2>1. h[8] = Assign(St(q, Measured(b), Blank), "expires_on", b.expires)
    BY <1>2, <1>6, <1>13, RowRead
  <2>2. h[8] = St(q, SetExpiredOn(Measured(b), b.expires), Blank)
    BY <2>1, ExpiresOnAssigned
  <2> QED BY <2>2 DEF Complete
<1>15. h[9] = WithBan(q, b)
  <2>1. h[9] = Assign(St(q, Complete(b), Blank), "reason", b.reason)
    BY <1>2, <1>6, <1>14, RowRead
  <2> QED BY <2>1, RecordEnds
<1>16. h[10] = WithBan(q, b)
  <2>1. h[10] = Assign(WithBan(q, b), "banned_by", b.admin)
    BY <1>2, <1>6, <1>15, RowRead
  <2> QED BY <2>1, NothingAssigned DEF Keys
<1> QED BY <1>3, <1>16

----------------------------------------------------------------------------
(* The parser that reads cells. *)

\* The texts that make the next cell their value.
Cues == Keys \ {"community_links"}

LEMMA BlankIsNoKey == Blank \notin Keys
BY ZenonT(30) DEF Blank, Keys

LEMMA LabelsAreNoKeys == Labels \intersect Cues = {}
BY DEF Labels, Keys, Cues

LEMMA PlainCell ==
    ASSUME NEW t \in {"default", "skial"}, NEW q, NEW c, NEW x, x \notin Cues
    PROVE  ParseText(t, St(q, c, Blank), x) = St(q, c, Blank)
BY DEF ParseText, ParseDefault, St, Cues

LEMMA KeyCell ==
    ASSUME NEW t \in {"default", "skial"}, NEW q, NEW c, NEW k \in Cues
    PROVE  ParseText(t, St(q, c, Blank), k) = St(q, c, k)
BY DEF ParseText, ParseDefault, St, Cues

\* Whatever a cell reads like, it is a key or nothing.
LEMMA AnyCell ==
    ASSUME NEW t \in {"default", "skial"}, NEW q, NEW c, NEW x
    PROVE  \E k \in Cues \union {Blank} : ParseText(t, St(q, c, Blank), x) = St(q, c, k)
<1>1. CASE x \in Cues
  BY <1>1, KeyCell
<1>2. CASE x \notin Cues
  BY <1>2, PlainCell
<1> QED BY <1>1, <1>2

LEMMA ValueCell ==
    ASSUME NEW t \in {"default", "skial"}, NEW q, NEW c, NEW k \in Cues, k # "steam3_id", NEW v
    PROVE  ParseText(t, St(q, c, k), v) = Assign(St(q, c, Blank), k, v)
<1>1. k # Blank
  BY BlankIsNoKey DEF Cues
<1> QED BY <1>1 DEF ParseText, ParseDefault, St

LEMMA PassedOverCell ==
    ASSUME NEW t \in {"default", "skial"}, NEW q, NEW c, NEW v
    PROVE  ParseText(t, St(q, c, "steam3_id"), v) = St(q, c, Blank)
<1>1. Blank \notin Keys /\ "steam3_id" # Blank
  BY BlankIsNoKey DEF Keys
<1>2. ParseText(t, St(q, c, "steam3_id"), v) = Assign(St(q, c, Blank), Blank, v)
  BY <1>1 DEF ParseText, ParseDefault, St
<1> QED BY <1>1, <1>2, NothingAssigned

\* A record that is not going to be a ban, unless it gets an id.
Dead(c) == c \in Draft /\ c.sid = Zero

\* What stands between two bans: at most a name, which is a label.
Stray(c) == \E n \in Labels \union {Blank} : IsDraft(c, n, Zero, Zero, FALSE, 0)

LEMMA NoBanIsStray == Dead(NoBan) /\ Stray(NoBan)
<1>1. PICK c : c = NoBan
  OBVIOUS
<1>2. IsDraft(c, Blank, Zero, Zero, FALSE, 0)
  BY <1>1, NoBanRecord
<1> QED BY <1>1, <1>2 DEF Dead, Stray, IsDraft

\* No text but a steam id makes a ban of a dead record, whatever key it is the value of.
LEMMA DeadValue ==
    ASSUME NEW t \in {"default", "skial"}, NEW q, NEW c, Dead(c), NEW k \in Cues,
           NEW x \in STRING, x \notin SteamId
    PROVE  \E d : Dead(d) /\ ParseText(t, St(q, c, k), x) = St(q, d, Blank)
<1>1. CASE k = "steam3_id"
  BY <1>1, PassedOverCell
<1>2. CASE k # "steam3_id"
  <2>1. ParseText(t, St(q, c, k), x) = Assign(St(q, c, Blank), k, x)
    BY <1>2, ValueCell
  <2>2. CASE k = "player"
    <3>1. Dead(SetPlayer(c, x))
      BY DEF Dead, SetPlayer, Draft
    <3> QED BY <2>1, <2>2, <3>1, PlayerAssigned
  <2>3. CASE k = "steam_community"
    <3>1. Dead(SetSteam(c, x))
      BY DEF Dead, SetSteam, Valid, Draft
    <3> QED BY <2>1, <2>3, <3>1, SteamAssigned
  <2>4. CASE k = "invoked_on"
    <3>1. Dead(SetInvokedOn(c, x))
      BY DEF Dead, SetInvokedOn, Draft
    <3> QED BY <2>1, <2>4, <3>1, InvokedOnAssigned
  <2>5. CASE k = "ban_length"
    <3>1. Dead(SetBanLength(c, x))
      BY DEF Dead, SetBanLength, Draft
    <3> QED BY <2>1, <2>5, <3>1, BanLengthAssigned
  <2>6. CASE k = "expires_on"
    <3>1. SetExpiredOn(c, x) = c
      BY DEF Dead, SetExpiredOn, Valid
    <3> QED BY <2>1, <2>6, <3>1, ExpiresOnAssigned
  <2>7. CASE k = "reason"
    <3>1. ~Valid(c)
      BY DEF Dead, Valid
    <3>2. Assign(St(q, c, Blank), "reason", x) = St(q, NoBan, Blank)
      BY <3>1, ReasonAssigned
    <3> QED BY <2>1, <2>7, <3>2, NoBanIsStray
  <2> QED BY <1>2, <2>2, <2>3, <2>4, <2>5, <2>6, <2>7 DEF Cues, Keys
<1> QED BY <1>1, <1>2

\* A label leaves nothing but itself, as a name.
LEMMA StrayValue ==
    ASSUME NEW t \in {"default", "skial"}, NEW q, NEW c, Stray(c), NEW k \in Cues \union {Blank},
           NEW x \in Labels
    PROVE  \E d : Stray(d) /\ ParseText(t, St(q, c, k), x) = St(q, d, Blank)
<1>1. PICK n \in Labels \union {Blank} : IsDraft(c, n, Zero, Zero, FALSE, 0)
  BY DEF Stray
<1>2. x \in STRING /\ x \notin SteamId /\ x \notin Time /\ x \notin Cues
  BY TextAssumption, LabelsAreNoKeys
<1>3. CASE k = Blank
  BY <1>2, <1>3, PlainCell
<1>4. CASE k = "steam3_id"
  BY <1>4, PassedOverCell
<1>5. CASE k \in Cues \ {"steam3_id"}
  <2>1. ParseText(t, St(q, c, k), x) = Assign(St(q, c, Blank), k, x)
    BY <1>5, ValueCell
  <2>2. CASE k = "player"
    <3>1. IsDraft(SetPlayer(c, x), IF x = Blank THEN n ELSE x, Zero, Zero, FALSE, 0)
      BY <1>1, <1>2 DEF SetPlayer, IsDraft, Draft
    <3>2. (IF x = Blank THEN n ELSE x) \in Labels \union {Blank}
      OBVIOUS
    <3>3. Stray(SetPlayer(c, x))
      BY <3>1, <3>2 DEF Stray
    <3> QED BY <2>1, <2>2, <3>3, PlayerAssigned
  <2>3. CASE k = "steam_community"
    <3>1. SetSteam(c, x) = c
      BY <1>1, <1>2 DEF SetSteam, Valid, IsDraft, Draft
    <3> QED BY <2>1, <2>3, <3>1, SteamAssigned
  <2>4. CASE k = "invoked_on"
    <3>1. SetInvokedOn(c, x) = c
      BY <1>2 DEF SetInvokedOn
    <3> QED BY <2>1, <2>4, <3>1, InvokedOnAssigned
  <2>5. CASE k = "ban_length"
    <3>1. x # "permanent"
      BY DEF Labels
    <3>2. IsDraft(SetBanLength(c, x), n, Zero, Zero, FALSE, 0)
      BY <1>1, <3>1 DEF SetBanLength, IsDraft, Draft
    <3>3. Stray(SetBanLength(c, x))
      BY <3>2 DEF Stray
    <3> QED BY <2>1, <2>5, <3>3, BanLengthAssigned
  <2>6. CASE k = "expires_on"
    <3>1. SetExpiredOn(c, x) = c
      BY <1>1 DEF IsDraft, SetExpiredOn, Valid
    <3> QED BY <2>1, <2>6, <3>1, ExpiresOnAssigned
  <2>7. CASE k = "reason"
    <3>1. ~Valid(c)
      BY <1>1 DEF IsDraft, Valid
    <3>2. Assign(St(q, c, Blank), "reason", x) = St(q, NoBan, Blank)
      BY <3>1, ReasonAssigned
    <3> QED BY <2>1, <2>7, <3>2, NoBanIsStray
  <2> QED BY <1>5, <2>2, <2>3, <2>4, <2>5, <2>6, <2>7 DEF Cues, Keys
<1> QED BY <1>3, <1>4, <1>5

\* The ban a as the parser takes b: what has no name may get one, which is a label.
TakenFor(a, b) ==
    /\ a = [b EXCEPT !.name = a.name]
    /\ a.name = b.name \/ (b.name = Blank /\ a.name \in Labels)

LEMMA DraftsEqual ==
    ASSUME NEW c, NEW d, NEW n, NEW s, NEW o, NEW p, NEW l,
           IsDraft(c, n, s, o, p, l), IsDraft(d, n, s, o, p, l)
    PROVE  c = d
BY DEF IsDraft, Draft

LEMMA TakenForItself == ASSUME NEW b \in Texted PROVE TakenFor(b, b)
BY DEF TakenFor, Texted

\* The name of a ban, written into what stands before it.
LEMMA NameWritten ==
    ASSUME NEW b \in Texted, NEW c, Stray(c)
    PROVE  \E a \in Texted : TakenFor(a, b) /\ SetPlayer(c, b.name) = Named(a)
<1>1. PICK n \in Labels \union {Blank} : IsDraft(c, n, Zero, Zero, FALSE, 0)
  BY DEF Stray
<1>2. PICK m : m = IF b.name = Blank THEN n ELSE b.name
  OBVIOUS
<1>3. m \in STRING /\ (m = b.name \/ (b.name = Blank /\ m \in Labels))
  <2>1. b.name \in STRING
    BY DEF Texted
  <2> QED BY <1>2, <2>1, TextAssumption
<1>4. PICK a : a = [b EXCEPT !.name = m]
  OBVIOUS
<1>5. a \in Texted /\ a.name = m
  BY <1>3, <1>4 DEF Texted
<1>6. TakenFor(a, b)
  BY <1>3, <1>4, <1>5 DEF TakenFor
<1>7. IsDraft(SetPlayer(c, b.name), m, Zero, Zero, FALSE, 0)
  BY <1>1, <1>2, <1>3 DEF SetPlayer, IsDraft, Draft
<1>8. IsDraft(Named(a), m, Zero, Zero, FALSE, 0)
  BY <1>5, NamedRecord
<1> QED BY <1>5, <1>6, <1>7, <1>8, DraftsEqual

----------------------------------------------------------------------------
(* The cells of a ban: those above, between and below. *)

TopOf(h, t, b) ==
    /\ h[1] = ParseText(t, h[0], "ban_details")
    /\ h[2] = ParseText(t, h[1], "player") /\ h[3] = ParseText(t, h[2], b.name)
    /\ h[4] = ParseText(t, h[3], "steam3_id") /\ h[5] = ParseText(t, h[4], b.sid)
    /\ h[6] = ParseText(t, h[5], "steam_community") /\ h[7] = ParseText(t, h[6], b.sid)
    /\ h[8] = ParseText(t, h[7], "invoked_on") /\ h[9] = ParseText(t, h[8], b.on)
    /\ h[10] = ParseText(t, h[9], "ban_length") /\ h[11] = ParseText(t, h[10], b.length)

LiftedOf(h, t, b) ==
    /\ h[12] = ParseText(t, h[11], "unban_reason")
    /\ h[13] = ParseText(t, h[12], IF b.length = "unbanned" THEN b.why ELSE "no_reason")
    /\ h[14] = ParseText(t, h[13], "unbanned_by")
    /\ h[15] = ParseText(t, h[14], b.lifter)

EndOf(h, k, t, b) ==
    /\ h[k + 1] = ParseText(t, h[k], "expires_on") /\ h[k + 2] = ParseText(t, h[k + 1], b.expires)
    /\ h[k + 3] = ParseText(t, h[k + 2], "reason") /\ h[k + 4] = ParseText(t, h[k + 3], b.reason)

TailOf(h, k, t, b) ==
    /\ h[k + 1] = ParseText(t, h[k], "banned_by") /\ h[k + 2] = ParseText(t, h[k + 1], b.admin)
    /\ h[k + 3] = ParseText(t, h[k + 2], "banned_from")
    /\ h[k + 4] = ParseText(t, h[k + 3], "web_ban")
    /\ h[k + 5] = ParseText(t, h[k + 4], "blocked") /\ h[k + 6] = ParseText(t, h[k + 5], b.blocked)

\* How many cells there are between.
Lifts(b) == IF b.length \in {"unbanned", "expired"} THEN 4 ELSE 0

CellsRun(h, t, st, b) ==
    /\ h[0] = st
    /\ TopOf(h, t, b)
    /\ Lifts(b) = 4 => LiftedOf(h, t, b)
    /\ EndOf(h, 11 + Lifts(b), t, b)
    /\ TailOf(h, 15 + Lifts(b), t, b)
    /\ ParseBan(t, st, b) = h[21 + Lifts(b)]

TopCells(b) ==
    << "ban_details", "player", b.name, "steam3_id", b.sid, "steam_community", b.sid,
       "invoked_on", b.on, "ban_length", b.length >>

LowCells(b) ==
    << "expires_on", b.expires, "reason", b.reason, "banned_by", b.admin,
       "banned_from", "web_ban", "blocked", b.blocked >>

LEMMA CellsInParts ==
    ASSUME NEW b \in Texted
    PROVE  /\ Len(Cells(b)) = 21 + Lifts(b)
           /\ \A i \in 1..11 : Cells(b)[i] = TopCells(b)[i]
           /\ \A i \in 1..Lifts(b) : Cells(b)[11 + i] = LiftedCells(b)[i]
           /\ \A i \in 1..10 : Cells(b)[11 + Lifts(b) + i] = LowCells(b)[i]
<1>1. Keys \union Labels \subseteq STRING
  BY TextAssumption
<1>2. PICK T : T = TopCells(b)
  OBVIOUS
<1>3. T \in Seq(STRING) /\ Len(T) = 11
  BY <1>1, <1>2 DEF TopCells, Keys, Labels, Texted
<1>4. PICK L : L = LiftedCells(b)
  OBVIOUS
<1>5. L \in Seq(STRING) /\ Len(L) = Lifts(b)
  <2>1. CASE b.length = "unbanned"
    <3>1. L = << "unban_reason", b.why, "unbanned_by", b.lifter >>
      BY <1>4, <2>1 DEF LiftedCells
    <3> QED BY <1>1, <2>1, <3>1 DEF Lifts, Labels, Texted
  <2>2. CASE b.length = "expired"
    <3>1. L = << "unban_reason", "no_reason", "unbanned_by", b.lifter >>
      BY <1>4, <2>2 DEF LiftedCells
    <3> QED BY <1>1, <2>2, <3>1 DEF Lifts, Labels, Texted
  <2>3. CASE b.length \notin {"unbanned", "expired"}
    <3>1. L = << >>
      BY <1>4, <2>3 DEF LiftedCells
    <3> QED BY <2>3, <3>1 DEF Lifts
  <2> QED BY <2>1, <2>2, <2>3
<1>6. PICK B : B = LowCells(b)
  OBVIOUS
<1>7. B \in Seq(STRING) /\ Len(B) = 10
  BY <1>1, <1>6 DEF LowCells, Keys, Labels, Texted
<1>8. Cells(b) = T \o L \o B
  BY <1>2, <1>4, <1>6 DEF Cells, TopCells, LowCells
<1>9. PICK U : U = T \o L
  OBVIOUS
<1>10. /\ U \in Seq(STRING) /\ Len(U) = 11 + Lifts(b)
       /\ \A i \in 1..(11 + Lifts(b)) : U[i] = IF i <= 11 THEN T[i] ELSE L[i - 11]
  <2>1. /\ U \in Seq(STRING) /\ Len(U) = Len(T) + Len(L)
        /\ \A i \in 1..(Len(T) + Len(L)) : U[i] = IF i <= Len(T) THEN T[i] ELSE L[i - Len(T)]
    BY <1>3, <1>5, <1>9, ConcatProperties, Zenon
  <2>2. PICK m, n : m = Len(T) /\ n = Len(L)
    OBVIOUS
  <2>3. \A i \in 1..(m + n) : U[i] = IF i <= m THEN T[i] ELSE L[i - m]
    BY <2>1, <2>2, Zenon
  <2>4. m = 11 /\ n = Lifts(b)
    BY <1>3, <1>5, <2>2
  <2> QED BY <2>1, <2>2, <2>3, <2>4, Zenon
<1>11. /\ Len(U \o B) = Len(U) + 10
       /\ \A i \in 1..(Len(U) + 10) : (U \o B)[i] = IF i <= Len(U) THEN U[i] ELSE B[i - Len(U)]
  <2>1. /\ Len(U \o B) = Len(U) + Len(B)
        /\ \A i \in 1..(Len(U) + Len(B)) :
                (U \o B)[i] = IF i <= Len(U) THEN U[i] ELSE B[i - Len(U)]
    BY <1>7, <1>10, ConcatProperties, Zenon
  <2>2. Len(B) = 10
    BY <1>7
  <2> QED BY <2>1, <2>2, Zenon
<1>12. Lifts(b) \in {0, 4}
  BY DEF Lifts
<1>13. PICK C : C = Cells(b)
  OBVIOUS
<1>14. /\ Len(C) = 21 + Lifts(b)
       /\ \A i \in 1..(21 + Lifts(b)) : C[i] = IF i <= 11 + Lifts(b) THEN U[i]
                                             ELSE B[i - (11 + Lifts(b))]
  BY <1>8, <1>9, <1>10, <1>11, <1>12, <1>13
<1>15. \A i \in 1..11 : C[i] = T[i]
  BY <1>10, <1>12, <1>14
<1>16. \A i \in 1..Lifts(b) : C[11 + i] = L[i]
  BY <1>10, <1>12, <1>14
<1>17. \A i \in 1..10 : C[11 + Lifts(b) + i] = B[i]
  BY <1>12, <1>14
<1> QED BY <1>2, <1>4, <1>6, <1>13, <1>14, <1>15, <1>16, <1>17

LEMMA CellsRunExists ==
    ASSUME NEW b \in Texted, NEW t \in {"default", "skial"}, NEW st
    PROVE  \E h : CellsRun(h, t, st, b)
<1>1. PICK C : C = Cells(b)
  OBVIOUS
<1>2. PICK k : k = Lifts(b)
  OBVIOUS
<1>3. k \in {0, 4}
  BY <1>2 DEF Lifts
<1>4. /\ Len(C) = 21 + k
      /\ \A i \in 1..11 : C[i] = TopCells(b)[i]
      /\ \A i \in 1..k : C[11 + i] = LiftedCells(b)[i]
      /\ \A i \in 1..10 : C[11 + k + i] = LowCells(b)[i]
  BY <1>1, <1>2, CellsInParts
<1>5. Texts(t, b) = C
  BY <1>1 DEF Texts
<1>6. PICK h : TextRun(h, 21 + k, t, st, C) /\ ParseBan(t, st, b) = h[21 + k]
  <2>1. Len(Texts(t, b)) = 21 + k /\ Len(Texts(t, b)) \in Nat
    BY <1>3, <1>4, <1>5
  <2>2. PICK h : BanRun(h, t, st, b)
    BY <2>1, ParseBanIsRun
  <2> QED BY <1>5, <2>1, <2>2 DEF BanRun
<1>7. h[0] = st
  BY <1>6 DEF TextRun
<1>8. ASSUME NEW i \in 0..(20 + k) PROVE h[i + 1] = ParseText(t, h[i], C[i + 1])
  <2>1. i + 1 \in 1..(21 + k) /\ (i + 1) - 1 = i
    BY <1>3
  <2> QED BY <1>6, <2>1 DEF TextRun
<1>9. TopOf(h, t, b)
  <2>1. ASSUME NEW i \in 0..10 PROVE h[i + 1] = ParseText(t, h[i], TopCells(b)[i + 1])
    <3>1. i \in 0..(20 + k) /\ i + 1 \in 1..11
      BY <1>3
    <3>2. C[i + 1] = TopCells(b)[i + 1]
      BY <1>4, <3>1
    <3> QED BY <1>8, <3>1, <3>2
  <2> QED BY <2>1 DEF TopCells, TopOf
<1>10. ASSUME k = 4 PROVE LiftedOf(h, t, b)
  <2>1. \A i \in 11..14 : h[i + 1] = ParseText(t, h[i], LiftedCells(b)[i - 10])
    BY <1>4, <1>8, <1>10
  <2>2. b.length \in {"unbanned", "expired"}
    BY <1>2, <1>10 DEF Lifts
  <2>3. LiftedCells(b) = << "unban_reason", IF b.length = "unbanned" THEN b.why ELSE "no_reason",
                            "unbanned_by", b.lifter >>
    BY <2>2 DEF LiftedCells
  <2> QED BY <2>1, <2>3 DEF LiftedOf
<1>11. ASSUME NEW i \in 0..9
       PROVE  h[11 + k + i + 1] = ParseText(t, h[11 + k + i], LowCells(b)[i + 1])
  <2>1. 11 + k + i \in 0..(20 + k)
    BY <1>3
  <2>2. PICK j \in 1..10 : j = i + 1 /\ 11 + k + j = 11 + k + i + 1
    BY <1>3
  <2>3. C[11 + k + j] = LowCells(b)[j]
    BY <1>4, Zenon
  <2> QED BY <1>8, <2>1, <2>2, <2>3
<1>12. EndOf(h, 11 + k, t, b) /\ TailOf(h, 15 + k, t, b)
  <2>1. CASE k = 0
    <3>1. \A i \in 0..9 : h[12 + i] = ParseText(t, h[11 + i], LowCells(b)[i + 1])
      BY <1>11, <2>1
    <3> QED BY <2>1, <3>1 DEF LowCells, EndOf, TailOf
  <2>2. CASE k = 4
    <3>1. \A i \in 0..9 : h[16 + i] = ParseText(t, h[15 + i], LowCells(b)[i + 1])
      BY <1>11, <2>2
    <3> QED BY <2>2, <3>1 DEF LowCells, EndOf, TailOf
  <2> QED BY <1>3, <2>1, <2>2
<1> QED BY <1>2, <1>6, <1>7, <1>9, <1>10, <1>12 DEF CellsRun

\* The cells above come to the record up to the length.
LEMMA TopRead ==
    ASSUME NEW b \in Texted, NEW t \in {"default", "skial"}, NEW q, NEW c, Stray(c),
           NEW k \in Cues \union {Blank}, NEW h, h[0] = St(q, c, k), TopOf(h, t, b)
    PROVE  \E a \in Texted : TakenFor(a, b) /\ h[11] = St(q, Measured(a), Blank)
<1>1. {"player", "steam3_id", "steam_community", "invoked_on", "ban_length"} \subseteq Cues
  BY DEF Cues, Keys
<1>2. PICK d : Stray(d) /\ h[1] = St(q, d, Blank)
  <2>1. h[1] = ParseText(t, St(q, c, k), "ban_details")
    BY DEF TopOf
  <2>2. "ban_details" \in Labels
    BY DEF Labels
  <2> QED BY <2>1, <2>2, StrayValue
<1>3. PICK a \in Texted : TakenFor(a, b) /\ SetPlayer(d, b.name) = Named(a)
  BY <1>2, NameWritten
<1>4. a.sid = b.sid /\ a.on = b.on /\ a.length = b.length
  BY <1>3 DEF TakenFor, Texted
<1>5. h[3] = St(q, Named(a), Blank)
  <2>1. h[2] = ParseText(t, h[1], "player") /\ h[3] = ParseText(t, h[2], b.name)
    BY DEF TopOf
  <2>2. h[2] = St(q, d, "player")
    BY <1>1, <1>2, <2>1, KeyCell
  <2>3. h[3] = Assign(St(q, d, Blank), "player", b.name)
    BY <1>1, <2>1, <2>2, ValueCell
  <2> QED BY <1>3, <2>3, PlayerAssigned
<1>6. h[5] = St(q, Named(a), Blank)
  <2>1. h[4] = ParseText(t, h[3], "steam3_id") /\ h[5] = ParseText(t, h[4], b.sid)
    BY DEF TopOf
  <2>2. h[4] = St(q, Named(a), "steam3_id")
    BY <1>1, <1>5, <2>1, KeyCell
  <2> QED BY <2>1, <2>2, PassedOverCell
<1>7. h[7] = St(q, Identified(a), Blank)
  <2>1. h[6] = ParseText(t, h[5], "steam_community") /\ h[7] = ParseText(t, h[6], b.sid)
    BY DEF TopOf
  <2>2. h[6] = St(q, Named(a), "steam_community")
    BY <1>1, <1>6, <2>1, KeyCell
  <2>3. h[7] = Assign(St(q, Named(a), Blank), "steam_community", b.sid)
    BY <1>1, <2>1, <2>2, ValueCell
  <2>4. h[7] = St(q, SetSteam(Named(a), b.sid), Blank)
    BY <2>3, SteamAssigned
  <2> QED BY <1>4, <2>4 DEF Identified
<1>8. h[9] = St(q, Dated(a), Blank)
  <2>1. h[8] = ParseText(t, h[7], "invoked_on") /\ h[9] = ParseText(t, h[8], b.on)
    BY DEF TopOf
  <2>2. h[8] = St(q, Identified(a), "invoked_on")
    BY <1>1, <1>7, <2>1, KeyCell
  <2>3. h[9] = Assign(St(q, Identified(a), Blank), "invoked_on", b.on)
    BY <1>1, <2>1, <2>2, ValueCell
  <2>4. h[9] = St(q, SetInvokedOn(Identified(a), b.on), Blank)
    BY <2>3, InvokedOnAssigned
  <2> QED BY <1>4, <2>4 DEF Dated
<1>9. h[11] = St(q, Measured(a), Blank)
  <2>1. h[10] = ParseText(t, h[9], "ban_length") /\ h[11] = ParseText(t, h[10], b.length)
    BY DEF TopOf
  <2>2. h[10] = St(q, Dated(a), "ban_length")
    BY <1>1, <1>8, <2>1, KeyCell
  <2>3. h[11] = Assign(St(q, Dated(a), Blank), "ban_length", b.length)
    BY <1>1, <2>1, <2>2, ValueCell
  <2>4. h[11] = St(q, SetBanLength(Dated(a), b.length), Blank)
    BY <2>3, BanLengthAssigned
  <2> QED BY <1>4, <2>4 DEF Measured
<1> QED BY <1>3, <1>9

\* What the pages of cells have to keep to, of one ban.
Plain(b) == b.expires \notin Keys /\ (b.length = "expired" => b.lifter \notin Keys)

\* Of a ban that was not lifted they come to the complete record, which the reason ends.
LEMMA EndRead ==
    ASSUME NEW b \in Texted, NEW a \in Texted, TakenFor(a, b), NEW t \in {"default", "skial"},
           NEW q, NEW k \in {11, 15}, NEW h, h[k] = St(q, Measured(a), Blank), EndOf(h, k, t, b)
    PROVE  h[k + 4] = WithBan(q, a)
<1>1. {"expires_on", "reason"} \subseteq Cues
  BY DEF Cues, Keys
<1>2. a.expires = b.expires /\ a.reason = b.reason
  BY DEF TakenFor, Texted
<1>3. h[k + 2] = St(q, Complete(a), Blank)
  <2>1. h[k + 1] = ParseText(t, h[k], "expires_on") /\ h[k + 2] = ParseText(t, h[k + 1], b.expires)
    BY DEF EndOf
  <2>2. h[k + 1] = St(q, Measured(a), "expires_on")
    BY <1>1, <2>1, KeyCell
  <2>3. h[k + 2] = Assign(St(q, Measured(a), Blank), "expires_on", b.expires)
    BY <1>1, <2>1, <2>2, ValueCell
  <2>4. h[k + 2] = St(q, SetExpiredOn(Measured(a), b.expires), Blank)
    BY <2>3, ExpiresOnAssigned
  <2> QED BY <1>2, <2>4 DEF Complete
<1>4. h[k + 4] = Assign(St(q, Complete(a), Blank), "reason", a.reason)
  <2>1. h[k + 3] = ParseText(t, h[k + 2], "reason") /\ h[k + 4] = ParseText(t, h[k + 3], b.reason)
    BY DEF EndOf
  <2>2. h[k + 3] = St(q, Complete(a), "reason")
    BY <1>1, <1>3, <2>1, KeyCell
  <2> QED BY <1>1, <1>2, <2>1, <2>2, ValueCell
<1> QED BY <1>4, RecordEnds

\* Of one that was lifted nothing is left, whatever its cells read like.
LEMMA DeadEndRead ==
    ASSUME NEW b \in Texted, b.expires \notin Keys, NEW t \in {"default", "skial"}, NEW q, NEW c,
           Dead(c), NEW h, h[11] = St(q, c, Blank), LiftedOf(h, t, b), EndOf(h, 15, t, b)
    PROVE  h[19] = St(q, NoBan, Blank)
<1>1. {"expires_on", "reason"} \subseteq Cues /\ "reason" # "steam3_id"
  BY DEF Cues, Keys
<1>2. /\ h[12] = ParseText(t, h[11], "unban_reason")
      /\ h[14] = ParseText(t, h[13], "unbanned_by") /\ h[15] = ParseText(t, h[14], b.lifter)
      /\ \E x : h[13] = ParseText(t, h[12], x)
  BY DEF LiftedOf
<1>3. /\ h[16] = ParseText(t, h[15], "expires_on") /\ h[17] = ParseText(t, h[16], b.expires)
      /\ h[18] = ParseText(t, h[17], "reason") /\ h[19] = ParseText(t, h[18], b.reason)
  BY DEF EndOf
<1>4. h[12] = St(q, c, Blank)
  <2>1. "unban_reason" \notin Cues
    BY LabelsAreNoKeys DEF Labels
  <2> QED BY <1>2, <2>1, PlainCell
<1>5. PICK k1 \in Cues \union {Blank} : h[13] = St(q, c, k1)
  BY <1>2, <1>4, AnyCell
<1>6. PICK d : Dead(d) /\ h[14] = St(q, d, Blank)
  <2>1. "unbanned_by" \in STRING /\ "unbanned_by" \notin SteamId /\ "unbanned_by" \notin Cues
    BY TextAssumption, LabelsAreNoKeys DEF Labels
  <2>2. CASE k1 \in Cues
    BY <1>2, <1>5, <2>1, <2>2, DeadValue
  <2>3. CASE k1 = Blank
    BY <1>2, <1>5, <2>1, <2>3, PlainCell
  <2> QED BY <2>2, <2>3
<1>7. PICK k2 \in Cues \union {Blank} : h[15] = St(q, d, k2)
  BY <1>2, <1>6, AnyCell
<1>8. PICK e : Dead(e) /\ h[17] = St(q, e, Blank)
  <2>1. CASE k2 = Blank
    <3>1. h[16] = St(q, d, "expires_on")
      BY <1>1, <1>3, <1>7, <2>1, KeyCell
    <3>2. h[17] = Assign(St(q, d, Blank), "expires_on", b.expires)
      BY <1>1, <1>3, <3>1, ValueCell
    <3>3. SetExpiredOn(d, b.expires) = d
      BY <1>6 DEF Dead, SetExpiredOn, Valid
    <3> QED BY <1>6, <3>2, <3>3, ExpiresOnAssigned
  <2>2. CASE k2 \in Cues
    <3>1. PICK e : Dead(e) /\ h[16] = St(q, e, Blank)
      <4>1. "expires_on" \in STRING /\ "expires_on" \notin SteamId
        BY TextAssumption DEF Keys
      <4> QED BY <1>3, <1>6, <1>7, <2>2, <4>1, DeadValue
    <3>2. b.expires \notin Cues
      BY DEF Cues
    <3> QED BY <1>3, <3>1, <3>2, PlainCell
  <2> QED BY <2>1, <2>2
<1>9. h[18] = St(q, e, "reason")
  BY <1>1, <1>3, <1>8, KeyCell
<1>10. h[19] = Assign(St(q, e, Blank), "reason", b.reason)
  BY <1>1, <1>3, <1>9, ValueCell
<1> QED BY <1>8, <1>10, ReasonAssigned DEF Dead, Valid

\* Below the reason is nothing but labels, and two names that may read like keys.
LEMMA TailRead ==
    ASSUME NEW b, NEW t \in {"default", "skial"}, NEW r, NEW k \in {15, 19}, NEW h,
           h[k] = St(r, NoBan, Blank), TailOf(h, k, t, b)
    PROVE  \E c : Stray(c) /\ \E x \in Cues \union {Blank} : h[k + 6] = St(r, c, x)
<1>1. {"banned_by", "banned_from", "web_ban", "blocked"} \subseteq Labels
  BY DEF Labels
<1>2. {"banned_by", "banned_from", "web_ban", "blocked"} \intersect Cues = {}
  BY <1>1, LabelsAreNoKeys
<1>3. /\ h[k + 1] = ParseText(t, h[k], "banned_by") /\ h[k + 2] = ParseText(t, h[k + 1], b.admin)
      /\ h[k + 3] = ParseText(t, h[k + 2], "banned_from")
      /\ h[k + 4] = ParseText(t, h[k + 3], "web_ban")
      /\ h[k + 5] = ParseText(t, h[k + 4], "blocked")
      /\ h[k + 6] = ParseText(t, h[k + 5], b.blocked)
  BY DEF TailOf
<1>4. h[k + 1] = St(r, NoBan, Blank)
  BY <1>2, <1>3, PlainCell
<1>5. PICK x \in Cues \union {Blank} : h[k + 2] = St(r, NoBan, x)
  BY <1>3, <1>4, AnyCell
<1>6. PICK c : Stray(c) /\ h[k + 3] = St(r, c, Blank)
  BY <1>1, <1>3, <1>5, NoBanIsStray, StrayValue
<1>7. h[k + 5] = St(r, c, Blank)
  <2>1. h[k + 4] = St(r, c, Blank)
    BY <1>2, <1>3, <1>6, PlainCell
  <2> QED BY <1>2, <1>3, <2>1, PlainCell
<1> QED BY <1>3, <1>6, <1>7, AnyCell

\* The state a parser is in between two bans.
Between(t, c, k) ==
    /\ Stray(c) /\ k \in Cues \union {Blank}
    /\ t \in {"material", "star", "fluent"} => c = NoBan /\ k = Blank

\* What comes of a ban: one row more if the ban is to be reported under the name it got.
BanIsRead(t, q, b, after) ==
    \E a \in Texted : TakenFor(a, b) /\
        \E c, k : Between(t, c, k) /\ after = St(WithBan(q, a).bans, c, k)

LEMMA CellsOfBanRead ==
    ASSUME NEW b \in Texted, Plain(b), NEW t \in {"default", "skial"}, NEW q, NEW c, Stray(c),
           NEW k \in Cues \union {Blank}
    PROVE  BanIsRead(t, q, b, ParseBan(t, St(q, c, k), b))
<1>1. PICK h : CellsRun(h, t, St(q, c, k), b)
  BY CellsRunExists
<1>2. PICK a \in Texted : TakenFor(a, b) /\ h[11] = St(q, Measured(a), Blank)
  BY <1>1, TopRead DEF CellsRun
<1>3. PICK r : WithBan(q, a) = St(r, NoBan, Blank)
  BY DEF WithBan
<1>4. PICK l : l = Lifts(b)
  OBVIOUS
<1>5. l \in {0, 4} /\ (l = 4 <=> b.length \in {"unbanned", "expired"})
  BY <1>4 DEF Lifts
<1>6. h[15 + l] = St(r, NoBan, Blank)
  <2>1. EndOf(h, 11 + l, t, b) /\ (l = 4 => LiftedOf(h, t, b))
    BY <1>1, <1>4 DEF CellsRun
  <2>2. CASE l = 0
    <3>1. h[11 + 4] = WithBan(q, a)
      BY <1>2, <2>1, <2>2, EndRead
    <3> QED BY <1>3, <2>2, <3>1
  <2>3. CASE b.length = "expired"
    <3>1. h[15] = St(q, Measured(a), Blank)
      <4>1. /\ h[12] = ParseText(t, h[11], "unban_reason")
            /\ h[13] = ParseText(t, h[12], "no_reason")
            /\ h[14] = ParseText(t, h[13], "unbanned_by") /\ h[15] = ParseText(t, h[14], b.lifter)
        BY <1>5, <2>1, <2>3 DEF LiftedOf
      <4>2. /\ {"unban_reason", "no_reason", "unbanned_by"} \intersect Cues = {}
            /\ b.lifter \notin Cues
        BY <2>3, LabelsAreNoKeys DEF Plain, Cues, Labels
      <4>3. h[12] = St(q, Measured(a), Blank)
        BY <1>2, <4>1, <4>2, PlainCell
      <4>4. h[13] = St(q, Measured(a), Blank)
        BY <4>1, <4>2, <4>3, PlainCell
      <4>5. h[14] = St(q, Measured(a), Blank)
        BY <4>1, <4>2, <4>4, PlainCell
      <4> QED BY <4>1, <4>2, <4>5, PlainCell
    <3>2. h[15 + 4] = WithBan(q, a)
      BY <1>2, <1>5, <2>1, <2>3, <3>1, EndRead
    <3> QED BY <1>3, <1>5, <2>3, <3>2
  <2>4. CASE b.length = "unbanned"
    <3>1. a.length = "unbanned"
      BY <1>2, <2>4 DEF TakenFor, Texted
    <3>2. Dead(Measured(a))
      BY <3>1, MeasuredRecord DEF IsDraft, Dead
    <3>3. b.expires \notin Keys
      BY DEF Plain
    <3>4. h[19] = St(q, NoBan, Blank)
      BY <1>2, <1>5, <2>1, <2>4, <3>2, <3>3, DeadEndRead
    <3>5. WithBan(q, a) = St(q, NoBan, Blank)
      BY <3>1 DEF WithBan, Reported
    <3> QED BY <1>3, <1>5, <2>4, <3>4, <3>5
  <2> QED BY <1>5, <2>2, <2>3, <2>4
<1>7. PICK c2 : Stray(c2) /\ \E x \in Cues \union {Blank} : h[15 + l + 6] = St(r, c2, x)
  <2>1. TailOf(h, 15 + l, t, b)
    BY <1>1, <1>4 DEF CellsRun
  <2>2. 15 + l \in {15, 19}
    BY <1>5
  <2> QED BY <1>6, <2>1, <2>2, TailRead
<1>8. PICK x \in Cues \union {Blank} : h[15 + l + 6] = St(r, c2, x)
  BY <1>7
<1>9. ParseBan(t, St(q, c, k), b) = St(r, c2, x)
  <2>1. ParseBan(t, St(q, c, k), b) = h[21 + l]
    BY <1>1, <1>4 DEF CellsRun
  <2>2. 15 + l + 6 = 21 + l
    BY <1>5
  <2> QED BY <1>8, <2>1, <2>2
<1>10. Between(t, c2, x)
  BY <1>7, <1>8 DEF Between
<1>11. r = WithBan(q, a).bans
  BY <1>3 DEF St
<1> QED BY <1>2, <1>9, <1>10, <1>11 DEF BanIsRead

----------------------------------------------------------------------------
(* Whole pages. *)

Themes == {"default", "skial", "material", "star", "fluent"}

LEMMA BanRead ==
    ASSUME NEW t \in Themes, NEW b \in Texted, Plain(b), NEW q, NEW c, NEW k, Between(t, c, k)
    PROVE  BanIsRead(t, q, b, ParseBan(t, St(q, c, k), b))
<1>1. CASE t \in {"default", "skial"}
  BY <1>1, CellsOfBanRead DEF Between
<1>2. CASE t \in {"material", "star", "fluent"}
  <2>1. c = NoBan /\ k = Blank
    BY <1>2 DEF Between
  <2>2. ParseBan(t, St(q, c, k), b) = WithBan(q, b)
    BY <1>2, <2>1, RowsOfBanRead
  <2>3. WithBan(q, b) = St(WithBan(q, b).bans, NoBan, Blank)
    BY DEF WithBan, St
  <2>4. TakenFor(b, b)
    BY TakenForItself
  <2> QED BY <2>1, <2>2, <2>3, <2>4 DEF BanIsRead
<1> QED BY <1>1, <1>2 DEF Themes

PageRun(h, n, t, page) ==
    /\ DOMAIN h = 0..n
    /\ h[0] = Begin
    /\ \A i \in 1..n : h[i] = ParseBan(t, h[i - 1], page[i])

LEMMA PageRunExists ==
    ASSUME NEW N \in Nat, NEW t, NEW page
    PROVE  \E h : PageRun(h, N, t, page)
<1> DEFINE S == {n \in 0..N : \E h : PageRun(h, n, t, page)}
<1>1. 0 \in S
  <2>1. PageRun([i \in 0..0 |-> Begin], 0, t, page)
    BY DEF PageRun
  <2> QED BY <2>1
<1>2. ASSUME NEW n \in 0..(N - 1), n \in S PROVE n + 1 \in S
  <2>1. PICK h : PageRun(h, n, t, page)
    BY <1>2
  <2>2. PICK g : g = [i \in 0..(n + 1) |->
                        IF i = n + 1 THEN ParseBan(t, h[n], page[n + 1]) ELSE h[i]]
    OBVIOUS
  <2>3. PageRun(g, n + 1, t, page)
    BY <2>1, <2>2 DEF PageRun
  <2> QED BY <2>3
<1>3. \A n \in 0..N : n \in S
  <2> HIDE DEF S
  <2> QED BY <1>1, <1>2, SegmentInduction
<1> QED BY <1>3

LEMMA ParseIsRun ==
    ASSUME NEW t, NEW page, NEW N \in Nat, N = Len(page)
    PROVE  \E h : PageRun(h, N, t, page) /\ Parse(t, page) = h[N].bans
<1> DEFINE From(acc, i) == {ParseBan(t, s, page[i]) : s \in acc[i - 1]}
           Acc(acc) == acc = [i \in 0..N |-> IF i = 0 THEN {Begin} ELSE From(acc, i)]
<1>1. PICK h : PageRun(h, N, t, page)
  BY PageRunExists
<1>2. PICK acc : acc = CHOOSE a : Acc(a)
  OBVIOUS
<1>3. Parse(t, page) = (CHOOSE s \in acc[N] : TRUE).bans
  BY <1>2 DEF Parse, FoldTexts
<1>5. \E a : Acc(a)
  <2>1. PICK a : a = [i \in 0..N |-> {h[i]}]
    OBVIOUS
  <2>2. ASSUME NEW i \in 0..N PROVE a[i] = IF i = 0 THEN {Begin} ELSE From(a, i)
    <3>1. CASE i = 0
      BY <1>1, <2>1, <3>1 DEF PageRun
    <3>2. CASE i # 0
      <4>1. i \in 1..N /\ i - 1 \in 0..N
        BY <3>2
      <4>2. h[i] = ParseBan(t, h[i - 1], page[i])
        BY <1>1, <4>1 DEF PageRun
      <4>3. a[i] = {h[i]} /\ a[i - 1] = {h[i - 1]}
        BY <2>1, <4>1
      <4> QED BY <3>2, <4>2, <4>3
    <3> QED BY <3>1, <3>2
  <2>3. Acc(a)
    <3> HIDE DEF From
    <3> QED BY <2>1, <2>2
  <2> QED BY <2>3
<1>6. Acc(acc)
  BY <1>2, <1>5
<1>7. \A i \in 0..N : acc[i] = IF i = 0 THEN {Begin} ELSE From(acc, i)
  <2> HIDE DEF From
  <2> QED BY <1>6
<1>8. acc[0] = {h[0]}
  <2> HIDE DEF From
  <2>1. 0 \in 0..N
    OBVIOUS
  <2> QED BY <1>1, <1>7, <2>1 DEF PageRun
<1>9. ASSUME NEW i \in 1..N, acc[i - 1] = {h[i - 1]} PROVE acc[i] = {h[i]}
  <2>1. i \in 0..N /\ i # 0
    OBVIOUS
  <2>2. acc[i] = From(acc, i)
    <3> HIDE DEF From
    <3> QED BY <1>7, <2>1
  <2>3. h[i] = ParseBan(t, h[i - 1], page[i])
    BY <1>1 DEF PageRun
  <2> QED BY <1>9, <2>2, <2>3
<1>10. acc[N] = {h[N]}
  BY <1>8, <1>9, SingletonsToEnd
<1> QED BY <1>1, <1>3, <1>10

\* What the first n bans of a page come to.
Collected(q, n, page) ==
    /\ q \in Seq(Row)
    /\ \A i \in 1..n : Reported(page[i]) => Said(page[i]) \in ToSet(q)
    /\ \A r \in ToSet(q) : \E i \in 1..n : ComesFrom(r, page[i])

LEMMA TakenIsFrom ==
    ASSUME NEW b \in Texted, NEW a \in Texted, TakenFor(a, b), Reported(a)
    PROVE  ComesFrom(Said(a), b)
<1>1. PICK r : r = Said(a)
  OBVIOUS
<1>2. r.name = a.name
  BY <1>1 DEF Said
<1>3. [b EXCEPT !.name = r.name] = a /\ (r.name = b.name \/ (b.name = Blank /\ r.name \in Labels))
  BY <1>2 DEF TakenFor
<1> QED BY <1>1, <1>3 DEF ComesFrom

LEMMA NamedIsTaken ==
    ASSUME NEW b \in Texted, NEW a \in Texted, TakenFor(a, b), Reported(b) PROVE a = b
BY DEF TakenFor, Reported, Texted

LEMMA OneMore ==
    ASSUME NEW n \in Nat, NEW page, NEW q, Collected(q, n, page),
           NEW b \in Texted, b = page[n + 1], NEW a \in Texted, TakenFor(a, b)
    PROVE  Collected(WithBan(q, a).bans, n + 1, page)
<1>1. q \in Seq(Row)
  BY DEF Collected
<1>2. \A i \in 1..(n + 1) : i \in 1..n \/ i = n + 1
  OBVIOUS
<1>3. CASE ~Reported(a)
  <2>1. WithBan(q, a).bans = q
    BY <1>3 DEF WithBan, St
  <2>2. ~Reported(b)
    BY <1>3, NamedIsTaken
  <2>3. Collected(q, n + 1, page)
    BY <1>2, <2>2 DEF Collected
  <2> QED BY <2>1, <2>3
<1>4. CASE Reported(a)
  <2>1. PICK r : r = Said(a)
    OBVIOUS
  <2>2. r \in Row
    BY <1>4, <2>1, CompleteRecord
  <2>3. PICK q2 : q2 = Append(q, r)
    OBVIOUS
  <2>4. q2 \in Seq(Row) /\ ToSet(q2) = ToSet(q) \union {r}
    BY <1>1, <2>2, <2>3, AppendProperties DEF ToSet
  <2>5. WithBan(q, a).bans = q2
    BY <1>4, <2>1, <2>3 DEF WithBan, St
  <2>6. ASSUME NEW i \in 1..(n + 1), Reported(page[i]) PROVE Said(page[i]) \in ToSet(q2)
    <3>1. CASE i \in 1..n
      BY <2>4, <2>6, <3>1 DEF Collected
    <3>2. CASE i = n + 1
      <4>1. a = b
        BY <2>6, <3>2, NamedIsTaken
      <4> QED BY <2>1, <2>4, <3>2, <4>1
    <3> QED BY <1>2, <3>1, <3>2
  <2>7. ASSUME NEW x \in ToSet(q2) PROVE \E i \in 1..(n + 1) : ComesFrom(x, page[i])
    <3>1. CASE x = r
      <4>1. ComesFrom(x, b) /\ n + 1 \in 1..(n + 1)
        BY <1>4, <2>1, <3>1, TakenIsFrom
      <4> QED BY <4>1
    <3>2. CASE x \in ToSet(q)
      <4>1. PICK i \in 1..n : ComesFrom(x, page[i])
        BY <3>2 DEF Collected
      <4> QED BY <4>1
    <3> QED BY <2>4, <3>1, <3>2
  <2> QED BY <2>4, <2>5, <2>6, <2>7 DEF Collected
<1> QED BY <1>3, <1>4

LEMMA WholePageRead ==
    ASSUME NEW t \in Themes, NEW page, NEW N \in Nat, N = Len(page),
           \A i \in 1..N : page[i] \in Texted /\ Plain(page[i])
    PROVE  Collected(Parse(t, page), N, page)
<1>1. PICK h : PageRun(h, N, t, page) /\ Parse(t, page) = h[N].bans
  BY ParseIsRun
<1> DEFINE S == {n \in 0..N : \E q, c, k : /\ h[n] = St(q, c, k) /\ Between(t, c, k)
                                           /\ Collected(q, n, page)}
<1>2. 0 \in S
  <2>1. h[0] = St(<<>>, NoBan, Blank)
    BY <1>1 DEF PageRun, Begin, St
  <2>2. Collected(<<>>, 0, page)
    BY DEF Collected, ToSet
  <2>3. Between(t, NoBan, Blank)
    BY NoBanIsStray DEF Between
  <2> QED BY <2>1, <2>2, <2>3
<1>3. ASSUME NEW n \in 0..(N - 1), n \in S PROVE n + 1 \in S
  <2>1. PICK q, c, k : h[n] = St(q, c, k) /\ Between(t, c, k) /\ Collected(q, n, page)
    BY <1>3
  <2>2. n + 1 \in 1..N /\ (n + 1) - 1 = n /\ n \in Nat
    OBVIOUS
  <2>3. PICK b : b = page[n + 1]
    OBVIOUS
  <2>4. b \in Texted /\ Plain(b)
    BY <2>2, <2>3
  <2>5. h[n + 1] = ParseBan(t, St(q, c, k), b)
    BY <1>1, <2>1, <2>2, <2>3 DEF PageRun
  <2>6. BanIsRead(t, q, b, h[n + 1])
    BY <2>1, <2>4, <2>5, BanRead
  <2>7. PICK a \in Texted : TakenFor(a, b) /\
            \E d, x : Between(t, d, x) /\ h[n + 1] = St(WithBan(q, a).bans, d, x)
    BY <2>6 DEF BanIsRead
  <2>8. Collected(WithBan(q, a).bans, n + 1, page)
    BY <2>1, <2>2, <2>3, <2>4, <2>7, OneMore
  <2> QED BY <2>2, <2>7, <2>8
<1>4. N \in S
  <2>1. \A n \in 0..N : n \in S
    <3> HIDE DEF S
    <3> QED BY <1>2, <1>3, SegmentInduction
  <2> QED BY <2>1
<1>5. PICK q, c, k : h[N] = St(q, c, k) /\ Collected(q, N, page)
  BY <1>4
<1> QED BY <1>1, <1>5 DEF St

LEMMA ParsedPage ==
    ASSUME NEW s \in Site, NEW t \in Theme, NEW n \in 1..Len(Bans[s]), NEW p \in 1..PageCount(n)
    PROVE  Parsed[s][t][n][p] = Parse(t, PageBans(s, n, p))
BY DEF Parsed

LEMMA LenDomain == ASSUME NEW m \in Nat, NEW q, DOMAIN q = 1..m PROVE Len(q) = m
OBVIOUS

\* A page has a length, and its bans are readable if the list's are.
LEMMA PageOfBans ==
    ASSUME NEW s \in Site, NEW n \in Nat, NEW p \in Nat \ {0}
    PROVE  \E m \in Nat : Len(PageBans(s, n, p)) = m /\ DOMAIN PageBans(s, n, p) = 1..m
<1> DEFINE above == (p - 1) * PerPage
           k == Min({PerPage, n - above})
<1>1. above \in Nat
  BY PerPageAssumption
<1>2. PageBans(s, n, p) = [i \in 1..k |-> Bans[s][n + 1 - above - i]]
  BY DEF PageBans
<1> HIDE DEF above
<1>3. k \in Int
  BY <1>1, MinOfTwo, PerPageAssumption
<1> HIDE DEF k
<1>4. PICK m \in Nat : m = IF k \in Nat THEN k ELSE 0
  OBVIOUS
<1>5. 1..k = 1..m
  BY <1>3, <1>4
<1>6. DOMAIN PageBans(s, n, p) = 1..m
  BY <1>2, <1>5
<1>7. Len(PageBans(s, n, p)) = m
  BY <1>6, LenDomain
<1> QED BY <1>6, <1>7

\* Of any lists every parser makes what it should, if on the pages of cells no expiry
\* reads like a key, nor the name of who lifted a ban that had expired (parseDefault,
\* parseMaterial, parseStar, parseFluent): a row for each ban that is to be reported, with
\* what that ban says, and nothing else, but that a player without a name may get a label
\* for one. What players and admins are called, and what is shown in place of steam ids,
\* times, lengths and reasons, may read like anything: no such text gets into another
\* ban's record, or into another field.
THEOREM PlainListsAreParsed == ASSUME PlainLists PROVE PagesParsed
<1> SUFFICES ASSUME NEW s \in Site, NEW t \in Theme,
                    NEW n \in 1..Len(Bans[s]), NEW p \in 1..PageCount(n)
             PROVE  PageRead(s, n, p, Parsed[s][t][n][p])
  BY DEF PagesParsed, PageRead
<1>1. n \in Nat /\ p \in Nat \ {0} /\ t \in Themes /\ Len(Bans[s]) \in Nat
  BY BansAssumption, LenProperties, ThemeAssumption DEF Themes
<1>2. PICK page : page = PageBans(s, n, p)
  OBVIOUS
<1>3. PICK m \in Nat : Len(page) = m /\ DOMAIN page = 1..m
  BY <1>1, <1>2, PageOfBans
<1>4. ASSUME NEW i \in 1..m PROVE page[i] \in Texted /\ Plain(page[i])
  <2>1. page[i] \in ToSet(page)
    BY <1>3 DEF ToSet
  <2>2. PICK j \in 1..n : page[i] = Bans[s][j]
    BY <1>1, <1>2, <2>1, PageBansListed
  <2>3. j \in 1..Len(Bans[s]) /\ Bans[s] \in Seq(Texted)
    BY <1>1, BansAssumption DEF Texted
  <2>4. Bans[s][j] \in Texted
    BY <2>3, ElementOfSeq
  <2> QED BY <2>2, <2>3, <2>4 DEF PlainLists, Plain
<1>5. Collected(Parse(t, page), m, page)
  BY <1>1, <1>3, <1>4, WholePageRead
<1>6. PICK rows : rows = Parsed[s][t][n][p]
  OBVIOUS
<1>7. rows = Parse(t, page)
  BY <1>2, <1>6, ParsedPage
<1>8. rows \in Seq(Row)
  BY <1>5, <1>7 DEF Collected
<1>9. ASSUME NEW b \in ToSet(page), Reported(b) PROVE Said(b) \in ToSet(rows)
  <2>1. PICK i \in 1..m : b = page[i]
    BY <1>3 DEF ToSet
  <2> QED BY <1>5, <1>7, <1>9, <2>1 DEF Collected
<1>10. ASSUME NEW r \in ToSet(rows) PROVE \E b \in ToSet(page) : ComesFrom(r, b)
  <2>1. PICK i \in 1..m : ComesFrom(r, page[i])
    BY <1>5, <1>7 DEF Collected
  <2>2. page[i] \in ToSet(page)
    BY <1>3 DEF ToSet
  <2> QED BY <2>1, <2>2
<1> QED BY <1>2, <1>6, <1>8, <1>9, <1>10 DEF PageRead

\* So on such lists the scraper keeps all its promises: it stores nothing but what the
\* sites list, says of it what they say, and passes over no ban it has met.
THEOREM PlainListsAreKept ==
    ASSUME PlainLists PROVE Spec => []TypeOK /\ []RowsAreListed /\ []NoBanPassedOver
BY PlainListsAreParsed, TypeCorrect, RowsComeFromLists, WalksPassOverNothing

=============================================================================
