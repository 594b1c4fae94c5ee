----------------------------- MODULE StatsCache -----------------------------
(***************************************************************************)
(* The handler of /stats (handleGetStats, src/api_handler.go:365-396). It  *)
(* keeps the site's statistics for MaxAge (15 minutes). Its mutex is       *)
(* released between the look at their age and the load, and again before   *)
(* the store: requests that find them expired at once all load them, and   *)
(* the load that ends last is the one that stays, older or not.            *)
(*                                                                         *)
(* The statistics change all the time: what is loaded is known by the time *)
(* of the load's first query. Left out: what is counted.                   *)
(***************************************************************************)
EXTENDS Naturals

CONSTANTS
    Client,     \* requests
    MaxAge,     \* age at which the statistics are expired
    MaxTime,    \* assumption: the longest a request lasts
    MaxNow,     \* bound: the clock
    MaxFaults   \* bound: queries that fail, restarts

VARIABLES
    now,        \* the time
    stats,      \* the time of what is kept, or None
    updated,    \* when it was stored, or None
    call,       \* call[c]: c's request: [pc, since, new]
    faults      \* faults so far

statsVars == <<now, stats, updated, call, faults>>

None == MaxNow + 1

\* new: the time of what it has loaded, and in the end of what it answers.
NoCall == [pc |-> "idle", since |-> 0, new |-> None]

Time == 0..now \union {None}

TypeOK ==
    /\ now \in 0..MaxNow
    /\ stats \in Time /\ updated \in Time
    /\ updated = None <=> stats = None
    /\ stats # None => stats <= updated
    /\ call \in [Client -> [pc : {"idle", "load", "store", "read", "done", "error"},
                            since : 0..now, new : Time]]
    /\ faults \in 0..MaxFaults

Init ==
    /\ now = 0
    /\ stats = None
    /\ updated = None
    /\ call = [c \in Client |-> NoCall]
    /\ faults = 0

Fault ==
    /\ faults < MaxFaults
    /\ faults' = faults + 1

Set(c, q) == call' = [call EXCEPT ![c] = q]

----------------------------------------------------------------------------
(* The handler: what it does under one lock is one step. *)

Expired == updated = None \/ now - updated > MaxAge

Look(c) ==
    /\ call[c].pc = "idle"
    /\ Set(c, [NoCall EXCEPT !.since = now, !.pc = IF Expired THEN "load" ELSE "read"])
    /\ UNCHANGED <<now, stats, updated, faults>>

\* loadStats begins to query.
Load(c) ==
    /\ call[c].pc = "load"
    /\ Set(c, [call[c] EXCEPT !.pc = "store", !.new = now])
    /\ UNCHANGED <<now, stats, updated, faults>>

\* One of its queries fails: nothing is stored, and nothing is answered.
LoadFails(c) ==
    /\ call[c].pc \in {"load", "store"}
    /\ Fault
    /\ Set(c, [call[c] EXCEPT !.pc = "error", !.new = None])
    /\ UNCHANGED <<now, stats, updated>>

\* Mutant: the time of the store is renewed with each answer.
ReadAndRenew(c) ==
    /\ call[c].pc = "read"
    /\ updated' = now
    /\ Set(c, [call[c] EXCEPT !.pc = "done", !.new = stats])
    /\ UNCHANGED <<now, stats, faults>>

Store(c) ==
    /\ call[c].pc = "store"
    /\ updated' = now
    /\ stats' = call[c].new
    /\ Set(c, [call[c] EXCEPT !.pc = "read", !.new = None])
    /\ UNCHANGED <<now, faults>>

\* The answer is what is kept by now, maybe another request's.
Read(c) ==
    /\ call[c].pc = "read"
    /\ Set(c, [call[c] EXCEPT !.pc = "done", !.new = stats])
    /\ UNCHANGED <<now, stats, updated, faults>>

Return(c) ==
    /\ call[c].pc \in {"done", "error"}
    /\ Set(c, NoCall)
    /\ UNCHANGED <<now, stats, updated, faults>>

\* The process ends; nothing is kept.
Restart ==
    /\ Fault
    /\ stats' = None
    /\ updated' = None
    /\ call' = [c \in Client |-> NoCall]
    /\ UNCHANGED now

Tick ==
    /\ now < MaxNow
    /\ \A c \in Client : call[c].pc # "idle" => now - call[c].since < MaxTime
    /\ now' = now + 1
    /\ UNCHANGED <<stats, updated, call, faults>>

Next ==
    \/ \E c \in Client :
        \/ Look(c)
        \/ Load(c)
        \/ LoadFails(c)
        \/ Store(c)
        \/ Read(c)
        \/ Return(c)
    \/ Restart
    \/ Tick

Spec == Init /\ [][Next]_statsVars

----------------------------------------------------------------------------
(* What makes it right. *)

\* An answer has statistics, and they are no older than their age, one load and the
\* request - however many requests load at once, and although the last one to store
\* may put older ones in the place of newer ones and start their age afresh.
StatsFresh ==
    \A c \in Client : call[c].pc = "done" =>
        /\ call[c].new # None
        /\ call[c].since - call[c].new <= MaxAge + MaxTime
=============================================================================
