-------------------------- MODULE ListsOverStore --------------------------
(***************************************************************************)
(* Jobs of the bot detector lists over the real player store: where        *)
(* BDLists has one step, EnsurePlayer, a job here makes the whole call of  *)
(* playerGetOrCreate (src/bd.go:112-116): its SELECT, the statements of    *)
(* the transaction, the wait for a key that another job's transaction      *)
(* holds, and each of its three answers. All other steps, of the jobs and  *)
(* of the world, come in between. Shown to implement BDLists: what is said *)
(* of the lists there holds here.                                          *)
(*                                                                         *)
(* The workers are callers of the store, and players and player are one    *)
(* table. A crash is a failure of every job, in a call or not, as there.   *)
(***************************************************************************)
EXTENDS PlayerStore, BDLists

overVars == <<vars, storeVars>>

InCall(j) == pc[j] \in Statements

OverInit == Init /\ StoreInit

Ask(j) ==
    /\ job[j].pc = "run"
    /\ \E k \in NextNew(j) : Call(j, job[j].cur.doc[k].sid)
    /\ UNCHANGED vars

\* The caller does what the answer asks for: with "ok" it goes on to the entry, any
\* error ends the job (for the bound, a fault). One that has no answer yet waits.
Heed(j) ==
    \/ pc'[j] = "ok" /\ Set(j, [job[j] EXCEPT !.pc = "insert"]) /\ NoFault
    \/ pc'[j] \in {"taken", "error"} /\ Set(j, Idle) /\ Fault
    \/ pc'[j] \in Statements /\ UNCHANGED <<job, faults>>

StoreWorks(j) ==
    /\ CallStep(j) \/ Commit(j, "error") \/ FailCall(j)
    /\ Heed(j)
    /\ players' = player'
    /\ UNCHANGED <<lists, entries, served, changes>>

CallOver(j) == Return(j) /\ UNCHANGED vars

\* What a job does outside of its calls.
JobWorks(j) ==
    /\ ~InCall(j)
    /\ UNCHANGED storeVars
    /\ players' = player'
    /\ \/ Start(j)
       \/ Fetch(j)
       \/ ReadEntries(j)
       \/ InsertEntry(j)
       \/ UpdateEntry(j)
       \/ DeleteEntry(j)
       \/ Finish(j)
       \/ Fail(j)

WorldWorks ==
    /\ \E l \in List : Publish(l) \/ DeleteList(l) \/ AddList(l)
    /\ UNCHANGED storeVars

OverNext ==
    \/ \E j \in Job : Ask(j) \/ StoreWorks(j) \/ CallOver(j) \/ JobWorks(j)
    \/ WorldWorks

OverSpec == OverInit /\ [][OverNext]_overVars
=============================================================================
