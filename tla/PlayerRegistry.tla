------------------------- MODULE PlayerRegistry -------------------------
(***************************************************************************)
(* What bd-api's callers rely on when they ask the player store for a      *)
(* player: the call takes effect at one instant. An "ok" leaves the player *)
(* registered; a "taken" (the unique violation that playerGetOrCreate      *)
(* hands to the loser of a race) says that someone else registered it; an  *)
(* "error" promises nothing. A registered player is never unregistered.    *)
(* The player store is shown to implement this module (PlayerStore), and   *)
(* the modules of the importers use a player through it.                   *)
(***************************************************************************)
CONSTANTS
    Sid,        \* steam ids
    Caller,     \* goroutines that may call playerGetOrCreate
    NoSid       \* "this caller is in no call"

VARIABLES
    registered, \* the steam ids with a player row
    asked,      \* asked[c]: the steam id c's call is about
    answer      \* answer[c]: what c's call returned, "none" before it did

rvars == <<registered, asked, answer>>

RInit ==
    /\ registered = {}
    /\ asked = [c \in Caller |-> NoSid]
    /\ answer = [c \in Caller |-> "none"]

Ask(c, s) ==
    /\ asked[c] = NoSid
    /\ asked' = [asked EXCEPT ![c] = s]
    /\ UNCHANGED <<registered, answer>>

Answer(c, a) ==
    /\ asked[c] # NoSid
    /\ answer[c] = "none"
    /\ answer' = [answer EXCEPT ![c] = a]
    /\ UNCHANGED asked

AnswerOk(c) ==
    /\ Answer(c, "ok")
    /\ registered' = registered \union {asked[c]}

AnswerTaken(c) ==
    /\ Answer(c, "taken")
    /\ asked[c] \in registered
    /\ UNCHANGED registered

\* An error may hide a registration: the acknowledgement of a COMMIT can be lost.
AnswerError(c) ==
    /\ Answer(c, "error")
    /\ registered' \in {registered, registered \union {asked[c]}}

Forget(c) ==
    /\ answer[c] # "none"
    /\ asked' = [asked EXCEPT ![c] = NoSid]
    /\ answer' = [answer EXCEPT ![c] = "none"]
    /\ UNCHANGED registered

\* The process dies: every call is forgotten, what was registered stays.
ForgetAll ==
    /\ asked' = [c \in Caller |-> NoSid]
    /\ answer' = [c \in Caller |-> "none"]
    /\ UNCHANGED registered

RNext ==
    \/ \E c \in Caller :
        \/ \E s \in Sid : Ask(c, s)
        \/ AnswerOk(c)
        \/ AnswerTaken(c)
        \/ AnswerError(c)
        \/ Forget(c)
    \/ ForgetAll

RSpec == RInit /\ [][RNext]_rvars
=============================================================================
