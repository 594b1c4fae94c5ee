------------------------------ MODULE SBParser ------------------------------
(***************************************************************************)
(* The parsers of SourceBans pages (src/sourcebans.go:85-151, 724-1063).   *)
(*                                                                         *)
(* A page is the sequence of its texts. The original theme's page is a     *)
(* sequence of table cells, in which a cell that reads like a key makes    *)
(* the next one its value; in the other themes a row has both. All parsers *)
(* fill one record until the row of the reason ends it. A ban has          *)
(*   name, admin: what the players call themselves, Blank is no name;      *)
(*   sid: a steam id, or what is shown instead of one;                     *)
(*   on: when it was imposed;                                              *)
(*   length: "permanent", "unbanned", "expired", or a duration;            *)
(*   lifter, why: who lifted it, with what reason;                         *)
(*   expires: "earlier" or "later" than on, "never" ("Not applicable."),   *)
(*       or no time at all;                                                *)
(*   blocked: under what name its player tried to join since.              *)
(* Texts are strings. The languages of the keys and the formats of ids and *)
(* times are left out.                                                     *)
(***************************************************************************)
EXTENDS Naturals, Sequences

CONSTANTS
    SteamId,    \* texts that are a steam id
    Time,       \* texts that are a time
    Zero        \* what a record that has just been begun has for either

\* The empty text: no name, and no key.
Blank == ""

\* What a key reads like (with _ for a space).
Keys == {"player", "steam3_id", "steam_community", "community_links", "invoked_on",
         "ban_length", "expires_on", "reason"}

\* The texts of a cell page that are no keys and come next to a name or a reason.
Labels == {"ban_details", "unban_reason", "no_reason", "unbanned_by", "banned_by",
           "banned_from", "web_ban", "blocked"}

ASSUME TextAssumption ==
    /\ SteamId \union Time \union {Zero} \union Keys \union Labels \subseteq STRING
    /\ Zero \notin SteamId \union Time
    /\ (SteamId \union Time) \intersect (Keys \union Labels) = {}

\* The record under construction: sbRecord{}.
NoBan == [name |-> Blank, sid |-> Zero, on |-> Zero, perm |-> FALSE, length |-> 0]

Valid(cur) == cur.sid # Zero

\* setPlayer: an empty name does not replace another.
SetPlayer(cur, v) == IF v = Blank THEN cur ELSE [cur EXCEPT !.name = v]

\* setSteam: the first valid id stays.
SetSteam(cur, v) ==
    IF Valid(cur) THEN cur ELSE [cur EXCEPT !.sid = IF v \in SteamId THEN v ELSE Zero]

\* setInvokedOn: what is no time is logged.
SetInvokedOn(cur, v) == IF v \in Time THEN [cur EXCEPT !.on = v] ELSE cur

\* setBanLength: who was unbanned is invalidated by taking his id.
SetBanLength(cur, v) ==
    [cur EXCEPT !.sid = IF v = "unbanned" THEN Zero ELSE @,
                !.perm = @ \/ v = "permanent",
                !.length = 0]

\* setExpiredOn: a ban that ends before it begins is invalid; "never" is the zero time,
\* from which a ban whose own time was not read counts. A duration is 1.
SetExpiredOn(cur, v) ==
    IF cur.perm \/ ~Valid(cur) \/ v \notin {"earlier", "later", "never"} THEN cur
    ELSE IF v # "later" /\ cur.on # Zero THEN [cur EXCEPT !.sid = Zero]
    ELSE [cur EXCEPT !.length = IF v = "never" THEN 0 ELSE 1]

\* The row of the reason ends the record: it is a ban if it has an id and a name.
EndRecord(st) ==
    [st EXCEPT !.bans = IF Valid(st.cur) /\ st.cur.name # Blank THEN Append(@, st.cur) ELSE @,
               !.cur = NoBan]

\* The switch on the key.
Assign(st, key, v) ==
    CASE key = "player"          -> [st EXCEPT !.cur = SetPlayer(@, v)]
      [] key \in {"steam3_id", "steam_community", "community_links"}
                                 -> [st EXCEPT !.cur = SetSteam(@, v)]
      [] key = "invoked_on"      -> [st EXCEPT !.cur = SetInvokedOn(@, v)]
      [] key = "ban_length"      -> [st EXCEPT !.cur = SetBanLength(@, v)]
      [] key = "expires_on"      -> [st EXCEPT !.cur = SetExpiredOn(@, v)]
      [] key = "reason"          -> EndRecord(st)
      [] OTHER                   -> st

Begin == [bans |-> <<>>, cur |-> NoBan, key |-> Blank]

\* parseDefault: key is the key whose value comes next, or Blank. The value of a
\* steam3 id is passed over; links are no key here.
ParseDefault(st, text) ==
    IF st.key = Blank
    THEN [st EXCEPT !.key = IF text \in Keys \ {"community_links"} THEN text ELSE Blank]
    ELSE Assign([st EXCEPT !.key = Blank], IF st.key = "steam3_id" THEN Blank ELSE st.key, text)

\* parseMaterial: a row is <<key, value>>.
ParseMaterial(st, row) == Assign(st, row[1], row[2])

\* parseFluent does not read links either.
ParseFluent(st, row) ==
    IF row[1] = "community_links" THEN st ELSE Assign(st, row[1], row[2])

\* parseStar: above the rows of a ban is one of three cells, the second is the name.
ParseStar(st, row) ==
    IF row[1] = "header" THEN [st EXCEPT !.cur.name = row[2]] ELSE Assign(st, row[1], row[2])

----------------------------------------------------------------------------
(* The pages of the sites (external; see src/testdata). *)

\* The details of a ban, in the original theme a table within the list's: the selector
\* takes the inner table's cells only. Labels next to labels and to ids are left out.
LiftedCells(b) ==
    CASE b.length = "unbanned" -> << "unban_reason", b.why, "unbanned_by", b.lifter >>
      [] b.length = "expired"  -> << "unban_reason", "no_reason", "unbanned_by", b.lifter >>
      [] OTHER                 -> << >>

Cells(b) ==
    << "ban_details", "player", b.name, "steam3_id", b.sid, "steam_community", b.sid,
       "invoked_on", b.on, "ban_length", b.length >> \o
    LiftedCells(b) \o
    << "expires_on", b.expires, "reason", b.reason, "banned_by", b.admin,
       "banned_from", "web_ban", "blocked", b.blocked >>

Rows(b) ==
    << <<"header", b.name>>, <<"player", b.name>>,
       <<"steam3_id", b.sid>>, <<"steam_community", b.sid>>, <<"community_links", b.sid>>,
       <<"invoked_on", b.on>>, <<"ban_length", b.length>>, <<"expires_on", b.expires>>,
       <<"reason", b.reason>>, <<"banned_by", b.admin>> >>

\* From left to right. (What a prefix comes to is a set of one element, for TLC to
\* take each step once.)
FoldTexts(Step(_, _), base, texts) ==
    LET acc[i \in 0..Len(texts)] ==
            IF i = 0 THEN {base} ELSE {Step(st, texts[i]) : st \in acc[i - 1]}
    IN  CHOOSE st \in acc[Len(texts)] : TRUE

\* Each theme has its parser.
ParseText(t, st, x) ==
    CASE t \in {"default", "skial"} -> ParseDefault(st, x)
      [] t = "material"             -> ParseMaterial(st, x)
      [] t = "star"                 -> ParseStar(st, x)
      [] t = "fluent"               -> ParseFluent(st, x)

Texts(t, b) == IF t \in {"default", "skial"} THEN Cells(b) ELSE Rows(b)

ParseBan(t, st, b) ==
    LET Step(before, x) == ParseText(t, before, x)
    IN  FoldTexts(Step, st, Texts(t, b))

\* It goes through the page from its first text on.
Parse(t, page) ==
    LET Step(st, b) == ParseBan(t, st, b)
    IN  FoldTexts(Step, Begin, page).bans

\* What a ban of a page says, if a parser is to report it at all: the player is known,
\* the ban was not lifted, and does not end before it begins.
Reported(b) ==
    /\ b.name # Blank /\ b.sid \in SteamId
    /\ b.length # "unbanned"
    /\ b.length = "permanent" \/ b.on \notin Time \/ b.expires \notin {"earlier", "never"}

Lasts(b) == b.expires = "later" \/ (b.expires = "earlier" /\ b.on \notin Time)

Said(b) ==
    [name |-> b.name, sid |-> b.sid, on |-> IF b.on \in Time THEN b.on ELSE Zero,
     perm |-> b.length = "permanent",
     length |-> IF b.length # "permanent" /\ Lasts(b) THEN 1 ELSE 0]
=============================================================================
