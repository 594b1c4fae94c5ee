---------------------------- MODULE MCSourcebans ----------------------------
(***************************************************************************)
(* Two sites with two bans on a page, which share a player.                *)
(***************************************************************************)
EXTENDS Sourcebans

Entry(name, sid, on, length, expires, admin) ==
    [name |-> name, sid |-> sid, on |-> on, length |-> length, lifter |-> admin,
     why |-> "player", expires |-> expires, reason |-> "reason", admin |-> admin,
     blocked |-> name]

\* In order of age: four bans, one more is to come. The second has no name and is below
\* one by a "player", which was lifted; people call themselves like keys.
MCBansA == <<
    Entry("reason", "p2", "d1", "short", "later", "expires_on"),
    Entry("", "p1", "d2", "permanent", "never", "ann"),
    Entry("bob", "p2", "d3", "unbanned", "later", "player"),
    Entry("player", "p3", "d4", "expired", "later", "ann"),
    Entry("cid", "p2", "d5", "short", "earlier", "steam_community") >>

MCBansB == <<
    Entry("dan", "p3", "d1", "permanent", "never", "ban_length"),
    Entry("eve", "p1", "now", "short", "never", "player"),
    Entry("fay", "none", "d2", "short", "later", "ann") >>

MCBans == [s \in Site |-> IF s = "A" THEN MCBansA ELSE MCBansB]

\* Every page of these two lists is read as it should be, in every theme.
ASSUME PlainLists /\ PagesParsed

MCInit ==
    /\ Init
    /\ <<theme["A"], theme["B"]>> \in
            {<<"default", "star">>, <<"skial", "material">>, <<"fluent", "default">>}
    /\ listed["A"] = 4 /\ listed["B"] = 3

MCSpec == MCInit /\ [][Next]_vars /\ Fairness
=============================================================================
