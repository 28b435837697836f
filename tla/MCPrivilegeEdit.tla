---------------------------- MODULE MCPrivilegeEdit ---------------------------
(* Editing privileges with the names of module Authorization.  The client c1    *)
(* is run by the UNIX user "g", the client c2 by "bg", who is in the group "g"   *)
(* that the denylist denies.  To c1 the database "bg_a" is shown although it is  *)
(* c2's; c2 may manage "g_a" and "g_u" but is not shown them.                   *)
EXTENDS PrivilegeEdit, TLC

CONSTANTS c1, c2, d1, d2, u1, sel, ins

Text(n) == CASE n = d1 -> <<"g", "_", "a">>
             [] n = d2 -> <<"b", "g", "_", "a">>
             [] n = u1 -> <<"g", "_", "u">>

Rules == INSTANCE Authorization WITH
    MaxNameLength <- 4, MaxDenyLines <- 0,
    NameChars <- {"a", "b", "g", "u", "_"}, Chars <- {"a", "b", "g", "u", "_", "*", "?"},
    SystemGroups <- {[name |-> <<"g">>, gid |-> 1]}, UnixUsers <- {}, Lines <- {},
    lines <- {}, denylist <- [gids |-> {1}, patterns |-> {}], peer <- {}

Denylist == [gids |-> {1}, patterns |-> {}]
User(c)  == IF c = c1 THEN [username |-> <<"g">>, groups |-> {}]
            ELSE [username |-> <<"b", "g">>, groups |-> {<<"g">>}]

MCOwned == [c \in {c1, c2} |->
    {n \in Dbs \cup Users : Rules!ValidateDbOrUserRequest(Text(n), User(c), Denylist) = "Ok"}]
MCShown == [c \in {c1, c2} |-> {n \in Dbs : Rules!MatchesUserGroupRegex(Text(n), User(c), Denylist)}]
MCHits  == [d \in Dbs |-> {e \in Dbs : Rules!HasText(Text(e), Text(d))}]

(* A row with these privileges; the rows of d1 and d2. *)
With(ps)   == [p \in Privs |-> IF p \in ps THEN "Y" ELSE "N"]
Both(x, y) == [k \in Pairs |-> IF k[1] = d1 THEN x ELSE y]

MCStored == {Both(NoRow, NoRow), Both(With({}), NoRow), Both(With({ins}), With({}))}
MCWishes == [c \in {c1, c2} |->
    IF c = c1 THEN {Both(NoRow, With({ins}))} ELSE {Both(With({ins}), NoRow), Both(With({sel, ins}), With({sel}))}]

For(ds, t, ps) == [k \in ds \X {u1} |-> [type |-> t, privileges |-> ps]]
MCEntries == [c \in {c1, c2} |->
    IF c = c1 THEN {For({d1}, "Set", {sel})} ELSE {For({d1, d2}, "Add", {ins})}]
=============================================================================
