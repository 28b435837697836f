----------------------------- MODULE MCRequests -------------------------------
(* Requests with the names of module Authorization: the UNIX users "a" and     *)
(* "b" have a group "g" in common, and both sessions deal with two databases   *)
(* of the group, the name of one part of the other's, and a user of a's.       *)
EXTENDS Requests

CONSTANTS s1, s2, p1, d1, d2, u1

Text(n) == CASE n = d1 -> <<"g", "_", "a">>
             [] n = d2 -> <<"g", "_", "a", "a">>
             [] n = u1 -> <<"a", "_", "a">>

Rules == INSTANCE Authorization WITH
    MaxNameLength <- 4, MaxDenyLines <- 0,
    NameChars <- {"a", "b", "g", "_"}, Chars <- {"a", "b", "g", "_", "*", "?"},
    SystemGroups <- {[name |-> <<"g">>, gid |-> 1]}, UnixUsers <- {}, Lines <- {},
    lines <- {}, denylist <- [gids |-> {}, patterns |-> {}], peer <- {}

Denylist == [gids |-> {}, patterns |-> {}]
Client   == [s \in {s1, s2} |-> [username |-> IF s = s1 THEN <<"a">> ELSE <<"b">>, groups |-> {<<"g">>}]]

MCOwned == [s \in {s1, s2} |-> {All} \cup
    {n \in Names : Rules!ValidateDbOrUserRequest(Text(n), Client[s], Denylist) = "Ok"}]
MCShown == [s \in {s1, s2} |->
    {n \in Names : Rules!MatchesUserGroupRegex(Text(n), Client[s], Denylist)}]
MCHits  == [d \in Dbs |-> {e \in Dbs : Rules!HasText(Text(e), Text(d))}]
=============================================================================
