--------------------------- MODULE MCAuthorization ----------------------------
(* A user "a", who is also in the group of that name and in "g", "ag", and a   *)
(* group "x" the system does not know; a user "g", who has no group.          *)
EXTENDS Authorization

MCNameChars == {"a", "g", "_"}

MCChars == MCNameChars \cup {"x", "*", "?"}

MCSystemGroups ==
    {[name |-> <<"a">>, gid |-> 1], [name |-> <<"g">>, gid |-> 2],
     [name |-> <<"a", "g">>, gid |-> 3], [name |-> <<"a", "_", "g">>, gid |-> 4],
     [name |-> <<"g", "a", "g">>, gid |-> 5]}

MCUnixUsers ==
    {[username |-> <<"a">>, groups |-> {<<"a">>, <<"g">>, <<"a", "g">>, <<"x">>}],
     [username |-> <<"g">>, groups |-> {}]}

Texts == UNION {[1..n -> {"a", "g", "*", "?"}] : n \in 1..3}

(* gid 9 has no group; 0 stands for a gid that is no number. *)
MCLines ==
    {[key |-> "gid", value |-> i] : i \in {0, 2, 9}}
    \cup {[key |-> "group", value |-> t] : t \in Texts}
    \cup {[key |-> "other", value |-> <<"a">>]}
=============================================================================
