---------------------------- MODULE Authorization -----------------------------
(***************************************************************************)
(* Which names a UNIX user may manage, and which ones the server shows them  *)
(* (core/protocol/request_validation.rs, server/authorization.rs,           *)
(* server/common.rs).                                                       *)
(*                                                                         *)
(* Three pieces of code answer that question, each in its own way: the      *)
(* validation of every name in a request, the prefixes the server           *)
(* advertises, and the regular expression of the list and completion        *)
(* queries.  A name is a sequence of characters over a small alphabet.       *)
(***************************************************************************)
EXTENDS Naturals, Sequences, FiniteSets, SequencesExt

CONSTANTS
    MaxNameLength,   \* MAX_NAME_LENGTH
    Chars,           \* all characters
    NameChars,       \* the characters permitted in a name, "_" among them
    SystemGroups,    \* the system's groups, records of a name and a gid
    UnixUsers,       \* users, records of a username and a set of group names
    Lines,           \* lines a denylist file may have
    MaxDenyLines     \* bound on their number

ASSUME BoundsAssumption == MaxNameLength \in Nat /\ MaxDenyLines \in Nat

ASSUME NamesAssumption ==
    /\ NameChars \cup {"*", "?", "_"} \subseteq Chars
    /\ \A g \in SystemGroups : g.name \in Seq(Chars)
    /\ \A u \in UnixUsers : u.username \in Seq(Chars) /\ u.groups \subseteq Seq(Chars)
    /\ \A l \in Lines : l.key = "group" => l.value \in Seq(Chars)

ASSUME SystemGroupsAssumption ==
    \A g, h \in SystemGroups : g.name = h.name \/ g.gid = h.gid => g = h

VARIABLES
    lines,      \* the lines of the denylist file read so far
    denylist,   \* the GroupDenylist made of them
    peer        \* the UNIX user whose session is served with it, if any

denylistVars == <<lines, denylist, peer>>

-----------------------------------------------------------------------------
(* Group::from_name: no group, or one. *)
FromName(name) == {g \in SystemGroups : g.name = name}

Wildcards == {"*", "?"}

(* Mutant: a run with a star becomes just the star. *)
RunStar(acc) == IF acc.star THEN <<"*">> ELSE [i \in 1..acc.marks |-> "?"]

(* GroupNamePattern::normalize: a run of wildcards becomes its question      *)
(* marks, followed by a star if there was one.                               *)
Run(acc) == [i \in 1..acc.marks |-> "?"] \o (IF acc.star THEN <<"*">> ELSE <<>>)

NormalizeChar(acc, c) ==
    CASE c = "?" -> [acc EXCEPT !.marks = @ + 1]
      [] c = "*" -> [acc EXCEPT !.star = TRUE]
      [] OTHER   -> [out |-> acc.out \o Run(acc) \o <<c>>, marks |-> 0, star |-> FALSE]

Normalize(pattern) ==
    LET acc[i \in 0..Len(pattern)] ==
            IF i = 0 THEN [out |-> <<>>, marks |-> 0, star |-> FALSE]
            ELSE NormalizeChar(acc[i - 1], pattern[i])
        all == acc[Len(pattern)]
    IN  all.out \o Run(all)

(* GroupNamePattern::to_regex, anchored: the name falls into one piece for   *)
(* each character of the pattern.                                            *)
RegexMatches(pattern, name) ==
    \E cut \in [0..Len(pattern) -> 0..Len(name)] :
        /\ cut[0] = 0 /\ cut[Len(pattern)] = Len(name)
        /\ \A i \in 1..Len(pattern) :
               IF pattern[i] = "*" THEN cut[i - 1] <= cut[i]
               ELSE /\ cut[i] = cut[i - 1] + 1
                    /\ pattern[i] \in {"?", name[cut[i]]}

(* parse_group_denylist, for what is left of a line without its comment and   *)
(* surrounding space: what it adds to the denylist.  A gid that is no number, *)
(* a gid or name without a group, and any other text, are skipped.           *)
IsPattern(l) == l.key = "group" /\ \E i \in DOMAIN l.value : l.value[i] \in Wildcards

LineGids(l) ==
    CASE l.key = "gid"                    -> {g.gid : g \in {h \in SystemGroups : h.gid = l.value}}
      [] l.key = "group" /\ ~IsPattern(l) -> {g.gid : g \in FromName(l.value)}
      [] OTHER                            -> {}

LinePatterns(l) == IF IsPattern(l) THEN {Normalize(l.value)} ELSE {}

(* GroupDenylist::matches *)
DenylistMatches(deny, g) ==
    g.gid \in deny.gids \/ \E p \in deny.patterns : RegexMatches(p, g.name)

-----------------------------------------------------------------------------
ValidateName(name) ==
    CASE name = <<>>               -> "EmptyString"
      [] Len(name) > MaxNameLength -> "TooLong"
      [] ToSet(name) \subseteq NameChars -> "Ok"
      [] OTHER                     -> "InvalidCharacters"

HasPrefix(name, p) == IsPrefix(p \o <<"_">>, name)

(* validate_authorization_by_unix_user: the user's name and groups. *)
ValidateByPrefixes(name, user) ==
    CASE name = <<>> -> "StringEmpty"
      [] \E p \in {user.username} \cup user.groups : HasPrefix(name, p) -> "Ok"
      [] OTHER -> "IllegalPrefix"

(* It is the name as a whole that is looked up, not its prefix. *)
ValidateByGroupDenylist(name, user, deny) ==
    IF name # user.username /\ \E g \in FromName(name) : DenylistMatches(deny, g)
    THEN "DenylistError" ELSE "Ok"

ValidateDbOrUserRequest(name, user, deny) ==
    CASE ValidateName(name) # "Ok"             -> ValidateName(name)
      [] ValidateName(name) = "Ok"
         /\ ValidateByPrefixes(name, user) # "Ok" -> ValidateByPrefixes(name, user)
      [] OTHER                                 -> ValidateByGroupDenylist(name, user, deny)

(* The CheckAuthorization request *)
CheckAuthorization(names, user, deny) ==
    [n \in names |-> ValidateDbOrUserRequest(n, user, deny)]

(* A group of the user that the system does not know (any more) stays. *)
GetUserFilteredGroups(user, deny) ==
    {n \in user.groups : \A g \in FromName(n) : ~DenylistMatches(deny, g)}

(* The ListValidNamePrefixes request *)
ListValidNamePrefixes(user, deny) == {user.username} \cup GetUserFilteredGroups(user, deny)

(* Mutant: the prefix has to be followed by two characters. *)
MatchesUserGroupRegexLonger(name, user, deny) ==
    \E p \in {user.username} \cup GetUserFilteredGroups(user, deny), i \in 1..Len(name) :
        i + Len(p) < Len(name) - 1 /\ SubSeq(name, i, i + Len(p)) = p \o <<"_">>

(* create_user_group_matching_regex, as SQL's REGEXP uses it: the prefix, an   *)
(* underscore and at least one more character, anywhere in the name.         *)
MatchesUserGroupRegex(name, user, deny) ==
    \E p \in {user.username} \cup GetUserFilteredGroups(user, deny), i \in 1..Len(name) :
        i + Len(p) < Len(name) /\ SubSeq(name, i, i + Len(p)) = p \o <<"_">>

(* SCHEMA_NAME REGEXP '<database>': the text of the valid name d somewhere in  *)
(* the name.                                                                 *)
HasText(name, d) == \E i \in 0..(Len(name) - Len(d)) : SubSeq(name, i + 1, i + Len(d)) = d

(* LIKE '<prefix>%', where an underscore stands for any character. *)
LikePrefix(name, prefix) ==
    /\ Len(prefix) <= Len(name)
    /\ \A i \in 1..Len(prefix) : prefix[i] \in {"_", name[i]}

(* complete_database_name and complete_user_name *)
CompleteName(prefix, existing, user, deny) ==
    IF ToSet(prefix) \subseteq NameChars
    THEN {n \in existing : MatchesUserGroupRegex(n, user, deny) /\ LikePrefix(n, prefix)}
    ELSE {}

-----------------------------------------------------------------------------
(* GroupDenylist::new *)
DenylistInit == lines = {} /\ denylist = [gids |-> {}, patterns |-> {}] /\ peer = {}

(* One round of the loop over the lines of the file. *)
ParseLine(l) ==
    /\ peer = {}
    /\ Cardinality(lines) < MaxDenyLines
    /\ lines' = lines \cup {l}
    /\ denylist' = [gids     |-> denylist.gids \cup LineGids(l),
                    patterns |-> denylist.patterns \cup LinePatterns(l)]
    /\ UNCHANGED peer

(* session_handler: a session has one user, from its peer's credentials, and    *)
(* keeps the denylist it was given.                                           *)
SessionHandler(u) ==
    /\ peer = {}
    /\ peer' = {u}
    /\ UNCHANGED <<lines, denylist>>

DenylistNext ==
    \/ \E l \in Lines : ParseLine(l)
    \/ \E u \in UnixUsers : SessionHandler(u)

DenylistSpec == DenylistInit /\ [][DenylistNext]_denylistVars

-----------------------------------------------------------------------------
(* The groups a line of the file names: the one with that gid or that name, or *)
(* every one whose name the pattern, as it is written, matches.               *)
LineDenies(l, g) ==
    \/ l.key = "gid" /\ l.value = g.gid
    \/ l.key = "group" /\ ~IsPattern(l) /\ l.value = g.name
    \/ IsPattern(l) /\ RegexMatches(l.value, g.name)

(* The denylist the server keeps, with names resolved to gids and patterns     *)
(* normalised, matches exactly the groups that some line of the file names.   *)
(* What being on the denylist means for a name is another matter: see          *)
(* DeniedGroupIsNoPrefix.                                                     *)
DenylistMeansItsLines ==
    \A g \in SystemGroups : DenylistMatches(denylist, g) <=> \E l \in lines : LineDenies(l, g)

Names == UNION {[1..n -> NameChars] : n \in 1..MaxNameLength}

(* The prefixes the server advertises are good ones: a name made of such a      *)
(* prefix, an underscore and more text is accepted in requests, is found by    *)
(* the list queries, and is completed from the prefix.  The exception is a     *)
(* name that is itself the name of a denied group.                            *)
AdvertisedPrefixWorks ==
    \A u \in peer : \A p \in ListValidNamePrefixes(u, denylist), n \in Names :
        /\ HasPrefix(n, p) /\ Len(n) > Len(p) + 1
        /\ \A g \in FromName(n) : ~DenylistMatches(denylist, g)
        => /\ CheckAuthorization({n}, u, denylist)[n] = "Ok"
           /\ MatchesUserGroupRegex(n, u, denylist)
           /\ n \in CompleteName(p \o <<"_">>, {n}, u, denylist)

(* A group that the file names is of no use as a prefix: a name is accepted    *)
(* only for the prefix of the user's own name or of a group that no line       *)
(* names.  So docs/administration.md has it; the code looks for a group that   *)
(* has the whole name (validate_authorization_by_group_denylist).             *)
DeniedGroupIsNoPrefix ==
    \A u \in peer, n \in Names :
        CheckAuthorization({n}, u, denylist)[n] = "Ok" =>
            \/ HasPrefix(n, u.username)
            \/ \E p \in u.groups : /\ HasPrefix(n, p)
                                    /\ \A g \in FromName(p), l \in lines : ~LineDenies(l, g)

=============================================================================
