---------------------------- MODULE PrivilegeDiff -----------------------------
(***************************************************************************)
(* Differences between privilege rows (core/database_privileges/diff.rs),  *)
(* the command-line entries they are made from (cli.rs), and what the       *)
(* server does with one (server/sql/database_privilege_operations.rs).      *)
(*                                                                         *)
(* A row of mysql.db says for one database and one user which privileges    *)
(* are held.  Every function below treats each (database, user) pair on its *)
(* own, so a diff is modelled without the pair it is for.                   *)
(***************************************************************************)

CONSTANTS
    Privs,   \* the privilege columns of mysql.db
    NoRow    \* there is no row for a pair

YN       == {"Y", "N"}
Row      == [Privs -> YN]
MaybeRow == Row \cup {NoRow}

ASSUME NoRowAssumption == NoRow \notin Row

(* Option<DatabasePrivilegeChange>, and DatabasePrivilegeRowDiff. *)
MaybeChange == {"None", "YesToNo", "NoToYes"}
RowDiff     == [Privs -> MaybeChange]

(* DatabasePrivilegesDiff. *)
New(r)      == [kind |-> "New", row |-> r]
Modified(d) == [kind |-> "Modified", diff |-> d]
Deleted(r)  == [kind |-> "Deleted", row |-> r]
Noop        == [kind |-> "Noop"]
Error       == [kind |-> "Error"]    \* anyhow::bail!

PrivilegesDiff ==
    [kind : {"New", "Deleted"}, row : Row]
        \cup [kind : {"Modified"}, diff : RowDiff] \cup {Noop}

-----------------------------------------------------------------------------
(* DatabasePrivilegeRowDiff *)

(* DatabasePrivilegeChange::new *)
ChangeNew(p1, p2) ==
    IF p1 = p2 THEN "None" ELSE IF p1 = "Y" THEN "YesToNo" ELSE "NoToYes"

FromRows(row1, row2) == [p \in Privs |-> ChangeNew(row1[p], row2[p])]

IsEmpty(d) == \A p \in Privs : d[p] = "None"

(* Mutant: merging replaces the first diff. *)
RowMappendReplaces(d, other) == other

(* mappend: the later change of a privilege wins. *)
RowMappend(d, other) ==
    [p \in Privs |-> IF other[p] # "None" THEN other[p] ELSE d[p]]

(* Does a change start from this value of the privilege? *)
StartsFrom(change, value) ==
    \/ change = "YesToNo" /\ value = "Y"
    \/ change = "NoToYes" /\ value = "N"

(* Mutant: the test is the wrong way round, so that only no-ops are kept. *)
RemoveNoopsSwapped(d, from) ==
    [p \in Privs |-> IF StartsFrom(d[p], from[p]) THEN "None" ELSE d[p]]

RemoveNoops(d, from) ==
    [p \in Privs |-> IF StartsFrom(d[p], from[p]) THEN d[p] ELSE "None"]

(* Mutant: the change is stored where its Y or N is meant. *)
ApplyChangeRaw(change, value) == IF change = "None" THEN value ELSE change

ApplyChange(change, value) ==
    IF change = "YesToNo" THEN "N" ELSE IF change = "NoToYes" THEN "Y" ELSE value

ApplyRow(d, base) == [p \in Privs |-> ApplyChange(d[p], base[p])]

-----------------------------------------------------------------------------
(* DatabasePrivilegesDiff *)

(* A modification, or nothing at all if it changes nothing. *)
ModifiedOrNoop(d) == IF IsEmpty(d) THEN Noop ELSE Modified(d)

(* Is the merge of the two an error? *)
CannotFollow(d, other) ==
    \/ d.kind = "Deleted" /\ other.kind = "Modified"
    \/ d.kind \in {"New", "Modified"} /\ other.kind = "New"

(* mappend.  Every combination that is not named leaves the first diff.    *)
Mappend(d, other) ==
    IF CannotFollow(d, other) THEN Error
    ELSE IF d.kind = "Noop" THEN other
    ELSE IF other.kind = "Modified"
         THEN IF d.kind = "New" THEN New(ApplyRow(other.diff, d.row))
              ELSE ModifiedOrNoop(RowMappend(d.diff, other.diff))
    ELSE IF other.kind = "Deleted" /\ d.kind = "Modified" THEN other
    ELSE IF other.kind = "Deleted" /\ d.kind = "New" THEN Noop
    ELSE d

(* diff_privileges, for one pair. *)
DiffPair(from, to) ==
    IF from # NoRow /\ to # NoRow THEN ModifiedOrNoop(FromRows(from, to))
    ELSE IF to # NoRow THEN New(to)
    ELSE IF from # NoRow THEN Deleted(from)
    ELSE Noop

(* create_or_modify_privilege_rows, for one pair and one entry. *)
AllNo == [p \in Privs |-> "N"]

CreateOrModify(from, d) ==
    IF from = NoRow THEN New(ApplyRow(d, AllNo)) ELSE ModifiedOrNoop(RemoveNoops(d, from))

(* reduce_privilege_diffs, for one pair: the diffs for it are merged one by  *)
(* one, starting from Noop, and no-ops are removed at the end.               *)
ReduceStep(acc, d) == IF acc = Error THEN Error ELSE Mappend(acc, d)

ReduceEnd(from, acc) ==
    IF from # NoRow /\ acc.kind = "Modified"
    THEN ModifiedOrNoop(RemoveNoops(acc.diff, from)) ELSE acc

-----------------------------------------------------------------------------
(* Command-line entries: [+|-]PRIVILEGES for a pair. *)

Entry == [type : {"Set", "Add", "Remove"}, privileges : SUBSET Privs]

(* What the command line means: the row a user asks for with an entry. *)
EntryGoal(e, row) ==
    [p \in Privs |->
        IF p \in e.privileges THEN (IF e.type = "Remove" THEN "N" ELSE "Y")
        ELSE IF e.type = "Set" \/ row = NoRow THEN "N" ELSE row[p]]

(* Mutant: a bare set of privileges leaves the others alone. *)
EntryDiffSetAdds(e) ==
    [p \in Privs |->
        IF p \in e.privileges THEN (IF e.type = "Remove" THEN "YesToNo" ELSE "NoToYes")
        ELSE "None"]

(* as_database_privileges_diff *)
EntryDiff(e) ==
    [p \in Privs |->
        IF p \in e.privileges
        THEN IF e.type = "Remove" THEN "YesToNo" ELSE "NoToYes"
        ELSE IF e.type = "Set" THEN "YesToNo" ELSE "None"]

-----------------------------------------------------------------------------
(* The server's side. *)

(* validate_diff: would the diff apply to the row there is? *)
DiffApplies(d, row) ==
    /\ d.kind = "New" => row = NoRow
    /\ d.kind \in {"Modified", "Deleted"} => row # NoRow
    /\ d.kind = "Modified" =>
           \A p \in Privs : d.diff[p] # "None" => StartsFrom(d.diff[p], row[p])

(* unsafe_apply_privilege_diff: INSERT fails on a duplicate key; UPDATE, with *)
(* COALESCE(?, column) per privilege, and DELETE may well match no row.      *)
StatementFails(d, row) == d.kind = "New" /\ row # NoRow

(* Mutant: UPDATE without COALESCE, so that a privilege without a change is   *)
(* reset.                                                                    *)
ExecuteDiffOverwrites(d, row) ==
    IF d.kind = "New" THEN d.row
    ELSE IF d.kind = "Modified" /\ row # NoRow THEN ApplyRow(d.diff, AllNo)
    ELSE IF d.kind = "Deleted" THEN NoRow
    ELSE row

ExecuteDiff(d, row) ==
    IF d.kind = "New" THEN d.row
    ELSE IF d.kind = "Modified" /\ row # NoRow THEN ApplyRow(d.diff, row)
    ELSE IF d.kind = "Deleted" THEN NoRow
    ELSE row

=============================================================================
