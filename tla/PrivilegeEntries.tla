--------------------------- MODULE PrivilegeEntries ---------------------------
(***************************************************************************)
(* edit-privs with several -p entries for one (database, user) pair: how    *)
(* the client turns them into one diff (client/commands/edit_privs.rs,      *)
(* core/database_privileges/cli.rs and diff.rs).                            *)
(*                                                                         *)
(* The entries become diffs in a BTreeSet, which drops equal ones and       *)
(* forgets the order of the command line.  They are merged in the order of   *)
(* that set; here in any order, and OrderIsIrrelevant shows that the         *)
(* outcome does not depend on it.                                           *)
(***************************************************************************)
EXTENDS PrivilegeDiff, Naturals, Sequences, SequencesExt

CONSTANT MaxEntries   \* bound on the entries of a command line

ASSUME MaxEntriesAssumption == MaxEntries \in Nat

VARIABLES
    phase,     \* "args", "reduce", "done"
    from,      \* the row fetched from the server
    entries,   \* the command line
    diffs,     \* the diffs still to be merged
    acc        \* the diff of this pair in reduce_privilege_diffs

vars == <<phase, from, entries, diffs, acc>>

Init ==
    /\ phase = "args"
    /\ from \in MaybeRow
    /\ entries = <<>>
    /\ diffs = {}
    /\ acc = Noop

(* DatabasePrivilegeEditEntry::parse_from_str *)
ParseEntry(e) ==
    /\ phase = "args"
    /\ Len(entries) < MaxEntries
    /\ entries' = Append(entries, e)
    /\ UNCHANGED <<phase, from, diffs, acc>>

(* parse_privilege_tables and create_or_modify_privilege_rows *)
MakeDiffs ==
    /\ phase = "args"
    /\ entries # <<>>
    /\ diffs' = {CreateOrModify(from, EntryDiff(e)) : e \in ToSet(entries)} \ {Noop}
    /\ phase' = "reduce"
    /\ UNCHANGED <<from, entries, acc>>

(* reduce_privilege_diffs *)
MergeDiff(d) ==
    /\ phase = "reduce"
    /\ d \in diffs
    /\ diffs' = diffs \ {d}
    /\ acc' = ReduceStep(acc, d)
    /\ UNCHANGED <<phase, from, entries>>

FinishReduce ==
    /\ phase = "reduce"
    /\ diffs = {}
    /\ acc' = ReduceEnd(from, acc)
    /\ phase' = "done"
    /\ UNCHANGED <<from, entries, diffs>>

Next ==
    \/ \E e \in Entry : ParseEntry(e)
    \/ MakeDiffs
    \/ \E d \in diffs : MergeDiff(d)
    \/ FinishReduce

Spec == Init /\ [][Next]_vars

-----------------------------------------------------------------------------
(* What the client ends up with, as a function of the entries alone: for a     *)
(* pair without a row all entries must ask for the same row; otherwise a       *)
(* privilege changes if any entry asks for another value than it has.          *)
Goals == {EntryGoal(e, from) : e \in ToSet(entries)}

Outcome ==
    IF from = NoRow THEN IF \E g \in Goals : Goals = {g} THEN New(CHOOSE g \in Goals : TRUE) ELSE Error
    ELSE ModifiedOrNoop([p \in Privs |->
             IF \E g \in Goals : g[p] # from[p] THEN ChangeNew(from[p], IF from[p] = "Y" THEN "N" ELSE "Y")
             ELSE "None"])

(* Merging the diffs in any order leads to that outcome.                       *)
OrderIsIrrelevant == phase = "done" => acc = Outcome

(* The merged diff applies to the row it was made from, so that without         *)
(* interference the server accepts what the client sends.                       *)
MergedDiffApplies == phase = "done" /\ acc # Error => DiffApplies(acc, from)

=============================================================================
