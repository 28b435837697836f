-------------------------- MODULE PrivilegeDiffProofs -------------------------
(***************************************************************************)
(* What the operations on diffs compute, for any set of privileges.        *)
(***************************************************************************)
EXTENDS PrivilegeDiff, TLAPS

(* from_rows undone by apply: a row diff leads from its first row to its       *)
(* second, and each of its changes starts from the value the first row has.    *)
LEMMA FromRowsLeads ==
    ASSUME NEW r1 \in Row, NEW r2 \in Row
    PROVE  /\ FromRows(r1, r2) \in RowDiff
           /\ ApplyRow(FromRows(r1, r2), r1) = r2
           /\ \A p \in Privs : FromRows(r1, r2)[p] # "None" => StartsFrom(FromRows(r1, r2)[p], r1[p])
           /\ IsEmpty(FromRows(r1, r2)) => r1 = r2
  <1>1. \A p \in Privs : r1[p] \in YN /\ r2[p] \in YN
    BY DEF Row
  <1>2. \A p \in Privs : ApplyChange(ChangeNew(r1[p], r2[p]), r1[p]) = r2[p]
    BY <1>1 DEF ApplyChange, ChangeNew, YN
  <1>3. \A p \in Privs : ChangeNew(r1[p], r2[p]) \in MaybeChange
    BY <1>1 DEF ChangeNew, YN, MaybeChange
  <1>4. \A p \in Privs : ChangeNew(r1[p], r2[p]) # "None" => StartsFrom(ChangeNew(r1[p], r2[p]), r1[p])
    BY <1>1 DEF ChangeNew, YN, StartsFrom
  <1>5. \A p \in Privs : ChangeNew(r1[p], r2[p]) = "None" => r1[p] = r2[p]
    BY <1>1 DEF ChangeNew, YN
  <1>6. ApplyRow(FromRows(r1, r2), r1) = [p \in Privs |-> r2[p]]
    BY <1>2 DEF ApplyRow, FromRows
  <1>7. ASSUME IsEmpty(FromRows(r1, r2)) PROVE r1 = r2
    <2>1. \A p \in Privs : r1[p] = r2[p]
      BY <1>5, <1>7 DEF IsEmpty, FromRows
    <2> QED BY <2>1 DEF Row
  <1> QED BY <1>3, <1>4, <1>6, <1>7 DEF FromRows, RowDiff, Row

(* Applying a row diff to a row gives a row. *)
LEMMA ApplyRowType ==
    ASSUME NEW d \in RowDiff, NEW r \in Row
    PROVE  ApplyRow(d, r) \in Row
  BY DEF ApplyRow, ApplyChange, RowDiff, MaybeChange, Row, YN

(* remove_noops drops changes that change nothing, and only those: the effect  *)
(* on the row is the same, and what is left starts from the row's values.      *)
LEMMA RemoveNoopsKeepsEffect ==
    ASSUME NEW d \in RowDiff, NEW r \in Row
    PROVE  /\ RemoveNoops(d, r) \in RowDiff
           /\ ApplyRow(RemoveNoops(d, r), r) = ApplyRow(d, r)
           /\ \A p \in Privs : RemoveNoops(d, r)[p] # "None" => StartsFrom(RemoveNoops(d, r)[p], r[p])
           /\ IsEmpty(RemoveNoops(d, r)) => ApplyRow(d, r) = r
  <1>1. \A p \in Privs : r[p] \in YN /\ d[p] \in MaybeChange
    BY DEF Row, RowDiff
  <1>2. RemoveNoops(d, r) \in RowDiff
    BY <1>1 DEF RemoveNoops, RowDiff, MaybeChange
  <1>3. \A p \in Privs : ApplyChange(RemoveNoops(d, r)[p], r[p]) = ApplyChange(d[p], r[p])
    BY <1>1 DEF RemoveNoops, StartsFrom, ApplyChange, MaybeChange, YN
  <1>4. ApplyRow(RemoveNoops(d, r), r) = ApplyRow(d, r)
    BY <1>3 DEF ApplyRow
  <1>5. \A p \in Privs : RemoveNoops(d, r)[p] # "None" => StartsFrom(RemoveNoops(d, r)[p], r[p])
    BY DEF RemoveNoops
  <1>6. ASSUME IsEmpty(RemoveNoops(d, r)) PROVE ApplyRow(d, r) = r
    <2>1. \A p \in Privs : ApplyChange(d[p], r[p]) = r[p]
      BY <1>3, <1>6 DEF IsEmpty, ApplyChange
    <2> QED BY <2>1 DEF ApplyRow, Row
  <1> QED BY <1>2, <1>4, <1>5, <1>6

(* What the client may send for a pair of which it knows the row "from" and    *)
(* wants the row "to": nothing if they agree, and otherwise a diff that the    *)
(* server finds to apply to "from" and that makes "to" of it.                   *)
Leads(d, from, to) ==
    /\ d \in PrivilegesDiff
    /\ DiffApplies(d, from)
    /\ ExecuteDiff(d, from) = to
    /\ d.kind = "Modified" => ~IsEmpty(d.diff)

(* A nonempty row diff whose changes start from the row is a diff that leads    *)
(* to the row it is applied to; an empty one is Noop.                           *)
LEMMA ModifiedLeads ==
    ASSUME NEW d \in RowDiff, NEW r \in Row,
           \A p \in Privs : d[p] # "None" => StartsFrom(d[p], r[p]),
           IsEmpty(d) => ApplyRow(d, r) = r
    PROVE  Leads(ModifiedOrNoop(d), r, ApplyRow(d, r))
  <1>0. r # NoRow
    BY NoRowAssumption
  <1>1. CASE IsEmpty(d)
    BY <1>1, <1>0 DEF Leads, ModifiedOrNoop, Noop, PrivilegesDiff, DiffApplies, ExecuteDiff
  <1>2. CASE ~IsEmpty(d)
    BY <1>2, <1>0 DEF Leads, ModifiedOrNoop, Modified, PrivilegesDiff, DiffApplies, ExecuteDiff
  <1> QED BY <1>1, <1>2

(* diff_privileges: the diff between two states of a pair applies to the first  *)
(* and leads to the second.                                                     *)
THEOREM DiffPairLeads ==
    ASSUME NEW from \in MaybeRow, NEW to \in MaybeRow
    PROVE  Leads(DiffPair(from, to), from, to)
  <1>1. CASE from = NoRow /\ to = NoRow
    BY <1>1 DEF DiffPair, Leads, Noop, PrivilegesDiff, DiffApplies, ExecuteDiff
  <1>2. CASE from = NoRow /\ to # NoRow
    BY <1>2 DEF DiffPair, Leads, New, PrivilegesDiff, DiffApplies, ExecuteDiff, MaybeRow
  <1>3. CASE from # NoRow /\ to = NoRow
    BY <1>3 DEF DiffPair, Leads, Deleted, PrivilegesDiff, DiffApplies, ExecuteDiff, MaybeRow
  <1>4. CASE from # NoRow /\ to # NoRow
    <2>1. from \in Row /\ to \in Row
      BY <1>4 DEF MaybeRow
    <2>2. Leads(ModifiedOrNoop(FromRows(from, to)), from, ApplyRow(FromRows(from, to), from))
      BY <2>1, FromRowsLeads, ModifiedLeads
    <2> QED BY <1>4, <2>1, <2>2, FromRowsLeads DEF DiffPair
  <1> QED BY <1>1, <1>2, <1>3, <1>4

(* A command-line entry changes a row into the row it asks for. *)
LEMMA EntryDiffMeans ==
    ASSUME NEW e \in Entry, NEW r \in Row
    PROVE  EntryDiff(e) \in RowDiff /\ ApplyRow(EntryDiff(e), r) = EntryGoal(e, r)
  <1>1. EntryDiff(e) \in RowDiff
    BY DEF EntryDiff, RowDiff, MaybeChange
  <1>2. r # NoRow
    BY NoRowAssumption
  <1>3. \A p \in Privs : ApplyChange(EntryDiff(e)[p], r[p]) = EntryGoal(e, r)[p]
    BY <1>2 DEF EntryDiff, EntryGoal, ApplyChange
  <1>4. ApplyRow(EntryDiff(e), r) = [p \in Privs |-> EntryGoal(e, r)[p]]
    BY <1>3 DEF ApplyRow
  <1> QED BY <1>1, <1>4 DEF EntryGoal

(* create_or_modify_privilege_rows: the diff made of one entry applies to the   *)
(* fetched row, or its absence, and leads to what the entry asks for.           *)
THEOREM EntryLeads ==
    ASSUME NEW from \in MaybeRow, NEW e \in Entry
    PROVE  /\ EntryGoal(e, from) \in Row
           /\ Leads(CreateOrModify(from, EntryDiff(e)), from, EntryGoal(e, from))
  <1>1. CASE from = NoRow
    <2>1. AllNo \in Row
      BY DEF AllNo, Row, YN
    <2>2. AllNo # NoRow
      BY <2>1, NoRowAssumption
    <2>3. EntryGoal(e, NoRow) = EntryGoal(e, AllNo)
      BY <2>2 DEF EntryGoal, AllNo
    <2>4. ApplyRow(EntryDiff(e), AllNo) = EntryGoal(e, NoRow)
      BY <2>1, <2>3, EntryDiffMeans
    <2>5. EntryGoal(e, NoRow) \in Row
      BY <2>1, <2>4, EntryDiffMeans, ApplyRowType
    <2> QED BY <1>1, <2>4, <2>5 DEF CreateOrModify, Leads, New, PrivilegesDiff, DiffApplies, ExecuteDiff
  <1>2. CASE from # NoRow
    <2>1. from \in Row
      BY <1>2 DEF MaybeRow
    <2>2. DEFINE d == RemoveNoops(EntryDiff(e), from)
    <2>3. /\ EntryDiff(e) \in RowDiff
          /\ ApplyRow(EntryDiff(e), from) = EntryGoal(e, from)
      BY <2>1, EntryDiffMeans
    <2>4. /\ d \in RowDiff
          /\ ApplyRow(d, from) = EntryGoal(e, from)
          /\ \A p \in Privs : d[p] # "None" => StartsFrom(d[p], from[p])
          /\ IsEmpty(d) => ApplyRow(d, from) = from
      BY <2>1, <2>3, RemoveNoopsKeepsEffect
    <2>5. Leads(ModifiedOrNoop(d), from, ApplyRow(d, from))
      <3> HIDE DEF d
      <3> QED BY <2>1, <2>4, ModifiedLeads
    <2>6. EntryGoal(e, from) \in Row
      BY <2>1, <2>3, ApplyRowType
    <2> QED BY <1>2, <2>4, <2>5, <2>6 DEF CreateOrModify
  <1> QED BY <1>1, <1>2

(* reduce_privilege_diffs on a single diff for a pair leaves it alone.          *)
THEOREM ReduceKeeps ==
    ASSUME NEW from \in MaybeRow, NEW to \in MaybeRow, NEW d, Leads(d, from, to)
    PROVE  ReduceEnd(from, ReduceStep(Noop, d)) = d
  <1>1. ReduceStep(Noop, d) = d
    BY DEF ReduceStep, Mappend, Noop, Error, CannotFollow
  <1>2. CASE d.kind = "Modified"
    <2>1. d \in [kind : {"Modified"}, diff : RowDiff]
      BY <1>2 DEF Leads, PrivilegesDiff, Noop
    <2>2. d = Modified(d.diff) /\ d.diff \in RowDiff
      BY <2>1 DEF Modified
    <2>3. from \in Row /\ \A p \in Privs : d.diff[p] # "None" => StartsFrom(d.diff[p], from[p])
      BY <1>2 DEF Leads, DiffApplies, MaybeRow
    <2>4. \A p \in Privs : RemoveNoops(d.diff, from)[p] = d.diff[p]
      BY <2>3 DEF RemoveNoops, StartsFrom
    <2>5. RemoveNoops(d.diff, from) = d.diff
      BY <2>2, <2>4, <2>3, RemoveNoopsKeepsEffect DEF RowDiff
    <2>6. ~IsEmpty(d.diff)
      BY <1>2 DEF Leads
    <2>7. from # NoRow
      BY <2>3, NoRowAssumption
    <2> QED BY <1>1, <1>2, <2>2, <2>5, <2>6, <2>7 DEF ReduceEnd, ModifiedOrNoop
  <1>3. CASE d.kind # "Modified"
    BY <1>1, <1>3 DEF ReduceEnd
  <1> QED BY <1>2, <1>3

(* Merging two row diffs is applying them one after the other. *)
LEMMA RowMappendSequential ==
    ASSUME NEW d \in RowDiff, NEW o \in RowDiff, NEW r \in Row
    PROVE  /\ ApplyRow(RowMappend(d, o), r) = ApplyRow(o, ApplyRow(d, r))
           /\ IsEmpty(RowMappend(d, o)) => ApplyRow(o, ApplyRow(d, r)) = r
  <1>1. \A p \in Privs : ApplyChange(RowMappend(d, o)[p], r[p]) = ApplyChange(o[p], ApplyRow(d, r)[p])
    BY DEF RowMappend, ApplyRow, ApplyChange, RowDiff, MaybeChange
  <1>2. ApplyRow(RowMappend(d, o), r) = ApplyRow(o, ApplyRow(d, r))
    BY <1>1 DEF ApplyRow
  <1>3. ASSUME IsEmpty(RowMappend(d, o)) PROVE ApplyRow(RowMappend(d, o), r) = r
    <2>1. \A p \in Privs : ApplyChange(RowMappend(d, o)[p], r[p]) = r[p]
      BY <1>3 DEF IsEmpty, ApplyChange
    <2> QED BY <2>1 DEF ApplyRow, Row
  <1> QED BY <1>2, <1>3

(* mappend combines two diffs in a sequential manner: wherever the first one    *)
(* applies and the merge is not refused, executing the merged diff is executing *)
(* the two in turn.  The exception is a row that is deleted and created anew:   *)
(* mappend then keeps the deletion and drops the creation.                      *)
THEOREM MappendIsSequential ==
    ASSUME NEW d \in PrivilegesDiff, NEW o \in PrivilegesDiff, NEW r \in MaybeRow,
           DiffApplies(d, r), ~CannotFollow(d, o),
           ~(d.kind = "Deleted" /\ o.kind = "New")
    PROVE  ExecuteDiff(Mappend(d, o), r) = ExecuteDiff(o, ExecuteDiff(d, r))
  <1>1. /\ d \in [kind : {"New", "Deleted"}, row : Row]
              \/ d \in [kind : {"Modified"}, diff : RowDiff] \/ d = Noop
        /\ o \in [kind : {"New", "Deleted"}, row : Row]
              \/ o \in [kind : {"Modified"}, diff : RowDiff] \/ o = Noop
    BY DEF PrivilegesDiff
  <1>2. CASE d = Noop
    BY <1>2 DEF Mappend, Noop, ExecuteDiff, CannotFollow
  <1>3. CASE o = Noop
    BY <1>1, <1>2, <1>3 DEF Mappend, Noop, ExecuteDiff, CannotFollow
  <1>4. CASE d.kind = "New" /\ o.kind = "Modified"
    <2>1. d.row \in Row /\ o.diff \in RowDiff /\ d.row # NoRow
      BY <1>1, <1>4, NoRowAssumption DEF Noop
    <2> QED BY <1>4, <2>1 DEF Mappend, New, ExecuteDiff, CannotFollow
  <1>5. CASE d.kind = "Modified" /\ o.kind = "Modified"
    <2>1. r \in Row /\ r # NoRow /\ d.diff \in RowDiff /\ o.diff \in RowDiff
      BY <1>1, <1>5, NoRowAssumption DEF Noop, DiffApplies, MaybeRow
    <2>2. ApplyRow(d.diff, r) \in Row /\ ApplyRow(d.diff, r) # NoRow
      BY <2>1, ApplyRowType, NoRowAssumption
    <2>3. ExecuteDiff(o, ExecuteDiff(d, r)) = ApplyRow(o.diff, ApplyRow(d.diff, r))
      BY <1>5, <2>1, <2>2 DEF ExecuteDiff
    <2>4. Mappend(d, o) = ModifiedOrNoop(RowMappend(d.diff, o.diff))
      BY <1>5 DEF Mappend, CannotFollow
    <2>5. CASE IsEmpty(RowMappend(d.diff, o.diff))
      BY <2>1, <2>3, <2>4, <2>5, RowMappendSequential DEF ModifiedOrNoop, Noop, ExecuteDiff
    <2>6. CASE ~IsEmpty(RowMappend(d.diff, o.diff))
      BY <2>1, <2>3, <2>4, <2>6, RowMappendSequential DEF ModifiedOrNoop, Modified, ExecuteDiff
    <2> QED BY <2>5, <2>6
  <1>6. CASE d.kind \in {"New", "Modified", "Deleted"} /\ o.kind = "Deleted"
    BY <1>6 DEF Mappend, Noop, ExecuteDiff, CannotFollow, DiffApplies
  <1> QED BY <1>1, <1>2, <1>3, <1>4, <1>5, <1>6 DEF CannotFollow

(* The client sends diffs of the type the protocol has. *)
LEMMA ReduceType ==
    ASSUME NEW from \in MaybeRow, NEW d \in PrivilegesDiff
    PROVE  ReduceEnd(from, ReduceStep(Noop, d)) \in PrivilegesDiff
  <1>1. ReduceStep(Noop, d) = d
    BY DEF ReduceStep, Mappend, Noop, Error, CannotFollow
  <1>2. CASE from # NoRow /\ d.kind = "Modified"
    <2>1. d.diff \in RowDiff /\ from \in Row
      BY <1>2 DEF PrivilegesDiff, Noop, MaybeRow
    <2>2. RemoveNoops(d.diff, from) \in RowDiff
      BY <2>1, RemoveNoopsKeepsEffect
    <2> QED BY <1>1, <1>2, <2>2 DEF ReduceEnd, ModifiedOrNoop, Modified, PrivilegesDiff
  <1>3. CASE ~(from # NoRow /\ d.kind = "Modified")
    BY <1>1, <1>3 DEF ReduceEnd
  <1> QED BY <1>2, <1>3

(* What a statement leaves for a pair is a row or none. *)
LEMMA ExecuteType ==
    ASSUME NEW row \in MaybeRow, NEW d \in PrivilegesDiff
    PROVE  ExecuteDiff(d, row) \in MaybeRow
  <1>1. CASE d.kind = "New"
    BY <1>1 DEF ExecuteDiff, PrivilegesDiff, Noop, MaybeRow
  <1>2. CASE d.kind = "Modified" /\ row # NoRow
    <2>1. d.diff \in RowDiff /\ row \in Row
      BY <1>2 DEF PrivilegesDiff, Noop, MaybeRow
    <2> QED BY <1>2, <2>1, ApplyRowType DEF ExecuteDiff, MaybeRow
  <1>3. CASE d.kind # "New" /\ ~(d.kind = "Modified" /\ row # NoRow)
    BY <1>3 DEF ExecuteDiff, MaybeRow
  <1> QED BY <1>1, <1>2, <1>3

=============================================================================
