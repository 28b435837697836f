------------------------ MODULE PrivilegeEntriesProofs ------------------------
(***************************************************************************)
(* Merging the entries of a command line, for any number of entries and any  *)
(* set of privileges.  The invariant says what the merge of the diffs that    *)
(* have been taken so far is, as a function of the set of them: reduction is   *)
(* then the same in every order.                                            *)
(***************************************************************************)
EXTENDS PrivilegeEntries, PrivilegeDiffProofs

(* The diffs that create_or_modify_privilege_rows makes. *)
AllDiffs == {CreateOrModify(from, EntryDiff(e)) : e \in ToSet(entries)} \ {Noop}

(* The change of a privilege that has the value v. *)
Flip(v) == IF v = "Y" THEN "YesToNo" ELSE "NoToYes"

(* The changes that the row diffs of S make, taken together. *)
United(S) == [p \in Privs |-> IF \E d \in S : d.diff[p] # "None" THEN Flip(from[p]) ELSE "None"]

(* What reducing the diffs of S leads to. *)
IsMerged(a, S) ==
    IF from = NoRow
    THEN \/ S = {} /\ a = Noop
         \/ S = {a}
         \/ a = Error /\ \E x, y \in S : x # y
    ELSE a = ModifiedOrNoop(United(S))

TypeInv ==
    /\ phase \in {"args", "reduce", "done"}
    /\ from \in MaybeRow
    /\ entries \in Seq(Entry)

IInv ==
    /\ TypeInv
    /\ phase = "args" => acc = Noop
    /\ phase = "reduce" => /\ entries # <<>>
                           /\ diffs \subseteq AllDiffs
                           /\ IsMerged(acc, AllDiffs \ diffs)
    /\ OrderIsIrrelevant

-----------------------------------------------------------------------------
(* The entries of the command line. *)
LEMMA EntriesAreEntries ==
    ASSUME TypeInv
    PROVE  /\ ToSet(entries) \subseteq Entry
           /\ entries # <<>> => ToSet(entries) # {}
<1>1. entries \in Seq(Entry)
  BY DEF TypeInv
<1>2. \A i \in DOMAIN entries : entries[i] \in Entry
  BY <1>1
<1>3. entries # <<>> => 1 \in DOMAIN entries
  BY <1>1
<1> QED BY <1>2, <1>3 DEF ToSet

(* For a pair without a row an entry is a new row. *)
LEMMA NewDiffs ==
    ASSUME TypeInv, from = NoRow
    PROVE  /\ AllDiffs = {New(g) : g \in Goals}
           /\ Goals \subseteq Row
<1>1. \A e \in Entry : /\ CreateOrModify(from, EntryDiff(e)) = New(ApplyRow(EntryDiff(e), AllNo))
                       /\ ApplyRow(EntryDiff(e), AllNo) = EntryGoal(e, from)
  <2>1. AllNo \in Row
    BY DEF AllNo, Row, YN
  <2>2. AllNo # NoRow
    BY <2>1, NoRowAssumption
  <2>3. \A e : EntryGoal(e, NoRow) = EntryGoal(e, AllNo)
    BY <2>2 DEF EntryGoal, AllNo
  <2> QED BY <2>1, <2>3, EntryDiffMeans DEF CreateOrModify
<1>2. \A e \in ToSet(entries) : CreateOrModify(from, EntryDiff(e)) = New(EntryGoal(e, from))
  BY <1>1, EntriesAreEntries
<1>3. \A g : New(g) # Noop
  BY DEF New, Noop
<1>4. \A e \in ToSet(entries) : EntryGoal(e, from) \in Row
  BY EntriesAreEntries, EntryLeads DEF TypeInv
<1> QED BY <1>2, <1>3, <1>4 DEF AllDiffs, Goals

(* For a pair with a row it is a modification, each change of which starts from   *)
(* the row, and it changes exactly the privileges that differ in its goal.       *)
LEMMA ModifyDiffs ==
    ASSUME TypeInv, from # NoRow
    PROVE  /\ from \in Row
           /\ \A d \in AllDiffs : /\ d = Modified(d.diff) /\ d.diff \in RowDiff /\ ~IsEmpty(d.diff)
                                  /\ \A p \in Privs : d.diff[p] \in {"None", Flip(from[p])}
           /\ \A p \in Privs : (\E d \in AllDiffs : d.diff[p] # "None") <=> (\E g \in Goals : g[p] # from[p])
<1>1. from \in Row
  BY DEF TypeInv, MaybeRow
<1> DEFINE c(e) == RemoveNoops(EntryDiff(e), from)
<1>2. \A e \in Entry : /\ CreateOrModify(from, EntryDiff(e)) = ModifiedOrNoop(c(e))
                       /\ c(e) \in RowDiff
                       /\ \A p \in Privs : c(e)[p] \in {"None", Flip(from[p])}
                       /\ \A p \in Privs : c(e)[p] # "None" <=> EntryGoal(e, from)[p] # from[p]
  <2> SUFFICES ASSUME NEW e \in Entry
               PROVE  /\ CreateOrModify(from, EntryDiff(e)) = ModifiedOrNoop(c(e))
                      /\ c(e) \in RowDiff
                      /\ \A p \in Privs : c(e)[p] \in {"None", Flip(from[p])}
                      /\ \A p \in Privs : c(e)[p] # "None" <=> EntryGoal(e, from)[p] # from[p]
    OBVIOUS
  <2>1. CreateOrModify(from, EntryDiff(e)) = ModifiedOrNoop(c(e))
    BY DEF CreateOrModify
  <2>2. c(e) \in RowDiff
    BY <1>1, EntryDiffMeans, RemoveNoopsKeepsEffect
  <2>3. \A p \in Privs : c(e)[p] = IF StartsFrom(EntryDiff(e)[p], from[p]) THEN EntryDiff(e)[p] ELSE "None"
    BY DEF RemoveNoops
  <2>4. \A p \in Privs : from[p] \in YN
    BY <1>1 DEF Row
  <2>5. \A p \in Privs : c(e)[p] \in {"None", Flip(from[p])}
    BY <2>3 DEF StartsFrom, Flip
  <2>6. \A p \in Privs : c(e)[p] # "None" <=> StartsFrom(EntryDiff(e)[p], from[p])
    BY <2>3 DEF StartsFrom
  <2>7. \A p \in Privs : StartsFrom(EntryDiff(e)[p], from[p]) <=> EntryGoal(e, from)[p] # from[p]
    BY <2>4 DEF StartsFrom, EntryDiff, EntryGoal, YN
  <2> QED BY <2>1, <2>2, <2>5, <2>6, <2>7
<1>3. \A d : Modified(d) # Noop /\ Modified(d).diff = d
  BY DEF Modified, Noop
<1> HIDE DEF c
<1>4. ASSUME NEW d \in AllDiffs
      PROVE  \E e \in ToSet(entries) : d = Modified(c(e)) /\ d.diff = c(e) /\ ~IsEmpty(c(e))
  <2>1. PICK e \in ToSet(entries) : d = ModifiedOrNoop(c(e)) /\ d # Noop
    BY <1>2, EntriesAreEntries DEF AllDiffs
  <2> QED BY <1>3, <2>1 DEF ModifiedOrNoop
<1>5. ASSUME NEW e \in ToSet(entries), ~IsEmpty(c(e))
      PROVE  Modified(c(e)) \in AllDiffs
  BY <1>2, <1>3, <1>5, EntriesAreEntries DEF AllDiffs, ModifiedOrNoop
<1>6. \A d \in AllDiffs : /\ d = Modified(d.diff) /\ d.diff \in RowDiff /\ ~IsEmpty(d.diff)
                          /\ \A p \in Privs : d.diff[p] \in {"None", Flip(from[p])}
  BY <1>2, <1>4, EntriesAreEntries
<1>7. ASSUME NEW p \in Privs, NEW d \in AllDiffs, d.diff[p] # "None"
      PROVE  \E g \in Goals : g[p] # from[p]
  <2>1. PICK e \in ToSet(entries) : d.diff = c(e)
    BY <1>4
  <2>2. EntryGoal(e, from)[p] # from[p]
    BY <1>2, <1>7, <2>1, EntriesAreEntries
  <2> QED BY <2>2 DEF Goals
<1>8. ASSUME NEW p \in Privs, NEW g \in Goals, g[p] # from[p]
      PROVE  \E d \in AllDiffs : d.diff[p] # "None"
  <2>1. PICK e \in ToSet(entries) : g = EntryGoal(e, from)
    BY DEF Goals
  <2>2. c(e)[p] # "None"
    BY <1>2, <1>8, <2>1, EntriesAreEntries
  <2>3. Modified(c(e)) \in AllDiffs
    BY <1>5, <2>2 DEF IsEmpty
  <2> QED BY <1>3, <2>2, <2>3
<1> QED BY <1>1, <1>6, <1>7, <1>8

-----------------------------------------------------------------------------
LEMMA InitIInv == Init => IInv
BY DEF Init, IInv, TypeInv, OrderIsIrrelevant

(* Nothing is merged when the diffs have been made. *)
LEMMA MakeDiffsIInv ==
    ASSUME IInv, MakeDiffs
    PROVE  IInv'
<1>1. TypeInv' /\ phase' = "reduce" /\ entries' # <<>> /\ acc' = Noop /\ UNCHANGED <<from, entries>>
  BY DEF IInv, TypeInv, MakeDiffs
<1>2. diffs' = AllDiffs'
  BY DEF MakeDiffs, AllDiffs
<1>3. IsMerged(Noop, {})
  <2>1. CASE from = NoRow
    BY <2>1 DEF IsMerged
  <2>2. CASE from # NoRow
    <3>1. IsEmpty(United({}))
      BY DEF IsEmpty, United
    <3> QED BY <2>2, <3>1 DEF IsMerged, ModifiedOrNoop
  <2> QED BY <2>1, <2>2
<1>4. IsMerged(acc, AllDiffs \ diffs)'
  <2>1. (AllDiffs \ diffs)' = {}
    BY <1>2
  <2> QED BY <1>1, <1>3, <2>1 DEF IsMerged, United
<1> QED BY <1>1, <1>2, <1>4 DEF IInv, OrderIsIrrelevant

(* One more diff is merged, as if it had been among the others. *)
LEMMA MergeNew ==
    ASSUME TypeInv, from = NoRow, NEW S \in SUBSET AllDiffs, NEW d \in AllDiffs \ S, NEW a, IsMerged(a, S)
    PROVE  IsMerged(ReduceStep(a, d), S \cup {d})
<1>1. \A x \in AllDiffs : x.kind = "New" /\ x # Error
  BY NewDiffs DEF New, Error
<1>2. CASE S = {} /\ a = Noop
  <2>1. ReduceStep(a, d) = d
    BY <1>2 DEF ReduceStep, Mappend, CannotFollow, Noop, Error
  <2> QED BY <1>2, <2>1 DEF IsMerged
<1>3. CASE S = {a}
  <2>1. ReduceStep(a, d) = Error
    BY <1>1, <1>3 DEF ReduceStep, Mappend, CannotFollow
  <2>2. a \in S \cup {d} /\ d \in S \cup {d} /\ a # d
    BY <1>3
  <2> QED BY <2>1, <2>2 DEF IsMerged
<1>4. CASE a = Error /\ \E x, y \in S : x # y
  BY <1>4 DEF IsMerged, ReduceStep
<1> QED BY <1>2, <1>3, <1>4 DEF IsMerged

(* Merging one more diff of an existing row. *)
LEMMA MergeModified ==
    ASSUME TypeInv, from # NoRow, NEW S \in SUBSET AllDiffs, NEW d \in AllDiffs \ S, NEW a, IsMerged(a, S)
    PROVE  IsMerged(ReduceStep(a, d), S \cup {d})
<1>1. /\ d = Modified(d.diff) /\ d.kind = "Modified" /\ d.diff \in RowDiff /\ ~IsEmpty(d.diff)
      /\ \A p \in Privs : d.diff[p] \in {"None", Flip(from[p])}
  BY ModifyDiffs DEF Modified
<1>2. a = ModifiedOrNoop(United(S))
  BY DEF IsMerged
<1>3. United(S \cup {d}) = RowMappend(United(S), d.diff)
  <2>1. \A p \in Privs : United(S \cup {d})[p] = RowMappend(United(S), d.diff)[p]
    BY <1>1 DEF United, RowMappend
  <2> QED BY <2>1 DEF United, RowMappend
<1>4. ~IsEmpty(United(S \cup {d}))
  BY <1>1, <1>3 DEF IsEmpty, RowMappend
<1>5. CASE IsEmpty(United(S))
  <2>1. ReduceStep(a, d) = d
    BY <1>2, <1>5 DEF ModifiedOrNoop, ReduceStep, Mappend, CannotFollow, Noop, Error
  <2>2. RowMappend(United(S), d.diff) = d.diff
    <3>1. \A p \in Privs : RowMappend(United(S), d.diff)[p] = d.diff[p]
      BY <1>5 DEF IsEmpty, RowMappend
    <3> QED BY <1>1, <3>1 DEF RowMappend, RowDiff
  <2> QED BY <1>1, <1>3, <1>4, <2>1, <2>2 DEF IsMerged, ModifiedOrNoop
<1>6. CASE ~IsEmpty(United(S))
  <2>1. a = Modified(United(S)) /\ a.kind = "Modified" /\ a.diff = United(S) /\ a # Error
    BY <1>2, <1>6 DEF ModifiedOrNoop, Modified, Error
  <2>2. ReduceStep(a, d) = ModifiedOrNoop(RowMappend(a.diff, d.diff))
    BY <1>1, <2>1 DEF ReduceStep, Mappend, CannotFollow
  <2> QED BY <1>3, <2>1, <2>2 DEF IsMerged
<1> QED BY <1>5, <1>6

(* One round of the loop of reduce_privilege_diffs. *)
LEMMA MergeDiffIInv ==
    ASSUME IInv, NEW d \in diffs, MergeDiff(d)
    PROVE  IInv'
<1>1. /\ phase = "reduce" /\ diffs' = diffs \ {d} /\ acc' = ReduceStep(acc, d)
      /\ UNCHANGED <<phase, from, entries>>
  BY DEF MergeDiff
<1>2. TypeInv /\ TypeInv' /\ entries # <<>> /\ diffs \subseteq AllDiffs /\ IsMerged(acc, AllDiffs \ diffs)
  BY <1>1 DEF IInv, TypeInv
<1> DEFINE S == AllDiffs \ diffs
<1>3. S \in SUBSET AllDiffs /\ d \in AllDiffs \ S
  BY <1>2
<1>4. IsMerged(ReduceStep(acc, d), S \cup {d})
  <2> HIDE DEF S
  <2>1. IsMerged(acc, S)
    BY <1>2 DEF S
  <2> QED BY <1>2, <1>3, <2>1, MergeNew, MergeModified
<1>5. AllDiffs' = AllDiffs
  BY <1>1 DEF AllDiffs
<1>6. (AllDiffs \ diffs)' = S \cup {d}
  BY <1>1, <1>2, <1>5
<1>7. IsMerged(acc, AllDiffs \ diffs)'
  BY <1>1, <1>4, <1>6 DEF IsMerged, United
<1> QED BY <1>1, <1>2, <1>5, <1>7 DEF IInv, OrderIsIrrelevant

(* The merge of all diffs is the outcome that the entries ask for. *)
LEMMA MergedIsOutcome ==
    ASSUME TypeInv, entries # <<>>, NEW a, IsMerged(a, AllDiffs)
    PROVE  ReduceEnd(from, a) = Outcome
<1>1. CASE from = NoRow
  <2>1. AllDiffs = {New(g) : g \in Goals} /\ Goals # {}
    BY <1>1, NewDiffs, EntriesAreEntries DEF Goals
  <2>2. \A g, h : New(g) = New(h) => g = h
    BY DEF New
  <2>3. ReduceEnd(from, a) = a
    BY <1>1 DEF ReduceEnd
  <2>4. CASE AllDiffs = {a}
    <3>1. PICK g \in Goals : a = New(g)
      BY <2>1, <2>4
    <3>2. Goals = {g}
      BY <2>1, <2>2, <2>4, <3>1
    <3> QED BY <1>1, <2>3, <3>1, <3>2 DEF Outcome
  <2>5. CASE a = Error /\ \E x, y \in AllDiffs : x # y
    <3>1. ~\E g \in Goals : Goals = {g}
      BY <2>1, <2>5
    <3> QED BY <1>1, <2>3, <2>5, <3>1 DEF Outcome
  <2> QED BY <1>1, <2>1, <2>4, <2>5 DEF IsMerged
<1>2. CASE from # NoRow
  <2>1. /\ from \in Row
        /\ \A p \in Privs : (\E d \in AllDiffs : d.diff[p] # "None") <=> (\E g \in Goals : g[p] # from[p])
    BY <1>2, ModifyDiffs
  <2>2. \A p \in Privs : ChangeNew(from[p], IF from[p] = "Y" THEN "N" ELSE "Y") = Flip(from[p])
    BY <2>1 DEF ChangeNew, Flip, Row, YN
  <2>3. Outcome = ModifiedOrNoop(United(AllDiffs))
    <3>1. United(AllDiffs) = [p \in Privs |->
             IF \E g \in Goals : g[p] # from[p] THEN ChangeNew(from[p], IF from[p] = "Y" THEN "N" ELSE "Y")
             ELSE "None"]
      BY <2>1, <2>2 DEF United
    <3> QED BY <1>2, <3>1 DEF Outcome
  <2>4. RemoveNoops(United(AllDiffs), from) = United(AllDiffs)
    <3>1. \A p \in Privs : StartsFrom(Flip(from[p]), from[p])
      BY <2>1 DEF StartsFrom, Flip, Row, YN
    <3>2. \A p \in Privs : RemoveNoops(United(AllDiffs), from)[p] = United(AllDiffs)[p]
      BY <3>1 DEF RemoveNoops, United
    <3> QED BY <3>2 DEF RemoveNoops, United
  <2>5. a = ModifiedOrNoop(United(AllDiffs))
    BY <1>2 DEF IsMerged
  <2>6. CASE IsEmpty(United(AllDiffs))
    BY <2>3, <2>5, <2>6 DEF ModifiedOrNoop, ReduceEnd, Noop
  <2>7. CASE ~IsEmpty(United(AllDiffs))
    <3>1. a.kind = "Modified" /\ a.diff = United(AllDiffs)
      BY <2>5, <2>7 DEF ModifiedOrNoop, Modified
    <3> QED BY <1>2, <2>3, <2>4, <3>1 DEF ReduceEnd
  <2> QED BY <2>6, <2>7
<1> QED BY <1>1, <1>2

(* Its end, where diffs without effect are removed. *)
LEMMA FinishReduceIInv ==
    ASSUME IInv, FinishReduce
    PROVE  IInv'
<1>1. /\ phase = "reduce" /\ diffs = {} /\ acc' = ReduceEnd(from, acc) /\ phase' = "done"
      /\ UNCHANGED <<from, entries, diffs>>
  BY DEF FinishReduce
<1>2. TypeInv /\ TypeInv' /\ entries # <<>> /\ IsMerged(acc, AllDiffs \ diffs)
  BY <1>1 DEF IInv, TypeInv
<1>3. AllDiffs \ diffs = AllDiffs
  BY <1>1
<1>4. acc' = Outcome
  BY <1>1, <1>2, <1>3, MergedIsOutcome
<1>5. Outcome' = Outcome
  BY <1>1 DEF Outcome, Goals
<1> QED BY <1>1, <1>2, <1>4, <1>5 DEF IInv, OrderIsIrrelevant

LEMMA NextIInv == IInv /\ [Next]_vars => IInv'
<1> SUFFICES ASSUME IInv, [Next]_vars
             PROVE  IInv'
  OBVIOUS
<1>1. ASSUME NEW e \in Entry, ParseEntry(e)
      PROVE  IInv'
  <2>1. phase = "args" /\ entries' = Append(entries, e) /\ UNCHANGED <<phase, from, diffs, acc>>
    BY <1>1 DEF ParseEntry
  <2>2. entries' \in Seq(Entry)
    BY <2>1 DEF IInv, TypeInv
  <2> QED BY <2>1, <2>2 DEF IInv, TypeInv, OrderIsIrrelevant
<1>2. CASE UNCHANGED vars
  <2>1. Outcome' = Outcome /\ AllDiffs' = AllDiffs
    BY <1>2 DEF vars, Outcome, Goals, AllDiffs
  <2>2. IsMerged(acc, AllDiffs \ diffs) => IsMerged(acc, AllDiffs \ diffs)'
    BY <1>2, <2>1 DEF vars, IsMerged, United
  <2> QED BY <1>2, <2>1, <2>2 DEF vars, IInv, TypeInv, OrderIsIrrelevant
<1> QED BY <1>1, <1>2, MakeDiffsIInv, MergeDiffIInv, FinishReduceIInv DEF Next

LEMMA Invariant == Spec => []IInv
BY InitIInv, NextIInv, PTL DEF Spec

-----------------------------------------------------------------------------
(* reduce_privilege_diffs leads to the same diff in whatever order it meets the    *)
(* diffs of a pair, and that diff is what the entries together ask for.            *)
THEOREM OrderDoesNotMatter == Spec => []OrderIsIrrelevant
<1>1. IInv => OrderIsIrrelevant
  BY DEF IInv
<1> QED BY <1>1, Invariant, PTL

(* Unless reduce_privilege_diffs fails, the merged diff passes the server's          *)
(* validate_diff on the row the client fetched.                                     *)
THEOREM MergedApplies == Spec => []MergedDiffApplies
<1>1. IInv => MergedDiffApplies
  <2> SUFFICES ASSUME IInv, phase = "done", acc # Error
               PROVE  DiffApplies(acc, from)
    BY DEF MergedDiffApplies
  <2>1. acc = Outcome /\ TypeInv
    BY DEF IInv, OrderIsIrrelevant
  <2>2. CASE from = NoRow
    BY <2>1, <2>2 DEF Outcome, New, DiffApplies
  <2>3. CASE from # NoRow
    <3>1. from \in Row
      BY <2>1, <2>3 DEF TypeInv, MaybeRow
    <3> DEFINE d == [p \in Privs |->
             IF \E g \in Goals : g[p] # from[p] THEN ChangeNew(from[p], IF from[p] = "Y" THEN "N" ELSE "Y")
             ELSE "None"]
    <3>2. acc = ModifiedOrNoop(d)
      BY <2>1, <2>3 DEF Outcome
    <3>3. \A p \in Privs : d[p] # "None" => StartsFrom(d[p], from[p])
      BY <3>1 DEF ChangeNew, StartsFrom, Row, YN
    <3> HIDE DEF d
    <3> QED BY <2>3, <3>2, <3>3 DEF ModifiedOrNoop, Modified, Noop, DiffApplies
  <2> QED BY <2>2, <2>3
<1> QED BY <1>1, Invariant, PTL
=============================================================================
