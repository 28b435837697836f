-------------------------- MODULE PrivilegeEditProofs -------------------------
(***************************************************************************)
(* Proofs about concurrent privilege edits, for any number of clients,      *)
(* databases, users and privileges.                                        *)
(***************************************************************************)
EXTENDS PrivilegeEdit, PrivilegeDiffProofs

-----------------------------------------------------------------------------
(* Type correctness. *)

LEMMA EditTypeInit == Init => TypeOK
  BY ChurnAssumption, InputsAssumption
     DEF Init, TypeOK, Rows, NoRows, NoPlan, MaybeRow, PrivilegesDiff, Noop, ClientPCs, Results

(* The rows of some databases are rows. *)
LEMMA RowsOfType ==
    ASSUME TypeOK, NEW ds
    PROVE  /\ RowsOf(ds) \in Rows
           /\ \A k \in Pairs : RowsOf(ds)[k] = IF k[1] \in ds THEN table[k] ELSE NoRow
  BY DEF TypeOK, RowsOf, Rows, MaybeRow

(* The client's own steps keep every variable in its type.                     *)
LEMMA ClientTypeStep ==
    ASSUME TypeOK, NEW c \in Clients, Client(c)
    PROVE  TypeOK'
  <1> USE DEF TypeOK, Goto, Set, world, store, fetched, client, request, ClientPCs, EditorPCs, ServerPCs, EndPCs
  <1>1. CASE FetchAll(c)
    <2>1. PICK rows \in Rows : seen' = Set(seen, c, rows)
      BY <1>1, RowsOfType DEF FetchAll
    <2> QED BY <1>1, <2>1, NamesAssumption DEF FetchAll
  <1>10. ASSUME NEW d \in Dbs, UseDatabase(c, d) PROVE TypeOK'
    <2>1. known' = known \/ known' = [known EXCEPT ![c] = {d}]
      BY <1>10 DEF UseDatabase
    <2>2. {d} \in SUBSET Dbs /\ known \in [Clients -> SUBSET Dbs]
      OBVIOUS
    <2>3. known' \in [Clients -> SUBSET Dbs]
      <3> HIDE DEF TypeOK
      <3> QED BY <2>1, <2>2
    <2> QED BY <1>10, <2>3 DEF UseDatabase
  <1>11. CASE GetDatabasePrivileges(c)
    <2>1. \/ seen' = seen
          \/ \E rows \in Rows : seen' = Set(seen, c, rows)
      BY <1>11, RowsOfType DEF GetDatabasePrivileges
    <2>2. seen' \in [Clients -> Rows]
      BY <2>1
    <2>3. known' \in [Clients -> SUBSET Dbs]
      BY <1>11 DEF GetDatabasePrivileges
    <2> QED BY <1>11, <2>2, <2>3 DEF GetDatabasePrivileges
  <1>2. ASSUME NEW ds \in SUBSET Dbs, EditorDatabasesExist(c, ds) PROVE TypeOK'
    BY <1>2 DEF EditorDatabasesExist, Changed
  <1>3. ASSUME NEW us \in SUBSET Users, EditorUsersExist(c, us) PROVE TypeOK'
    <2> DEFINE rows(errors) == [k \in Pairs |-> IF k \in errors THEN seen[c][k] ELSE want[c][k]]
               found == {k \in bad[c] \cup {k \in Changed(c) : k[2] \in us} : want[c][k] # NoRow}
    <2>1. \A errors : rows(errors) \in Rows
      BY DEF Rows
    <2>2. \A errors : [k \in Pairs |-> DiffPair(seen[c][k], rows(errors)[k])] \in [Pairs -> PrivilegesDiff]
      <3>1. SUFFICES ASSUME NEW errors, NEW k \in Pairs
                     PROVE  DiffPair(seen[c][k], rows(errors)[k]) \in PrivilegesDiff
        OBVIOUS
      <3>2. seen[c][k] \in MaybeRow /\ rows(errors)[k] \in MaybeRow
        BY DEF Rows
      <3> QED BY <3>2, DiffPairLeads DEF Leads
    <2>3. /\ UNCHANGED <<world, store, fetched, request, touched>>
          /\ bad' = [bad EXCEPT ![c] = {}]
          /\ \/ pc' = [pc EXCEPT ![c] = "editor"] /\ UNCHANGED <<want, plan>>
             \/ /\ pc' = [pc EXCEPT ![c] = "planned"]
                /\ want' = [want EXCEPT ![c] = rows(found)]
                /\ plan' = [plan EXCEPT ![c] = [k \in Pairs |-> DiffPair(seen[c][k], rows(found)[k])]]
      BY <1>3 DEF EditorUsersExist
    <2>4. CASE pc' = [pc EXCEPT ![c] = "editor"] /\ UNCHANGED <<want, plan>>
      BY <2>3, <2>4
    <2>5. CASE /\ pc' = [pc EXCEPT ![c] = "planned"]
               /\ want' = [want EXCEPT ![c] = rows(found)]
               /\ plan' = [plan EXCEPT ![c] = [k \in Pairs |-> DiffPair(seen[c][k], rows(found)[k])]]
      <3> DEFINE w == rows(found)
                 d == [k \in Pairs |-> DiffPair(seen[c][k], rows(found)[k])]
      <3>1. w \in Rows /\ d \in [Pairs -> PrivilegesDiff]
        BY <2>1, <2>2
      <3>2. want' = [want EXCEPT ![c] = w] /\ plan' = [plan EXCEPT ![c] = d]
        BY <2>5
      <3>3. /\ UNCHANGED <<world, store, fetched, request, touched>>
            /\ bad' = [bad EXCEPT ![c] = {}]
            /\ pc' = [pc EXCEPT ![c] = "planned"]
        BY <2>3, <2>5
      <3> HIDE DEF w, d
      <3> QED BY <3>1, <3>2, <3>3
    <2> QED BY <2>3, <2>4, <2>5
  <1>4. ASSUME NEW ds \in SUBSET Dbs, DatabasesExist(c, ds) PROVE TypeOK'
    BY <1>4 DEF DatabasesExist
  <1>5. ASSUME NEW us \in SUBSET Users, UsersExist(c, us) PROVE TypeOK'
    BY <1>5 DEF UsersExist
  <1>6. CASE Submit(c)
    <2> DEFINE diffs == [k \in Pairs |-> IF k \in bad[c] THEN Noop
                             ELSE ReduceEnd(seen[c][k], ReduceStep(Noop, plan[c][k]))]
    <2>1. diffs \in [Pairs -> PrivilegesDiff]
      <3>1. \A k \in Pairs : seen[c][k] \in MaybeRow /\ plan[c][k] \in PrivilegesDiff
        BY DEF Rows
      <3>2. Noop \in PrivilegesDiff
        BY DEF PrivilegesDiff
      <3> QED BY <3>1, <3>2, ReduceType
    <2> HIDE DEF diffs
    <2>2. /\ plan' = [plan EXCEPT ![c] = diffs]
          /\ todo' = [todo EXCEPT ![c] = {k \in Pairs : diffs[k] # Noop}]
          /\ pc' = [pc EXCEPT ![c] = "next"]
          /\ bad' = [bad EXCEPT ![c] = {}]
          /\ UNCHANGED <<world, store, fetched, want, cur, result, touched>>
      BY <1>6 DEF Submit, diffs
    <2> QED BY <2>1, <2>2
  <1>7. CASE Quit(c)
    <2>1. NoRows \in Rows /\ NoPlan \in [Pairs -> PrivilegesDiff]
      BY DEF NoRows, NoPlan, Rows, MaybeRow, PrivilegesDiff
    <2> QED BY <1>7, <2>1 DEF Quit
  <1>8. ASSUME NEW entry \in Entries[c], EditByEntries(c, entry) PROVE TypeOK'
    <2> DEFINE ks == DOMAIN entry
    <2>0. ks \subseteq Pairs /\ entry \in [ks -> Entry]
      BY InputsAssumption
    <2>1. \A k \in ks : /\ CreateOrModify(seen[c][k], EntryDiff(entry[k])) \in PrivilegesDiff
                        /\ EntryGoal(entry[k], seen[c][k]) \in MaybeRow
      <3>1. \A k \in ks : seen[c][k] \in MaybeRow /\ entry[k] \in Entry
        BY <2>0 DEF Rows
      <3> QED BY <3>1, EntryLeads DEF Leads, MaybeRow
    <2>2. [k \in Pairs |-> IF k \in ks THEN CreateOrModify(seen[c][k], EntryDiff(entry[k])) ELSE Noop]
              \in [Pairs -> PrivilegesDiff]
      BY <2>1 DEF PrivilegesDiff
    <2>3. [k \in Pairs |-> IF k \in ks THEN EntryGoal(entry[k], seen[c][k]) ELSE seen[c][k]] \in Rows
      BY <2>1 DEF Rows
    <2> QED BY <1>8, <2>2, <2>3 DEF EditByEntries
  <1>9. ASSUME NEW to \in Wishes[c], EditInEditor(c, to) PROVE TypeOK'
    <2>1. to \in Rows
      BY InputsAssumption
    <2> QED BY <1>9, <2>1 DEF EditInEditor
  <1> QED BY <1>1, <1>2, <1>3, <1>4, <1>5, <1>6, <1>7, <1>8, <1>9, <1>10, <1>11 DEF Client

(* The variables an outcome changes keep their types. *)
LEMMA AnswerType ==
    ASSUME TypeOK, NEW c \in Clients, NEW k \in Pairs, NEW r \in Results, Answer(c, k, r)
    PROVE  /\ result' \in [Clients -> [Pairs -> Results]]
           /\ todo' \in [Clients -> SUBSET Pairs]
           /\ cur' \in [Clients -> SUBSET Pairs]
           /\ pc' \in [Clients -> ClientPCs \cup ServerPCs \cup EndPCs]
  BY DEF TypeOK, Answer, Goto, Set, ServerPCs

(* So do the server's steps. *)
LEMMA ServerTypeStep ==
    ASSUME TypeOK, NEW c \in Clients, Server(c)
    PROVE  TypeOK'
  <1> USE DEF TypeOK, Goto, Set, world, store, fetched, client, request, ClientPCs, EditorPCs, ServerPCs,
              EndPCs
  <1>0. {"missing", "sql_error", "does_not_apply", "ok"} \subseteq Results
    BY DEF Results
  <1>1. CASE ServerFlush(c)
    BY <1>1 DEF ServerFlush
  <1>2. CASE ServerAborted(c)
    BY <1>2 DEF ServerAborted
  <1>3. ASSUME NEW k \in Pairs, ServerDatabaseExists(c, k) PROVE TypeOK'
    <2>1. ASSUME NEW r \in Results, Answer(c, k, r) PROVE TypeOK'
      BY <1>3, <2>1, AnswerType DEF ServerDatabaseExists
    <2>2. CASE cur' = [cur EXCEPT ![c] = {k}] /\ Goto(c, "user") /\ UNCHANGED <<todo, result>>
      BY <1>3, <2>2 DEF ServerDatabaseExists
    <2> QED BY <1>0, <1>3, <2>1, <2>2 DEF ServerDatabaseExists
  <1>4. ASSUME NEW k \in Pairs, ServerUserExists(c, k) PROVE TypeOK'
    <2>1. ASSUME NEW r \in Results, Answer(c, k, r) PROVE TypeOK'
      BY <1>4, <2>1, AnswerType DEF ServerUserExists
    <2> QED BY <1>0, <1>4, <2>1 DEF ServerUserExists
  <1>5. ASSUME NEW k \in Pairs, ServerValidate(c, k) PROVE TypeOK'
    <2>1. ASSUME NEW r \in Results, Answer(c, k, r) PROVE TypeOK'
      BY <1>5, <2>1, AnswerType DEF ServerValidate
    <2> QED BY <1>0, <1>5, <2>1 DEF ServerValidate
  <1>6. ASSUME NEW k \in Pairs, ServerApply(c, k) PROVE TypeOK'
    <2>1. ExecuteDiff(plan[c][k], table[k]) \in MaybeRow
      BY ExecuteType DEF Rows
    <2>2. UNCHANGED <<dbs, users, churn, grants, seen, known, want, plan, bad>>
      BY <1>6 DEF ServerApply
    <2>3. CASE Answer(c, k, "sql_error") /\ UNCHANGED <<table, dirty, touched>>
      BY <1>0, <2>2, <2>3, AnswerType
    <2>4. CASE /\ table' = [table EXCEPT ![k] = ExecuteDiff(plan[c][k], table[k])]
               /\ dirty' = dirty \cup {c}
               /\ Touch(IF table'[k] = table[k] THEN {} ELSE {k}, {c})
               /\ Answer(c, k, "ok")
      <3>1. table' \in Rows /\ dirty' \in SUBSET Clients
        BY <2>1, <2>4 DEF Rows
      <3>2. PICK ks \in SUBSET Pairs : Touch(ks, {c})
        BY <2>4
      <3>3. touched' \in [Clients -> SUBSET Pairs]
        BY <3>2 DEF Touch
      <3> QED BY <1>0, <2>2, <2>4, <3>1, <3>3, AnswerType
    <2> QED BY <1>6, <2>3, <2>4 DEF ServerApply
  <1> QED BY <1>1, <1>2, <1>3, <1>4, <1>5, <1>6 DEF Server

(* And those of the other sessions. *)
LEMMA OthersTypeStep ==
    ASSUME TypeOK, Others
    PROVE  TypeOK'
  <1> USE ChurnAssumption DEF TypeOK, world, store, fetched, client, request, Churn, Touch
  <1>1. ASSUME NEW d \in Dbs, CreateDatabase(d) PROVE TypeOK'
    BY <1>1 DEF CreateDatabase
  <1>2. ASSUME NEW d \in Dbs, DropDatabase(d) PROVE TypeOK'
    BY <1>2 DEF DropDatabase
  <1>3. ASSUME NEW u \in Users, CreateUser(u) PROVE TypeOK'
    BY <1>3 DEF CreateUser
  <1>4. ASSUME NEW u \in Users, DropUser(u) PROVE TypeOK'
    BY <1>4 DEF DropUser, Rows, MaybeRow
  <1> QED BY <1>1, <1>2, <1>3, <1>4 DEF Others

(* Every variable keeps to its type: the diffs sent are well formed and the     *)
(* table holds rows of Y and N.                                                 *)
THEOREM EditTypeCorrect == Spec => []TypeOK
  <1>1. TypeOK /\ [Next]_vars => TypeOK'
    <2>1. CASE UNCHANGED vars
      BY <2>1 DEF vars, TypeOK, world, store, fetched, client, request
    <2> QED BY <2>1, ClientTypeStep, ServerTypeStep, OthersTypeStep DEF Next
  <1> QED BY <1>1, EditTypeInit, PTL DEF Spec

-----------------------------------------------------------------------------
(* What holds of one client and its request. *)

(* The response has an outcome for exactly the diffs that were sent and dealt   *)
(* with.                                                                        *)
RequestInv(c) ==
    /\ pc[c] \in ClientPCs \cup {"quit"} =>
           todo[c] = {} /\ cur[c] = {} /\ \A k \in Pairs : result[c][k] = "none"
    /\ pc[c] \in ServerPCs \cup {"done", "unflushed", "aborted"} =>
           \A k \in Pairs : result[c][k] = "none" <=> plan[c][k] = Noop \/ k \in todo[c]
    /\ \A k \in todo[c] : plan[c][k] # Noop
    /\ cur[c] \subseteq todo[c]
    /\ \A k1, k2 \in cur[c] : k1 = k2
    /\ pc[c] \in {"done", "unflushed"} => todo[c] = {}

(* The diffs lead from what the client fetched to what its user wants. *)
PlanInv(c) ==
    /\ pc[c] \in {"planned", "dbs_checked", "reduce"} =>
           \A k \in Pairs : Leads(plan[c][k], seen[c][k], want[c][k])
    /\ \A k \in todo[c] : Leads(plan[c][k], seen[c][k], want[c][k])

LocalInv == \A c \in Clients : RequestInv(c) /\ PlanInv(c)

(* A client's step, and its session's, changes nothing of another client but    *)
(* what has been touched under it.                                              *)
LEMMA Frame ==
    ASSUME TypeOK, NEW c \in Clients, Client(c) \/ Server(c), NEW o \in Clients, o # c
    PROVE  /\ pc'[o] = pc[o] /\ seen'[o] = seen[o] /\ known'[o] = known[o]
           /\ want'[o] = want[o] /\ plan'[o] = plan[o]
           /\ todo'[o] = todo[o] /\ cur'[o] = cur[o] /\ result'[o] = result[o]
  <1> USE DEF TypeOK, Goto, Set, world, store, fetched, client, request
  <1>1. CASE FetchAll(c)  BY <1>1 DEF FetchAll
  <1>2. CASE \E ds \in SUBSET Dbs : EditorDatabasesExist(c, ds)  BY <1>2 DEF EditorDatabasesExist
  <1>3. CASE \E us \in SUBSET Users : EditorUsersExist(c, us)  BY <1>3 DEF EditorUsersExist
  <1>4. CASE \E ds \in SUBSET Dbs : DatabasesExist(c, ds)  BY <1>4 DEF DatabasesExist
  <1>5. CASE \E us \in SUBSET Users : UsersExist(c, us)  BY <1>5 DEF UsersExist
  <1>6. CASE Submit(c)  BY <1>6 DEF Submit
  <1>7. CASE Quit(c)  BY <1>7 DEF Quit
  <1>8. CASE \E entry \in Entries[c] : EditByEntries(c, entry)
    BY <1>8 DEF EditByEntries
  <1>9. CASE \E to \in Wishes[c] : EditInEditor(c, to)
    BY <1>9 DEF EditInEditor
  <1>16. CASE \E d \in Dbs : UseDatabase(c, d)  BY <1>16 DEF UseDatabase
  <1>17. CASE GetDatabasePrivileges(c)  BY <1>17 DEF GetDatabasePrivileges
  <1>10. CASE ServerFlush(c)  BY <1>10 DEF ServerFlush
  <1>11. CASE ServerAborted(c)  BY <1>11 DEF ServerAborted
  <1>12. CASE \E k \in Pairs : ServerDatabaseExists(c, k)
    BY <1>12 DEF ServerDatabaseExists, Answer
  <1>13. CASE \E k \in Pairs : ServerUserExists(c, k)
    BY <1>13 DEF ServerUserExists, Answer
  <1>14. CASE \E k \in Pairs : ServerValidate(c, k)
    BY <1>14 DEF ServerValidate, Answer
  <1>15. CASE \E k \in Pairs : ServerApply(c, k)
    BY <1>15 DEF ServerApply, Answer
  <1> QED BY <1>1, <1>2, <1>3, <1>4, <1>5, <1>6, <1>7, <1>8, <1>9, <1>10, <1>11, <1>12, <1>13, <1>14,
             <1>15, <1>16, <1>17 DEF Client, Server

(* The client's own steps. *)
LEMMA ClientLocalStep ==
    ASSUME TypeOK, TypeOK', NEW c \in Clients, Client(c), RequestInv(c), PlanInv(c)
    PROVE  RequestInv(c)' /\ PlanInv(c)'
  <1> USE DEF Goto, Set, world, store, fetched, client, request, ClientPCs, EditorPCs, ServerPCs, RequestInv, PlanInv
  <1>1. CASE FetchAll(c)
    BY <1>1 DEF FetchAll, TypeOK
  <1>10. ASSUME NEW d \in Dbs, UseDatabase(c, d) PROVE RequestInv(c)' /\ PlanInv(c)'
    BY <1>10 DEF UseDatabase, TypeOK
  <1>11. CASE GetDatabasePrivileges(c)
    BY <1>11 DEF GetDatabasePrivileges, TypeOK
  <1>2. ASSUME NEW ds \in SUBSET Dbs, EditorDatabasesExist(c, ds) PROVE RequestInv(c)' /\ PlanInv(c)'
    BY <1>2 DEF EditorDatabasesExist, TypeOK
  <1>3. ASSUME NEW us \in SUBSET Users, EditorUsersExist(c, us) PROVE RequestInv(c)' /\ PlanInv(c)'
    <2>1. /\ pc[c] = "editor_users" /\ pc'[c] \in {"editor", "planned"}
          /\ UNCHANGED <<seen, todo, cur, result>>
      BY <1>3 DEF EditorUsersExist, TypeOK
    <2>2. ASSUME pc'[c] = "planned", NEW k \in Pairs
          PROVE  plan'[c][k] = DiffPair(seen[c][k], want'[c][k])
      <3> DEFINE Made(rows) == /\ want' = Set(want, c, rows)
                               /\ plan' = Set(plan, c, [o \in Pairs |-> DiffPair(seen[c][o], rows[o])])
                 wrong  == bad[c] \cup {o \in Changed(c) : o[2] \in us}
                 errors == {o \in wrong : want[c][o] # NoRow}
                 kept   == [o \in Pairs |-> IF o \in errors THEN seen[c][o] ELSE want[c][o]]
      <3>1. pc' # [pc EXCEPT ![c] = "editor"]
        BY <2>2 DEF TypeOK
      <3>2. pc' = [pc EXCEPT ![c] = "editor"] \/ Made(kept)
        BY <1>3, Zenon DEF EditorUsersExist
      <3>3. PICK rows : Made(rows)
        <4> HIDE DEF Made, kept
        <4> QED BY <3>1, <3>2
      <3>4. want'[c] = rows /\ plan'[c] = [o \in Pairs |-> DiffPair(seen[c][o], rows[o])]
        BY <3>3 DEF TypeOK
      <3> QED BY <2>2, <3>4
    <2>3. \A k \in Pairs : seen[c][k] \in MaybeRow /\ want'[c][k] \in MaybeRow
      BY DEF TypeOK, Rows
    <2>4. pc'[c] = "planned" => \A k \in Pairs : Leads(plan'[c][k], seen[c][k], want'[c][k])
      BY <2>2, <2>3, DiffPairLeads
    <2> QED BY <2>1, <2>4
  <1>4. ASSUME NEW ds \in SUBSET Dbs, DatabasesExist(c, ds) PROVE RequestInv(c)' /\ PlanInv(c)'
    BY <1>4 DEF DatabasesExist, TypeOK
  <1>5. ASSUME NEW us \in SUBSET Users, UsersExist(c, us) PROVE RequestInv(c)' /\ PlanInv(c)'
    BY <1>5 DEF UsersExist, TypeOK
  <1>6. CASE Submit(c)
    <2>1. /\ pc[c] = "reduce" /\ pc'[c] = "next"
          /\ UNCHANGED <<seen, want, cur, result>>
          /\ todo'[c] = {k \in Pairs : plan'[c][k] # Noop}
          /\ \A k \in Pairs : plan'[c][k] = IF k \in bad[c] THEN Noop
                                    ELSE ReduceEnd(seen[c][k], ReduceStep(Noop, plan[c][k]))
      BY <1>6 DEF Submit, TypeOK
    <2>2. \A k \in Pairs : seen[c][k] \in MaybeRow /\ want[c][k] \in MaybeRow
      BY DEF TypeOK, Rows
    <2>3. \A k \in Pairs : plan'[c][k] = Noop \/ plan'[c][k] = plan[c][k]
      BY <2>1, <2>2, ReduceKeeps
    <2>4. \A k \in todo'[c] : Leads(plan'[c][k], seen[c][k], want[c][k])
      BY <2>1, <2>3
    <2> QED BY <2>1, <2>4
  <1>7. CASE Quit(c)
    BY <1>7 DEF Quit, TypeOK
  <1>8. ASSUME NEW entry \in Entries[c], EditByEntries(c, entry) PROVE RequestInv(c)' /\ PlanInv(c)'
    <2> DEFINE ks == DOMAIN entry
    <2>0. ks \subseteq Pairs /\ \A k \in ks : entry[k] \in Entry
      BY InputsAssumption
    <2>1. pc[c] = "fetched" /\ pc'[c] = "planned" /\ UNCHANGED <<seen, todo, cur, result>>
      BY <1>8 DEF EditByEntries, TypeOK
    <2>2. \A k \in Pairs : seen[c][k] \in MaybeRow
      BY DEF TypeOK, Rows
    <2>3. ASSUME NEW k \in ks PROVE Leads(plan'[c][k], seen[c][k], want'[c][k])
      <3>1. /\ plan'[c][k] = CreateOrModify(seen[c][k], EntryDiff(entry[k]))
            /\ want'[c][k] = EntryGoal(entry[k], seen[c][k])
        BY <1>8, <2>0, <2>3 DEF EditByEntries, TypeOK
      <3> QED BY <2>0, <2>2, <2>3, <3>1, EntryLeads
    <2>4. ASSUME NEW k \in Pairs, k \notin ks PROVE Leads(plan'[c][k], seen[c][k], want'[c][k])
      <3>1. plan'[c][k] = Noop /\ want'[c][k] = seen[c][k]
        BY <1>8, <2>4 DEF EditByEntries, TypeOK
      <3> QED BY <3>1 DEF Leads, Noop, PrivilegesDiff, DiffApplies, ExecuteDiff
    <2> QED BY <2>1, <2>3, <2>4
  <1>9. ASSUME NEW to \in Wishes[c], EditInEditor(c, to) PROVE RequestInv(c)' /\ PlanInv(c)'
    BY <1>9 DEF EditInEditor, TypeOK
  <1> QED BY <1>1, <1>2, <1>3, <1>4, <1>5, <1>6, <1>7, <1>8, <1>9, <1>10, <1>11 DEF Client

(* An outcome for one pair. *)
LEMMA AnswerLocal ==
    ASSUME TypeOK, NEW c \in Clients, NEW k \in todo[c], NEW r \in Results \ {"none"}, Answer(c, k, r),
           pc[c] \in ServerPCs, UNCHANGED client, RequestInv(c), PlanInv(c)
    PROVE  RequestInv(c)' /\ PlanInv(c)'
  <1>1. /\ pc'[c] = "next" /\ todo'[c] = todo[c] \ {k} /\ cur'[c] = {}
        /\ result'[c] = [result[c] EXCEPT ![k] = r]
        /\ UNCHANGED <<seen, want, plan>>
    BY DEF Answer, Goto, Set, TypeOK, fetched, client
  <1>2. k \in Pairs /\ result[c] \in [Pairs -> Results] /\ todo[c] \subseteq Pairs
    BY DEF TypeOK
  <1>3. \A o \in Pairs : result'[c][o] = IF o = k THEN r ELSE result[c][o]
    BY <1>1, <1>2
  <1>4. \A o \in Pairs : result'[c][o] = "none" <=> plan[c][o] = Noop \/ o \in todo'[c]
    BY <1>1, <1>2, <1>3 DEF RequestInv
  <1> QED BY <1>1, <1>4 DEF RequestInv, PlanInv, ServerPCs, ClientPCs, EditorPCs

(* The server's steps. *)
LEMMA ServerLocalStep ==
    ASSUME TypeOK, NEW c \in Clients, Server(c), RequestInv(c), PlanInv(c)
    PROVE  RequestInv(c)' /\ PlanInv(c)'
  <1> DEFINE Goal == RequestInv(c)' /\ PlanInv(c)'
  <1>0. {"missing", "sql_error", "does_not_apply", "ok"} \subseteq Results \ {"none"}
    BY DEF Results
  <1>1. CASE ServerFlush(c)
    BY <1>1 DEF ServerFlush, TypeOK, Goto, fetched, client, request, RequestInv, PlanInv, ClientPCs, EditorPCs, ServerPCs
  <1>2. CASE ServerAborted(c)
    BY <1>2 DEF ServerAborted, TypeOK, Goto, fetched, client, request, RequestInv, PlanInv, ClientPCs, EditorPCs, ServerPCs
  <1>3. ASSUME NEW k \in Pairs, ServerDatabaseExists(c, k) PROVE Goal
    <2>1. pc[c] \in ServerPCs /\ k \in todo[c] /\ UNCHANGED client
      BY <1>3 DEF ServerDatabaseExists, Comes1st, ServerPCs
    <2>2. CASE \E r \in Results \ {"none"} : Answer(c, k, r)
      BY <2>1, <2>2, AnswerLocal
    <2>3. CASE cur' = Set(cur, c, {k}) /\ Goto(c, "user") /\ UNCHANGED <<todo, result>>
      BY <2>1, <2>3 DEF TypeOK, Goto, Set, fetched, client, RequestInv, PlanInv, ClientPCs, EditorPCs, ServerPCs
    <2> QED BY <1>0, <1>3, <2>2, <2>3 DEF ServerDatabaseExists
  <1>4. ASSUME NEW k \in Pairs, ServerUserExists(c, k) PROVE Goal
    <2>1. pc[c] \in ServerPCs /\ k \in todo[c] /\ UNCHANGED client
      BY <1>4 DEF ServerUserExists, ServerPCs, RequestInv
    <2>2. CASE \E r \in Results \ {"none"} : Answer(c, k, r)
      BY <2>1, <2>2, AnswerLocal
    <2>3. CASE Goto(c, "validate") /\ UNCHANGED request
      BY <2>1, <2>3 DEF TypeOK, Goto, fetched, client, request, RequestInv, PlanInv, ClientPCs, EditorPCs, ServerPCs
    <2> QED BY <1>0, <1>4, <2>2, <2>3 DEF ServerUserExists
  <1>5. ASSUME NEW k \in Pairs, ServerValidate(c, k) PROVE Goal
    <2>1. pc[c] \in ServerPCs /\ k \in todo[c] /\ UNCHANGED client
      BY <1>5 DEF ServerValidate, ServerPCs, RequestInv
    <2>2. CASE \E r \in Results \ {"none"} : Answer(c, k, r)
      BY <2>1, <2>2, AnswerLocal
    <2>3. CASE Goto(c, "apply") /\ UNCHANGED request
      BY <2>1, <2>3 DEF TypeOK, Goto, fetched, client, request, RequestInv, PlanInv, ClientPCs, EditorPCs, ServerPCs
    <2> QED BY <1>0, <1>5, <2>2, <2>3 DEF ServerValidate
  <1>6. ASSUME NEW k \in Pairs, ServerApply(c, k) PROVE Goal
    <2>1. pc[c] \in ServerPCs /\ k \in todo[c] /\ UNCHANGED client
      BY <1>6 DEF ServerApply, ServerPCs, RequestInv
    <2>2. \E r \in Results \ {"none"} : Answer(c, k, r)
      BY <1>0, <1>6 DEF ServerApply
    <2> QED BY <2>1, <2>2, AnswerLocal
  <1> QED BY <1>1, <1>2, <1>3, <1>4, <1>5, <1>6 DEF Server

(* Every step keeps what holds of each client. *)
LEMMA LocalStep ==
    ASSUME TypeOK, TypeOK', LocalInv, [Next]_vars
    PROVE  LocalInv'
  <1> SUFFICES ASSUME NEW o \in Clients PROVE RequestInv(o)' /\ PlanInv(o)'
    BY DEF LocalInv
  <1>1. RequestInv(o) /\ PlanInv(o)
    BY DEF LocalInv
  <1>2. CASE Others \/ UNCHANGED vars
    <2>1. UNCHANGED <<pc, client, request>>
      BY <1>2 DEF Others, CreateDatabase, DropDatabase, CreateUser, DropUser, vars
    <2> QED BY <1>1, <2>1 DEF RequestInv, PlanInv, fetched, client, request
  <1>3. ASSUME NEW c \in Clients, Client(c) \/ Server(c) PROVE RequestInv(o)' /\ PlanInv(o)'
    <2>1. CASE o = c
      BY <1>1, <1>3, <2>1, ClientLocalStep, ServerLocalStep
    <2>2. CASE o # c
      <3>1. /\ pc'[o] = pc[o] /\ seen'[o] = seen[o] /\ known'[o] = known[o]
            /\ want'[o] = want[o] /\ plan'[o] = plan[o]
            /\ todo'[o] = todo[o] /\ cur'[o] = cur[o] /\ result'[o] = result[o]
        BY <1>3, <2>2, Frame
      <3> QED BY <1>1, <3>1 DEF RequestInv, PlanInv
    <2> QED BY <2>1, <2>2
  <1> QED BY <1>2, <1>3 DEF Next

LEMMA LocalInit == Init => LocalInv
  BY DEF Init, LocalInv, RequestInv, PlanInv, ClientPCs, EditorPCs, ServerPCs

(* apply_privilege_diffs answers every diff it was sent, whatever became of     *)
(* the others, for any number of databases and users.                           *)
THEOREM DiffsAreAnswered == Spec => []EveryDiffIsAnswered
  <1>1. LocalInv /\ TypeOK /\ TypeOK' /\ [Next]_vars => LocalInv'
    BY LocalStep
  <1>2. LocalInv => EveryDiffIsAnswered
    BY DEF LocalInv, RequestInv, EveryDiffIsAnswered
  <1> QED BY <1>1, <1>2, LocalInit, EditTypeCorrect, PTL DEF Spec

-----------------------------------------------------------------------------
(* The grants the database server enforces. *)

(* Without unflushed writes the grants are the table's; and a session that has  *)
(* some is in its handler, or ended without a flush.                            *)
FlushInv ==
    /\ dirty = {} => grants = table
    /\ \A c \in dirty : pc[c] \in ServerPCs \cup {"unflushed", "aborted"}

LEMMA FlushStep ==
    ASSUME TypeOK, FlushInv, [Next]_vars
    PROVE  FlushInv'
  <1> USE DEF FlushInv
  <1>1. CASE UNCHANGED vars
    BY <1>1 DEF vars, store
  <1>2. CASE Others
    BY <1>2 DEF Others, CreateDatabase, DropDatabase, CreateUser, DropUser, store
  <1>3. ASSUME NEW c \in Clients, Client(c) PROVE FlushInv'
    <2>1. UNCHANGED <<table, grants, dirty>> /\ pc[c] \in ClientPCs
      BY <1>3 DEF Client, FetchAll, UseDatabase, GetDatabasePrivileges, EditorDatabasesExist, EditorUsersExist, DatabasesExist, UsersExist,
                  Submit, Quit, EditByEntries, EditInEditor, store, ClientPCs, EditorPCs
    <2>2. \A o \in Clients \ {c} : pc'[o] = pc[o]
      BY <1>3, Frame
    <2>3. c \notin dirty
      BY <2>1 DEF ClientPCs, EditorPCs, ServerPCs
    <2> QED BY <2>1, <2>2, <2>3 DEF TypeOK
  <1>4. ASSUME NEW c \in Clients, Server(c) PROVE FlushInv'
    <2>1. \A o \in Clients \ {c} : pc'[o] = pc[o]
      BY <1>4, Frame
    <2>2. CASE ServerFlush(c)
      BY <2>1, <2>2 DEF ServerFlush, Goto, TypeOK
    <2>3. CASE ServerAborted(c)
      BY <2>1, <2>3 DEF ServerAborted, Goto, TypeOK, store
    <2>4. CASE \E k \in Pairs : ServerDatabaseExists(c, k) \/ ServerUserExists(c, k) \/ ServerValidate(c, k)
      <3>1. UNCHANGED <<table, grants, dirty>> /\ pc'[c] \in ServerPCs
        BY <2>4 DEF ServerDatabaseExists, ServerUserExists, ServerValidate, Answer, Goto, TypeOK, store,
                    ServerPCs
      <3> QED BY <2>1, <3>1 DEF TypeOK
    <2>5. CASE \E k \in Pairs : ServerApply(c, k)
      <3>1. /\ pc'[c] \in ServerPCs
            /\ dirty' = dirty \cup {c} \/ UNCHANGED <<table, grants, dirty>>
        BY <2>5 DEF ServerApply, Answer, Goto, TypeOK, ServerPCs
      <3> QED BY <2>1, <3>1 DEF TypeOK
    <2> QED BY <1>4, <2>2, <2>3, <2>4, <2>5 DEF Server
  <1> QED BY <1>1, <1>2, <1>3, <1>4 DEF Next

(* A handler that ends normally leaves no difference between mysql.db and what  *)
(* is enforced, however the sessions interleave.                                *)
THEOREM GrantsAreFlushed == Spec => []GrantsFollowTable
  <1>1. Init => FlushInv
    BY DEF Init, FlushInv
  <1>2. TypeOK /\ FlushInv /\ [Next]_vars => FlushInv'
    BY FlushStep
  <1>3. FlushInv => GrantsFollowTable
    BY DEF FlushInv, GrantsFollowTable
  <1> QED BY <1>1, <1>2, <1>3, EditTypeCorrect, PTL DEF Spec

-----------------------------------------------------------------------------
(* What a statement changes. *)

(* One statement, on whatever row there is, does only what its diff was made    *)
(* for.                                                                         *)
LEMMA ExecuteIntended ==
    ASSUME NEW from \in MaybeRow, NEW to \in MaybeRow, NEW old \in MaybeRow, NEW d, Leads(d, from, to),
           ~StatementFails(d, old), ExecuteDiff(d, old) # old
    PROVE  /\ old = NoRow => from = NoRow /\ ExecuteDiff(d, old) = to
           /\ ExecuteDiff(d, old) = NoRow => from # NoRow /\ to = NoRow
           /\ old # NoRow /\ ExecuteDiff(d, old) # NoRow =>
                  \A p \in Privs : ExecuteDiff(d, old)[p] # old[p] =>
                      from # NoRow /\ to # NoRow /\ from[p] # to[p] /\ ExecuteDiff(d, old)[p] = to[p]
  <1>1. CASE d.kind = "New"
    <2>1. d.row \in Row
      BY <1>1 DEF Leads, PrivilegesDiff, Noop
    <2> QED BY <1>1, <2>1, NoRowAssumption DEF Leads, StatementFails, ExecuteDiff, DiffApplies
  <1>2. CASE d.kind = "Deleted"
    BY <1>2 DEF Leads, ExecuteDiff, DiffApplies
  <1>3. CASE d.kind = "Modified"
    <2>1. d.diff \in RowDiff /\ from \in Row /\ old \in Row
      BY <1>3 DEF Leads, PrivilegesDiff, Noop, DiffApplies, MaybeRow, ExecuteDiff
    <2>2. ExecuteDiff(d, old) = ApplyRow(d.diff, old) /\ to = ApplyRow(d.diff, from)
      BY <1>3, <2>1, NoRowAssumption DEF Leads, ExecuteDiff
    <2>3. ApplyRow(d.diff, old) \in Row /\ ApplyRow(d.diff, from) \in Row
      BY <2>1, ApplyRowType
    <2>4. \A p \in Privs : d.diff[p] # "None" => StartsFrom(d.diff[p], from[p])
      BY <1>3 DEF Leads, DiffApplies
    <2>5. ASSUME NEW p \in Privs, ApplyRow(d.diff, old)[p] # old[p]
          PROVE  from[p] # to[p] /\ ApplyRow(d.diff, old)[p] = to[p]
      BY <2>2, <2>4, <2>5 DEF ApplyRow, ApplyChange, StartsFrom
    <2> QED BY <2>1, <2>2, <2>3, <2>5, NoRowAssumption
  <1> QED BY <1>1, <1>2, <1>3 DEF Leads, PrivilegesDiff, Noop, ExecuteDiff

(* Before a client has its rows, and after it has given up. *)
Early == {"start", "use", "quit"}

(* The client's steps leave the server's state alone, and others' rows. *)
LEMMA ClientFrame ==
    ASSUME TypeOK, NEW c \in Clients, Client(c)
    PROVE  /\ UNCHANGED <<dbs, users, table, cur, result>>
           /\ pc[c] \in ClientPCs
           /\ \A o \in Clients \ {c} : touched'[o] = touched[o]
           /\ \/ FetchAll(c) \/ GetDatabasePrivileges(c) \/ Quit(c)
              \/ \E d \in Dbs : UseDatabase(c, d)
              \/ UNCHANGED <<seen, known, touched>> /\ pc[c] \notin Early /\ pc'[c] \notin Early
  <1> DEFINE Kept == /\ UNCHANGED <<dbs, users, table, cur, result>>
                     /\ pc[c] \in ClientPCs
                     /\ \A o \in Clients \ {c} : touched'[o] = touched[o]
             Later == UNCHANGED <<seen, known, touched>> /\ pc[c] \notin Early /\ pc'[c] \notin Early
  <1> USE DEF TypeOK, Goto, Set, world, store, fetched, client, request, ClientPCs, EditorPCs, Early
  <1>1. FetchAll(c) => Kept  BY DEF FetchAll
  <1>2. GetDatabasePrivileges(c) => Kept  BY DEF GetDatabasePrivileges
  <1>3. Quit(c) => Kept  BY DEF Quit
  <1>4. ASSUME NEW d \in Dbs, UseDatabase(c, d) PROVE Kept  BY <1>4 DEF UseDatabase
  <1>5. ASSUME NEW ds \in SUBSET Dbs, EditorDatabasesExist(c, ds) PROVE Kept /\ Later
    BY <1>5 DEF EditorDatabasesExist
  <1>6. ASSUME NEW us \in SUBSET Users, EditorUsersExist(c, us) PROVE Kept /\ Later
    BY <1>6 DEF EditorUsersExist
  <1>7. ASSUME NEW ds \in SUBSET Dbs, DatabasesExist(c, ds) PROVE Kept /\ Later
    BY <1>7 DEF DatabasesExist
  <1>8. ASSUME NEW us \in SUBSET Users, UsersExist(c, us) PROVE Kept /\ Later
    BY <1>8 DEF UsersExist
  <1>9. Submit(c) => Kept /\ Later  BY DEF Submit
  <1>10. ASSUME NEW entry \in Entries[c], EditByEntries(c, entry) PROVE Kept /\ Later
    BY <1>10 DEF EditByEntries
  <1>11. ASSUME NEW to \in Wishes[c], EditInEditor(c, to) PROVE Kept /\ Later
    BY <1>11 DEF EditInEditor
  <1> HIDE DEF Kept, Later, TypeOK, Goto, Set, world, store, fetched, client, request, ClientPCs, EditorPCs,
               Early
  <1>12. CASE \E d \in Dbs : UseDatabase(c, d)
    BY <1>4, <1>12 DEF Kept
  <1>13. CASE FetchAll(c) \/ GetDatabasePrivileges(c) \/ Quit(c)
    BY <1>1, <1>2, <1>3, <1>13 DEF Kept
  <1>14. ASSUME ~\E d \in Dbs : UseDatabase(c, d), ~(FetchAll(c) \/ GetDatabasePrivileges(c) \/ Quit(c))
         PROVE  Kept /\ Later
    BY <1>5, <1>6, <1>7, <1>8, <1>9, <1>10, <1>11, <1>14, Zenon DEF Client
  <1> QED BY <1>12, <1>13, <1>14, Zenon DEF Kept, Later

(* Only unsafe_apply_privilege_diff writes to the table, of the session's       *)
(* steps.                                                                       *)
LEMMA ServerFrame ==
    ASSUME NEW c \in Clients, Server(c)
    PROVE  /\ UNCHANGED <<dbs, users, client>>
           /\ (\E k \in Pairs : ServerApply(c, k)) \/ UNCHANGED <<table, touched>>
  <1> USE DEF world, store, fetched, client, request
  <1>1. CASE ServerFlush(c)  BY <1>1 DEF ServerFlush
  <1>2. CASE ServerAborted(c)  BY <1>2 DEF ServerAborted
  <1>3. CASE \E k \in Pairs : ServerDatabaseExists(c, k)  BY <1>3 DEF ServerDatabaseExists
  <1>4. CASE \E k \in Pairs : ServerUserExists(c, k)  BY <1>4 DEF ServerUserExists
  <1>5. CASE \E k \in Pairs : ServerValidate(c, k)  BY <1>5 DEF ServerValidate
  <1>6. CASE \E k \in Pairs : ServerApply(c, k)  BY <1>6 DEF ServerApply
  <1> QED BY <1>1, <1>2, <1>3, <1>4, <1>5, <1>6 DEF Server

(* The statement for one pair. *)
LEMMA ApplyStep ==
    ASSUME TypeOK, NEW c \in Clients, NEW k \in Pairs, ServerApply(c, k)
    PROVE  /\ pc[c] = "apply" /\ k \in cur[c]
           /\ \/ /\ Answer(c, k, "sql_error") /\ UNCHANGED <<table, touched>>
              \/ /\ Answer(c, k, "ok") /\ ~StatementFails(plan[c][k], table[k])
                 /\ table' = [table EXCEPT ![k] = ExecuteDiff(plan[c][k], table[k])]
                 /\ touched'[c] = touched[c]
                 /\ \A o \in Clients : /\ touched[o] \subseteq touched'[o]
                                       /\ o # c /\ pc[o] \notin Early /\ table'[k] # table[k]
                                              => k \in touched'[o]
  <1>1. CASE Answer(c, k, "sql_error") /\ UNCHANGED <<table, dirty, touched>>
    BY <1>1 DEF ServerApply
  <1>2. CASE /\ ~StatementFails(plan[c][k], table[k])
             /\ table' = [table EXCEPT ![k] = ExecuteDiff(plan[c][k], table[k])]
             /\ Touch(IF table'[k] = table[k] THEN {} ELSE {k}, {c})
             /\ Answer(c, k, "ok")
    <2>1. \A o \in Clients : touched[o] \subseteq touched'[o]
      BY <1>2 DEF Touch
    <2>2. \A o \in Clients : o # c /\ pc[o] \notin Early /\ table'[k] # table[k] => k \in touched'[o]
      BY <1>2 DEF Touch, Early
    <2>3. touched'[c] = touched[c]
      BY <1>2 DEF Touch
    <2>4. pc[c] = "apply" /\ k \in cur[c]
      BY DEF ServerApply
    <2> QED BY <1>2, <2>1, <2>2, <2>3, <2>4
  <1> QED BY <1>1, <1>2 DEF ServerApply

(* No interleaving of sessions makes a statement change what its user did not   *)
(* mean to change.                                                              *)
THEOREM ChangesAreIntended == Spec => OnlyIntendedChanges
  <1> DEFINE Change == \A k \in Pairs : table'[k] # table[k] =>
                 \/ \E c \in Clients : k \in cur[c] /\ Intended(c, k, table[k], table'[k])
                 \/ table'[k] = NoRow /\ k[2] \in users \ users'
  <1>1. ASSUME TypeOK, LocalInv, [Next]_vars PROVE Change \/ UNCHANGED vars
    <2>1. CASE \E c \in Clients : Client(c)
      BY <2>1, <1>1, ClientFrame
    <2>2. CASE Others
      <3>1. CASE \E d \in Dbs : CreateDatabase(d) \/ DropDatabase(d)
        BY <3>1 DEF CreateDatabase, DropDatabase, store
      <3>2. ASSUME NEW u \in Users, CreateUser(u) \/ DropUser(u) PROVE Change
        BY <3>2 DEF CreateUser, DropUser, store
      <3> QED BY <2>2, <3>1, <3>2 DEF Others
    <2>3. ASSUME NEW c \in Clients, NEW o \in Pairs, ServerApply(c, o) PROVE Change
      <3> SUFFICES ASSUME NEW k \in Pairs, table'[k] # table[k]
                   PROVE  k \in cur[c] /\ Intended(c, k, table[k], table'[k])
        OBVIOUS
      <3>1. /\ k = o /\ k \in cur[c]
            /\ ~StatementFails(plan[c][k], table[k])
            /\ table'[k] = ExecuteDiff(plan[c][k], table[k])
        <4>1. /\ o \in cur[c] /\ ~StatementFails(plan[c][o], table[o])
              /\ table' = [table EXCEPT ![o] = ExecuteDiff(plan[c][o], table[o])]
          BY <1>1, <2>3, ApplyStep
        <4>2. table \in [Pairs -> MaybeRow]
          BY <1>1 DEF TypeOK, Rows
        <4> QED BY <4>1, <4>2
      <3>2. Leads(plan[c][k], seen[c][k], want[c][k])
        BY <1>1, <3>1 DEF LocalInv, RequestInv, PlanInv
      <3>3. seen[c][k] \in MaybeRow /\ want[c][k] \in MaybeRow /\ table[k] \in MaybeRow
        BY <1>1 DEF TypeOK, Rows
      <3> QED BY <3>1, <3>2, <3>3, ExecuteIntended DEF Intended
    <2>4. ASSUME NEW c \in Clients, Server(c) PROVE Change
      BY <2>3, <2>4, ServerFrame
    <2> QED BY <1>1, <2>1, <2>2, <2>4 DEF Next
  <1>2. TypeOK /\ LocalInv /\ [Next]_vars => [Change]_vars
    BY <1>1
  <1>3. LocalInv /\ TypeOK /\ TypeOK' /\ [Next]_vars => LocalInv'
    BY LocalStep
  <1>4. Spec => [][Change]_vars
    BY <1>2, <1>3, LocalInit, EditTypeCorrect, PTL DEF Spec
  <1> QED BY <1>4 DEF OnlyIntendedChanges

-----------------------------------------------------------------------------
(* Pairs that nobody else has changed. *)

(* A client has fetched no row of a database that it does not know. *)
SeenInv(c) ==
    /\ pc[c] \in {"start", "use"} => seen[c] = NoRows
    /\ pc[c] = "start" => known[c] = {}
    /\ \A k \in Pairs : k[1] \notin known[c] => seen[c][k] = NoRow

(* Once c has fetched, an undisturbed pair of an existing database that it      *)
(* knows has the row that was fetched until the session reports success, and    *)
(* any pair then has the row asked for; and what the session found to exist     *)
(* still does.                                                                  *)
QuietPair(c, k) ==
    /\ result[c][k] = "does_not_apply" => k[1] \notin known[c]
    /\ result[c][k] = "ok" => table[k] = want[c][k] /\ k[1] \in dbs /\ k[2] \in users
    /\ result[c][k] # "ok" /\ k[1] \in dbs \cap known[c] => table[k] = seen[c][k]
    /\ k \in cur[c] => k[1] \in dbs
    /\ k \in cur[c] /\ pc[c] \in {"validate", "apply"} => k[2] \in users

QuietInv(c) ==
    /\ SeenInv(c)
    /\ pc[c] \notin Early => \A k \in Pairs \ touched[c] : QuietPair(c, k)

(* The client's own steps. *)
LEMMA ClientQuiet ==
    ASSUME TypeOK, NEW c \in Clients, Client(c), RequestInv(c), QuietInv(c)
    PROVE  QuietInv(c)'
  <1>1. /\ UNCHANGED <<dbs, users, table, cur, result>>
        /\ pc[c] \in ClientPCs
        /\ \/ FetchAll(c) \/ GetDatabasePrivileges(c) \/ Quit(c)
           \/ \E d \in Dbs : UseDatabase(c, d)
           \/ UNCHANGED <<seen, known, touched>> /\ pc[c] \notin Early /\ pc'[c] \notin Early
    BY ClientFrame
  <1>2. cur[c] = {} /\ \A k \in Pairs : result[c][k] = "none"
    BY <1>1 DEF RequestInv
  <1>3. SUFFICES /\ SeenInv(c)'
                 /\ pc'[c] \notin Early =>
                        \A k \in Pairs : k \notin touched'[c] /\ k[1] \in dbs \cap known'[c] => table[k] = seen'[c][k]
    BY <1>1, <1>2 DEF QuietInv, QuietPair
  <1>4. CASE FetchAll(c)
    <2>1. \A k \in Pairs : seen'[c][k] = IF k[1] \in dbs \cap Shown[c] THEN table[k] ELSE NoRow
      BY <1>4, RowsOfType DEF FetchAll, Set, TypeOK
    <2>2. known'[c] = Shown[c] /\ pc'[c] = "fetched"
      BY <1>4 DEF FetchAll, Set, Goto, TypeOK
    <2> QED BY <2>1, <2>2 DEF SeenInv
  <1>5. CASE GetDatabasePrivileges(c)
    <2>1. pc[c] = "use" /\ pc'[c] = "editor"
      BY <1>5 DEF GetDatabasePrivileges, Goto, TypeOK
    <2>2. \A k \in Pairs : seen[c][k] = NoRow
      BY <2>1 DEF QuietInv, SeenInv, NoRows
    <2>3. CASE seen' = Set(seen, c, RowsOf(known[c])) /\ UNCHANGED known
      <3>1. \A k \in Pairs : seen'[c][k] = IF k[1] \in known[c] THEN table[k] ELSE NoRow
        BY <2>3, RowsOfType DEF Set, TypeOK
      <3> QED BY <2>1, <2>3, <3>1 DEF SeenInv
    <2>4. CASE known' = Set(known, c, {}) /\ UNCHANGED seen
      <3>1. known'[c] = {}
        BY <2>4 DEF Set, TypeOK
      <3> QED BY <2>1, <2>2, <2>4, <3>1 DEF SeenInv
    <2> QED BY <1>5, <2>3, <2>4 DEF GetDatabasePrivileges
  <1>6. CASE Quit(c)
    <2>1. pc'[c] = "quit" /\ seen'[c] = NoRows /\ known'[c] = {}
      BY <1>6 DEF Quit, Set, Goto, TypeOK
    <2> QED BY <2>1 DEF SeenInv, NoRows, Early
  <1>7. ASSUME NEW d \in Dbs, UseDatabase(c, d)
        PROVE  /\ SeenInv(c)'
               /\ pc'[c] \notin Early =>
                      \A k \in Pairs : k \notin touched'[c] /\ k[1] \in dbs \cap known'[c] => table[k] = seen'[c][k]
    <2>1. /\ pc[c] = "start" /\ UNCHANGED seen
          /\ pc'[c] = "use" \/ (pc'[c] = "editor" /\ UNCHANGED known)
      BY <1>7 DEF UseDatabase, Goto, TypeOK
    <2>2. seen[c] = NoRows /\ known[c] = {} /\ \A k \in Pairs : seen[c][k] = NoRow
      BY <2>1 DEF QuietInv, SeenInv, NoRows
    <2> QED BY <2>1, <2>2 DEF SeenInv, Early
  <1>8. CASE UNCHANGED <<seen, known, touched>> /\ pc[c] \notin Early /\ pc'[c] \notin Early
    BY <1>1, <1>2, <1>8 DEF QuietInv, QuietPair, SeenInv, Early
  <1> QED BY <1>1, <1>4, <1>5, <1>6, <1>7, <1>8

(* A pair that stays undisturbed stays quiet when others act. *)
LEMMA OthersQuiet ==
    ASSUME TypeOK, NEW o \in Clients, QuietInv(o),
           pc'[o] = pc[o], seen'[o] = seen[o], known'[o] = known[o], want'[o] = want[o],
           cur'[o] = cur[o], result'[o] = result[o],
           NEW ks \in SUBSET Pairs, pc[o] \notin Early => touched[o] \cup ks \subseteq touched'[o],
           \A k \in Pairs \ ks : /\ table'[k] = table[k]
                                 /\ k[1] \in dbs' <=> k[1] \in dbs
                                 /\ k[2] \in users => k[2] \in users'
    PROVE  QuietInv(o)'
  <1>0. SeenInv(o)'
    BY DEF QuietInv, SeenInv
  <1> SUFFICES ASSUME pc[o] \notin Early, NEW k \in Pairs, k \notin touched'[o]
               PROVE  QuietPair(o, k)'
    BY <1>0 DEF QuietInv
  <1>1. QuietPair(o, k)
    BY DEF QuietInv
  <1>2. table'[k] = table[k] /\ (k[1] \in dbs' <=> k[1] \in dbs) /\ (k[2] \in users => k[2] \in users')
    OBVIOUS
  <1> QED BY <1>1, <1>2 DEF QuietPair

(* An outcome for one pair leaves the other pairs of the request quiet. *)
LEMMA AnswerQuiet ==
    ASSUME TypeOK, NEW c \in Clients, NEW k \in Pairs, NEW r \in Results, Answer(c, k, r),
           UNCHANGED <<dbs, users, client>>, touched'[c] = touched[c], pc[c] \in ServerPCs, QuietInv(c),
           \A o \in Pairs \ {k} : table'[o] = table[o],
           k \notin touched[c] =>
               /\ r = "does_not_apply" => k[1] \notin known[c]
               /\ r = "ok" => table'[k] = want[c][k] /\ k[1] \in dbs /\ k[2] \in users
               /\ r # "ok" /\ k[1] \in dbs \cap known[c] => table'[k] = seen[c][k]
    PROVE  QuietInv(c)'
  <1>1. /\ pc'[c] = "next" /\ cur'[c] = {} /\ result'[c] = [result[c] EXCEPT ![k] = r]
        /\ seen'[c] = seen[c] /\ known'[c] = known[c] /\ want'[c] = want[c]
    BY DEF Answer, Goto, Set, TypeOK, fetched, client
  <1>2. result[c] \in [Pairs -> Results]
    BY DEF TypeOK
  <1>3. result'[c][k] = r /\ \A o \in Pairs \ {k} : result'[c][o] = result[c][o]
    BY <1>1, <1>2
  <1>4. ASSUME NEW o \in Pairs, o \notin touched[c], o # k PROVE QuietPair(c, o)'
    <2>1. QuietPair(c, o)
      BY <1>4 DEF QuietInv, ServerPCs, Early
    <2> QED BY <1>1, <1>3, <1>4, <2>1 DEF QuietPair
  <1>5. k \notin touched[c] => QuietPair(c, k)'
    BY <1>1, <1>3 DEF QuietPair
  <1>6. SeenInv(c)'
    BY <1>1 DEF QuietInv, SeenInv, ServerPCs
  <1> QED BY <1>4, <1>5, <1>6 DEF QuietInv

(* The session's own steps. *)
LEMMA ServerQuiet ==
    ASSUME TypeOK, NEW c \in Clients, Server(c), RequestInv(c), PlanInv(c), QuietInv(c)
    PROVE  QuietInv(c)'
  <1>0. /\ UNCHANGED <<dbs, users, client>>
        /\ (\E k \in Pairs : ServerApply(c, k)) \/ UNCHANGED <<table, touched>>
    BY ServerFrame
  <1>1. CASE ServerFlush(c) \/ ServerAborted(c)
    <2>1. UNCHANGED <<table, touched, cur, result>> /\ pc[c] \in ServerPCs 
          /\ pc'[c] \in {"done", "unflushed", "aborted"}
      BY <1>1 DEF ServerFlush, ServerAborted, Goto, TypeOK, store, request, ServerPCs
    <2> QED BY <1>0, <2>1 DEF QuietInv, SeenInv, QuietPair, Early, fetched, client, ServerPCs
  <1>2. ASSUME NEW k \in todo[c], k \notin touched[c], pc[c] \in ServerPCs
        PROVE  /\ k \in Pairs /\ QuietPair(c, k) /\ result[c][k] = "none"
               /\ Leads(plan[c][k], seen[c][k], want[c][k])
    BY <1>2 DEF TypeOK, QuietInv, RequestInv, PlanInv, ServerPCs, Early
  <1>3. ASSUME NEW k \in todo[c], NEW r \in {"missing", "sql_error"}, Answer(c, k, r),
               UNCHANGED <<table, touched>>, pc[c] \in ServerPCs
        PROVE  QuietInv(c)'
    <2>1. k \in Pairs /\ r \in Results
      BY DEF TypeOK, Results
    <2>2. k \notin touched[c] /\ k[1] \in dbs \cap known[c] => table'[k] = seen[c][k]
      BY <1>2, <1>3 DEF QuietPair
    <2> QED BY <1>0, <1>3, <2>1, <2>2, AnswerQuiet
  <1>4. ASSUME NEW k \in Pairs, ServerDatabaseExists(c, k) PROVE QuietInv(c)'
    <2>1. pc[c] \in ServerPCs /\ k \in todo[c] /\ UNCHANGED <<table, touched>>
      BY <1>4 DEF ServerDatabaseExists, Comes1st, ServerPCs, store
    <2>2. CASE k[1] \in dbs /\ cur' = Set(cur, c, {k}) /\ Goto(c, "user") /\ UNCHANGED <<todo, result>>
      <3>1. pc'[c] = "user" /\ cur'[c] = {k} /\ UNCHANGED result
        BY <2>2 DEF Set, Goto, TypeOK
      <3> QED BY <1>0, <2>1, <2>2, <3>1 DEF QuietInv, SeenInv, QuietPair, Early, fetched, client, ServerPCs
    <2> QED BY <1>3, <1>4, <2>1, <2>2 DEF ServerDatabaseExists
  <1>5. ASSUME NEW k \in Pairs, ServerUserExists(c, k) PROVE QuietInv(c)'
    <2>1. pc[c] = "user" /\ k \in cur[c] /\ k \in todo[c] /\ UNCHANGED <<table, touched>>
      BY <1>5 DEF ServerUserExists, RequestInv, store
    <2>2. CASE k[2] \in users /\ Goto(c, "validate") /\ UNCHANGED request
      <3>1. pc'[c] = "validate" /\ UNCHANGED <<cur, result>>
        BY <2>2 DEF Goto, TypeOK, request
      <3>2. \A o \in cur[c] : o = k
        BY <2>1 DEF RequestInv
      <3> QED BY <1>0, <2>1, <2>2, <3>1, <3>2 DEF QuietInv, SeenInv, QuietPair, Early, fetched, client
    <2> QED BY <1>3, <1>5, <2>1, <2>2 DEF ServerUserExists, ServerPCs
  <1>6. ASSUME NEW k \in Pairs, ServerValidate(c, k) PROVE QuietInv(c)'
    <2>1. pc[c] = "validate" /\ k \in cur[c] /\ k \in todo[c] /\ UNCHANGED <<table, touched>>
      BY <1>6 DEF ServerValidate, RequestInv, store
    <2>2. CASE Goto(c, "apply") /\ UNCHANGED request
      <3>1. pc'[c] = "apply" /\ UNCHANGED <<cur, result>>
        BY <2>2 DEF Goto, TypeOK, request
      <3> QED BY <1>0, <2>1, <3>1 DEF QuietInv, SeenInv, QuietPair, Early, fetched, client
    <2>3. CASE ~DiffApplies(plan[c][k], table[k]) /\ Answer(c, k, "does_not_apply")
      <3>1. k \notin touched[c] => k[1] \notin known[c]
        BY <1>2, <2>1, <2>3 DEF QuietPair, Leads, ServerPCs
      <3> QED BY <1>0, <2>1, <2>3, <3>1, AnswerQuiet DEF ServerPCs, Results
    <2> QED BY <1>3, <1>6, <2>1, <2>2, <2>3 DEF ServerValidate, ServerPCs
  <1>7. ASSUME NEW k \in Pairs, ServerApply(c, k) PROVE QuietInv(c)'
    <2>1. pc[c] = "apply" /\ pc[c] \in ServerPCs /\ k \in cur[c] /\ k \in todo[c]
      BY <1>7, ApplyStep DEF RequestInv, ServerPCs
    <2>2. CASE Answer(c, k, "sql_error") /\ UNCHANGED <<table, touched>>
      BY <1>3, <2>1, <2>2
    <2>3. CASE /\ Answer(c, k, "ok")
               /\ table' = [table EXCEPT ![k] = ExecuteDiff(plan[c][k], table[k])]
               /\ touched'[c] = touched[c]
               /\ ~StatementFails(plan[c][k], table[k])
      <3>1. table \in [Pairs -> MaybeRow]
        BY DEF TypeOK, Rows
      <3>2. /\ \A o \in Pairs \ {k} : table'[o] = table[o]
            /\ table'[k] = ExecuteDiff(plan[c][k], table[k])
        BY <2>3, <3>1
      <3>3. ASSUME k \notin touched[c]
            PROVE  table'[k] = want[c][k] /\ k[1] \in dbs /\ k[2] \in users
        <4>1. QuietPair(c, k) /\ result[c][k] = "none" /\ Leads(plan[c][k], seen[c][k], want[c][k])
          BY <1>2, <2>1, <3>3
        <4>2. k[1] \in dbs /\ k[2] \in users
          BY <2>1, <4>1 DEF QuietPair
        <4>3. CASE k[1] \in known[c]
          BY <3>2, <4>1, <4>2, <4>3 DEF QuietPair, Leads
        <4>4. CASE k[1] \notin known[c]
          <5>1. seen[c][k] = NoRow /\ plan[c][k] # Noop
            BY <2>1, <4>4 DEF QuietInv, SeenInv, RequestInv
          <5>2. plan[c][k].kind = "New"
            BY <4>1, <5>1 DEF Leads, DiffApplies, PrivilegesDiff, Noop
          <5>3. table[k] = seen[c][k]
            BY <2>3, <5>1, <5>2 DEF StatementFails
          <5> QED BY <3>2, <4>1, <4>2, <5>3 DEF Leads
        <4> QED BY <4>2, <4>3, <4>4
      <3> QED BY <1>0, <2>1, <2>3, <3>2, <3>3, AnswerQuiet DEF Results
    <2> QED BY <1>7, <2>2, <2>3, ApplyStep
  <1> QED BY <1>1, <1>4, <1>5, <1>6, <1>7 DEF Server

(* Every step keeps every client's undisturbed pairs quiet. *)
LEMMA QuietStep ==
    ASSUME TypeOK, LocalInv, [Next]_vars, \A c \in Clients : QuietInv(c)
    PROVE  \A c \in Clients : QuietInv(c)'
  <1> SUFFICES ASSUME NEW o \in Clients PROVE QuietInv(o)'
    OBVIOUS
  <1>0. QuietInv(o) /\ RequestInv(o) /\ PlanInv(o)
    BY DEF LocalInv
  <1>1. CASE UNCHANGED vars
    BY <1>0, <1>1 DEF vars, world, store, fetched, client, request, QuietInv, SeenInv, QuietPair
  <1>2. CASE Others
    <2> DEFINE Same(ks) == /\ ks \in SUBSET Pairs
                           /\ pc[o] \notin Early => touched[o] \cup ks \subseteq touched'[o]
                           /\ \A k \in Pairs \ ks : /\ table'[k] = table[k]
                                                    /\ k[1] \in dbs' <=> k[1] \in dbs
                                                    /\ k[2] \in users => k[2] \in users'
    <2>1. UNCHANGED <<pc, client, request>>
      BY <1>2 DEF Others, CreateDatabase, DropDatabase, CreateUser, DropUser
    <2>2. ASSUME NEW d \in Dbs, CreateDatabase(d) \/ DropDatabase(d)
          PROVE  Same({k \in Pairs : k[1] = d})
      BY <2>2 DEF CreateDatabase, DropDatabase, Touch, Early, store, TypeOK
    <2>3. ASSUME NEW u \in Users, CreateUser(u) PROVE Same({})
      BY <2>3 DEF CreateUser, store
    <2>4. ASSUME NEW u \in Users, DropUser(u) PROVE Same({k \in Pairs : k[2] = u})
      BY <2>4 DEF DropUser, Touch, Early, TypeOK
    <2>5. \E ks : Same(ks)
      <3> HIDE DEF Same
      <3> QED BY <1>2, <2>2, <2>3, <2>4 DEF Others
    <2> QED BY <1>0, <2>1, <2>5, OthersQuiet DEF fetched, client, request
  <1>3. ASSUME NEW c \in Clients, Client(c) \/ Server(c) PROVE QuietInv(o)'
    <2>1. CASE o = c
      BY <1>0, <1>3, <2>1, ClientQuiet, ServerQuiet
    <2>2. CASE o # c
      <3>1. /\ pc'[o] = pc[o] /\ seen'[o] = seen[o] /\ known'[o] = known[o] /\ want'[o] = want[o]
            /\ cur'[o] = cur[o] /\ result'[o] = result[o]
        BY <1>3, <2>2, Frame
      <3>2. UNCHANGED <<dbs, users>>
        BY <1>3, ClientFrame, ServerFrame
      <3>3. CASE table' = table /\ touched'[o] = touched[o]
        <4>1. {} \in SUBSET Pairs /\ touched[o] \cup {} \subseteq touched'[o]
          BY <3>3
        <4> QED BY <1>0, <3>1, <3>2, <3>3, <4>1, OthersQuiet
      <3>4. ASSUME NEW k \in Pairs, ServerApply(c, k) PROVE QuietInv(o)'
        <4>1. CASE UNCHANGED <<table, touched>>
          BY <3>3, <4>1
        <4>2. CASE /\ table' = [table EXCEPT ![k] = ExecuteDiff(plan[c][k], table[k])]
                   /\ touched[o] \subseteq touched'[o]
                   /\ pc[o] \notin Early /\ table'[k] # table[k] => k \in touched'[o]
          <5> DEFINE ks == IF table'[k] = table[k] THEN {} ELSE {k}
          <5>1. ks \in SUBSET Pairs /\ (pc[o] \notin Early => touched[o] \cup ks \subseteq touched'[o])
            BY <4>2
          <5>2. table \in [Pairs -> MaybeRow]
            BY DEF TypeOK, Rows
          <5>3. \A k1 \in Pairs \ ks : table'[k1] = table[k1]
            BY <4>2, <5>2
          <5> HIDE DEF ks
          <5> QED BY <1>0, <3>1, <3>2, <5>1, <5>3, OthersQuiet
        <4> QED BY <2>2, <3>4, <4>1, <4>2, ApplyStep
      <3>5. CASE Client(c)
        <4>1. touched'[o] = touched[o]
          BY <2>2, <3>5, ClientFrame
        <4> QED BY <3>3, <3>5, <4>1, ClientFrame
      <3> QED BY <1>3, <3>3, <3>4, <3>5, ServerFrame
    <2> QED BY <2>1, <2>2
  <1> QED BY <1>1, <1>2, <1>3 DEF Next

(* An edit that nobody else interferes with comes out as its user asked, and    *)
(* is refused only for a row the client was never given, for any number of      *)
(* concurrent clients, databases, users and privileges, and whichever names     *)
(* are owned, listed or matched.                                                *)
THEOREM UndisturbedEditsSucceed == Spec => []UndisturbedEdit
  <1> DEFINE Quiet == \A c \in Clients : QuietInv(c)
  <1>1. Init => Quiet
    BY DEF Init, QuietInv, SeenInv, NoRows, Early
  <1>2. TypeOK /\ LocalInv /\ [Next]_vars /\ Quiet => Quiet'
    BY QuietStep
  <1>3. LocalInv /\ Quiet => UndisturbedEdit
    BY DEF LocalInv, RequestInv, QuietInv, QuietPair, UndisturbedEdit, ClientPCs, Early
  <1>4. LocalInv /\ TypeOK /\ TypeOK' /\ [Next]_vars => LocalInv'
    BY LocalStep
  <1> HIDE DEF Quiet
  <1> QED BY <1>1, <1>2, <1>3, <1>4, LocalInit, EditTypeCorrect, PTL DEF Spec

=============================================================================
