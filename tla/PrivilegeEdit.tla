---------------------------- MODULE PrivilegeEdit -----------------------------
(***************************************************************************)
(* Editing privileges: the edit-privs command of several clients            *)
(* (client/commands/edit_privs.rs) and the server's handling of their       *)
(* ModifyPrivileges requests (server/sql/database_privilege_operations.rs). *)
(*                                                                         *)
(* A client fetches the rows it is shown, of all databases or of one, lets  *)
(* its user change them in an editor or by command-line entries, computes   *)
(* the differences to what it fetched, asks which of the databases and      *)
(* users exist and are its own, and sends what is left.  The server         *)
(* checks and applies the diffs one by one, and reloads the grant tables at *)
(* the end.  There is no transaction: every SQL statement is a step of its  *)
(* own, and other sessions, which may edit the same rows or create and drop *)
(* databases and users, run between any two of them.                        *)
(***************************************************************************)
EXTENDS PrivilegeDiff, Naturals

CONSTANTS
    Clients,   \* edit-privs commands, each run once
    Dbs,       \* database names
    Users,     \* database user names
    Owned,     \* names that request validation accepts from each client
    Shown,     \* databases that the regular expression of its queries selects
    Hits,      \* databases whose name contains the text of a database's name
    Stored,    \* rows that mysql.db may hold at first
    Wishes,    \* rows that each client's user may leave in the editor
    Entries,   \* entries each client's user may give, at most one for a pair
    MaxChurn   \* bound on the databases and users created and dropped

Pairs  == Dbs \X Users
Rows   == [Pairs -> MaybeRow]
NoRows == [k \in Pairs |-> NoRow]
NoPlan == [k \in Pairs |-> Noop]

ASSUME ChurnAssumption == MaxChurn \in Nat
ASSUME InputsAssumption ==
    /\ Stored \subseteq Rows
    /\ \A c \in Clients : Wishes[c] \subseteq Rows
    /\ \A c \in Clients : \A entry \in Entries[c] :
           DOMAIN entry \subseteq Pairs /\ entry \in [DOMAIN entry -> Entry]
ASSUME NamesAssumption ==
    /\ Owned \in [Clients -> SUBSET (Dbs \cup Users)]
    /\ Shown \in [Clients -> SUBSET Dbs]
    /\ Hits \in [Dbs -> SUBSET Dbs]

VARIABLES
    dbs, users,  \* the databases and users that exist
    table,       \* mysql.db
    grants,      \* the privileges the database server enforces
    churn,       \* databases and users created or dropped so far
    pc,          \* where each client, and the session serving it, stands
    seen,        \* existing_privilege_rows: what the client fetched
    known,       \* databases whose rows it was given, or is about to be
    want,        \* the rows its user asks for
    plan,        \* the diffs, Noop where there is none
    bad,         \* pairs whose database or user was answered with an error
    todo,        \* pairs whose diff the server has not dealt with
    cur,         \* the pair it is dealing with, if any
    result,      \* what the response will say of each pair
    touched,     \* history: pairs others have changed since the client's fetch
    dirty        \* history: sessions that wrote to mysql.db since the last flush

world   == <<dbs, users, churn>>
store   == <<table, grants, dirty>>
fetched == <<seen, known>>
client  == <<fetched, want, plan, bad>>
request == <<todo, cur, result>>
vars    == <<world, store, pc, client, request, touched>>

(* The editor's loop, the rest of the client, and the server's handler. *)
EditorPCs == {"editor", "editor_dbs", "editor_users"}
ClientPCs == {"start", "use", "fetched", "planned", "dbs_checked", "reduce"} \cup EditorPCs
ServerPCs == {"next", "user", "validate", "apply"}
(* "quit": no request was sent; "unflushed": done, but the flush failed;     *)
(* "aborted": the session ended within the handler.                          *)
EndPCs    == {"quit", "done", "unflushed", "aborted"}

Results == {"none", "ok", "missing", "sql_error", "does_not_apply"}

Goto(c, l)       == pc' = [pc EXCEPT ![c] = l]
Set(f, c, value) == [f EXCEPT ![c] = value]

(* Record for every client that has fetched, but those in cs, that somebody   *)
(* changed these pairs.                                                      *)
Touch(ks, cs) ==
    touched' = [o \in Clients |->
        IF o \in cs \/ pc[o] \in {"start", "use", "quit"} THEN touched[o] ELSE touched[o] \cup ks]

-----------------------------------------------------------------------------
(* Rows may belong to databases that were dropped: DROP DATABASE keeps them. *)
Init ==
    /\ dbs \in SUBSET Dbs
    /\ users \in SUBSET Users
    /\ table \in Stored
    /\ \A k \in Pairs : table[k] # NoRow => k[2] \in users
    /\ grants = table
    /\ churn = 0
    /\ pc = [c \in Clients |-> "start"]
    /\ seen = [c \in Clients |-> NoRows]
    /\ known = [c \in Clients |-> {}]
    /\ want = [c \in Clients |-> NoRows]
    /\ plan = [c \in Clients |-> NoPlan]
    /\ bad = [c \in Clients |-> {}]
    /\ todo = [c \in Clients |-> {}]
    /\ cur = [c \in Clients |-> {}]
    /\ result = [c \in Clients |-> [k \in Pairs |-> "none"]]
    /\ touched = [c \in Clients |-> {}]
    /\ dirty = {}

-----------------------------------------------------------------------------
(* edit_database_privileges *)

(* The rows of some databases. *)
RowsOf(ds) == [k \in Pairs |-> IF k[1] \in ds THEN table[k] ELSE NoRow]

(* ListPrivileges(None), get_all_database_privileges: one query, for the rows   *)
(* of the databases that exist and that create_user_group_matching_regex        *)
(* selects.  Not all of these are the client's own, and not all of its own are  *)
(* among them.  A failure ends the command (Quit).                              *)
FetchAll(c) ==
    /\ pc[c] = "start"
    /\ seen' = Set(seen, c, RowsOf(dbs \cap Shown[c]))
    /\ known' = Set(known, c, Shown[c])
    /\ touched' = Set(touched, c, {})
    /\ Goto(c, "fetched")
    /\ UNCHANGED <<world, store, want, plan, bad, request>>

(* ListPrivileges(Some([d])), for the use_database of mysql-dbadm editperm;     *)
(* get_databases_privilege_data first looks whether d is owned and exists.  An  *)
(* error for d, these or the query's own, only prints Skipping: the editor      *)
(* opens without rows.                                                          *)
UseDatabase(c, d) ==
    /\ pc[c] = "start"
    /\ \/ d \in Owned[c] \cap dbs /\ known' = Set(known, c, {d}) /\ Goto(c, "use")
       \/ Goto(c, "editor") /\ UNCHANGED known
    /\ UNCHANGED <<world, store, seen, want, plan, bad, request, touched>>

(* unsafe_get_database_privileges: a query of its own, which may fail as well.  *)
GetDatabasePrivileges(c) ==
    /\ pc[c] = "use"
    /\ \/ seen' = Set(seen, c, RowsOf(known[c])) /\ UNCHANGED known
       \/ known' = Set(known, c, {}) /\ UNCHANGED seen
    /\ touched' = Set(touched, c, {})
    /\ Goto(c, "editor")
    /\ UNCHANGED <<world, store, want, plan, bad, request>>

(* The -p entries. *)
EditByEntries(c, entry) ==
    /\ pc[c] = "fetched"
    /\ plan' = Set(plan, c, [k \in Pairs |->
                  IF k \in DOMAIN entry THEN CreateOrModify(seen[c][k], EntryDiff(entry[k]))
                  ELSE Noop])
    /\ want' = Set(want, c, [k \in Pairs |->
                  IF k \in DOMAIN entry THEN EntryGoal(entry[k], seen[c][k]) ELSE seen[c][k]])
    /\ Goto(c, "planned")
    /\ UNCHANGED <<world, store, fetched, bad, request, touched>>

(* edit_privileges_with_editor: the rows the user leaves in the editor. *)
EditInEditor(c, to) ==
    /\ pc[c] \in {"fetched", "editor"}
    /\ want' = Set(want, c, to)
    /\ Goto(c, "editor_dbs")
    /\ UNCHANGED <<world, store, fetched, plan, bad, request, touched>>

(* ListDatabases of names: an error for those that are not the client's own,  *)
(* those that occur in the name of no database there is, and maybe for others  *)
(* whose query fails.                                                         *)
DatabaseErrors(c, ds) ==
    {d \in Dbs : d \notin Owned[c] \/ Hits[d] \cap dbs = {}} \subseteq ds

(* ListUsers of names, which are looked up as they are. *)
UserErrors(c, us) == {u \in Users : u \notin Owned[c] \/ u \notin users} \subseteq us

(* detect_ownership_and_existence_errors asks about the databases and the    *)
(* users of the diffs, one after the other.                                  *)
Changed(c) == {k \in Pairs : DiffPair(seen[c][k], want[c][k]) # Noop}

EditorDatabasesExist(c, ds) ==
    /\ pc[c] = "editor_dbs"
    /\ DatabaseErrors(c, ds)
    /\ bad' = Set(bad, c, {k \in Changed(c) : k[1] \in ds})
    /\ Goto(c, "editor_users")
    /\ UNCHANGED <<world, store, fetched, want, plan, request, touched>>

(* Lines with an error send the user back to the editor, or are ignored: the  *)
(* original row, if there was one, takes their place.  A line that was       *)
(* removed has no error.                                                     *)
EditorUsersExist(c, us) ==
    LET wrong  == bad[c] \cup {k \in Changed(c) : k[2] \in us}
        errors == {k \in wrong : want[c][k] # NoRow}
        rows   == [k \in Pairs |-> IF k \in errors THEN seen[c][k] ELSE want[c][k]]
    IN
    /\ pc[c] = "editor_users"
    /\ UserErrors(c, us)
    /\ \/ /\ errors # {}
          /\ Goto(c, "editor")
          /\ UNCHANGED <<want, plan>>
       \/ /\ want' = Set(want, c, rows)
          /\ plan' = Set(plan, c, [k \in Pairs |-> DiffPair(seen[c][k], rows[k])])
          /\ Goto(c, "planned")
    /\ bad' = Set(bad, c, {})
    /\ UNCHANGED <<world, store, fetched, request, touched>>

(* databases_exist and users_exist, for the databases and users of the diffs. *)
DatabasesExist(c, ds) ==
    /\ pc[c] = "planned"
    /\ DatabaseErrors(c, ds)
    /\ bad' = Set(bad, c, {k \in Pairs : plan[c][k] # Noop /\ k[1] \in ds})
    /\ Goto(c, "dbs_checked")
    /\ UNCHANGED <<world, store, fetched, want, plan, request, touched>>

UsersExist(c, us) ==
    /\ pc[c] = "dbs_checked"
    /\ UserErrors(c, us)
    /\ bad' = Set(bad, c, bad[c] \cup {k \in Pairs : plan[c][k] # Noop /\ k[2] \in us})
    /\ Goto(c, "reduce")
    /\ UNCHANGED <<world, store, fetched, want, plan, request, touched>>

(* Reduce the diffs, skip those for names with an error, and send the rest   *)
(* (if there are any, and the user confirms).                                *)
Submit(c) ==
    LET diffs == [k \in Pairs |->
            IF k \in bad[c] THEN Noop
            ELSE ReduceEnd(seen[c][k], ReduceStep(Noop, plan[c][k]))]
    IN
    /\ pc[c] = "reduce"
    /\ \A k \in Pairs : diffs[k] # Error
    /\ plan' = Set(plan, c, diffs)
    /\ todo' = Set(todo, c, {k \in Pairs : diffs[k] # Noop})
    /\ todo'[c] # {}
    /\ bad' = Set(bad, c, {})
    /\ Goto(c, "next")
    /\ UNCHANGED <<world, store, fetched, want, cur, result, touched>>

(* No change to make, not confirmed, a failed request, no terminal, ^C: the   *)
(* command ends, having sent nothing that changes anything, and what it knew *)
(* is gone.                                                                  *)
Quit(c) ==
    /\ pc[c] \in ClientPCs
    /\ Goto(c, "quit")
    /\ seen' = Set(seen, c, NoRows) /\ known' = Set(known, c, {})
    /\ want' = Set(want, c, NoRows) /\ plan' = Set(plan, c, NoPlan)
    /\ bad' = Set(bad, c, {}) /\ touched' = Set(touched, c, {})
    /\ UNCHANGED <<world, store, request>>

-----------------------------------------------------------------------------
(* apply_privilege_diffs.  The diffs come in the order of a BTreeSet: New,    *)
(* then Modified, then Deleted.  Validation accepts the names in them: the   *)
(* client left out those with an error, and what decides about a name (the   *)
(* session's user, groups and copy of the denylist) does not change within a *)
(* session.                                                                  *)

Rank(d) == IF d.kind = "New" THEN 1 ELSE IF d.kind = "Modified" THEN 2 ELSE 3

Comes1st(c, k) ==
    k \in todo[c] /\ \A o \in todo[c] : Rank(plan[c][k]) <= Rank(plan[c][o])

(* Mutant: the first failure ends the loop. *)
AnswerStops(c, k, r) ==
    /\ result' = Set(result, c, [result[c] EXCEPT ![k] = r])
    /\ todo' = Set(todo, c, IF r = "ok" THEN todo[c] \ {k} ELSE {})
    /\ cur' = Set(cur, c, {})
    /\ Goto(c, "next")

(* The outcome for a pair; on to the next. *)
Answer(c, k, r) ==
    /\ result' = Set(result, c, [result[c] EXCEPT ![k] = r])
    /\ todo' = Set(todo, c, todo[c] \ {k})
    /\ cur' = Set(cur, c, {})
    /\ Goto(c, "next")

(* unsafe_database_exists *)
ServerDatabaseExists(c, k) ==
    /\ pc[c] = "next"
    /\ Comes1st(c, k)
    /\ \/ /\ k[1] \in dbs
          /\ cur' = Set(cur, c, {k})
          /\ Goto(c, "user")
          /\ UNCHANGED <<todo, result>>
       \/ k[1] \notin dbs /\ Answer(c, k, "missing")
       \/ Answer(c, k, "sql_error")
    /\ UNCHANGED <<world, store, client, touched>>

(* unsafe_user_exists *)
ServerUserExists(c, k) ==
    /\ pc[c] = "user"
    /\ k \in cur[c]
    /\ \/ k[2] \in users /\ Goto(c, "validate") /\ UNCHANGED request
       \/ k[2] \notin users /\ Answer(c, k, "missing")
       \/ Answer(c, k, "sql_error")
    /\ UNCHANGED <<world, store, client, touched>>

(* validate_diff, on the row as it is now. *)
ServerValidate(c, k) ==
    /\ pc[c] = "validate"
    /\ k \in cur[c]
    /\ \/ DiffApplies(plan[c][k], table[k]) /\ Goto(c, "apply") /\ UNCHANGED request
       \/ ~DiffApplies(plan[c][k], table[k]) /\ Answer(c, k, "does_not_apply")
       \/ Answer(c, k, "sql_error")
    /\ UNCHANGED <<world, store, client, touched>>

(* unsafe_apply_privilege_diff: one statement on whatever row there is then. *)
ServerApply(c, k) ==
    /\ pc[c] = "apply"
    /\ k \in cur[c]
    /\ \/ /\ ~StatementFails(plan[c][k], table[k])
          /\ table' = [table EXCEPT ![k] = ExecuteDiff(plan[c][k], table[k])]
          /\ dirty' = dirty \cup {c}
          /\ Touch(IF table'[k] = table[k] THEN {} ELSE {k}, {c})
          /\ Answer(c, k, "ok")
       \/ /\ Answer(c, k, "sql_error")
          /\ UNCHANGED <<table, dirty, touched>>
    /\ UNCHANGED <<world, grants, client>>

(* Mutant: reload the grant tables only if every diff was applied. *)
ServerFlushIfAllOk(c) ==
    /\ pc[c] = "next"
    /\ todo[c] = {}
    /\ IF \A k \in Pairs : result[c][k] \in {"none", "ok"}
       THEN grants' = table /\ dirty' = {}
       ELSE UNCHANGED <<grants, dirty>>
    /\ Goto(c, "done")
    /\ UNCHANGED <<world, table, client, request, touched>>

(* FLUSH PRIVILEGES, whatever the outcomes; a failure is only logged. *)
ServerFlush(c) ==
    /\ pc[c] = "next"
    /\ todo[c] = {}
    /\ \/ grants' = table /\ dirty' = {} /\ Goto(c, "done")
       \/ UNCHANGED <<grants, dirty>> /\ Goto(c, "unflushed")
    /\ UNCHANGED <<world, table, client, request, touched>>

(* The session task is aborted by a shutdown, or the server process killed. *)
ServerAborted(c) ==
    /\ pc[c] \in ServerPCs
    /\ Goto(c, "aborted")
    /\ UNCHANGED <<world, store, client, request, touched>>

-----------------------------------------------------------------------------
(* Other sessions.  Each of these handlers looks first whether the name      *)
(* exists, and the statement fails if that has changed since: together, one  *)
(* step or none.                                                             *)

Churn == churn < MaxChurn /\ churn' = churn + 1

(* create_databases *)
CreateDatabase(d) ==
    /\ Churn
    /\ d \notin dbs
    /\ dbs' = dbs \cup {d}
    /\ Touch({k \in Pairs : k[1] = d}, {})
    /\ UNCHANGED <<users, store, pc, client, request>>

(* drop_databases: the rows for the database stay. *)
DropDatabase(d) ==
    /\ Churn
    /\ d \in dbs
    /\ dbs' = dbs \ {d}
    /\ Touch({k \in Pairs : k[1] = d}, {})
    /\ UNCHANGED <<users, store, pc, client, request>>

(* create_database_users *)
CreateUser(u) ==
    /\ Churn
    /\ u \notin users
    /\ users' = users \cup {u}
    /\ UNCHANGED <<dbs, store, pc, client, request, touched>>

(* drop_database_users: DROP USER takes the user's rows with it, in the table  *)
(* and in what is enforced.                                                  *)
DropUser(u) ==
    /\ Churn
    /\ u \in users
    /\ users' = users \ {u}
    /\ table' = [k \in Pairs |-> IF k[2] = u THEN NoRow ELSE table[k]]
    /\ grants' = [k \in Pairs |-> IF k[2] = u THEN NoRow ELSE grants[k]]
    /\ Touch({k \in Pairs : k[2] = u}, {})
    /\ UNCHANGED <<dbs, dirty, pc, client, request>>

-----------------------------------------------------------------------------
Client(c) ==
    \/ FetchAll(c) \/ GetDatabasePrivileges(c) \/ Submit(c) \/ Quit(c)
    \/ \E d \in Dbs : UseDatabase(c, d)
    \/ \E ds \in SUBSET Dbs : EditorDatabasesExist(c, ds) \/ DatabasesExist(c, ds)
    \/ \E us \in SUBSET Users : EditorUsersExist(c, us) \/ UsersExist(c, us)
    \/ \E entry \in Entries[c] : EditByEntries(c, entry)
    \/ \E to \in Wishes[c] : EditInEditor(c, to)

Server(c) ==
    \/ ServerFlush(c) \/ ServerAborted(c)
    \/ \E k \in Pairs : \/ ServerDatabaseExists(c, k) \/ ServerUserExists(c, k)
                        \/ ServerValidate(c, k) \/ ServerApply(c, k)

Others ==
    \/ \E d \in Dbs : CreateDatabase(d) \/ DropDatabase(d)
    \/ \E u \in Users : CreateUser(u) \/ DropUser(u)

Next == Others \/ \E c \in Clients : Client(c) \/ Server(c)

Spec == Init /\ [][Next]_vars

-----------------------------------------------------------------------------
TypeOK ==
    /\ dbs \in SUBSET Dbs /\ users \in SUBSET Users
    /\ table \in Rows /\ grants \in Rows
    /\ churn \in 0..MaxChurn
    /\ pc \in [Clients -> ClientPCs \cup ServerPCs \cup EndPCs]
    /\ seen \in [Clients -> Rows] /\ want \in [Clients -> Rows]
    /\ known \in [Clients -> SUBSET Dbs]
    /\ plan \in [Clients -> [Pairs -> PrivilegesDiff]]
    /\ bad \in [Clients -> SUBSET Pairs]
    /\ todo \in [Clients -> SUBSET Pairs]
    /\ cur \in [Clients -> SUBSET Pairs]
    /\ result \in [Clients -> [Pairs -> Results]]
    /\ touched \in [Clients -> SUBSET Pairs]
    /\ dirty \in SUBSET Clients

-----------------------------------------------------------------------------
(* A pair that nobody else has changed since the client fetched comes out as   *)
(* its user asked.  When the server reports success the row is the one asked   *)
(* for, of a database and a user that exist.  The diff the client computed is  *)
(* found not to apply only if the client was not given the rows of the         *)
(* database: its name is one that validation accepts and the listing leaves    *)
(* out (the prefix of a denied group, or no text after the prefix), it is not  *)
(* the one database asked for, or reading it failed.                           *)
UndisturbedEdit ==
    \A c \in Clients : \A k \in Pairs \ touched[c] :
        /\ result[c][k] = "does_not_apply" => k[1] \notin known[c]
        /\ result[c][k] = "ok" => table[k] = want[c][k] /\ k[1] \in dbs /\ k[2] \in users

(* c's user asked for this change of a row: in a row that stays only          *)
(* privileges the user changed are changed, and to what was asked for.        *)
Intended(c, k, old, new) ==
    LET from == seen[c][k]
        to   == want[c][k]
    IN  /\ old = NoRow => from = NoRow /\ new = to
        /\ new = NoRow => from # NoRow /\ to = NoRow
        /\ old # NoRow /\ new # NoRow =>
               \A p \in Privs : new[p] # old[p] =>
                   from # NoRow /\ to # NoRow /\ from[p] # to[p] /\ new[p] = to[p]

(* Concurrent edits of one row do not undo each other: whatever was read when  *)
(* and however the sessions interleave, a statement inserts, deletes or       *)
(* changes only what its own user meant to.  Only DROP USER also takes rows.   *)
OnlyIntendedChanges ==
    [][\A k \in Pairs : table'[k] # table[k] =>
           \/ \E c \in Clients : k \in cur[c] /\ Intended(c, k, table[k], table'[k])
           \/ table'[k] = NoRow /\ k[2] \in users \ users']_vars

(* What the database server enforces differs from mysql.db only while a       *)
(* session that wrote to it since the last flush is still in its handler, was  *)
(* aborted in it, or failed to flush.  A handler that ends normally leaves     *)
(* nothing behind, of its own writes or of others'.                            *)
GrantsFollowTable ==
    grants # table => \E c \in dirty : pc[c] \in ServerPCs \cup {"unflushed", "aborted"}

(* A failure for one pair does not stop the others: the response has an       *)
(* outcome for exactly the pairs that a diff was sent for.                     *)
EveryDiffIsAnswered ==
    \A c \in Clients : pc[c] \in {"done", "unflushed"} =>
        \A k \in Pairs : result[c][k] = "none" <=> plan[c][k] = Noop

(* A pair reported as modified successfully has been modified: right after    *)
(* the statement the row holds what was asked for.                            *)
OkMeansModified ==
    [][\A c \in Clients, k \in Pairs :
           result'[c][k] = "ok" /\ result[c][k] # "ok" =>
               IF want[c][k] = NoRow THEN table'[k] = NoRow
               ELSE /\ table'[k] # NoRow
                    /\ \A p \in Privs : seen[c][k] = NoRow \/ seen[c][k][p] # want[c][k][p]
                           => table'[k][p] = want[c][k][p]]_vars

=============================================================================
