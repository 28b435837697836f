------------------------------ MODULE Requests --------------------------------
(***************************************************************************)
(* The server's handling of the requests about databases and users           *)
(* (server/session_handler.rs, server/sql/database_operations.rs,            *)
(* user_operations.rs, and the reading half of                               *)
(* database_privilege_operations.rs).                                       *)
(*                                                                         *)
(* A handler takes the names of its request one by one.  For each it         *)
(* validates the name, asks the database whether it exists, perhaps whether   *)
(* the account is locked, and runs its statement: one step each, since there  *)
(* is no transaction and other sessions work on the same database.  A session *)
(* may stop anywhere, as it does when its task is aborted: nothing here is    *)
(* fair.                                                                    *)
(***************************************************************************)
EXTENDS AccountStore, FiniteSets

CONSTANTS
    Sessions,
    All,           \* stands for the names of a request that gives none
    Owned,         \* for each session, the names that validation accepts
    Shown,         \* and those its user's regular expression selects
    Hits,          \* for each database name, the names that contain it
    MaxNames,      \* bound on the names of a request
    MaxSteps       \* bound on the requests, and on the edits of others

Names == Dbs \cup Users
Keys  == Names \cup {All}

ASSUME RequestsAssumption ==
    /\ Sessions # {} /\ All \notin Names
    /\ Owned \in [Sessions -> SUBSET Keys] /\ Shown \in [Sessions -> SUBSET Names]
    /\ \A s \in Sessions : All \in Owned[s]
    /\ Hits \in [Dbs -> SUBSET Dbs] /\ \A d \in Dbs : d \in Hits[d]
    /\ MaxNames \in Nat /\ MaxSteps \in Nat

VARIABLES
    steps,     \* requests and edits so far
    pc,        \* where each session stands
    req,       \* its request: kind, names and, for PasswdUser, the password
    todo,      \* the names it has not answered
    result,    \* results: the response so far
    told,      \* the generated password in the response
    row,       \* the databases whose rows were returned, for each name
    found,     \* the users found by ListAllUsers that await their databases
    listing,   \* what a listing returned: names, or pairs of database and user
    changed,   \* history: names this request has changed
    quiet      \* history: nobody else has changed anything since it began

vars == <<store, steps, pc, req, todo, result, told, row, found, listing, changed, quiet>>
reply == <<told, row, found, listing>>

CreateOps == {"CreateDatabases", "CreateUsers"}
LockOps   == {"LockUsers", "UnlockUsers"}
DbOps     == {"CreateDatabases", "DropDatabases", "ListDatabases", "ListPrivileges"}
UserOps   == {"CreateUsers", "DropUsers", "ListUsers"} \cup LockOps
AllOps    == {"ListAllDatabases", "ListAllUsers", "ListAllPrivileges"}
Results   == {"none", "ok", "validation", "exists", "missing", "already", "mysql_error"}

(* Some(names), or None for everything the user may see. *)
SeqsOf(S) == UNION {[1..k -> S] : k \in 1..MaxNames}

(* PasswordSource: a password, NoSecret for Clear, or "Generate". *)
Requests ==
    [op : DbOps, names : SeqsOf(Dbs), password : {NoSecret}]
    \cup [op : UserOps, names : SeqsOf(Users), password : {NoSecret}]
    \cup [op : {"PasswdUser"}, names : [1..1 -> Users], password : Secrets \cup {NoSecret, "Generate"}]
    \cup [op : AllOps, names : {<<All>>}, password : {NoSecret}]

NoRequest == [op |-> "None", names |-> <<>>, password |-> NoSecret]

Init ==
    /\ StoreInit
    /\ steps = 0
    /\ pc = [s \in Sessions |-> "next"]
    /\ req = [s \in Sessions |-> NoRequest]
    /\ todo = [s \in Sessions |-> <<>>]
    /\ result = [s \in Sessions |-> [n \in Keys |-> "none"]]
    /\ told = [s \in Sessions |-> NoSecret]
    /\ row = [s \in Sessions |-> [d \in Dbs |-> {}]]
    /\ found = [s \in Sessions |-> {}]
    /\ listing = [s \in Sessions |-> {}]
    /\ changed = [s \in Sessions |-> {}]
    /\ quiet = [s \in Sessions |-> TRUE]

-----------------------------------------------------------------------------
Goto(s, l) == pc' = [pc EXCEPT ![s] = l]
Count      == steps < MaxSteps /\ steps' = steps + 1

(* All names have their answer: the response is sent, or none was asked for. *)
Finished(s) == pc[s] = "next" /\ todo[s] = <<>>

(* handle_request, for the next request that is received. *)
Begin(s, r) ==
    /\ Finished(s)
    /\ Count
    /\ req' = [req EXCEPT ![s] = r]
    /\ todo' = [todo EXCEPT ![s] = r.names]
    /\ result' = [result EXCEPT ![s] = [n \in Keys |-> "none"]]
    /\ told' = [told EXCEPT ![s] = NoSecret]
    /\ row' = [row EXCEPT ![s] = [d \in Dbs |-> {}]]
    /\ found' = [found EXCEPT ![s] = {}]
    /\ listing' = [listing EXCEPT ![s] = {}]
    /\ changed' = [changed EXCEPT ![s] = {}]
    /\ quiet' = [quiet EXCEPT ![s] = TRUE]
    /\ UNCHANGED <<store, pc>>

(* The name at hand. *)
At(s, l, n) == pc[s] = l /\ todo[s] # <<>> /\ n = Head(todo[s])

(* Mutant: the loop goes on with the name after an error. *)
AnswerWithoutContinue(s, n, r) ==
    /\ result' = [result EXCEPT ![s][n] = r]
    /\ todo' = [todo EXCEPT ![s] = Tail(@)]
    /\ Goto(s, IF r = "mysql_error" THEN pc[s] ELSE "next")

(* results.insert: a name that comes twice gets the later answer. *)
Answer(s, n, r) ==
    /\ result' = [result EXCEPT ![s][n] = r]
    /\ todo' = [todo EXCEPT ![s] = Tail(@)]
    /\ Goto(s, "next")

UnchangedStore == UNCHANGED <<store, changed, quiet>>

(* validate_db_or_user_request *)
Reject(s, n) ==
    /\ At(s, "next", n)
    /\ n \notin Owned[s]
    /\ Answer(s, n, "validation")
    /\ UnchangedStore
    /\ UNCHANGED <<steps, req, reply>>

(* unsafe_database_exists and unsafe_user_exists *)
CheckExists(s, n) ==
    /\ At(s, "next", n)
    /\ n \in Owned[s] \ {All}
    /\ req[s].op \notin {"ListDatabases", "ListUsers"}
    /\ \/ Exists(n) /\ req[s].op \in CreateOps /\ Answer(s, n, "exists")
       \/ ~Exists(n) /\ req[s].op \notin CreateOps /\ Answer(s, n, "missing")
       \/ /\ Exists(n) <=> req[s].op \notin CreateOps
          /\ Goto(s, IF req[s].op \in LockOps THEN "lock"
                     ELSE IF req[s].op = "ListPrivileges" THEN "rows" ELSE "execute")
          /\ UNCHANGED <<todo, result>>
    /\ UnchangedStore
    /\ UNCHANGED <<steps, req, reply>>

(* database_user_is_locked_unsafe, which fails (see Fail) if the user is gone. *)
IsLocked(n) == n \in locked

(* lock_database_users *)
CheckUnlocked(s, n) ==
    /\ At(s, "lock", n)
    /\ req[s].op = "LockUsers"
    /\ n \in users
    /\ IF IsLocked(n) THEN Answer(s, n, "already") ELSE Goto(s, "execute") /\ UNCHANGED <<todo, result>>
    /\ UnchangedStore
    /\ UNCHANGED <<steps, req, reply>>

(* Mutant: the condition is the one of lock_database_users. *)
CheckLockedInverted(s, n) ==
    /\ At(s, "lock", n)
    /\ req[s].op = "UnlockUsers"
    /\ n \in users
    /\ IF IsLocked(n) THEN Answer(s, n, "already") ELSE Goto(s, "execute") /\ UNCHANGED <<todo, result>>
    /\ UnchangedStore
    /\ UNCHANGED <<steps, req, reply>>

(* unlock_database_users *)
CheckLocked(s, n) ==
    /\ At(s, "lock", n)
    /\ req[s].op = "UnlockUsers"
    /\ n \in users
    /\ IF IsLocked(n) THEN Goto(s, "execute") /\ UNCHANGED <<todo, result>> ELSE Answer(s, n, "already")
    /\ UnchangedStore
    /\ UNCHANGED <<steps, req, reply>>

(* PasswordSource::Generate makes a password; the others make none. *)
Password(s) == IF req[s].password = "Generate" THEN Secrets ELSE {req[s].password}

(* The statement takes effect. *)
Run(s, n, p) ==
    /\ Statement(req[s].op, n, p)
    /\ changed' = [changed EXCEPT ![s] = @ \cup {n}]
    /\ quiet' = [t \in Sessions |-> t = s /\ quiet[t]]

Execute(s, n) ==
    /\ At(s, "execute", n)
    /\ \E p \in Password(s) :
           /\ Run(s, n, p)
           /\ told' = [told EXCEPT ![s] = IF req[s].password = "Generate" THEN p ELSE NoSecret]
    /\ Answer(s, n, "ok")
    /\ UNCHANGED <<steps, req, row, found, listing>>

(* Mutant: a statement whose answer is lost is tried again. *)
LoseAnswerRetries(s, n) ==
    /\ At(s, "execute", n)
    /\ \E p \in Password(s) : Run(s, n, p)
    /\ Goto(s, "next")
    /\ UNCHANGED <<steps, req, todo, result, reply>>

(* The statement takes effect, but the connection fails before its answer. *)
LoseAnswer(s, n) ==
    /\ At(s, "execute", n)
    /\ \E p \in Password(s) : Run(s, n, p)
    /\ Answer(s, n, "mysql_error")
    /\ UNCHANGED <<steps, req, reply>>

(* A query or a statement fails: always possible, and certain where the       *)
(* answer of an earlier query is no longer true.                             *)
Fail(s, n) ==
    /\ At(s, pc[s], n)
    /\ n \in Owned[s]
    /\ Answer(s, n, "mysql_error")
    /\ UnchangedStore
    /\ UNCHANGED <<steps, req, reply>>

-----------------------------------------------------------------------------
(* list_databases: one query, whose last condition selects every database     *)
(* with the requested name in its own; the first row is taken.               *)
ListDatabase(s, n) ==
    /\ At(s, "next", n)
    /\ n \in Owned[s]
    /\ req[s].op = "ListDatabases"
    /\ \/ \E d \in Hits[n] \cap dbs : row' = [row EXCEPT ![s][n] = {d}] /\ Answer(s, n, "ok")
       \/ Hits[n] \cap dbs = {} /\ Answer(s, n, "missing") /\ UNCHANGED row
    /\ UnchangedStore
    /\ UNCHANGED <<steps, req, told, found, listing>>

(* unsafe_get_database_privileges, after the existence check. *)
SelectRows(s, n) ==
    /\ At(s, "rows", n)
    /\ listing' = [listing EXCEPT ![s] = @ \cup {k \in rows : k[1] = n}]
    /\ Answer(s, n, "ok")
    /\ UnchangedStore
    /\ UNCHANGED <<steps, req, told, row, found>>

(* list_database_users: the account, then the databases. *)
SelectUser(s, n) ==
    /\ At(s, "next", n)
    /\ n \in Owned[s]
    /\ req[s].op = "ListUsers"
    /\ \/ n \in users /\ Goto(s, "databases") /\ UNCHANGED <<todo, result>>
       \/ n \notin users /\ Answer(s, n, "missing")
    /\ UnchangedStore
    /\ UNCHANGED <<steps, req, reply>>

(* set_databases_where_user_has_privileges: rows without a privilege are left out. *)
SelectUserDatabases(s, n) ==
    /\ At(s, "databases", n)
    /\ n # All
    /\ listing' = [listing EXCEPT ![s] = @ \cup {k \in granting : k[2] = n}]
    /\ Answer(s, n, "ok")
    /\ UnchangedStore
    /\ UNCHANGED <<steps, req, told, row, found>>

(* list_all_databases_for_user *)
ListAllDatabases(s) ==
    /\ At(s, "next", All)
    /\ req[s].op = "ListAllDatabases"
    /\ listing' = [listing EXCEPT ![s] = dbs \cap Shown[s]]
    /\ Answer(s, All, "ok")
    /\ UnchangedStore
    /\ UNCHANGED <<steps, req, told, row, found>>

(* get_all_database_privileges: the rows of databases that exist. *)
ListAllPrivileges(s) ==
    /\ At(s, "next", All)
    /\ req[s].op = "ListAllPrivileges"
    /\ listing' = [listing EXCEPT ![s] = {k \in rows : k[1] \in dbs \cap Shown[s]}]
    /\ Answer(s, All, "ok")
    /\ UnchangedStore
    /\ UNCHANGED <<steps, req, told, row, found>>

(* list_all_database_users_for_unix_user: the accounts, whose password and lock  *)
(* columns nothing here depends on ...                                         *)
ListAllUsers(s) ==
    /\ At(s, "next", All)
    /\ req[s].op = "ListAllUsers"
    /\ found' = [found EXCEPT ![s] = users \cap Shown[s]]
    /\ Goto(s, "databases")
    /\ UnchangedStore
    /\ UNCHANGED <<steps, req, todo, result, told, row, listing>>

(* ... then the databases of each; an error is the answer to everything. *)
ListAllUsersDatabases(s, u) ==
    /\ At(s, "databases", All)
    /\ u \in found[s]
    /\ found' = [found EXCEPT ![s] = @ \ {u}]
    /\ listing' = [listing EXCEPT ![s] = @ \cup {k \in granting : k[2] = u}]
    /\ UnchangedStore
    /\ UNCHANGED <<steps, pc, req, todo, result, told, row>>

(* Mutant: the accounts are returned before all have their databases. *)
ListAllUsersEndEarly(s) ==
    /\ At(s, "databases", All)
    /\ Answer(s, All, "ok")
    /\ UnchangedStore
    /\ UNCHANGED <<steps, req, reply>>

ListAllUsersEnd(s) ==
    /\ At(s, "databases", All)
    /\ found[s] = {}
    /\ Answer(s, All, "ok")
    /\ UnchangedStore
    /\ UNCHANGED <<steps, req, reply>>

-----------------------------------------------------------------------------
(* apply_privilege_diffs, in another session. *)
EditPrivileges(k) ==
    /\ Count
    /\ EditRow(k)
    /\ quiet' = [s \in Sessions |-> FALSE]
    /\ UNCHANGED <<pc, req, todo, result, reply, changed>>

HandleName(s, n) ==
    \/ Reject(s, n) \/ CheckExists(s, n) \/ CheckUnlocked(s, n) \/ CheckLocked(s, n)
    \/ Execute(s, n) \/ LoseAnswer(s, n) \/ Fail(s, n) \/ ListDatabase(s, n) \/ SelectRows(s, n)
    \/ SelectUser(s, n) \/ SelectUserDatabases(s, n)

HandleAll(s) ==
    \/ ListAllDatabases(s) \/ ListAllPrivileges(s) \/ ListAllUsers(s) \/ ListAllUsersEnd(s)
    \/ \E u \in Users : ListAllUsersDatabases(s, u)

Next ==
    \/ \E s \in Sessions :
           \/ \E r \in Requests : Begin(s, r)
           \/ \E n \in Keys : HandleName(s, n)
           \/ HandleAll(s)
    \/ \E k \in Dbs \X Users : EditPrivileges(k)

Spec == Init /\ [][Next]_vars

-----------------------------------------------------------------------------
PCs == {"next", "lock", "execute", "rows", "databases"}

(* Types; and a session in the middle of a name has one at hand. *)
TypeOK ==
    /\ StoreTypeOK
    /\ steps \in 0..MaxSteps
    /\ pc \in [Sessions -> PCs]
    /\ req \in [Sessions -> Requests \cup {NoRequest}]
    /\ todo \in [Sessions -> Seq(Keys)]
    /\ result \in [Sessions -> [Keys -> Results]]
    /\ told \in [Sessions -> Secrets \cup {NoSecret}]
    /\ row \in [Sessions -> [Dbs -> SUBSET Dbs]]
    /\ found \in [Sessions -> SUBSET Users]
    /\ listing \in [Sessions -> SUBSET (Dbs \cup (Dbs \X Users))]
    /\ changed \in [Sessions -> SUBSET Names]
    /\ quiet \in [Sessions -> BOOLEAN]
    /\ \A s \in Sessions : pc[s] # "next" => todo[s] # <<>>

-----------------------------------------------------------------------------
Asked(s) == {req[s].names[i] : i \in DOMAIN req[s].names}

(* However the statements of the sessions interleave and fail, each name of a  *)
(* request is dealt with as if at one moment: what the answer says of it is    *)
(* true then, a success changes the database then, no other answer but a       *)
(* MySQL error does, and each name, as often as it is given, is dealt with     *)
(* once and in order, none left out of the response.                           *)
Atomic == INSTANCE AtomicRequests WITH
    op <- [s \in Sessions |-> req[s].op], asked <- [s \in Sessions |-> Asked(s)], left <- todo

AtomicSpec == Atomic!Spec

(* An answer that is neither a success nor a MySQL error means that the        *)
(* request has not changed what is named, if the name was given once (what     *)
(* becomes of a repeated one is EachNameIsTriedOnce, below); a success means    *)
(* that it has, however often the name was given.                              *)
ErrorMeansUnchanged ==
    \A s \in Sessions, n \in Names :
        /\ result[s][n] = "ok" /\ req[s].op \in CreateOps \cup LockOps => n \in changed[s]
        /\ /\ result[s][n] \in {"validation", "exists", "missing", "already"}
           /\ \A i, j \in DOMAIN req[s].names :
                  req[s].names[i] = n /\ req[s].names[j] = n => i = j
           => n \notin changed[s]

(* What a finished request claims about the name n. *)
Claim(s, n) ==
    LET r == result[s][n]
        o == req[s].op
    IN  /\ r = "exists" => Exists(n)
        /\ r = "missing" => ~Exists(n)
        /\ r = "already" => n \in users /\ (n \in locked <=> o = "LockUsers")
        /\ r = "ok" => CASE o \in CreateOps -> Exists(n)
                         [] o \in {"DropDatabases", "DropUsers"} -> ~Exists(n)
                         [] o \in LockOps -> n \in users /\ (n \in locked <=> o = "LockUsers")
                         [] o = "PasswdUser" -> secret[n] =
                                IF req[s].password = "Generate" THEN told[s] ELSE req[s].password
                         [] o = "ListUsers" -> n \in users /\ {k \in listing[s] : k[2] = n} = {k \in granting : k[2] = n}
                         [] o = "ListPrivileges" -> n \in dbs /\ {k \in listing[s] : k[1] = n} = {k \in rows : k[1] = n}
                         [] o = "ListAllDatabases" -> listing[s] = dbs \cap Shown[s]
                         [] o = "ListAllPrivileges" -> listing[s] = {k \in rows : k[1] \in dbs \cap Shown[s]}
                         [] o = "ListAllUsers" -> listing[s] = {k \in granting : k[2] \in users \cap Shown[s]}
                         [] OTHER -> TRUE

(* When nobody else has changed anything since a request began, its response   *)
(* describes the database as it is: what is listed or found missing, and what   *)
(* was created, dropped, locked, unlocked or given a password, the generated    *)
(* one that is reported included.                                              *)
UndisturbedRequest ==
    \A s \in Sessions : quiet[s] /\ Finished(s) => \A n \in Keys : Claim(s, n)

(* The information shown for a database is that database's own. *)
ListedRowIsTheDatabase ==
    \A s \in Sessions, d \in Dbs : row[s][d] \subseteq {d}

(* A name that is given more than once is tried once, so that nobody is told    *)
(* that a database exists already, or is missing, because of the same request.  *)
(* The repository says that arguments are de-duplicated; the names are sent as  *)
(* they are given.                                                             *)
EachNameIsTriedOnce ==
    \A s \in Sessions, n \in Names :
        result[s][n] \in {"validation", "exists", "missing", "already"} => n \notin changed[s]

=============================================================================
