---------------------------- MODULE AccountStore ------------------------------
(***************************************************************************)
(* The part of the MySQL or MariaDB server that muscl works on, and the      *)
(* statements muscl runs on it: each takes effect as a whole, or fails and    *)
(* changes nothing.  Modelled from how server/sql/ uses it.                  *)
(***************************************************************************)
EXTENDS Naturals, Sequences

CONSTANTS
    Dbs, Users,       \* names of databases and of database users
    Secrets,          \* passwords
    NoSecret          \* the empty password

ASSUME NamesAssumption == Dbs \cap Users = {} /\ NoSecret \notin Secrets

VARIABLES
    dbs,      \* the databases that exist
    users,    \* the users that exist
    locked,   \* the users whose account is locked
    secret,   \* their passwords
    rows,     \* mysql.db: the pairs of a database and a user that have a row
    granting  \* the rows in which at least one privilege is 'Y'

store == <<dbs, users, locked, secret, rows, granting>>

StoreInit ==
    /\ dbs \in SUBSET Dbs
    /\ users \in SUBSET Users
    /\ locked \in SUBSET users
    /\ secret = [u \in Users |-> NoSecret]
    /\ rows = {} /\ granting = {}

StoreTypeOK ==
    /\ dbs \in SUBSET Dbs /\ users \in SUBSET Users /\ locked \in SUBSET users
    /\ secret \in [Users -> Secrets \cup {NoSecret}]
    /\ rows \in SUBSET (Dbs \X users) /\ granting \in SUBSET rows

Exists(n) == n \in dbs \/ n \in users

CreateDatabase(d) ==
    /\ d \notin dbs
    /\ dbs' = dbs \cup {d}
    /\ UNCHANGED <<users, locked, secret, rows, granting>>

(* DROP DATABASE keeps the rows of mysql.db. *)
DropDatabase(d) ==
    /\ d \in dbs
    /\ dbs' = dbs \ {d}
    /\ UNCHANGED <<users, locked, secret, rows, granting>>

CreateUser(u) ==
    /\ u \notin users
    /\ users' = users \cup {u}
    /\ UNCHANGED <<dbs, locked, secret, rows, granting>>

(* DROP USER takes everything about the account with it. *)
DropUser(u) ==
    /\ u \in users
    /\ users' = users \ {u}
    /\ locked' = locked \ {u}
    /\ secret' = [secret EXCEPT ![u] = NoSecret]
    /\ rows' = {k \in rows : k[2] # u}
    /\ granting' = {k \in granting : k[2] # u}
    /\ dbs' = dbs

(* ALTER USER ... IDENTIFIED BY *)
AlterPassword(u, p) ==
    /\ u \in users
    /\ secret' = [secret EXCEPT ![u] = p]
    /\ UNCHANGED <<dbs, users, locked, rows, granting>>

(* ALTER USER ... ACCOUNT LOCK and UNLOCK, which do not mind if it is so already. *)
AlterLock(u) ==
    /\ u \in users
    /\ locked' = locked \cup {u}
    /\ UNCHANGED <<dbs, users, secret, rows, granting>>

AlterUnlock(u) ==
    /\ u \in users
    /\ locked' = locked \ {u}
    /\ UNCHANGED <<dbs, users, secret, rows, granting>>

(* A session that edits privileges (module PrivilegeEdit): it deletes the row,  *)
(* or writes one with some or with no privileges.                             *)
EditRow(k) ==
    /\ k[2] \in users
    /\ \/ rows' = rows \ {k} /\ granting' = granting \ {k}
       \/ rows' = rows \cup {k} /\ granting' \in {granting \ {k}, granting \cup {k}}
    /\ UNCHANGED <<dbs, users, locked, secret>>

(* The statement of a request of kind op, for the name n and the password p. *)
Statement(op, n, p) ==
    \/ op = "CreateDatabases" /\ CreateDatabase(n)
    \/ op = "DropDatabases" /\ DropDatabase(n)
    \/ op = "CreateUsers" /\ CreateUser(n)
    \/ op = "DropUsers" /\ DropUser(n)
    \/ op = "PasswdUser" /\ AlterPassword(n, p)
    \/ op = "LockUsers" /\ AlterLock(n)
    \/ op = "UnlockUsers" /\ AlterUnlock(n)

=============================================================================
