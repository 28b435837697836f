---------------------------- MODULE AtomicRequests ----------------------------
(***************************************************************************)
(* What the requests of muscl promise.  A request names databases or users;  *)
(* each name is dealt with at one moment, at which the answer for it is true  *)
(* and, if it is a success, the change takes place.  Only a MySQL error      *)
(* leaves open whether it did.  A request that only reads promises nothing   *)
(* here.                                                                    *)
(***************************************************************************)
EXTENDS AccountStore

CONSTANTS Sessions, Keys, Owned

VARIABLES
    op,       \* the kind of each session's request
    asked,    \* the names in it
    left,     \* those that await their answer, in the order given
    result    \* the answer for each name so far, "none" if there is none

vars == <<store, op, asked, left, result>>

Reading == {"ListDatabases", "ListPrivileges", "ListUsers",
            "ListAllDatabases", "ListAllPrivileges", "ListAllUsers", "None"}
Creating == {"CreateDatabases", "CreateUsers"}
Kinds == Reading \cup Creating \cup
         {"DropDatabases", "DropUsers", "PasswdUser", "LockUsers", "UnlockUsers"}

Init ==
    /\ StoreInit
    /\ op = [s \in Sessions |-> "None"]
    /\ asked = [s \in Sessions |-> {}]
    /\ left = [s \in Sessions |-> <<>>]
    /\ result = [s \in Sessions |-> [n \in Keys |-> "none"]]

(* A session begins a request only when its last one is answered in full. *)
Begin(s) ==
    /\ left[s] = <<>> /\ \A n \in asked[s] : result[s][n] # "none"
    /\ op'[s] \in Kinds /\ op' = [op EXCEPT ![s] = op'[s]]
    /\ left'[s] \in Seq(Keys) /\ left' = [left EXCEPT ![s] = left'[s]]
    /\ asked' = [asked EXCEPT ![s] = {left'[s][i] : i \in DOMAIN left'[s]}]
    /\ result' = [result EXCEPT ![s] = [n \in Keys |-> "none"]]
    /\ UNCHANGED store

(* The answer r is true of the name n at this moment. *)
Justified(s, n, r) ==
    \/ r = "mysql_error" /\ n \in Owned[s]
    \/ r = "validation" /\ n \notin Owned[s]
    \/ /\ n \in Owned[s]
       /\ \/ r = "exists" /\ op[s] \in Creating /\ Exists(n)
          \/ r = "missing" /\ op[s] \notin Creating /\ ~Exists(n)
          \/ r = "already" /\ op[s] = "LockUsers" /\ n \in locked
          \/ r = "already" /\ op[s] = "UnlockUsers" /\ n \in users \ locked

Take(s, n) == n \in Owned[s] /\ \E p \in Secrets \cup {NoSecret} : Statement(op[s], n, p)

(* Every occurrence of a name is dealt with once, in order; the answer for a    *)
(* name that was given again replaces the earlier one.                        *)
Answer(s, n, r) ==
    /\ left[s] # <<>> /\ n = Head(left[s])
    /\ left' = [left EXCEPT ![s] = Tail(@)]
    /\ result' = [result EXCEPT ![s][n] = r]
    /\ \/ op[s] \in Reading /\ UNCHANGED store
       \/ Justified(s, n, r) /\ UNCHANGED store
       \/ r \in {"ok", "mysql_error"} /\ Take(s, n)
    /\ UNCHANGED <<op, asked>>

Edit == \E k \in Dbs \X Users : EditRow(k) /\ UNCHANGED <<op, asked, left, result>>

Answers == {"ok", "validation", "exists", "missing", "already", "mysql_error"}

Next ==
    \/ \E s \in Sessions : Begin(s) \/ \E n \in Keys, r \in Answers : Answer(s, n, r)
    \/ Edit

Spec == Init /\ [][Next]_vars

=============================================================================
