---------------------------- MODULE RequestsProofs ----------------------------
(***************************************************************************)
(* Proofs about the handling of requests, for any number of sessions, names   *)
(* and passwords.                                                          *)
(***************************************************************************)
EXTENDS Requests, TLAPS

-----------------------------------------------------------------------------
(* Where a session stands agrees with its request: the names to do are names    *)
(* of the request, and those past validation are the user's own.                *)
Working(s) ==
    /\ todo[s] \in Seq(Asked(s))
    /\ pc[s] = "lock" => req[s].op \in LockOps
    /\ pc[s] = "rows" => req[s].op = "ListPrivileges"
    /\ pc[s] = "databases" => req[s].op \in {"ListUsers", "ListAllUsers"}
    /\ pc[s] \in {"lock", "execute", "rows"} => Head(todo[s]) \in Owned[s]

IInv == TypeOK /\ \A s \in Sessions : Working(s)

(* The names of a request are of the kind it is about.                          *)
LEMMA KindOfNames ==
    ASSUME NEW r \in Requests \cup {NoRequest}
    PROVE  /\ \A i \in DOMAIN r.names : r.names[i] \in Keys
           /\ r.op \in DbOps => \A i \in DOMAIN r.names : r.names[i] \in Dbs
           /\ r.op \in UserOps \cup {"PasswdUser"} => \A i \in DOMAIN r.names : r.names[i] \in Users
           /\ r.op \in AllOps => \A i \in DOMAIN r.names : r.names[i] = All
           /\ r.names \in Seq(Keys)
           /\ r.password \in Secrets \cup {NoSecret, "Generate"}
           /\ r.op \in DbOps \cup UserOps \cup AllOps \cup {"PasswdUser", "None"}
  <1>1. CASE r = NoRequest
    BY <1>1 DEF NoRequest, DbOps, UserOps, AllOps, LockOps
  <1>2. CASE r \in [op : DbOps, names : SeqsOf(Dbs), password : {NoSecret}]
    BY <1>2 DEF SeqsOf, DbOps, UserOps, AllOps, LockOps, Keys, Names
  <1>3. CASE r \in [op : UserOps, names : SeqsOf(Users), password : {NoSecret}]
    BY <1>3 DEF SeqsOf, DbOps, UserOps, AllOps, LockOps, Keys, Names
  <1>4. CASE r \in [op : {"PasswdUser"}, names : [1..1 -> Users], password : Secrets \cup {NoSecret, "Generate"}]
    <2>1. r.names \in [1..1 -> Users] /\ r.op = "PasswdUser" /\ r.password \in Secrets \cup {NoSecret, "Generate"}
      BY <1>4
    <2>2. \A k \in Nat : [1..k -> Users] \subseteq Seq(Keys)
      BY DEF Keys, Names
    <2>3. r.names \in Seq(Keys)
      BY <2>1, <2>2
    <2> QED BY <2>1, <2>3 DEF DbOps, UserOps, AllOps, LockOps, Keys, Names
  <1>5. CASE r \in [op : AllOps, names : {<<All>>}, password : {NoSecret}]
    <2>1. r.names = <<All>> /\ r.op \in AllOps /\ r.password = NoSecret
      BY <1>5
    <2>2. All \in Keys
      BY DEF Keys
    <2>3. r.names \in Seq(Keys) /\ \A i \in DOMAIN r.names : r.names[i] = All
      BY <2>1, <2>2
    <2> QED BY <2>1, <2>2, <2>3 DEF DbOps, UserOps, AllOps, LockOps
  <1> QED BY <1>1, <1>2, <1>3, <1>4, <1>5 DEF Requests

(* What a statement for a name of a request does to the types of the store.     *)
LEMMA StatementTypes ==
    ASSUME StoreTypeOK, NEW op, NEW n, NEW p \in Secrets \cup {NoSecret},
           op \in DbOps => n \in Dbs, op \in UserOps \cup {"PasswdUser"} => n \in Users,
           Statement(op, n, p)
    PROVE  StoreTypeOK'
  <1> USE DEF StoreTypeOK, DbOps, UserOps, LockOps
  <1>1. CASE op = "CreateDatabases" /\ CreateDatabase(n)
    BY <1>1 DEF CreateDatabase
  <1>2. CASE op = "DropDatabases" /\ DropDatabase(n)
    BY <1>2 DEF DropDatabase
  <1>3. CASE op = "CreateUsers" /\ CreateUser(n)
    BY <1>3 DEF CreateUser
  <1>4. CASE op = "DropUsers" /\ DropUser(n)
    BY <1>4 DEF DropUser
  <1>5. CASE op = "PasswdUser" /\ AlterPassword(n, p)
    BY <1>5 DEF AlterPassword
  <1>6. CASE op = "LockUsers" /\ AlterLock(n)
    BY <1>6 DEF AlterLock
  <1>7. CASE op = "UnlockUsers" /\ AlterUnlock(n)
    BY <1>7 DEF AlterUnlock
  <1> QED BY <1>1, <1>2, <1>3, <1>4, <1>5, <1>6, <1>7 DEF Statement

(* The name at hand is one of the request's, of the request's kind.             *)
LEMMA AtHand ==
    ASSUME IInv, NEW s \in Sessions, NEW l, NEW n, At(s, l, n)
    PROVE  /\ n \in Keys /\ n \in Asked(s)
           /\ req[s].op \in DbOps => n \in Dbs
           /\ req[s].op \in UserOps \cup {"PasswdUser"} => n \in Users
           /\ req[s].op \in AllOps => n = All
           /\ Tail(todo[s]) \in Seq(Asked(s)) /\ Tail(todo[s]) \in Seq(Keys)
  <1>1. todo[s] \in Seq(Asked(s)) /\ todo[s] # <<>> /\ n = Head(todo[s])
    BY DEF IInv, Working, At
  <1>2. n \in Asked(s) /\ Tail(todo[s]) \in Seq(Asked(s))
    BY <1>1
  <1>3. todo[s] \in Seq(Keys) /\ req[s] \in Requests \cup {NoRequest}
    BY DEF IInv, TypeOK
  <1>4. PICK i \in DOMAIN req[s].names : n = req[s].names[i]
    BY <1>2 DEF Asked
  <1> QED BY <1>1, <1>2, <1>3, <1>4, KindOfNames

LEMMA IInvInit == Init => IInv
  <1> SUFFICES ASSUME Init PROVE IInv
    OBVIOUS
  <1>1. StoreTypeOK
    BY DEF Init, StoreInit, StoreTypeOK
  <1>2. TypeOK
    BY <1>1, RequestsAssumption DEF Init, TypeOK, PCs, Results, NoRequest
  <1>3. \A s \in Sessions : Working(s)
    BY DEF Init, Working, Asked, NoRequest
  <1> QED BY <1>2, <1>3 DEF IInv

(* The types of everything but the control of the sessions.                     *)
DataOK ==
    /\ StoreTypeOK
    /\ steps \in 0..MaxSteps
    /\ told \in [Sessions -> Secrets \cup {NoSecret}]
    /\ row \in [Sessions -> [Dbs -> SUBSET Dbs]]
    /\ found \in [Sessions -> SUBSET Users]
    /\ listing \in [Sessions -> SUBSET (Dbs \cup (Dbs \X Users))]
    /\ changed \in [Sessions -> SUBSET Names]
    /\ quiet \in [Sessions -> BOOLEAN]

(* An answer moves the session on to its next name.                             *)
LEMMA AnswerKeeps ==
    ASSUME IInv, NEW s \in Sessions, NEW l, NEW n, At(s, l, n), NEW r \in Results,
           Answer(s, n, r), req' = req, DataOK'
    PROVE  IInv'
  <1>1. /\ n \in Keys
        /\ Tail(todo[s]) \in Seq(Asked(s)) /\ Tail(todo[s]) \in Seq(Keys)
    BY AtHand
  <1>2. /\ todo' \in [Sessions -> Seq(Keys)]
        /\ todo'[s] = Tail(todo[s])
        /\ pc' \in [Sessions -> PCs] /\ pc'[s] = "next"
        /\ result' \in [Sessions -> [Keys -> Results]]
        /\ \A t \in Sessions \ {s} : todo'[t] = todo[t] /\ pc'[t] = pc[t]
    BY <1>1 DEF Answer, Goto, IInv, TypeOK, PCs
  <1>3. TypeOK'
    BY <1>2 DEF IInv, TypeOK, DataOK, StoreTypeOK
  <1>4. ASSUME NEW t \in Sessions PROVE Working(t)'
    <2>1. Asked(t)' = Asked(t) /\ req'[t] = req[t]
      BY DEF Asked
    <2>2. CASE t = s
      BY <1>1, <1>2, <2>1, <2>2 DEF Working
    <2>3. CASE t # s
      BY <1>2, <2>1, <2>3 DEF Working, IInv
    <2> QED BY <2>2, <2>3
  <1> QED BY <1>3, <1>4 DEF IInv

(* A step that is not the last one for a name stays with the name.               *)
LEMMA GotoKeeps ==
    ASSUME IInv, NEW s \in Sessions, NEW l, NEW n, At(s, l, n), NEW m \in PCs,
           pc' = [pc EXCEPT ![s] = m], UNCHANGED <<req, todo, result>>, DataOK',
           m = "lock" => req[s].op \in LockOps,
           m = "rows" => req[s].op = "ListPrivileges",
           m = "databases" => req[s].op \in {"ListUsers", "ListAllUsers"},
           m \in {"lock", "execute", "rows"} => n \in Owned[s]
    PROVE  IInv'
  <1>1. /\ pc' \in [Sessions -> PCs] /\ pc'[s] = m
        /\ \A t \in Sessions \ {s} : pc'[t] = pc[t]
        /\ todo[s] # <<>> /\ n = Head(todo[s])
    BY DEF IInv, TypeOK, At
  <1>2. TypeOK'
    BY <1>1 DEF IInv, TypeOK, DataOK, StoreTypeOK
  <1>3. ASSUME NEW t \in Sessions PROVE Working(t)'
    <2>1. Asked(t)' = Asked(t) /\ req'[t] = req[t] /\ todo'[t] = todo[t]
      BY DEF Asked
    <2>2. Working(t)
      BY DEF IInv
    <2>3. CASE t = s
      BY <1>1, <2>1, <2>2, <2>3 DEF Working
    <2>4. CASE t # s
      BY <1>1, <2>1, <2>2, <2>4 DEF Working
    <2> QED BY <2>3, <2>4
  <1> QED BY <1>2, <1>3 DEF IInv

(* The effect of a statement keeps the types.                                   *)
LEMMA RunTypes ==
    ASSUME IInv, NEW s \in Sessions, NEW n, At(s, "execute", n), NEW p \in Password(s), Run(s, n, p)
    PROVE  /\ StoreTypeOK' /\ changed' \in [Sessions -> SUBSET Names] /\ quiet' \in [Sessions -> BOOLEAN]
           /\ p \in Secrets \cup {NoSecret} /\ n \in Names /\ n \in Owned[s]
  <1>1. req[s] \in Requests \cup {NoRequest}
    BY DEF IInv, TypeOK
  <1>2. p \in Secrets \cup {NoSecret}
    <2>1. req[s].password \in Secrets \cup {NoSecret, "Generate"}
      BY <1>1, KindOfNames
    <2> QED BY <2>1 DEF Password
  <1>3. req[s].op \in DbOps => n \in Dbs
    BY AtHand
  <1>4. req[s].op \in UserOps \cup {"PasswdUser"} => n \in Users
    BY AtHand
  <1>5. Statement(req[s].op, n, p)
    BY DEF Run
  <1>6. StoreTypeOK'
    BY <1>2, <1>3, <1>4, <1>5, StatementTypes DEF IInv, TypeOK
  <1>7. n \in Names
    BY <1>3, <1>4, <1>5 DEF Statement, Names, DbOps, UserOps, LockOps
  <1>8. n \in Owned[s]
    BY DEF IInv, Working, At
  <1> QED BY <1>2, <1>6, <1>7, <1>8 DEF Run, IInv, TypeOK

LEMMA BeginKeeps ==
    ASSUME IInv, NEW s \in Sessions, NEW r \in Requests, Begin(s, r)
    PROVE  IInv'
  <1>1. r.names \in Seq(Keys)
    BY KindOfNames
  <1>2. StoreTypeOK' /\ steps' \in 0..MaxSteps
    BY RequestsAssumption DEF IInv, TypeOK, Begin, Count, store, StoreTypeOK
  <1>3. TypeOK'
    BY <1>1, <1>2 DEF IInv, TypeOK, Begin, Results, Finished
  <1>4. ASSUME NEW t \in Sessions PROVE Working(t)'
    <2>1. pc' = pc /\ todo'[t] = (IF t = s THEN r.names ELSE todo[t]) /\ req'[t] = (IF t = s THEN r ELSE req[t])
      BY DEF Begin, IInv, TypeOK
    <2>2. CASE t = s
      <3>1. Asked(s)' = {r.names[i] : i \in DOMAIN r.names}
        BY <2>1, <2>2 DEF Asked
      <3>2. r.names \in Seq({r.names[i] : i \in DOMAIN r.names})
        BY <1>1
      <3> QED BY <2>1, <2>2, <3>1, <3>2 DEF Working, Begin, Finished
    <2>3. CASE t # s
      <3>1. Asked(t)' = Asked(t)
        BY <2>1, <2>3 DEF Asked
      <3> QED BY <2>1, <2>3, <3>1 DEF Working, IInv
    <2> QED BY <2>2, <2>3
  <1> QED BY <1>3, <1>4 DEF IInv

(* A step that leaves the store, the counters and the response's data alone.     *)
LEMMA DataUnchanged ==
    ASSUME IInv, UNCHANGED <<store, steps, told, row, found, listing, changed, quiet>>
    PROVE  DataOK'
  <1>1. DataOK
    BY DEF IInv, TypeOK, DataOK
  <1> QED BY <1>1 DEF DataOK, store, StoreTypeOK

(* The steps for one name of a request.                                         *)
LEMMA HandleNameKeeps ==
    ASSUME IInv, NEW s \in Sessions, NEW n \in Keys, HandleName(s, n)
    PROVE  IInv'
  <1> USE DEF UnchangedStore, reply
  <1>0. DataOK
    BY DEF IInv, TypeOK, DataOK
  <1>1. CASE Reject(s, n)
    <2>1. At(s, "next", n) /\ Answer(s, n, "validation") /\ req' = req /\ "validation" \in Results
      BY <1>1 DEF Reject, Results
    <2>2. DataOK'
      BY <1>1, DataUnchanged DEF Reject
    <2> QED BY <2>1, <2>2, AnswerKeeps
  <1>2. CASE CheckExists(s, n)
    <2>1. At(s, "next", n) /\ req' = req /\ n \in Owned[s]
      BY <1>2 DEF CheckExists
    <2>2. DataOK'
      BY <1>2, DataUnchanged DEF CheckExists
    <2>3. ASSUME NEW r \in {"exists", "missing"}, Answer(s, n, r) PROVE IInv'
      <3>1. r \in Results
        BY DEF Results
      <3> QED BY <2>1, <2>2, <2>3, <3>1, AnswerKeeps
    <2>4. ASSUME NEW m \in {"lock", "rows", "execute"}, Goto(s, m), UNCHANGED <<todo, result>>,
                 m = "lock" => req[s].op \in LockOps, m = "rows" => req[s].op = "ListPrivileges"
          PROVE  IInv'
      <3>1. m \in PCs /\ pc' = [pc EXCEPT ![s] = m] /\ UNCHANGED <<req, todo, result>> /\ m # "databases"
        BY <2>1, <2>4 DEF PCs, Goto
      <3> QED BY <2>1, <2>2, <2>4, <3>1, GotoKeeps
    <2> QED BY <1>2, <2>3, <2>4 DEF CheckExists
  <1>3. CASE CheckUnlocked(s, n) \/ CheckLocked(s, n)
    <2>1. At(s, "lock", n) /\ req' = req /\ n \in Owned[s]
      BY <1>3 DEF CheckUnlocked, CheckLocked, At, IInv, Working
    <2>2. DataOK'
      BY <1>3, DataUnchanged DEF CheckUnlocked, CheckLocked
    <2>3. CASE Answer(s, n, "already")
      <3>1. "already" \in Results
        BY DEF Results
      <3> QED BY <2>1, <2>2, <2>3, <3>1, AnswerKeeps
    <2>4. CASE Goto(s, "execute") /\ UNCHANGED <<todo, result>>
      <3>1. "execute" \in PCs /\ pc' = [pc EXCEPT ![s] = "execute"] /\ UNCHANGED <<req, todo, result>>
        BY <2>1, <2>4 DEF PCs, Goto
      <3> QED BY <2>1, <2>2, <3>1, GotoKeeps
    <2> QED BY <1>3, <2>3, <2>4 DEF CheckUnlocked, CheckLocked
  <1>4. CASE Execute(s, n)
    <2>1. At(s, "execute", n) /\ req' = req /\ Answer(s, n, "ok") /\ "ok" \in Results
      BY <1>4 DEF Execute, Results
    <2>2. PICK p \in Password(s) :
              Run(s, n, p) /\ told' = [told EXCEPT ![s] = IF req[s].password = "Generate" THEN p ELSE NoSecret]
      BY <1>4 DEF Execute
    <2>3. /\ StoreTypeOK' /\ changed' \in [Sessions -> SUBSET Names] /\ quiet' \in [Sessions -> BOOLEAN]
          /\ p \in Secrets \cup {NoSecret}
      BY <2>1, <2>2, RunTypes
    <2>4. DataOK'
      BY <1>0, <1>4, <2>2, <2>3 DEF Execute, DataOK
    <2> QED BY <2>1, <2>4, AnswerKeeps
  <1>5. CASE LoseAnswer(s, n)
    <2>1. At(s, "execute", n) /\ req' = req /\ Answer(s, n, "mysql_error") /\ "mysql_error" \in Results
      BY <1>5 DEF LoseAnswer, Results
    <2>2. PICK p \in Password(s) : Run(s, n, p)
      BY <1>5 DEF LoseAnswer
    <2>3. StoreTypeOK' /\ changed' \in [Sessions -> SUBSET Names] /\ quiet' \in [Sessions -> BOOLEAN]
      BY <2>1, <2>2, RunTypes
    <2>4. DataOK'
      BY <1>0, <1>5, <2>3 DEF LoseAnswer, DataOK
    <2> QED BY <2>1, <2>4, AnswerKeeps
  <1>6. CASE Fail(s, n)
    <2>1. At(s, pc[s], n) /\ req' = req /\ Answer(s, n, "mysql_error") /\ "mysql_error" \in Results
      BY <1>6 DEF Fail, Results
    <2>2. DataOK'
      BY <1>6, DataUnchanged DEF Fail
    <2> QED BY <2>1, <2>2, AnswerKeeps
  <1>7. CASE ListDatabase(s, n)
    <2>1. At(s, "next", n) /\ req' = req /\ n \in Dbs
      BY <1>7, AtHand DEF ListDatabase, DbOps
    <2>2. Hits[n] \in SUBSET Dbs
      BY <2>1, RequestsAssumption
    <2>3. DataOK'
      <3>1. row' \in [Sessions -> [Dbs -> SUBSET Dbs]]
        <4>1. row \in [Sessions -> [Dbs -> SUBSET Dbs]]
          BY <1>0 DEF DataOK
        <4>2. row' = row \/ \E d \in Dbs : row' = [row EXCEPT ![s][n] = {d}]
          BY <1>7, <2>2 DEF ListDatabase
        <4>3. ASSUME NEW d \in Dbs, row' = [row EXCEPT ![s][n] = {d}] PROVE row' \in [Sessions -> [Dbs -> SUBSET Dbs]]
          <5>1. [row[s] EXCEPT ![n] = {d}] \in [Dbs -> SUBSET Dbs]
            BY <4>1
          <5> QED BY <4>1, <4>3, <5>1
        <4> QED BY <4>1, <4>2, <4>3
      <3>2. UNCHANGED <<store, changed, quiet>> /\ UNCHANGED <<steps, req, told, found, listing>>
        BY <1>7 DEF ListDatabase
      <3> QED BY <1>0, <3>1, <3>2 DEF DataOK, store, StoreTypeOK
    <2>4. PICK r \in {"ok", "missing"} : Answer(s, n, r)
      BY <1>7 DEF ListDatabase
    <2>5. r \in Results
      BY DEF Results
    <2> QED BY <2>1, <2>3, <2>4, <2>5, AnswerKeeps
  <1>8. CASE SelectRows(s, n)
    <2>1. At(s, "rows", n) /\ req' = req /\ Answer(s, n, "ok") /\ "ok" \in Results
      BY <1>8 DEF SelectRows, Results
    <2>2. rows \subseteq Dbs \X Users
      BY <1>0 DEF DataOK, StoreTypeOK
    <2>3. DataOK'
      BY <1>0, <1>8, <2>2 DEF SelectRows, DataOK, store, StoreTypeOK
    <2> QED BY <2>1, <2>3, AnswerKeeps
  <1>9. CASE SelectUser(s, n)
    <2>1. At(s, "next", n) /\ req' = req /\ req[s].op = "ListUsers"
      BY <1>9 DEF SelectUser
    <2>2. DataOK'
      BY <1>9, DataUnchanged DEF SelectUser
    <2>3. CASE Answer(s, n, "missing")
      <3>1. "missing" \in Results
        BY DEF Results
      <3> QED BY <2>1, <2>2, <2>3, <3>1, AnswerKeeps
    <2>4. CASE Goto(s, "databases") /\ UNCHANGED <<todo, result>>
      <3>1. "databases" \in PCs /\ pc' = [pc EXCEPT ![s] = "databases"] /\ UNCHANGED <<req, todo, result>>
        BY <2>1, <2>4 DEF PCs, Goto
      <3> QED BY <2>1, <2>2, <3>1, GotoKeeps
    <2> QED BY <1>9, <2>3, <2>4 DEF SelectUser
  <1>10. CASE SelectUserDatabases(s, n)
    <2>1. At(s, "databases", n) /\ req' = req /\ Answer(s, n, "ok") /\ "ok" \in Results
      BY <1>10 DEF SelectUserDatabases, Results
    <2>2. granting \subseteq Dbs \X Users
      BY <1>0 DEF DataOK, StoreTypeOK
    <2>3. DataOK'
      BY <1>0, <1>10, <2>2 DEF SelectUserDatabases, DataOK, store, StoreTypeOK
    <2> QED BY <2>1, <2>3, AnswerKeeps
  <1> QED BY <1>1, <1>2, <1>3, <1>4, <1>5, <1>6, <1>7, <1>8, <1>9, <1>10 DEF HandleName

(* The steps of a request that names nothing.                                   *)
LEMMA HandleAllKeeps ==
    ASSUME IInv, NEW s \in Sessions, HandleAll(s)
    PROVE  IInv'
  <1> USE DEF UnchangedStore, reply
  <1>0. DataOK /\ rows \subseteq Dbs \X Users /\ granting \subseteq Dbs \X Users /\ "ok" \in Results
    BY DEF IInv, TypeOK, DataOK, StoreTypeOK, Results
  <1>1. CASE ListAllDatabases(s)
    <2>1. At(s, "next", All) /\ req' = req /\ Answer(s, All, "ok")
      BY <1>1 DEF ListAllDatabases
    <2>2. DataOK'
      BY <1>0, <1>1 DEF ListAllDatabases, DataOK, store, StoreTypeOK
    <2> QED BY <1>0, <2>1, <2>2, AnswerKeeps
  <1>2. CASE ListAllPrivileges(s)
    <2>1. At(s, "next", All) /\ req' = req /\ Answer(s, All, "ok")
      BY <1>2 DEF ListAllPrivileges
    <2>2. DataOK'
      BY <1>0, <1>2 DEF ListAllPrivileges, DataOK, store, StoreTypeOK
    <2> QED BY <1>0, <2>1, <2>2, AnswerKeeps
  <1>3. CASE ListAllUsers(s)
    <2>1. At(s, "next", All) /\ pc' = [pc EXCEPT ![s] = "databases"] /\ UNCHANGED <<req, todo, result>>
          /\ req[s].op = "ListAllUsers" /\ "databases" \in PCs
      BY <1>3 DEF ListAllUsers, Goto, PCs
    <2>2. DataOK'
      BY <1>0, <1>3 DEF ListAllUsers, DataOK, store, StoreTypeOK
    <2> QED BY <2>1, <2>2, GotoKeeps
  <1>4. CASE ListAllUsersEnd(s)
    <2>1. At(s, "databases", All) /\ req' = req /\ Answer(s, All, "ok")
      BY <1>4 DEF ListAllUsersEnd
    <2>2. DataOK'
      BY <1>4, DataUnchanged DEF ListAllUsersEnd
    <2> QED BY <1>0, <2>1, <2>2, AnswerKeeps
  <1>5. ASSUME NEW u \in Users, ListAllUsersDatabases(s, u) PROVE IInv'
    <2>1. UNCHANGED <<pc, req, todo, result>>
      BY <1>5 DEF ListAllUsersDatabases
    <2>2. DataOK'
      BY <1>0, <1>5 DEF ListAllUsersDatabases, DataOK, store, StoreTypeOK
    <2>3. TypeOK'
      BY <2>1, <2>2 DEF IInv, TypeOK, DataOK, StoreTypeOK
    <2>4. \A t \in Sessions : Working(t)'
      BY <2>1 DEF IInv, Working, Asked
    <2> QED BY <2>3, <2>4 DEF IInv
  <1> QED BY <1>1, <1>2, <1>3, <1>4, <1>5 DEF HandleAll

LEMMA EditKeeps ==
    ASSUME IInv, NEW k \in Dbs \X Users, EditPrivileges(k)
    PROVE  IInv'
  <1>1. UNCHANGED <<pc, req, todo, result>> /\ UNCHANGED <<told, row, found, listing, changed>>
    BY DEF EditPrivileges, reply
  <1>2. StoreTypeOK' /\ steps' \in 0..MaxSteps
    BY RequestsAssumption DEF IInv, TypeOK, EditPrivileges, Count, EditRow, StoreTypeOK
  <1>3. TypeOK'
    BY <1>1, <1>2 DEF IInv, TypeOK, EditPrivileges
  <1>4. \A t \in Sessions : Working(t)'
    BY <1>1 DEF IInv, Working, Asked
  <1> QED BY <1>3, <1>4 DEF IInv

LEMMA IInvStep == IInv /\ [Next]_vars => IInv'
  <1> SUFFICES ASSUME IInv, [Next]_vars PROVE IInv'
    OBVIOUS
  <1>1. CASE UNCHANGED vars
    <2>1. UNCHANGED <<dbs, users, locked, secret, rows, granting>> /\ UNCHANGED <<steps, pc, req, todo, result>>
          /\ UNCHANGED <<told, row, found, listing, changed, quiet>>
      BY <1>1 DEF vars, store
    <2>2. TypeOK'
      BY <2>1 DEF IInv, TypeOK, StoreTypeOK
    <2>3. \A t \in Sessions : Working(t)'
      BY <2>1 DEF IInv, Working, Asked
    <2> QED BY <2>2, <2>3 DEF IInv
  <1>2. CASE Next
    BY <1>2, BeginKeeps, HandleNameKeeps, HandleAllKeeps, EditKeeps DEF Next
  <1> QED BY <1>1, <1>2

(* The handlers keep the types of their variables, and a session that is in the  *)
(* middle of a name has one at hand, whatever the other sessions do.             *)
THEOREM TypeCorrect == Spec => []TypeOK
  <1>1. IInv => TypeOK
    BY DEF IInv
  <1> QED BY <1>1, IInvInit, IInvStep, PTL DEF Spec

-----------------------------------------------------------------------------
(* No name of a request is forgotten: it has an answer, or it is still to do.     *)
Pending(s) == {todo[s][i] : i \in DOMAIN todo[s]}

Answered(s) == \A n \in Asked(s) : result[s][n] # "none" \/ n \in Pending(s)

RInv == IInv /\ \A s \in Sessions : Answered(s)

(* An answer that changes nothing, and one that comes with a change.              *)
Refusal(s, n, r) ==
    /\ At(s, pc[s], n) /\ Answer(s, n, r) /\ req' = req /\ changed' = changed
    /\ r = "ok" => req[s].op \notin CreateOps \cup LockOps

Effect(s, n, r) ==
    /\ At(s, pc[s], n) /\ Answer(s, n, r) /\ req' = req
    /\ r \in {"ok", "mysql_error"}
    /\ changed' = [changed EXCEPT ![s] = @ \cup {n}]

(* What a step does to the control: it begins a request, gives an answer for the *)
(* name at hand, or leaves requests, answers and names to do as they are.        *)
LEMMA StepShape ==
    ASSUME IInv, Next
    PROVE  \/ \E s \in Sessions, r \in Requests : Begin(s, r)
           \/ \E s \in Sessions, n \in Keys, r \in Results \ {"none"} : Refusal(s, n, r) \/ Effect(s, n, r)
           \/ UNCHANGED <<req, todo, result, changed>>
  <1> USE DEF Results, At, UnchangedStore, CreateOps, LockOps
  <1>1. ASSUME NEW s \in Sessions, NEW n \in Keys, HandleName(s, n)
        PROVE  \/ \E r \in Results \ {"none"} : Refusal(s, n, r) \/ Effect(s, n, r)
               \/ UNCHANGED <<req, todo, result, changed>>
    <2>1. CASE Reject(s, n) \/ CheckExists(s, n) \/ CheckUnlocked(s, n) \/ CheckLocked(s, n) \/ Fail(s, n)
      BY <2>1 DEF Reject, CheckExists, CheckUnlocked, CheckLocked, Fail, Refusal
    <2>2. CASE Execute(s, n) \/ LoseAnswer(s, n)
      BY <2>2 DEF Execute, LoseAnswer, Run, Effect
    <2>3. CASE ListDatabase(s, n) \/ SelectUser(s, n)
      BY <2>3 DEF ListDatabase, SelectUser, Refusal
    <2>4. CASE SelectRows(s, n)
      BY <2>4 DEF SelectRows, Refusal, IInv, Working
    <2>5. CASE SelectUserDatabases(s, n)
      BY <2>5 DEF SelectUserDatabases, Refusal, IInv, Working
    <2> QED BY <1>1, <2>1, <2>2, <2>3, <2>4, <2>5 DEF HandleName
  <1>2. ASSUME NEW s \in Sessions, HandleAll(s)
        PROVE  \/ \E r \in Results \ {"none"} : Refusal(s, All, r)
               \/ UNCHANGED <<req, todo, result, changed>>
    <2>1. CASE ListAllUsersEnd(s)
      BY <2>1 DEF ListAllUsersEnd, Refusal, IInv, Working
    <2> QED BY <1>2, <2>1 DEF HandleAll, ListAllDatabases, ListAllPrivileges, ListAllUsers, ListAllUsersDatabases, Refusal
  <1>3. ASSUME NEW k \in Dbs \X Users, EditPrivileges(k) PROVE UNCHANGED <<req, todo, result, changed>>
    BY <1>3 DEF EditPrivileges
  <1>4. All \in Keys
    BY DEF Keys
  <1> QED BY <1>1, <1>2, <1>3, <1>4 DEF Next

LEMMA RInvStep == RInv /\ [Next]_vars => RInv'
  <1> SUFFICES ASSUME RInv, [Next]_vars PROVE RInv'
    OBVIOUS
  <1>0. IInv /\ IInv'
    BY IInvStep DEF RInv
  <1>1. CASE UNCHANGED <<req, todo, result, changed>>
    BY <1>0, <1>1 DEF RInv, Answered, Asked, Pending
  <1>2. ASSUME NEW s \in Sessions, NEW r \in Requests, Begin(s, r) PROVE RInv'
    <2>1. ASSUME NEW t \in Sessions PROVE Answered(t)'
      <3>1. CASE t = s
        <4>1. req'[s] = r /\ todo'[s] = r.names
          BY <1>0, <1>2 DEF Begin, IInv, TypeOK
        <4> QED BY <3>1, <4>1 DEF Answered, Asked, Pending
      <3>2. CASE t # s
        <4>1. req'[t] = req[t] /\ todo'[t] = todo[t] /\ result'[t] = result[t]
          BY <1>0, <1>2, <3>2 DEF Begin, IInv, TypeOK
        <4> QED BY <4>1 DEF Answered, Asked, Pending, RInv
      <3> QED BY <3>1, <3>2
    <2> QED BY <1>0, <2>1 DEF RInv
  <1>3. ASSUME NEW s \in Sessions, NEW n \in Keys, NEW r \in Results \ {"none"},
               At(s, pc[s], n), Answer(s, n, r), req' = req
        PROVE  RInv'
    <2>1. ASSUME NEW t \in Sessions, NEW m \in Asked(t) PROVE result'[t][m] # "none" \/ m \in Pending(t)'
      <3>1. CASE t # s
        <4>1. todo'[t] = todo[t] /\ result'[t] = result[t]
          BY <1>0, <1>3, <3>1 DEF Answer, IInv, TypeOK
        <4> QED BY <2>1, <4>1 DEF Answered, Pending, RInv
      <3>2. CASE t = s /\ m = n
        BY <1>0, <1>3, <3>2 DEF Answer, IInv, TypeOK
      <3>3. CASE t = s /\ m # n
        <4>1. result'[s][m] = result[s][m] /\ todo'[s] = Tail(todo[s])
          BY <1>0, <1>3, <3>3 DEF Answer, IInv, TypeOK
        <4>2. SUFFICES ASSUME m \in Pending(s) PROVE m \in Pending(s)'
          BY <2>1, <3>3, <4>1 DEF RInv, Answered
        <4>3. PICK i \in DOMAIN todo[s] : m = todo[s][i]
          BY <4>2 DEF Pending
        <4>4. todo[s] \in Seq(Keys) /\ todo[s] # <<>> /\ n = todo[s][1]
          BY <1>0, <1>3 DEF IInv, TypeOK, At
        <4>5. i \in 2..Len(todo[s])
          BY <3>3, <4>3, <4>4
        <4>6. i - 1 \in DOMAIN Tail(todo[s]) /\ Tail(todo[s])[i - 1] = m
          BY <4>3, <4>4, <4>5
        <4> QED BY <4>1, <4>6 DEF Pending
      <3> QED BY <3>1, <3>2, <3>3
    <2>2. \A t \in Sessions : Asked(t)' = Asked(t)
      BY <1>3 DEF Asked
    <2> QED BY <1>0, <2>1, <2>2 DEF RInv, Answered
  <1>4. CASE UNCHANGED vars
    BY <1>1, <1>4 DEF vars
  <1> QED BY <1>0, <1>1, <1>2, <1>3, <1>4, StepShape DEF Refusal, Effect

-----------------------------------------------------------------------------
LEMMA AtomicInit == Init => Atomic!Init
  BY DEF Init, Atomic!Init, StoreInit, Atomic!StoreInit, Asked, NoRequest

(* A justified answer for the name at hand is an answer of the abstract specification. *)
LEMMA AtomicAnswer ==
    ASSUME IInv, NEW s \in Sessions, NEW l, NEW n, At(s, l, n), NEW r \in Results \ {"none"},
           Answer(s, n, r), req' = req,
           \/ req[s].op \in Atomic!Reading /\ UNCHANGED store
           \/ Atomic!Justified(s, n, r) /\ UNCHANGED store
           \/ r \in {"ok", "mysql_error"} /\ Atomic!Take(s, n)
    PROVE  Atomic!Next
  <1>1. n \in Keys /\ n \in Asked(s)
    BY AtHand
  <1>2. \A t \in Sessions : Asked(t)' = Asked(t)
    BY DEF Asked
  <1>3. r \in Atomic!Answers
    BY DEF Results, Atomic!Answers
  <1>4. Atomic!Answer(s, n, r)
    BY <1>1, <1>2 DEF Atomic!Answer, Answer, At, store, Atomic!store
  <1> QED BY <1>1, <1>3, <1>4 DEF Atomic!Next

(* The effect of the statement is the abstract one.                             *)
LEMMA AtomicTake ==
    ASSUME IInv, NEW s \in Sessions, NEW n, At(s, "execute", n), NEW p \in Password(s), Run(s, n, p)
    PROVE  Atomic!Take(s, n)
  <1>1. p \in Secrets \cup {NoSecret} /\ n \in Owned[s]
    BY RunTypes
  <1>2. Atomic!Statement(req[s].op, n, p)
    BY DEF Run, Statement, Atomic!Statement, CreateDatabase, Atomic!CreateDatabase, DropDatabase, Atomic!DropDatabase,
           CreateUser, Atomic!CreateUser, DropUser, Atomic!DropUser, AlterPassword, Atomic!AlterPassword,
           AlterLock, Atomic!AlterLock, AlterUnlock, Atomic!AlterUnlock
  <1> QED BY <1>1, <1>2 DEF Atomic!Take

(* A step that gives no answer and leaves the store alone is not seen.            *)
LEMMA AtomicStutter ==
    ASSUME UNCHANGED <<store, req, todo, result>>
    PROVE  UNCHANGED Atomic!vars
  <1>1. \A s \in Sessions : Asked(s)' = Asked(s)
    BY DEF Asked
  <1> QED BY <1>1 DEF Atomic!vars, Atomic!store, store

LEMMA AtomicBegin ==
    ASSUME RInv, NEW s \in Sessions, NEW r \in Requests, Begin(s, r)
    PROVE  Atomic!Next
  <1>1. IInv
    BY DEF RInv
  <1>2. /\ req' = [req EXCEPT ![s] = r] /\ req'[s] = r
        /\ \A t \in Sessions \ {s} : req'[t] = req[t]
        /\ result' = [result EXCEPT ![s] = [n \in Keys |-> "none"]]
    BY <1>1 DEF Begin, IInv, TypeOK
  <1>3. Asked(s)' \subseteq Keys /\ \A t \in Sessions \ {s} : Asked(t)' = Asked(t)
    BY <1>2, KindOfNames DEF Asked
  <1>4. r.op \in Atomic!Kinds
    BY KindOfNames DEF Atomic!Kinds, Atomic!Reading, Atomic!Creating, DbOps, UserOps, LockOps, AllOps
  <1>5. \A n \in Asked(s) : result[s][n] # "none"
    BY DEF Begin, Finished, RInv, Answered, Pending
  <1>6. UNCHANGED <<dbs, users, locked, secret, rows, granting>>
    BY DEF Begin, store
  <1> DEFINE ops == [t \in Sessions |-> req[t].op]
             names == [t \in Sessions |-> Asked(t)]
  <1>7. ops' = [ops EXCEPT ![s] = ops'[s]] /\ ops'[s] \in Atomic!Kinds
    <2>1. \A t \in Sessions : ops'[t] = IF t = s THEN r.op ELSE ops[t]
      BY <1>2
    <2>2. ops' = [t \in Sessions |-> ops'[t]]
      OBVIOUS
    <2> HIDE DEF ops
    <2>3. [ops EXCEPT ![s] = ops'[s]] = [t \in Sessions |-> IF t = s THEN ops'[s] ELSE ops[t]]
      BY DEF ops
    <2> QED BY <1>4, <2>1, <2>2, <2>3
  <1>8. todo'[s] \in Seq(Keys) /\ todo' = [todo EXCEPT ![s] = todo'[s]] /\ todo[s] = <<>> /\ todo'[s] = r.names
    BY <1>1, KindOfNames DEF Begin, Finished, IInv, TypeOK
  <1>9. names' = [names EXCEPT ![s] = {todo'[s][i] : i \in DOMAIN todo'[s]}] /\ names[s] = Asked(s)
    <2>1. Asked(s)' = {todo'[s][i] : i \in DOMAIN todo'[s]}
      BY <1>2, <1>8 DEF Asked
    <2> QED BY <1>3, <2>1
  <1>10. Atomic!Begin(s)
    BY <1>2, <1>5, <1>6, <1>7, <1>8, <1>9 DEF Atomic!Begin, Atomic!store
  <1> QED BY <1>10 DEF Atomic!Next

LEMMA AtomicHandleName ==
    ASSUME IInv, NEW s \in Sessions, NEW n \in Keys, HandleName(s, n)
    PROVE  Atomic!Next \/ UNCHANGED Atomic!vars
  <1> USE DEF UnchangedStore
  <1>0. /\ \A r \in {"ok", "validation", "exists", "missing", "already", "mysql_error"} : r \in Results \ {"none"}
        /\ {"ListDatabases", "ListPrivileges", "ListUsers", "ListAllUsers"} \subseteq Atomic!Reading
    BY DEF Results, Atomic!Reading
  <1>1. CASE Reject(s, n)
    <2>1. Atomic!Justified(s, n, "validation")
      BY <1>1 DEF Reject, Atomic!Justified
    <2> QED BY <1>0, <1>1, <2>1, AtomicAnswer DEF Reject
  <1>2. CASE CheckExists(s, n)
    <2>1. CASE Exists(n) /\ req[s].op \in CreateOps /\ Answer(s, n, "exists")
      <3>1. Atomic!Justified(s, n, "exists")
        BY <1>2, <2>1 DEF CheckExists, Atomic!Justified, Atomic!Exists, Exists, Atomic!Creating, CreateOps
      <3> QED BY <1>0, <1>2, <2>1, <3>1, AtomicAnswer DEF CheckExists
    <2>2. CASE ~Exists(n) /\ req[s].op \notin CreateOps /\ Answer(s, n, "missing")
      <3>1. Atomic!Justified(s, n, "missing")
        BY <1>2, <2>2 DEF CheckExists, Atomic!Justified, Atomic!Exists, Exists, Atomic!Creating, CreateOps
      <3> QED BY <1>0, <1>2, <2>2, <3>1, AtomicAnswer DEF CheckExists
    <2>3. CASE UNCHANGED <<todo, result>>
      BY <1>2, <2>3, AtomicStutter DEF CheckExists
    <2> QED BY <1>2, <2>1, <2>2, <2>3 DEF CheckExists
  <1>3. CASE CheckUnlocked(s, n) \/ CheckLocked(s, n)
    <2>1. At(s, "lock", n) /\ req' = req /\ UNCHANGED store /\ n \in users
      BY <1>3 DEF CheckUnlocked, CheckLocked
    <2>2. CASE /\ Answer(s, n, "already")
               /\ \/ req[s].op = "LockUsers" /\ n \in locked
                  \/ req[s].op = "UnlockUsers" /\ n \notin locked
      <3>1. n \in Owned[s]
        BY <2>1 DEF IInv, Working, At
      <3>2. Atomic!Justified(s, n, "already")
        BY <2>1, <2>2, <3>1 DEF Atomic!Justified
      <3> QED BY <1>0, <2>1, <2>2, <3>2, AtomicAnswer
    <2>3. CASE UNCHANGED <<todo, result>>
      BY <2>1, <2>3, AtomicStutter
    <2> QED BY <1>3, <2>2, <2>3 DEF CheckUnlocked, CheckLocked, IsLocked
  <1>4. CASE Execute(s, n)
    <2>1. Atomic!Take(s, n)
      BY <1>4, AtomicTake DEF Execute
    <2> QED BY <1>0, <1>4, <2>1, AtomicAnswer DEF Execute
  <1>5. CASE LoseAnswer(s, n)
    <2>1. Atomic!Take(s, n)
      BY <1>5, AtomicTake DEF LoseAnswer
    <2> QED BY <1>0, <1>5, <2>1, AtomicAnswer DEF LoseAnswer
  <1>6. CASE Fail(s, n)
    <2>1. Atomic!Justified(s, n, "mysql_error")
      BY <1>6 DEF Fail, Atomic!Justified
    <2> QED BY <1>0, <1>6, <2>1, AtomicAnswer DEF Fail
  <1>7. CASE ListDatabase(s, n)
    <2>1. At(s, "next", n) /\ req' = req /\ UNCHANGED store /\ req[s].op \in Atomic!Reading
      BY <1>0, <1>7 DEF ListDatabase
    <2>2. PICK r \in {"ok", "missing"} : Answer(s, n, r)
      BY <1>7 DEF ListDatabase
    <2> QED BY <1>0, <2>1, <2>2, AtomicAnswer
  <1>8. CASE SelectRows(s, n)
    <2>1. At(s, "rows", n) /\ req' = req /\ UNCHANGED store /\ Answer(s, n, "ok")
      BY <1>8 DEF SelectRows
    <2>2. req[s].op \in Atomic!Reading
      BY <1>0, <2>1 DEF IInv, Working, At
    <2> QED BY <1>0, <2>1, <2>2, AtomicAnswer
  <1>9. CASE SelectUser(s, n)
    <2>1. At(s, "next", n) /\ req' = req /\ UNCHANGED store /\ req[s].op \in Atomic!Reading
      BY <1>0, <1>9 DEF SelectUser
    <2>2. CASE Answer(s, n, "missing")
      BY <1>0, <2>1, <2>2, AtomicAnswer
    <2>3. CASE UNCHANGED <<todo, result>>
      BY <2>1, <2>3, AtomicStutter
    <2> QED BY <1>9, <2>2, <2>3 DEF SelectUser
  <1>10. CASE SelectUserDatabases(s, n)
    <2>1. At(s, "databases", n) /\ req' = req /\ UNCHANGED store /\ Answer(s, n, "ok")
      BY <1>10 DEF SelectUserDatabases
    <2>2. req[s].op \in Atomic!Reading
      BY <1>0, <2>1 DEF IInv, Working, At
    <2> QED BY <1>0, <2>1, <2>2, AtomicAnswer
  <1> QED BY <1>1, <1>2, <1>3, <1>4, <1>5, <1>6, <1>7, <1>8, <1>9, <1>10 DEF HandleName

LEMMA AtomicHandleAll ==
    ASSUME IInv, NEW s \in Sessions, HandleAll(s)
    PROVE  Atomic!Next \/ UNCHANGED Atomic!vars
  <1> USE DEF UnchangedStore
  <1>0. "ok" \in Results \ {"none"} /\ AllOps \cup {"ListUsers"} \subseteq Atomic!Reading
    BY DEF Results, Atomic!Reading, AllOps
  <1>1. CASE ListAllDatabases(s)
    BY <1>0, <1>1, AtomicAnswer DEF ListAllDatabases, AllOps
  <1>2. CASE ListAllPrivileges(s)
    BY <1>0, <1>2, AtomicAnswer DEF ListAllPrivileges, AllOps
  <1>3. CASE ListAllUsers(s)
    BY <1>3, AtomicStutter DEF ListAllUsers
  <1>4. CASE ListAllUsersEnd(s)
    <2>1. At(s, "databases", All) /\ req' = req /\ UNCHANGED store /\ Answer(s, All, "ok")
      BY <1>4 DEF ListAllUsersEnd
    <2>2. req[s].op \in Atomic!Reading
      BY <1>0, <2>1 DEF IInv, Working, At, AllOps
    <2> QED BY <1>0, <2>1, <2>2, AtomicAnswer
  <1>5. ASSUME NEW u \in Users, ListAllUsersDatabases(s, u) PROVE UNCHANGED Atomic!vars
    BY <1>5, AtomicStutter DEF ListAllUsersDatabases
  <1> QED BY <1>1, <1>2, <1>3, <1>4, <1>5 DEF HandleAll

LEMMA AtomicStep == RInv /\ [Next]_vars => [Atomic!Next]_(Atomic!vars)
  <1> SUFFICES ASSUME RInv, [Next]_vars PROVE Atomic!Next \/ UNCHANGED Atomic!vars
    OBVIOUS
  <1>0. IInv
    BY DEF RInv
  <1>1. ASSUME NEW k \in Dbs \X Users, EditPrivileges(k) PROVE Atomic!Next
    <2>1. UNCHANGED <<req, todo, result>> /\ EditRow(k)
      BY <1>1 DEF EditPrivileges
    <2>2. \A s \in Sessions : Asked(s)' = Asked(s)
      BY <2>1 DEF Asked
    <2>3. Atomic!Edit
      BY <2>1, <2>2 DEF Atomic!Edit, Atomic!EditRow, EditRow
    <2> QED BY <2>3 DEF Atomic!Next
  <1>2. CASE UNCHANGED vars
    BY <1>2, AtomicStutter DEF vars
  <1>3. CASE Next
    BY <1>0, <1>1, <1>3, AtomicBegin, AtomicHandleName, AtomicHandleAll DEF Next
  <1> QED BY <1>2, <1>3

(* The handlers implement the abstract specification: although the checks and    *)
(* the statements of sessions interleave and fail in any way, every answer for a  *)
(* name is true, and every change takes place, at one moment, and no request is   *)
(* answered before each of its names is.                                        *)
THEOREM HandlersAreAtomic == Spec => AtomicSpec
  <1>1. Init => RInv
    <2>1. Init => \A s \in Sessions : Answered(s)
      BY DEF Init, Answered, Asked, NoRequest
    <2> QED BY <2>1, IInvInit DEF RInv
  <1> QED BY <1>1, RInvStep, AtomicInit, AtomicStep, PTL DEF Spec, AtomicSpec, Atomic!Spec

-----------------------------------------------------------------------------
(* How many names of its request a session has dealt with.                       *)
Done(s) == Len(req[s].names) - Len(todo[s])

(* The names to do are the last ones of the request, and what the request has     *)
(* changed comes before them.                                                   *)
InOrder(s) ==
    /\ Done(s) \in Nat
    /\ \A i \in 1..Len(todo[s]) : todo[s][i] = req[s].names[Done(s) + i]
    /\ \A n \in changed[s] : \E j \in 1..Done(s) : req[s].names[j] = n

Unique(s, n) == \A i, j \in DOMAIN req[s].names : req[s].names[i] = n /\ req[s].names[j] = n => i = j

Reported(s, n) ==
    /\ result[s][n] = "ok" /\ req[s].op \in CreateOps \cup LockOps => n \in changed[s]
    /\ result[s][n] \in {"validation", "exists", "missing", "already"} /\ Unique(s, n) => n \notin changed[s]

EInv == IInv /\ \A s \in Sessions : InOrder(s) /\ \A n \in Keys : Reported(s, n)

(* Before the answer for the name at hand, a name given once has not been changed. *)
LEMMA HandIsNew ==
    ASSUME EInv, NEW s \in Sessions, NEW n, At(s, pc[s], n)
    PROVE  /\ Done(s) + 1 \in DOMAIN req[s].names /\ req[s].names[Done(s) + 1] = n
           /\ Unique(s, n) => n \notin changed[s]
  <1>1. todo[s] \in Seq(Keys) /\ todo[s] # <<>> /\ n = todo[s][1] /\ req[s].names \in Seq(Keys)
    BY KindOfNames DEF EInv, IInv, TypeOK, At
  <1>2. /\ Len(todo[s]) \in Nat \ {0} /\ Len(req[s].names) \in Nat
        /\ DOMAIN req[s].names = 1..Len(req[s].names)
        /\ Done(s) \in Nat /\ Done(s) = Len(req[s].names) - Len(todo[s])
    <2>1. Len(todo[s]) \in Nat \ {0} /\ Len(req[s].names) \in Nat /\ DOMAIN req[s].names = 1..Len(req[s].names)
      BY <1>1
    <2>2. Done(s) \in Nat
      BY DEF EInv, InOrder
    <2> QED BY <2>1, <2>2 DEF Done
  <1>3. Done(s) + 1 \in DOMAIN req[s].names /\ req[s].names[Done(s) + 1] = n
    <2>1. 1 \in 1..Len(todo[s])
      BY <1>2
    <2>2. req[s].names[Done(s) + 1] = n
      BY <1>1, <2>1 DEF EInv, InOrder
    <2>3. Done(s) + 1 \in 1..Len(req[s].names)
      <3>1. \A a \in Nat, b \in Nat \ {0}, d \in Nat : d = a - b => d + 1 \in 1..a
        OBVIOUS
      <3> QED BY <1>2, <3>1
    <2> QED BY <1>2, <2>2, <2>3
  <1>4. ASSUME Unique(s, n), n \in changed[s] PROVE FALSE
    <2>1. PICK j \in 1..Done(s) : req[s].names[j] = n
      BY <1>4 DEF EInv, InOrder
    <2>2. j \in DOMAIN req[s].names /\ j # Done(s) + 1
      BY <1>2, <2>1
    <2> QED BY <1>3, <1>4, <2>1, <2>2 DEF Unique
  <1> QED BY <1>3, <1>4

(* An answer, with or without a change of the name at hand.                       *)
LEMMA AnswerInOrder ==
    ASSUME EInv, NEW s \in Sessions, NEW n, NEW r, At(s, pc[s], n), Answer(s, n, r), req' = req,
           NEW C \in SUBSET {n}, changed' = [changed EXCEPT ![s] = @ \cup C]
    PROVE  \A t \in Sessions : InOrder(t)'
  <1>1. todo[s] \in Seq(Keys) /\ todo[s] # <<>> /\ req[s].names \in Seq(Keys)
    BY KindOfNames DEF EInv, IInv, TypeOK, At
  <1>2. /\ todo'[s] = Tail(todo[s]) /\ changed'[s] = changed[s] \cup C
        /\ \A t \in Sessions \ {s} : todo'[t] = todo[t] /\ changed'[t] = changed[t]
    BY DEF EInv, IInv, TypeOK, Answer
  <1>3. ASSUME NEW t \in Sessions, t # s PROVE InOrder(t)'
    <2>1. Done(t)' = Done(t)
      BY <1>2, <1>3 DEF Done
    <2>2. InOrder(t)
      BY DEF EInv
    <2> QED BY <1>2, <1>3, <2>1, <2>2 DEF InOrder
  <1>4. InOrder(s)'
    <2>1. Done(s) \in Nat /\ Len(todo[s]) \in Nat \ {0}
      <3>1. Len(todo[s]) \in Nat \ {0}
        BY <1>1
      <3> QED BY <3>1 DEF EInv, InOrder
    <2>2. Done(s)' = Done(s) + 1 /\ Len(Tail(todo[s])) = Len(todo[s]) - 1
      <3>1. Len(Tail(todo[s])) = Len(todo[s]) - 1 /\ Len(req[s].names) \in Nat
        BY <1>1
      <3>2. \A a, b \in Nat : a - (b - 1) = (a - b) + 1
        OBVIOUS
      <3>3. Done(s)' = Len(req[s].names) - Len(Tail(todo[s]))
        BY <1>2 DEF Done
      <3> QED BY <2>1, <3>1, <3>2, <3>3 DEF Done
    <2>3. ASSUME NEW i \in 1..Len(Tail(todo[s])) PROVE Tail(todo[s])[i] = req[s].names[Done(s) + 1 + i]
      <3>1. i + 1 \in 1..Len(todo[s]) /\ Tail(todo[s])[i] = todo[s][i + 1]
        BY <1>1, <2>1, <2>2
      <3>2. todo[s][i + 1] = req[s].names[Done(s) + (i + 1)]
        BY <3>1 DEF EInv, InOrder
      <3>3. Done(s) + (i + 1) = Done(s) + 1 + i
        BY <2>1
      <3> QED BY <3>1, <3>2, <3>3
    <2>4. ASSUME NEW m \in changed'[s] PROVE \E j \in 1..(Done(s) + 1) : req[s].names[j] = m
      <3>1. CASE m \in changed[s]
        BY <2>1, <3>1 DEF EInv, InOrder
      <3>2. CASE m = n
        BY <2>1, <3>2, HandIsNew
      <3> QED BY <1>2, <3>1, <3>2
    <2> QED BY <1>2, <2>1, <2>2, <2>3, <2>4 DEF InOrder
  <1> QED BY <1>3, <1>4

LEMMA RefusalKeeps ==
    ASSUME EInv, IInv', NEW s \in Sessions, NEW n \in Keys, NEW r \in Results \ {"none"}, Refusal(s, n, r)
    PROVE  EInv'
  <1>1. changed' = [changed EXCEPT ![s] = @ \cup {}] /\ {} \in SUBSET {n}
    BY DEF Refusal, EInv, IInv, TypeOK
  <1>2. \A t \in Sessions : InOrder(t)'
    <2>1. At(s, pc[s], n) /\ Answer(s, n, r) /\ req' = req
      BY DEF Refusal
    <2> QED BY <1>1, <2>1, AnswerInOrder
  <1>3. ASSUME NEW t \in Sessions, NEW m \in Keys PROVE Reported(t, m)'
    <2>1. Unique(t, m)' = Unique(t, m)
      BY DEF Unique, Refusal
    <2>2. result'[t][m] = IF t = s /\ m = n THEN r ELSE result[t][m]
      BY DEF Refusal, Answer, EInv, IInv, TypeOK
    <2>3. Reported(t, m)
      BY DEF EInv
    <2>4. CASE t = s /\ m = n
      BY <2>1, <2>2, <2>4, HandIsNew DEF Refusal, Reported
    <2>5. CASE ~(t = s /\ m = n)
      BY <2>1, <2>2, <2>3, <2>5 DEF Refusal, Reported
    <2> QED BY <2>4, <2>5
  <1> QED BY <1>2, <1>3 DEF EInv

LEMMA EffectKeeps ==
    ASSUME EInv, IInv', NEW s \in Sessions, NEW n \in Keys, NEW r, Effect(s, n, r)
    PROVE  EInv'
  <1>2. \A t \in Sessions : InOrder(t)'
    BY AnswerInOrder DEF Effect
  <1>3. ASSUME NEW t \in Sessions, NEW m \in Keys PROVE Reported(t, m)'
    <2>1. Unique(t, m)' = Unique(t, m)
      BY DEF Unique, Effect
    <2>2. /\ result'[t][m] = IF t = s /\ m = n THEN r ELSE result[t][m]
          /\ changed'[t] = IF t = s THEN changed[t] \cup {n} ELSE changed[t]
      <3>1. /\ changed \in [Sessions -> SUBSET Names] /\ result \in [Sessions -> [Keys -> Results]]
            /\ changed' = [changed EXCEPT ![s] = @ \cup {n}] /\ result' = [result EXCEPT ![s][n] = r]
        BY DEF Effect, Answer, EInv, IInv, TypeOK
      <3> QED BY <3>1
    <2>3. Reported(t, m)
      BY DEF EInv
    <2> QED BY <2>1, <2>2, <2>3 DEF Effect, Reported
  <1> QED BY <1>2, <1>3 DEF EInv

LEMMA EInvStep == EInv /\ [Next]_vars => EInv'
  <1> SUFFICES ASSUME EInv, [Next]_vars PROVE EInv'
    OBVIOUS
  <1>0. IInv /\ IInv'
    BY IInvStep DEF EInv
  <1>1. CASE UNCHANGED <<req, todo, result, changed>>
    <2>1. ASSUME NEW t \in Sessions PROVE InOrder(t)' /\ \A n \in Keys : Reported(t, n)'
      <3>1. InOrder(t) /\ \A n \in Keys : Reported(t, n)
        BY DEF EInv
      <3>2. Done(t)' = Done(t) /\ \A n \in Keys : Unique(t, n)' = Unique(t, n)
        BY <1>1 DEF Done, Unique
      <3> QED BY <1>1, <3>1, <3>2 DEF InOrder, Reported
    <2> QED BY <1>0, <2>1 DEF EInv
  <1>2. ASSUME NEW s \in Sessions, NEW r \in Requests, Begin(s, r) PROVE EInv'
    <2>1. ASSUME NEW t \in Sessions PROVE InOrder(t)' /\ \A n \in Keys : Reported(t, n)'
      <3>1. CASE t = s
        <4>1. req'[s] = r /\ todo'[s] = r.names /\ changed'[s] = {} /\ \A n \in Keys : result'[s][n] = "none"
          BY <1>0, <1>2 DEF Begin, IInv, TypeOK
        <4>2. r.names \in Seq(Keys)
          BY KindOfNames
        <4>3. Done(s)' = 0 /\ \A i \in 1..Len(r.names) : 0 + i = i
          BY <4>1, <4>2 DEF Done
        <4> QED BY <3>1, <4>1, <4>3 DEF InOrder, Reported
      <3>2. CASE t # s
        <4>1. req'[t] = req[t] /\ todo'[t] = todo[t] /\ result'[t] = result[t] /\ changed'[t] = changed[t]
          BY <1>0, <1>2, <3>2 DEF Begin, IInv, TypeOK
        <4>2. InOrder(t) /\ \A n \in Keys : Reported(t, n)
          BY DEF EInv
        <4>3. Done(t)' = Done(t) /\ \A n \in Keys : Unique(t, n)' = Unique(t, n)
          BY <4>1 DEF Done, Unique
        <4> QED BY <4>1, <4>2, <4>3 DEF InOrder, Reported
      <3> QED BY <3>1, <3>2
    <2> QED BY <1>0, <2>1 DEF EInv
  <1>3. CASE UNCHANGED vars
    BY <1>1, <1>3 DEF vars
  <1> QED BY <1>0, <1>1, <1>2, <1>3, StepShape, RefusalKeeps, EffectKeeps

(* For any number of sessions, however they interleave and fail: an answer that   *)
(* is neither a success nor a MySQL error means that this request has not changed  *)
(* what is named, unless the name was given twice; a success means that it has.    *)
THEOREM AnswersAreHonest == Spec => []ErrorMeansUnchanged
  <1>1. Init => EInv
    <2>1. ASSUME Init, NEW s \in Sessions PROVE InOrder(s) /\ \A n \in Keys : Reported(s, n)
      BY <2>1 DEF Init, InOrder, Done, Reported, NoRequest
    <2> QED BY <2>1, IInvInit DEF EInv
  <1>2. EInv => ErrorMeansUnchanged
    BY DEF EInv, ErrorMeansUnchanged, Reported, Unique, Keys
  <1> QED BY <1>1, <1>2, EInvStep, PTL DEF Spec

-----------------------------------------------------------------------------
(* Only names of the request have an answer, and a request that gives no names     *)
(* is answered at once.                                                           *)
Books(s) ==
    /\ \A n \in Keys : result[s][n] # "none" => n \in Asked(s)
    /\ req[s].op \in AllOps =>
           todo[s] = <<>> \/ (todo[s] = <<All>> /\ \A n \in Keys : result[s][n] = "none")

(* What an undisturbed session has found out, in the middle of a request: the       *)
(* name at hand exists, and what it has listed so far is what there is.            *)
Progress(s) ==
    /\ pc[s] = "rows" => Head(todo[s]) \in dbs
    /\ pc[s] = "databases" /\ req[s].op = "ListUsers" => Head(todo[s]) \in users
    /\ req[s].op = "ListPrivileges" => listing[s] \subseteq rows
    /\ req[s].op = "ListUsers" => listing[s] \subseteq granting
    /\ req[s].op = "ListAllUsers" /\ pc[s] = "next" /\ todo[s] # <<>> => listing[s] = {}
    /\ req[s].op = "ListAllUsers" /\ pc[s] = "databases" =>
           /\ found[s] \subseteq users \cap Shown[s]
           /\ listing[s] = {k \in granting : k[2] \in (users \cap Shown[s]) \ found[s]}

(* Every answer so far is true, not only when the request is finished: a statement  *)
(* for one name of a request does not touch what was claimed of another.           *)
Undisturbed(s) == quiet[s] => Progress(s) /\ \A n \in Keys : Claim(s, n)

QInv == IInv /\ \A s \in Sessions : Books(s) /\ Undisturbed(s)

(* What a session knows is kept as long as nothing it depends on changes. *)
LEMMA ClaimKept ==
    ASSUME UNCHANGED store, NEW s \in Sessions, NEW n \in Keys,
           result'[s][n] = result[s][n], req'[s] = req[s], told'[s] = told[s], listing'[s] = listing[s],
           Claim(s, n)
    PROVE  Claim(s, n)'
BY DEF store, Claim, Exists

(* What is known of a session stays true while others work, unless they disturb it. *)
LEMMA OthersKept ==
    ASSUME NEW t \in Sessions, Books(t), Undisturbed(t),
           pc'[t] = pc[t], req'[t] = req[t], todo'[t] = todo[t], result'[t] = result[t],
           told'[t] = told[t], found'[t] = found[t], listing'[t] = listing[t],
           (UNCHANGED store /\ quiet'[t] = quiet[t]) \/ quiet'[t] = FALSE
    PROVE  Books(t)' /\ Undisturbed(t)'
<1>1. Books(t)'
  BY DEF Books, Asked
<1>2. CASE UNCHANGED store /\ quiet'[t] = quiet[t] /\ quiet[t]
  <2>1. \A n \in Keys : Claim(t, n)'
    BY <1>2, ClaimKept DEF Undisturbed
  <2>2. Progress(t)'
    BY <1>2 DEF Undisturbed, Progress, store
  <2> QED BY <1>1, <2>1, <2>2 DEF Undisturbed
<1>3. CASE ~quiet'[t]
  BY <1>1, <1>3 DEF Undisturbed
<1> QED BY <1>2, <1>3

(* An answer that is true, and leaves what was listed alone, keeps the others true. *)
LEMMA TrueAnswerKept ==
    ASSUME IInv, NEW s \in Sessions, Books(s), Undisturbed(s), NEW l, NEW n, At(s, l, n), NEW r \in Results,
           Answer(s, n, r), UNCHANGED <<store, req, told, listing>>, quiet'[s] = quiet[s],
           quiet[s] => Claim(s, n)'
    PROVE  Books(s)' /\ Undisturbed(s)'
<1>1. /\ n \in Keys /\ n \in Asked(s) /\ (req[s].op \in AllOps => n = All)
      /\ todo[s] # <<>> /\ n = Head(todo[s])
  BY AtHand DEF At
<1>2. /\ pc'[s] = "next" /\ todo'[s] = Tail(todo[s])
      /\ \A m \in Keys : result'[s][m] = IF m = n THEN r ELSE result[s][m]
  BY <1>1 DEF Answer, Goto, IInv, TypeOK
<1>3. Asked(s)' = Asked(s)
  BY DEF Asked
<1>4. req[s].op \in AllOps => todo'[s] = <<>>
  <2>1. Tail(<<All>>) = <<>>
    OBVIOUS
  <2> QED BY <1>1, <1>2, <2>1 DEF Books
<1>5. Books(s)'
  BY <1>1, <1>2, <1>3, <1>4 DEF Books
<1>6. ASSUME quiet[s], NEW m \in Keys
      PROVE  Claim(s, m)'
  <2>1. CASE m = n
    BY <1>6, <2>1
  <2>2. CASE m # n
    BY <1>2, <1>6, <2>2, ClaimKept DEF Undisturbed
  <2> QED BY <2>1, <2>2
<1>7. quiet[s] => Progress(s)'
  BY <1>2, <1>4 DEF Undisturbed, Progress, AllOps, store
<1> QED BY <1>5, <1>6, <1>7 DEF Undisturbed

(* A step that stays with the name. *)
LEMMA SameNameKept ==
    ASSUME IInv, NEW s \in Sessions, Books(s), Undisturbed(s),
           UNCHANGED <<store, req, todo, result, told>>, quiet'[s] = quiet[s], quiet[s] => Progress(s)',
           listing'[s] = listing[s] \/ (req[s].op = "ListAllUsers" /\ todo[s] # <<>>)
    PROVE  Books(s)' /\ Undisturbed(s)'
<1>1. Books(s)'
  BY DEF Books, Asked
<1>2. ASSUME quiet[s], NEW m \in Keys
      PROVE  Claim(s, m)'
  <2>1. CASE listing'[s] = listing[s]
    BY <1>2, <2>1, ClaimKept DEF Undisturbed
  <2>2. CASE req[s].op = "ListAllUsers" /\ todo[s] # <<>>
    BY <2>2 DEF Books, AllOps, Claim
  <2> QED BY <2>1, <2>2
<1> QED BY <1>1, <1>2 DEF Undisturbed

(* A statement for the name n leaves every other name alone, and only the requests  *)
(* that change something run one.                                                  *)
LEMMA StatementIsLocal ==
    ASSUME NEW o, NEW n, NEW p, Statement(o, n, p), StoreTypeOK,
           o \in DbOps => n \in Dbs, o \in UserOps \cup {"PasswdUser"} => n \in Users
    PROVE  /\ o \in {"CreateDatabases", "DropDatabases", "CreateUsers", "DropUsers",
                     "PasswdUser", "LockUsers", "UnlockUsers"}
           /\ \A m : m # n => /\ (m \in dbs' <=> m \in dbs) /\ (m \in users' <=> m \in users)
                              /\ (m \in locked' <=> m \in locked) /\ secret'[m] = secret[m]
           /\ o \in CreateOps => n \in dbs' \/ n \in users'
           /\ o \in {"DropDatabases", "DropUsers"} => n \notin dbs' /\ n \notin users'
           /\ o \in LockOps => n \in users' /\ (n \in locked' <=> o = "LockUsers")
           /\ o = "PasswdUser" => secret'[n] = p
<1> USE DEF StoreTypeOK, CreateOps, LockOps, DbOps, UserOps
<1>1. CASE o = "CreateDatabases" /\ CreateDatabase(n)
  BY <1>1 DEF CreateDatabase
<1>2. CASE o = "DropDatabases" /\ DropDatabase(n)
  BY <1>2, NamesAssumption DEF DropDatabase
<1>3. CASE o = "CreateUsers" /\ CreateUser(n)
  BY <1>3 DEF CreateUser
<1>4. CASE o = "DropUsers" /\ DropUser(n)
  BY <1>4, NamesAssumption DEF DropUser
<1>5. CASE o = "PasswdUser" /\ AlterPassword(n, p)
  BY <1>5 DEF AlterPassword
<1>6. CASE o = "LockUsers" /\ AlterLock(n)
  BY <1>6 DEF AlterLock
<1>7. CASE o = "UnlockUsers" /\ AlterUnlock(n)
  BY <1>7 DEF AlterUnlock
<1> QED BY <1>1, <1>2, <1>3, <1>4, <1>5, <1>6, <1>7 DEF Statement

(* The session's own statement. *)
LEMMA RunKept ==
    ASSUME IInv, NEW s \in Sessions, Books(s), Undisturbed(s), NEW n, At(s, "execute", n),
           NEW p \in Password(s), Run(s, n, p), NEW r \in {"ok", "mysql_error"}, Answer(s, n, r), req' = req,
           \/ r = "ok" /\ told' = [told EXCEPT ![s] = IF req[s].password = "Generate" THEN p ELSE NoSecret]
           \/ r = "mysql_error" /\ told' = told
    PROVE  Books(s)' /\ Undisturbed(s)'
<1>1. /\ n \in Keys /\ n \in Asked(s) /\ todo[s] # <<>> /\ n = Head(todo[s])
      /\ req[s].op \in DbOps => n \in Dbs
      /\ req[s].op \in UserOps \cup {"PasswdUser"} => n \in Users
  BY AtHand DEF At
<1>2. /\ pc'[s] = "next" /\ todo'[s] = Tail(todo[s])
      /\ \A m \in Keys : result'[s][m] = IF m = n THEN r ELSE result[s][m]
  BY <1>1 DEF Answer, Goto, IInv, TypeOK
<1>3. Asked(s)' = Asked(s)
  BY DEF Asked
<1>4. /\ req[s].op \in {"CreateDatabases", "DropDatabases", "CreateUsers", "DropUsers",
                        "PasswdUser", "LockUsers", "UnlockUsers"}
      /\ \A m : m # n => /\ (m \in dbs' <=> m \in dbs) /\ (m \in users' <=> m \in users)
                         /\ (m \in locked' <=> m \in locked) /\ secret'[m] = secret[m]
      /\ req[s].op \in CreateOps => n \in dbs' \/ n \in users'
      /\ req[s].op \in {"DropDatabases", "DropUsers"} => n \notin dbs' /\ n \notin users'
      /\ req[s].op \in LockOps => n \in users' /\ (n \in locked' <=> req[s].op = "LockUsers")
      /\ req[s].op = "PasswdUser" => secret'[n] = p
  <2>1. Statement(req[s].op, n, p) /\ StoreTypeOK
    BY DEF Run, IInv, TypeOK
  <2> QED BY <1>1, <2>1, StatementIsLocal
<1>5. Books(s)'
  BY <1>1, <1>2, <1>3, <1>4 DEF Books, AllOps
<1>6. Progress(s)'
  BY <1>2, <1>4 DEF Progress
<1>7. Claim(s, n)'
  <2>1. CASE r = "mysql_error"
    BY <1>1, <1>2, <2>1 DEF Claim
  <2>2. CASE r = "ok" /\ req[s].op # "PasswdUser"
    BY <1>1, <1>2, <1>4, <2>2 DEF Claim, Exists, CreateOps, LockOps
  <2>3. CASE r = "ok" /\ req[s].op = "PasswdUser"
    <3>1. told'[s] = IF req[s].password = "Generate" THEN p ELSE NoSecret
      BY <2>3 DEF IInv, TypeOK
    <3>2. req[s].password # "Generate" => p = req[s].password
      BY DEF Password
    <3> QED BY <1>1, <1>2, <1>4, <2>3, <3>1, <3>2 DEF Claim, CreateOps, LockOps
  <2> QED BY <2>1, <2>2, <2>3
<1>8. ASSUME quiet[s], NEW m \in Keys, m # n
      PROVE  Claim(s, m)'
  <2>1. Claim(s, m) /\ result'[s][m] = result[s][m]
    BY <1>2, <1>8 DEF Undisturbed
  <2>2. CASE req[s].op = "PasswdUser" /\ result[s][m] = "ok"
    <3>1. m \in Asked(s)
      BY <2>2 DEF Books
    <3>2. req[s].names \in [1..1 -> Users]
      <4>1. req[s] \in Requests \cup {NoRequest}
        BY DEF IInv, TypeOK
      <4> QED BY <2>2, <4>1 DEF Requests, NoRequest, DbOps, UserOps, LockOps, AllOps
    <3> QED BY <1>1, <1>8, <3>1, <3>2 DEF Asked
  <2>3. CASE ~(req[s].op = "PasswdUser" /\ result[s][m] = "ok")
    BY <1>4, <1>8, <2>1, <2>3 DEF Claim, Exists, CreateOps, LockOps
  <2> QED BY <2>2, <2>3
<1> QED BY <1>5, <1>6, <1>7, <1>8 DEF Undisturbed, Run

(* The listings: what is added is what there is for the name at hand. *)
LEMMA ListedKept ==
    ASSUME IInv, NEW s \in Sessions, Books(s), Undisturbed(s), NEW l, NEW n \in Names,
           At(s, l, n), NEW i, NEW R,
           \/ i = 1 /\ R = rows /\ req[s].op = "ListPrivileges" /\ (quiet[s] => n \in dbs)
           \/ i = 2 /\ R = granting /\ req[s].op = "ListUsers" /\ (quiet[s] => n \in users),
           listing' = [listing EXCEPT ![s] = @ \cup {k \in R : k[i] = n}],
           Answer(s, n, "ok"), UNCHANGED <<store, req, told>>, quiet'[s] = quiet[s]
    PROVE  Books(s)' /\ Undisturbed(s)'
<1>1. n \in Keys /\ n \in Asked(s)
  BY AtHand
<1>2. /\ pc'[s] = "next"
      /\ \A m \in Keys : result'[s][m] = IF m = n THEN "ok" ELSE result[s][m]
      /\ listing'[s] = listing[s] \cup {k \in R : k[i] = n}
  BY <1>1 DEF Answer, Goto, IInv, TypeOK
<1>3. Asked(s)' = Asked(s) /\ UNCHANGED <<dbs, users, locked, secret, rows, granting>>
  BY DEF Asked, store
<1>4. Books(s)'
  BY <1>1, <1>2, <1>3 DEF Books, AllOps
<1>5. ASSUME quiet[s]
      PROVE  Progress(s)' /\ \A m \in Keys : Claim(s, m)'
  <2>1. listing[s] \subseteq R
    BY <1>5 DEF Undisturbed, Progress
  <2>2. Progress(s)'
    BY <1>2, <1>3, <2>1 DEF Progress
  <2>3. {k \in listing'[s] : k[i] = n} = {k \in R : k[i] = n}
    BY <1>2, <2>1
  <2>4. Claim(s, n)'
    BY <1>1, <1>2, <1>3, <1>5, <2>3 DEF Claim, CreateOps, LockOps
  <2>5. ASSUME NEW m \in Keys, m # n
        PROVE  Claim(s, m)'
    <3>1. {k \in listing'[s] : k[i] = m} = {k \in listing[s] : k[i] = m}
      BY <1>2, <2>5
    <3>2. Claim(s, m) /\ result'[s][m] = result[s][m]
      BY <1>2, <1>5, <2>5 DEF Undisturbed
    <3> QED BY <1>3, <3>1, <3>2 DEF Claim, Exists, CreateOps, LockOps
  <2> QED BY <2>2, <2>4, <2>5
<1> QED BY <1>4, <1>5 DEF Undisturbed

(* The answer to a request without names is its whole response. *)
LEMMA ListedAllKept ==
    ASSUME IInv, NEW s \in Sessions, Books(s), Undisturbed(s), NEW l, At(s, l, All), req[s].op \in AllOps,
           Answer(s, All, "ok"), UNCHANGED <<store, req, told>>, quiet'[s] = quiet[s],
           quiet[s] => Claim(s, All)'
    PROVE  Books(s)' /\ Undisturbed(s)'
<1>1. All \in Keys /\ All \in Asked(s)
  BY AtHand DEF Keys
<1>2. /\ pc'[s] = "next" /\ todo'[s] = Tail(todo[s])
      /\ \A m \in Keys : result'[s][m] = IF m = All THEN "ok" ELSE result[s][m]
  BY <1>1 DEF Answer, Goto, IInv, TypeOK
<1>3. todo'[s] = <<>> /\ \A m \in Keys \ {All} : result'[s][m] = "none"
  <2>1. Tail(<<All>>) = <<>>
    OBVIOUS
  <2> QED BY <1>2, <2>1 DEF Books, At
<1>4. Asked(s)' = Asked(s)
  BY DEF Asked
<1>5. Books(s)'
  BY <1>1, <1>3, <1>4 DEF Books
<1>6. Progress(s)'
  BY <1>2, <1>3 DEF Progress, AllOps
<1>7. \A m \in Keys \ {All} : Claim(s, m)'
  BY <1>3 DEF Claim
<1> QED BY <1>1, <1>5, <1>6, <1>7 DEF Undisturbed

-----------------------------------------------------------------------------
(* What a step of the session s does to the others: nothing, but for an effect on    *)
(* the database, which then disturbs them.                                         *)
Elsewhere(s) ==
    \A t \in Sessions \ {s} :
        /\ pc'[t] = pc[t] /\ req'[t] = req[t] /\ todo'[t] = todo[t] /\ result'[t] = result[t]
        /\ told'[t] = told[t] /\ found'[t] = found[t] /\ listing'[t] = listing[t]
        /\ (UNCHANGED store /\ quiet'[t] = quiet[t]) \/ quiet'[t] = FALSE

(* Every step of a session is of that kind. *)
LEMMA StepIsLocal ==
    ASSUME IInv, NEW s \in Sessions,
           \/ \E r \in Requests : Begin(s, r)
           \/ \E n \in Keys : HandleName(s, n)
           \/ HandleAll(s)
    PROVE  Elsewhere(s)
<1> USE DEF IInv, TypeOK, Elsewhere, UnchangedStore, reply
<1>1. ASSUME NEW r \in Requests, Begin(s, r)
      PROVE  Elsewhere(s)
  BY <1>1 DEF Begin
<1>2. ASSUME NEW n \in Keys, HandleName(s, n)
      PROVE  Elsewhere(s)
  <2>1. CASE Reject(s, n)
    BY <2>1 DEF Reject, Answer, Goto
  <2>2. CASE CheckExists(s, n)
    BY <2>2 DEF CheckExists, Answer, Goto
  <2>3. CASE CheckUnlocked(s, n) \/ CheckLocked(s, n)
    BY <2>3 DEF CheckUnlocked, CheckLocked, Answer, Goto
  <2>4. CASE Execute(s, n)
    BY <2>4 DEF Execute, Run, Answer, Goto
  <2>5. CASE LoseAnswer(s, n)
    BY <2>5 DEF LoseAnswer, Run, Answer, Goto
  <2>6. CASE Fail(s, n)
    BY <2>6 DEF Fail, Answer, Goto
  <2>7. CASE ListDatabase(s, n)
    BY <2>7 DEF ListDatabase, Answer, Goto
  <2>8. CASE SelectRows(s, n)
    BY <2>8 DEF SelectRows, Answer, Goto
  <2>9. CASE SelectUser(s, n)
    BY <2>9 DEF SelectUser, Answer, Goto
  <2>10. CASE SelectUserDatabases(s, n)
    BY <2>10 DEF SelectUserDatabases, Answer, Goto
  <2> QED BY <1>2, <2>1, <2>2, <2>3, <2>4, <2>5, <2>6, <2>7, <2>8, <2>9, <2>10 DEF HandleName
<1>3. ASSUME HandleAll(s)
      PROVE  Elsewhere(s)
  <2>1. CASE ListAllDatabases(s) \/ ListAllPrivileges(s)
    BY <2>1 DEF ListAllDatabases, ListAllPrivileges, Answer, Goto
  <2>2. CASE ListAllUsers(s)
    BY <2>2 DEF ListAllUsers, Goto
  <2>3. CASE ListAllUsersEnd(s)
    BY <2>3 DEF ListAllUsersEnd, Answer, Goto
  <2>4. ASSUME NEW u \in Users, ListAllUsersDatabases(s, u)
        PROVE  Elsewhere(s)
    BY <2>4 DEF ListAllUsersDatabases
  <2> QED BY <1>3, <2>1, <2>2, <2>3, <2>4 DEF HandleAll
<1> QED BY <1>1, <1>2, <1>3

(* A request that begins has no answers that could be wrong. *)
LEMMA BeginUndisturbed ==
    ASSUME IInv, NEW s \in Sessions, NEW r \in Requests, Begin(s, r)
    PROVE  Books(s)' /\ Undisturbed(s)'
<1>1. /\ pc'[s] = "next" /\ req'[s] = r /\ todo'[s] = r.names /\ listing'[s] = {}
      /\ \A n \in Keys : result'[s][n] = "none"
  BY DEF Begin, Finished, IInv, TypeOK
<1>2. r.op \in AllOps => r.names = <<All>>
  BY DEF Requests, DbOps, UserOps, LockOps, AllOps
<1>3. Books(s)'
  BY <1>1, <1>2 DEF Books
<1>4. Progress(s)'
  BY <1>1 DEF Progress
<1>5. \A n \in Keys : Claim(s, n)'
  BY <1>1 DEF Claim
<1> QED BY <1>3, <1>4, <1>5 DEF Undisturbed

(* The steps for one name, undisturbed. *)
LEMMA HandleNameUndisturbed ==
    ASSUME IInv, NEW s \in Sessions, Books(s), Undisturbed(s), NEW n \in Keys, HandleName(s, n)
    PROVE  Books(s)' /\ Undisturbed(s)'
<1> USE DEF UnchangedStore, reply
<1>0. \A r \in {"ok", "validation", "exists", "missing", "already", "mysql_error"} : r \in Results
  BY DEF Results
<1>1. ASSUME NEW r \in {"validation", "mysql_error"}, Answer(s, n, r), At(s, pc[s], n),
             UNCHANGED <<store, req, told, listing, quiet>>
      PROVE  Books(s)' /\ Undisturbed(s)'
  <2>1. result'[s][n] = r
    BY <1>1 DEF Answer, IInv, TypeOK
  <2>2. Claim(s, n)'
    BY <2>1 DEF Claim
  <2> QED BY <1>0, <1>1, <2>2, TrueAnswerKept
<1>2. CASE Reject(s, n)
  BY <1>1, <1>2 DEF Reject, At
<1>3. CASE CheckExists(s, n)
  <2>1. /\ At(s, "next", n) /\ UNCHANGED <<store, req, told, listing, found, quiet>> /\ n # All
        /\ req[s].op \notin {"ListDatabases", "ListUsers"}
    BY <1>3 DEF CheckExists
  <2>2. ASSUME NEW r \in {"exists", "missing"}, Answer(s, n, r), r = "exists" <=> Exists(n)
        PROVE  Books(s)' /\ Undisturbed(s)'
    <3>1. result'[s][n] = r
      BY <2>2 DEF Answer, IInv, TypeOK
    <3>2. Claim(s, n)'
      BY <2>1, <2>2, <3>1 DEF Claim, Exists, store
    <3> QED BY <1>0, <2>1, <2>2, <3>2, TrueAnswerKept
  <2>3. CASE /\ Exists(n) <=> req[s].op \notin CreateOps
             /\ Goto(s, IF req[s].op \in LockOps THEN "lock"
                        ELSE IF req[s].op = "ListPrivileges" THEN "rows" ELSE "execute")
             /\ UNCHANGED <<todo, result>>
    <3>1. /\ pc'[s] \in {"lock", "rows", "execute"}
          /\ pc'[s] = "rows" => req[s].op = "ListPrivileges"
      BY <2>3 DEF Goto, IInv, TypeOK
    <3>2. req[s].op = "ListPrivileges" => n \in dbs
      <4>1. req[s].op = "ListPrivileges" => n \in Dbs /\ Exists(n)
        BY <2>1, <2>3, AtHand DEF DbOps, CreateOps
      <4> QED BY <4>1, NamesAssumption DEF Exists, IInv, TypeOK, StoreTypeOK
    <3>3. quiet[s] => Progress(s)'
      BY <2>1, <2>3, <3>1, <3>2 DEF Undisturbed, Progress, store, At
    <3> QED BY <2>1, <2>3, <3>3, SameNameKept
  <2> QED BY <1>3, <2>2, <2>3 DEF CheckExists
<1>4. CASE CheckUnlocked(s, n) \/ CheckLocked(s, n)
  <2>1. At(s, "lock", n) /\ UNCHANGED <<store, req, told, listing, found, quiet>> /\ n \in users
        /\ req[s].op \in LockOps
    BY <1>4 DEF CheckUnlocked, CheckLocked, LockOps
  <2>2. CASE Answer(s, n, "already") /\ (n \in locked <=> req[s].op = "LockUsers")
    <3>1. result'[s][n] = "already"
      BY <2>2 DEF Answer, IInv, TypeOK
    <3>2. Claim(s, n)'
      BY <2>1, <2>2, <3>1 DEF Claim, store
    <3> QED BY <1>0, <2>1, <2>2, <3>2, TrueAnswerKept
  <2>3. CASE Goto(s, "execute") /\ UNCHANGED <<todo, result>>
    <3>1. pc'[s] = "execute"
      BY <2>3 DEF Goto, IInv, TypeOK
    <3>2. quiet[s] => Progress(s)'
      BY <2>1, <3>1 DEF Progress, LockOps
    <3> QED BY <2>1, <2>3, <3>2, SameNameKept
  <2> QED BY <1>4, <2>2, <2>3 DEF CheckUnlocked, CheckLocked, IsLocked
<1>5. CASE Execute(s, n)
  <2>1. PICK p \in Password(s) :
            Run(s, n, p) /\ told' = [told EXCEPT ![s] = IF req[s].password = "Generate" THEN p ELSE NoSecret]
    BY <1>5 DEF Execute
  <2> QED BY <1>5, <2>1, RunKept DEF Execute
<1>6. CASE LoseAnswer(s, n)
  <2>1. PICK p \in Password(s) : Run(s, n, p)
    BY <1>6 DEF LoseAnswer
  <2> QED BY <1>6, <2>1, RunKept DEF LoseAnswer
<1>7. CASE Fail(s, n)
  BY <1>1, <1>7 DEF Fail
<1>8. CASE ListDatabase(s, n)
  <2>1. At(s, "next", n) /\ UNCHANGED <<store, req, told, listing, quiet>> /\ n \in Dbs /\ req[s].op = "ListDatabases"
    BY <1>8, AtHand DEF ListDatabase, DbOps
  <2>2. n \in Hits[n]
    BY <2>1, RequestsAssumption
  <2>3. PICK r \in {"ok", "missing"} : Answer(s, n, r) /\ (r = "missing" => n \notin dbs)
    BY <1>8, <2>2 DEF ListDatabase
  <2>4. result'[s][n] = r
    BY <2>3 DEF Answer, IInv, TypeOK
  <2>5. n \notin users
    BY <2>1, NamesAssumption DEF IInv, TypeOK, StoreTypeOK
  <2>6. Claim(s, n)'
    BY <2>1, <2>3, <2>4, <2>5 DEF Claim, Exists, store, CreateOps, LockOps
  <2> QED BY <1>0, <2>1, <2>3, <2>6, TrueAnswerKept
<1>9. CASE SelectRows(s, n)
  <2>1. /\ At(s, "rows", n) /\ UNCHANGED <<store, req, told, quiet>> /\ Answer(s, n, "ok")
        /\ listing' = [listing EXCEPT ![s] = @ \cup {k \in rows : k[1] = n}]
        /\ req[s].op = "ListPrivileges"
    BY <1>9 DEF SelectRows, IInv, Working, At
  <2>2. n \in Names
    BY <2>1, AtHand DEF Names, DbOps
  <2>3. quiet[s] => n \in dbs
    BY <2>1 DEF Undisturbed, Progress, At
  <2> QED BY <2>1, <2>2, <2>3, ListedKept
<1>10. CASE SelectUser(s, n)
  <2>1. At(s, "next", n) /\ UNCHANGED <<store, req, told, listing, found, quiet>> /\ req[s].op = "ListUsers"
    BY <1>10 DEF SelectUser
  <2>2. CASE n \notin users /\ Answer(s, n, "missing")
    <3>1. result'[s][n] = "missing"
      BY <2>2 DEF Answer, IInv, TypeOK
    <3>2. n \notin dbs
      <4>1. n \in Users
        BY <2>1, AtHand DEF UserOps
      <4> QED BY <4>1, NamesAssumption DEF IInv, TypeOK, StoreTypeOK
    <3>3. Claim(s, n)'
      BY <2>1, <2>2, <3>1, <3>2 DEF Claim, Exists, store
    <3> QED BY <1>0, <2>1, <2>2, <3>3, TrueAnswerKept
  <2>3. CASE n \in users /\ Goto(s, "databases") /\ UNCHANGED <<todo, result>>
    <3>1. pc'[s] = "databases"
      BY <2>3 DEF Goto, IInv, TypeOK
    <3>2. quiet[s] => Progress(s)'
      BY <2>1, <2>3, <3>1 DEF Undisturbed, Progress, store, At
    <3> QED BY <2>1, <2>3, <3>2, SameNameKept
  <2> QED BY <1>10, <2>2, <2>3 DEF SelectUser
<1>11. CASE SelectUserDatabases(s, n)
  <2>1. /\ At(s, "databases", n) /\ UNCHANGED <<store, req, told, quiet>> /\ Answer(s, n, "ok") /\ n # All
        /\ listing' = [listing EXCEPT ![s] = @ \cup {k \in granting : k[2] = n}]
    BY <1>11 DEF SelectUserDatabases
  <2>2. req[s].op = "ListUsers" /\ n \in Names
    <3>1. req[s].op \in {"ListUsers", "ListAllUsers"}
      BY <2>1 DEF IInv, Working, At
    <3> QED BY <2>1, <3>1, AtHand DEF AllOps, UserOps, Names
  <2>3. quiet[s] => n \in users
    BY <2>1, <2>2 DEF Undisturbed, Progress, At
  <2> QED BY <2>1, <2>2, <2>3, ListedKept
<1> QED BY <1>2, <1>3, <1>4, <1>5, <1>6, <1>7, <1>8, <1>9, <1>10, <1>11 DEF HandleName

(* The steps of a request that names nothing, undisturbed. *)
LEMMA HandleAllUndisturbed ==
    ASSUME IInv, NEW s \in Sessions, Books(s), Undisturbed(s), HandleAll(s)
    PROVE  Books(s)' /\ Undisturbed(s)'
<1> USE DEF UnchangedStore, reply
<1>0. All \in Keys
  BY DEF Keys
<1>1. CASE ListAllDatabases(s)
  <2>1. /\ At(s, "next", All) /\ UNCHANGED <<store, req, told, quiet>> /\ Answer(s, All, "ok")
        /\ req[s].op = "ListAllDatabases" /\ req[s].op \in AllOps /\ listing'[s] = dbs \cap Shown[s]
    BY <1>1 DEF ListAllDatabases, AllOps, IInv, TypeOK
  <2>2. Claim(s, All)'
    <3>1. result'[s][All] = "ok"
      BY <1>0, <2>1 DEF Answer, IInv, TypeOK
    <3> QED BY <2>1, <3>1 DEF Claim, CreateOps, LockOps, store
  <2> QED BY <2>1, <2>2, ListedAllKept
<1>2. CASE ListAllPrivileges(s)
  <2>1. /\ At(s, "next", All) /\ UNCHANGED <<store, req, told, quiet>> /\ Answer(s, All, "ok")
        /\ req[s].op = "ListAllPrivileges" /\ req[s].op \in AllOps
        /\ listing'[s] = {k \in rows : k[1] \in dbs \cap Shown[s]}
    BY <1>2 DEF ListAllPrivileges, AllOps, IInv, TypeOK
  <2>2. Claim(s, All)'
    <3>1. result'[s][All] = "ok"
      BY <1>0, <2>1 DEF Answer, IInv, TypeOK
    <3> QED BY <2>1, <3>1 DEF Claim, CreateOps, LockOps, store
  <2> QED BY <2>1, <2>2, ListedAllKept
<1>3. CASE ListAllUsers(s)
  <2>1. /\ At(s, "next", All) /\ UNCHANGED <<store, req, todo, result, told, listing, quiet>>
        /\ req[s].op = "ListAllUsers" /\ pc'[s] = "databases" /\ found'[s] = users \cap Shown[s]
    BY <1>3 DEF ListAllUsers, Goto, IInv, TypeOK
  <2>2. quiet[s] => Progress(s)'
    BY <2>1 DEF Undisturbed, Progress, store, At
  <2> QED BY <2>1, <2>2, SameNameKept
<1>4. CASE ListAllUsersEnd(s)
  <2>1. /\ At(s, "databases", All) /\ UNCHANGED <<store, req, told, listing, quiet>> /\ Answer(s, All, "ok")
        /\ found[s] = {}
    BY <1>4 DEF ListAllUsersEnd
  <2>2. req[s].op = "ListAllUsers" /\ req[s].op \in AllOps
    <3>1. req[s].op \in {"ListUsers", "ListAllUsers"}
      BY <2>1 DEF IInv, Working, At
    <3>2. All \notin Users
      BY RequestsAssumption DEF Names
    <3> QED BY <2>1, <3>1, <3>2, AtHand DEF UserOps, AllOps
  <2>3. quiet[s] => Claim(s, All)'
    <3>1. quiet[s] => listing[s] = {k \in granting : k[2] \in users \cap Shown[s]}
      BY <2>1, <2>2 DEF Undisturbed, Progress, At
    <3>2. result'[s][All] = "ok"
      BY <1>0, <2>1 DEF Answer, IInv, TypeOK
    <3> QED BY <2>1, <2>2, <3>1, <3>2 DEF Claim, CreateOps, LockOps, store
  <2> QED BY <2>1, <2>2, <2>3, ListedAllKept
<1>5. ASSUME NEW u \in Users, ListAllUsersDatabases(s, u)
      PROVE  Books(s)' /\ Undisturbed(s)'
  <2>1. /\ At(s, "databases", All) /\ UNCHANGED <<store, pc, req, todo, result, told, quiet>>
        /\ u \in found[s] /\ found'[s] = found[s] \ {u}
        /\ listing'[s] = listing[s] \cup {k \in granting : k[2] = u}
    BY <1>5 DEF ListAllUsersDatabases, IInv, TypeOK
  <2>2. req[s].op = "ListAllUsers"
    <3>1. req[s].op \in {"ListUsers", "ListAllUsers"}
      BY <2>1 DEF IInv, Working, At
    <3>2. All \notin Users
      BY RequestsAssumption DEF Names
    <3> QED BY <2>1, <3>1, <3>2, AtHand DEF UserOps
  <2>3. quiet[s] => Progress(s)'
    <3>1. quiet[s] => /\ found[s] \subseteq users \cap Shown[s]
                      /\ listing[s] = {k \in granting : k[2] \in (users \cap Shown[s]) \ found[s]}
      BY <2>1, <2>2 DEF Undisturbed, Progress, At
    <3>2. quiet[s] => listing'[s] = {k \in granting : k[2] \in (users \cap Shown[s]) \ found'[s]}
      BY <2>1, <3>1
    <3> QED BY <2>1, <2>2, <3>1, <3>2 DEF Progress, At, store
  <2>4. todo[s] # <<>>
    BY <2>1 DEF At
  <2> QED BY <2>1, <2>2, <2>3, <2>4, SameNameKept
<1> QED BY <1>1, <1>2, <1>3, <1>4, <1>5 DEF HandleAll

LEMMA QInvStep == QInv /\ [Next]_vars => QInv'
<1> SUFFICES ASSUME QInv, [Next]_vars
             PROVE  QInv'
  OBVIOUS
<1>0. IInv /\ IInv'
  BY IInvStep DEF QInv
<1>1. ASSUME NEW s \in Sessions, Elsewhere(s), Books(s)', Undisturbed(s)'
      PROVE  QInv'
  <2>1. \A t \in Sessions \ {s} : Books(t)' /\ Undisturbed(t)'
    BY <1>1, OthersKept DEF QInv, Elsewhere
  <2> QED BY <1>0, <1>1, <2>1 DEF QInv
<1>2. ASSUME NEW s \in Sessions,
             \/ \E r \in Requests : Begin(s, r)
             \/ \E n \in Keys : HandleName(s, n)
             \/ HandleAll(s)
      PROVE  QInv'
  <2>1. Elsewhere(s)
    BY <1>0, <1>2, StepIsLocal
  <2>2. Books(s)' /\ Undisturbed(s)'
    BY <1>0, <1>2, BeginUndisturbed, HandleNameUndisturbed, HandleAllUndisturbed DEF QInv
  <2> QED BY <1>1, <2>1, <2>2
<1>3. ASSUME NEW k \in Dbs \X Users, EditPrivileges(k)
      PROVE  QInv'
  <2>1. \A t \in Sessions : quiet'[t] = FALSE
    BY <1>3 DEF EditPrivileges
  <2>2. UNCHANGED <<pc, req, todo, result, told, found, listing>>
    BY <1>3 DEF EditPrivileges, reply
  <2>3. \A t \in Sessions : Books(t)' /\ Undisturbed(t)'
    BY <2>1, <2>2, OthersKept DEF QInv
  <2> QED BY <1>0, <2>3 DEF QInv
<1>4. CASE UNCHANGED vars
  <2>1. \A t \in Sessions : Books(t)' /\ Undisturbed(t)'
    BY <1>4, OthersKept DEF vars, QInv
  <2> QED BY <1>0, <2>1 DEF QInv
<1> QED BY <1>2, <1>3, <1>4 DEF Next

(* For any number of sessions: when nobody else has changed anything since a       *)
(* request began, its response describes the database as it is, whatever was asked   *)
(* for, however often a name was given and whichever statements failed.             *)
THEOREM UndisturbedIsTrue == Spec => []UndisturbedRequest
<1>1. Init => QInv
  <2> SUFFICES ASSUME Init, NEW s \in Sessions
               PROVE  Books(s) /\ Undisturbed(s)
    BY IInvInit DEF QInv
  <2>1. /\ pc[s] = "next" /\ req[s].op = "None" /\ todo[s] = <<>>
        /\ \A n \in Keys : result[s][n] = "none"
    BY DEF Init, NoRequest
  <2> QED BY <2>1 DEF Books, Undisturbed, Progress, Claim, AllOps
<1>2. QInv => UndisturbedRequest
  BY DEF QInv, Undisturbed, UndisturbedRequest
<1> QED BY <1>1, <1>2, QInvStep, PTL DEF Spec

=============================================================================
