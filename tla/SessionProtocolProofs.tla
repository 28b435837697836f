------------------------ MODULE SessionProtocolProofs -------------------------
(***************************************************************************)
(* Theorems about a session, for every command and any number of rounds.    *)
(*                                                                         *)
(* What the client holds to be true of the connection has to be tied to what  *)
(* the server and the two streams hold: HandOff says, for each state of the    *)
(* client, where the one message is that the session is about.               *)
(***************************************************************************)
EXTENDS SessionProtocol, TLAPS

(* The greeting is still to be sent, or unread, or was cut off. *)
WhileGreeting ==
    client = "greeting" =>
        /\ ended = "not" /\ requests = <<>> /\ changes = 0 /\ reported = 0
        /\ \/ server = "accepted" /\ responses = <<>>
           \/ server = "receiving" /\ responses = <<Greeting("Ready")>>
           \/ /\ server = "closed"
              /\ responses \in {<<>>, <<Greeting("Ready")>>, <<Greeting("Error")>>}

(* Nothing is in flight, and every change was reported. *)
WhileRunning ==
    client = "running" =>
        /\ ended = "not" /\ requests = <<>> /\ responses = <<>> /\ changes = reported
        /\ server \in {"receiving", "closed"}

(* The change the client waits for, once it was carried out. *)
Owed == IF asking \in Changing THEN 1 ELSE 0

(* The request is unread, or in hand, or its response is unread; or the        *)
(* server is gone, in any of these states.                                   *)
WhileWaiting ==
    client = "waiting" =>
        /\ ended = "not" /\ asking \in Asking /\ Variant(asking) \in Arms(command, asking)
        /\ \/ /\ responses = <<>> /\ requests = <<asking>> /\ changes = reported
              /\ server \in {"receiving", "closed"}
           \/ /\ responses = <<>> /\ requests = <<>> /\ server \in {"handling", "closed"}
              /\ current = asking /\ changes = reported
           \/ /\ responses = <<>> /\ requests = <<>> /\ server \in {"responding", "closed"}
              /\ current = asking /\ changes = reported + Owed
           \/ /\ requests = <<>> /\ server \in {"receiving", "closed"}
              /\ \E r \in Responses : responses = <<r>> /\ r.variant = Variant(asking)
              /\ changes = reported + Owed

(* A client that is gone has left at most one message; only one that was cut    *)
(* off or killed has left a request, or a change that was not reported.        *)
WhileGone ==
    client = "gone" =>
        /\ ended \in {"refused", "left", "exit", "cut", "killed"}
        /\ \/ changes = reported
           \/ changes = reported + 1 /\ ended \in {"cut", "killed"}
        /\ \/ requests \in {<<>>, <<"Exit">>, <<"Fragment">>} /\ server \in {"accepted", "receiving", "closed"}
           \/ /\ \E r \in Asking : requests = <<r>>
              /\ server \in {"receiving", "closed"}
              /\ changes = reported /\ ended \in {"cut", "killed"}
           \/ /\ requests = <<>> /\ server = "handling" /\ current \in Asking
              /\ changes = reported /\ ended \in {"cut", "killed"}
           \/ /\ requests = <<>> /\ server = "responding" /\ current \in Asking
              /\ ended \in {"cut", "killed"}
        /\ ended = "exit" =>
               \/ requests = <<"Exit">> /\ (server = "receiving" \/ (server = "closed" /\ aborted))
               \/ requests = <<>> /\ server = "closed" /\ current = "Exit"

HandOff == WhileGreeting /\ WhileRunning /\ WhileWaiting /\ WhileGone

IInv == TypeOK /\ HandOff

-----------------------------------------------------------------------------
(* The names of the commands. *)
LEMMA Names ==
    ASSUME NEW c \in Commands
    PROVE  c.name \in {"check_auth", "create_db", "drop_db", "lock_user", "unlock_user",
               "drop_user", "create_user", "passwd_user", "show_db", "show_privs", "show_user",
               "show_all_db", "show_all_privs", "show_all_user", "edit_privs",
               "dbadm_create", "dbadm_drop", "dbadm_show", "dbadm_show_all", "dbadm_editperm",
               "useradm_create", "useradm_delete", "useradm_passwd", "useradm_show",
               "useradm_show_all", "complete_database", "complete_user", "complete_prefix"}
BY DEF Commands, Asks

(* What each command asks first. *)
LEMMA AskedFirst ==
    /\ \A n \in {"check_auth"} : Asks[n] = "CheckAuthorization"
    /\ \A n \in {"create_db", "dbadm_create"} : Asks[n] = "CreateDatabases"
    /\ \A n \in {"drop_db", "dbadm_drop"} : Asks[n] = "DropDatabases"
    /\ \A n \in {"lock_user"} : Asks[n] = "LockUsers"
    /\ \A n \in {"unlock_user"} : Asks[n] = "UnlockUsers"
    /\ \A n \in {"drop_user", "useradm_delete"} : Asks[n] = "DropUsers"
    /\ \A n \in {"create_user", "useradm_create"} : Asks[n] = "CreateUsers"
    /\ \A n \in {"passwd_user", "show_user", "useradm_passwd", "useradm_show"} : Asks[n] = "ListUsers"
    /\ \A n \in {"show_db"} : Asks[n] = "ListDatabases"
    /\ \A n \in {"show_privs", "dbadm_show", "dbadm_editperm"} : Asks[n] = "ListPrivileges"
    /\ \A n \in {"show_all_db", "dbadm_show_all"} : Asks[n] = "ListDatabases None"
    /\ \A n \in {"show_all_privs", "edit_privs"} : Asks[n] = "ListPrivileges None"
    /\ \A n \in {"show_all_user", "useradm_show_all"} : Asks[n] = "ListUsers None"
    /\ \A n \in {"complete_database"} : Asks[n] = "CompleteDatabaseName"
    /\ \A n \in {"complete_user"} : Asks[n] = "CompleteUserName"
    /\ \A n \in {"complete_prefix"} : Asks[n] = "ListValidNamePrefixes"
BY DEF Asks

(* Every request that names something is answered with a variant that each       *)
(* command accepts; a list of everything only by the commands that ask for it.   *)
LEMMA NamedIsExpected ==
    ASSUME NEW c, NEW r \in Asking \ Listing
    PROVE  Variant(r) \in Arms(c, r)
<1>1. CASE r = "PasswdUser"
  BY <1>1 DEF Variant, Arms
<1>2. CASE r # "PasswdUser"
  <2>1. Variant(r) = r
    BY <1>2 DEF Variant, Listing
  <2>2. r \in Arms(c, r)
    BY <1>2 DEF Arms, Listing
  <2> QED BY <2>1, <2>2
<1> QED BY <1>1, <1>2

(* The first list requests are answered with a variant their command expects. *)
LEMMA ListIsExpected ==
    ASSUME NEW c
    PROVE  /\ c.name \in {"show_all_db", "dbadm_show_all"} =>
                  Variant("ListDatabases None") \in Arms(c, "ListDatabases None")
           /\ c.name \in {"show_all_privs", "edit_privs"} =>
                  Variant("ListPrivileges None") \in Arms(c, "ListPrivileges None")
           /\ c.name \in {"show_all_user", "useradm_show_all"} =>
                  Variant("ListUsers None") \in Arms(c, "ListUsers None")
BY DEF Variant, Arms

(* So is the first request of every command. *)
LEMMA FirstAsked ==
    ASSUME NEW c \in Commands
    PROVE  /\ Asks[c.name] \in Asking
           /\ Variant(Asks[c.name]) \in Arms(c, Asks[c.name])
<1>1. PICK r : r = Asks[c.name]
  OBVIOUS
<1>2. r \in Asking
  <2>1. r \in {"CheckAuthorization", "CreateDatabases", "DropDatabases", "LockUsers",
              "UnlockUsers", "DropUsers", "CreateUsers", "ListUsers", "ListDatabases",
              "ListPrivileges", "ListDatabases None", "ListPrivileges None", "ListUsers None",
              "CompleteDatabaseName", "CompleteUserName", "ListValidNamePrefixes"}
    BY <1>1, Names, AskedFirst, ZenonT(60)
  <2> QED BY <2>1 DEF Asking, Changing, Naming, Listing, Plain
<1>3. CASE r \notin Listing
  BY <1>1, <1>2, <1>3, NamedIsExpected
<1>4. CASE r = "ListDatabases None"
  BY <1>1, <1>2, <1>4, Names, AskedFirst, ListIsExpected, ZenonT(60)
<1>5. CASE r = "ListPrivileges None"
  BY <1>1, <1>2, <1>5, Names, AskedFirst, ListIsExpected, ZenonT(60)
<1>6. CASE r = "ListUsers None"
  BY <1>1, <1>2, <1>6, Names, AskedFirst, ListIsExpected, ZenonT(60)
<1> QED BY <1>3, <1>4, <1>5, <1>6 DEF Listing

(* The later steps of every script ask for nothing without names.  *)
Talk == {"Exit", "Leave", "Nothing"} \cup (Asking \ Listing)

Steps == [from : Phases, on : SUBSET Outcomes, say : Talk, to : Phases]

LEMMA StepType ==
    ASSUME NEW from \in Phases, NEW on \in SUBSET Outcomes, NEW say \in Talk, NEW to \in Phases
    PROVE  Step(from, on, say, to) \subseteq Steps
BY DEF Step, Steps

LEMMA OutcomeSets ==
    /\ Outcomes \in SUBSET Outcomes /\ Ok \in SUBSET Outcomes /\ Failed \in SUBSET Outcomes
    /\ Denied \in SUBSET Outcomes
BY DEF Ok, Failed, Denied

LEMMA Words ==
    /\ "Exit" \in Talk /\ "Leave" \in Talk /\ "Nothing" \in Talk
    /\ \A r \in Changing \cup Naming \cup Plain : r \in Talk
BY DEF Talk, Asking, Changing, Naming, Plain, Listing

(* The parts of which scripts are made are sets of steps ... *)
LEMMA HintType ==
    ASSUME NEW from \in Phases, NEW on \in SUBSET Outcomes, NEW to \in Phases
    PROVE  Hint(from, on, to) \subseteq Steps
<1>1. on \cap Denied \in SUBSET Outcomes /\ on \ Denied \in SUBSET Outcomes
  OBVIOUS
<1>2. "ListValidNamePrefixes" \in Talk /\ "Nothing" \in Talk
  BY Words DEF Plain
<1> QED BY <1>1, <1>2, StepType DEF Hint

LEMMA EndType ==
    ASSUME NEW from \in Phases, NEW on \in SUBSET Outcomes
    PROVE  Exit(from, on) \subseteq Steps /\ Leave(from, on) \subseteq Steps
<1>1. "end" \in Phases
  BY DEF Phases
<1> QED BY <1>1, StepType, Words DEF Exit, Leave

LEMMA HintUnlessJsonType ==
    ASSUME NEW c
    PROVE  HintUnlessJson(c) \subseteq Steps
<1>1. "asked" \in Phases /\ "hinted" \in Phases
  BY DEF Phases
<1> QED BY <1>1, EndType, HintType, OutcomeSets DEF HintUnlessJson

LEMMA ConfirmationType ==
    ASSUME NEW c
    PROVE  Confirmation(c) \subseteq Steps
<1>1. "start" \in Phases
  BY DEF Phases
<1> QED BY <1>1, EndType, OutcomeSets DEF Confirmation

(* ... and so are the scripts. *)
LEMMA UserScriptTypes ==
    ASSUME NEW c
    PROVE  CreateUserScript(c) \subseteq Steps /\ PasswdScript(c) \subseteq Steps
<1>1. "asked" \in Phases /\ "hinted" \in Phases /\ "created" \in Phases /\ "set" \in Phases
  BY DEF Phases
<1>2. "PasswdUser" \in Talk
  BY Words DEF Changing
<1>3. CreateUserScript(c) \subseteq Steps
  BY <1>1, <1>2, EndType, HintType, StepType, OutcomeSets DEF CreateUserScript
<1>4. PasswdScript(c) \subseteq Steps
  BY <1>1, <1>2, EndType, HintType, StepType, OutcomeSets DEF PasswdScript
<1> QED BY <1>3, <1>4

LEMMA EditScriptType ==
    ASSUME NEW c
    PROVE  EditScript(c) \subseteq Steps
<1> DEFINE on == IF c.name = "edit_privs" THEN Ok ELSE Outcomes
<1>1. /\ "asked" \in Phases /\ "edit" \in Phases /\ "editing" \in Phases
      /\ "databases_exist" \in Phases /\ "denied" \in Phases /\ "users_exist" \in Phases
      /\ "confirm" \in Phases /\ "modified" \in Phases /\ "hinted" \in Phases
  BY DEF Phases
<1>2. /\ "Nothing" \in Talk /\ "ListDatabases" \in Talk /\ "ListUsers" \in Talk
      /\ "ListValidNamePrefixes" \in Talk /\ "ModifyPrivileges" \in Talk
  BY Words DEF Changing, Naming, Plain
<1>3. on \in SUBSET Outcomes /\ Outcomes \ Denied \in SUBSET Outcomes
  BY OutcomeSets
<1>4. /\ Step("asked", on, "Nothing", "edit") \subseteq Steps
      /\ Step("edit", Outcomes, "ListDatabases", "editing") \subseteq Steps
      /\ Step("editing", Outcomes, "ListUsers", "edit") \subseteq Steps
      /\ Step("edit", Outcomes, "ListDatabases", "databases_exist") \subseteq Steps
      /\ Step("databases_exist", Denied, "ListUsers", "denied") \subseteq Steps
      /\ Step("databases_exist", Outcomes \ Denied, "ListUsers", "users_exist") \subseteq Steps
      /\ Step("denied", Outcomes, "ListValidNamePrefixes", "confirm") \subseteq Steps
      /\ Step("confirm", Outcomes, "ModifyPrivileges", "modified") \subseteq Steps
  BY <1>1, <1>2, <1>3, OutcomeSets, StepType
<1>5. /\ Exit("asked", Failed) \subseteq Steps /\ Leave("edit", Outcomes) \subseteq Steps
      /\ Leave("denied", Outcomes) \subseteq Steps /\ Leave("users_exist", Outcomes) \subseteq Steps
      /\ Exit("confirm", Outcomes) \subseteq Steps /\ Leave("confirm", Outcomes) \subseteq Steps
      /\ Exit("hinted", Outcomes) \subseteq Steps
  BY <1>1, OutcomeSets, EndType
<1>6. /\ Hint("users_exist", Outcomes, "confirm") \subseteq Steps
      /\ Hint("modified", Outcomes, "hinted") \subseteq Steps
  BY <1>1, OutcomeSets, HintType
<1> QED BY <1>4, <1>5, <1>6 DEF EditScript

LEMMA AdmutilsScriptTypes ==
    ASSUME NEW c
    PROVE  /\ DbadmShowScript(c) \subseteq Steps /\ UseradmPasswdScript \subseteq Steps
           /\ UseradmShowScript(c) \subseteq Steps
<1>1. "asked" \in Phases /\ "shown" \in Phases /\ "set" \in Phases
  BY DEF Phases
<1>2. "ListPrivileges" \in Talk /\ "PasswdUser" \in Talk
  BY Words DEF Changing, Naming
<1>3. DbadmShowScript(c) \subseteq Steps
  BY <1>1, <1>2, EndType, StepType, OutcomeSets DEF DbadmShowScript
<1>4. UseradmPasswdScript \subseteq Steps
  BY <1>1, <1>2, EndType, StepType, OutcomeSets DEF UseradmPasswdScript
<1>5. UseradmShowScript(c) \subseteq Steps
  BY <1>1, EndType, OutcomeSets DEF UseradmShowScript
<1> QED BY <1>3, <1>4, <1>5

(* Whatever a command asks, it accepts the variant it is answered with. *)
LEMMA ScriptType ==
    ASSUME NEW c \in Commands, NEW s \in Script(c)
    PROVE  /\ s.to \in Phases
           /\ s.say \in Asking => Variant(s.say) \in Arms(c, s.say)
<1>1. Exit("asked", Outcomes) \subseteq Steps
  <2>1. "asked" \in Phases
    BY DEF Phases
  <2> QED BY <2>1, EndType, OutcomeSets
<1>2. s \in Step("start", {{}}, Asks[c.name], "asked") \/ s \in Steps
  BY <1>1, Names, HintUnlessJsonType, ConfirmationType, UserScriptTypes, EditScriptType, AdmutilsScriptTypes
  DEF Script, CheckAuthScript, CreateDbScript, DropDbScript, DropUserScript, LockUserScript,
      UnlockUserScript, ShowDbScript, ShowUserScript, ShowPrivsScript, DbadmCreateScript,
      DbadmDropScript, UseradmCreateScript, UseradmDeleteScript, DatabaseCompleterScript,
      UserCompleterScript, PrefixCompleterScript
<1>3. CASE s \in Step("start", {{}}, Asks[c.name], "asked")
  <2>1. s.to = "asked" /\ s.say = Asks[c.name]
    BY <1>3 DEF Step
  <2> QED BY <2>1, FirstAsked DEF Phases
<1>4. CASE s \in Steps
  <2>1. s.to \in Phases /\ s.say \in Talk
    BY <1>4 DEF Steps
  <2>2. s.say \in Asking => s.say \in Asking \ Listing
    BY <2>1 DEF Talk, Listing
  <2> QED BY <2>1, <2>2, NamedIsExpected
<1> QED BY <1>2, <1>3, <1>4

-----------------------------------------------------------------------------
(* Streams of at most one message. *)
LEMMA OneMessage ==
    /\ \A m : <<m>> # <<>> /\ Head(<<m>>) = m /\ Tail(<<m>>) = <<>> /\ Append(<<>>, m) = <<m>>
    /\ \A m, S : m \in S => <<m>> \in Seq(S)
    /\ \A S : <<>> \in Seq(S)
OBVIOUS

(* Exit is the only request that asks for nothing. *)
LEMMA RequestTypes ==
    /\ "Exit" \in Requests /\ "Exit" \notin Asking /\ "Fragment" \notin Requests
    /\ \A r \in Asking : r \in Requests /\ r # "Exit" /\ r # "Fragment" /\ r # "Nothing" /\ r # "Leave"
    /\ \A r \in Requests : r = "Exit" \/ r \in Asking
BY DEF Requests, Asking, Changing, Naming, Listing, Plain

LEMMA RequestStreams ==
    /\ <<>> \in Seq(Requests \cup {"Fragment"})
    /\ <<"Exit">> \in Seq(Requests \cup {"Fragment"})
    /\ <<"Fragment">> \in Seq(Requests \cup {"Fragment"})
<1>1. "Exit" \in Requests \cup {"Fragment"} /\ "Fragment" \in Requests \cup {"Fragment"}
  BY RequestTypes
<1> QED BY <1>1, OneMessage

(* What the server sends are responses. *)
LEMMA ResponseTypes ==
    /\ Greeting("Ready") \in Responses /\ Greeting("Error") \in Responses
    /\ Greeting("Ready").variant = "Ready" /\ Greeting("Error").variant = "Error"
    /\ \A r \in Asking, o \in Outcomes, size \in Sizes :
           /\ [variant |-> Variant(r), outcome |-> o, size |-> size] \in Responses
           /\ [variant |-> Variant(r), outcome |-> o, size |-> size].variant = Variant(r)
    /\ \A r \in Responses : r.outcome \in Outcomes
    /\ \A r : OutcomesOf(r) \subseteq Outcomes
<1>1. Greeting("Ready") \in Responses /\ Greeting("Error") \in Responses
  BY DEF Greeting, Responses
<1>2. Greeting("Ready").variant = "Ready" /\ Greeting("Error").variant = "Error"
  BY DEF Greeting
<1>3. ASSUME NEW r \in Asking, NEW o \in Outcomes, NEW size \in Sizes
      PROVE  /\ [variant |-> Variant(r), outcome |-> o, size |-> size] \in Responses
             /\ [variant |-> Variant(r), outcome |-> o, size |-> size].variant = Variant(r)
  <2>1. Variant(r) \in Variants
    BY DEF Variants
  <2> QED BY <2>1 DEF Responses
<1>4. ASSUME NEW r \in Responses
      PROVE  r.outcome \in Outcomes
  <2>1. {} \in Outcomes
    BY DEF Outcomes
  <2> QED BY <2>1 DEF Responses
<1>5. ASSUME NEW r
      PROVE  OutcomesOf(r) \subseteq Outcomes
  BY DEF OutcomesOf, Outcomes
<1> QED BY <1>1, <1>2, <1>3, <1>4, <1>5

(* A session that has just been accepted. *)
LEMMA InitIInv == Init => IInv
<1> SUFFICES ASSUME Init
             PROVE  IInv
  OBVIOUS
<1>1. TypeOK
  <2>1. 0 \in 0..MaxRounds /\ {} \in Outcomes /\ "start" \in Phases /\ FALSE \in BOOLEAN
    BY MaxRoundsAssumption DEF Outcomes, Phases
  <2> QED BY <2>1, OneMessage, RequestTypes DEF Init, TypeOK
<1>2. HandOff
  BY DEF Init, HandOff, WhileGreeting, WhileRunning, WhileWaiting, WhileGone
<1> QED BY <1>1, <1>2 DEF IInv

(* What the client's handlers do. *)
LEMMA GreetedIInv == IInv /\ Greeted => IInv'
<1> SUFFICES ASSUME IInv, Greeted
             PROVE  IInv'
  OBVIOUS
<1> USE DEF IInv
<1>1. TypeOK'
  BY OneMessage, ResponseTypes DEF Greeted, Gone, TypeOK, HandOff, WhileGreeting, serverVars
<1>2. HandOff'
  BY OneMessage, ResponseTypes DEF Greeted, Gone, TypeOK, HandOff, WhileGreeting, WhileRunning, WhileWaiting, WhileGone, serverVars
<1> QED BY <1>1, <1>2

(* The client sends a request, exits or leaves. *)
LEMMA SaysIInv ==
    ASSUME IInv, NEW s \in Script(command), Says(s)
    PROVE  IInv'
<1> USE DEF IInv
<1>1. s.to \in Phases /\ (s.say \in Asking => Variant(s.say) \in Arms(command, s.say))
  BY ScriptType DEF TypeOK
<1>2. client = "running" /\ requests = <<>> /\ responses = <<>> /\ server \in {"receiving", "closed"}
      /\ changes = reported /\ ended = "not"
  BY DEF Says, HandOff, WhileRunning
<1>3. UNCHANGED <<command, outcome, reported, responses, serverVars>> /\ phase' = s.to
  BY DEF Says
<1>4. CASE s.say = "Nothing" /\ UNCHANGED <<client, ended, asking, rounds, requests>>
  BY <1>1, <1>2, <1>3, <1>4 DEF TypeOK, HandOff, WhileGreeting, WhileRunning, WhileWaiting, WhileGone, serverVars
<1>5. CASE s.say = "Leave" /\ Gone("left") /\ UNCHANGED <<asking, rounds, requests>>
  BY <1>1, <1>2, <1>3, <1>5 DEF Gone, TypeOK, HandOff, WhileGreeting, WhileRunning, WhileWaiting, WhileGone, serverVars
<1>6. CASE /\ s.say = "Exit"
           /\ IF server = "closed" THEN Gone("cut") /\ UNCHANGED requests
              ELSE Gone("exit") /\ requests' = Append(requests, "Exit")
           /\ UNCHANGED <<asking, rounds>>
  <2>1. requests' \in {<<>>, <<"Exit">>}
    BY <1>2, <1>6, OneMessage
  <2>2. requests' \in Seq(Requests \cup {"Fragment"})
    BY <2>1, RequestStreams
  <2>3. TypeOK'
    <3>1. client' = "gone" /\ ended' \in {"exit", "cut"} /\ UNCHANGED <<asking, rounds>>
      BY <1>6 DEF Gone
    <3> QED BY <1>1, <1>3, <2>2, <3>1 DEF TypeOK, serverVars
  <2>4. CASE server = "closed"
    BY <1>2, <1>3, <1>6, <2>3, <2>4 DEF Gone, TypeOK, HandOff, WhileGreeting, WhileRunning, WhileWaiting, WhileGone, serverVars
  <2>5. CASE server # "closed"
    BY <1>2, <1>3, <1>6, <2>3, <2>5, OneMessage DEF Gone, TypeOK, HandOff, WhileGreeting, WhileRunning, WhileWaiting, WhileGone, serverVars
  <2> QED BY <2>4, <2>5
<1>7. CASE /\ s.say \in Asking
           /\ s.say = "PasswdUser" \/ s.to = "editing" => rounds < MaxRounds
           /\ rounds' = IF s.say = "PasswdUser" \/ s.to = "editing" THEN rounds + 1 ELSE rounds
           /\ asking' = s.say
           /\ \E size \in Sizes :
                  IF server = "closed" \/ size \notin ClientTakes THEN Gone("cut") /\ UNCHANGED requests
                  ELSE /\ client' = "waiting"
                       /\ requests' = Append(requests, s.say)
                       /\ UNCHANGED ended
  <2>1. rounds' \in 0..MaxRounds
    BY <1>7, MaxRoundsAssumption DEF TypeOK
  <2>2. asking' \in Requests
    BY <1>7, RequestTypes
  <2>3. CASE Gone("cut") /\ UNCHANGED requests
    BY <1>1, <1>2, <1>3, <2>1, <2>2, <2>3 DEF Gone, TypeOK, HandOff, WhileGreeting, WhileRunning, WhileWaiting, WhileGone, serverVars
  <2>4. CASE server # "closed" /\ client' = "waiting" /\ requests' = Append(requests, s.say) /\ UNCHANGED ended
    <3>1. requests' = <<asking'>> /\ asking' \in Asking /\ Variant(asking') \in Arms(command', asking')
      BY <1>1, <1>2, <1>3, <1>7, <2>4, OneMessage
    <3>2. requests' \in Seq(Requests \cup {"Fragment"})
      BY <2>2, <3>1, OneMessage
    <3>3. TypeOK'
      BY <1>1, <1>3, <2>1, <2>2, <2>4, <3>2 DEF TypeOK, serverVars
    <3> QED BY <1>2, <1>3, <2>4, <3>1, <3>3 DEF HandOff, WhileGreeting, WhileRunning, WhileWaiting, WhileGone, serverVars
  <2> QED BY <1>7, <2>3, <2>4
<1> QED BY <1>4, <1>5, <1>6, <1>7 DEF Says

(* The client takes a response. *)
LEMMA TakesIInv ==
    ASSUME IInv, Takes
    PROVE  IInv'
<1> USE DEF IInv
<1>1. client = "waiting" /\ UNCHANGED <<command, phase, asking, rounds, serverVars>>
  BY DEF Takes
<1>2. CASE responses # <<>>
  <2>1. PICK r \in Responses : responses = <<r>> /\ r.variant = Variant(asking)
    BY <1>1, <1>2 DEF HandOff, WhileWaiting
  <2>2. /\ requests = <<>> /\ server \in {"receiving", "closed"} /\ changes = reported + Owed
        /\ Variant(asking) \in Arms(command, asking) /\ ended = "not"
    BY <1>1, <1>2 DEF HandOff, WhileWaiting
  <2>3. Head(responses) = r /\ responses' = <<>>
    BY <1>2, <2>1, OneMessage DEF Takes
  <2>4. CASE Erroneous("cut")
    <3>1. client' = "gone" /\ ended' = "cut" /\ UNCHANGED <<outcome, reported>>
      BY <2>4 DEF Erroneous, Gone
    <3>2. requests' \in {<<>>, <<"Exit">>}
      BY <2>2, <2>4, OneMessage DEF Erroneous
    <3>3. requests' \in Seq(Requests \cup {"Fragment"}) /\ responses' \in Seq(Responses)
      BY <2>3, <3>2, OneMessage, RequestStreams
    <3>4. TypeOK'
      BY <1>1, <3>1, <3>3 DEF TypeOK, serverVars
    <3> QED BY <1>1, <2>2, <2>3, <3>1, <3>2, <3>4 DEF HandOff, WhileGreeting, WhileRunning, WhileWaiting, WhileGone, serverVars, Owed, TypeOK
  <2>5. CASE /\ client' = "running"
             /\ outcome' = r.outcome
             /\ reported' = IF asking \in Changing THEN reported + 1 ELSE reported
             /\ UNCHANGED <<ended, requests>>
    <3>1. outcome' \in Outcomes /\ reported' \in Nat /\ responses' \in Seq(Responses)
      BY <2>3, <2>5, ResponseTypes, OneMessage DEF TypeOK
    <3>2. TypeOK'
      BY <1>1, <2>5, <3>1 DEF TypeOK, serverVars
    <3>3. changes' = reported'
      BY <1>1, <2>2, <2>5 DEF Owed, TypeOK, serverVars
    <3> QED BY <1>1, <2>2, <2>3, <2>5, <3>2, <3>3 DEF HandOff, WhileGreeting, WhileRunning, WhileWaiting, WhileGone, serverVars
  <2> QED BY <1>2, <2>1, <2>2, <2>3, <2>4, <2>5 DEF Takes
<1>3. CASE responses = <<>>
  <2>1. server = "closed" /\ Erroneous("cut") /\ UNCHANGED responses
    BY <1>3 DEF Takes
  <2>2. client' = "gone" /\ ended' = "cut" /\ UNCHANGED <<outcome, reported, requests>>
    BY <2>1 DEF Erroneous, Gone
  <2>3. TypeOK'
    BY <1>1, <2>1, <2>2 DEF TypeOK, serverVars
  <2> QED BY <1>1, <1>3, <2>1, <2>2, <2>3, OneMessage DEF HandOff, WhileGreeting, WhileRunning, WhileWaiting, WhileGone, serverVars, Owed, TypeOK
<1> QED BY <1>2, <1>3

(* The client is interrupted, perhaps in the middle of a frame. *)
LEMMA KilledIInv ==
    ASSUME IInv, Killed
    PROVE  IInv'
<1> USE DEF IInv
<1>1. client # "gone" /\ client' = "gone" /\ ended' = "killed"
      /\ UNCHANGED <<command, phase, asking, outcome, rounds, reported, responses, serverVars>>
  BY DEF Killed, Gone
<1>2. CASE UNCHANGED requests
  <2>1. TypeOK'
    BY <1>1, <1>2 DEF TypeOK, serverVars
  <2>2. CASE client = "greeting"
    BY <1>1, <1>2, <2>1, <2>2 DEF HandOff, WhileGreeting, WhileRunning, WhileWaiting, WhileGone, serverVars
  <2>3. CASE client = "running"
    BY <1>1, <1>2, <2>1, <2>3 DEF HandOff, WhileGreeting, WhileRunning, WhileWaiting, WhileGone, serverVars
  <2>4. CASE client = "waiting"
    BY <1>1, <1>2, <2>1, <2>4 DEF HandOff, WhileGreeting, WhileRunning, WhileWaiting, WhileGone, serverVars, Owed, TypeOK
  <2> QED BY <1>1, <2>2, <2>3, <2>4 DEF TypeOK
<1>3. CASE client = "running" /\ server # "closed" /\ requests' = Append(requests, "Fragment")
  <2>1. requests' = <<"Fragment">> /\ changes = reported /\ server = "receiving"
    BY <1>3, OneMessage DEF HandOff, WhileRunning
  <2>2. requests' \in Seq(Requests \cup {"Fragment"})
    BY <2>1, RequestStreams
  <2>3. TypeOK'
    BY <1>1, <2>2 DEF TypeOK, serverVars
  <2> QED BY <1>1, <2>1, <2>3 DEF HandOff, WhileGreeting, WhileRunning, WhileWaiting, WhileGone, serverVars
<1> QED BY <1>2, <1>3 DEF Killed

(* What the server does. *)
LEMMA GreetsIInv ==
    ASSUME IInv, Greets
    PROVE  IInv'
<1> USE DEF IInv
<1>1. server = "accepted" /\ UNCHANGED <<clientVars, requests, current, received, changes, aborted>>
  BY DEF Greets
<1>2. client \in {"greeting", "gone"}
  BY <1>1 DEF HandOff, WhileRunning, WhileWaiting, TypeOK
<1>3. PICK v \in {"Ready", "Error"} :
          Sends(Greeting(v), IF v = "Ready" THEN "receiving" ELSE "closed")
  BY DEF Greets
<1>4. Greeting(v) \in Responses /\ Greeting(v).size \in ServerTakes
  BY DEF Greeting, Responses, ServerTakes
<1>5. CASE client = "gone"
  <2>1. server' = "closed" /\ UNCHANGED responses
    BY <1>3, <1>5 DEF Sends
  <2>2. TypeOK'
    BY <1>1, <2>1 DEF TypeOK, clientVars
  <2> QED BY <1>1, <1>5, <2>1, <2>2 DEF HandOff, WhileGreeting, WhileRunning, WhileWaiting, WhileGone, clientVars
<1>6. CASE client = "greeting"
  <2>1. responses = <<>>
    BY <1>1, <1>6 DEF HandOff, WhileGreeting
  <2>2. server' = (IF v = "Ready" THEN "receiving" ELSE "closed") /\ responses' = <<Greeting(v)>>
    BY <1>3, <1>4, <1>6, <2>1, OneMessage DEF Sends
  <2>3. responses' \in Seq(Responses)
    BY <1>4, <2>2, OneMessage
  <2>4. TypeOK'
    BY <1>1, <2>2, <2>3 DEF TypeOK, clientVars
  <2> QED BY <1>1, <1>6, <2>2, <2>4 DEF HandOff, WhileGreeting, WhileRunning, WhileWaiting, WhileGone, clientVars
<1> QED BY <1>2, <1>5, <1>6

(* The session receives a request, or the end of the stream. *)
LEMMA ReceivesIInv ==
    ASSUME IInv, Receives
    PROVE  IInv'
<1> USE DEF IInv
<1>1. server = "receiving" /\ UNCHANGED <<clientVars, responses, changes, aborted>>
  BY DEF Receives
<1>2. CASE /\ requests # <<>> /\ Head(requests) \in Requests
           /\ received' = received + 1
           /\ current' = Head(requests)
           /\ requests' = Tail(requests)
           /\ server' = IF current' = "Exit" THEN "closed" ELSE "handling"
  <2>1. client \in {"waiting", "gone"}
    BY <1>1, <1>2 DEF HandOff, WhileGreeting, WhileRunning, TypeOK
  <2>2. CASE client = "waiting"
    <3>1. requests = <<asking>> /\ responses = <<>> /\ changes = reported /\ asking \in Asking
      BY <1>1, <1>2, <2>2 DEF HandOff, WhileWaiting
    <3>2. current' = asking /\ requests' = <<>> /\ server' = "handling"
      BY <1>2, <3>1, OneMessage, RequestTypes
    <3>3. TypeOK'
      BY <1>1, <1>2, <3>2, RequestStreams DEF TypeOK, clientVars
    <3> QED BY <1>1, <2>2, <3>1, <3>2, <3>3 DEF HandOff, WhileGreeting, WhileRunning, WhileWaiting, WhileGone, clientVars
  <2>3. CASE client = "gone" /\ requests = <<"Exit">>
    <3>1. current' = "Exit" /\ requests' = <<>> /\ server' = "closed"
      BY <1>2, <2>3, OneMessage
    <3>2. TypeOK'
      BY <1>1, <1>2, <3>1, RequestStreams DEF TypeOK, clientVars
    <3> QED BY <1>1, <2>3, <3>1, <3>2 DEF HandOff, WhileGreeting, WhileRunning, WhileWaiting, WhileGone, clientVars
  <2>4. CASE client = "gone" /\ \E r \in Asking : requests = <<r>>
    <3>1. PICK r \in Asking : requests = <<r>>
      BY <2>4
    <3>2. /\ requests \notin {<<>>, <<"Exit">>, <<"Fragment">>}
          /\ Head(requests) = r /\ Tail(requests) = <<>>
      <4>1. Head(requests) = r /\ Tail(requests) = <<>> /\ requests # <<>>
        BY <3>1, OneMessage
      <4>2. Head(<<"Exit">>) = "Exit" /\ Head(<<"Fragment">>) = "Fragment"
        BY OneMessage
      <4> QED BY <4>1, <4>2, RequestTypes
    <3>3. changes = reported /\ ended \in {"cut", "killed"}
      BY <1>1, <2>4, <3>2 DEF HandOff, WhileGone
    <3>4. current' = r /\ requests' = <<>> /\ server' = "handling"
      BY <1>2, <3>2, RequestTypes
    <3>5. TypeOK'
      BY <1>1, <1>2, <3>4, RequestStreams DEF TypeOK, clientVars
    <3> QED BY <1>1, <2>4, <3>3, <3>4, <3>5 DEF HandOff, WhileGreeting, WhileRunning, WhileWaiting, WhileGone, clientVars
  <2>5. requests # <<"Fragment">>
    BY <1>2, OneMessage, RequestTypes
  <2> QED BY <1>1, <1>2, <2>1, <2>2, <2>3, <2>4, <2>5 DEF HandOff, WhileGone
<1>3. CASE /\ \/ requests # <<>> /\ Head(requests) = "Fragment"
              \/ requests = <<>> /\ client = "gone"
           /\ server' = "closed"
           /\ UNCHANGED <<requests, received, current>>
  <2>1. client = "gone"
    <3>1. CASE requests # <<>> /\ Head(requests) = "Fragment"
      <4>1. ASSUME requests = <<asking>>, asking \in Asking
            PROVE  FALSE
        BY <3>1, <4>1, OneMessage, RequestTypes
      <4> QED BY <1>1, <3>1, <4>1 DEF HandOff, WhileGreeting, WhileRunning, WhileWaiting, TypeOK
    <3> QED BY <1>3, <3>1
  <2>2. ended # "exit"
    <3>1. requests # <<"Exit">>
      BY <1>3, OneMessage
    <3> QED BY <1>1, <2>1, <3>1 DEF HandOff, WhileGone
  <2>3. TypeOK'
    BY <1>1, <1>3 DEF TypeOK, clientVars
  <2> QED BY <1>1, <1>3, <2>1, <2>2, <2>3 DEF HandOff, WhileGreeting, WhileRunning, WhileWaiting, WhileGone, clientVars
<1> QED BY <1>1, <1>2, <1>3 DEF Receives

(* The handler has run. *)
LEMMA HandlesIInv ==
    ASSUME IInv, Handles
    PROVE  IInv'
<1> USE DEF IInv
<1>1. /\ server = "handling" /\ server' = "responding"
      /\ changes' = IF current \in Changing THEN changes + 1 ELSE changes
      /\ UNCHANGED <<clientVars, requests, responses, current, received, aborted>>
  BY DEF Handles
<1>2. TypeOK'
  BY <1>1 DEF TypeOK, clientVars
<1>3. client \in {"waiting", "gone"}
  BY <1>1 DEF HandOff, WhileGreeting, WhileRunning, TypeOK
<1>4. CASE client = "waiting"
  <2>1. current = asking /\ responses = <<>> /\ requests = <<>> /\ changes = reported
    BY <1>1, <1>4 DEF HandOff, WhileWaiting
  <2>2. changes' = (reported + Owed)'
    BY <1>1, <2>1 DEF Owed, TypeOK, clientVars
  <2> QED BY <1>1, <1>2, <1>4, <2>1, <2>2 DEF HandOff, WhileGreeting, WhileRunning, WhileWaiting, WhileGone, clientVars
<1>5. CASE client = "gone"
  BY <1>1, <1>2, <1>5 DEF HandOff, WhileGreeting, WhileRunning, WhileWaiting, WhileGone, clientVars, TypeOK
<1> QED BY <1>3, <1>4, <1>5

(* The session sends the response, or fails to. *)
LEMMA RespondsIInv ==
    ASSUME IInv, Responds
    PROVE  IInv'
<1> USE DEF IInv
<1>1. server = "responding" /\ UNCHANGED <<clientVars, requests, current, received, changes, aborted>>
  BY DEF Responds
<1>2. client \in {"waiting", "gone"} /\ current \in Asking
  BY <1>1 DEF HandOff, WhileGreeting, WhileRunning, WhileWaiting, WhileGone, TypeOK
<1>3. PICK o \in OutcomesOf(current), size \in Sizes :
          Sends([variant |-> Variant(current), outcome |-> o, size |-> size], "receiving")
  BY DEF Responds
<1>4. PICK r \in Responses : r.variant = Variant(current) /\ Sends(r, "receiving")
  BY <1>2, <1>3, ResponseTypes
<1>5. CASE server' = "closed" /\ UNCHANGED responses
  <2>1. TypeOK'
    BY <1>1, <1>5 DEF TypeOK, clientVars
  <2> QED BY <1>1, <1>2, <1>5, <2>1 DEF HandOff, WhileGreeting, WhileRunning, WhileWaiting, WhileGone, clientVars, Owed
<1>6. CASE client # "gone" /\ server' = "receiving" /\ responses' = Append(responses, r)
  <2>1. /\ client = "waiting" /\ responses = <<>> /\ requests = <<>>
        /\ current = asking /\ changes = reported + Owed
    BY <1>1, <1>2, <1>6 DEF HandOff, WhileWaiting
  <2>2. responses' = <<r>>
    BY <1>6, <2>1, OneMessage
  <2>3. responses' \in Seq(Responses)
    BY <2>2, OneMessage
  <2>4. TypeOK'
    BY <1>1, <1>6, <2>3 DEF TypeOK, clientVars
  <2> QED BY <1>1, <1>4, <1>6, <2>1, <2>2, <2>4 DEF HandOff, WhileGreeting, WhileRunning, WhileWaiting, WhileGone, clientVars, Owed
<1> QED BY <1>4, <1>5, <1>6 DEF Sends

(* The listener drops the session. *)
LEMMA AbortsIInv ==
    ASSUME IInv, Aborts
    PROVE  IInv'
<1> USE DEF IInv
<1>1. /\ server # "closed" /\ server' = "closed" /\ aborted' = TRUE
      /\ UNCHANGED <<clientVars, requests, responses, current, received, changes>>
  BY DEF Aborts
<1>2. TypeOK'
  BY <1>1 DEF TypeOK, clientVars
<1> QED BY <1>1, <1>2 DEF HandOff, WhileGreeting, WhileRunning, WhileWaiting, WhileGone, clientVars, Owed, TypeOK

LEMMA NextIInv == IInv /\ [Next]_vars => IInv'
<1> SUFFICES ASSUME IInv, [Next]_vars
             PROVE  IInv'
  OBVIOUS
<1>1. CASE UNCHANGED vars
  BY <1>1 DEF vars, IInv, TypeOK, HandOff, WhileGreeting, WhileRunning, WhileWaiting, WhileGone, Owed
<1> QED
  BY <1>1, GreetedIInv, TakesIInv, KilledIInv, AbortsIInv, SaysIInv, GreetsIInv, ReceivesIInv,
     HandlesIInv, RespondsIInv DEF Next

LEMMA Invariant == Spec => []IInv
BY InitIInv, NextIInv, PTL DEF Spec

-----------------------------------------------------------------------------
(* Every variable of a session keeps its type, in particular the streams carry    *)
(* only the messages of protocol/commands.rs, whatever command the client runs.   *)
THEOREM TypeCorrect == Spec => []TypeOK
<1>1. IInv => TypeOK
  BY DEF IInv
<1> QED BY <1>1, Invariant, PTL

(* No command of muscl, mysql-dbadm, mysql-useradm or the completers ever takes a  *)
(* response of another kind than it asked for: the response in the stream is       *)
(* always the one to the client's last request, and each match accepts it.         *)
THEOREM ExpectedResponses == Spec => []ResponsesAreExpected
<1>1. IInv => ResponsesAreExpected
  BY DEF IInv, TypeOK, HandOff, WhileGreeting, WhileRunning, WhileWaiting, WhileGone, ResponsesAreExpected
<1> QED BY <1>1, Invariant, PTL

(* At most one change is unreported, and only to a client that still waits, was     *)
(* cut off or was killed; a session that ended with Exit received all of it.        *)
THEOREM ReportedChanges == Spec => []ChangesAreReported
<1>1. IInv => ChangesAreReported
  <2> SUFFICES ASSUME IInv
               PROVE  ChangesAreReported
    OBVIOUS
  <2>1. reported \in Nat /\ changes \in Nat
    BY DEF IInv, TypeOK
  <2>2. ended = "exit" => client = "gone"
    BY DEF IInv, TypeOK, HandOff, WhileGreeting, WhileRunning, WhileWaiting
  <2>3. ended = "exit" /\ server = "closed" /\ ~aborted => current = "Exit" /\ requests = <<>>
    BY <2>2 DEF IInv, HandOff, WhileGone
  <2>4. /\ \/ changes = reported
           \/ changes = reported + 1 /\ (client = "waiting" \/ ended \in {"cut", "killed"})
    BY <2>1 DEF IInv, TypeOK, HandOff, WhileGreeting, WhileRunning, WhileWaiting, WhileGone, Owed
  <2> QED BY <2>1, <2>3, <2>4 DEF ChangesAreReported
<1> QED BY <1>1, Invariant, PTL
=============================================================================
