--------------------------- MODULE SessionProtocol ----------------------------
(***************************************************************************)
(* One session: a client that runs one command, and the server's handler      *)
(* (server/session_handler.rs), over a UNIX socket.                         *)
(*                                                                         *)
(* What each command sends and what it does next is its script, a set of      *)
(* steps.  What happens inside a request is the subject of modules Requests   *)
(* and PrivilegeEdit; here it has an outcome: whether something succeeded,    *)
(* and whether something was refused for lack of authorization.              *)
(***************************************************************************)
EXTENDS Naturals, Sequences

CONSTANT MaxRounds     \* bound on the rounds in the editor, and on passwords

ASSUME MaxRoundsAssumption == MaxRounds \in Nat

VARIABLES
    command,    \* what the client was started for
    client,     \* "greeting", "running", "waiting" or "gone"
    phase,      \* where it stands in its script
    asking,     \* its last request
    outcome,    \* of the last response it took
    rounds,     \* times round a loop of the script
    ended,      \* how it ended
    reported,   \* changes it was told the outcome of
    requests,   \* the stream to the server
    responses,  \* the stream to the client
    server,     \* "accepted", "receiving", "handling", "responding" or "closed"
    current,    \* the request in hand
    received,   \* request_counter, as far as this session adds to it
    changes,    \* requests carried out that may change something
    aborted     \* the session's task was aborted

vars == <<command, client, phase, asking, outcome, rounds, ended, reported,
          requests, responses, server, current, received, changes, aborted>>

clientVars == <<command, client, phase, asking, outcome, rounds, ended, reported>>
serverVars == <<server, current, received, changes, aborted>>

-----------------------------------------------------------------------------
(* Requests; the ones that list have a form without names. *)
Changing == {"CreateDatabases", "DropDatabases", "CreateUsers", "DropUsers",
             "PasswdUser", "LockUsers", "UnlockUsers", "ModifyPrivileges"}
Naming   == {"ListDatabases", "ListPrivileges", "ListUsers"}
Listing  == {"ListDatabases None", "ListPrivileges None", "ListUsers None"}
Plain    == {"CheckAuthorization", "ListValidNamePrefixes", "CompleteDatabaseName", "CompleteUserName"}
Asking   == Changing \cup Naming \cup Listing \cup Plain

(* Mutant: one variant for a list, whether names were given or not. *)
VariantByCommand(r) ==
    CASE r = "PasswdUser" -> "SetUserPassword"
      [] r = "ListDatabases None" -> "ListDatabases"
      [] r = "ListPrivileges None" -> "ListPrivileges"
      [] r = "ListUsers None" -> "ListUsers"
      [] OTHER -> r

(* handle_request: the variant of the response. *)
Variant(r) ==
    CASE r = "PasswdUser" -> "SetUserPassword"
      [] r = "ListDatabases None" -> "ListAllDatabases"
      [] r = "ListPrivileges None" -> "ListAllPrivileges"
      [] r = "ListUsers None" -> "ListAllUsers"
      [] OTHER -> r

Variants == {Variant(r) : r \in Asking}

(* What a response holds: names that succeeded, names the user does not own.  *)
Outcomes == SUBSET {"ok", "denied"}
Ok       == {o \in Outcomes : "ok" \in o}
Failed   == Outcomes \ Ok
Denied   == {o \in Outcomes : "denied" \in o}

OutcomesOf(r) ==
    IF r \in Listing THEN {{"ok"}, {}}
    ELSE IF r \in Plain THEN {{"ok"}}
    ELSE IF r = "PasswdUser" THEN {{"ok"}, {"denied"}, {}}
    ELSE Outcomes

(* LengthDelimitedCodec: the client's stream takes no frame above              *)
(* MAX_REQUEST_FRAME_LENGTH in either direction, the server's none above       *)
(* MAX_RESPONSE_FRAME_LENGTH.                                                *)
Sizes        == {"small", "above_request_limit", "above_response_limit"}
ClientTakes  == {"small"}
ServerTakes  == {"small", "above_request_limit"}

(* The messages; "Fragment" is what a client that was killed may leave.        *)
Requests  == Asking \cup {"Exit"}
Responses == [variant : Variants, outcome : Outcomes, size : Sizes]
             \cup [variant : {"Ready", "Error"}, outcome : {{}}, size : {"small"}]

-----------------------------------------------------------------------------
(* The commands of muscl, mysql-dbadm and mysql-useradm, and the completers. *)
Asks ==
    [check_auth |-> "CheckAuthorization", create_db |-> "CreateDatabases",
     drop_db |-> "DropDatabases", lock_user |-> "LockUsers", unlock_user |-> "UnlockUsers",
     drop_user |-> "DropUsers", create_user |-> "CreateUsers", passwd_user |-> "ListUsers",
     show_db |-> "ListDatabases", show_privs |-> "ListPrivileges", show_user |-> "ListUsers",
     show_all_db |-> "ListDatabases None", show_all_privs |-> "ListPrivileges None",
     show_all_user |-> "ListUsers None", edit_privs |-> "ListPrivileges None",
     dbadm_create |-> "CreateDatabases", dbadm_drop |-> "DropDatabases",
     dbadm_show |-> "ListPrivileges", dbadm_show_all |-> "ListDatabases None",
     dbadm_editperm |-> "ListPrivileges",
     useradm_create |-> "CreateUsers", useradm_delete |-> "DropUsers",
     useradm_passwd |-> "ListUsers", useradm_show |-> "ListUsers",
     useradm_show_all |-> "ListUsers None",
     complete_database |-> "CompleteDatabaseName", complete_user |-> "CompleteUserName",
     complete_prefix |-> "ListValidNamePrefixes"]

(* A command, whether it was given --json, and whether stdin is a terminal. *)
Commands == [name : DOMAIN Asks, json : BOOLEAN, tty : BOOLEAN]

(* From a phase, after an outcome: what the client says, and the next phase.  *)
(* Saying "Leave" is to end without Exit, and "Nothing" to go on.            *)
Step(from, on, say, to) == {[from |-> from, on |-> on, say |-> say, to |-> to]}

Exit(from, on)  == Step(from, on, "Exit", "end")
Leave(from, on) == Step(from, on, "Leave", "end")

(* print_authorization_owner_hint, if a name was refused. *)
Hint(from, on, to) ==
    Step(from, on \cap Denied, "ListValidNamePrefixes", to)
    \cup Step(from, on \ Denied, "Nothing", to)

HintUnlessJson(c) ==
    IF c.json THEN Exit("asked", Outcomes)
    ELSE Hint("asked", Outcomes, "hinted") \cup Exit("hinted", Outcomes)

(* The confirmation of drop-db and drop-user. *)
Confirmation(c) == Leave("start", Outcomes) \cup (IF c.tty THEN Exit("start", Outcomes) ELSE {})

CheckAuthScript     == Exit("asked", Outcomes)
CreateDbScript(c)   == HintUnlessJson(c)
DropDbScript(c)     == Confirmation(c) \cup HintUnlessJson(c)
DropUserScript(c)   == Confirmation(c) \cup HintUnlessJson(c)
LockUserScript(c)   == HintUnlessJson(c)
UnlockUserScript(c) == HintUnlessJson(c)
ShowDbScript(c)     == HintUnlessJson(c)
ShowUserScript(c)   == HintUnlessJson(c)
ShowPrivsScript(c)  == HintUnlessJson(c)

(* create_users: then perhaps a password for each user that was created. *)
CreateUserScript(c) ==
    IF c.json THEN Exit("asked", Outcomes)
    ELSE Hint("asked", Ok, "created") \cup Hint("asked", Failed, "hinted")
         \cup Exit("hinted", Outcomes) \cup Exit("created", Outcomes) \cup Leave("created", Outcomes)
         \cup (IF c.tty THEN Step("created", Outcomes, "PasswdUser", "created") ELSE {})

(* passwd_user: the password may be hard to get, or its removal not confirmed. *)
PasswdScript(c) ==
    Exit("asked", IF c.tty THEN Outcomes ELSE Failed) \cup Leave("asked", Ok)
    \cup Step("asked", Ok, "PasswdUser", "set")
    \cup Hint("set", Outcomes, "hinted") \cup Exit("hinted", Outcomes)

(* edit_database_privileges, with edit_privileges_with_editor's loop. *)
EditScript(c) ==
    (IF c.name = "edit_privs" THEN Exit("asked", Failed) ELSE {})
    \cup Step("asked", IF c.name = "edit_privs" THEN Ok ELSE Outcomes, "Nothing", "edit")
    \cup Leave("edit", Outcomes)
    \cup (IF c.tty THEN Step("edit", Outcomes, "ListDatabases", "editing") ELSE {})
    \cup Step("editing", Outcomes, "ListUsers", "edit")
    \cup Step("edit", Outcomes, "ListDatabases", "databases_exist")
    \cup Step("databases_exist", Denied, "ListUsers", "denied")
    \cup Step("databases_exist", Outcomes \ Denied, "ListUsers", "users_exist")
    \cup Leave("denied", Outcomes) \cup Leave("users_exist", Outcomes)
    \cup Step("denied", Outcomes, "ListValidNamePrefixes", "confirm")
    \cup Hint("users_exist", Outcomes, "confirm")
    \cup Exit("confirm", Outcomes)
    \cup (IF c.tty THEN Leave("confirm", Outcomes) ELSE {})
    \cup Step("confirm", Outcomes, "ModifyPrivileges", "modified")
    \cup Hint("modified", Outcomes, "hinted") \cup Exit("hinted", Outcomes)

(* mysql-dbadm; its show without names first lists the databases. *)
DbadmCreateScript  == Exit("asked", Outcomes)
DbadmDropScript    == Exit("asked", Outcomes)
DbadmShowScript(c) ==
    IF c.name = "dbadm_show" THEN Exit("asked", Outcomes)
    ELSE Step("asked", Outcomes, "ListPrivileges", "shown") \cup Exit("shown", Outcomes)

(* mysql-useradm; its passwd asks a password for each user that was found. *)
UseradmCreateScript == Exit("asked", Outcomes)
UseradmDeleteScript == Exit("asked", Outcomes)
UseradmPasswdScript ==
    Exit("asked", Failed) \cup Leave("asked", Ok)
    \cup Step("asked", Ok, "PasswdUser", "set")
    \cup Step("set", Outcomes, "PasswdUser", "set")
    \cup Leave("set", Outcomes) \cup Exit("set", Outcomes)
UseradmShowScript(c) ==
    IF c.name = "useradm_show" THEN Exit("asked", Outcomes)
    ELSE Exit("asked", Ok) \cup Leave("asked", Failed)

(* The shell's completion of names. *)
DatabaseCompleterScript == Exit("asked", Outcomes)
UserCompleterScript     == Exit("asked", Outcomes)
PrefixCompleterScript   == Exit("asked", Outcomes)

Script(c) == Step("start", {{}}, Asks[c.name], "asked") \cup
    CASE c.name = "check_auth" -> CheckAuthScript
      [] c.name = "create_db" -> CreateDbScript(c)
      [] c.name = "drop_db" -> DropDbScript(c)
      [] c.name = "drop_user" -> DropUserScript(c)
      [] c.name = "lock_user" -> LockUserScript(c)
      [] c.name = "unlock_user" -> UnlockUserScript(c)
      [] c.name \in {"show_db", "show_all_db"} -> ShowDbScript(c)
      [] c.name \in {"show_user", "show_all_user"} -> ShowUserScript(c)
      [] c.name \in {"show_privs", "show_all_privs"} -> ShowPrivsScript(c)
      [] c.name = "create_user" -> CreateUserScript(c)
      [] c.name = "passwd_user" -> PasswdScript(c)
      [] c.name \in {"edit_privs", "dbadm_editperm"} -> EditScript(c)
      [] c.name = "dbadm_create" -> DbadmCreateScript
      [] c.name = "dbadm_drop" -> DbadmDropScript
      [] c.name \in {"dbadm_show", "dbadm_show_all"} -> DbadmShowScript(c)
      [] c.name = "useradm_create" -> UseradmCreateScript
      [] c.name = "useradm_delete" -> UseradmDeleteScript
      [] c.name = "useradm_passwd" -> UseradmPasswdScript
      [] c.name \in {"useradm_show", "useradm_show_all"} -> UseradmShowScript(c)
      [] c.name = "complete_database" -> DatabaseCompleterScript
      [] c.name = "complete_user" -> UserCompleterScript
      [] c.name = "complete_prefix" -> PrefixCompleterScript

(* The phases in which the client waits for its user. *)
Prompts == {"start", "asked", "created", "edit", "set", "confirm"}

(* The variants that the match on the response accepts. *)
Arms(c, r) ==
    CASE r \in {"ListDatabases", "ListDatabases None"} /\ c.name \in {"show_db", "show_all_db"} ->
             {"ListDatabases", "ListAllDatabases"}
      [] r \in {"ListPrivileges", "ListPrivileges None"}
         /\ c.name \in {"show_privs", "show_all_privs", "edit_privs", "dbadm_editperm"} ->
             {"ListPrivileges", "ListAllPrivileges"}
      [] r \in {"ListUsers", "ListUsers None"}
         /\ c.name \in {"show_user", "show_all_user", "useradm_show", "useradm_show_all"} ->
             {"ListUsers", "ListAllUsers"}
      [] r = "ListDatabases None" /\ c.name = "dbadm_show_all" -> {"ListAllDatabases"}
      [] r = "PasswdUser" -> {"SetUserPassword"}
      [] OTHER -> {r}

Init ==
    /\ command \in Commands
    /\ client = "greeting" /\ phase = "start" /\ asking = "Exit" /\ outcome = {}
    /\ rounds = 0 /\ ended = "not" /\ reported = 0
    /\ requests = <<>> /\ responses = <<>>
    /\ server = "accepted" /\ current = "Exit" /\ received = 0 /\ changes = 0 /\ aborted = FALSE

-----------------------------------------------------------------------------
(* The client. *)

Gone(how) == client' = "gone" /\ ended' = how

(* The loop for Ready in tokio_run_command and the completers; it also ends    *)
(* when the stream does, and the command then finds out.                      *)
Greeted ==
    /\ client = "greeting"
    /\ \/ /\ responses # <<>> /\ Head(responses).variant = "Error"
          /\ Gone("refused")
          /\ responses' = Tail(responses)
       \/ /\ responses # <<>> /\ Head(responses).variant = "Ready"
          /\ client' = "running"
          /\ responses' = Tail(responses)
          /\ UNCHANGED ended
       \/ /\ responses = <<>> /\ server = "closed"
          /\ client' = "running"
          /\ UNCHANGED <<ended, responses>>
    /\ UNCHANGED <<command, phase, asking, outcome, rounds, reported, requests, serverVars>>

(* A step of the script; send fails if the server has closed its end. *)
Says(s) ==
    /\ client = "running"
    /\ s.from = phase /\ outcome \in s.on
    /\ \/ s.say = "Nothing" /\ UNCHANGED <<client, ended, asking, rounds, requests>>
       \/ s.say = "Leave" /\ Gone("left") /\ UNCHANGED <<asking, rounds, requests>>
       \/ /\ s.say = "Exit"
          /\ IF server = "closed" THEN Gone("cut") /\ UNCHANGED requests
             ELSE Gone("exit") /\ requests' = Append(requests, "Exit")
          /\ UNCHANGED <<asking, rounds>>
       \/ /\ s.say \in Asking
          /\ s.say = "PasswdUser" \/ s.to = "editing" => rounds < MaxRounds
          /\ rounds' = IF s.say = "PasswdUser" \/ s.to = "editing" THEN rounds + 1 ELSE rounds
          /\ asking' = s.say
          /\ \E size \in Sizes :
                 IF server = "closed" \/ size \notin ClientTakes THEN Gone("cut") /\ UNCHANGED requests
                 ELSE /\ client' = "waiting"
                      /\ requests' = Append(requests, s.say)
                      /\ UNCHANGED ended
    /\ phase' = s.to
    /\ UNCHANGED <<command, outcome, reported, responses, serverVars>>

(* mysql-dbadm show says Exit before it looks at the response. *)
ExitsFirst == command.name \in {"dbadm_show", "dbadm_show_all"} /\ asking = "ListPrivileges"

(* erroneous_server_response: no response, one that is too long, or another    *)
(* than the command expects.                                                 *)
Erroneous(how) ==
    /\ Gone(how)
    /\ requests' = IF ExitsFirst /\ server # "closed" THEN Append(requests, "Exit") ELSE requests
    /\ UNCHANGED <<outcome, reported>>

Takes ==
    /\ client = "waiting"
    /\ \/ /\ responses # <<>>
          /\ LET r == Head(responses)
             IN  \/ r.size \notin ClientTakes /\ Erroneous("cut")
                 \/ r.size \in ClientTakes /\ r.variant \notin Arms(command, asking) /\ Erroneous("unexpected")
                 \/ /\ r.size \in ClientTakes /\ r.variant \in Arms(command, asking)
                    /\ client' = "running"
                    /\ outcome' = r.outcome
                    /\ reported' = IF asking \in Changing THEN reported + 1 ELSE reported
                    /\ UNCHANGED <<ended, requests>>
          /\ responses' = Tail(responses)
       \/ responses = <<>> /\ server = "closed" /\ Erroneous("cut") /\ UNCHANGED responses
    /\ UNCHANGED <<command, phase, asking, rounds, serverVars>>

(* The user interrupts the client, perhaps in the middle of a message; or       *)
(* edit-privs, which sends its first request before it looks at its            *)
(* arguments, finds one missing.                                             *)
Killed ==
    /\ client # "gone"
    /\ Gone("killed")
    /\ \/ UNCHANGED requests
       \/ client = "running" /\ server # "closed" /\ requests' = Append(requests, "Fragment")
    /\ UNCHANGED <<command, phase, asking, outcome, rounds, reported, responses, serverVars>>

-----------------------------------------------------------------------------
(* The server. *)

(* send: fails if the client is gone or the frame too long. *)
Sends(r, next) ==
    IF client = "gone" \/ r.size \notin ServerTakes THEN server' = "closed" /\ UNCHANGED responses
    ELSE server' = next /\ responses' = Append(responses, r)

Greeting(v) == [variant |-> v, outcome |-> {}, size |-> "small"]

(* session_handler up to the loop: the peer's user, then a connection from the  *)
(* pool, or an Error.  The wait for a permit comes before it and is in module  *)
(* Supervisor (AcceptedIsServed).                                            *)
Greets ==
    /\ server = "accepted"
    /\ Sends(Greeting("Ready"), "receiving") \/ Sends(Greeting("Error"), "closed")
    /\ UNCHANGED <<clientVars, requests, current, received, changes, aborted>>

(* Mutant: the end of the stream is taken for a message that is still to come. *)
ReceivesOnly ==
    /\ server = "receiving"
    /\ requests # <<>>
    /\ requests' = Tail(requests)
    /\ received' = received + 1
    /\ current' = Head(requests)
    /\ server' = IF Head(requests) \in {"Exit", "Fragment"} THEN "closed" ELSE "handling"
    /\ UNCHANGED <<clientVars, responses, changes, aborted>>

(* Mutant: what is left in the buffer at the end is taken for a message. *)
ReceivesRest ==
    /\ server = "receiving"
    /\ requests # <<>>
    /\ requests' = Tail(requests)
    /\ received' = received + 1
    /\ current' = Head(requests)
    /\ server' = IF Head(requests) = "Exit" THEN "closed" ELSE "handling"
    /\ UNCHANGED <<clientVars, responses, changes, aborted>>

(* The loop of session_handler_with_db_connection. *)
Receives ==
    /\ server = "receiving"
    /\ \/ /\ requests # <<>> /\ Head(requests) \in Requests
          /\ received' = received + 1
          /\ current' = Head(requests)
          /\ requests' = Tail(requests)
          /\ server' = IF current' = "Exit" THEN "closed" ELSE "handling"
       \/ /\ \/ requests # <<>> /\ Head(requests) = "Fragment"
             \/ requests = <<>> /\ client = "gone"
          /\ server' = "closed"
          /\ UNCHANGED <<requests, received, current>>
    /\ UNCHANGED <<clientVars, responses, changes, aborted>>

(* handle_request *)
Handles ==
    /\ server = "handling"
    /\ changes' = IF current \in Changing THEN changes + 1 ELSE changes
    /\ server' = "responding"
    /\ UNCHANGED <<clientVars, requests, responses, current, received, aborted>>

(* Mutant: a response with nothing in it is not sent. *)
RespondsUnlessEmpty ==
    /\ server = "responding"
    /\ \E o \in OutcomesOf(current), size \in Sizes :
           IF o = {} THEN server' = "receiving" /\ UNCHANGED responses
           ELSE Sends([variant |-> Variant(current), outcome |-> o, size |-> size], "receiving")
    /\ UNCHANGED <<clientVars, requests, current, received, changes, aborted>>

(* Mutant: the request is handled again when its response cannot be sent. *)
RespondsOrRetries ==
    /\ server = "responding"
    /\ \E o \in OutcomesOf(current), size \in Sizes :
           IF size \notin ServerTakes THEN server' = "handling" /\ UNCHANGED responses
           ELSE Sends([variant |-> Variant(current), outcome |-> o, size |-> size], "receiving")
    /\ UNCHANGED <<clientVars, requests, current, received, changes, aborted>>

Responds ==
    /\ server = "responding"
    /\ \E o \in OutcomesOf(current), size \in Sizes :
           Sends([variant |-> Variant(current), outcome |-> o, size |-> size], "receiving")
    /\ UNCHANGED <<clientVars, requests, current, received, changes, aborted>>

(* The listener drops its tasks, or the process ends. *)
Aborts ==
    /\ server # "closed"
    /\ server' = "closed" /\ aborted' = TRUE
    /\ UNCHANGED <<clientVars, requests, responses, current, received, changes>>

-----------------------------------------------------------------------------
ServerStep == Greets \/ Receives \/ Handles \/ Responds

(* What the client does without its user. *)
ClientStep ==
    \/ Greeted \/ Takes
    \/ phase \notin Prompts /\ \E s \in Script(command) : Says(s)

Next ==
    \/ Greeted \/ Takes \/ Killed \/ Aborts
    \/ \E s \in Script(command) : Says(s)
    \/ Greets \/ Receives \/ Handles \/ Responds

Spec == Init /\ [][Next]_vars

FairSpec == Spec /\ WF_vars(ServerStep) /\ WF_vars(ClientStep)

-----------------------------------------------------------------------------
Phases == {"start", "asked", "hinted", "created", "set", "shown", "edit", "editing",
           "databases_exist", "denied", "users_exist", "confirm", "modified", "end"}

(* Types. *)
TypeOK ==
    /\ command \in Commands
    /\ client \in {"greeting", "running", "waiting", "gone"}
    /\ phase \in Phases /\ asking \in Requests /\ outcome \in Outcomes
    /\ rounds \in 0..MaxRounds
    /\ ended \in {"not", "refused", "left", "exit", "cut", "unexpected", "killed"}
    /\ reported \in Nat
    /\ requests \in Seq(Requests \cup {"Fragment"}) /\ responses \in Seq(Responses)
    /\ server \in {"accepted", "receiving", "handling", "responding", "closed"}
    /\ current \in Requests /\ received \in Nat /\ changes \in Nat /\ aborted \in BOOLEAN

(* No command ever meets a response of another kind than it expects ("Unexpected  *)
(* response from server"): whatever a command asks, with or without names, and     *)
(* whatever hints it fetched before, the response it takes is the one to the       *)
(* request it sent last.                                                         *)
ResponsesAreExpected == ended # "unexpected"

(* At most one change is carried out that the user is not told the outcome of:     *)
(* the last one, and only if the client is still waiting for the response, was      *)
(* interrupted, or lost its connection (which it does by itself when a response     *)
(* is longer than its own limit on frames).  Otherwise each change is reported,     *)
(* and a session that ended with Exit and was not aborted received all of it.       *)
ChangesAreReported ==
    /\ reported <= changes /\ changes <= reported + 1
    /\ changes # reported =>
           client = "waiting" \/ ended \in {"cut", "killed"}
    /\ ended = "exit" /\ server = "closed" /\ ~aborted => current = "Exit" /\ requests = <<>>

(* A client that waits for the server does not wait for ever. *)
ClientIsAnswered == client \in {"greeting", "waiting"} ~> client \in {"running", "gone"}

(* The session of a client that is gone, with or without Exit, with or without an   *)
(* unread response, ends: its permit and its database connection are returned.      *)
SessionEnds == client = "gone" ~> server = "closed"

=============================================================================
