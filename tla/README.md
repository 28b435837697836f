# Verification of muscl

muscl lets the users of a shared MySQL or MariaDB server administer their own
databases and database users. A client (`muscl`) sends requests over a UNIX
socket to a server (`muscl-server`), which checks that the names in them belong
to the user and runs the SQL. This directory holds TLA+ models of the parts of
muscl whose correctness depends on interleavings, failures and order, the TLC
runs that check them, and TLAPS proofs.

Source paths below are relative to `src/` of the repository.

## 1. Inventory

| Part | Source | State | Operations | What makes it correct |
|---|---|---|---|---|
| Supervisor | `server/supervisor.rs` | configuration, denylist and its hash, pool, channels, semaphore, socket | start, reload (SIGHUP), shutdown (SIGTERM/SIGINT), answer health requests | a reload or shutdown ends, leaves no part behind on old settings, and loses no session |
| Listener task | `server/supervisor.rs` | paused or accepting, read lock, set of session tasks | stop, resume, shut down, accept, reap | does what the last message says |
| Session | `server/session_handler.rs` | permit, pool connection, snapshots of pool and denylist | start, handle a request, end | is served by the current pool; one that had asked for its permit when a shutdown began is served to its end |
| Health registry, watchdog | `server/health_check_registry.rs` | one request channel per task | request pets, pet systemd | a live server is not killed |
| Privilege diffs | `core/database_privileges/diff.rs` | none (pure) | diff, merge, reduce, apply | a diff leads from the old rows to the new ones |
| Privilege entries | `core/database_privileges/cli.rs` | none (pure) | parse, make a diff | an entry does what `+`, `-` or no prefix says |
| edit-privs | `client/commands/edit_privs.rs` | fetched rows, wanted rows, diffs | fetch, edit, check, reduce, confirm, submit | sends what its user wants, and nothing else |
| ModifyPrivileges handler | `server/sql/database_privilege_operations.rs` | `mysql.db`, the enforced grants | check, validate, apply, flush | changes only what was asked, answers every diff, grants follow the table |
| Database and user requests | `server/sql/database_operations.rs`, `user_operations.rs`, reading half of `database_privilege_operations.rs` | databases, users, passwords, locks, rows | create, drop, list, lock, unlock, set password | each name is dealt with as if at one moment, its answer is true then, one failure does not stop the others |
| Authorization | `core/protocol/request_validation.rs`, `server/authorization.rs`, `server/common.rs` | denylist | parse, normalise, match, validate a name, advertise prefixes, select names in lists | the denylist matches what its lines say; what is advertised is accepted, listed and completed; what is denied is not (it is: section 3) |
| Protocol | `core/protocol/commands.rs` | two streams | send, receive, frame limits | one response of the expected kind per request; no change unreported but the last |
| Client commands, mysql-admutils, completers | `client/`, `core/completion/`, `bin/muscl.rs` | where each is in its exchange | prompt, request, hint, leave | never waits for ever, never takes a response for another |
| Editor text | `core/database_privileges/editor.rs`, `edit_privs.rs` | the text, its errors | generate, parse, annotate, strip, ignore errors | the diffs are what the text says, whatever lines are in error |
| Bootstrap, landlock | `core/bootstrap.rs`, `server/landlock.rs` | - | start-up calls | - |

How they interact. The signal handler task tells the run loop of a SIGHUP over a
broadcast channel of capacity 1 and of SIGTERM/SIGINT through a cancellation
token. The run loop tells the listener to stop, resume or end over another
broadcast channel of capacity 1. Each accepted connection becomes a task that
waits for one of the semaphore's permits, acquires a connection from the pool it
was handed when accepted, and serves requests until the client leaves. A reload
or shutdown waits for sessions by taking all permits at once. The listener
accepts under a read lock, and a reload replaces the socket under the write lock.
Sessions share nothing in the process but the pool; they meet in the database,
where every SQL statement stands alone: no transaction spans two of them.

Hard behaviours: a channel that overwrites; a `select!` branch disabled by a
lagged receiver; futures dropped at any await; locks and permits handed over in
FIFO order; clients with no timeout; check-then-act on rows shared with other
sessions; partial failure of a request with many names or diffs; statements whose
answer is lost; writes that take effect only at a later FLUSH; two ends with
different frame limits; clients that leave at any point. `PROJECT.json` lists them as hazards, each at its line,
with the properties that would catch it going wrong.

## 2. Modules

| Module | Models |
|---|---|
| `Supervisor` | signal handler, run loop, reload, shutdown, listener task, session life cycle |
| `SupervisorProofs` | theorems about it |
| `PrivilegeDiff` | diffs, entries, and the server's validation and statements, as operators; one (database, user) pair at a time |
| `PrivilegeDiffProofs` | what these operators compute |
| `PrivilegeEdit` | several edit-privs clients and the sessions serving them over one table |
| `PrivilegeEditProofs` | theorems about it |
| `PrivilegeEntries` | several entries for one pair on one command line |
| `PrivilegeEntriesProofs` | theorems about it |
| `EditorContent` | the editor's text and the loop around it |
| `EditorContentProofs` | what is taken from the text, for every text |
| `Authorization` | denylist, validation, prefixes, the list queries' regular expression |
| `AuthorizationProofs` | what patterns match, what prefixes are good for |
| `AccountStore` | the database server's accounts: what its statements do (external) |
| `AtomicRequests` | abstract specification: what requests promise |
| `Requests` | the handlers of all requests about databases and users, statement by statement |
| `RequestsProofs` | `Requests` implements `AtomicRequests`; its invariants |
| `SessionProtocol` | one client command and one session over a socket |
| `SessionProtocolProofs` | theorems about it |
| `MCSupervisor`, `MCPrivilegeEdit`, `MCTextInputs`, `MCAuthorization`, `MCRequests`, `MCSessionProtocol` | constants for TLC; `MCTextInputs` checks `PrivilegeEntries`, `EditorContent` and `Authorization` side by side, `MCRequests` and `MCPrivilegeEdit` take the names a session may use and is shown from `Authorization` |

How they fit together: `PrivilegeDiff` is used by `PrivilegeEdit`, `PrivilegeEntries`
and `EditorContent`. `PrivilegeEdit` lets the editor yield any rows; which rows a
text yields is `EditorContent`. `SessionProtocol` has requests with outcomes; how an
outcome comes about is `Requests` and `PrivilegeEdit`. `Supervisor` has sessions as
far as permits and pools are concerned; that a session ends when its client is gone
is `SessionProtocol`'s `SessionEnds`.

### Supervisor

One action per piece of code between two awaits. `sup` is where the run loop is
(its reload and shutdown included): the locations of `ReloadPCs` are the awaits of
`reload()` at which its future can be dropped by `AbortReload`. `lpc` is where the
listener is: `recv` and `rest` are the two halves of one poll of its biased
`select!`, since the runtime has several threads and a message can be sent
between the two; `paused` is its inner loop.

What tokio and sqlx do is modelled from their use: a broadcast receiver of
capacity 1 is a slot and a count of unread messages where 2 stands for "lagged"
(`Send`, `ListenerLagged`); the semaphore is a FIFO queue, kept as the set of
waiters ahead of each (`Enqueue`, `Leave`, `AtHead`); `Pool::close` marks a pool
closed at once and returns when its connections are back. A configuration is a
record of what a reload compares: database settings, socket path, denylist
content. Files that cannot be read, connections and binds that fail, are
alternatives of the action that meets them.

`owed` is history: the sessions that held a permit, or were in the queue, when the
shutdown asked for all permits. `ReloadPool` is the swap of the pools together with
the mark that closes the old one; a step between the two would let a session still
start on the old pool, which `ReloadCloseOldPool` then waits for like any other. The
flag for MariaDB that is stored with the swap selects the wording of some queries.

Assumed: `sd_notify` succeeds, and `Supervisor::new` has succeeded (a failure
there ends the process before anything runs).

### PrivilegeDiff, PrivilegeEdit, PrivilegeEntries

A row is a function from privileges to Y or N, or `NoRow`. `PrivilegeDiff` keeps
the names of the source: `FromRows`, `Mappend`, `RemoveNoops`, `CreateOrModify`;
`DiffApplies` is `validate_diff`, `ExecuteDiff` the SQL statement. Errors of
`anyhow::bail!` are the value `Error`.

`PrivilegeEdit` runs each client once, from fetching the rows to the response.
Client steps are requests; server steps are SQL statements. Other sessions create
and drop databases and users at any moment (`MaxChurn` bounds how often).
`table` is `mysql.db` and `grants` what the database server enforces, which
follows the table at `FLUSH PRIVILEGES` and at `DROP USER`. `touched` and `dirty`
are history: which pairs others have changed since a client's fetch, and which
sessions have written since the last flush. `known` holds the databases whose rows
the client was given. It is not the same set as those it may edit: `FetchAll` is one
query that selects by the regular expression of the user's prefixes (`Shown`),
`UseDatabase` and `GetDatabasePrivileges` are the two queries for the one database
of `mysql-dbadm editperm`, after an error of which the editor opens without rows, and
validation accepts other names again (`Owned`): a denied group's prefix, or a name
that ends in the underscore, is accepted and not selected. The row of such a
database looks to the client as if there were none, and an edit of it is refused
with "row already exists" although nobody interfered; `UndisturbedEdit` says that
this is the only way to be refused undisturbed.

The text in the editor is abstracted to the rows it stands for: the user leaves any
of `Wishes` there, or gives any of `Entries`. `DatabaseErrors` is the answer of the
ListDatabases request by which the client asks whether databases exist: an error for
those that are not its own or that are contained in no name there is (`Hits`; that
the request may find another database's row is in `Requests`), and perhaps for more,
where a query fails. The server's own validation of the names in ModifyPrivileges has
no action: the client has left out the names that fail it, and what it depends on, the
user and the denylist of the session, does not change within a session. Rows for
other hosts than `%` do not occur.

`PrivilegeEntries` gives one pair several entries and merges their diffs in any
order, which covers the order of the code's BTreeSet.

### EditorContent

A line is a record of what the parser tells apart: a row, a broken line that still
names its pair, garbage, the header, a comment, and the two kinds of comment that
mark errors. `ChangeLine` is the user in the editor (external), `Save` strips and
parses, `Detect` is `detect_ownership_and_existence_errors` with any answer of the
server, `GoBack` writes the errors into the text, `IgnoreErrors` puts the rows back
that lines in error name. Lines with errors of both kinds get both messages.

### Authorization

Names are sequences of characters, since the properties are about prefixes and
patterns; `RegexMatches` is a glob match by definition, not by a matching algorithm.
`ParseLine` is one round of the loop of `parse_group_denylist`; lines come in any
order, which does not matter to the sets they fill. The validators return the name
of the error, in the order in which the code asks. `MatchesUserGroupRegex` is not
anchored, as in SQL's `REGEXP`: lists contain every name with such a prefix, which
`AdvertisedPrefixWorks` states, and also names that contain one further in, of which
nothing is claimed. `SessionHandler` gives the session its user. `ValidateByGroupDenylist`
looks up the name as a whole, as the code does; that this is not what the
administrator's documentation says is the run `authorization_prefix`.

### AccountStore, Requests, AtomicRequests

`AccountStore` is what MySQL's statements do, as far as muscl relies on it: a
statement has a precondition without which it fails, DROP USER takes the rows of
the user along, DROP DATABASE does not. In `Requests` a session works through
`todo`, the names of its request: `Reject`, `CheckExists`, `CheckUnlocked` and
`CheckLocked`, then `Execute`, each a step of its own, because there is no
transaction. `Fail` is a query or statement that fails, possible at any of them;
`LoseAnswer` one that took effect before the connection failed. The list requests
are one to many queries; a user's databases are those whose row has a privilege
(`granting`), a database's rows are all of them. Which other columns a listing has is
left out. Names may repeat. `EditPrivileges` is another session's
ModifyPrivileges. Sessions may stop anywhere.

`AtomicRequests` says what a user may rely on: each name is answered at one moment,
`exists`, `missing` and `already` are true at that moment, `ok` changes the database
at that moment, only `mysql_error` leaves it open, the names are dealt with in
order, each as often as it was given and no more (`left`), and no new request begins
before every name has its answer. For a name given twice the later answer replaces
the earlier one: the abstract specification allows it, because the handlers do;
that the documentation says otherwise is the run `requests_repeated`. `Requests`
implements it (`AtomicSpec`), with the kind, the set of names and `todo` as
the mapping; intermediate checks are stutters.

### SessionProtocol

A command is its name, `--json` and whether stdin is a terminal. What it sends and
what it does after each outcome is its script, a set of steps (from a phase, on
outcomes, say, to a phase): one operator per command, the loops over users or
editor rounds bounded by `MaxRounds`. `Says` and `Takes` interpret the script
and the `match` on the response (`Arms`). A response is its variant, whether
something succeeded, whether a name was refused for lack of authorization (which
makes most commands ask for the prefixes, as a hint), and its size class relative to
the two frame limits. The server greets with Ready or Error, receives, handles,
responds. `Killed` is the user's interrupt or an early error, perhaps in the middle
of a frame; `Aborts` is the listener dropping the session. The session starts at
`session_handler`: the wait for a permit before it is in `Supervisor` (`AcceptedIsServed`).

## 3. Runs

| Run | Checks | Bounds |
|---|---|---|
| `supervisor_safety` | `TypeOK`, `EarlierSessionsAreNotCutOff`, `NoServiceOnOldPool`, `ListenerObeysLastMessage`, `DenylistIsCurrent` | 2 sessions, 1 permit, 2 configurations that differ in every field, 3 SIGHUPs, watchdog on |
| `supervisor_liveness` | `ShutdownCompletes`, `ReloadCompletes`, `AcceptedIsServed` | 1 session, 2 SIGHUPs, watchdog on, `FairSpec` |
| `privilege_edit` | `TypeOK`, `UndisturbedEdit`, `GrantsFollowTable`, `EveryDiffIsAnswered`, `OnlyIntendedChanges` | 2 clients, 2 databases, 1 user, 2 privileges, 3 first states of the table, 1 or 2 texts and 1 set of entries for each client, 1 creation or drop |
| `text_inputs` | `OrderIsIrrelevant`, `MergedDiffApplies`, `EditorMeansItsText`, `ErrorsLeaveTextAlone`, `DenylistMeansItsLines`, `AdvertisedPrefixWorks` | up to 3 entries for a pair, 2 privileges; or 2 pairs, up to 5 lines (before errors are written in), 2 changed lines, any number of rounds; or a denylist of up to 2 of 88 lines (every pattern of up to 3 characters over two letters and the wildcards), 5 groups, 2 users, every name of up to 4 characters |
| `requests` | `TypeOK`, `ErrorMeansUnchanged`, `UndisturbedRequest`, `AtomicSpec` | 2 sessions, 2 databases (one name part of the other), 1 user, requests of up to 2 names, 2 requests or edits in all, starting from any databases, users and locks, without rows |
| `session_protocol` | `TypeOK`, `ResponsesAreExpected`, `ChangesAreReported`, `ClientIsAnswered`, `SessionEnds` | each of 28 commands with each option, 2 rounds of passwords or in the editor, `FairSpec` |

Why the bounds are enough to meet the cases: two sessions and one permit make one
wait while the other is served and the supervisor queues between them; three
reloads let the channel lag and a denylist be loaded, removed and loaded again;
two clients on the same rows meet in every order of fetch, validation and statement;
two privileges let one edit change what the other left alone; two pairs let one
diff fail and the next succeed. The first rows, texts and entries of `privilege_edit`
are chosen so that rows are created, changed and deleted by both clients; its names
are such that one database is shown to a client whose it is not, and one is not shown
to a client who may edit it. Five lines hold the header and three rows, so two
lines may conflict beside a good one, and two changes let the second be made to a
text that errors were written into. Patterns of three characters have every run of
wildcards that normalising rewrites, next to a letter. Two concurrent requests of
two names are enough for a check of one to be overtaken by a statement of the other
and for a name to repeat; the databases, users and locks at the start are arbitrary,
so no earlier requests are needed but for an edit where a list is to have rows. What
the small bounds leave open the proofs of section 4 close for every safety property
of the passing runs.

Deadlock checking is off: the server may exit, commands run once, and the number of
requests is bounded.

Fairness. `Supervisor`: tokio polls every task that has been woken, so each
task's own steps are weakly fair; the health branch of the listener, last in its
biased `select!`, is strongly fair because with the watchdog on requests keep
arriving and one waits in the channel whenever the task is polled with nothing
else to do. Clients, signals and the administrator are not fair, which is why the
liveness properties except the case in which from some point on there is always a
client being served: the code has no timeout on clients. `SessionProtocol`: the
session's task is weakly fair for the same reason, provided that MySQL answers each
statement; the client process is weakly fair where it does not wait for its user
(the phases in `Prompts` are not fair: a user may stay at a prompt or in the editor
for ever). Nothing in the other modules is fair.

### Violations: where the code does not do what the repository says

| Run | Property | What happens |
|---|---|---|
| `supervisor_reported` | `ReloadedConfigIsServed` | The configuration is stored before it is put into effect. After a reload that failed half-way the next one finds nothing changed, skips the rest and logs success |
| `supervisor_stall` | `ReloadCompletes` | Watchdog off: Resume and Stop of two reloads lag the listener's receiver, its `select!` disables the branch, and it awaits a client with the read lock held that the second reload waits for |
| `privilege_edit_reported` | `OkMeansModified` | The row is deleted between validation and UPDATE: no row matches, success is reported |
| `requests_listing` | `ListedRowIsTheDatabase` | A database asked for by name is looked up by regular expression: the row may be that of another one whose name contains it |
| `requests_repeated` | `EachNameIsTriedOnce` | Arguments are not de-duplicated: a name given twice is tried twice, and the user is told that the database just created exists already |
| `authorization_prefix` | `DeniedGroupIsNoPrefix` | The denylist is asked about the group that has the whole name, not the prefix: members of a denied group may still use its name as a prefix |

`PROJECT.json` quotes the line each of them contradicts.

Other facts the models show:
- A client accepted while a shutdown's Stop is under way, or whose task has not queued
  for its permit when the shutdown asks for all of them, is not waited for. It gets
  its permit after the drain, and the Shutdown message (`supervisor.rs:436`) makes the
  listener task return (740-742, 762-764) and abort it, perhaps in the middle of a
  request; `EarlierSessionsAreNotCutOff` says for which sessions this cannot happen.
  `CHANGELOG.md:9` lists as fixed that connections were still accepted on stopping; the
  window is small now, but there.
- A SIGHUP during a reload, or two in a row, is lost.
- Entries for one pair are united rather than applied in order, and for a pair without
  a row two different ones are an error.
- `commands.rs:63-64` names 100 KB as the limit of requests and 1 MB as that of
  responses, but both directions of the client's stream have the limit of requests
  and both of the server's that of responses: a response between the two ends the client
  after the change was made (the exception in `ChangesAreReported`).

## 4. Proofs

`SupervisorProofs` proves every property of `supervisor_safety` for any number of
sessions, permits, configurations and SIGHUPs. Beside
`TypeOK`, only `ListenerObeysLastMessage` is inductive (given `TypeOK`): it already
ties the listener's state to what it has not read yet. `DenylistIsCurrent` needs
`HashIsOfDenylist`, that the recorded hash is that of the denylist in effect.
`NoServiceOnOldPool` needs `PoolInv`: a session being served has its
connection checked out, no session holds a pool that does not exist yet, and before a
shutdown only the pool being closed can be in use beside the current one.
`EarlierSessionsAreNotCutOff` (theorem `EarlierSessionsEnd`) needs `WaitInv`: a queued
session is in the semaphore's queue; the Shutdown message, and so the listener's return,
comes after the drain; and an owed session that is not over either holds a permit or is
ahead of the shutdown in the queue until the drain, and is over after it. The
assumptions are `ConfigsAssumption` and `BoundsAssumption`.

`PrivilegeDiffProofs` is about the operators. `Leads(d, from, to)` says that a
diff applies to `from` and turns it into `to`. `DiffPairLeads` and `EntryLeads`
show it of every diff a client makes, `ReduceKeeps` that reduction leaves such a
diff alone. `MappendIsSequential` is the comment of `mappend` ("combining them in a
sequential manner") for every pair of diffs but a deletion followed by a creation,
which the code leaves a deletion; no caller produces it.

`PrivilegeEditProofs` proves all properties of `privilege_edit`, from the assumptions
about types alone (`NoRowAssumption`, `ChurnAssumption`, `InputsAssumption`,
`NamesAssumption`): nothing is assumed of which names are owned, shown or contained in
which.
- `LocalInv` is about one client: `RequestInv` ties the results given to the diffs
  sent and still to do, `PlanInv` says that its diffs lead from what it fetched to
  what it wants. `DiffsAreAnswered` follows. A step of one client leaves it true
  of the others (`Frame`).
- `FlushInv` (no unflushed writer means equal tables; an unflushed writer is in
  its handler or ended without a flush) gives `GrantsAreFlushed`.
- `ExecuteIntended` shows that a diff that leads from `from` to `to`, executed on
  any other row, changes only what differs between the two. With `PlanInv` this is
  `ChangesAreIntended`.
- `QuietInv` follows an undisturbed pair through the handler: fetched row until
  success, wanted row after, and what was found to exist still does. It needs
  `SeenInv` (the client has rows only of databases it was given) and
  `PlanInv` (the diff applies), and is kept by other sessions because whatever
  they change they touch (`OthersQuiet`). `UndisturbedEditsSucceed` follows.

`RequestsProofs`, from `RequestsAssumption` and the assumption of `AccountStore`, for
any sessions, names, ownership, requests and bounds:
- `TypeCorrect`: `TypeOK` is not inductive. `IInv` adds `Working`, which says of every
  session what its location implies: the names to do are names of its request, and
  one waiting for the lock check, its statement, its rows or its databases has a
  request of that kind and a name that passed validation.
- `HandlersAreAtomic`: the refinement `Spec => AtomicSpec`. Every action is shown to be
  one of three (`StepShape`): it begins a request, answers the name at hand, with a
  change of the database or without, or leaves requests and answers alone. Answers
  map to `Answer` of the abstract specification, with the truth of the answer from the
  guard of the action; the rest stutters. That a request begins only when the last
  one has all its answers needs `RInv`: every name asked for has its answer or is
  still to do.
- `AnswersAreHonest`: `EInv` adds `InOrder` (the names to do are the end of the
  request's names, and what the request has changed comes before them) and `Reported`.
  A name given once cannot have been changed before it is at hand (`HandIsNew`).

- `UndisturbedIsTrue`: `UndisturbedRequest` speaks of finished requests only. `QInv`
  says more: at every moment the answers an undisturbed session has collected are true
  (`Claim`), and so is what it has found out about the name at hand (`Progress`), so
  that the statement for one name cannot make the answer to another wrong. `Books`
  says that only names of the request have an answer. A step of another session either
  leaves the database alone or disturbs (`StepIsLocal`, `OthersKept`).

`SessionProtocolProofs`, from `MaxRoundsAssumption`, for any number of rounds:
`TypeCorrect`, `ExpectedResponses` and `ReportedChanges` all follow from `HandOff`, which
says where the one message in flight is. While the client waits, its request is in
the stream, being handled, being answered, or the response is in the other stream,
and changes are ahead of reports exactly when the handler has run and the client has not
taken the response; when the client is gone, what it left behind depends on how
it ended. None of the three properties is inductive without it. `ScriptType` shows
of each of the 28 scripts that its steps are steps.

`PrivilegeEntriesProofs`, from `NoRowAssumption` and `MaxEntriesAssumption`, for any
number of entries and privileges: the invariant `IsMerged(acc, AllDiffs \ diffs)` says what
the diffs merged so far come to as a set, without their order: the privileges some
diff changes, flipped; or, without a row, the one new row or an error.
`OrderDoesNotMatter` is this at the end of the loop, `MergedApplies` follows from it.

`EditorContentProofs`, from `EditorAssumption` (a finite number of pairs; bounds are
numbers), for any pairs, text and rounds. `EditorInv` says that at every stage rows and
errors are those of the saved text less the refused pairs, and that the saved text has
no marker; the property alone only speaks of the end.
- `EditorMeaning`: `DuplicatesResolved` says what is kept of the lines of a pair,
  `ErrorNames` which lines in error name it, `EndMeansText` that the rows
  left plus the rows put back for ignored lines are what the text means.
- `ErrorsAreStripped`: `InlineAddsErrors` and `StripTakesErrors` say that the two
  operations add and remove lines of errors only.
- `GeneratedTextParsesBack`: generating and parsing are inverse.

`AuthorizationProofs`, from `NamesAssumption` (group names, user names and
patterns are sequences over `Chars`, which has the wildcards and the underscore) and
`BoundsAssumption`:
- `NormalizeKeepsMeaning`, for patterns and names of any length. `Reaches(p, name, k)` is
  how far a pattern can match; a star may be doubled and may change places with a question
  mark (`StarStar`, `MarkBeforeStar`), and with one more character on both sides
  patterns stay equivalent (`SameOneMore`), so the text normalised so far stays
  equivalent to the part of the pattern it was made from.
- `DenylistIsItsLines`: the invariant `ListInv` (gids and patterns are those of the
  lines read) with the theorem above.
- `AdvertisedPrefixesWork` needs no invariant: it holds of every denylist.

These two modules reason by induction over texts and patterns. The induction is in
the form of sets (`SetInduction`: a set with 0 and the successor of each of its numbers
has all of them), from the well-foundedness of the naturals, and the functions
that `FlattenSeq` and `Normalize` define by recursion are shown to exist
(`FlattenExists`, `AccExists`). For this `Normalize` is written as a recursive
function, and `ErrorsLeaveTextAlone` with `FlattenSeq` (`Without`).

Every safety property of the passing runs is a theorem. Only model-checked: the
liveness properties (`ShutdownCompletes`, `ReloadCompletes`, `AcceptedIsServed`,
`ClientIsAnswered`, `SessionEnds`), because fairness and ENABLED are out of the prover's
reach; and the six violations, which are counterexamples.

## 5. Not modelled

Printing, tables, JSON output, exit codes and the wording of messages; the JSON
encoding and length-delimited framing of messages; the SUID/SGID bootstrap and
landlock, which are system calls in a fixed order; argument parsing by clap, the
cutting of names to 32 characters by the mysql-admutils commands; `Supervisor::new`'s
failures and the status notifier task, which only reads; the timeouts of the health
registry and the watchdog's deadline (that the tasks answer is modelled).

Validation of names inside `apply_privilege_diffs`, which the requests of these clients
cannot fail (section 2). Rows for hosts other than `%`.

## 6. Plan

Done: all modules of section 2. Left, in this order:

1. An abstract server (accepting, draining, stopped) and the refinement from
   `Supervisor` to it, model-checked and then proved.
2. `Watchdog`: the health registry with its timeouts, the watchdog's deadline and a
   drain that lasts.
