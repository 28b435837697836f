------------------------------ MODULE Supervisor ------------------------------
(***************************************************************************)
(* The server process of muscl: the signal handler task, the supervisor's  *)
(* run loop with its reload and shutdown procedures, the listener task and  *)
(* the session tasks it spawns (server/supervisor.rs, and the life cycle of *)
(* a session in server/session_handler.rs).                                *)
(*                                                                         *)
(* The server runs on a multi-threaded tokio runtime, so tasks interleave  *)
(* between any two of the atomic steps below.  They meet at a broadcast     *)
(* channel of capacity 1 (supervisor -> listener), another one (signal      *)
(* handler -> run loop), a FIFO semaphore (one permit per running session), *)
(* a fair read/write lock around the listening socket, and the connection   *)
(* pool.                                                                   *)
(***************************************************************************)
EXTENDS Naturals, FiniteSets

CONSTANTS
    Sessions,     \* client connections, each used at most once
    MaxSessions,  \* MAX_CONCURRENT_SESSIONS
    Configs,      \* configuration files an administrator may install
    NoDenylist,   \* the value of "deny" when no denylist file is configured
    NoHash,       \* group_denylist_file_hash = None
    MaxSighups,   \* bound on the number of SIGHUPs sent to the process
    Watchdog      \* is the systemd watchdog (and so health checking) enabled?

(* A configuration as far as a reload looks at it: the database settings,  *)
(* the socket path and the content of the denylist file it names.          *)
Mysqls    == {c.mysql : c \in Configs}
Sockets   == {c.sock : c \in Configs}
Denylists == {c.deny : c \in Configs} \cup {NoDenylist}

(* The semaphore's waiters: session tasks (one permit each) and the        *)
(* supervisor, which asks for all of them.                                 *)
SupWaiter == "supervisor"
Waiters   == Sessions \cup {SupWaiter}

ASSUME ConfigsAssumption ==
    /\ Configs # {}
    /\ Configs \subseteq [mysql : Mysqls, sock : Sockets, deny : Denylists]
    /\ NoHash \notin Denylists
ASSUME BoundsAssumption ==
    /\ IsFiniteSet(Sessions)
    /\ SupWaiter \notin Sessions
    /\ MaxSessions \in Nat \ {0}
    /\ MaxSighups \in Nat
    /\ Watchdog \in BOOLEAN

VARIABLES
    sighups,     \* SIGHUPs sent so far (bounded by MaxSighups)
    cancelled,   \* shutdown_cancel_token
    reloadUnread,\* events in the run loop's receiver: 0, 1, or 2 = lagged
    sup,         \* where the run loop (with reload and shutdown) stands
    config,      \* the supervisor's copy of the configuration
    prevConfig,  \* previous_config of the reload in progress
    denylist,    \* group denylist in effect
    denyHash,    \* hash of the denylist file last loaded
    errors,      \* parts of the reload in progress that failed
    sd,          \* last state told to systemd
    pool,        \* generation of the current connection pool
    poolMysql,   \* settings the current pool was opened with
    slot,        \* last message sent to the listener task
    unread,      \* messages in the listener's receiver: 0, 1, or 2 = lagged
    lpc,         \* where the listener task stands
    recvBranch,  \* is the recv branch of its select! "on" or disabled ("off")?
    lock,        \* lock on the listening socket: "free", or held to "read"
    listenSock,  \* path the listening socket is bound to
    sess,        \* life cycle of every session
    snap,        \* generation of the pool the session was given
    conn,        \* sessions whose pool connection is checked out
    waiting,     \* queue of the session semaphore: its members ...
    ahead,       \* ... and, for each, the members served before it
    owed         \* history: sessions that held a permit, or were queued for one,
                 \* when the shutdown asked for all of them

confVars == <<config, prevConfig, denylist, denyHash, errors>>
poolVars == <<pool, poolMysql>>
chanVars == <<slot, unread>>
lisVars  == <<lpc, recvBranch, lock, listenSock>>
sessVars == <<sess, snap, conn>>
semVars  == <<waiting, ahead, owed>>
signals  == <<sighups, cancelled, reloadUnread>>
tasks    == <<lisVars, sessVars, semVars>>
supAll   == <<signals, sup, confVars, sd, poolVars>>
vars     == <<supAll, chanVars, tasks>>

-----------------------------------------------------------------------------
(* Locations. *)

(* reload(): every location at which its future can be dropped. *)
ReloadPCs == {"notify", "config", "pool", "close_old", "sock", "acquire",
              "drain", "bind", "write", "resume", "ready"}
(* shutdown(), in order. *)
ShutdownPCs == {"stop", "stop_acquire", "stop_drain", "close", "closing", "exited"}
SupPCs == {"loop", "select"} \cup ReloadPCs \cup ShutdownPCs

SessionStates == {"off", "backlog", "spawned", "queued", "permit", "ready",
                  "handling", "finished", "gone"}

-----------------------------------------------------------------------------
(* What tokio and sqlx provide. *)

(* Mutant: the channel is taken to queue messages. *)
SendQueues(m) == slot' = m /\ unread' = unread + 1

(* broadcast::Sender::send on a channel of capacity 1: an unread message is *)
(* overwritten, and the receiver will be told that it lagged.               *)
Send(m) ==
    /\ slot' = m
    /\ unread' = IF unread = 0 THEN 1 ELSE 2

(* Semaphore: FIFO, permits are handed to the head of the queue only.      *)
Holders == {s \in Sessions : sess[s] \in {"permit", "ready", "handling"}}

Enqueue(w) ==
    /\ waiting' = waiting \cup {w}
    /\ ahead' = [ahead EXCEPT ![w] = waiting]

(* Mutant: a waiter that leaves does not let the ones behind it move up. *)
LeaveSilently(ws) == waiting' = waiting \ ws /\ UNCHANGED <<ahead, owed>>

Leave(ws) ==
    /\ waiting' = waiting \ ws
    /\ ahead' = [w \in Waiters |-> ahead[w] \ ws]
    /\ UNCHANGED owed

AtHead(w) == w \in waiting /\ ahead[w] = {}

(* A session that has a database connection and talks to its client. *)
Serving(s) == sess[s] \in {"ready", "handling"}

(* Pool::close marks the pool closed at once; acquire then fails.  A       *)
(* restart closes the pool it replaces, a shutdown the current one.        *)
PoolClosed(p) == p < pool \/ sup \in {"closing", "exited"}
CheckedOut(p) == {s \in conn : snap[s] = p}

Running == sup # "exited"

-----------------------------------------------------------------------------
(* Supervisor::new has succeeded: the configuration of the file is in       *)
(* effect, and the run loop and the listener are about to start.            *)
Init ==
    /\ config \in Configs
    /\ prevConfig = config
    /\ denylist = config.deny
    /\ denyHash = NoHash
    /\ errors = {}
    /\ sd = "Ready"
    /\ sighups = 0
    /\ cancelled = FALSE
    /\ reloadUnread = 0
    /\ sup = "loop"
    /\ pool = 0
    /\ poolMysql = config.mysql
    /\ slot = "None"
    /\ unread = 0
    /\ lpc = "recv"
    /\ recvBranch = "on"
    /\ lock = "free"
    /\ listenSock = config.sock
    /\ sess = [s \in Sessions |-> "off"]
    /\ snap = [s \in Sessions |-> 0]
    /\ conn = {}
    /\ waiting = {}
    /\ ahead = [w \in Waiters |-> {}]
    /\ owed = {}

-----------------------------------------------------------------------------
(* Environment: the signals. *)

(* spawn_signal_handler_task, SIGHUP branch.  The run loop subscribes anew  *)
(* in every iteration, so only a receiver waiting in its select! is reached. *)
Sighup ==
    /\ Running /\ ~cancelled
    /\ sighups < MaxSighups
    /\ sighups' = sighups + 1
    /\ reloadUnread' = IF sup # "select" THEN 0
                       ELSE IF reloadUnread = 0 THEN 1 ELSE 2
    /\ UNCHANGED <<cancelled, sup, confVars, sd, poolVars, chanVars, tasks>>

(* SIGTERM and SIGINT branches: cancel the token; the task then ends. *)
Sigterm ==
    /\ Running /\ ~cancelled
    /\ cancelled' = TRUE
    /\ UNCHANGED <<sighups, reloadUnread, sup, confVars, sd, poolVars, chanVars,
                   tasks>>

-----------------------------------------------------------------------------
(* Supervisor::run *)

RunResubscribe ==
    /\ sup = "loop"
    /\ sup' = "select"
    /\ reloadUnread' = 0
    /\ UNCHANGED <<sighups, cancelled, confVars, sd, poolVars, chanVars, tasks>>

(* The reload branch: an event starts a reload; a lagged receiver only logs, *)
(* and the next iteration's fresh receiver does not hold the kept event.     *)
RunReload ==
    /\ sup = "select"
    /\ reloadUnread # 0
    /\ sup' = IF reloadUnread = 1 THEN "notify" ELSE "loop"
    /\ reloadUnread' = 0
    /\ UNCHANGED <<sighups, cancelled, confVars, sd, poolVars, chanVars, tasks>>

(* The shutdown branch. *)
RunShutdown ==
    /\ sup = "select"
    /\ cancelled
    /\ sup' = "stop"
    /\ UNCHANGED <<signals, confVars, sd, poolVars, chanVars, tasks>>

(* The health branch: answer, and start another iteration. *)
RunHealth ==
    /\ sup = "select"
    /\ Watchdog /\ reloadUnread = 0 /\ ~cancelled
    /\ sup' = "loop"
    /\ UNCHANGED <<signals, confVars, sd, poolVars, chanVars, tasks>>

(* The reload future is done or dropped, and its locals with it. *)
EndReload(current) ==
    /\ sup' = "loop"
    /\ prevConfig' = current
    /\ errors' = {}

(* Mutant: the dropped reload stays in the semaphore's queue. *)
AbortReloadKeepsQueue ==
    /\ sup \in ReloadPCs
    /\ cancelled
    /\ EndReload(config)
    /\ UNCHANGED <<signals, config, denylist, denyHash, sd, poolVars, chanVars, tasks>>

(* The inner select!: a shutdown signal drops the reload future wherever it  *)
(* waits; a pending acquire_many leaves the semaphore's queue.               *)
AbortReload ==
    /\ sup \in ReloadPCs
    /\ cancelled
    /\ EndReload(config)
    /\ Leave({SupWaiter})
    /\ UNCHANGED <<signals, config, denylist, denyHash, sd, poolVars, chanVars,
                   lisVars, sessVars>>

-----------------------------------------------------------------------------
(* Supervisor::reload *)

ReloadNotify ==
    /\ sup = "notify"
    /\ sd' = "Reloading"
    /\ prevConfig' = config
    /\ sup' = "config"
    /\ UNCHANGED <<signals, config, denylist, denyHash, errors, poolVars,
                   chanVars, tasks>>

(* Mutant: the hash is not reset when no denylist file is configured. *)
LoadDenylistKeepsHash(c) ==
    /\ denylist' = IF c.deny = denyHash THEN denylist ELSE c.deny
    /\ denyHash' = IF c.deny = NoDenylist THEN denyHash ELSE c.deny

(* The denylist part of reload_config: unchanged content is not parsed again. *)
LoadDenylist(c) ==
    /\ denylist' = IF c.deny = denyHash THEN denylist ELSE c.deny
    /\ denyHash' = IF c.deny = NoDenylist THEN NoHash ELSE c.deny

(* reload_config: c is what the administrator left in the file.  The new      *)
(* configuration is stored before the denylist it names is read; a failure    *)
(* ends the reload early, with systemd not told Ready.                        *)
ReloadConfig(c) ==
    /\ sup = "config"
    /\ \/ UNCHANGED <<config, denylist, denyHash>> /\ EndReload(config)  \* unreadable file
       \/ /\ config' = c
          /\ \/ /\ LoadDenylist(c)
                /\ sup' = "pool"
                /\ UNCHANGED <<prevConfig, errors>>
             \/ /\ c.deny # NoDenylist                    \* unreadable denylist
                /\ EndReload(c)
                /\ UNCHANGED <<denylist, denyHash>>
    /\ UNCHANGED <<signals, sd, poolVars, chanVars, tasks>>

(* restart_db_connection_pool, up to the swap.  A failure to connect is      *)
(* collected and the old pool stays.  close() marks the old pool closed when *)
(* it is first polled, right after the swap: the two are one step here.  The *)
(* flag for the kind of database server, stored in between, is not modelled. *)
ReloadPool ==
    /\ sup = "pool"
    /\ \/ /\ config.mysql = prevConfig.mysql
          /\ sup' = "sock"
          /\ UNCHANGED <<errors, poolVars>>
       \/ /\ config.mysql # prevConfig.mysql
          /\ \/ /\ pool' = pool + 1
                /\ poolMysql' = config.mysql
                /\ sup' = "close_old"
                /\ UNCHANGED errors
             \/ /\ errors' = errors \cup {"pool"}
                /\ sup' = "sock"
                /\ UNCHANGED poolVars
    /\ UNCHANGED <<signals, config, prevConfig, denylist, denyHash, sd,
                   chanVars, tasks>>

(* Mutant: the old pool's close() is not awaited. *)
ReloadCloseOldPoolAtOnce ==
    /\ sup = "close_old"
    /\ sup' = "sock"
    /\ UNCHANGED <<signals, confVars, sd, poolVars, chanVars, tasks>>

(* old_db_pool.close().await returns when its connections are all back. *)
ReloadCloseOldPool ==
    /\ sup = "close_old"
    /\ CheckedOut(pool - 1) = {}
    /\ sup' = "sock"
    /\ UNCHANGED <<signals, confVars, sd, poolVars, chanVars, tasks>>

(* stop_receiving_new_connections, if the socket has moved. *)
ReloadSocket ==
    /\ sup = "sock"
    /\ \/ config.sock = prevConfig.sock /\ sup' = "ready" /\ UNCHANGED chanVars
       \/ config.sock # prevConfig.sock /\ sup' = "acquire" /\ Send("Stop")
    /\ UNCHANGED <<signals, confVars, sd, poolVars, tasks>>

(* wait_for_existing_connections_to_finish: queue for every permit, and let  *)
(* them all go again as soon as they are granted.                            *)
AcquireAll(from, to) ==
    /\ sup = from
    /\ sup' = to
    /\ Enqueue(SupWaiter)
    /\ UNCHANGED <<signals, confVars, sd, poolVars, chanVars, lisVars, sessVars>>

AllGranted(from, to) ==
    /\ sup = from
    /\ AtHead(SupWaiter)
    /\ Holders = {}
    /\ sup' = to
    /\ Leave({SupWaiter})
    /\ UNCHANGED <<signals, confVars, sd, poolVars, chanVars, lisVars, sessVars>>

ReloadAcquire == AcquireAll("acquire", "drain") /\ UNCHANGED owed
ReloadDrained == AllGranted("drain", "bind")

(* reload_listener, the new socket: binding it may fail. *)
ReloadBind ==
    /\ sup = "bind"
    /\ \/ sup' = "write" /\ UNCHANGED errors
       \/ sup' = "ready" /\ errors' = errors \cup {"listener"}
    /\ UNCHANGED <<signals, config, prevConfig, denylist, denyHash, sd,
                   poolVars, chanVars, tasks>>

(* reload_listener, the swap under the write lock.  Clients in the backlog   *)
(* of the old socket are reset with it.                                      *)
ReloadSwapListener ==
    /\ sup = "write"
    /\ lock = "free"
    /\ listenSock' = config.sock
    /\ sess' = [s \in Sessions |-> IF sess[s] = "backlog" THEN "gone" ELSE sess[s]]
    /\ sup' = "resume"
    /\ UNCHANGED <<signals, confVars, sd, poolVars, chanVars, lpc, recvBranch,
                   lock, snap, conn, semVars>>

(* resume_receiving_new_connections *)
ReloadResume ==
    /\ sup = "resume"
    /\ Send("Resume")
    /\ sup' = "ready"
    /\ UNCHANGED <<signals, confVars, sd, poolVars, tasks>>

(* The result, a list of errors or none, is only logged by run(). *)
ReloadReady ==
    /\ sup = "ready"
    /\ sd' = "Ready"
    /\ EndReload(config)
    /\ UNCHANGED <<signals, config, denylist, denyHash, poolVars, chanVars, tasks>>

-----------------------------------------------------------------------------
(* Supervisor::shutdown *)

ShutdownStop ==
    /\ sup = "stop"
    /\ sd' = "Stopping"
    /\ Send("Stop")
    /\ sup' = "stop_acquire"
    /\ UNCHANGED <<signals, confVars, poolVars, tasks>>

ShutdownAcquire ==
    /\ AcquireAll("stop_acquire", "stop_drain")
    /\ owed' = Holders \cup {s \in Sessions : sess[s] = "queued"}

(* Mutant: the permits are asked for, but not waited for. *)
ShutdownDoesNotWait ==
    /\ sup = "stop_drain"
    /\ sup' = "close"
    /\ Leave({SupWaiter})
    /\ UNCHANGED <<signals, confVars, sd, poolVars, chanVars, lisVars, sessVars>>

ShutdownDrained == AllGranted("stop_drain", "close")

(* Tell the listener task to end, and start closing the current pool. *)
ShutdownClose ==
    /\ sup = "close"
    /\ Send("Shutdown")
    /\ sup' = "closing"
    /\ UNCHANGED <<signals, confVars, sd, poolVars, tasks>>

(* The pool is closed once its connections are all back; then exit(0). *)
ShutdownExit ==
    /\ sup = "closing"
    /\ CheckedOut(pool) = {}
    /\ sup' = "exited"
    /\ UNCHANGED <<signals, confVars, sd, poolVars, chanVars, tasks>>

-----------------------------------------------------------------------------
(* listener_task.  A poll of its biased select! first polls the channel      *)
(* ("recv") and then the other branches in order ("rest"); a message may     *)
(* arrive between the two.  An iteration that handled a branch starts over   *)
(* with every branch enabled and the futures of the old one, and with them   *)
(* the read lock, dropped.                                                   *)

NextIteration ==
    /\ lpc' = "recv"
    /\ recvBranch' = "on"
    /\ lock' = "free"

(* Nothing to receive, or the branch is disabled for this iteration. *)
ListenerNoMessage ==
    /\ Running
    /\ lpc = "recv"
    /\ recvBranch = "off" \/ unread = 0
    /\ lpc' = "rest"
    /\ UNCHANGED <<supAll, chanVars, recvBranch, lock, listenSock, sessVars,
                   semVars>>

(* Mutant: Lagged also gives up the message the channel still holds. *)
ListenerLaggedDrops ==
    /\ Running
    /\ lpc = "recv" /\ recvBranch = "on"
    /\ unread = 2
    /\ unread' = 0
    /\ recvBranch' = "off"
    /\ lpc' = "rest"
    /\ UNCHANGED <<supAll, slot, lock, listenSock, sessVars, semVars>>

(* recv() returns Err(Lagged), which does not match Ok(message): select!     *)
(* disables the branch and goes on with the others.                          *)
ListenerLagged ==
    /\ Running
    /\ lpc = "recv" /\ recvBranch = "on"
    /\ unread = 2
    /\ unread' = 1
    /\ recvBranch' = "off"
    /\ lpc' = "rest"
    /\ UNCHANGED <<supAll, slot, lock, listenSock, sessVars, semVars>>

(* The listener task returns; dropping its JoinSet aborts every session.     *)
ListenerReturns ==
    /\ lpc' = "done"
    /\ recvBranch' = "off"
    /\ lock' = "free"
    /\ sess' = [s \in Sessions |-> IF sess[s] \in {"off", "backlog"} THEN sess[s] ELSE "gone"]
    /\ Leave(Sessions)

(* Mutant: the accept future, and its read lock, outlives the Stop message. *)
ListenerMessageKeepsLock ==
    /\ Running
    /\ lpc = "recv" /\ recvBranch = "on"
    /\ unread = 1
    /\ unread' = 0
    /\ \/ /\ slot = "Stop"
          /\ lpc' = "paused" /\ recvBranch' = "off" /\ UNCHANGED lock
          /\ UNCHANGED <<sess, semVars>>
       \/ slot = "Shutdown" /\ ListenerReturns
       \/ slot = "Resume" /\ NextIteration /\ UNCHANGED <<sess, semVars>>
    /\ UNCHANGED <<supAll, slot, listenSock, snap, conn>>

ListenerMessage ==
    /\ Running
    /\ lpc = "recv" /\ recvBranch = "on"
    /\ unread = 1
    /\ unread' = 0
    /\ \/ /\ slot = "Stop"
          /\ lpc' = "paused" /\ recvBranch' = "off" /\ lock' = "free"
          /\ UNCHANGED <<sess, semVars>>
       \/ slot = "Shutdown" /\ ListenerReturns
       \/ slot = "Resume" /\ NextIteration /\ UNCHANGED <<sess, semVars>>
    /\ UNCHANGED <<supAll, slot, listenSock, snap, conn>>

(* The inner loop of a stopped listener; it waits for messages only. *)
ListenerPaused ==
    /\ Running
    /\ lpc = "paused"
    /\ unread # 0
    /\ unread' = unread - 1
    /\ \/ /\ unread = 2 \/ slot = "Stop"   \* lagged, or already stopped
          /\ UNCHANGED <<lpc, recvBranch, lock, sess, semVars>>
       \/ unread = 1 /\ slot = "Resume" /\ NextIteration /\ UNCHANGED <<sess, semVars>>
       \/ unread = 1 /\ slot = "Shutdown" /\ ListenerReturns
    /\ UNCHANGED <<supAll, slot, listenSock, snap, conn>>

(* listener.read().await: the lock is fair, a queued writer goes first. *)
ListenerReadLock ==
    /\ Running
    /\ lpc = "rest" /\ lock = "free"
    /\ sup # "write"
    /\ lock' = "read"
    /\ UNCHANGED <<supAll, chanVars, lpc, recvBranch, listenSock, sessVars, semVars>>

(* listener.accept().await: a session task is spawned with snapshots of the  *)
(* pool and the denylist, or the connection is already broken.               *)
ListenerAccept(s) ==
    /\ Running
    /\ lpc = "rest" /\ lock = "read"
    /\ sess[s] = "backlog"
    /\ NextIteration
    /\ \/ /\ sess' = [sess EXCEPT ![s] = "spawned"]
          /\ snap' = [snap EXCEPT ![s] = pool]
       \/ /\ sess' = [sess EXCEPT ![s] = "gone"]
          /\ UNCHANGED snap
    /\ UNCHANGED <<supAll, chanVars, listenSock, conn, semVars>>

(* Accepting is pending: the lock is not to be had, or nobody is connecting. *)
AcceptPending ==
    /\ lpc = "rest"
    /\ IF lock = "read" THEN \A s \in Sessions : sess[s] # "backlog" ELSE sup = "write"

(* task_tracker.join_next() *)
ListenerReap(s) ==
    /\ Running
    /\ AcceptPending
    /\ sess[s] = "finished"
    /\ sess' = [sess EXCEPT ![s] = "gone"]
    /\ NextIteration
    /\ UNCHANGED <<supAll, chanVars, listenSock, snap, conn, semVars>>

(* The health branch, polled last. *)
ListenerHealth ==
    /\ Running
    /\ Watchdog
    /\ AcceptPending
    /\ \A s \in Sessions : sess[s] # "finished"
    /\ NextIteration
    /\ UNCHANGED <<supAll, chanVars, listenSock, sessVars, semVars>>

(* Every branch is pending: the task sleeps and is polled again. *)
ListenerSleep ==
    /\ Running
    /\ AcceptPending
    /\ \A s \in Sessions : sess[s] # "finished"
    /\ lpc' = "recv"
    /\ UNCHANGED <<supAll, chanVars, recvBranch, lock, listenSock, sessVars,
                   semVars>>

-----------------------------------------------------------------------------
(* Clients and session tasks. *)

(* A client connects to the socket; the kernel queues it even when the       *)
(* listener is not accepting.                                                *)
ClientConnect(s) ==
    /\ Running /\ lpc # "done"
    /\ sess[s] = "off"
    /\ sess' = [sess EXCEPT ![s] = "backlog"]
    /\ UNCHANGED <<supAll, chanVars, lisVars, snap, conn, semVars>>

(* acquire_owned: the task joins the semaphore's queue ... *)
SessionQueue(s) ==
    /\ Running
    /\ sess[s] = "spawned"
    /\ sess' = [sess EXCEPT ![s] = "queued"]
    /\ Enqueue(s)
    /\ UNCHANGED owed
    /\ UNCHANGED <<supAll, chanVars, lisVars, snap, conn>>

(* ... and is granted a permit when it is at its head. *)
SessionPermit(s) ==
    /\ Running
    /\ sess[s] = "queued"
    /\ AtHead(s)
    /\ Cardinality(Holders) < MaxSessions
    /\ sess' = [sess EXCEPT ![s] = "permit"]
    /\ Leave({s})
    /\ UNCHANGED <<supAll, chanVars, lisVars, snap, conn>>

(* session_handler: peer credentials, user lookup and db_pool.acquire() may   *)
(* fail, the last one always once the pool is closed: the client is sent an   *)
(* error and the session ends.  Otherwise the client is told Ready.           *)
SessionStart(s) ==
    /\ Running
    /\ sess[s] = "permit"
    /\ \/ /\ ~PoolClosed(snap[s])
          /\ sess' = [sess EXCEPT ![s] = "ready"]
          /\ conn' = conn \cup {s}
       \/ /\ sess' = [sess EXCEPT ![s] = "finished"]
          /\ UNCHANGED conn
    /\ UNCHANGED <<supAll, chanVars, lisVars, snap, semVars>>

(* session_handler_with_db_connection: the client sends a request ... *)
ClientRequest(s) ==
    /\ Running
    /\ sess[s] = "ready"
    /\ sess' = [sess EXCEPT ![s] = "handling"]
    /\ UNCHANGED <<supAll, chanVars, lisVars, snap, conn, semVars>>

(* ... which is handled; a failure to send the response ends the session.    *)
SessionHandled(s) ==
    /\ Running
    /\ sess[s] = "handling"
    /\ \/ sess' = [sess EXCEPT ![s] = "ready"]
       \/ sess' = [sess EXCEPT ![s] = "finished"]
    /\ UNCHANGED <<supAll, chanVars, lisVars, snap, conn, semVars>>

(* Exit, disconnection, or a message that does not decode. *)
ClientExit(s) ==
    /\ Running
    /\ sess[s] = "ready"
    /\ sess' = [sess EXCEPT ![s] = "finished"]
    /\ UNCHANGED <<supAll, chanVars, lisVars, snap, conn, semVars>>

(* Dropping a pool connection hands it to a task that returns it. *)
ConnectionReturned(s) ==
    /\ Running
    /\ s \in conn
    /\ ~Serving(s)
    /\ conn' = conn \ {s}
    /\ UNCHANGED <<supAll, chanVars, lisVars, sess, snap, semVars>>

-----------------------------------------------------------------------------
RunLoop ==
    \/ RunResubscribe \/ RunReload \/ RunShutdown \/ AbortReload
    \/ ReloadNotify \/ (\E c \in Configs : ReloadConfig(c)) \/ ReloadPool \/ ReloadCloseOldPool
    \/ ReloadSocket \/ ReloadAcquire \/ ReloadDrained \/ ReloadBind
    \/ ReloadSwapListener \/ ReloadResume \/ ReloadReady
    \/ ShutdownStop \/ ShutdownAcquire \/ ShutdownDrained \/ ShutdownClose
    \/ ShutdownExit

Listener ==
    \/ ListenerNoMessage \/ ListenerLagged \/ ListenerMessage \/ ListenerPaused
    \/ ListenerReadLock \/ ListenerSleep
    \/ \E s \in Sessions : ListenerAccept(s) \/ ListenerReap(s)

Session(s) ==
    SessionQueue(s) \/ SessionPermit(s) \/ SessionStart(s) \/ SessionHandled(s)

Environment ==
    \/ Sighup \/ Sigterm
    \/ \E s \in Sessions : ClientConnect(s) \/ ClientRequest(s) \/ ClientExit(s)

Next ==
    \/ RunLoop \/ RunHealth \/ Listener \/ ListenerHealth \/ Environment
    \/ \E s \in Sessions : Session(s) \/ ConnectionReturned(s)

Spec == Init /\ [][Next]_vars

(* tokio polls every task that was woken; health requests keep arriving      *)
(* when the watchdog is on.  Nothing is assumed of clients, signals or the   *)
(* administrator.                                                            *)
Fairness ==
    /\ WF_vars(RunLoop)
    /\ WF_vars(Listener)
    /\ SF_vars(ListenerHealth)
    /\ \A s \in Sessions : WF_vars(Session(s)) /\ WF_vars(ConnectionReturned(s))

FairSpec == Spec /\ Fairness

-----------------------------------------------------------------------------
TypeOK ==
    /\ config \in Configs /\ prevConfig \in Configs
    /\ denylist \in Denylists
    /\ denyHash \in Denylists \cup {NoHash}
    /\ errors \in SUBSET {"pool", "listener"}
    /\ sd \in {"Ready", "Reloading", "Stopping"}
    /\ sighups \in 0..MaxSighups
    /\ cancelled \in BOOLEAN
    /\ reloadUnread \in 0..2
    /\ sup \in SupPCs
    /\ pool \in Nat /\ poolMysql \in Mysqls
    /\ slot \in {"None", "Stop", "Resume", "Shutdown"}
    /\ unread \in 0..2
    /\ lpc \in {"recv", "rest", "paused", "done"}
    /\ recvBranch \in {"on", "off"} /\ lock \in {"free", "read"}
    /\ listenSock \in Sockets
    /\ sess \in [Sessions -> SessionStates]
    /\ snap \in [Sessions -> Nat]
    /\ conn \in SUBSET Sessions
    /\ waiting \in SUBSET Waiters
    /\ ahead \in [Waiters -> SUBSET Waiters]
    /\ owed \in SUBSET Sessions

-----------------------------------------------------------------------------
(* Safety. *)

(* A session whose permit was granted or asked for before a shutdown asked    *)
(* for all of them (wait_for_existing_connections_to_finish) is served to its *)
(* end: neither the return of the listener task, which aborts the session     *)
(* tasks, nor the exit of the process comes while it still has something to   *)
(* do.  A connection accepted later is not waited for: it can get its permit  *)
(* once the wait is over, and be aborted in the middle of a request.          *)
EarlierSessionsAreNotCutOff ==
    [][\A s \in owed : sess[s] \in {"queued", "permit", "ready", "handling"} =>
           sess'[s] # "gone" /\ sup' # "exited"]_vars

(* Outside a shutdown, and but for the moment in which a reload waits for the *)
(* replaced pool to close, every session being served has a connection of the *)
(* current pool: no reload leaves a session behind on old database settings.  *)
NoServiceOnOldPool ==
    ~cancelled /\ sup # "close_old" =>
        \A s \in Sessions : Serving(s) => snap[s] = pool

(* Although the channel holds one message and older ones are overwritten, a   *)
(* listener with nothing left to read is in the state the last message asked  *)
(* for: no lost Resume leaves it paused, no lost Stop leaves it accepting.    *)
ListenerObeysLastMessage ==
    unread = 0 =>
        /\ slot = "Stop" <=> lpc = "paused"
        /\ slot = "Shutdown" <=> lpc = "done"

(* Once a reload has got past reload_config the denylist in effect is the one *)
(* the stored configuration names, although unchanged content is skipped by   *)
(* comparing it with the hash of an earlier load.                             *)
DenylistIsCurrent ==
    sup \in ReloadPCs \ {"notify", "config"} => denylist = config.deny

(* What run() logs as "Configuration reloaded successfully" should mean that  *)
(* the pool and the socket in use are those of the configuration.             *)
ReloadedConfigIsServed ==
    sup = "ready" /\ errors = {} =>
        poolMysql = config.mysql /\ listenSock = config.sock

-----------------------------------------------------------------------------
(* Liveness, under Fairness.  There are no timeouts on clients, so whoever    *)
(* waits for sessions to finish may wait for a client that never leaves.      *)

SomeoneIsServed == \E s \in Sessions : Serving(s)

(* A shutdown signal ends the process, unless from some point on there is     *)
(* always a client being served.                                              *)
ShutdownCompletes == cancelled ~> (sup = "exited" \/ []SomeoneIsServed)

(* A reload comes to its end, with the same exception.                        *)
ReloadCompletes ==
    (sup \in ReloadPCs) ~> (sup \notin ReloadPCs \/ []SomeoneIsServed)

(* An accepted connection gets its permit (or an error, or is dropped by a    *)
(* shutdown), with the same exception: the supervisor's request for all       *)
(* permits does not starve it.                                                *)
AcceptedIsServed ==
    \A s \in Sessions :
        (sess[s] \in {"spawned", "queued"}) ~>
            (sess[s] \notin {"spawned", "queued"} \/ ~Running \/ []SomeoneIsServed)

=============================================================================
