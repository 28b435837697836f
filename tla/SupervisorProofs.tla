--------------------------- MODULE SupervisorProofs ---------------------------
(***************************************************************************)
(* Theorems about the server process, for any number of sessions, permits,  *)
(* configurations and signals.                                             *)
(***************************************************************************)
EXTENDS Supervisor, TLAPS

USE DEF Running, EndReload

(* Types of the constants' parts. *)
LEMMA ConfigTypes ==
    ASSUME NEW c \in Configs
    PROVE  c.mysql \in Mysqls /\ c.sock \in Sockets /\ c.deny \in Denylists
  BY DEF Mysqls, Sockets, Denylists

(* Every step of the server keeps the types (server/supervisor.rs). *)
LEMMA TypeStep == TypeOK /\ [Next]_vars => TypeOK'
  <1> SUFFICES ASSUME TypeOK, [Next]_vars PROVE TypeOK'
    OBVIOUS
  <1> USE BoundsAssumption
          DEF TypeOK, SupPCs, ReloadPCs, ShutdownPCs, SessionStates,
              Waiters, confVars, poolVars, chanVars, lisVars, sessVars, semVars, signals, tasks,
              supAll
  <1>1. CASE RunLoop
    <2>1. CASE RunResubscribe
      BY <2>1 DEF RunResubscribe
    <2>2. CASE RunReload
      BY <2>2 DEF RunReload
    <2>3. CASE RunShutdown
      BY <2>3 DEF RunShutdown
    <2>4. CASE AbortReload
      BY <2>4 DEF AbortReload, Leave
    <2>5. CASE ReloadNotify
      BY <2>5 DEF ReloadNotify
    <2>6. ASSUME NEW c \in Configs, ReloadConfig(c) PROVE TypeOK'
      <3>1. c.deny \in Denylists
        BY ConfigTypes
      <3> QED
        <4>1. CASE UNCHANGED <<config, denylist, denyHash>> /\ EndReload(config)
          BY <2>6, <4>1 DEF ReloadConfig
        <4>2. CASE config' = c /\ LoadDenylist(c) /\ sup' = "pool"
                   /\ UNCHANGED <<prevConfig, errors>>
          BY <2>6, <3>1, <4>2 DEF ReloadConfig, LoadDenylist
        <4>3. CASE config' = c /\ EndReload(c) /\ UNCHANGED <<denylist, denyHash>>
          BY <2>6, <4>3 DEF ReloadConfig
        <4> QED
          BY <2>6, <4>1, <4>2, <4>3 DEF ReloadConfig
    <2>7. CASE ReloadPool
      <3>1. config.mysql \in Mysqls
        BY ConfigTypes
      <3>2. CASE UNCHANGED poolVars
        <4>1. errors' \in SUBSET {"pool", "listener"}
          BY <2>7, <3>2 DEF ReloadPool
        <4>2. sup' \in SupPCs
          BY <2>7, <3>2 DEF ReloadPool
        <4> QED
          BY <2>7, <3>2, <4>1, <4>2 DEF ReloadPool
      <3>3. CASE pool' = pool + 1 /\ poolMysql' = config.mysql /\ sup' = "close_old" /\ UNCHANGED errors
        BY <2>7, <3>1, <3>3 DEF ReloadPool
      <3> QED
        BY <2>7, <3>2, <3>3 DEF ReloadPool
    <2>8. CASE ReloadCloseOldPool
      BY <2>8 DEF ReloadCloseOldPool
    <2>9. CASE ReloadSocket
      BY <2>9 DEF ReloadSocket, Send
    <2>10. CASE ReloadAcquire
      BY <2>10 DEF ReloadAcquire, AcquireAll, Enqueue
    <2>11. CASE ReloadDrained
      BY <2>11 DEF ReloadDrained, AllGranted, Leave
    <2>12. CASE ReloadBind
      <3>1. errors' \in SUBSET {"pool", "listener"} /\ sup' \in SupPCs
        BY <2>12 DEF ReloadBind
      <3> QED
        BY <2>12, <3>1 DEF ReloadBind
    <2>13. CASE ReloadSwapListener
      <3>1. config.sock \in Sockets
        BY ConfigTypes
      <3> QED
        BY <2>13, <3>1 DEF ReloadSwapListener
    <2>14. CASE ReloadResume
      BY <2>14 DEF ReloadResume, Send
    <2>15. CASE ReloadReady
      BY <2>15 DEF ReloadReady
    <2>16. CASE ShutdownStop
      BY <2>16 DEF ShutdownStop, Send
    <2>17. CASE ShutdownAcquire
      BY <2>17 DEF ShutdownAcquire, AcquireAll, Enqueue, Holders
    <2>18. CASE ShutdownDrained
      BY <2>18 DEF ShutdownDrained, AllGranted, Leave
    <2>19. CASE ShutdownClose
      BY <2>19 DEF ShutdownClose, Send
    <2>20. CASE ShutdownExit
      BY <2>20 DEF ShutdownExit
    <2> QED
      BY <1>1, <2>1, <2>2, <2>3, <2>4, <2>5, <2>6, <2>7, <2>8, <2>9, <2>10, <2>11,
         <2>12, <2>13, <2>14, <2>15, <2>16, <2>17, <2>18, <2>19, <2>20 DEF RunLoop
  <1>2. CASE RunHealth
    BY <1>2 DEF RunHealth
  <1>3. CASE Listener
    <2>1. CASE ListenerNoMessage
      BY <2>1 DEF ListenerNoMessage
    <2>2. CASE ListenerLagged
      BY <2>2 DEF ListenerLagged
    <2>3. CASE ListenerMessage
      BY <2>3 DEF ListenerMessage, ListenerReturns, NextIteration, Leave
    <2>4. CASE ListenerPaused
      BY <2>4 DEF ListenerPaused, ListenerReturns, NextIteration, Leave
    <2>5. CASE ListenerReadLock
      BY <2>5 DEF ListenerReadLock
    <2>6. CASE ListenerSleep
      BY <2>6 DEF ListenerSleep
    <2>7. CASE \E s \in Sessions : ListenerAccept(s)
      BY <2>7 DEF ListenerAccept, NextIteration
    <2>8. CASE \E s \in Sessions : ListenerReap(s)
      BY <2>8 DEF ListenerReap, NextIteration
    <2> QED
      BY <1>3, <2>1, <2>2, <2>3, <2>4, <2>5, <2>6, <2>7, <2>8 DEF Listener
  <1>4. CASE ListenerHealth
    BY <1>4 DEF ListenerHealth, NextIteration
  <1>5. CASE Environment
    <2>1. CASE Sighup
      BY <2>1 DEF Sighup
    <2>2. CASE Sigterm
      <3>1. cancelled' \in BOOLEAN
        BY <2>2 DEF Sigterm
      <3>2. UNCHANGED <<sighups, reloadUnread, sup, confVars, sd, poolVars, chanVars, tasks>>
        BY <2>2 DEF Sigterm
      <3> QED
        BY <3>1, <3>2
    <2>3. CASE \E s \in Sessions : ClientConnect(s)
      BY <2>3 DEF ClientConnect
    <2>4. CASE \E s \in Sessions : ClientRequest(s)
      BY <2>4 DEF ClientRequest
    <2>5. CASE \E s \in Sessions : ClientExit(s)
      BY <2>5 DEF ClientExit
    <2> QED
      BY <1>5, <2>1, <2>2, <2>3, <2>4, <2>5 DEF Environment
  <1>6. ASSUME NEW s \in Sessions, Session(s) PROVE TypeOK'
    <2>1. CASE SessionQueue(s)
      BY <2>1 DEF SessionQueue, Enqueue
    <2>2. CASE SessionPermit(s)
      BY <2>2 DEF SessionPermit, Leave
    <2>3. CASE SessionStart(s)
      BY <2>3 DEF SessionStart
    <2>4. CASE SessionHandled(s)
      BY <2>4 DEF SessionHandled
    <2> QED
      BY <1>6, <2>1, <2>2, <2>3, <2>4 DEF Session
  <1>7. CASE \E s \in Sessions : ConnectionReturned(s)
    BY <1>7 DEF ConnectionReturned
  <1>8. CASE UNCHANGED vars
    BY <1>8 DEF vars
  <1> QED
    BY <1>1, <1>2, <1>3, <1>4, <1>5, <1>6, <1>7, <1>8 DEF Next

LEMMA TypeInit == Init => TypeOK
  <1> SUFFICES ASSUME Init PROVE TypeOK
    OBVIOUS
  <1>1. config \in Configs
    BY DEF Init
  <1>2. config.mysql \in Mysqls /\ config.sock \in Sockets /\ config.deny \in Denylists
    BY <1>1, ConfigTypes
  <1>3. cancelled \in BOOLEAN
    BY DEF Init
  <1>4. ahead \in [Waiters -> SUBSET Waiters] /\ waiting \in SUBSET Waiters
    BY DEF Init
  <1> QED
    BY <1>1, <1>2, <1>3, <1>4, BoundsAssumption
       DEF Init, TypeOK, SupPCs, SessionStates

(* The variables of the server process keep their types. *)
THEOREM TypeCorrect == Spec => []TypeOK
  BY TypeInit, TypeStep, PTL DEF Spec

-----------------------------------------------------------------------------
(* The channel: whatever the listener has missed, it obeys the last message. *)

(* The listener converges to the state asked for by the last message sent,   *)
(* although the broadcast channel overwrites messages it has not read        *)
(* (listener_task, stop/resume_receiving_new_connections, shutdown).         *)
THEOREM ListenerObeys == Spec => []ListenerObeysLastMessage
  <1>1. Init => ListenerObeysLastMessage
    BY DEF Init, ListenerObeysLastMessage
  <1>2. TypeOK /\ ListenerObeysLastMessage /\ [Next]_vars => ListenerObeysLastMessage'
    <2> SUFFICES ASSUME TypeOK, ListenerObeysLastMessage, [Next]_vars
                 PROVE  ListenerObeysLastMessage'
      OBVIOUS
    <2> USE DEF TypeOK, ListenerObeysLastMessage, chanVars, tasks, lisVars
    <2>1. CASE RunLoop
      BY <2>1 DEF RunLoop, RunResubscribe, RunReload, RunShutdown, AbortReload, ReloadNotify,
         ReloadConfig, ReloadPool, ReloadCloseOldPool, ReloadSocket, ReloadAcquire,
         ReloadDrained, ReloadBind, ReloadSwapListener, ReloadResume, ReloadReady,
         ShutdownStop, ShutdownAcquire, ShutdownDrained, ShutdownClose, ShutdownExit,
         AcquireAll, AllGranted, Send
    <2>2. CASE RunHealth
      BY <2>2 DEF RunHealth
    <2>3. CASE Listener
      BY <2>3 DEF Listener, ListenerNoMessage, ListenerLagged, ListenerMessage,
         ListenerPaused, ListenerReadLock, ListenerSleep, ListenerAccept, ListenerReap,
         ListenerReturns, NextIteration, AcceptPending
    <2>4. CASE ListenerHealth
      BY <2>4 DEF ListenerHealth, NextIteration, AcceptPending
    <2>5. CASE Environment
      BY <2>5 DEF Environment, Sighup, Sigterm, ClientConnect, ClientRequest, ClientExit
    <2>6. CASE \E s \in Sessions : Session(s) \/ ConnectionReturned(s)
      BY <2>6 DEF Session, SessionQueue, SessionPermit, SessionStart, SessionHandled,
         ConnectionReturned
    <2>7. CASE UNCHANGED vars
      BY <2>7 DEF vars
    <2> QED
      BY <2>1, <2>2, <2>3, <2>4, <2>5, <2>6, <2>7 DEF Next
  <1> QED
    BY <1>1, <1>2, TypeCorrect, PTL DEF Spec

-----------------------------------------------------------------------------
(* The pools.  That closing the replaced pool is enough rests on a served     *)
(* session always having its connection checked out, and on no other old pool *)
(* being in use.                                                              *)

(* No session was given a pool that does not exist yet. *)
SnapshotsExist == \A s \in Sessions : snap[s] <= pool

(* Who is served has a connection. *)
ServedIsCheckedOut == \A s \in Sessions : Serving(s) => s \in conn

(* Before a shutdown only the pool being closed can be in use beside the      *)
(* current one.                                                               *)
AtMostOneOldPool ==
    /\ sup = "close_old" => pool > 0
    /\ ~cancelled =>
          \A s \in Sessions : Serving(s) =>
              snap[s] = pool \/ (sup = "close_old" /\ snap[s] = pool - 1)

PoolInv == SnapshotsExist /\ ServedIsCheckedOut /\ AtMostOneOldPool

LEMMA PoolStep == TypeOK /\ PoolInv /\ [Next]_vars => PoolInv'
  <1> SUFFICES ASSUME TypeOK, PoolInv, [Next]_vars PROVE PoolInv'
    OBVIOUS
  <1> USE DEF PoolInv, SnapshotsExist, ServedIsCheckedOut, AtMostOneOldPool,
              Serving, TypeOK, confVars, poolVars, chanVars,
              lisVars, sessVars, semVars, signals, tasks, supAll
  <1>1. CASE RunLoop
    <2>1. CASE RunResubscribe \/ RunReload \/ RunShutdown \/ AbortReload
      BY <2>1 DEF RunResubscribe, RunReload, RunShutdown, AbortReload, ReloadPCs
    <2>2. CASE ReloadNotify \/ (\E c \in Configs : ReloadConfig(c))
      BY <2>2 DEF ReloadNotify, ReloadConfig
    <2>3. CASE ReloadPool
      BY <2>3 DEF ReloadPool
    <2>4. CASE ReloadCloseOldPool
      BY <2>4 DEF ReloadCloseOldPool, CheckedOut
    <2>5. CASE ReloadSocket \/ ReloadAcquire \/ ReloadDrained \/ ReloadBind
      BY <2>5 DEF ReloadSocket, ReloadAcquire, ReloadDrained, ReloadBind, AcquireAll, AllGranted
    <2>6. CASE ReloadSwapListener
      BY <2>6 DEF ReloadSwapListener
    <2>7. CASE ReloadResume \/ ReloadReady \/ ShutdownStop \/ ShutdownAcquire
      BY <2>7 DEF ReloadResume, ReloadReady, ShutdownStop, ShutdownAcquire, AcquireAll
    <2>8. CASE ShutdownDrained
      BY <2>8 DEF ShutdownDrained, AllGranted, Holders
    <2>9. CASE ShutdownClose
      BY <2>9 DEF ShutdownClose
    <2>10. CASE ShutdownExit
      BY <2>10 DEF ShutdownExit, CheckedOut
    <2> QED
      BY <1>1, <2>1, <2>2, <2>3, <2>4, <2>5, <2>6, <2>7, <2>8, <2>9, <2>10 DEF RunLoop
  <1>2. CASE RunHealth
    BY <1>2 DEF RunHealth
  <1>3. CASE Listener
    <2>1. CASE ListenerNoMessage \/ ListenerLagged \/ ListenerReadLock \/ ListenerSleep
      BY <2>1 DEF ListenerNoMessage, ListenerLagged, ListenerReadLock, ListenerSleep
    <2>2. CASE ListenerMessage \/ ListenerPaused
      BY <2>2 DEF ListenerMessage, ListenerPaused, ListenerReturns
    <2>3. CASE \E s \in Sessions : ListenerAccept(s)
      BY <2>3 DEF ListenerAccept
    <2>4. CASE \E s \in Sessions : ListenerReap(s)
      BY <2>4 DEF ListenerReap
    <2> QED
      BY <1>3, <2>1, <2>2, <2>3, <2>4 DEF Listener
  <1>4. CASE ListenerHealth
    BY <1>4 DEF ListenerHealth
  <1>5. CASE Environment
    BY <1>5 DEF Environment, Sighup, Sigterm, ClientConnect, ClientRequest, ClientExit
  <1>6. ASSUME NEW s \in Sessions, Session(s) PROVE PoolInv'
    <2>1. CASE SessionQueue(s) \/ SessionPermit(s) \/ SessionHandled(s)
      BY <2>1 DEF SessionQueue, SessionPermit, SessionHandled
    <2>2. CASE SessionStart(s)
      BY <2>2 DEF SessionStart, PoolClosed
    <2> QED
      BY <1>6, <2>1, <2>2 DEF Session
  <1>7. CASE \E s \in Sessions : ConnectionReturned(s)
    BY <1>7 DEF ConnectionReturned
  <1>8. CASE UNCHANGED vars
    BY <1>8 DEF vars
  <1> QED
    BY <1>1, <1>2, <1>3, <1>4, <1>5, <1>6, <1>7, <1>8 DEF Next

LEMMA PoolCorrect == Spec => []PoolInv
  <1>1. Init => PoolInv
    BY DEF Init, PoolInv, SnapshotsExist, ServedIsCheckedOut, AtMostOneOldPool, Serving
  <1> QED
    BY <1>1, PoolStep, TypeCorrect, PTL DEF Spec

(* No reload leaves a served session on replaced database settings           *)
(* (restart_db_connection_pool).                                             *)
THEOREM OldPoolsAreLeft == Spec => []NoServiceOnOldPool
  <1>1. PoolInv => NoServiceOnOldPool
    BY DEF PoolInv, AtMostOneOldPool, NoServiceOnOldPool
  <1> QED
    BY <1>1, PoolCorrect, PTL

-----------------------------------------------------------------------------
(* The wait of a shutdown.  It covers who was in the semaphore's queue before *)
(* it, because permits are handed out in order; and the listener is told to   *)
(* return, which aborts the session tasks, only after it.                     *)

Unfinished == {"queued", "permit", "ready", "handling"}
Over       == {"finished", "gone"}

(* shutdown() is past its wait. *)
Drained == {"close", "closing", "exited"}

(* Who asks for a permit is in the queue. *)
QueuedAreWaiting == \A s \in Sessions : sess[s] = "queued" => s \in waiting

(* The listener is told to return only when the wait is over. *)
ShutdownComesLast == slot = "Shutdown" => sup \in {"closing", "exited"}

(* While the shutdown waits, the sessions it owes the wait are ahead of it, and *)
(* afterwards they are over.                                                    *)
OwedAreWaitedFor ==
    /\ owed # {} => sup \in {"stop_drain"} \cup Drained
    /\ \A s \in owed : sess[s] \in Unfinished \cup Over
    /\ sup = "stop_drain" => \A s \in owed : sess[s] = "queued" => s \in ahead[SupWaiter]
    /\ sup \in Drained => \A s \in owed : sess[s] \in Over

WaitInv == QueuedAreWaiting /\ ShutdownComesLast /\ OwedAreWaitedFor

(* No step breaks it, and none ends an owed session that is not over. *)
LEMMA WaitStep ==
    ASSUME TypeOK, WaitInv, [Next]_vars
    PROVE  /\ WaitInv'
           /\ \A s \in owed : sess[s] \in Unfinished => sess'[s] # "gone" /\ sup' # "exited"
  <1> DEFINE Goal == /\ WaitInv'
                     /\ \A s \in owed : sess[s] \in Unfinished => sess'[s] # "gone" /\ sup' # "exited"
  <1> USE BoundsAssumption
          DEF WaitInv, QueuedAreWaiting, ShutdownComesLast, OwedAreWaitedFor, Unfinished, Over, Drained,
              TypeOK, Waiters, confVars, poolVars, chanVars, lisVars, sessVars, semVars, signals,
              tasks, supAll
  <1>1. CASE RunLoop
    <2>1. CASE RunResubscribe \/ RunReload \/ RunShutdown
      BY <2>1 DEF RunResubscribe, RunReload, RunShutdown
    <2>2. CASE AbortReload
      BY <2>2 DEF AbortReload, ReloadPCs, Leave
    <2>3. CASE ReloadNotify \/ (\E c \in Configs : ReloadConfig(c)) \/ ReloadPool \/ ReloadCloseOldPool
      BY <2>3 DEF ReloadNotify, ReloadConfig, ReloadPool, ReloadCloseOldPool
    <2>4. CASE ReloadSocket \/ ReloadResume \/ ShutdownStop \/ ShutdownClose
      BY <2>4 DEF ReloadSocket, ReloadResume, ShutdownStop, ShutdownClose, Send
    <2>5. CASE ReloadAcquire
      BY <2>5 DEF ReloadAcquire, AcquireAll, Enqueue
    <2>6. CASE ReloadDrained
      BY <2>6 DEF ReloadDrained, AllGranted, Leave
    <2>7. CASE ReloadBind \/ ReloadReady
      BY <2>7 DEF ReloadBind, ReloadReady
    <2>8. CASE ReloadSwapListener
      BY <2>8 DEF ReloadSwapListener
    <2>9. CASE ShutdownAcquire
      BY <2>9 DEF ShutdownAcquire, AcquireAll, Enqueue, Holders
    <2>10. CASE ShutdownDrained
      BY <2>10 DEF ShutdownDrained, AllGranted, Leave, Holders, AtHead
    <2>11. CASE ShutdownExit
      BY <2>11 DEF ShutdownExit
    <2> QED
      BY <1>1, <2>1, <2>2, <2>3, <2>4, <2>5, <2>6, <2>7, <2>8, <2>9, <2>10, <2>11 DEF RunLoop
  <1>2. CASE RunHealth
    BY <1>2 DEF RunHealth
  <1>3. CASE Listener
    <2>1. CASE ListenerNoMessage \/ ListenerLagged \/ ListenerReadLock \/ ListenerSleep
      BY <2>1 DEF ListenerNoMessage, ListenerLagged, ListenerReadLock, ListenerSleep
    <2>2. CASE ListenerMessage \/ ListenerPaused
      <3>1. CASE UNCHANGED <<sess, semVars>>
        BY <2>2, <3>1 DEF ListenerMessage, ListenerPaused
      <3>2. CASE slot = "Shutdown" /\ ListenerReturns
        BY <2>2, <3>2 DEF ListenerMessage, ListenerPaused, ListenerReturns, Leave
      <3> QED BY <2>2, <3>1, <3>2 DEF ListenerMessage, ListenerPaused
    <2>3. ASSUME NEW s \in Sessions, ListenerAccept(s) PROVE Goal
      BY <2>3 DEF ListenerAccept
    <2>4. ASSUME NEW s \in Sessions, ListenerReap(s) PROVE Goal
      BY <2>4 DEF ListenerReap
    <2> QED
      BY <1>3, <2>1, <2>2, <2>3, <2>4 DEF Listener
  <1>4. CASE ListenerHealth
    BY <1>4 DEF ListenerHealth
  <1>5. CASE Environment
    BY <1>5 DEF Environment, Sighup, Sigterm, ClientConnect, ClientRequest, ClientExit
  <1>6. ASSUME NEW s \in Sessions, Session(s) PROVE Goal
    <2>1. CASE SessionQueue(s)
      BY <2>1 DEF SessionQueue, Enqueue
    <2>2. CASE SessionPermit(s)
      BY <2>2 DEF SessionPermit, Leave
    <2>3. CASE SessionStart(s) \/ SessionHandled(s)
      BY <2>3 DEF SessionStart, SessionHandled
    <2> QED
      BY <1>6, <2>1, <2>2, <2>3 DEF Session
  <1>7. CASE \E s \in Sessions : ConnectionReturned(s)
    BY <1>7 DEF ConnectionReturned
  <1>8. CASE UNCHANGED vars
    BY <1>8 DEF vars
  <1> QED
    BY <1>1, <1>2, <1>3, <1>4, <1>5, <1>6, <1>7, <1>8 DEF Next

(* A shutdown serves to the end every session that had its permit, or had      *)
(* asked for it, before wait_for_existing_connections_to_finish did, for any   *)
(* number of sessions and permits.                                             *)
THEOREM EarlierSessionsEnd == Spec => EarlierSessionsAreNotCutOff
  <1> DEFINE Kept == \A s \in owed : sess[s] \in {"queued", "permit", "ready", "handling"} =>
                         sess'[s] # "gone" /\ sup' # "exited"
  <1>1. Init => WaitInv
    BY DEF Init, WaitInv, QueuedAreWaiting, ShutdownComesLast, OwedAreWaitedFor, Drained
  <1>2. TypeOK /\ WaitInv /\ [Next]_vars => WaitInv' /\ Kept
    BY WaitStep DEF Unfinished
  <1>3. TypeOK /\ WaitInv /\ [Next]_vars => WaitInv' /\ [Kept]_vars
    BY <1>2
  <1>4. Spec => [][Kept]_vars
    BY <1>1, <1>3, TypeCorrect, PTL DEF Spec
  <1> QED BY <1>4 DEF EarlierSessionsAreNotCutOff

-----------------------------------------------------------------------------
(* The denylist. *)

(* The recorded hash is that of the denylist in effect. *)
HashIsOfDenylist == denyHash \in {NoHash, denylist}

DenylistInv == HashIsOfDenylist /\ DenylistIsCurrent

(* Skipping a denylist file whose hash is unchanged never leaves a stale      *)
(* denylist in effect (reload_config).                                        *)
THEOREM DenylistStaysCurrent == Spec => []DenylistIsCurrent
  <1> USE DEF DenylistInv, HashIsOfDenylist, DenylistIsCurrent, ReloadPCs
  <1>1. Init => DenylistInv
    BY DEF Init
  <1>2. TypeOK /\ DenylistInv /\ [Next]_vars => DenylistInv'
    <2> SUFFICES ASSUME TypeOK, DenylistInv, [Next]_vars PROVE DenylistInv'
      OBVIOUS
    <2> USE DEF confVars, supAll
    <2>1. CASE RunLoop
      <3>1. ASSUME NEW c \in Configs, ReloadConfig(c) PROVE DenylistInv'
        <4>1. c.deny # NoHash
          BY ConfigTypes, ConfigsAssumption
        <4> QED
          BY <3>1, <4>1 DEF ReloadConfig, LoadDenylist
      <3>2. CASE RunResubscribe \/ RunReload \/ RunShutdown \/ AbortReload \/ ReloadNotify
        BY <3>2 DEF RunResubscribe, RunReload, RunShutdown, AbortReload, ReloadNotify
      <3>3. CASE ReloadPool \/ ReloadCloseOldPool \/ ReloadSocket \/ ReloadAcquire
                 \/ ReloadDrained \/ ReloadBind
        BY <3>3 DEF ReloadPool, ReloadCloseOldPool, ReloadSocket, ReloadAcquire,
           ReloadDrained, ReloadBind, AcquireAll, AllGranted
      <3>4. CASE ReloadSwapListener \/ ReloadResume \/ ReloadReady \/ ShutdownStop
                 \/ ShutdownAcquire \/ ShutdownDrained \/ ShutdownClose \/ ShutdownExit
        BY <3>4 DEF ReloadSwapListener, ReloadResume, ReloadReady, ShutdownStop,
           ShutdownAcquire, ShutdownDrained, ShutdownClose, ShutdownExit, AcquireAll,
           AllGranted
      <3> QED
        BY <2>1, <3>1, <3>2, <3>3, <3>4 DEF RunLoop
    <2>2. CASE RunHealth \/ Sighup \/ Sigterm
      BY <2>2 DEF RunHealth, Sighup, Sigterm
    <2>3. CASE UNCHANGED supAll
      BY <2>3
    <2>4. Next => RunLoop \/ RunHealth \/ Sighup \/ Sigterm \/ UNCHANGED supAll
      BY DEF Next, Listener, ListenerNoMessage, ListenerLagged, ListenerMessage,
         ListenerPaused, ListenerReadLock, ListenerSleep, ListenerAccept, ListenerReap,
         ListenerHealth, Environment, ClientConnect, ClientRequest, ClientExit, Session,
         SessionQueue, SessionPermit, SessionStart, SessionHandled, ConnectionReturned
    <2> QED
      BY <2>1, <2>2, <2>3, <2>4 DEF vars
  <1>3. DenylistInv => DenylistIsCurrent
    OBVIOUS
  <1> QED
    BY <1>1, <1>2, <1>3, TypeCorrect, PTL DEF Spec

=============================================================================
