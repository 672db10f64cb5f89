--------------------------- MODULE GetodacTheorems ---------------------------
(***************************************************************************)
(* The safety properties of Getodac as theorems of its specification.      *)
(***************************************************************************)
EXTENDS GetodacSockets

(***************************************************************************)
(* LoopInv depends on these variables alone.                               *)
(***************************************************************************)
LEMMA LoopInvFrame ==
    ASSUME LoopInv, UNCHANGED <<st, owner, m_deleteLater, lpc, events, todo, cur, m_quit, pc>>
    PROVE  LoopInv'
<1> SUFFICES ASSUME NEW k \in Loop PROVE Holds(k)'
  BY DEF LoopInv
<1>1. Holds(k)
  BY DEF LoopInv
<1>2. st' = st /\ owner' = owner /\ m_deleteLater' = m_deleteLater /\ lpc' = lpc /\ events' = events
      /\ todo' = todo /\ cur' = cur /\ m_quit' = m_quit /\ pc' = pc
  OBVIOUS
<1>3. m_quit'[k] => pc' \notin AcceptPhase
  BY <1>1, <1>2, Zenon DEF Holds
<1>4. lpc'[k] = "exited" => m_quit'[k]
  BY <1>1, <1>2, Zenon DEF Holds
<1> QED  BY <1>1, <1>2, <1>3, <1>4 DEF Holds, Live

(***************************************************************************)
(* What the peers, the worker threads, the clock and the signals do keeps  *)
(* the invariant.                                                          *)
(***************************************************************************)
LEMMA EnvironmentInv ==
    ASSUME IInv, TypeOK', AcceptorInv', Environment
    PROVE  IInv'
<1> USE DEF IInv, TypeOK, Live
<1>1. ASSUME UNCHANGED <<st, owner, fd, peer, pc, m_activeSessions>>
      PROVE  ObjectInv'
  BY <1>1 DEF ObjectInv
<1>2. ASSUME UNCHANGED <<st, owner, io, m_sessions, m_deleteLater, lpc, cur, newSession, pc>>
      PROVE  RegistryInv'
  BY <1>2 DEF RegistryInv, Placed
<1>3. ASSUME UNCHANGED <<st, owner, m_deleteLater, lpc, events, todo, cur, m_quit, pc>>
      PROVE  LoopInv'
  BY <1>3, LoopInvFrame
<1>4. ASSUME UNCHANGED <<st, owner, fd, openFds, interest, m_sessions, sock, newSession, pc>>
      PROVE  SocketInv'
  BY <1>4 DEF SocketInv
<1>5. ASSUME UNCHANGED <<st, owner, fd, io, bestLoop, newSession, sock, pc, interest, events, todo, m_sessions>>,
             pc \in {"insert", "epoll_add"} => dl'[newSession] = dl[newSession],
             \A s \in Session : Outstanding(s)' => Outstanding(s)
      PROVE  RegistrationInv'
  BY <1>5 DEF RegistrationInv
<1>6. ASSUME UNCHANGED <<lpc, m_sessions, pc, idx>>
      PROVE  ShutdownInv'
  BY <1>6 DEF ShutdownInv, DestroyedLoops
<1> USE DEF serverVars, acceptVars, objectVars, registryVars, signalVars, loopVars, kernelVars
<1>7. ASSUME NEW s \in Session, Expire(s)
      PROVE  IInv'
  <2>1. pc \in {"insert", "epoll_add"} => dl'[newSession] = dl[newSession]
    BY <1>7 DEF Expire, Registering, AcceptorInv, ObjectsOK
  <2>2. \A r \in Session : Outstanding(r)' => Outstanding(r)
    BY <1>7 DEF Expire, Outstanding
  <2> QED  BY <1>1, <1>2, <1>3, <1>4, <1>5, <1>6, <1>7, <2>1, <2>2 DEF Expire
<1>8. ASSUME NEW f \in Fd, NEW e \in {"io", "hup"}, PeerActs(f, e)
      PROVE  IInv'
  <2>1. \A r \in Session : Outstanding(r)' => Outstanding(r)
    BY <1>8 DEF PeerActs, Outstanding
  <2> QED  BY <1>1, <1>2, <1>3, <1>4, <1>5, <1>6, <1>8, <2>1 DEF PeerActs
<1>9. ASSUME NEW l \in Loop, NEW s \in Session, WorkerWakes(l, s)
      PROVE  IInv'
  <2>1. \A r \in Session : Outstanding(r)' => Outstanding(r)
    BY <1>9, ConstantsAssumption DEF WorkerWakes, Outstanding, EventFdWrite, KernelOK
  <2> QED  BY <1>1, <1>2, <1>3, <1>4, <1>5, <1>6, <1>9, <2>1 DEF WorkerWakes
<1>10. CASE exitSignalHandler
  <2>1. \A r \in Session : Outstanding(r)' => Outstanding(r)
    BY <1>10 DEF exitSignalHandler, Outstanding
  <2> QED  BY <1>1, <1>2, <1>3, <1>4, <1>5, <1>6, <1>10, <2>1 DEF exitSignalHandler
<1>11. ASSUME NEW l \in Loop, Interrupted(l)
       PROVE  IInv'
  <2>1. \A r \in Session : Outstanding(r)' => Outstanding(r)
    BY <1>11 DEF Interrupted, Outstanding
  <2>2. lpc[l] = "wait" /\ m_deleteLater[l] = {} /\ events[l] = {} /\ todo[l] = {}
    BY <1>11 DEF Interrupted, LoopInv, Holds
  <2>3. \A k \in Loop : lpc'[k] = IF k = l THEN "exited" ELSE lpc[k]
    BY <1>11 DEF Interrupted, LoopsOK
  <2>4. RegistryInv'
    BY <1>11, <2>2, <2>3 DEF Interrupted, RegistryInv, Placed, ObjectInv
  <2>5. LoopInv'
    <3> SUFFICES ASSUME NEW k \in Loop PROVE Holds(k)'
      BY DEF LoopInv
    <3>1. Holds(k)
      BY DEF LoopInv
    <3>2. m_quit'[k] => pc' \notin AcceptPhase
      BY <1>11, <3>1, Zenon DEF Interrupted, Holds
    <3>3. lpc'[k] = "exited" => m_quit'[k]
      BY <1>11, <2>3, <3>1 DEF Interrupted, Holds
    <3>5. UNCHANGED <<st, owner, m_deleteLater, events, todo, cur>>
      BY <1>11 DEF Interrupted
    <3> HIDE DEF IInv, TypeOK
    <3> QED  BY <2>2, <2>3, <3>1, <3>2, <3>3, <3>5 DEF Holds
  <2>6. ShutdownInv'
    BY <1>11, <2>3 DEF Interrupted, ShutdownInv, DestroyedLoops
  <2> QED  BY <1>1, <1>4, <1>5, <1>11, <2>1, <2>4, <2>5, <2>6 DEF Interrupted
<1> QED  BY <1>7, <1>8, <1>9, <1>10, <1>11 DEF Environment

(***************************************************************************)
(* Every step keeps the invariant.                                         *)
(***************************************************************************)
LEMMA NextInv ==
    ASSUME TidySetup, IInv, [Next]_vars
    PROVE  IInv'
<1>1. TypeOK' /\ AcceptorInv'
  BY NextType DEF IInv
<1>2. CASE AcceptStep
  BY <1>1, <1>2, AcceptObjectInv, AcceptRegistryInv, AcceptLoopInv, AcceptSocketInv, AcceptRegistrationInv,
     AcceptShutdownInv DEF IInv
<1>3. ASSUME NEW l \in Loop, LoopStep(l)
      PROVE  IInv'
  BY <1>1, <1>3, LoopObjectInv, LoopRegistryInv, LoopLoopInv, LoopSocketInv, LoopRegistrationInv,
     LoopShutdownInv DEF IInv
<1>4. CASE Environment
  BY <1>1, <1>4, EnvironmentInv
<1>5. CASE UNCHANGED vars
  <2> USE <1>5 DEF vars, serverVars, acceptVars, objectVars, registryVars, signalVars, loopVars, kernelVars, IInv
  <2>1. ObjectInv' /\ RegistryInv'
    <3>1. ObjectInv'
      BY DEF ObjectInv
    <3>2. RegistryInv'
      BY DEF RegistryInv, Placed, Live
    <3> QED  BY <3>1, <3>2
  <2>2. LoopInv'
    BY LoopInvFrame
  <2>3. SocketInv' /\ ShutdownInv'
    BY DEF SocketInv, ShutdownInv, DestroyedLoops
  <2>4. RegistrationInv'
    BY DEF RegistrationInv, Outstanding, Live
  <2> QED  BY <1>1, <2>1, <2>2, <2>3, <2>4
<1> QED  BY <1>2, <1>3, <1>4, <1>5 DEF Next, Terminated

(***************************************************************************)
(* The server starts without sessions, its loops at the top of loop().     *)
(***************************************************************************)
LEMMA InitInv == Init => IInv
<1> SUFFICES ASSUME Init PROVE IInv
  OBVIOUS
<1> USE DEF Init
<1>1. TypeOK /\ AcceptorInv
  BY InitType
<1>2. ObjectInv /\ RegistryInv
  BY DEF ObjectInv, RegistryInv, Placed
<1>3. LoopInv
  BY DEF LoopInv, Holds
<1>4. SocketInv /\ RegistrationInv /\ ShutdownInv
  BY DEF SocketInv, RegistrationInv, ShutdownInv, DestroyedLoops
<1> QED  BY <1>1, <1>2, <1>3, <1>4 DEF IInv

(***************************************************************************)
(* IInv holds in every reachable state, for any number of sessions,        *)
(* descriptors, peers and loops, when no Wakeupper outlives its session's  *)
(* address and EPOLL_CTL_ADD does not fail.                                *)
(***************************************************************************)
THEOREM Invariance == ASSUME TidySetup PROVE Spec => []IInv
<1>1. Init => IInv
  BY InitInv
<1>2. IInv /\ [Next]_vars => IInv'
  BY NextInv
<1> QED  BY <1>1, <1>2, PTL DEF Spec

-----------------------------------------------------------------------------
(***************************************************************************)
(* No loop thread uses a deleted object: see LoopPointersLive              *)
(* (sessionseventloop.cpp:239-307).                                        *)
(***************************************************************************)
THEOREM NoDanglingPointers == ASSUME TidySetup PROVE Spec => []LoopPointersLive
<1>1. IInv => LoopPointersLive
  <2> SUFFICES ASSUME IInv, NEW l \in Loop, lpc[l] # "exited"
               PROVE  /\ \A e \in events[l] : Live(l, e[1])
                      /\ \A s \in todo[l] \cup m_deleteLater[l] : Live(l, s)
                      /\ lpc[l] = "expiry" => Live(l, cur[l])
    BY DEF LoopPointersLive
  <2>1. Holds(l)
    BY DEF IInv, LoopInv
  <2>2. \A s \in m_deleteLater[l] : Live(l, s)
    BY DEF IInv, RegistryInv, Placed, TypeOK, RegistryOK
  <2> QED  BY <2>1, <2>2 DEF Holds
<1> QED  BY <1>1, Invariance, PTL

(***************************************************************************)
(* The coroutine of a postponed session has ended, so that deleting it     *)
(* never re-enters m_deleteLaterMutex (sessionseventloop.cpp:303-307).     *)
(***************************************************************************)
THEOREM NoSelfDeadlock == ASSUME TidySetup PROVE Spec => []PostponedHaveEnded
<1>1. IInv => PostponedHaveEnded
  BY DEF IInv, LoopInv, Holds, RegistryInv, Placed, TypeOK, RegistryOK, PostponedHaveEnded
<1> QED  BY <1>1, Invariance, PTL

(***************************************************************************)
(* Every session owns its open socket alone (serversession.h:117-124).     *)
(***************************************************************************)
THEOREM SocketOwnership == ASSUME TidySetup PROVE Spec => []SocketOwned
<1>1. IInv => SocketOwned
  BY DEF IInv, SocketInv, SocketOwned
<1> QED  BY <1>1, Invariance, PTL

(***************************************************************************)
(* The session being registered survives until epoll knows it              *)
(* (sessionseventloop.cpp:116-126).                                        *)
(***************************************************************************)
THEOREM RegistrationSafe == ASSUME TidySetup PROVE Spec => []RegisteredSessionAlive
<1>1. IInv => RegisteredSessionAlive
  BY DEF IInv, RegistrationInv, RegisteredSessionAlive, Live
<1> QED  BY <1>1, Invariance, PTL

(***************************************************************************)
(* m_sessions and the epoll interest lists agree                           *)
(* (sessionseventloop.cpp:116-129, 154-167).                               *)
(***************************************************************************)
THEOREM RegistryAgreement == ASSUME TidySetup PROVE Spec => []PollingMatchesRegistry
<1>1. IInv => PollingMatchesRegistry
  BY DEF IInv, SocketInv, PollingMatchesRegistry
<1> QED  BY <1>1, Invariance, PTL

(***************************************************************************)
(* A wakeup reaches only sessions whose coroutine has started              *)
(* (sessionseventloop.cpp:271-301, serversession.h:170-184).               *)
(***************************************************************************)
THEOREM WakeupsAfterStart == ASSUME TidySetup PROVE Spec => []WakeupReachesYielded
<1>1. IInv => WakeupReachesYielded
  <2> SUFFICES ASSUME IInv, NEW l \in Loop, NEW s \in todo[l], s \in woken[l]
               PROVE  io[s] # "fresh"
    BY DEF WakeupReachesYielded
  <2>1. s \in Session /\ st[s] = "live"
    BY DEF IInv, LoopInv, Holds, Live, TypeOK, LoopsOK
  <2> QED  BY <2>1 DEF IInv, RegistrationInv, Outstanding
<1> QED  BY <1>1, Invariance, PTL

(***************************************************************************)
(* When the loops are gone no session is left (server.cpp:574-576).        *)
(***************************************************************************)
THEOREM CleanShutdown == ASSUME TidySetup PROVE Spec => []NothingLeftToSweep
<1>1. IInv => NothingLeftToSweep
  <2> SUFFICES ASSUME IInv, pc = "sweep"
               PROVE  m_activeSessions = {} /\ \A s \in Session : st[s] = "free"
    BY DEF NothingLeftToSweep
  <2>1. \A l \in Loop : lpc[l] = "exited" /\ m_sessions[l] = {}
    BY DEF IInv, ShutdownInv, DestroyedLoops
  <2>2. ASSUME NEW s \in Session
        PROVE  st[s] = "free"
    <3>1. st[s] # "free" => owner[s] \in Loop
      BY DEF IInv, ObjectInv
    <3>2. st[s] \in {"free", "live", "closed"}
      BY DEF IInv, TypeOK, ObjectsOK
    <3> QED  BY <2>1, <3>1, <3>2 DEF IInv, RegistryInv, Placed
  <2> QED  BY <2>2 DEF IInv, ObjectInv, TypeOK, ServerOK
<1> QED  BY <1>1, Invariance, PTL

-----------------------------------------------------------------------------
(***************************************************************************)
(* A peer never has more than max_connections_per_ip + 1 connections,      *)
(* whatever fails and whatever is reused: the test and the increment are   *)
(* one critical section and only deletions count down                      *)
(* (server.cpp:529-536, 594-609).                                          *)
(***************************************************************************)
THEOREM ConnectionLimit == Spec => []ConnectionsBounded
<1> DEFINE Bound == ConnectionsBounded /\ order <= MaxConnectionsPerIp
<1> USE ConstantsAssumption
<1>1. Init => Bound
  BY DEF Init, ConnectionsBounded
<1>2. TypeOK /\ AcceptorInv /\ Bound /\ [Next]_vars => Bound'
  <2> SUFFICES ASSUME TypeOK, AcceptorInv, Bound, [Next]_vars
               PROVE  Bound'
    OBVIOUS
  <2>0. MaxConnectionsPerIp \in Nat /\ order \in Int
        /\ \A a \in Ip : m_connectionsPerIp[a] \in Int
    BY DEF TypeOK, AcceptOK, ServerOK
  <2>1. CASE UNCHANGED <<m_connectionsPerIp, ord>> /\ order' \in {order, 0}
    BY <2>0, <2>1 DEF ConnectionsBounded
  <2>2. CASE LimitConnections
    <3>1. addr \in Ip
      BY <2>2 DEF LimitConnections, AcceptorInv, AcceptPhase
    <3> QED
      BY <2>0, <2>1, <2>2, <3>1
         DEF LimitConnections, TooManyConnections, ForgetConnection, ConnectionsBounded, TypeOK, ServerOK, objectVars
  <2>3. ASSUME NEW s \in Session, NewServerSession(s)
        PROVE  Bound'
    BY <2>0, <2>3 DEF NewServerSession, ConnectionsBounded, TypeOK, ObjectsOK
  <2>4. ASSUME NEW failure \in FailPoints, NewServerSessionFails(failure)
        PROVE  Bound'
    BY <2>0, <2>4
       DEF NewServerSessionFails, ReleasedBy, ForgetConnection, ConnectionsBounded, TypeOK, ServerOK, objectVars
  <2>5. ASSUME NEW s \in Session, serverSessionDeleted(s), Free(s), UNCHANGED order
        PROVE  Bound'
    BY <2>0, <2>5 DEF serverSessionDeleted, Free, ConnectionsBounded, TypeOK, ServerOK, ObjectsOK
  <2>6. CASE AcceptStep
    BY <2>1, <2>2, <2>3, <2>4, <2>5, <2>6
       DEF AcceptStep, accept4, LeaveAcceptLoop, LoadBest, CompareNext, RegisterInsert, RegisterEpollAdd,
           RegisterEpollAddFails, RegisterCount, ForgetConnection, StoreQuit, WriteQuit, Join, DestroySession,
           LoopDestroyed, Sweep, serverVars, objectVars, acceptVars
  <2>7. ASSUME NEW l \in Loop, LoopStep(l)
        PROVE  Bound'
    <3>1. ASSUME NEW s \in Session, DeleteEnd(l, s)
          PROVE  Bound'
      BY <2>5, <3>1 DEF DeleteEnd, acceptVars
    <3> QED
      BY <2>1, <2>7, <3>1
         DEF LoopStep, LoopSessionStep, epoll_wait, EventsProcessed, eventfd_read, ScanDone, NextIteration,
             processEvents, wakeup, timeout, NotYet, ScanStep, DeleteBegin, serverVars, objectVars, acceptVars
  <2>8. CASE Environment
    BY <2>1, <2>8
       DEF Environment, Expire, PeerActs, WorkerWakes, Interrupted, exitSignalHandler, serverVars, objectVars, acceptVars
  <2>9. CASE UNCHANGED vars
    BY <2>1, <2>9 DEF vars, serverVars, objectVars, acceptVars
  <2> QED  BY <2>6, <2>7, <2>8, <2>9 DEF Next, Terminated
<1>3. Init => TypeOK /\ AcceptorInv
  BY InitType
<1>4. TypeOK /\ AcceptorInv /\ [Next]_vars => TypeOK' /\ AcceptorInv'
  BY NextType
<1>5. Bound => ConnectionsBounded
  OBVIOUS
<1> HIDE DEF Bound
<1> QED  BY <1>1, <1>2, <1>3, <1>4, <1>5, PTL DEF Spec
=============================================================================
