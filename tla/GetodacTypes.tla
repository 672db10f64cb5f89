--------------------------- MODULE GetodacTypes ----------------------------
(***************************************************************************)
(* Proofs about Getodac for every number of sessions, descriptors, peers   *)
(* and event loops.                                                        *)
(***************************************************************************)
EXTENDS GetodacInv, FiniteSetTheorems, TLAPS

(***************************************************************************)
(* The range of std::atomic_uint32_t is not empty.                         *)
(***************************************************************************)
LEMMA CounterModPositive == CounterMod \in Nat /\ CounterMod > 0
  BY ConstantsAssumption, FS_CardinalityType

(***************************************************************************)
(* Counting sessions up and down stays in the range of the counter.        *)
(***************************************************************************)
LEMMA CountersInRange ==
    ASSUME NEW n \in Int
    PROVE  CountDown(n) \in 0..(CounterMod - 1) /\ CountUp(n) \in 0..(CounterMod - 1)
  BY CounterModPositive DEF CountDown, CountUp

(***************************************************************************)
(* The server starts in a well-typed state.                                *)
(***************************************************************************)
LEMMA InitType == Init => TypeOK /\ AcceptorInv
<1> SUFFICES ASSUME Init PROVE TypeOK /\ AcceptorInv
  OBVIOUS
<1>1. FlagsOK
  BY Zenon DEF Init, FlagsOK
<1>2. ServerOK /\ AcceptOK /\ ObjectsOK /\ RegistryOK /\ LoopsOK /\ KernelOK
  BY ConstantsAssumption, CounterModPositive
     DEF Init, ServerOK, AcceptOK, ObjectsOK, RegistryOK, LoopsOK, KernelOK, EventFdValue
<1>3. AcceptorInv
  BY DEF Init, AcceptorInv, AcceptPhase, QuitPhase
<1> QED  BY <1>1, <1>2, <1>3 DEF TypeOK

(***************************************************************************)
(* The flags keep their type in every step: they are only ever set.        *)
(***************************************************************************)
LEMMA LoopFlags ==
    ASSUME FlagsOK, NEW l \in Loop, LoopStep(l)
    PROVE  FlagsOK'
<1> USE DEF FlagsOK, serverVars, signalVars
<1>1. CASE epoll_wait(l)
  BY <1>1, Zenon DEF epoll_wait
<1>2. CASE EventsProcessed(l) \/ eventfd_read(l) \/ NextIteration(l)
  BY <1>2, Zenon DEF EventsProcessed, eventfd_read, NextIteration
<1>3. CASE ScanDone(l)
  BY <1>3, Zenon DEF ScanDone
<1>4. ASSUME NEW s \in Session, LoopSessionStep(l, s)
      PROVE  FlagsOK'
  BY <1>4, Zenon
     DEF LoopSessionStep, processEvents, wakeup, ScanStep, timeout, NotYet, DeleteBegin, DeleteEnd
<1> QED  BY <1>1, <1>2, <1>3, <1>4 DEF LoopStep

(***************************************************************************)
(* The steps of a loop thread, one group of variables at a time.           *)
(***************************************************************************)
LEMMA LoopServer ==
    ASSUME ServerOK, ObjectsOK, NEW l \in Loop, LoopStep(l)
    PROVE  ServerOK'
<1> USE DEF ServerOK, serverVars
<1>1. ASSUME NEW s \in Session, DeleteEnd(l, s)
      PROVE  ServerOK'
  <2>1. m_connectionsPerIp' = [m_connectionsPerIp EXCEPT ![peer[s]] = @ - 1]
    BY <1>1 DEF DeleteEnd, serverSessionDeleted
  <2>2. m_activeSessions' \subseteq Session
    BY <1>1 DEF DeleteEnd, serverSessionDeleted
  <2>3. \A a \in Ip : m_connectionsPerIp[a] - 1 \in Int
    OBVIOUS
  <2> QED  BY <2>1, <2>2, <2>3
<1>2. CASE epoll_wait(l) \/ EventsProcessed(l) \/ eventfd_read(l) \/ ScanDone(l) \/ NextIteration(l)
  BY <1>2 DEF epoll_wait, EventsProcessed, eventfd_read, ScanDone, NextIteration
<1>3. ASSUME NEW s \in Session, LoopSessionStep(l, s), ~DeleteEnd(l, s)
      PROVE  ServerOK'
  BY <1>3 DEF LoopSessionStep, processEvents, wakeup, ScanStep, timeout, NotYet, DeleteBegin
<1> QED  BY <1>1, <1>2, <1>3 DEF LoopStep

(***************************************************************************)
(* The steps of a loop thread leave the locals of exec alone.              *)
(***************************************************************************)
LEMMA LoopAccept ==
    ASSUME AcceptOK, AcceptorInv, NEW l \in Loop, LoopStep(l)
    PROVE  AcceptOK' /\ AcceptorInv'
<1>1. UNCHANGED acceptVars
  BY DEF LoopStep, LoopSessionStep, epoll_wait, EventsProcessed, eventfd_read, ScanDone, NextIteration,
     processEvents, wakeup, ScanStep, timeout, NotYet, DeleteBegin, DeleteEnd
<1> QED  BY <1>1 DEF acceptVars, AcceptOK, AcceptorInv

(***************************************************************************)
(* The steps of a loop thread and the fields of the session objects.       *)
(***************************************************************************)
LEMMA LoopObjects ==
    ASSUME ObjectsOK, NEW l \in Loop, LoopStep(l)
    PROVE  ObjectsOK'
<1> USE DEF ObjectsOK
<1>1. CASE epoll_wait(l) \/ EventsProcessed(l) \/ eventfd_read(l) \/ ScanDone(l) \/ NextIteration(l)
  BY <1>1 DEF epoll_wait, EventsProcessed, eventfd_read, ScanDone, NextIteration, objectVars
<1>2. ASSUME NEW s \in Session, NEW e \in {"io", "hup"}, processEvents(l, s, e)
      PROVE  ObjectsOK'
  BY <1>2 DEF processEvents, quitIoLoop, Resume, SetsTimeout
<1>3. ASSUME NEW s \in Session, wakeup(l, s)
      PROVE  ObjectsOK'
  BY <1>3 DEF wakeup, Resume, SetsTimeout
<1>4. ASSUME NEW s \in Session, timeout(l, s) \/ NotYet(l, s)
      PROVE  ObjectsOK'
  BY <1>4 DEF timeout, NotYet, ScanStep, quitIoLoop
<1>5. ASSUME NEW s \in Session, DeleteBegin(l, s)
      PROVE  ObjectsOK'
  BY <1>5 DEF DeleteBegin, ServerSessionDtor, quitIoLoop
<1>6. ASSUME NEW s \in Session, DeleteEnd(l, s)
      PROVE  ObjectsOK'
  BY <1>6 DEF DeleteEnd, Free
<1> QED  BY <1>1, <1>2, <1>3, <1>4, <1>5, <1>6 DEF LoopStep, LoopSessionStep

(***************************************************************************)
(* The steps of a loop thread and the sets of sessions.                    *)
(***************************************************************************)
LEMMA LoopRegistry ==
    ASSUME RegistryOK, NEW l \in Loop, LoopStep(l)
    PROVE  RegistryOK'
<1> USE DEF RegistryOK, registryVars
<1>1. ASSUME NEW s \in Session, unregisterSession(l, s)
      PROVE  /\ m_sessions' \in [Loop -> SUBSET Session]
             /\ loopActive' \in [Loop -> 0..(CounterMod - 1)]
             /\ interest' \in [Fd -> Session \cup {Null}]
  BY <1>1, CountersInRange DEF unregisterSession, Erase
<1>2. ASSUME NEW s \in Session, deleteLater(l, s)
      PROVE  RegistryOK'
  BY <1>1, <1>2 DEF deleteLater
<1>3. ASSUME NEW s \in Session, Resume(l, s)
      PROVE  RegistryOK'
  BY <1>2, <1>3 DEF Resume
<1>4. CASE epoll_wait(l) \/ EventsProcessed(l) \/ eventfd_read(l) \/ ScanDone(l) \/ NextIteration(l)
  BY <1>4 DEF epoll_wait, EventsProcessed, eventfd_read, ScanDone, NextIteration
<1>5. ASSUME NEW s \in Session, NEW e \in {"io", "hup"}, processEvents(l, s, e)
      PROVE  RegistryOK'
  BY <1>2, <1>3, <1>5 DEF processEvents
<1>6. ASSUME NEW s \in Session, wakeup(l, s)
      PROVE  RegistryOK'
  BY <1>2, <1>3, <1>6 DEF wakeup
<1>7. ASSUME NEW s \in Session, timeout(l, s) \/ NotYet(l, s)
      PROVE  RegistryOK'
  BY <1>2, <1>7 DEF timeout, NotYet
<1>8. ASSUME NEW s \in Session, DeleteBegin(l, s)
      PROVE  RegistryOK'
  <2>1. loopActive' \in [Loop -> 0..(CounterMod - 1)]
    BY <1>8, CountersInRange DEF DeleteBegin, ServerSessionDtor
  <2> QED  BY <1>8, <2>1 DEF DeleteBegin, ServerSessionDtor, Erase, CloseFd
<1>9. ASSUME NEW s \in Session, DeleteEnd(l, s)
      PROVE  RegistryOK'
  BY <1>9 DEF DeleteEnd
<1> QED  BY <1>4, <1>5, <1>6, <1>7, <1>8, <1>9 DEF LoopStep, LoopSessionStep

(***************************************************************************)
(* The steps of a loop thread and the locals of the loops.                 *)
(***************************************************************************)
LEMMA LoopLoops ==
    ASSUME LoopsOK, RegistryOK, KernelOK, NEW l \in Loop, LoopStep(l)
    PROVE  LoopsOK'
<1> USE DEF LoopsOK
<1>1. CASE epoll_wait(l)
  <2>1. {<<interest[f], ready[f]>> : f \in Reportable(l)} \subseteq Session \X {"io", "hup"}
    <3>1. \A f \in Reportable(l) : interest[f] \in Session /\ ready[f] \in {"io", "hup"}
      BY DEF Reportable, RegistryOK, KernelOK
    <3> QED  BY <3>1
  <2>2. events' \in [Loop -> SUBSET (Session \X {"io", "hup"})]
    BY <1>1, <2>1 DEF epoll_wait
  <2>3. /\ lpc' = [lpc EXCEPT ![l] = "process"] /\ watched' = [watched EXCEPT ![l] = {}]
        /\ UNCHANGED <<woken, todo, cur>>
    BY <1>1 DEF epoll_wait
  <2> QED  BY <2>2, <2>3
<1>2. CASE EventsProcessed(l)
  BY <1>2 DEF EventsProcessed, Snapshot, RegistryOK
<1>3. CASE eventfd_read(l)
  BY <1>3 DEF eventfd_read, Snapshot, WokenBy, RegistryOK
<1>4. CASE ScanDone(l) \/ NextIteration(l)
  BY <1>4 DEF ScanDone, NextIteration
<1>5. ASSUME NEW s \in Session, NEW e \in {"io", "hup"}, processEvents(l, s, e)
      PROVE  LoopsOK'
  BY <1>5 DEF processEvents
<1>6. ASSUME NEW s \in Session, wakeup(l, s)
      PROVE  LoopsOK'
  BY <1>6 DEF wakeup
<1>7. ASSUME NEW s \in Session, timeout(l, s) \/ NotYet(l, s)
      PROVE  LoopsOK'
  BY <1>7 DEF timeout, NotYet, ScanStep
<1>8. ASSUME NEW s \in Session, DeleteBegin(l, s) \/ DeleteEnd(l, s)
      PROVE  LoopsOK'
  BY <1>8 DEF DeleteBegin, DeleteEnd
<1> QED  BY <1>1, <1>2, <1>3, <1>4, <1>5, <1>6, <1>7, <1>8 DEF LoopStep, LoopSessionStep

(***************************************************************************)
(* The steps of a loop thread and the descriptors, the edges and the       *)
(* eventfds.                                                               *)
(***************************************************************************)
LEMMA LoopKernel ==
    ASSUME KernelOK, NEW l \in Loop, LoopStep(l)
    PROVE  KernelOK'
<1> USE DEF KernelOK, kernelVars, signalVars
<1>1. ASSUME NEW s \in Session, HandsOutWakeupper(l, s)
      PROVE  ticket' \in [Session -> SUBSET Loop]
  BY <1>1 DEF HandsOutWakeupper
<1>2. CASE epoll_wait(l) \/ EventsProcessed(l) \/ ScanDone(l) \/ NextIteration(l)
  BY <1>2 DEF epoll_wait, EventsProcessed, ScanDone, NextIteration
<1>3. CASE eventfd_read(l)
  BY <1>3 DEF eventfd_read, EventFdValue
<1>4. ASSUME NEW s \in Session, Resume(l, s)
      PROVE  ticket' \in [Session -> SUBSET Loop] /\ ready' \in [Fd -> {"none", "io", "hup"}]
  BY <1>1, <1>4 DEF Resume, EdgeOfShutdown
<1>5. ASSUME NEW s \in Session, quitIoLoop(l, s)
      PROVE  ticket' \in [Session -> SUBSET Loop]
  BY <1>1, <1>5 DEF quitIoLoop
<1>6. ASSUME NEW s \in Session, NEW e \in {"io", "hup"}, processEvents(l, s, e)
      PROVE  KernelOK'
  BY <1>4, <1>5, <1>6 DEF processEvents
<1>7. ASSUME NEW s \in Session, wakeup(l, s)
      PROVE  KernelOK'
  BY <1>4, <1>7 DEF wakeup
<1>8. ASSUME NEW s \in Session, timeout(l, s) \/ NotYet(l, s)
      PROVE  KernelOK'
  BY <1>5, <1>8 DEF timeout, NotYet, ScanStep
<1>9. ASSUME NEW s \in Session, DeleteBegin(l, s) \/ DeleteEnd(l, s)
      PROVE  KernelOK'
  BY <1>5, <1>9 DEF DeleteBegin, DeleteEnd, ServerSessionDtor, CloseFd
<1> QED  BY <1>2, <1>3, <1>6, <1>7, <1>8, <1>9 DEF LoopStep, LoopSessionStep

-----------------------------------------------------------------------------
(***************************************************************************)
(* The steps of the accept thread.                                         *)
(***************************************************************************)
LEMMA AcceptFlags ==
    ASSUME FlagsOK, AcceptorInv, AcceptStep
    PROVE  FlagsOK'
<1> USE DEF FlagsOK, serverVars, signalVars, loopVars
<1>1. CASE StoreQuit
  BY <1>1, Zenon DEF StoreQuit
<1>2. CASE ~StoreQuit
  BY <1>2, Zenon
     DEF AcceptStep, accept4, LeaveAcceptLoop, LimitConnections, LoadBest, CompareNext,
         NewServerSession, NewServerSessionFails, RegisterInsert, RegisterEpollAdd, RegisterEpollAddFails,
         RegisterCount, WriteQuit, Join, DestroySession, LoopDestroyed, Sweep
<1> QED  BY <1>1, <1>2

(***************************************************************************)
(* The steps of the accept thread and the locals of exec.                  *)
(***************************************************************************)
LEMMA AcceptAccept ==
    ASSUME ServerOK, AcceptOK, RegistryOK, AcceptorInv, AcceptStep
    PROVE  AcceptOK' /\ AcceptorInv'
<1> USE ConstantsAssumption, CounterModPositive
    DEF AcceptOK, AcceptorInv, AcceptPhase, QuitPhase, Loop, acceptVars
<1>1. ASSUME NEW f \in Fd, NEW a \in Ip, accept4(f, a)
      PROVE  AcceptOK' /\ AcceptorInv'
  BY <1>1 DEF accept4
<1>2. CASE LeaveAcceptLoop
  BY <1>2 DEF LeaveAcceptLoop
<1>3. CASE LimitConnections
  BY <1>3 DEF LimitConnections, ForgetConnection, ScanOn, ServerOK
<1>4. CASE LoadBest
  BY <1>4 DEF LoadBest, RegistryOK
<1>5. CASE CompareNext
  BY <1>5 DEF CompareNext, ScanOn
<1>6. ASSUME NEW s \in Session, NewServerSession(s)
      PROVE  AcceptOK' /\ AcceptorInv'
  BY <1>6 DEF NewServerSession
<1>7. ASSUME NEW failure \in FailPoints, NewServerSessionFails(failure)
      PROVE  AcceptOK' /\ AcceptorInv'
  BY <1>7 DEF NewServerSessionFails, ForgetConnection
<1>8. CASE RegisterInsert \/ RegisterEpollAdd
  BY <1>8 DEF RegisterInsert, RegisterEpollAdd
<1>9. CASE RegisterEpollAddFails
  BY <1>9 DEF RegisterEpollAddFails, ForgetConnection
<1>13. CASE RegisterCount
  BY <1>13 DEF RegisterCount, ForgetConnection
<1>10. ASSUME pc \in QuitPhase, pc' \in QuitPhase,
              UNCHANGED <<sock, addr, order, bestLoop, seen, newSession>>, idx' \in Loop
       PROVE  AcceptOK' /\ AcceptorInv'
  BY <1>10
<1>14. CASE StoreQuit
  <2>1. UNCHANGED <<sock, addr, order, bestLoop, idx, seen, newSession>> /\ pc = "store_quit" /\ pc' = "write_quit"
    BY <1>14 DEF StoreQuit
  <2> QED  BY <1>10, <2>1
<1>15. CASE WriteQuit
  <2>1. /\ UNCHANGED <<sock, addr, order, bestLoop, seen, newSession>> /\ pc = "write_quit"
        /\ \/ pc' = "store_quit" /\ idx' = idx + 1 /\ idx < NumLoops
           \/ pc' = "join" /\ idx' = idx
    BY <1>15 DEF WriteQuit
  <2>2. idx \in Loop
    BY <2>1
  <2>3. idx' \in Loop
    BY <2>1, <2>2
  <2> QED  BY <1>10, <2>1, <2>3
<1>16. CASE Join
  <2>1. UNCHANGED <<sock, addr, order, bestLoop, idx, seen, newSession>> /\ pc = "join" /\ pc' = "destroy"
    BY <1>16 DEF Join
  <2> QED  BY <1>10, <2>1
<1>17. CASE LoopDestroyed
  <2>1. /\ UNCHANGED <<sock, addr, order, bestLoop, seen, newSession>> /\ pc = "destroy"
        /\ \/ pc' = "join" /\ idx' = idx - 1 /\ idx > 1
           \/ pc' = "sweep" /\ idx' = 0
    BY <1>17 DEF LoopDestroyed
  <2>2. idx \in Loop
    BY <2>1
  <2>3. CASE pc' = "join"
    <3>1. idx' \in Loop
      BY <2>1, <2>2, <2>3
    <3> QED  BY <1>10, <2>1, <2>3, <3>1
  <2>4. CASE pc' = "sweep"
    BY <2>1, <2>4
  <2> QED  BY <2>1, <2>3, <2>4
<1>11. CASE Sweep
  BY <1>11 DEF Sweep
<1>12. ASSUME NEW s \in Session, DestroySession(s)
      PROVE  AcceptOK' /\ AcceptorInv'
  BY <1>12 DEF DestroySession
<1> QED
  BY <1>1, <1>2, <1>3, <1>4, <1>5, <1>6, <1>7, <1>8, <1>9, <1>11, <1>12, <1>13, <1>14, <1>15, <1>16, <1>17
     DEF AcceptStep

(***************************************************************************)
(* The steps of the accept thread and the accounting of the sessions.      *)
(***************************************************************************)
LEMMA AcceptServer ==
    ASSUME ServerOK, AcceptorInv, AcceptStep
    PROVE  ServerOK'
<1> USE DEF ServerOK, serverVars
<1>1. CASE LimitConnections
  BY <1>1 DEF LimitConnections, AcceptorInv, AcceptPhase
<1>2. ASSUME NEW failure \in FailPoints, NewServerSessionFails(failure)
      PROVE  ServerOK'
  BY <1>2 DEF NewServerSessionFails, ReleasedBy, AcceptorInv, AcceptPhase
<1>3. ASSUME NEW s \in Session, NewServerSession(s)
      PROVE  ServerOK'
  BY <1>3 DEF NewServerSession
<1>4. ASSUME NEW s \in Session, DestroySession(s)
      PROVE  ServerOK'
  <2>1. m_connectionsPerIp' = [m_connectionsPerIp EXCEPT ![peer[s]] = @ - 1]
    BY <1>4 DEF DestroySession, serverSessionDeleted
  <2>2. m_activeSessions' \subseteq Session
    BY <1>4 DEF DestroySession, serverSessionDeleted
  <2>3. \A a \in Ip : m_connectionsPerIp[a] - 1 \in Int
    OBVIOUS
  <2> QED  BY <2>1, <2>2, <2>3
<1>5. CASE Sweep
  BY <1>5 DEF Sweep
<1>6. CASE UNCHANGED <<m_activeSessions, m_connectionsPerIp>>
  BY <1>6
<1> QED
  BY <1>1, <1>2, <1>3, <1>4, <1>5, <1>6
     DEF AcceptStep, accept4, LeaveAcceptLoop, LoadBest, CompareNext, RegisterInsert, RegisterEpollAdd,
         RegisterEpollAddFails, RegisterCount, StoreQuit, WriteQuit, Join, LoopDestroyed

(***************************************************************************)
(* The steps of the accept thread and the fields of the session objects.   *)
(***************************************************************************)
LEMMA AcceptObjects ==
    ASSUME ObjectsOK, AcceptOK, AcceptorInv, AcceptStep
    PROVE  ObjectsOK'
<1> USE DEF ObjectsOK, objectVars
<1>1. ASSUME NEW s \in Session, NewServerSession(s)
      PROVE  ObjectsOK'
  BY <1>1 DEF NewServerSession, AcceptOK, InitialDeadline
<1>2. ASSUME NEW s \in Session, DestroySession(s)
      PROVE  ObjectsOK'
  <2>1. Free(s)
    BY <1>2 DEF DestroySession
  <2> QED  BY <2>1 DEF Free
<1>3. CASE UNCHANGED objectVars
  BY <1>3
<1> QED
  BY <1>1, <1>2, <1>3
     DEF AcceptStep, accept4, LeaveAcceptLoop, LimitConnections, LoadBest, CompareNext, NewServerSessionFails,
         RegisterInsert, RegisterEpollAdd, RegisterEpollAddFails, RegisterCount, StoreQuit, WriteQuit, Join,
         LoopDestroyed, Sweep

(***************************************************************************)
(* The steps of the accept thread and the sets of sessions.                *)
(***************************************************************************)
LEMMA AcceptRegistry ==
    ASSUME RegistryOK, AcceptOK, AcceptorInv, AcceptStep
    PROVE  RegistryOK'
<1> USE DEF RegistryOK, registryVars
<1>1. CASE LimitConnections
  BY <1>1 DEF LimitConnections, CloseFd
<1>2. ASSUME NEW failure \in FailPoints, NewServerSessionFails(failure)
      PROVE  RegistryOK'
  BY <1>2 DEF NewServerSessionFails, CloseFd
<1>3. CASE RegisterInsert
  BY <1>3 DEF RegisterInsert, AcceptorInv
<1>4. CASE RegisterEpollAdd \/ RegisterEpollAddFails
  BY <1>4 DEF RegisterEpollAdd, RegisterEpollAddFails, CloseFd, AcceptOK
<1>5. CASE RegisterCount
  <2>1. bestLoop \in Loop
    BY <1>5 DEF RegisterCount, AcceptorInv
  <2> QED  BY <1>5, <2>1, CountersInRange DEF RegisterCount
<1>6. ASSUME NEW s \in Session, DestroySession(s)
      PROVE  RegistryOK'
  <2>1. idx \in Loop
    BY <1>6 DEF DestroySession, AcceptorInv, QuitPhase
  <2>2. loopActive' \in [Loop -> 0..(CounterMod - 1)]
    <3>1. loopActive' = loopActive \/ loopActive' = [loopActive EXCEPT ![idx] = CountDown(@)]
      BY <1>6 DEF DestroySession, ServerSessionDtor
    <3> QED  BY <2>1, <3>1, CountersInRange
  <2>3. PICK lost \in SUBSET Session : m_deleteLater' = [m_deleteLater EXCEPT ![idx] = @ \cup lost]
    BY <1>6 DEF DestroySession
  <2>4. m_deleteLater' \in [Loop -> SUBSET Session]
    BY <2>1, <2>3
  <2> QED  BY <1>6, <2>1, <2>2, <2>4 DEF DestroySession, ServerSessionDtor, Erase, CloseFd
<1>7. CASE UNCHANGED registryVars
  BY <1>7
<1> QED
  BY <1>1, <1>2, <1>3, <1>4, <1>5, <1>6, <1>7
     DEF AcceptStep, accept4, LeaveAcceptLoop, LoadBest, CompareNext, NewServerSession, StoreQuit, WriteQuit,
         Join, LoopDestroyed, Sweep

(***************************************************************************)
(* The steps of the accept thread and the locals of the loops.             *)
(***************************************************************************)
LEMMA AcceptLoops ==
    ASSUME LoopsOK, AcceptStep
    PROVE  LoopsOK'
<1>1. UNCHANGED loopVars
  BY DEF AcceptStep, accept4, LeaveAcceptLoop, LimitConnections, LoadBest, CompareNext, NewServerSession,
         NewServerSessionFails, RegisterInsert, RegisterEpollAdd, RegisterEpollAddFails, RegisterCount,
         StoreQuit, WriteQuit, Join, DestroySession, LoopDestroyed, Sweep
<1> QED  BY <1>1 DEF LoopsOK, loopVars

(***************************************************************************)
(* The steps of the accept thread and the descriptors, the edges and the   *)
(* eventfds.                                                               *)
(***************************************************************************)
LEMMA AcceptKernel ==
    ASSUME KernelOK, AcceptorInv, AcceptStep
    PROVE  KernelOK'
<1> USE DEF KernelOK, kernelVars, signalVars
<1>1. ASSUME NEW f \in Fd, NEW a \in Ip, accept4(f, a)
      PROVE  KernelOK'
  BY <1>1 DEF accept4
<1>2. CASE LimitConnections
  BY <1>2 DEF LimitConnections, CloseFd
<1>3. ASSUME NEW failure \in FailPoints, NewServerSessionFails(failure)
      PROVE  KernelOK'
  BY <1>3 DEF NewServerSessionFails, CloseFd
<1>4. CASE RegisterEpollAdd \/ RegisterEpollAddFails
  BY <1>4 DEF RegisterEpollAdd, RegisterEpollAddFails, CloseFd, EdgeOfAdd
<1>5. CASE WriteQuit
  BY <1>5 DEF WriteQuit, AfterQuitWrite, EventFdWrite, EventFdValue
<1>6. ASSUME NEW s \in Session, DestroySession(s)
      PROVE  KernelOK'
  <2>1. idx \in Loop
    BY <1>6 DEF DestroySession, AcceptorInv, QuitPhase
  <2>2. ticket' \in [Session -> SUBSET Loop]
    <3>1. ticket' = ticket \/ ticket' = [ticket EXCEPT ![s] = @ \cup {idx}]
      BY <1>6 DEF DestroySession, ServerSessionDtor, quitIoLoop, HandsOutWakeupper
    <3> QED  BY <2>1, <3>1
  <2> QED
    BY <1>6, <2>2 DEF DestroySession, ServerSessionDtor, CloseFd
<1>7. CASE UNCHANGED <<kernelVars, eventFd, ticket>>
  BY <1>7
<1> QED
  BY <1>1, <1>2, <1>3, <1>4, <1>5, <1>6, <1>7
     DEF AcceptStep, LeaveAcceptLoop, LoadBest, CompareNext, NewServerSession, RegisterInsert, RegisterCount,
         StoreQuit, Join, LoopDestroyed, Sweep

-----------------------------------------------------------------------------
(***************************************************************************)
(* The surroundings, stuttering, and all together.                         *)
(***************************************************************************)
LEMMA EnvironmentType ==
    ASSUME TypeOK, AcceptorInv, Environment
    PROVE  TypeOK' /\ AcceptorInv'
<1>1. FlagsOK /\ ServerOK /\ AcceptOK /\ ObjectsOK /\ RegistryOK /\ LoopsOK /\ KernelOK
  BY DEF TypeOK
<1>2. UNCHANGED <<acceptVars, registryVars, m_activeSessions, m_connectionsPerIp>>
  BY DEF Environment, Expire, PeerActs, WorkerWakes, Interrupted, exitSignalHandler, serverVars
<1>3. FlagsOK'
  BY <1>1, Zenon DEF Environment, Expire, PeerActs, WorkerWakes, Interrupted, exitSignalHandler, FlagsOK,
                     serverVars, signalVars, loopVars
<1>4. AcceptOK' /\ AcceptorInv'
  BY <1>1, <1>2 DEF AcceptOK, AcceptorInv, acceptVars
<1>5. ServerOK' /\ RegistryOK'
  BY <1>1, <1>2 DEF ServerOK, RegistryOK, registryVars
<1>6. LoopsOK'
  BY <1>1 DEF Environment, Expire, PeerActs, WorkerWakes, Interrupted, exitSignalHandler, LoopsOK, loopVars
<1>7. ObjectsOK'
  BY <1>1 DEF Environment, Expire, PeerActs, WorkerWakes, Interrupted, exitSignalHandler, ObjectsOK, objectVars
<1>8. KernelOK'
  <2>1. ASSUME NEW f \in Fd, NEW e \in {"io", "hup"}, PeerActs(f, e)
        PROVE  KernelOK'
    BY <1>1, <2>1 DEF PeerActs, KernelOK, signalVars
  <2>2. ASSUME NEW l \in Loop, NEW s \in Session, WorkerWakes(l, s)
        PROVE  KernelOK'
    BY <1>1, <2>2 DEF WorkerWakes, KernelOK, EventFdWrite, EventFdValue, kernelVars
  <2>3. CASE UNCHANGED <<kernelVars, signalVars, ticket>>
    BY <1>1, <2>3 DEF KernelOK, kernelVars, signalVars
  <2> QED  BY <2>1, <2>2, <2>3 DEF Environment, Expire, Interrupted, exitSignalHandler
<1> QED  BY <1>3, <1>4, <1>5, <1>6, <1>7, <1>8 DEF TypeOK

(***************************************************************************)
(* Steps that change nothing.                                              *)
(***************************************************************************)
LEMMA StutterType ==
    ASSUME TypeOK, AcceptorInv, UNCHANGED vars
    PROVE  TypeOK' /\ AcceptorInv'
<1>1. FlagsOK'
  BY Zenon DEF TypeOK, FlagsOK, vars, serverVars, signalVars, loopVars
<1>2. ServerOK' /\ AcceptOK' /\ AcceptorInv'
  BY DEF TypeOK, ServerOK, AcceptOK, AcceptorInv, vars, serverVars, acceptVars
<1>3. ObjectsOK' /\ RegistryOK'
  BY DEF TypeOK, ObjectsOK, RegistryOK, vars, objectVars, registryVars
<1>4. LoopsOK' /\ KernelOK'
  BY DEF TypeOK, LoopsOK, KernelOK, vars, signalVars, loopVars, kernelVars
<1> QED  BY <1>1, <1>2, <1>3, <1>4 DEF TypeOK

(***************************************************************************)
(* Every step keeps the types.                                             *)
(***************************************************************************)
LEMMA NextType ==
    ASSUME TypeOK, AcceptorInv, [Next]_vars
    PROVE  TypeOK' /\ AcceptorInv'
<1>1. CASE AcceptStep
  BY <1>1, AcceptFlags, AcceptServer, AcceptAccept, AcceptObjects, AcceptRegistry, AcceptLoops, AcceptKernel
     DEF TypeOK
<1>2. ASSUME NEW l \in Loop, LoopStep(l)
      PROVE  TypeOK' /\ AcceptorInv'
  BY <1>2, LoopFlags, LoopServer, LoopAccept, LoopObjects, LoopRegistry, LoopLoops, LoopKernel
     DEF TypeOK
<1>3. CASE Environment
  BY <1>3, EnvironmentType
<1>4. CASE UNCHANGED vars
  BY <1>4, StutterType
<1> QED  BY <1>1, <1>2, <1>3, <1>4 DEF Next, Terminated

(***************************************************************************)
(* Every variable keeps its type: in particular the thread counters stay   *)
(* in the range of their 32 bits, and no step of the accept thread uses a  *)
(* loop, a peer or a session it has not chosen.                            *)
(***************************************************************************)
THEOREM TypeCorrect == Spec => []TypeOK
<1>1. Init => TypeOK /\ AcceptorInv
  BY InitType
<1>2. (TypeOK /\ AcceptorInv) /\ [Next]_vars => (TypeOK /\ AcceptorInv)'
  BY NextType
<1> QED  BY <1>1, <1>2, PTL DEF Spec
=============================================================================
