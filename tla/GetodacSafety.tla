---------------------------- MODULE GetodacSafety ----------------------------
(***************************************************************************)
(* IInv is an inductive invariant of Getodac, for every number of          *)
(* sessions, descriptors, peers and event loops, and implies its safety    *)
(* properties.                                                             *)
(***************************************************************************)
EXTENDS GetodacTypes

(***************************************************************************)
(* What a loop thread does to the registries when it runs session s: the   *)
(* coroutine yields or ends and s stays registered, or s is postponed.     *)
(***************************************************************************)
Runs(l, s) ==
    /\ io[s] # "done"
    /\ io' \in {[io EXCEPT ![s] = "suspended"], [io EXCEPT ![s] = "done"]}
    /\ UNCHANGED <<m_sessions, m_deleteLater, interest>>

Postpones(l, s) ==
    /\ io' = [io EXCEPT ![s] = "done"]
    /\ m_sessions' = [m_sessions EXCEPT ![l] = @ \ {s}]
    /\ m_deleteLater' = [m_deleteLater EXCEPT ![l] = @ \cup {s}]
    /\ interest' = [f \in Fd |-> IF interest[f] = s THEN Null ELSE interest[f]]

BeingRegistered(s) == pc \in {"insert", "epoll_add"} /\ newSession = s

Handles(l, s) ==
    \/ \E e \in {"io", "hup"} : processEvents(l, s, e)
    \/ wakeup(l, s)
    \/ timeout(l, s)

(***************************************************************************)
(* A loop only ever runs a live session of its own that epoll knows.       *)
(***************************************************************************)
LEMMA HandledIsLive ==
    ASSUME IInv, NEW l \in Loop, NEW s \in Session, Handles(l, s)
    PROVE  Live(l, s) /\ ~BeingRegistered(s) /\ lpc[l] \in {"process", "scan", "expiry"}
<1> USE DEF IInv, BeingRegistered
<1>1. ASSUME NEW e \in {"io", "hup"}, processEvents(l, s, e)
      PROVE  Live(l, s) /\ ~BeingRegistered(s) /\ lpc[l] = "process"
  <2>1. <<s, e>> \in events[l] /\ lpc[l] = "process"
    BY <1>1 DEF processEvents
  <2>2. Live(l, <<s, e>>[1])
    BY <2>1, Zenon DEF LoopInv, Holds
  <2>3. pc \in {"insert", "epoll_add"} => <<s, e>>[1] # newSession
    BY <2>1, Zenon DEF RegistrationInv
  <2> QED  BY <2>1, <2>2, <2>3
<1>2. CASE wakeup(l, s)
  <2>1. lpc[l] = "scan" /\ s \in todo[l] /\ s \in woken[l]
    BY <1>2 DEF wakeup
  <2>2. Live(l, s) /\ Outstanding(s)
    BY <2>1 DEF LoopInv, Holds, Outstanding
  <2> QED  BY <2>1, <2>2 DEF RegistrationInv, Live
<1>3. CASE timeout(l, s)
  <2>1. lpc[l] \in {"scan", "expiry"} /\ s \in todo[l] /\ dl[s] = "expired"
    BY <1>3 DEF timeout, ScanStep, Scanned, LoopInv, Holds
  <2> QED  BY <2>1 DEF LoopInv, Holds, RegistrationInv
<1> QED  BY <1>1, <1>2, <1>3 DEF Handles

(***************************************************************************)
(* unregisterSession does not fail for such a session, so that afterwards  *)
(* epoll does not know it any more.                                        *)
(***************************************************************************)
LEMMA DeleteLaterPostpones ==
    ASSUME IInv, NEW l \in Loop, NEW s \in Session, Live(l, s), ~BeingRegistered(s), deleteLater(l, s)
    PROVE  /\ m_sessions' = [m_sessions EXCEPT ![l] = @ \ {s}]
           /\ m_deleteLater' = [m_deleteLater EXCEPT ![l] = @ \cup {s}]
           /\ interest' = [f \in Fd |-> IF interest[f] = s THEN Null ELSE interest[f]]
<1> USE DEF IInv
<1>1. \A f \in Fd : interest[f] = s => f = fd[s] /\ s \in m_sessions[l]
  BY ConstantsAssumption DEF SocketInv, Live
<1>2. fd[s] \in Fd
  BY DEF ObjectInv, Live
<1>3. CASE s \in m_sessions[l]
  <2>1. interest[fd[s]] = s
    BY <1>3 DEF SocketInv, BeingRegistered
  <2>2. Unregisters(l, s)
    BY <1>2, <1>3, <2>1, ConstantsAssumption DEF Unregisters, EpollDelSucceeds, Live
  <2>3. interest' = [interest EXCEPT ![fd[s]] = Null]
    BY <2>2 DEF deleteLater, unregisterSession
  <2>4. interest' = [f \in Fd |-> IF interest[f] = s THEN Null ELSE interest[f]]
    BY <1>1, <2>1, <2>3, <1>2 DEF TypeOK, RegistryOK
  <2> QED  BY <2>4 DEF deleteLater, unregisterSession, Erase
<1>4. CASE s \notin m_sessions[l]
  <2>1. interest' = interest
    BY <1>4 DEF deleteLater, unregisterSession, Unregisters
  <2>2. interest' = [f \in Fd |-> IF interest[f] = s THEN Null ELSE interest[f]]
    BY <1>1, <1>4, <2>1 DEF TypeOK, RegistryOK
  <2> QED  BY <2>2 DEF deleteLater, unregisterSession, Erase
<1> QED  BY <1>3, <1>4

(***************************************************************************)
(* What handling a session comes to: its coroutine runs and is suspended   *)
(* again, or the session is postponed.                                     *)
(***************************************************************************)
LEMMA HandledRunsOrPostpones ==
    ASSUME IInv, NEW l \in Loop, NEW s \in Session, Handles(l, s)
    PROVE  Runs(l, s) \/ Postpones(l, s)
<1>1. Live(l, s) /\ ~BeingRegistered(s)
  BY HandledIsLive
<1>2. ASSUME deleteLater(l, s), io' = [io EXCEPT ![s] = "done"]
      PROVE  Postpones(l, s)
  BY <1>1, <1>2, DeleteLaterPostpones DEF Postpones
<1>3. ASSUME Resume(l, s), io[s] # "done"
      PROVE  Runs(l, s) \/ Postpones(l, s)
  BY <1>2, <1>3 DEF Resume, Runs, registryVars
<1>4. ASSUME io[s] = "done"
      PROVE  io = [io EXCEPT ![s] = "done"]
  BY <1>4 DEF IInv, TypeOK, ObjectsOK
<1>5. ASSUME NEW e \in {"io", "hup"}, processEvents(l, s, e)
      PROVE  Runs(l, s) \/ Postpones(l, s)
  BY <1>2, <1>3, <1>4, <1>5 DEF processEvents, quitIoLoop
<1>6. CASE wakeup(l, s)
  BY <1>2, <1>3, <1>4, <1>6 DEF wakeup
<1>7. CASE timeout(l, s)
  BY <1>2, <1>7 DEF timeout, quitIoLoop
<1> QED  BY <1>5, <1>6, <1>7 DEF Handles

(***************************************************************************)
(* A loop thread touches no other loop's locals.                           *)
(***************************************************************************)
LEMMA LoopLocals ==
    ASSUME TypeOK, NEW l \in Loop, LoopStep(l), NEW k \in Loop, k # l
    PROVE  lpc'[k] = lpc[k] /\ cur'[k] = cur[k] /\ events'[k] = events[k] /\ todo'[k] = todo[k]
<1> USE DEF TypeOK, LoopsOK
<1>1. CASE epoll_wait(l) \/ ScanDone(l) \/ NextIteration(l)
  BY <1>1 DEF epoll_wait, ScanDone, NextIteration
<1>2. CASE EventsProcessed(l) \/ eventfd_read(l)
  BY <1>2 DEF EventsProcessed, eventfd_read, Snapshot
<1>3. ASSUME NEW s \in Session, Handles(l, s)
      PROVE  lpc'[k] = lpc[k] /\ cur'[k] = cur[k] /\ events'[k] = events[k] /\ todo'[k] = todo[k]
  <2>1. ASSUME NEW e \in {"io", "hup"}, processEvents(l, s, e)
        PROVE  lpc'[k] = lpc[k] /\ cur'[k] = cur[k] /\ events'[k] = events[k] /\ todo'[k] = todo[k]
    BY <2>1 DEF processEvents
  <2>2. CASE wakeup(l, s)
    BY <2>2 DEF wakeup
  <2>3. CASE timeout(l, s)
    BY <2>3 DEF timeout, ScanStep
  <2> QED  BY <1>3, <2>1, <2>2, <2>3 DEF Handles
<1>4. ASSUME NEW s \in Session, NotYet(l, s) \/ DeleteBegin(l, s) \/ DeleteEnd(l, s)
      PROVE  lpc'[k] = lpc[k] /\ cur'[k] = cur[k] /\ events'[k] = events[k] /\ todo'[k] = todo[k]
  BY <1>4 DEF NotYet, ScanStep, DeleteBegin, DeleteEnd
<1> QED  BY <1>1, <1>2, <1>3, <1>4 DEF LoopStep, LoopSessionStep, Handles

-----------------------------------------------------------------------------
(***************************************************************************)
(* m_activeSessions follows the construction and destruction of objects.   *)
(***************************************************************************)
LEMMA AcceptObjectInv ==
    ASSUME IInv, AcceptStep
    PROVE  ObjectInv'
<1> USE DEF IInv, ObjectInv, TypeOK, ObjectsOK
<1>1. ASSUME NEW s \in Session, NewServerSession(s)
      PROVE  ObjectInv'
  <2>1. pc = "new" /\ sock \in Fd /\ addr \in Ip /\ bestLoop \in Loop
    BY <1>1 DEF NewServerSession, AcceptorInv, AcceptPhase
  <2> QED  BY <1>1, <2>1 DEF NewServerSession
<1>2. ASSUME NEW s \in Session, DestroySession(s)
      PROVE  ObjectInv'
  BY <1>2 DEF DestroySession, serverSessionDeleted, Free, acceptVars
<1>3. CASE Sweep
  BY <1>3 DEF Sweep, objectVars
<1>4. CASE UNCHANGED <<st, owner, fd, peer, m_activeSessions>> /\ pc # "returned" /\ pc' # "returned"
  BY <1>4
<1> QED
  BY <1>1, <1>2, <1>3, <1>4
     DEF AcceptStep, accept4, LeaveAcceptLoop, LimitConnections, LoadBest, CompareNext, NewServerSessionFails,
         RegisterInsert, RegisterEpollAdd, RegisterEpollAddFails, RegisterCount, StoreQuit, WriteQuit, Join,
         LoopDestroyed, objectVars, serverVars, ScanOn

(***************************************************************************)
(* ObjectInv, the steps of a loop thread: serverSessionDeleted goes with   *)
(* the end of the object.                                                  *)
(***************************************************************************)
LEMMA LoopObjectInv ==
    ASSUME IInv, NEW l \in Loop, LoopStep(l)
    PROVE  ObjectInv'
<1> USE DEF IInv, ObjectInv, TypeOK, ObjectsOK
<1>1. ASSUME NEW s \in Session, DeleteBegin(l, s)
      PROVE  ObjectInv'
  <2>1. st[s] = "live"
    BY <1>1 DEF DeleteBegin, RegistryInv, Placed, Live
  <2> QED  BY <1>1, <2>1 DEF DeleteBegin, acceptVars, serverVars
<1>2. ASSUME NEW s \in Session, DeleteEnd(l, s)
      PROVE  ObjectInv'
  BY <1>2 DEF DeleteEnd, serverSessionDeleted, Free, acceptVars
<1>3. CASE UNCHANGED <<st, owner, fd, peer, m_activeSessions, pc>>
  BY <1>3
<1> QED
  BY <1>1, <1>2, <1>3
     DEF LoopStep, LoopSessionStep, epoll_wait, EventsProcessed, eventfd_read, ScanDone, NextIteration,
         processEvents, wakeup, ScanStep, timeout, NotYet, objectVars, serverVars, acceptVars

-----------------------------------------------------------------------------
(***************************************************************************)
(* A session keeps its place when nothing about it changes.                *)
(***************************************************************************)
LEMMA PlacedFrame ==
    ASSUME NEW r \in Session, Placed(r), st[r] # "free" => owner[r] \in Loop,
           st'[r] = st[r], owner'[r] = owner[r], io'[r] = io[r],
           \A k \in Loop : r \in m_sessions'[k] <=> r \in m_sessions[k],
           \A k \in Loop : r \in m_deleteLater'[k] /\ lpc'[k] # "exited"
                              <=> r \in m_deleteLater[k] /\ lpc[k] # "exited",
           newSession = r /\ pc = "insert" => newSession' = r /\ pc' = "insert",
           st[r] = "closed" => lpc'[owner[r]] = "dtor" /\ cur'[owner[r]] = r
    PROVE  Placed(r)'
<1>1. \A k \in Loop : r \in m_sessions'[k] => Live(k, r)'
  BY DEF Placed, Live
<1>2. \A k \in Loop : r \in m_deleteLater'[k] /\ lpc'[k] # "exited" =>
         Live(k, r)' /\ io'[r] = "done" /\ r \notin m_sessions'[k]
  BY DEF Placed, Live
<1>3. st'[r] = "live" =>
         \/ r \in m_sessions'[owner'[r]]
         \/ r \in m_deleteLater'[owner'[r]] /\ lpc'[owner'[r]] # "exited"
         \/ newSession' = r /\ pc' = "insert"
  BY DEF Placed
<1> QED  BY <1>1, <1>2, <1>3 DEF Placed

(***************************************************************************)
(* RegistryInv, the steps of the accept thread.                            *)
(***************************************************************************)
LEMMA AcceptRegistryInv ==
    ASSUME IInv, TidySetup, AcceptStep
    PROVE  RegistryInv'
<1> USE DEF IInv, TypeOK, Live
<1>1. ASSUME NEW s \in Session, NewServerSession(s)
      PROVE  RegistryInv'
  <2>1. st[s] = "free" /\ pc = "new" /\ newSession = Null /\ newSession' = s /\ pc' = "insert"
    BY <1>1 DEF NewServerSession, Available, AcceptorInv
  <2>2. UNCHANGED <<m_sessions, m_deleteLater, lpc, cur>>
    BY <1>1 DEF NewServerSession, registryVars, loopVars
  <2>3. /\ st'[s] = "live"
        /\ \A r \in Session \ {s} : st'[r] = st[r] /\ owner'[r] = owner[r] /\ io'[r] = io[r]
    BY <1>1 DEF NewServerSession, ObjectsOK
  <2>4. RegistryInv
    OBVIOUS
  <2> HIDE DEF IInv, TypeOK
  <2> QED  BY <2>1, <2>2, <2>3, <2>4 DEF RegistryInv, Placed
<1>2. CASE RegisterInsert
  <2>1. pc = "insert" /\ newSession \in Session /\ bestLoop \in Loop
    BY <1>2 DEF RegisterInsert, AcceptorInv
  <2>2. Live(bestLoop, newSession) /\ io[newSession] = "fresh"
    BY <2>1 DEF RegistrationInv
  <2>3. UNCHANGED <<st, owner, io, m_deleteLater, lpc, cur, newSession>> /\ pc' = "epoll_add"
    BY <1>2 DEF RegisterInsert, objectVars, loopVars
  <2>4. \A k \in Loop : m_sessions'[k] = IF k = bestLoop THEN m_sessions[k] \cup {newSession} ELSE m_sessions[k]
    BY <1>2 DEF RegisterInsert, RegistryOK
  <2> SUFFICES ASSUME NEW r \in Session PROVE Placed(r)'
    BY DEF RegistryInv
  <2>5. Placed(r) /\ (st[r] # "free" => owner[r] \in Loop)
    BY DEF RegistryInv, ObjectInv
  <2> HIDE DEF IInv, TypeOK
  <2>6. CASE r = newSession
    BY <2>1, <2>2, <2>3, <2>4, <2>5, <2>6 DEF Placed
  <2>7. CASE r # newSession
    <3>1. \A k \in Loop : r \in m_sessions'[k] <=> r \in m_sessions[k]
      BY <2>4, <2>7
    <3>2. st[r] = "closed" => lpc[owner[r]] = "dtor" /\ cur[owner[r]] = r
      BY <2>5 DEF Placed
    <3> QED  BY <2>3, <2>5, <2>7, <3>1, <3>2, PlacedFrame
  <2> QED  BY <2>6, <2>7
<1>3. ASSUME NEW s \in Session, DestroySession(s)
      PROVE  RegistryInv'
  <2>1. pc = "destroy" /\ idx \in Loop /\ lpc[idx] = "exited" /\ s \in m_sessions[idx] /\ Live(idx, s)
    <3>1. pc = "destroy" /\ s \in m_sessions[idx]
      BY <1>3 DEF DestroySession
    <3>2. idx \in Loop
      BY <3>1 DEF AcceptorInv, QuitPhase
    <3>3. lpc[idx] = "exited"
      BY <3>1 DEF ShutdownInv
    <3>4. Live(idx, s)
      BY <3>1, <3>2 DEF RegistryInv, Placed
    <3> QED  BY <3>1, <3>2, <3>3, <3>4
  <2>2. PICK lost \in SUBSET {s} : m_deleteLater' = [m_deleteLater EXCEPT ![idx] = @ \cup lost]
    BY <1>3 DEF DestroySession
  <2>3. UNCHANGED <<lpc, cur, newSession, pc>>
    BY <1>3 DEF DestroySession, acceptVars, loopVars
  <2>4. /\ st'[s] = "free"
        /\ \A r \in Session \ {s} : st'[r] = st[r] /\ owner'[r] = owner[r] /\ io'[r] = io[r]
    BY <1>3 DEF DestroySession, Free, ObjectsOK
  <2>5. m_sessions' = [m_sessions EXCEPT ![idx] = @ \ {s}]
    BY <1>3 DEF DestroySession, ServerSessionDtor, Erase
  <2>6. \A k \in Loop, r \in Session :
           /\ r \in m_sessions'[k] <=> r \in m_sessions[k] /\ ~(k = idx /\ r = s)
           /\ r \in m_deleteLater'[k] => r \in m_deleteLater[k] \/ (k = idx /\ r = s)
           /\ r \in m_deleteLater[k] => r \in m_deleteLater'[k]
    BY <2>1, <2>2, <2>5 DEF RegistryOK
  <2> SUFFICES ASSUME NEW r \in Session PROVE Placed(r)'
    BY DEF RegistryInv
  <2>7. Placed(r) /\ (st[r] # "free" => owner[r] \in Loop)
    BY DEF RegistryInv, ObjectInv
  <2> HIDE DEF IInv, TypeOK
  <2>8. CASE r = s
    BY <2>1, <2>3, <2>4, <2>6, <2>7, <2>8 DEF Placed
  <2>9. CASE r # s
    <3>1. st[r] = "closed" => lpc[owner[r]] = "dtor" /\ cur[owner[r]] = r
      BY <2>7 DEF Placed
    <3>2. \A k \in Loop : /\ r \in m_sessions'[k] <=> r \in m_sessions[k]
                          /\ r \in m_deleteLater'[k] <=> r \in m_deleteLater[k]
      BY <2>6, <2>9
    <3> QED  BY <2>3, <2>4, <2>7, <2>9, <3>1, <3>2, PlacedFrame
  <2> QED  BY <2>8, <2>9
<1>4. CASE /\ UNCHANGED <<st, owner, io, m_sessions, m_deleteLater, lpc, cur>>
           /\ pc # "insert"
  <2>1. RegistryInv
    OBVIOUS
  <2> HIDE DEF IInv, TypeOK
  <2> QED  BY <1>4, <2>1 DEF RegistryInv, Placed
<1> QED
  BY <1>1, <1>2, <1>3, <1>4
     DEF AcceptStep, accept4, LeaveAcceptLoop, LimitConnections, LoadBest, CompareNext, NewServerSessionFails,
         RegisterEpollAdd, RegisterEpollAddFails, RegisterCount, StoreQuit, WriteQuit, Join,
         LoopDestroyed, Sweep, objectVars, registryVars, loopVars

(***************************************************************************)
(* RegistryInv, the steps of a loop thread.  Nothing is postponed on a     *)
(* loop that is about to exit, and the lock is never re-entered because    *)
(* the coroutine of a postponed session has ended.                         *)
(***************************************************************************)
LEMMA LoopRegistryInv ==
    ASSUME IInv, NEW l \in Loop, LoopStep(l)
    PROVE  RegistryInv'
<1> USE DEF IInv, TypeOK, Live
<1>1. ASSUME NEW s \in Session, Handles(l, s)
      PROVE  RegistryInv'
  <2>1. Live(l, s) /\ lpc[l] \in {"process", "scan", "expiry"}
    BY <1>1, HandledIsLive
  <2>2. Runs(l, s) \/ Postpones(l, s)
    BY <1>1, HandledRunsOrPostpones
  <2>3. UNCHANGED <<st, owner, pc, newSession>>
    BY <1>1 DEF Handles, processEvents, wakeup, timeout, ScanStep, acceptVars
  <2>4. \A k \in Loop : /\ lpc'[k] = "exited" <=> lpc[k] = "exited"
                        /\ lpc[k] = "dtor" => lpc'[k] = "dtor" /\ cur'[k] = cur[k]
    BY <1>1, <2>1 DEF Handles, processEvents, wakeup, timeout, ScanStep, LoopsOK
  <2>5. CASE Runs(l, s)
    <3> SUFFICES ASSUME NEW r \in Session PROVE Placed(r)'
      BY DEF RegistryInv
    <3>1. Placed(r) /\ (st[r] # "free" => owner[r] \in Loop)
      BY DEF RegistryInv, ObjectInv
    <3>2. r # s => io'[r] = io[r]
      BY <2>5 DEF Runs, ObjectsOK
    <3>3. r = s => \A k \in Loop : ~(s \in m_deleteLater[k] /\ lpc[k] # "exited")
      BY <2>5, <3>1 DEF Runs, Placed
    <3> QED  BY <2>3, <2>4, <2>5, <3>1, <3>2, <3>3 DEF Runs, Placed
  <2>6. CASE Postpones(l, s)
    <3> SUFFICES ASSUME NEW r \in Session PROVE Placed(r)'
      BY DEF RegistryInv
    <3>1. Placed(r) /\ (st[r] # "free" => owner[r] \in Loop)
      BY DEF RegistryInv, ObjectInv
    <3>2. \A k \in Loop : /\ r \in m_sessions'[k] <=> r \in m_sessions[k] /\ ~(k = l /\ r = s)
                          /\ r \in m_deleteLater'[k] <=> r \in m_deleteLater[k] \/ (k = l /\ r = s)
      BY <2>6 DEF Postpones, RegistryOK
    <3>3. io'[r] = IF r = s THEN "done" ELSE io[r]
      BY <2>6 DEF Postpones, ObjectsOK
    <3> HIDE DEF IInv, TypeOK
    <3>4. CASE r = s
      BY <2>1, <2>3, <2>4, <3>1, <3>2, <3>3, <3>4 DEF Placed
    <3>5. CASE r # s
      BY <2>3, <2>4, <3>1, <3>2, <3>3, <3>5 DEF Placed
    <3> QED  BY <3>4, <3>5
  <2> QED  BY <2>2, <2>5, <2>6
<1>2. ASSUME NEW s \in Session, DeleteBegin(l, s)
      PROVE  RegistryInv'
  <2>1. Live(l, s) /\ io[s] = "done" /\ s \notin m_sessions[l] /\ lpc[l] = "reap"
    BY <1>2 DEF DeleteBegin, RegistryInv, Placed
  <2>2. lpc'[l] = "dtor" /\ cur'[l] = s /\ UNCHANGED <<owner, newSession, pc>>
    BY <1>2, <2>1 DEF DeleteBegin, LoopsOK, acceptVars
  <2>3. \A k \in Loop \ {l} : lpc'[k] = lpc[k] /\ cur'[k] = cur[k]
    BY LoopLocals
  <2>4. \A r \in Session : /\ st'[r] = IF r = s THEN "closed" ELSE st[r]
                           /\ io'[r] = io[r]
    BY <1>2, <2>1 DEF DeleteBegin, ServerSessionDtor, quitIoLoop, ObjectsOK
  <2>5. m_sessions' = m_sessions /\ \A k \in Loop, r \in Session :
           r \in m_deleteLater'[k] <=> r \in m_deleteLater[k] /\ ~(k = l /\ r = s)
    <3>1. /\ m_sessions' = [m_sessions EXCEPT ![l] = @ \ {s}]
          /\ m_deleteLater' = [m_deleteLater EXCEPT ![l] = @ \ {s}]
      BY <1>2 DEF DeleteBegin, ServerSessionDtor, Erase
    <3>2. RegistryOK
      OBVIOUS
    <3> HIDE DEF IInv, TypeOK
    <3>3. m_sessions[l] \ {s} = m_sessions[l]
      BY <2>1
    <3> QED  BY <3>1, <3>2, <3>3 DEF RegistryOK
  <2> SUFFICES ASSUME NEW r \in Session PROVE Placed(r)'
    BY DEF RegistryInv
  <2>6. Placed(r) /\ (st[r] # "free" => owner[r] \in Loop)
    BY DEF RegistryInv, ObjectInv
  <2> HIDE DEF IInv, TypeOK
  <2>7. CASE r = s
    BY <2>1, <2>2, <2>3, <2>4, <2>5, <2>6, <2>7 DEF Placed
  <2>8. CASE r # s
    <3>1. st[r] = "closed" => lpc[owner[r]] = "dtor" /\ cur[owner[r]] = r
      BY <2>6 DEF Placed
    <3>2. st[r] = "closed" => lpc'[owner[r]] = "dtor" /\ cur'[owner[r]] = r
      BY <2>1, <2>3, <2>6, <3>1
    <3>3. \A k \in Loop : r \in m_deleteLater'[k] /\ lpc'[k] # "exited"
                             <=> r \in m_deleteLater[k] /\ lpc[k] # "exited"
      BY <2>1, <2>2, <2>3, <2>5, <2>8
    <3>4. st'[r] = st[r] /\ io'[r] = io[r]
      BY <2>4, <2>8
    <3> QED  BY <2>2, <2>5, <2>6, <3>2, <3>3, <3>4, PlacedFrame
  <2> QED  BY <2>7, <2>8
<1>3. ASSUME NEW s \in Session, DeleteEnd(l, s)
      PROVE  RegistryInv'
  <2>1. st[s] = "closed" /\ owner[s] = l /\ lpc[l] = "dtor" /\ cur[l] = s
    BY <1>3 DEF DeleteEnd, LoopInv, Holds
  <2>2. lpc'[l] = "reap" /\ UNCHANGED <<m_sessions, m_deleteLater, newSession, pc>>
    BY <1>3 DEF DeleteEnd, LoopsOK, acceptVars, registryVars
  <2>3. \A k \in Loop \ {l} : lpc'[k] = lpc[k] /\ cur'[k] = cur[k]
    BY LoopLocals
  <2>4. /\ st'[s] = "free"
        /\ \A r \in Session \ {s} : st'[r] = st[r] /\ owner'[r] = owner[r] /\ io'[r] = io[r]
    BY <1>3 DEF DeleteEnd, Free, ObjectsOK
  <2> SUFFICES ASSUME NEW r \in Session PROVE Placed(r)'
    BY DEF RegistryInv
  <2>5. Placed(r) /\ (st[r] # "free" => owner[r] \in Loop)
    BY DEF RegistryInv, ObjectInv
  <2> HIDE DEF IInv, TypeOK
  <2>6. CASE r = s
    BY <2>1, <2>2, <2>3, <2>4, <2>5, <2>6 DEF Placed
  <2>7. CASE r # s
    <3>1. st[r] = "closed" => lpc[owner[r]] = "dtor" /\ cur[owner[r]] = r
      BY <2>5 DEF Placed
    <3>2. st[r] = "closed" => lpc'[owner[r]] = "dtor" /\ cur'[owner[r]] = r
      BY <2>1, <2>3, <2>5, <2>7, <3>1
    <3>3. \A k \in Loop : lpc'[k] # "exited" <=> lpc[k] # "exited"
      BY <2>1, <2>2, <2>3
    <3> QED  BY <2>2, <2>4, <2>5, <2>7, <3>2, <3>3, PlacedFrame
  <2> QED  BY <2>6, <2>7
<1>4. ASSUME UNCHANGED <<st, owner, io, m_sessions, m_deleteLater, pc, newSession>>,
             lpc[l] \notin {"dtor", "exited"},
             lpc'[l] = "exited" => m_deleteLater[l] = {}
      PROVE  RegistryInv'
  <2>1. \A k \in Loop \ {l} : lpc'[k] = lpc[k] /\ cur'[k] = cur[k]
    BY LoopLocals
  <2> SUFFICES ASSUME NEW r \in Session PROVE Placed(r)'
    BY DEF RegistryInv
  <2>2. Placed(r) /\ (st[r] # "free" => owner[r] \in Loop)
    BY DEF RegistryInv, ObjectInv
  <2> HIDE DEF IInv, TypeOK
  <2> QED  BY <1>4, <2>1, <2>2 DEF Placed
<1>5. CASE eventfd_read(l)
  <2>1. lpc'[l] # "exited" /\ lpc[l] = "drain"
    BY <1>5 DEF eventfd_read, Snapshot, LoopsOK
  <2> QED  BY <1>4, <1>5, <2>1 DEF eventfd_read, objectVars, registryVars, acceptVars
<1>6. CASE epoll_wait(l) \/ ScanDone(l)
  <2>1. lpc'[l] # "exited" /\ lpc[l] \in {"wait", "scan"}
    BY <1>6 DEF epoll_wait, ScanDone, LoopsOK
  <2> QED  BY <1>4, <1>6, <2>1 DEF epoll_wait, ScanDone, objectVars, registryVars, acceptVars
<1>7. CASE NextIteration(l)
  BY <1>4, <1>7 DEF NextIteration, objectVars, registryVars, acceptVars
<1>8. CASE EventsProcessed(l)
  <2>1. lpc'[l] # "exited" /\ lpc[l] = "process"
    BY <1>8 DEF EventsProcessed, Snapshot, LoopsOK
  <2> QED  BY <1>4, <1>8, <2>1 DEF EventsProcessed, objectVars, registryVars, acceptVars
<1>9. ASSUME NEW s \in Session, NotYet(l, s)
      PROVE  RegistryInv'
  <2>1. lpc[l] \in {"scan", "expiry"}
    BY <1>9 DEF NotYet, ScanStep, Scanned
  <2> QED
    BY <1>4, <1>9, <2>1 DEF NotYet, ScanStep, registryVars, acceptVars, LoopsOK
<1> QED
  BY <1>1, <1>2, <1>3, <1>5, <1>6, <1>7, <1>8, <1>9 DEF LoopStep, LoopSessionStep, Handles

-----------------------------------------------------------------------------
(***************************************************************************)
(* A loop whose locals do not change keeps what it holds, if the objects   *)
(* it owns stay as they are.                                               *)
(***************************************************************************)
LEMMA HoldsFrame ==
    ASSUME NEW k \in Loop, Holds(k),
           \A e \in events[k] : e[1] \in Session,
           todo[k] \subseteq Session,
           lpc'[k] = lpc[k], events'[k] = events[k], todo'[k] = todo[k], cur'[k] = cur[k],
           lpc[k] = "wait" => m_deleteLater'[k] = m_deleteLater[k],
           lpc[k] = "exited" => m_quit'[k],
           m_quit'[k] => pc' \notin AcceptPhase,
           \A r \in Session : st[r] # "free" /\ owner[r] = k /\ lpc[k] # "exited" =>
                                  st'[r] = st[r] /\ owner'[r] = owner[r]
    PROVE  Holds(k)'
<1>1. /\ lpc[k] # "spin"
      /\ lpc[k] = "wait" => m_deleteLater[k] = {}
      /\ events[k] # {} => lpc[k] = "process"
      /\ todo[k] # {} => lpc[k] \in {"scan", "expiry"}
      /\ lpc[k] = "expiry" => cur[k] \in todo[k]
  BY DEF Holds
<1>2. \A e \in events[k] : Live(k, e[1])'
  <2>1. \A e \in events[k] : Live(k, e[1])
    BY DEF Holds
  <2> QED  BY <1>1, <2>1 DEF Live
<1>3. \A r \in todo[k] : Live(k, r)'
  <2>1. \A r \in todo[k] : Live(k, r)
    BY DEF Holds
  <2> QED  BY <1>1, <2>1 DEF Live
<1>4. lpc[k] = "dtor" => cur[k] \in Session /\ st'[cur[k]] = "closed" /\ owner'[cur[k]] = k
  BY DEF Holds
<1> QED  BY <1>1, <1>2, <1>3, <1>4 DEF Holds

(***************************************************************************)
(* LoopInv: what a loop collects stays alive while it holds it.  The steps *)
(* of the accept thread.                                                   *)
(***************************************************************************)
LEMMA AcceptLoopInv ==
    ASSUME IInv, AcceptStep
    PROVE  LoopInv'
<1>1. TypeOK /\ LoopInv
  BY DEF IInv
<1>2. \A k \in Loop : (\A e \in events[k] : e[1] \in Session) /\ todo[k] \subseteq Session
  BY <1>1 DEF TypeOK, LoopsOK
<1>3. \A k \in Loop : Holds(k) /\ (lpc[k] = "exited" => m_quit[k]) /\ (m_quit[k] => pc \notin AcceptPhase)
  BY <1>1, Zenon DEF LoopInv, Holds
<1>4. UNCHANGED <<lpc, events, todo, cur>>
  BY DEF AcceptStep, accept4, LeaveAcceptLoop, LimitConnections, LoadBest, CompareNext, NewServerSession,
         NewServerSessionFails, RegisterInsert, RegisterEpollAdd, RegisterEpollAddFails, RegisterCount,
         StoreQuit, WriteQuit, Join, DestroySession, LoopDestroyed, Sweep, loopVars
<1> SUFFICES ASSUME NEW k \in Loop PROVE Holds(k)'
  BY DEF LoopInv
<1>5. ASSUME NEW s \in Session, NewServerSession(s)
      PROVE  Holds(k)'
  <2>1. st[s] = "free" /\ UNCHANGED <<m_deleteLater, m_quit>>
    BY <1>5 DEF NewServerSession, Available, registryVars, signalVars
  <2>2. \A r \in Session : st[r] # "free" => st'[r] = st[r] /\ owner'[r] = owner[r]
    BY <1>1, <1>5, <2>1 DEF NewServerSession, TypeOK, ObjectsOK
  <2>3. pc \in AcceptPhase
    BY <1>5 DEF NewServerSession, AcceptPhase
  <2>4. ~m_quit[k] /\ ~m_quit'[k] /\ lpc[k] # "exited"
    BY <1>3, <2>1, <2>3, Zenon
  <2> QED  BY <1>2, <1>3, <1>4, <2>1, <2>2, <2>4, HoldsFrame
<1>6. ASSUME NEW s \in Session, DestroySession(s)
      PROVE  Holds(k)'
  <2>1. pc = "destroy" /\ s \in m_sessions[idx] /\ UNCHANGED <<m_quit, pc>>
    BY <1>6 DEF DestroySession, signalVars, acceptVars
  <2>2. idx \in Loop
    BY <2>1 DEF IInv, AcceptorInv, QuitPhase
  <2>3. lpc[idx] = "exited"
    BY <2>1 DEF IInv, ShutdownInv
  <2>4. owner[s] = idx
    BY <2>1, <2>2 DEF IInv, RegistryInv, Placed, Live
  <2>5. k # idx => m_deleteLater'[k] = m_deleteLater[k]
    BY <1>1, <1>6, <2>2 DEF DestroySession, TypeOK, RegistryOK
  <2>6. \A r \in Session \ {s} : st'[r] = st[r] /\ owner'[r] = owner[r]
    BY <1>1, <1>6 DEF DestroySession, Free, TypeOK, ObjectsOK
  <2>7. lpc[k] = "wait" => m_deleteLater'[k] = m_deleteLater[k]
    BY <2>3, <2>5
  <2>8. \A r \in Session : owner[r] = k /\ lpc[k] # "exited" => st'[r] = st[r] /\ owner'[r] = owner[r]
    BY <2>3, <2>4, <2>6
  <2>9. (lpc[k] = "exited" => m_quit'[k]) /\ (m_quit'[k] => pc' \notin AcceptPhase)
    BY <1>3, <2>1, Zenon
  <2> QED  BY <1>2, <1>3, <1>4, <2>7, <2>8, <2>9, HoldsFrame
<1>7. ASSUME UNCHANGED <<st, owner, m_deleteLater>>,
             m_quit[k] => m_quit'[k], m_quit'[k] => pc' \notin AcceptPhase
      PROVE  Holds(k)'
  <2>1. lpc[k] = "exited" => m_quit'[k]
    BY <1>3, <1>7, Zenon
  <2> QED  BY <1>2, <1>3, <1>4, <1>7, <2>1, HoldsFrame
<1>8. CASE StoreQuit
  <2>1. UNCHANGED <<st, owner, m_deleteLater>> /\ pc' \notin AcceptPhase
    BY <1>8 DEF StoreQuit, objectVars, registryVars, AcceptPhase
  <2>2. m_quit[k] => m_quit'[k]
    <3>1. m_quit \in [Loop -> BOOLEAN]
      BY <1>1 DEF TypeOK, FlagsOK
    <3>2. m_quit' = [m_quit EXCEPT ![idx] = TRUE]
      BY <1>8 DEF StoreQuit
    <3>3. k # idx => m_quit'[k] = m_quit[k]
      BY <3>1, <3>2
    <3>4. k = idx => m_quit'[k] = TRUE
      BY <3>1, <3>2
    <3> QED  BY <3>3, <3>4, Zenon
  <2> QED  BY <1>7, <2>1, <2>2
<1>9. CASE /\ UNCHANGED <<st, owner, m_deleteLater, m_quit>>
           /\ pc \notin AcceptPhase => pc' \notin AcceptPhase
  <2>1. m_quit'[k] => pc' \notin AcceptPhase
    BY <1>3, <1>9, Zenon
  <2> QED  BY <1>7, <1>9, <2>1, Zenon
<1> QED
  BY <1>5, <1>6, <1>8, <1>9
     DEF AcceptStep, accept4, LeaveAcceptLoop, LimitConnections, LoadBest, CompareNext, NewServerSessionFails,
         RegisterInsert, RegisterEpollAdd, RegisterEpollAddFails, RegisterCount, WriteQuit, Join,
         LoopDestroyed, Sweep, objectVars, registryVars, signalVars, AcceptPhase

(***************************************************************************)
(* What a loop thread leaves of the objects of the other loops.            *)
(***************************************************************************)
LEMMA LoopOthers ==
    ASSUME IInv, NEW l \in Loop, LoopStep(l), NEW k \in Loop, k # l
    PROVE  /\ m_deleteLater'[k] = m_deleteLater[k]
           /\ \A r \in Session : st[r] # "free" /\ owner[r] = k => st'[r] = st[r] /\ owner'[r] = owner[r]
<1>1. TypeOK /\ Holds(l) /\ \A s \in Session : Placed(s)
  BY DEF IInv, LoopInv, RegistryInv
<1>2. ASSUME UNCHANGED <<st, owner, m_deleteLater>>
      PROVE  /\ m_deleteLater'[k] = m_deleteLater[k]
             /\ \A r \in Session : st[r] # "free" /\ owner[r] = k => st'[r] = st[r] /\ owner'[r] = owner[r]
  BY <1>2
<1>3. ASSUME NEW s \in Session, Handles(l, s)
      PROVE  m_deleteLater'[k] = m_deleteLater[k] /\ UNCHANGED <<st, owner>>
  <2>1. UNCHANGED <<st, owner>>
    BY <1>3 DEF Handles, processEvents, wakeup, timeout, ScanStep
  <2>2. CASE Runs(l, s)
    BY <2>1, <2>2 DEF Runs
  <2>3. CASE Postpones(l, s)
    BY <1>1, <2>1, <2>3 DEF Postpones, TypeOK, RegistryOK
  <2> QED  BY <1>3, <2>2, <2>3, HandledRunsOrPostpones
<1>4. ASSUME NEW s \in Session, DeleteBegin(l, s)
      PROVE  /\ m_deleteLater'[k] = m_deleteLater[k]
             /\ \A r \in Session : owner[r] = k => st'[r] = st[r] /\ owner'[r] = owner[r]
  <2>1. lpc[l] = "reap" /\ s \in m_deleteLater[l]
    BY <1>4 DEF DeleteBegin
  <2>2. owner[s] = l
    BY <1>1, <2>1 DEF Placed, Live
  <2>3. m_deleteLater' = [m_deleteLater EXCEPT ![l] = @ \ {s}] /\ st' = [st EXCEPT ![s] = "closed"] /\ owner' = owner
    BY <1>4 DEF DeleteBegin
  <2> QED  BY <1>1, <2>2, <2>3 DEF TypeOK, RegistryOK, ObjectsOK
<1>5. ASSUME NEW s \in Session, DeleteEnd(l, s)
      PROVE  /\ m_deleteLater'[k] = m_deleteLater[k]
             /\ \A r \in Session : owner[r] = k => st'[r] = st[r] /\ owner'[r] = owner[r]
  <2>1. lpc[l] = "dtor" /\ s = cur[l] /\ m_deleteLater' = m_deleteLater
    BY <1>5 DEF DeleteEnd, registryVars
  <2>2. owner[s] = l
    BY <1>1, <2>1 DEF Holds
  <2>3. \A r \in Session \ {s} : st'[r] = st[r] /\ owner'[r] = owner[r]
    BY <1>1, <1>5 DEF DeleteEnd, Free, TypeOK, ObjectsOK
  <2> QED  BY <2>1, <2>2, <2>3
<1> QED
  BY <1>2, <1>3, <1>4, <1>5
     DEF LoopStep, LoopSessionStep, Handles, epoll_wait, EventsProcessed, eventfd_read, ScanDone, NextIteration,
         NotYet, ScanStep, objectVars, registryVars

(***************************************************************************)
(* LoopInv, the steps of a loop thread.  A session leaves m_sessions only  *)
(* by the thread that owns it, and is deleted by that thread only after    *)
(* the events and the snapshot that could name it are used up.             *)
(***************************************************************************)
LEMMA LoopLoopInv ==
    ASSUME IInv, NEW l \in Loop, LoopStep(l)
    PROVE  LoopInv'
<1>1. TypeOK /\ LoopsOK /\ LoopInv /\ Holds(l)
  BY DEF IInv, LoopInv, TypeOK
<1>2. \A k \in Loop : (\A e \in events[k] : e[1] \in Session) /\ todo[k] \subseteq Session
  BY <1>1 DEF LoopsOK
<1>3. \A k \in Loop : Holds(k) /\ (lpc[k] = "exited" => m_quit[k]) /\ (m_quit[k] => pc \notin AcceptPhase)
  BY <1>1, Zenon DEF LoopInv, Holds
<1>4. UNCHANGED <<m_quit, pc>>
  BY DEF LoopStep, LoopSessionStep, epoll_wait, EventsProcessed, eventfd_read, ScanDone, NextIteration,
         processEvents, wakeup, timeout, NotYet, ScanStep, DeleteBegin, DeleteEnd, signalVars, acceptVars
<1>5. \A k \in Loop : (lpc[k] = "exited" => m_quit'[k]) /\ (m_quit'[k] => pc' \notin AcceptPhase)
  BY <1>3, <1>4, Zenon
<1>6. ASSUME NEW k \in Loop, k # l
      PROVE  Holds(k)'
  <2>1. lpc'[k] = lpc[k] /\ cur'[k] = cur[k] /\ events'[k] = events[k] /\ todo'[k] = todo[k]
    BY <1>1, <1>6, LoopLocals
  <2>2. /\ m_deleteLater'[k] = m_deleteLater[k]
        /\ \A r \in Session : st[r] # "free" /\ owner[r] = k => st'[r] = st[r] /\ owner'[r] = owner[r]
    BY <1>6, LoopOthers
  <2> QED  BY <1>2, <1>3, <1>5, <2>1, <2>2, HoldsFrame
<1>7. Holds(l)'
  <2>0. /\ lpc[l] # "process" => events[l] = {}
        /\ lpc[l] \notin {"scan", "expiry"} => todo[l] = {}
        /\ \A e \in events[l] : Live(l, e[1])
        /\ \A r \in todo[l] : Live(l, r)
    BY <1>1 DEF Holds
  <2>1. CASE epoll_wait(l)
    <3>1. \A f \in Reportable(l) : interest[f] # Null => st[interest[f]] = "live"
      BY DEF Reportable, IInv, SocketInv
    <3>2. \A f \in Reportable(l) : st[interest[f]] = "live" /\ owner[interest[f]] = l
      BY <3>1 DEF Reportable
    <3>3. events'[l] = {<<interest[f], ready[f]>> : f \in Reportable(l)}
      BY <1>1, <2>1 DEF epoll_wait, LoopsOK
    <3>4. lpc[l] = "wait" /\ lpc'[l] = "process" /\ UNCHANGED <<st, owner, todo>>
      BY <1>1, <2>1 DEF epoll_wait, LoopsOK, objectVars
    <3>5. \A e \in events'[l] : Live(l, e[1])'
      <4>1. \A e \in events'[l] : \E f \in Reportable(l) : e[1] = interest[f]
        BY <3>3
      <4> QED  BY <3>2, <3>4, <4>1 DEF Live
    <3> QED  BY <1>5, <2>0, <3>4, <3>5 DEF Holds
  <2>2. ASSUME Snapshot(l), lpc[l] \in {"process", "drain"}, events[l] = {}, UNCHANGED <<st, owner, events>>
        PROVE  Holds(l)'
    <3>1. \A s \in m_sessions[l] : Live(l, s)
      BY DEF IInv, RegistryInv, Placed, TypeOK, RegistryOK
    <3>2. todo'[l] = m_sessions[l] /\ lpc'[l] = "scan"
      BY <1>1, <2>2 DEF Snapshot, LoopsOK
    <3> QED  BY <1>5, <2>2, <3>1, <3>2 DEF Holds, Live
  <2>3. CASE EventsProcessed(l)
    <3>1. lpc[l] = "process" /\ events[l] = {} /\ UNCHANGED <<st, owner, events>>
      BY <2>3 DEF EventsProcessed, objectVars
    <3>2. CASE wokeup[l]
      <4>1. lpc'[l] = "drain" /\ todo' = todo
        BY <1>1, <2>3, <3>2 DEF EventsProcessed, LoopsOK
      <4> QED  BY <1>5, <2>0, <3>1, <4>1 DEF Holds
    <3>3. CASE ~wokeup[l]
      BY <2>2, <2>3, <3>1, <3>3 DEF EventsProcessed
    <3> QED  BY <3>2, <3>3
  <2>4. CASE eventfd_read(l)
    <3>1. lpc[l] = "drain" /\ UNCHANGED <<st, owner, events>>
      BY <2>4 DEF eventfd_read, objectVars
    <3>2. CASE eventFd[l] = Zero
      BY <2>0, <2>2, <2>4, <3>1, <3>2 DEF eventfd_read
    <3>3. CASE eventFd[l] # Zero
      <4>1. UNCHANGED <<lpc, todo>>
        BY <2>4, <3>3 DEF eventfd_read
      <4> QED  BY <1>5, <2>0, <3>1, <4>1 DEF Holds
    <3> QED  BY <3>2, <3>3
  <2>5. CASE ScanDone(l)
    <3>1. lpc[l] = "scan" /\ todo[l] = {} /\ lpc'[l] = "reap" /\ UNCHANGED <<events, todo>>
      BY <1>1, <2>5 DEF ScanDone, LoopsOK
    <3> QED  BY <1>5, <2>0, <3>1 DEF Holds
  <2>6. CASE NextIteration(l)
    <3>1. /\ lpc[l] = "reap" /\ UNCHANGED <<events, todo, m_deleteLater>> /\ m_deleteLater[l] = {}
          /\ lpc' = [lpc EXCEPT ![l] = IF m_quit[l] THEN "exited" ELSE "wait"]
      BY <2>6 DEF NextIteration, registryVars
    <3>2. lpc'[l] \in {"wait", "exited"}
      BY <1>1, <3>1 DEF LoopsOK
    <3>3. lpc'[l] = "exited" => m_quit[l]
      <4>1. CASE m_quit[l]
        BY <4>1
      <4>2. CASE ~m_quit[l]
        <5>1. lpc' = [lpc EXCEPT ![l] = "wait"]
          BY <3>1, <4>2
        <5> QED  BY <1>1, <5>1 DEF LoopsOK
      <4> QED  BY <4>1, <4>2
    <3>4. lpc'[l] = "exited" => m_quit'[l]
      BY <1>4, <3>3, Zenon
    <3> QED  BY <1>5, <2>0, <3>1, <3>2, <3>4 DEF Holds
  <2>7. ASSUME NEW s \in Session, NEW e \in {"io", "hup"}, processEvents(l, s, e)
        PROVE  Holds(l)'
    <3>1. lpc[l] = "process" /\ UNCHANGED <<st, owner, lpc, todo>>
      BY <2>7 DEF processEvents
    <3>2. events'[l] = events[l] \ {<<s, e>>}
      BY <1>1, <2>7 DEF processEvents, LoopsOK
    <3> QED  BY <1>5, <2>0, <3>1, <3>2 DEF Holds, Live
  <2>8. ASSUME NEW s \in Session, wakeup(l, s)
        PROVE  Holds(l)'
    <3>1. lpc[l] = "scan" /\ s \in todo[l] /\ UNCHANGED <<st, owner, events, todo>>
      BY <2>8 DEF wakeup
    <3>2. lpc'[l] = "expiry" /\ cur'[l] = s
      BY <1>1, <2>8 DEF wakeup, LoopsOK
    <3> QED  BY <1>5, <2>0, <3>1, <3>2 DEF Holds, Live
  <2>9. ASSUME NEW s \in Session, ScanStep(l, s)
        PROVE  Holds(l)'
    <3>1. lpc[l] \in {"scan", "expiry"} /\ UNCHANGED <<st, owner, events>>
      BY <2>9 DEF ScanStep, Scanned
    <3>2. lpc'[l] = "scan" /\ todo'[l] = todo[l] \ {s}
      BY <1>1, <2>9 DEF ScanStep, LoopsOK
    <3> QED  BY <1>5, <2>0, <3>1, <3>2 DEF Holds, Live
  <2>10. ASSUME NEW s \in Session, DeleteBegin(l, s)
         PROVE  Holds(l)'
    <3>1. lpc[l] = "reap" /\ s \in m_deleteLater[l]
      BY <2>10 DEF DeleteBegin
    <3>2. owner[s] = l /\ io[s] = "done"
      BY <3>1 DEF IInv, RegistryInv, Placed, Live
    <3>3. lpc'[l] = "dtor" /\ cur'[l] = s /\ UNCHANGED <<owner, events, todo>>
      BY <1>1, <2>10, <3>2 DEF DeleteBegin, LoopsOK
    <3>4. st'[s] = "closed"
      BY <1>1, <2>10 DEF DeleteBegin, TypeOK, ObjectsOK
    <3> QED  BY <1>5, <2>0, <3>1, <3>2, <3>3, <3>4 DEF Holds
  <2>11. ASSUME NEW s \in Session, DeleteEnd(l, s)
         PROVE  Holds(l)'
    <3>1. lpc[l] = "dtor" /\ lpc'[l] = "reap" /\ UNCHANGED <<events, todo>>
      BY <1>1, <2>11 DEF DeleteEnd, LoopsOK
    <3> QED  BY <1>5, <2>0, <3>1 DEF Holds
  <2> QED
    BY <2>1, <2>3, <2>4, <2>5, <2>6, <2>7, <2>8, <2>9, <2>10, <2>11
       DEF LoopStep, LoopSessionStep, timeout, NotYet
<1> QED  BY <1>6, <1>7 DEF LoopInv
=============================================================================
