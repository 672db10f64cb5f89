--------------------------- MODULE GetodacSockets ---------------------------
(***************************************************************************)
(* IInv is preserved: who owns a descriptor (SocketInv), what may happen   *)
(* to the session being registered (RegistrationInv) and the order of the  *)
(* shutdown (ShutdownInv).                                                 *)
(***************************************************************************)
EXTENDS GetodacSafety

(***************************************************************************)
(* ~ServerSession closes the descriptor of the session: no other session   *)
(* is using it, and epoll forgets it.                                      *)
(***************************************************************************)
LEMMA SocketInvClose ==
    ASSUME SocketInv, NEW s \in Session, st[s] = "live", fd[s] \in Fd, st'[s] # "live",
           \A r \in Session : st[r] = "live" => owner[r] \in Loop,
           \A k \in Loop : \A r \in m_sessions[k] : r \in Session /\ st[r] = "live" /\ fd[r] \in Fd,
           interest \in [Fd -> Session \cup {Null}],
           \A r \in Session \ {s} : st'[r] = st[r] /\ fd'[r] = fd[r] /\ owner'[r] = owner[r],
           openFds' = openFds \ {fd[s]},
           interest' = [interest EXCEPT ![fd[s]] = Null],
           \A k \in Loop : m_sessions'[k] = m_sessions[k] \ {s},
           UNCHANGED <<pc, sock, newSession>>
    PROVE  SocketInv'
<1>1. \A r \in Session \ {s} : st[r] = "live" => fd[r] # fd[s]
  BY DEF SocketInv
<1>2. \A r \in Session : st'[r] = "live" => r # s /\ st[r] = "live" /\ fd'[r] = fd[r] /\ fd[r] \in openFds'
  BY <1>1 DEF SocketInv
<1>3. \A r, q \in Session : st'[r] = "live" /\ st'[q] = "live" /\ fd'[r] = fd'[q] => r = q
  BY <1>2 DEF SocketInv
<1>4. pc' \in {"limit", "load", "compare", "new"} =>
         /\ sock' \in openFds'
         /\ \A r \in Session : st'[r] = "live" => fd'[r] # sock'
  BY <1>2 DEF SocketInv
<1>5. \A f \in Fd : interest'[f] = IF f = fd[s] THEN Null ELSE interest[f]
  OBVIOUS
<1>6. ASSUME NEW f \in Fd, interest'[f] # Null
      PROVE  /\ st'[interest'[f]] = "live" /\ fd'[interest'[f]] = f
             /\ interest'[f] \in m_sessions'[owner'[interest'[f]]]
  <2>1. interest'[f] = interest[f] /\ f # fd[s] /\ interest[f] \in Session
    BY <1>5, <1>6
  <2>2. /\ st[interest[f]] = "live" /\ fd[interest[f]] = f
        /\ interest[f] \in m_sessions[owner[interest[f]]]
    BY <1>6, <2>1 DEF SocketInv
  <2> QED  BY <2>1, <2>2
<1>7. ASSUME NEW k \in Loop, NEW r \in m_sessions'[k]
      PROVE  interest'[fd'[r]] = r \/ (newSession' = r /\ pc' = "epoll_add")
  <2>1. r \in m_sessions[k] /\ r \in Session /\ r # s /\ st[r] = "live" /\ fd[r] \in Fd /\ fd'[r] = fd[r]
    OBVIOUS
  <2>2. interest[fd[r]] = r \/ (newSession = r /\ pc = "epoll_add")
    BY <2>1 DEF SocketInv
  <2>3. interest'[fd[r]] = interest[fd[r]]
    BY <1>1, <1>5, <2>1
  <2> QED  BY <2>1, <2>2, <2>3
<1>8. \A r \in Session : st'[r] = "live" => fd'[r] \in openFds'
  BY <1>2
<1> QED  BY <1>3, <1>4, <1>6, <1>7, <1>8 DEF SocketInv

(***************************************************************************)
(* SocketInv, the steps of the accept thread.  EPOLL_CTL_ADD finds its     *)
(* descriptor open, because the session that owns it is alive.             *)
(***************************************************************************)
LEMMA AcceptSocketInv ==
    ASSUME IInv, TidySetup, AcceptStep
    PROVE  SocketInv'
<1> USE DEF IInv, TypeOK, Live
<1>0. \A l \in Loop : \A s \in m_sessions[l] : st[s] = "live" /\ owner[s] = l /\ s \in Session /\ fd[s] \in Fd
  BY DEF RegistryInv, Placed, RegistryOK, ObjectInv
<1>1. ASSUME NEW f \in Fd, NEW a \in Ip, accept4(f, a)
      PROVE  SocketInv'
  BY <1>1 DEF accept4, SocketInv, objectVars, registryVars
<1>2. ASSUME sock \in Fd, CloseFd(sock), pc \in {"limit", "new"}, pc' = "accept",
             UNCHANGED <<st, fd, owner, m_sessions>>
      PROVE  SocketInv'
  BY <1>0, <1>2 DEF CloseFd, SocketInv, RegistryOK
<1>3. CASE LimitConnections
  <2>1. sock \in Fd /\ pc = "limit"
    BY <1>3 DEF LimitConnections, AcceptorInv, AcceptPhase
  <2>2. CASE TooManyConnections(m_connectionsPerIp[addr])
    BY <1>2, <1>3, <2>1, <2>2 DEF LimitConnections, objectVars
  <2>3. CASE ~TooManyConnections(m_connectionsPerIp[addr])
    BY <1>3, <2>1, <2>3 DEF LimitConnections, SocketInv, objectVars, ScanOn
  <2> QED  BY <2>2, <2>3
<1>4. ASSUME NEW failure \in FailPoints, NewServerSessionFails(failure)
      PROVE  SocketInv'
  <2>1. sock \in Fd /\ pc = "new"
    BY <1>4 DEF NewServerSessionFails, AcceptorInv, AcceptPhase
  <2> QED  BY <1>2, <1>4, <2>1 DEF NewServerSessionFails, objectVars
<1>5. CASE LoadBest \/ CompareNext
  BY <1>5 DEF LoadBest, CompareNext, SocketInv, objectVars, registryVars, kernelVars, ScanOn
<1>6. ASSUME NEW s \in Session, NewServerSession(s)
      PROVE  SocketInv'
  <2>1. st[s] = "free" /\ pc = "new" /\ pc' = "insert" /\ sock \in openFds
    BY <1>6 DEF NewServerSession, Available, SocketInv
  <2>2. \A r \in Session : IF r = s THEN st'[r] = "live" /\ fd'[r] = sock
                                    ELSE st'[r] = st[r] /\ fd'[r] = fd[r] /\ owner'[r] = owner[r]
    BY <1>6 DEF NewServerSession, ObjectsOK
  <2>3. UNCHANGED <<openFds, interest, m_sessions>>
    BY <1>6 DEF NewServerSession, registryVars, kernelVars
  <2>4. \A f \in Fd : interest[f] # Null => interest[f] \in Session /\ interest[f] # s
    BY <2>1 DEF SocketInv, RegistryOK
  <2> QED  BY <1>0, <2>1, <2>2, <2>3, <2>4 DEF SocketInv
<1>7. CASE RegisterInsert
  <2>1. bestLoop \in Loop /\ newSession \in Session /\ owner[newSession] = bestLoop
    BY <1>7 DEF RegisterInsert, AcceptorInv, RegistrationInv
  <2>2. UNCHANGED <<st, owner, fd, openFds, interest, newSession>> /\ pc' = "epoll_add"
    BY <1>7 DEF RegisterInsert, objectVars, kernelVars
  <2>3. \A k \in Loop : m_sessions'[k] = IF k = bestLoop THEN m_sessions[k] \cup {newSession} ELSE m_sessions[k]
    BY <1>7 DEF RegisterInsert, RegistryOK
  <2>4. SocketInv /\ \A r \in Session : st[r] = "live" => owner[r] \in Loop
    BY DEF ObjectInv
  <2>5. \A f \in Fd : interest[f] # Null => interest[f] \in Session
    BY DEF RegistryOK
  <2> HIDE DEF IInv, TypeOK
  <2>6. \A f \in Fd : interest[f] # Null =>
          /\ st[interest[f]] = "live" /\ fd[interest[f]] = f
          /\ interest[f] \in m_sessions'[owner[interest[f]]]
    BY <2>3, <2>4, <2>5 DEF SocketInv
  <2>7. ASSUME NEW k \in Loop, NEW r \in m_sessions'[k]
        PROVE  interest[fd[r]] = r \/ newSession = r
    <3>1. r \in m_sessions[k] \/ r = newSession
      BY <2>3
    <3> QED  BY <2>4, <3>1 DEF SocketInv
  <2> QED  BY <2>2, <2>4, <2>6, <2>7 DEF SocketInv
<1>8. pc = "epoll_add" => /\ newSession \in Session /\ st[newSession] = "live" /\ fd[newSession] = sock
                          /\ sock \in Fd /\ sock \in openFds
                          /\ owner[newSession] = bestLoop /\ newSession \in m_sessions[bestLoop]
  <2>1. pc = "epoll_add" => newSession \in Session /\ sock \in Fd
    BY DEF AcceptorInv, AcceptPhase
  <2>2. pc = "epoll_add" => /\ st[newSession] = "live" /\ fd[newSession] = sock
                            /\ owner[newSession] = bestLoop /\ newSession \in m_sessions[bestLoop]
    BY DEF RegistrationInv
  <2>3. pc = "epoll_add" => sock \in openFds
    BY <2>1, <2>2 DEF SocketInv
  <2> QED  BY <2>1, <2>2, <2>3
<1>9. CASE RegisterEpollAdd
  <2>1. UNCHANGED <<st, owner, fd, openFds, m_sessions, newSession>> /\ pc = "epoll_add" /\ pc' = "count"
    BY <1>9 DEF RegisterEpollAdd, objectVars
  <2>2. \A f \in Fd : interest'[f] = IF f = sock THEN newSession ELSE interest[f]
    BY <1>9 DEF RegisterEpollAdd, RegistryOK
  <2>3. SocketInv
    OBVIOUS
  <2> HIDE DEF IInv, TypeOK
  <2>4. \A f \in Fd : interest'[f] # Null =>
          /\ st[interest'[f]] = "live" /\ fd[interest'[f]] = f
          /\ interest'[f] \in m_sessions[owner[interest'[f]]]
    BY <1>8, <2>1, <2>2, <2>3 DEF SocketInv
  <2>5. ASSUME NEW k \in Loop, NEW r \in m_sessions[k]
        PROVE  interest'[fd[r]] = r
    <3>1. r \in Session /\ st[r] = "live" /\ fd[r] \in Fd
      BY <1>0
    <3>2. interest[fd[r]] = r \/ newSession = r
      BY <2>3 DEF SocketInv
    <3>3. fd[r] = sock => r = newSession
      BY <1>8, <2>1, <2>3, <3>1 DEF SocketInv
    <3> QED  BY <1>8, <2>1, <2>2, <3>1, <3>2, <3>3
  <2> QED  BY <2>1, <2>3, <2>4, <2>5 DEF SocketInv
<1>10. CASE RegisterEpollAddFails
  BY <1>8, <1>10 DEF RegisterEpollAddFails, TidySetup
<1>11. ASSUME NEW s \in Session, DestroySession(s)
       PROVE  SocketInv'
  <2>1. pc = "destroy" /\ pc' = "destroy" /\ idx \in Loop /\ s \in m_sessions[idx]
    BY <1>11 DEF DestroySession, AcceptorInv, QuitPhase, acceptVars
  <2>2. st[s] = "live" /\ owner[s] = idx /\ fd[s] \in Fd
    BY <1>0, <2>1
  <2>3. \A r \in Session : IF r = s THEN st'[r] = "free"
                                    ELSE st'[r] = st[r] /\ fd'[r] = fd[r] /\ owner'[r] = owner[r]
    BY <1>11 DEF DestroySession, Free, ObjectsOK
  <2>4. /\ openFds' = openFds \ {fd[s]}
        /\ interest' = [interest EXCEPT ![fd[s]] = Null]
        /\ m_sessions' = [m_sessions EXCEPT ![idx] = @ \ {s}]
    BY <1>11 DEF DestroySession, ServerSessionDtor, CloseFd, Erase
  <2>5. \A k \in Loop : m_sessions'[k] = m_sessions[k] \ {s}
    BY <1>0, <2>1, <2>2, <2>4 DEF RegistryOK
  <2>6. /\ \A r \in Session : st[r] = "live" => owner[r] \in Loop
        /\ interest \in [Fd -> Session \cup {Null}]
    BY DEF ObjectInv, RegistryOK
  <2>7. SocketInv /\ UNCHANGED <<pc, sock, newSession>>
    BY <1>11 DEF DestroySession, acceptVars
  <2> HIDE DEF IInv, TypeOK
  <2> QED  BY <1>0, <2>2, <2>3, <2>4, <2>5, <2>6, <2>7, SocketInvClose
<1>12. CASE /\ UNCHANGED <<st, owner, fd, openFds, interest, m_sessions>>
            /\ pc # "epoll_add" /\ pc' \notin {"limit", "load", "compare", "new"}
  BY <1>12 DEF SocketInv
<1> QED
  BY <1>1, <1>3, <1>4, <1>5, <1>6, <1>7, <1>9, <1>10, <1>11, <1>12
     DEF AcceptStep, LeaveAcceptLoop, RegisterCount, StoreQuit, WriteQuit, Join,
         LoopDestroyed, Sweep, objectVars, registryVars, kernelVars

(***************************************************************************)
(* SocketInv, the steps of a loop thread: it closes only the descriptor of *)
(* the session it deletes.                                                 *)
(***************************************************************************)
LEMMA LoopSocketInv ==
    ASSUME IInv, NEW l \in Loop, LoopStep(l)
    PROVE  SocketInv'
<1> USE DEF IInv, TypeOK, Live
<1>0. \A k \in Loop : \A s \in m_sessions[k] : st[s] = "live" /\ owner[s] = k /\ s \in Session /\ fd[s] \in Fd
  BY DEF RegistryInv, Placed, RegistryOK, ObjectInv
<1>1. CASE UNCHANGED <<st, owner, fd, openFds, interest, m_sessions, pc, sock, newSession>>
  BY <1>1 DEF SocketInv
<1>2. ASSUME NEW s \in Session, Handles(l, s)
      PROVE  SocketInv'
  <2>1. UNCHANGED <<st, owner, fd, openFds, pc, sock, newSession>>
    BY <1>2 DEF Handles, processEvents, wakeup, timeout, ScanStep, acceptVars, kernelVars
  <2>2. CASE Runs(l, s)
    BY <1>1, <2>1, <2>2 DEF Runs
  <2>3. CASE Postpones(l, s)
    <3>1. \A k \in Loop, r \in Session : r \in m_sessions'[k] <=> r \in m_sessions[k] /\ ~(k = l /\ r = s)
      BY <2>3 DEF Postpones, RegistryOK
    <3>2. \A f \in Fd : interest'[f] = IF interest[f] = s THEN Null ELSE interest[f]
      BY <2>3 DEF Postpones
    <3>3. st[s] = "live" /\ owner[s] = l
      BY <1>2, HandledIsLive
    <3>4. \A k \in Loop : m_sessions'[k] \subseteq m_sessions[k] /\ s \notin m_sessions'[k]
      <4>1. \A k \in Loop : m_sessions'[k] = IF k = l THEN m_sessions[k] \ {s} ELSE m_sessions[k]
        BY <2>3 DEF Postpones, RegistryOK
      <4> HIDE DEF IInv, TypeOK
      <4>2. \A k \in Loop \ {l} : s \notin m_sessions[k]
        BY <1>0, <3>3
      <4> QED  BY <4>1, <4>2
    <3>5. SocketInv /\ \A r \in Session : st[r] = "live" => owner[r] \in Loop
      BY DEF ObjectInv
    <3>6. \A f \in Fd : interest[f] # Null => interest[f] \in Session
      BY DEF RegistryOK
    <3> HIDE DEF IInv, TypeOK
    <3>7. ASSUME NEW f \in Fd, interest'[f] # Null
          PROVE  /\ st[interest'[f]] = "live" /\ fd[interest'[f]] = f
                 /\ interest'[f] \in m_sessions'[owner[interest'[f]]]
      <4>1. interest'[f] = interest[f] /\ interest[f] # s /\ interest[f] \in Session
        BY <3>2, <3>6, <3>7
      <4>2. /\ st[interest[f]] = "live" /\ fd[interest[f]] = f
            /\ interest[f] \in m_sessions[owner[interest[f]]]
        BY <3>5, <3>7, <4>1 DEF SocketInv
      <4> QED  BY <3>1, <3>5, <4>1, <4>2
    <3>8. ASSUME NEW k \in Loop, NEW r \in m_sessions'[k]
          PROVE  interest'[fd[r]] = r \/ (newSession = r /\ pc = "epoll_add")
      <4>1. r \in m_sessions[k] /\ r # s /\ fd[r] \in Fd
        BY <1>0, <3>4
      <4>2. interest[fd[r]] = r \/ (newSession = r /\ pc = "epoll_add")
        BY <3>5, <4>1 DEF SocketInv
      <4> QED  BY <3>2, <4>1, <4>2
    <3> QED  BY <2>1, <3>5, <3>7, <3>8 DEF SocketInv
  <2> QED  BY <1>2, <2>2, <2>3, HandledRunsOrPostpones
<1>3. ASSUME NEW s \in Session, DeleteBegin(l, s)
      PROVE  SocketInv'
  <2>1. st[s] = "live" /\ owner[s] = l /\ s \notin m_sessions[l] /\ fd[s] \in Fd
    BY <1>3 DEF DeleteBegin, RegistryInv, Placed, ObjectInv
  <2>2. \A r \in Session : st'[r] = IF r = s THEN "closed" ELSE st[r]
    BY <1>3 DEF DeleteBegin, ObjectsOK
  <2>3. /\ openFds' = openFds \ {fd[s]}
        /\ interest' = [interest EXCEPT ![fd[s]] = Null]
        /\ m_sessions' = [m_sessions EXCEPT ![l] = @ \ {s}]
    BY <1>3 DEF DeleteBegin, ServerSessionDtor, CloseFd, Erase
  <2>4. UNCHANGED <<owner, fd, pc, sock, newSession>>
    BY <1>3 DEF DeleteBegin, acceptVars
  <2>5. \A k \in Loop : s \notin m_sessions[k]
    BY <1>0, <2>1
  <2>6. \A k \in Loop : m_sessions'[k] = m_sessions[k] \ {s}
    BY <2>3, <2>5 DEF RegistryOK
  <2>7. /\ SocketInv /\ \A r \in Session : st[r] = "live" => owner[r] \in Loop
        /\ interest \in [Fd -> Session \cup {Null}]
    BY DEF ObjectInv, RegistryOK
  <2> HIDE DEF IInv, TypeOK
  <2> QED  BY <1>0, <2>1, <2>2, <2>3, <2>4, <2>6, <2>7, SocketInvClose
<1>4. ASSUME NEW s \in Session, DeleteEnd(l, s)
      PROVE  SocketInv'
  <2>1. st[s] = "closed"
    BY <1>4 DEF DeleteEnd, LoopInv, Holds
  <2>2. \A r \in Session : IF r = s THEN st'[r] = "free"
                                    ELSE st'[r] = st[r] /\ fd'[r] = fd[r] /\ owner'[r] = owner[r]
    BY <1>4 DEF DeleteEnd, Free, ObjectsOK
  <2>3. UNCHANGED <<openFds, interest, m_sessions, pc, sock, newSession>>
    BY <1>4 DEF DeleteEnd, registryVars, kernelVars, acceptVars
  <2>4. /\ SocketInv /\ \A k \in Loop : s \notin m_sessions[k]
        /\ \A f \in Fd : interest[f] # Null => interest[f] \in Session /\ interest[f] # s
    <3>1. SocketInv /\ RegistryOK
      OBVIOUS
    <3> HIDE DEF IInv, TypeOK
    <3>2. \A k \in Loop : s \notin m_sessions[k]
      BY <1>0, <2>1
    <3>3. \A f \in Fd : interest[f] # Null => interest[f] \in Session /\ interest[f] # s
      <4>1. \A f \in Fd : interest[f] # Null => interest[f] \in Session
        BY <3>1 DEF RegistryOK
      <4>2. \A f \in Fd : interest[f] # Null => st[interest[f]] = "live"
        BY <3>1 DEF SocketInv
      <4> QED  BY <2>1, <4>1, <4>2
    <3> QED  BY <3>1, <3>2, <3>3
  <2> HIDE DEF IInv, TypeOK
  <2>5. \A r \in Session : st'[r] = "live" => st[r] = "live" /\ fd'[r] = fd[r]
    BY <2>2
  <2>6. \A f \in Fd : interest'[f] # Null =>
          /\ st'[interest'[f]] = "live" /\ fd'[interest'[f]] = f
          /\ interest'[f] \in m_sessions'[owner'[interest'[f]]]
    BY <2>2, <2>3, <2>4 DEF SocketInv
  <2>7. ASSUME NEW k \in Loop, NEW r \in m_sessions'[k]
        PROVE  interest'[fd'[r]] = r \/ (newSession' = r /\ pc' = "epoll_add")
    <3>1. r \in m_sessions[k]
      BY <2>3
    <3>2. fd'[r] = fd[r]
      <4>1. r \in Session
        BY <1>0, <3>1
      <4>2. r # s
        BY <2>4, <3>1
      <4> QED  BY <2>2, <4>1, <4>2
    <3>3. interest[fd[r]] = r \/ (newSession = r /\ pc = "epoll_add")
      BY <2>4, <3>1 DEF SocketInv
    <3> QED  BY <2>3, <3>2, <3>3
  <2>8. \A r \in Session : st'[r] = "live" => fd'[r] \in openFds'
    BY <2>3, <2>4, <2>5 DEF SocketInv
  <2>10. ASSUME NEW r \in Session, NEW q \in Session, st'[r] = "live", st'[q] = "live", fd'[r] = fd'[q]
         PROVE  r = q
    <3>1. st[r] = "live" /\ st[q] = "live" /\ fd[r] = fd[q]
      BY <2>5, <2>10
    <3> QED  BY <2>4, <3>1 DEF SocketInv
  <2>9. pc' \in {"limit", "load", "compare", "new"} =>
          /\ sock' \in openFds'
          /\ \A r \in Session : st'[r] = "live" => fd'[r] # sock'
    BY <2>3, <2>4, <2>5 DEF SocketInv
  <2> QED  BY <2>6, <2>7, <2>8, <2>9, <2>10 DEF SocketInv
<1> QED
  BY <1>1, <1>2, <1>3, <1>4
     DEF LoopStep, LoopSessionStep, Handles, epoll_wait, EventsProcessed, eventfd_read, ScanDone, NextIteration,
         NotYet, ScanStep, objectVars, registryVars, acceptVars, kernelVars

-----------------------------------------------------------------------------
(***************************************************************************)
(* RegistrationInv, the steps of the accept thread.  The socket of a new   *)
(* session is in no interest list, and no Wakeupper names its address.     *)
(***************************************************************************)
LEMMA AcceptRegistrationInv ==
    ASSUME IInv, TidySetup, AcceptStep
    PROVE  RegistrationInv'
<1> USE DEF IInv, TypeOK, Live
<1>1. ASSUME NEW s \in Session, NewServerSession(s)
      PROVE  RegistrationInv'
  <2>1. pc = "new" /\ st[s] = "free" /\ ~Outstanding(s) /\ sock \in Fd
    BY <1>1 DEF NewServerSession, Available, TidySetup, AcceptorInv, AcceptPhase
  <2>2. interest[sock] = Null
    <3>1. SocketInv /\ interest[sock] \in Session \cup {Null}
      BY <2>1 DEF RegistryOK
    <3> HIDE DEF IInv, TypeOK
    <3> QED  BY <2>1, <3>1 DEF SocketInv
  <2>3. \A l \in Loop : /\ \A e \in events[l] : e[1] # s
                        /\ s \notin m_sessions[l] /\ s \notin todo[l]
    <3>1. Placed(s) /\ \A l \in Loop : Holds(l)
      BY DEF RegistryInv, LoopInv
    <3> HIDE DEF IInv, TypeOK
    <3>2. \A l \in Loop : s \notin m_sessions[l]
      BY <2>1, <3>1 DEF Placed
    <3>3. \A l \in Loop : (\A e \in events[l] : Live(l, e[1])) /\ (\A r \in todo[l] : Live(l, r))
      BY <3>1 DEF Holds
    <3> QED  BY <2>1, <3>2, <3>3
  <2>4. \A r \in Session : Outstanding(r)' <=> Outstanding(r)
    BY <1>1 DEF NewServerSession, Outstanding, signalVars, loopVars
  <2>5. /\ pc' = "insert" /\ newSession' = s /\ sock' = sock /\ bestLoop' = bestLoop
        /\ st'[s] = "live" /\ owner'[s] = bestLoop /\ fd'[s] = sock
        /\ io'[s] = "fresh" /\ dl'[s] = "armed"
    BY <1>1 DEF NewServerSession, InitialDeadline, ObjectsOK
  <2>6. \A r \in Session : r # s => st'[r] = st[r] /\ io'[r] = io[r]
    BY <1>1 DEF NewServerSession, ObjectsOK
  <2>7. UNCHANGED <<interest, m_sessions, events, todo>>
    BY <1>1 DEF NewServerSession, registryVars, loopVars
  <2> QED  BY <2>1, <2>2, <2>3, <2>4, <2>5, <2>6, <2>7 DEF RegistrationInv
<1>2. CASE RegisterInsert
  <2>1. newSession \in Session /\ bestLoop \in Loop
    BY <1>2 DEF RegisterInsert, AcceptorInv
  <2>2. \A r \in Session : Outstanding(r)' <=> Outstanding(r)
    BY <1>2 DEF RegisterInsert, Outstanding, signalVars, loopVars
  <2> QED
    BY <1>2, <2>1, <2>2 DEF RegisterInsert, RegistrationInv, RegistryOK, objectVars, loopVars
<1>3. CASE WriteQuit
  <2>1. \A r \in Session : Outstanding(r)' => Outstanding(r)
    BY <1>3, ConstantsAssumption
       DEF WriteQuit, Outstanding, AfterQuitWrite, EventFdWrite, KernelOK, EventFdValue, loopVars
  <2> QED  BY <1>3, <2>1 DEF WriteQuit, RegistrationInv, objectVars
<1>4. ASSUME NEW s \in Session, DestroySession(s)
      PROVE  RegistrationInv'
  <2>1. pc' = "destroy"
    BY <1>4 DEF DestroySession, acceptVars
  <2>2. \A r \in Session : IF r = s THEN st'[r] = "free" ELSE st'[r] = st[r] /\ io'[r] = io[r]
    BY <1>4 DEF DestroySession, Free, ObjectsOK
  <2>3. \A r \in Session : r # s => ticket'[r] = ticket[r]
    BY <1>4 DEF DestroySession, ServerSessionDtor, quitIoLoop, HandsOutWakeupper, KernelOK
  <2>4. \A r \in Session : r # s => (Outstanding(r)' <=> Outstanding(r))
    BY <1>4, <2>3 DEF DestroySession, Outstanding, signalVars, loopVars
  <2> QED  BY <2>1, <2>2, <2>4 DEF RegistrationInv
<1>5. CASE UNCHANGED <<st, io, ticket, eventFd, woken>> /\ pc' \notin {"insert", "epoll_add"}
  <2>1. \A r \in Session : Outstanding(r)' <=> Outstanding(r)
    BY <1>5 DEF Outstanding
  <2> QED  BY <1>5, <2>1 DEF RegistrationInv
<1> QED
  BY <1>1, <1>2, <1>3, <1>4, <1>5
     DEF AcceptStep, accept4, LeaveAcceptLoop, LimitConnections, LoadBest, CompareNext, NewServerSessionFails,
         RegisterEpollAdd, RegisterEpollAddFails, RegisterCount, StoreQuit, Join, LoopDestroyed, Sweep,
         objectVars, signalVars, loopVars, ScanOn

(***************************************************************************)
(* RegistrationInv, the steps of a loop thread: it handles other sessions, *)
(* and reads from the eventfd no address of a session not yet started.     *)
(***************************************************************************)
LEMMA LoopRegistrationInv ==
    ASSUME IInv, NEW l \in Loop, LoopStep(l)
    PROVE  RegistrationInv'
<1> USE DEF IInv, TypeOK, Live
<1>0. pc \in {"insert", "epoll_add"} => newSession \in Session /\ bestLoop \in Loop /\ sock \in Fd
  BY DEF AcceptorInv, AcceptPhase
<1>1. CASE epoll_wait(l)
  <2>1. ASSUME NEW f \in Reportable(l), pc \in {"insert", "epoll_add"}
        PROVE  interest[f] # newSession
    <3>1. f \in Fd /\ interest[f] # Null /\ SocketInv /\ interest[sock] = Null /\ fd[newSession] = sock
      BY <2>1 DEF Reportable, RegistrationInv
    <3> HIDE DEF IInv, TypeOK
    <3>2. fd[interest[f]] = f
      BY <3>1 DEF SocketInv
    <3> QED  BY <3>1, <3>2
  <2>2. ASSUME pc \in {"insert", "epoll_add"}, NEW k \in Loop, NEW e \in events'[k]
        PROVE  e[1] # newSession
    <3>1. events' = [events EXCEPT ![l] = {<<interest[f], ready[f]>> : f \in Reportable(l)}]
      BY <1>1 DEF epoll_wait
    <3>2. CASE k = l
      <4>1. PICK f \in Reportable(l) : e = <<interest[f], ready[f]>>
        BY <2>2, <3>1, <3>2 DEF LoopsOK
      <4> QED  BY <2>1, <2>2, <4>1
    <3>3. CASE k # l
      BY <2>2, <3>1, <3>3 DEF RegistrationInv, LoopsOK
    <3> QED  BY <3>2, <3>3
  <2>3. \A r \in Session : Outstanding(r)' <=> Outstanding(r)
    BY <1>1 DEF epoll_wait, Outstanding, signalVars
  <2> QED
    BY <1>1, <2>2, <2>3 DEF epoll_wait, RegistrationInv, objectVars, registryVars, acceptVars
<1>2. ASSUME NEW s \in Session, Handles(l, s)
      PROVE  RegistrationInv'
  <2>1. UNCHANGED <<st, owner, fd, pc, sock, bestLoop, newSession, eventFd, woken>>
    BY <1>2 DEF Handles, processEvents, wakeup, timeout, ScanStep, acceptVars, signalVars
  <2>2. ~BeingRegistered(s)
    BY <1>2, HandledIsLive
  <2>3. \A r \in Session : r # s => dl'[r] = dl[r] /\ ticket'[r] = ticket[r]
    <3>1. HandsOutWakeupper(l, s) => \A r \in Session : r # s => ticket'[r] = ticket[r]
      BY DEF HandsOutWakeupper, KernelOK
    <3>2. SetsTimeout(s) => \A r \in Session : r # s => dl'[r] = dl[r]
      BY DEF SetsTimeout, ObjectsOK
    <3>3. ASSUME NEW e \in {"io", "hup"}, processEvents(l, s, e)
          PROVE  \A r \in Session : r # s => dl'[r] = dl[r] /\ ticket'[r] = ticket[r]
      BY <3>1, <3>2, <3>3 DEF processEvents, Resume, quitIoLoop
    <3>4. CASE wakeup(l, s)
      BY <3>1, <3>2, <3>4 DEF wakeup, Resume
    <3>5. CASE timeout(l, s)
      BY <3>1, <3>5 DEF timeout, ScanStep, quitIoLoop
    <3> QED  BY <1>2, <3>3, <3>4, <3>5 DEF Handles
  <2>4. /\ \A r \in Session : r # s => io'[r] = io[r]
        /\ io'[s] # "fresh"
        /\ \A f \in Fd : interest[f] = Null => interest'[f] = Null
        /\ \A k \in Loop : \A r \in Session : /\ r \in m_sessions'[k] => r \in m_sessions[k]
                                              /\ r # s /\ r \in m_sessions[k] => r \in m_sessions'[k]
    <3>1. CASE Runs(l, s)
      BY <3>1 DEF Runs, ObjectsOK
    <3>2. CASE Postpones(l, s)
      BY <3>2, ConstantsAssumption DEF Postpones, ObjectsOK, RegistryOK
    <3> QED  BY <1>2, <3>1, <3>2, HandledRunsOrPostpones
  <2>5. \A k \in Loop : events'[k] \subseteq events[k] /\ todo'[k] \subseteq todo[k]
    <3>1. TypeOK /\ LoopsOK
      OBVIOUS
    <3> HIDE DEF IInv, TypeOK
    <3>2. \A k \in Loop \ {l} : events'[k] = events[k] /\ todo'[k] = todo[k]
      BY <3>1, LoopLocals
    <3>3. ASSUME NEW e \in {"io", "hup"}, processEvents(l, s, e)
          PROVE  events'[l] \subseteq events[l] /\ todo'[l] = todo[l]
      BY <3>1, <3>3 DEF processEvents, LoopsOK
    <3>4. CASE wakeup(l, s)
      BY <3>4 DEF wakeup
    <3>5. CASE timeout(l, s)
      <4>1. events' = events /\ todo'[l] = todo[l] \ {s}
        BY <3>1, <3>5 DEF timeout, ScanStep, LoopsOK
      <4> QED  BY <3>2, <4>1
    <3>6. events'[l] \subseteq events[l] /\ todo'[l] \subseteq todo[l]
      BY <1>2, <3>3, <3>4, <3>5 DEF Handles
    <3> QED  BY <3>2, <3>6
  <2>6. \A r \in Session : r # s => (Outstanding(r)' <=> Outstanding(r))
    BY <2>1, <2>3 DEF Outstanding
  <2>7. \A r \in Session : st'[r] = "live" /\ io'[r] = "fresh" => ~Outstanding(r)'
    BY <2>1, <2>4, <2>6 DEF RegistrationInv
  <2>8. CASE pc \in {"insert", "epoll_add"}
    <3>1. newSession # s
      BY <2>2, <2>8 DEF BeingRegistered
    <3> QED  BY <1>0, <2>1, <2>3, <2>4, <2>5, <2>7, <2>8, <3>1 DEF RegistrationInv
  <2>9. CASE pc \notin {"insert", "epoll_add"}
    BY <2>1, <2>7, <2>9 DEF RegistrationInv
  <2> QED  BY <2>8, <2>9
<1>3. ASSUME UNCHANGED <<st, owner, fd, io, dl, pc, sock, bestLoop, newSession, interest, m_sessions, events, ticket>>,
             \A k \in Loop : todo'[k] \subseteq todo[k] \cup m_sessions[k],
             \A k \in Loop : /\ \A r \in Session : eventFd'[k] = r => eventFd[k] = r
                             /\ woken'[k] \subseteq woken[k] \cup WokenBy(eventFd[k])
      PROVE  RegistrationInv'
  <2>1. \A r \in Session : Outstanding(r)' => Outstanding(r)
    BY <1>3 DEF Outstanding, WokenBy
  <2> QED  BY <1>0, <1>3, <2>1 DEF RegistrationInv
<1>4. CASE EventsProcessed(l)
  <2>1. UNCHANGED <<st, owner, fd, io, dl, pc, sock, bestLoop, newSession, interest, m_sessions, events, ticket,
                    eventFd, woken>>
    BY <1>4 DEF EventsProcessed, objectVars, registryVars, acceptVars, signalVars
  <2>2. UNCHANGED todo \/ todo' = [todo EXCEPT ![l] = m_sessions[l]]
    BY <1>4 DEF EventsProcessed, Snapshot
  <2>3. \A k \in Loop : todo'[k] \subseteq todo[k] \cup m_sessions[k]
    BY <2>2 DEF LoopsOK
  <2> QED  BY <1>3, <2>1, <2>3
<1>5. CASE eventfd_read(l)
  <2>1. UNCHANGED <<st, owner, fd, io, dl, pc, sock, bestLoop, newSession, interest, m_sessions, events, ticket>>
    BY <1>5 DEF eventfd_read, objectVars, registryVars, acceptVars
  <2>2. TypeOK /\ LoopsOK /\ eventFd \in [Loop -> EventFdValue]
    BY DEF KernelOK
  <2> HIDE DEF IInv, TypeOK
  <2>3. \A k \in Loop : todo'[k] \subseteq todo[k] \cup m_sessions[k]
    <3>1. UNCHANGED todo \/ todo' = [todo EXCEPT ![l] = m_sessions[l]]
      BY <1>5 DEF eventfd_read, Snapshot
    <3> QED  BY <2>2, <3>1 DEF LoopsOK
  <2>4. \A k \in Loop : woken'[k] \subseteq woken[k] \cup WokenBy(eventFd[k])
    BY <1>5, <2>2 DEF eventfd_read, LoopsOK
  <2>5. \A k \in Loop : eventFd'[k] = eventFd[k] \/ eventFd'[k] = Zero
    BY <1>5, <2>2 DEF eventfd_read
  <2>6. \A k \in Loop, r \in Session : eventFd'[k] = r => eventFd[k] = r
    BY <2>5, ConstantsAssumption
  <2> QED  BY <1>3, <2>1, <2>3, <2>4, <2>6
<1>6. CASE ScanDone(l) \/ NextIteration(l)
  BY <1>3, <1>6 DEF ScanDone, NextIteration, LoopsOK, objectVars, registryVars, acceptVars, signalVars
<1>7. ASSUME NEW s \in Session, NotYet(l, s)
      PROVE  RegistrationInv'
  BY <1>3, <1>7 DEF NotYet, ScanStep, LoopsOK, registryVars, acceptVars, signalVars
<1>8. ASSUME NEW s \in Session, NEW p \in {"closed", "free"},
             io[s] = "done" \/ st[s] # "live",
             \A r \in Session : IF r = s THEN st'[r] = p
                                ELSE /\ st'[r] = st[r] /\ owner'[r] = owner[r] /\ fd'[r] = fd[r]
                                     /\ io'[r] = io[r] /\ dl'[r] = dl[r],
             UNCHANGED <<pc, sock, bestLoop, newSession, m_sessions, events, todo, ticket, eventFd, woken>>,
             \A f \in Fd : interest[f] = Null => interest'[f] = Null
      PROVE  RegistrationInv'
  <2>1. \A r \in Session : Outstanding(r)' <=> Outstanding(r)
    BY <1>8 DEF Outstanding
  <2>2. pc \in {"insert", "epoll_add"} => newSession # s
    BY <1>8 DEF RegistrationInv
  <2> QED  BY <1>0, <1>8, <2>1, <2>2 DEF RegistrationInv
<1>9. ASSUME NEW s \in Session, DeleteBegin(l, s)
      PROVE  RegistrationInv'
  <2>1. io[s] = "done" /\ s \notin m_sessions[l] /\ fd[s] \in Fd
    BY <1>9 DEF DeleteBegin, RegistryInv, Placed, ObjectInv
  <2>2. \A r \in Session : IF r = s THEN st'[r] = "closed"
                           ELSE /\ st'[r] = st[r] /\ owner'[r] = owner[r] /\ fd'[r] = fd[r]
                                /\ io'[r] = io[r] /\ dl'[r] = dl[r]
    BY <1>9 DEF DeleteBegin, ServerSessionDtor, quitIoLoop, ObjectsOK
  <2>3. UNCHANGED <<pc, sock, bestLoop, newSession, events, todo, ticket, eventFd, woken>>
    BY <1>9, <2>1 DEF DeleteBegin, ServerSessionDtor, quitIoLoop, acceptVars, signalVars
  <2>4. m_sessions' = m_sessions /\ \A f \in Fd : interest[f] = Null => interest'[f] = Null
    BY <1>9, <2>1 DEF DeleteBegin, ServerSessionDtor, CloseFd, Erase, RegistryOK
  <2> QED  BY <1>8, <2>1, <2>2, <2>3, <2>4
<1>10. ASSUME NEW s \in Session, DeleteEnd(l, s)
       PROVE  RegistrationInv'
  <2>1. st[s] = "closed"
    BY <1>10 DEF DeleteEnd, LoopInv, Holds
  <2>2. \A r \in Session : IF r = s THEN st'[r] = "free"
                           ELSE /\ st'[r] = st[r] /\ owner'[r] = owner[r] /\ fd'[r] = fd[r]
                                /\ io'[r] = io[r] /\ dl'[r] = dl[r]
    BY <1>10 DEF DeleteEnd, Free, ObjectsOK
  <2>3. UNCHANGED <<pc, sock, bestLoop, newSession, m_sessions, interest, events, todo, ticket, eventFd, woken>>
    BY <1>10 DEF DeleteEnd, acceptVars, registryVars, signalVars
  <2> QED  BY <1>8, <2>1, <2>2, <2>3
<1> QED
  BY <1>1, <1>2, <1>4, <1>5, <1>6, <1>7, <1>9, <1>10 DEF LoopStep, LoopSessionStep, Handles

-----------------------------------------------------------------------------
(***************************************************************************)
(* ShutdownInv: a joined loop stays at its end, and a destroyed one has no *)
(* sessions left.                                                          *)
(***************************************************************************)
LEMMA AcceptShutdownInv ==
    ASSUME IInv, AcceptStep
    PROVE  ShutdownInv'
<1> USE DEF IInv, TypeOK, AcceptOK
<1> NumLoops \in Nat
  BY ConstantsAssumption
<1>1. CASE WriteQuit
  BY <1>1 DEF WriteQuit, ShutdownInv, DestroyedLoops, AcceptorInv, QuitPhase, Loop, loopVars, registryVars
<1>2. CASE Join
  BY <1>2 DEF Join, ShutdownInv, DestroyedLoops, loopVars, registryVars
<1>3. ASSUME NEW s \in Session, DestroySession(s)
      PROVE  ShutdownInv'
  BY <1>3 DEF DestroySession, ServerSessionDtor, Erase, ShutdownInv, DestroyedLoops, RegistryOK, acceptVars, loopVars
<1>4. CASE LoopDestroyed
  <2>1. pc = "destroy" /\ idx \in Loop /\ lpc[idx] = "exited" /\ m_sessions[idx] = {}
    BY <1>4 DEF LoopDestroyed, ShutdownInv, AcceptorInv, QuitPhase
  <2>2. UNCHANGED <<lpc, m_sessions>> /\ pc' # "destroy"
    BY <1>4 DEF LoopDestroyed, loopVars, registryVars
  <2>3. DestroyedLoops' = DestroyedLoops \cup {idx}
    BY <1>4, <2>1 DEF LoopDestroyed, DestroyedLoops, Loop
  <2> QED  BY <2>1, <2>2, <2>3 DEF ShutdownInv
<1>5. CASE Sweep
  BY <1>5 DEF Sweep, ShutdownInv, DestroyedLoops, loopVars, registryVars
<1>6. CASE pc' \notin {"join", "destroy", "sweep", "returned"}
  BY <1>6 DEF ShutdownInv, DestroyedLoops
<1> QED
  BY <1>1, <1>2, <1>3, <1>4, <1>5, <1>6
     DEF AcceptStep, accept4, LeaveAcceptLoop, LimitConnections, LoadBest, CompareNext, NewServerSession,
         NewServerSessionFails, RegisterInsert, RegisterEpollAdd, RegisterEpollAddFails, RegisterCount,
         StoreQuit, ScanOn

(***************************************************************************)
(* A loop thread takes no step after its end, and registers nothing.       *)
(***************************************************************************)
LEMMA LoopShutdownInv ==
    ASSUME IInv, NEW l \in Loop, LoopStep(l)
    PROVE  ShutdownInv'
<1> USE DEF IInv, TypeOK
<1>1. lpc[l] # "exited" /\ UNCHANGED <<pc, idx>> /\ \A k \in Loop : k # l => lpc'[k] = lpc[k]
  <2>1. \A k \in Loop : k # l => lpc'[k] = lpc[k]
    BY LoopLocals
  <2>2. UNCHANGED <<pc, idx>>
    BY DEF LoopStep, LoopSessionStep, epoll_wait, EventsProcessed, eventfd_read, ScanDone, NextIteration,
           processEvents, wakeup, timeout, NotYet, ScanStep, DeleteBegin, DeleteEnd, acceptVars
  <2>3. ASSUME NEW s \in Session, ScanStep(l, s)
        PROVE  lpc[l] # "exited"
    BY <2>3 DEF ScanStep, Scanned
  <2>4. lpc[l] # "exited"
    BY <2>3 DEF LoopStep, LoopSessionStep, epoll_wait, EventsProcessed, eventfd_read, ScanDone, NextIteration,
                processEvents, wakeup, timeout, NotYet, DeleteBegin, DeleteEnd
  <2> QED  BY <2>1, <2>2, <2>4
<1>3. \A k \in Loop : m_sessions'[k] \subseteq m_sessions[k]
  <2>1. ASSUME NEW s \in Session, Handles(l, s)
        PROVE  \A k \in Loop : m_sessions'[k] \subseteq m_sessions[k]
    <3>1. UNCHANGED m_sessions \/ m_sessions' = [m_sessions EXCEPT ![l] = @ \ {s}]
      BY <2>1, HandledRunsOrPostpones DEF Runs, Postpones
    <3> QED  BY <3>1 DEF RegistryOK
  <2>2. ASSUME NEW s \in Session, DeleteBegin(l, s)
        PROVE  \A k \in Loop : m_sessions'[k] \subseteq m_sessions[k]
    <3>1. m_sessions' = [m_sessions EXCEPT ![l] = @ \ {s}]
      BY <2>2 DEF DeleteBegin, ServerSessionDtor, Erase
    <3> QED  BY <3>1 DEF RegistryOK
  <2>3. CASE UNCHANGED m_sessions
    BY <2>3
  <2> QED
    BY <2>1, <2>2, <2>3
       DEF LoopStep, LoopSessionStep, Handles, epoll_wait, EventsProcessed, eventfd_read, ScanDone, NextIteration,
           NotYet, DeleteEnd, registryVars
<1>4. DestroyedLoops' = DestroyedLoops /\ DestroyedLoops \subseteq Loop
  BY <1>1 DEF DestroyedLoops
<1> QED  BY <1>1, <1>3, <1>4 DEF ShutdownInv, AcceptorInv, QuitPhase, RegistryOK
=============================================================================
