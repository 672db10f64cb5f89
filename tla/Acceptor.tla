------------------------------ MODULE Acceptor ------------------------------
(***************************************************************************)
(* The accept thread: Server::exec from its "Wait for incoming             *)
(* connections" loop to its return, with registerSession, which it runs,   *)
(* and ~SessionsEventLoop, which it runs for every loop at the end.        *)
(*                                                                         *)
(* pc names the next call of exec.  Locals that went out of scope are      *)
(* reset, which merges states that differ in dead values only.             *)
(***************************************************************************)
EXTENDS SessionState

ForgetConnection ==
    /\ sock' = Null /\ addr' = Null /\ order' = 0
    /\ bestLoop' = 0 /\ idx' = 0 /\ seen' = 0 /\ newSession' = Null

(***************************************************************************)
(* An address `new` may return: free, and, unless AddressReuse says that   *)
(* this may happen, named by no Wakeupper in flight.                       *)
(***************************************************************************)
Outstanding(s) ==
    \/ ticket[s] # {}
    \/ \E l \in Loop : eventFd[l] = s \/ s \in woken[l]

Available(s) == st[s] = "free" /\ (AddressReuse \/ ~Outstanding(s))

(***************************************************************************)
(* accept4 returns a connection.  When the queue is empty the thread goes  *)
(* back to epoll_wait, whose timeout of 1000 ms brings it to the tests of  *)
(* m_shutdown without any event; both loops are the one place "accept".    *)
(* The sets Fd and Session bound how many connections there are at a time. *)
(***************************************************************************)
accept4(f, a) ==
    /\ pc = "accept" /\ ~m_shutdown
    /\ f \notin openFds /\ \E s \in Session : Available(s)
    /\ openFds' = openFds \cup {f}
    /\ sock' = f /\ addr' = a
    /\ pc' = "limit"
    /\ UNCHANGED <<serverVars, order, bestLoop, idx, seen, newSession,
                   objectVars, registryVars, signalVars, loopVars, ready,
                   ticket>>

LeaveAcceptLoop ==
    /\ pc = "accept" /\ m_shutdown
    /\ pc' = "store_quit" /\ idx' = 1
    /\ UNCHANGED <<serverVars, sock, addr, order, bestLoop, seen, newSession,
                   objectVars, registryVars, signalVars, loopVars, kernelVars,
                   ticket>>

(***************************************************************************)
(* The test and the increment under m_connectionsPerIpMutex.               *)
(***************************************************************************)
ScanOn(i) == IF i <= NumLoops THEN "load" ELSE "new"

TooLate(n) == n > MaxConnectionsPerIp + 1
TooManyConnections(n) == n > MaxConnectionsPerIp

CloseWithoutContinue ==
    /\ pc = "limit"
    /\ order' = m_connectionsPerIp[addr]
    /\ m_connectionsPerIp' = [m_connectionsPerIp EXCEPT ![addr] = @ + 1]
    /\ bestLoop' = 1 /\ idx' = 2 /\ pc' = ScanOn(2)
    /\ IF TooManyConnections(m_connectionsPerIp[addr])
         THEN CloseFd(sock) ELSE UNCHANGED <<openFds, ready, interest>>
    /\ UNCHANGED <<m_shutdown, m_activeSessions, sock, addr, seen, newSession,
                   objectVars, m_sessions, loopActive, m_deleteLater,
                   signalVars, loopVars, ticket>>

LimitConnections ==
    /\ pc = "limit"
    /\ IF TooManyConnections(m_connectionsPerIp[addr])
         THEN /\ CloseFd(sock)
              /\ ForgetConnection
              /\ pc' = "accept"
              /\ UNCHANGED m_connectionsPerIp
         ELSE /\ order' = m_connectionsPerIp[addr]
              /\ m_connectionsPerIp' = [m_connectionsPerIp EXCEPT ![addr] = @ + 1]
              /\ bestLoop' = 1 /\ idx' = 2
              /\ pc' = ScanOn(2)
              /\ UNCHANGED <<sock, addr, seen, newSession, openFds, ready,
                             interest>>
    /\ UNCHANGED <<m_shutdown, m_activeSessions, objectVars, m_sessions,
                   loopActive, m_deleteLater, signalVars, loopVars, ticket>>

(***************************************************************************)
(* Find the least used loop.  Each activeSessions() is an atomic load of   *)
(* its own; the event loops count down meanwhile.                          *)
(***************************************************************************)
LoadBest ==
    /\ pc = "load"
    /\ seen' = loopActive[bestLoop]
    /\ pc' = "compare"
    /\ UNCHANGED <<serverVars, sock, addr, order, bestLoop, idx, newSession,
                   objectVars, registryVars, signalVars, loopVars, kernelVars,
                   ticket>>

CompareNext ==
    /\ pc = "compare"
    /\ bestLoop' = IF seen > loopActive[idx] THEN idx ELSE bestLoop
    /\ idx' = idx + 1
    /\ seen' = 0
    /\ pc' = ScanOn(idx + 1)
    /\ UNCHANGED <<serverVars, sock, addr, order, newSession, objectVars,
                   registryVars, signalVars, loopVars, kernelVars, ticket>>

-----------------------------------------------------------------------------
(***************************************************************************)
(* new ServerSession: allocate, enter m_activeSessions                     *)
(* (serverSessionCreated), make the coroutine, set TCP_NODELAY and arm the *)
(* headers timeout.                                                        *)
(***************************************************************************)
DeadlineInThePast == "expired"
InitialDeadline == "armed"

NewServerSession(s) ==
    /\ pc = "new" /\ Available(s)
    /\ st' = [st EXCEPT ![s] = "live"]
    /\ peer' = [peer EXCEPT ![s] = addr]
    /\ owner' = [owner EXCEPT ![s] = bestLoop]
    /\ fd' = [fd EXCEPT ![s] = sock]
    /\ ord' = [ord EXCEPT ![s] = order]
    /\ io' = [io EXCEPT ![s] = "fresh"]
    /\ dl' = [dl EXCEPT ![s] = InitialDeadline]
    /\ m_activeSessions' = m_activeSessions \cup {s}
    /\ newSession' = s
    /\ pc' = "insert"
    /\ UNCHANGED <<m_shutdown, m_connectionsPerIp, sock, addr, order, bestLoop,
                   idx, seen, registryVars, signalVars, loopVars, kernelVars,
                   ticket>>

(***************************************************************************)
(* The constructor throws.  When setsockopt fails the base class has been  *)
(* constructed, and ~BasicServerSession undoes the accounting; when the    *)
(* allocation fails nothing does.  The handler closes the socket.          *)
(***************************************************************************)
NothingReleased(failure) == 0
ReleasedBy(failure) == IF failure = "setsockopt" THEN 1 ELSE 0

NewServerSessionFails(failure) ==
    /\ pc = "new" /\ failure \in FailPoints \cap {"new", "setsockopt"}
    /\ m_connectionsPerIp' =
          [m_connectionsPerIp EXCEPT ![addr] = @ - ReleasedBy(failure)]
    /\ CloseFd(sock)
    /\ ForgetConnection
    /\ pc' = "accept"
    /\ UNCHANGED <<m_shutdown, m_activeSessions, objectVars, m_sessions,
                   loopActive, m_deleteLater, signalVars, loopVars, ticket>>

(***************************************************************************)
(* registerSession: insert into m_sessions under the mutex, EPOLL_CTL_ADD, *)
(* ++m_activeSessions.  A fresh connection is writable, so that adding its *)
(* socket is an edge.                                                      *)
(***************************************************************************)
RegisterInsert ==
    /\ pc = "insert"
    /\ m_sessions' = [m_sessions EXCEPT ![bestLoop] = @ \cup {newSession}]
    /\ pc' = "epoll_add"
    /\ UNCHANGED <<serverVars, sock, addr, order, bestLoop, idx, seen,
                   newSession, objectVars, loopActive, m_deleteLater, interest,
                   signalVars, loopVars, kernelVars, ticket>>

InputOnly(edge) == edge
EdgeOfAdd(edge) == IF edge = "hup" THEN "hup" ELSE "io"

RegisterEpollAdd ==
    /\ pc = "epoll_add" /\ sock \in openFds
    /\ interest' = [interest EXCEPT ![sock] = newSession]
    /\ ready' = [ready EXCEPT ![sock] = EdgeOfAdd(@)]
    /\ pc' = "count"
    /\ UNCHANGED <<serverVars, sock, addr, order, bestLoop, idx, seen,
                   newSession, objectVars, m_sessions, loopActive,
                   m_deleteLater, signalVars, loopVars, openFds, ticket>>

(***************************************************************************)
(* EPOLL_CTL_ADD fails and registerSession throws; the handler closes the  *)
(* socket.  The session object stays where it has been entered.            *)
(***************************************************************************)
RegisterEpollAddFails ==
    /\ pc = "epoll_add"
    /\ "epoll_add" \in FailPoints \/ sock \notin openFds
    /\ CloseFd(sock)
    /\ ForgetConnection
    /\ pc' = "accept"
    /\ UNCHANGED <<serverVars, objectVars, m_sessions, loopActive,
                   m_deleteLater, signalVars, loopVars, ticket>>

RegisterCount ==
    /\ pc = "count"
    /\ loopActive' = [loopActive EXCEPT ![bestLoop] = CountUp(@)]
    /\ ForgetConnection
    /\ pc' = "accept"
    /\ UNCHANGED <<serverVars, objectVars, m_sessions, m_deleteLater, interest,
                   signalVars, loopVars, kernelVars, ticket>>

-----------------------------------------------------------------------------
(***************************************************************************)
(* SessionsEventLoop::shutdown() for every loop: m_quit first, then the    *)
(* eventfd.                                                                *)
(***************************************************************************)
StoreQuit ==
    /\ pc = "store_quit"
    /\ m_quit' = [m_quit EXCEPT ![idx] = TRUE]
    /\ pc' = "write_quit"
    /\ UNCHANGED <<serverVars, sock, addr, order, bestLoop, idx, seen,
                   newSession, objectVars, registryVars, eventFd, loopVars,
                   kernelVars, ticket>>

NoQuitWrite(v) == v
AfterQuitWrite(v) == EventFdWrite(v, Quit)

WriteQuit ==
    /\ pc = "write_quit"
    /\ eventFd' = [eventFd EXCEPT ![idx] = AfterQuitWrite(@)]
    /\ IF idx < NumLoops
         THEN pc' = "store_quit" /\ idx' = idx + 1
         ELSE pc' = "join" /\ UNCHANGED idx
    /\ UNCHANGED <<serverVars, sock, addr, order, bestLoop, seen, newSession,
                   objectVars, registryVars, m_quit, loopVars, kernelVars,
                   ticket>>

(***************************************************************************)
(* eventLoops.reset(): ~SessionsEventLoop for the last loop first.  Its    *)
(* call of shutdown() repeats what was done; it joins the thread and       *)
(* deletes the sessions still registered.                                  *)
(***************************************************************************)
Join ==
    /\ pc = "join" /\ lpc[idx] = "exited"
    /\ pc' = "destroy"
    /\ UNCHANGED <<serverVars, sock, addr, order, bestLoop, idx, seen,
                   newSession, objectVars, registryVars, signalVars, loopVars,
                   kernelVars, ticket>>

(***************************************************************************)
(* delete *session.  A coroutine that fails when it is ended postpones the *)
(* session on a loop that will never look at m_deleteLaterObjects again.   *)
(***************************************************************************)
DestroySession(s) ==
    /\ pc = "destroy" /\ s \in m_sessions[idx]
    /\ ServerSessionDtor(idx, s)
    /\ serverSessionDeleted(s)
    /\ Free(s)
    /\ \E lost \in IF io[s] = "done" THEN {{}} ELSE {{}, {s}} :
          m_deleteLater' = [m_deleteLater EXCEPT ![idx] = @ \cup lost]
    /\ UNCHANGED <<m_shutdown, acceptVars, signalVars, loopVars>>

LoopDestroyed ==
    /\ pc = "destroy" /\ m_sessions[idx] = {}
    /\ IF idx > 1 THEN pc' = "join" /\ idx' = idx - 1
                  ELSE pc' = "sweep" /\ idx' = 0
    /\ UNCHANGED <<serverVars, sock, addr, order, bestLoop, seen, newSession,
                   objectVars, registryVars, signalVars, loopVars, kernelVars,
                   ticket>>

(***************************************************************************)
(* "Delete all active sessions", when no event loop exists any more.       *)
(***************************************************************************)
Sweep ==
    /\ pc = "sweep"
    /\ m_activeSessions' = {}
    /\ pc' = "returned"
    /\ UNCHANGED <<m_shutdown, m_connectionsPerIp, sock, addr, order, bestLoop,
                   idx, seen, newSession, objectVars, registryVars, signalVars,
                   loopVars, kernelVars, ticket>>

AcceptStep ==
    \/ \E f \in Fd, a \in Ip : accept4(f, a)
    \/ LeaveAcceptLoop
    \/ LimitConnections
    \/ LoadBest
    \/ CompareNext
    \/ \E s \in Session : NewServerSession(s)
    \/ \E failure \in FailPoints : NewServerSessionFails(failure)
    \/ RegisterInsert
    \/ RegisterEpollAdd
    \/ RegisterEpollAddFails
    \/ RegisterCount
    \/ StoreQuit
    \/ WriteQuit
    \/ Join
    \/ \E s \in Session : DestroySession(s)
    \/ LoopDestroyed
    \/ Sweep
=============================================================================
