---------------------------- MODULE SessionState ----------------------------
(***************************************************************************)
(* The state shared by the accept thread (Server::exec), the event loop    *)
(* threads (SessionsEventLoop::loop) and the session objects               *)
(* (ServerSession), with the operations both kinds of thread call.         *)
(*                                                                         *)
(* A session is identified by its address: a member of Session names a     *)
(* piece of memory that `new` hands out and `delete` gives back.           *)
(***************************************************************************)
EXTENDS Integers, FiniteSets

CONSTANTS
    Session,              \* addresses a ServerSession can be allocated at
    Fd,                   \* descriptor numbers accept4 can return
    Ip,                   \* peer addresses
    NumLoops,             \* eventLoopsSize
    MaxConnectionsPerIp,  \* max_connections_per_ip
    CounterMod,           \* 2^32, the modulus of std::atomic_uint32_t
    WorkloadBalancing,    \* workload_balancing
    FailPoints,           \* the calls that may fail while a session is set up
    WakeSessions,         \* sessions whose handlers hand out a Wakeupper
    AddressReuse,         \* may `new` return an address a Wakeupper still names?
    Null

Loop == 1..NumLoops

(***************************************************************************)
(* The eventfd holds nothing, a sum of several writes, the 1 written by    *)
(* shutdown(), or one session's address.                                   *)
(***************************************************************************)
Zero == "zero"
Many == "many"
Quit == "quit"

EventFdValue == {Zero, Many, Quit} \cup Session

ASSUME ConstantsAssumption ==
    /\ NumLoops \in Nat \ {0}
    /\ MaxConnectionsPerIp \in Nat
    /\ IsFiniteSet(Session)
    /\ CounterMod \in Nat /\ CounterMod > Cardinality(Session)
    /\ WorkloadBalancing \in BOOLEAN
    /\ FailPoints \subseteq {"new", "setsockopt", "epoll_add"}
    /\ WakeSessions \subseteq Session
    /\ AddressReuse \in BOOLEAN
    /\ Null \notin Session \cup Fd \cup Ip
    /\ {Zero, Many, Quit} \cap Session = {}

VARIABLES
    \* Server
    m_shutdown,          \* the flag exitSignalHandler sets
    m_activeSessions,    \* Server::m_activeSessions
    m_connectionsPerIp,  \* Server::m_connectionsPerIp, an absent entry being 0
    \* locals of Server::exec
    pc, sock, addr, order, bestLoop, idx, seen, newSession,
    \* session objects
    st,      \* is the memory "free", holding a "live" object, or one whose
             \* destructor has "closed" the socket
    peer,    \* m_peerAddr
    owner,   \* m_eventLoop
    fd,      \* m_sock
    ord,     \* m_order
    io,      \* the coroutine behind m_ioYield: "fresh", "suspended" or "done"
    dl,      \* nextTimeout(): "none" (TimePoint{}), "armed" or "expired"
    \* event loops
    m_sessions,       \* SessionsEventLoop::m_sessions
    loopActive,       \* SessionsEventLoop::m_activeSessions
    m_deleteLater,    \* SessionsEventLoop::m_deleteLaterObjects
    m_quit,           \* SessionsEventLoop::m_quit
    eventFd,          \* the counter behind m_eventFd
    \* locals of SessionsEventLoop::loop
    lpc, events, wokeup, woken, todo, watched, cur,
    \* kernel
    openFds,   \* descriptors in use for connections
    interest,  \* the epoll interest lists: the data.ptr registered for a socket
    ready,     \* the edge epoll_wait has not reported: "none", "io" or "hup"
    \* worker threads
    ticket     \* the event loops whose eventfd a Wakeupper will be used on

serverVars == <<m_shutdown, m_activeSessions, m_connectionsPerIp>>
acceptVars == <<pc, sock, addr, order, bestLoop, idx, seen, newSession>>
objectVars == <<st, peer, owner, fd, ord, io, dl>>
registryVars == <<m_sessions, loopActive, m_deleteLater, interest>>
signalVars == <<m_quit, eventFd>>
loopVars == <<lpc, events, wokeup, woken, todo, watched, cur>>
kernelVars == <<openFds, ready>>
vars == <<serverVars, acceptVars, objectVars, registryVars, signalVars,
          loopVars, kernelVars, ticket>>

-----------------------------------------------------------------------------
(* eventfd(0, EFD_NONBLOCK): a write adds to the counter and a read returns *)
(* the sum and resets it.  The values written are addresses and 1, so the   *)
(* sum of two or more of them is no session's address and is not 1.         *)

EventFdWrite(v, x) == IF v = Zero THEN x ELSE Many

(***************************************************************************)
(* A value read from the eventfd names the session it is the address of.   *)
(***************************************************************************)
WakeAll(v) == Session
WokenBy(v) == {v} \cap Session

-----------------------------------------------------------------------------
(***************************************************************************)
(* unregisterSession: erase the session from m_sessions (and return if it  *)
(* is not there), EPOLL_CTL_DEL its socket (throw when the descriptor is   *)
(* not in this loop's interest list), and only then count down.            *)
(***************************************************************************)
EpollDelSucceeds(l, s) ==
    /\ fd[s] # Null
    /\ interest[fd[s]] # Null
    /\ owner[interest[fd[s]]] = l

SignedCountDown(n) == n - 1
CountDown(n) == (n - 1) % CounterMod

ForgottenCountUp(n) == n
CountUp(n) == (n + 1) % CounterMod

Unregisters(l, s) == s \in m_sessions[l] /\ EpollDelSucceeds(l, s)

KeepRegistered(l, s) == UNCHANGED m_sessions
Erase(l, s) == m_sessions' = [m_sessions EXCEPT ![l] = @ \ {s}]

unregisterSession(l, s) ==
    /\ Erase(l, s)
    /\ IF Unregisters(l, s)
         THEN /\ interest' = [interest EXCEPT ![fd[s]] = Null]
              /\ loopActive' = [loopActive EXCEPT ![l] = CountDown(@)]
         ELSE UNCHANGED <<interest, loopActive>>

deleteLater(l, s) ==
    /\ unregisterSession(l, s)
    /\ m_deleteLater' = [m_deleteLater EXCEPT ![l] = @ \cup {s}]

(***************************************************************************)
(* Closing a descriptor frees its number and drops it from the interest    *)
(* lists together with its pending edges.                                  *)
(***************************************************************************)
CloseFd(f) ==
    /\ openFds' = openFds \ {f}
    /\ ready' = [ready EXCEPT ![f] = "none"]
    /\ interest' = [interest EXCEPT ![f] = Null]

(***************************************************************************)
(* serverSessionDeleted: out of m_activeSessions, and one connection less  *)
(* for the peer (the entry is erased when it reaches 0).                   *)
(***************************************************************************)
ForgottenConnection(s) ==
    /\ m_activeSessions' = m_activeSessions \ {s}
    /\ UNCHANGED m_connectionsPerIp

serverSessionDeleted(s) ==
    /\ m_activeSessions' = m_activeSessions \ {s}
    /\ m_connectionsPerIp' = [m_connectionsPerIp EXCEPT ![peer[s]] = @ - 1]

(***************************************************************************)
(* The memory of s is given back: none of its fields means anything.       *)
(***************************************************************************)
Free(s) ==
    /\ st' = [st EXCEPT ![s] = "free"]
    /\ peer' = [peer EXCEPT ![s] = Null]
    /\ owner' = [owner EXCEPT ![s] = 0]
    /\ fd' = [fd EXCEPT ![s] = Null]
    /\ ord' = [ord EXCEPT ![s] = 0]
    /\ io' = [io EXCEPT ![s] = "done"]
    /\ dl' = [dl EXCEPT ![s] = "none"]

-----------------------------------------------------------------------------
(***************************************************************************)
(* Running the coroutine of s (ServerSession::ioLoop) on loop l's thread,  *)
(* from where it stands to its next suspension or its end.  What it does   *)
(* in between is the subject of HttpSession; here it matters that it       *)
(*   "yield"s, having set or kept its timeout,                             *)
(*   "finish"es: the keep-alive loop ended and shut the socket down, which *)
(*       epoll reports as a hang-up, or                                    *)
(*   "fail"s: an exception left the stream and ioLoop called deleteLater.  *)
(* In any case it may have started work on another thread, leaving a       *)
(* Wakeupper there.                                                        *)
(***************************************************************************)
HandsOutWakeupper(l, s) ==
    \/ UNCHANGED ticket
    \/ s \in WakeSessions /\ ticket' = [ticket EXCEPT ![s] = @ \cup {l}]

(***************************************************************************)
(* The edge a socket has after ::shutdown(sock, SHUT_RDWR).                *)
(***************************************************************************)
NotShutDown(edge) == edge
EdgeOfShutdown(edge) == "hup"

SetsTimeout(s) ==
    \E d \in {"none", "armed", dl[s]} : dl' = [dl EXCEPT ![s] = d]

Resume(l, s) ==
    /\ HandsOutWakeupper(l, s)
    /\ SetsTimeout(s)
    /\ \/ /\ io' = [io EXCEPT ![s] = "suspended"]
          /\ UNCHANGED <<registryVars, ready>>
       \/ /\ io' = [io EXCEPT ![s] = "done"]
          /\ ready' = [ready EXCEPT ![fd[s]] = EdgeOfShutdown(@)]
          /\ UNCHANGED registryVars
       \/ /\ io' = [io EXCEPT ![s] = "done"]
          /\ deleteLater(l, s)
          /\ UNCHANGED ready

(***************************************************************************)
(* quitIoLoop(ec): resume the coroutine with the error until it has ended. *)
(* Its callers unregister the session next, so that a hang-up it caused    *)
(* or a deleteLater it called adds nothing to what they do.                *)
(***************************************************************************)
LeaveSuspended(l, s) == UNCHANGED <<io, ticket>>

quitIoLoop(l, s) ==
    /\ io' = [io EXCEPT ![s] = "done"]
    /\ IF io[s] # "done" THEN HandsOutWakeupper(l, s) ELSE UNCHANGED ticket

(***************************************************************************)
(* ~ServerSession up to its last statement: end the coroutine, unregister  *)
(* (which does nothing for a session deleteLater has unregistered), close  *)
(* the socket.  What is left is ~BasicServerSession.                       *)
(***************************************************************************)
ServerSessionDtor(l, s) ==
    /\ quitIoLoop(l, s)
    /\ Erase(l, s)
    /\ loopActive' = IF Unregisters(l, s)
                       THEN [loopActive EXCEPT ![l] = CountDown(@)]
                       ELSE loopActive
    /\ CloseFd(fd[s])

-----------------------------------------------------------------------------
(***************************************************************************)
(* What the surroundings do.                                               *)
(***************************************************************************)

(***************************************************************************)
(* The accept thread has constructed s and is not done registering it.     *)
(***************************************************************************)
Registering(s) == newSession = s

(***************************************************************************)
(* Time passes a deadline.  Every timeout is whole seconds, and from the   *)
(* end of the constructor to the end of registerSession there are three    *)
(* calls that do not block: the deadline of the session being registered   *)
(* does not pass meanwhile.  Nobody looks at the deadline of a session     *)
(* that is not in m_sessions.                                              *)
(***************************************************************************)
Expire(s) ==
    /\ \E l \in Loop : s \in m_sessions[l]
    /\ dl[s] = "armed" /\ ~Registering(s)
    /\ dl' = [dl EXCEPT ![s] = "expired"]
    /\ UNCHANGED <<serverVars, acceptVars, st, peer, owner, fd, ord, io,
                   registryVars, signalVars, loopVars, kernelVars, ticket>>

(***************************************************************************)
(* The peer of an open connection sends bytes or acknowledges some ("io"), *)
(* or hangs up or resets it ("hup": EPOLLRDHUP, EPOLLHUP and EPOLLERR are  *)
(* handled alike, and before the rest).  An edge is reported if the socket *)
(* is in an interest list, or will be.                                     *)
(***************************************************************************)
PeerActs(f, e) ==
    /\ f \in openFds
    /\ interest[f] # Null \/ f = sock
    /\ ready[f] = "none" \/ (ready[f] = "io" /\ e = "hup")
    /\ ready' = [ready EXCEPT ![f] = e]
    /\ UNCHANGED <<serverVars, acceptVars, objectVars, registryVars,
                   signalVars, loopVars, openFds, ticket>>

(***************************************************************************)
(* A worker thread calls Wakeupper::wakeup(): it writes the address of the *)
(* session to the eventfd of the loop, whatever became of the session.     *)
(***************************************************************************)
WorkerWakes(l, s) ==
    /\ l \in ticket[s]
    /\ ticket' = [ticket EXCEPT ![s] = @ \ {l}]
    /\ eventFd' = [eventFd EXCEPT ![l] = EventFdWrite(@, s)]
    /\ UNCHANGED <<serverVars, acceptVars, objectVars, registryVars, m_quit,
                   loopVars, kernelVars>>

(***************************************************************************)
(* SIGTERM or SIGINT: exitSignalHandler sets m_shutdown.                   *)
(***************************************************************************)
exitSignalHandler ==
    /\ ~m_shutdown
    /\ m_shutdown' = TRUE
    /\ UNCHANGED <<m_activeSessions, m_connectionsPerIp, acceptVars,
                   objectVars, registryVars, signalVars, loopVars,
                   kernelVars, ticket>>
=============================================================================
