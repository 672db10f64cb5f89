------------------------------ MODULE Getodac ------------------------------
(***************************************************************************)
(* The accept thread and the event loop threads together: the life of      *)
(* every session from accept4 to the end of its destructor, over any       *)
(* number of connections, and the server's shutdown.                       *)
(***************************************************************************)
EXTENDS EventLoop, Acceptor

Init ==
    /\ m_shutdown = FALSE /\ m_activeSessions = {}
    /\ m_connectionsPerIp = [a \in Ip |-> 0]
    /\ pc = "accept" /\ sock = Null /\ addr = Null /\ order = 0
    /\ bestLoop = 0 /\ idx = 0 /\ seen = 0 /\ newSession = Null
    /\ st = [s \in Session |-> "free"]
    /\ peer = [s \in Session |-> Null]
    /\ owner = [s \in Session |-> 0]
    /\ fd = [s \in Session |-> Null]
    /\ ord = [s \in Session |-> 0]
    /\ io = [s \in Session |-> "done"]
    /\ dl = [s \in Session |-> "none"]
    /\ m_sessions = [l \in Loop |-> {}]
    /\ loopActive = [l \in Loop |-> 0]
    /\ m_deleteLater = [l \in Loop |-> {}]
    /\ m_quit = [l \in Loop |-> FALSE]
    /\ eventFd = [l \in Loop |-> Zero]
    /\ lpc = [l \in Loop |-> "reap"]
    /\ events = [l \in Loop |-> {}]
    /\ wokeup = [l \in Loop |-> FALSE]
    /\ woken = [l \in Loop |-> {}]
    /\ todo = [l \in Loop |-> {}]
    /\ watched = [l \in Loop |-> {}]
    /\ cur = [l \in Loop |-> Null]
    /\ openFds = {}
    /\ interest = [f \in Fd |-> Null]
    /\ ready = [f \in Fd |-> "none"]
    /\ ticket = [s \in Session |-> {}]

Environment ==
    \/ \E s \in Session : Expire(s)
    \/ \E f \in Fd, e \in {"io", "hup"} : PeerActs(f, e)
    \/ \E l \in Loop, s \in Session : WorkerWakes(l, s)
    \/ \E l \in Loop : Interrupted(l)
    \/ exitSignalHandler

(***************************************************************************)
(* exec has returned and the process may exit.                             *)
(***************************************************************************)
Terminated == pc = "returned" /\ UNCHANGED vars

Next ==
    \/ AcceptStep
    \/ \E l \in Loop : LoopStep(l)
    \/ Environment
    \/ Terminated

Spec == Init /\ [][Next]_vars

(***************************************************************************)
(* Every thread is scheduled and time passes.  Nothing is assumed of the   *)
(* peers, of the worker threads, of signals or of the operator.            *)
(***************************************************************************)
Fairness ==
    /\ WF_vars(AcceptStep)
    /\ \A l \in Loop : WF_vars(LoopStep(l))
    /\ \A s \in Session : WF_vars(Expire(s))

FairSpec == Spec /\ Fairness

-----------------------------------------------------------------------------
(***************************************************************************)
(* The type invariant, one part for each group of variables.               *)
(***************************************************************************)
FlagsOK ==
    /\ m_shutdown \in BOOLEAN
    /\ m_quit \in [Loop -> BOOLEAN]
    /\ wokeup \in [Loop -> BOOLEAN]

ServerOK ==
    /\ m_activeSessions \subseteq Session
    /\ m_connectionsPerIp \in [Ip -> Int]

AcceptOK ==
    /\ pc \in {"accept", "limit", "load", "compare", "new", "insert",
               "epoll_add", "count", "store_quit", "write_quit", "join",
               "destroy", "sweep", "returned"}
    /\ sock \in Fd \cup {Null}
    /\ addr \in Ip \cup {Null}
    /\ order \in Int
    /\ bestLoop \in Loop \cup {0}
    /\ idx \in 0..(NumLoops + 1)
    /\ seen \in 0..(CounterMod - 1)
    /\ newSession \in Session \cup {Null}

ObjectsOK ==
    /\ st \in [Session -> {"free", "live", "closed"}]
    /\ peer \in [Session -> Ip \cup {Null}]
    /\ owner \in [Session -> Loop \cup {0}]
    /\ fd \in [Session -> Fd \cup {Null}]
    /\ ord \in [Session -> Int]
    /\ io \in [Session -> {"fresh", "suspended", "done"}]
    /\ dl \in [Session -> {"none", "armed", "expired"}]

RegistryOK ==
    /\ m_sessions \in [Loop -> SUBSET Session]
    /\ loopActive \in [Loop -> 0..(CounterMod - 1)]
    /\ m_deleteLater \in [Loop -> SUBSET Session]
    /\ interest \in [Fd -> Session \cup {Null}]

LoopsOK ==
    /\ lpc \in [Loop -> {"wait", "process", "drain", "scan", "expiry", "reap",
                         "dtor", "spin", "exited"}]
    /\ events \in [Loop -> SUBSET (Session \X {"io", "hup"})]
    /\ woken \in [Loop -> SUBSET Session]
    /\ todo \in [Loop -> SUBSET Session]
    /\ watched \in [Loop -> SUBSET Session]
    /\ cur \in [Loop -> Session \cup {Null}]

KernelOK ==
    /\ openFds \subseteq Fd
    /\ ready \in [Fd -> {"none", "io", "hup"}]
    /\ eventFd \in [Loop -> EventFdValue]
    /\ ticket \in [Session -> SUBSET Loop]

TypeOK == /\ FlagsOK /\ ServerOK /\ AcceptOK /\ ObjectsOK /\ RegistryOK
          /\ LoopsOK /\ KernelOK

(***************************************************************************)
(* An object a loop thread is about to use has not been deleted: the       *)
(* sessions of an epoll_wait batch, of a snapshot of m_sessions and of     *)
(* m_deleteLaterObjects are live objects of that loop.                     *)
(* (sessionseventloop.cpp:239-307)                                         *)
(***************************************************************************)
Live(l, s) == st[s] = "live" /\ owner[s] = l

LoopPointersLive ==
    \A l \in Loop :
        lpc[l] # "exited" =>
            /\ \A e \in events[l] : Live(l, e[1])
            /\ \A s \in todo[l] \cup m_deleteLater[l] : Live(l, s)
            /\ lpc[l] = "expiry" => Live(l, cur[l])

(***************************************************************************)
(* The object the accept thread is registering, which the loop can already *)
(* see in m_sessions, is not deleted or given another socket before        *)
(* EPOLL_CTL_ADD.  (sessionseventloop.cpp:116-126, serversession.cpp:40)   *)
(***************************************************************************)
RegisteredSessionAlive ==
    pc \in {"insert", "epoll_add"} =>
        st[newSession] = "live" /\ fd[newSession] = sock

(***************************************************************************)
(* Deleting under m_deleteLaterMutex never re-enters the spin lock: the    *)
(* coroutine of every postponed session has ended.                         *)
(* (sessionseventloop.cpp:303-307 with serversession.h:117-137, 200)       *)
(***************************************************************************)
PostponedHaveEnded ==
    \A l \in Loop :
        /\ lpc[l] # "spin"
        /\ lpc[l] # "exited" => \A s \in m_deleteLater[l] : io[s] = "done"

(***************************************************************************)
(* Every session owns its socket alone: until ~ServerSession closes it the *)
(* descriptor is open and no other session has the same number.            *)
(* (serversession.h:117-124, server.cpp:531-534, 548-562)                  *)
(***************************************************************************)
SocketOwned ==
    \A s \in Session : st[s] = "live" =>
        /\ fd[s] \in openFds
        /\ \A r \in Session \ {s} : st[r] = "live" => fd[r] # fd[s]

(***************************************************************************)
(* A session is in m_sessions exactly as long as epoll knows its socket,   *)
(* but for the moment the accept thread needs to add it: a session that is *)
(* polled is also scanned for its timeout.                                 *)
(* (sessionseventloop.cpp:116-129, 154-167)                                *)
(***************************************************************************)
PollingMatchesRegistry ==
    /\ \A l \in Loop : \A s \in m_sessions[l] :
          interest[fd[s]] = s \/ (newSession = s /\ pc = "epoll_add")
    /\ \A f \in Fd : interest[f] # Null =>
          interest[f] \in m_sessions[owner[interest[f]]]

(***************************************************************************)
(* m_connectionsPerIp counts the sessions of a peer that exist, and the    *)
(* one the accept thread is about to create: in particular the entry that  *)
(* serverSessionDeleted decrements is there (assert, server.cpp:605).      *)
(***************************************************************************)
Connections(a) == {s \in Session : st[s] # "free" /\ peer[s] = a}

Counted(a) == IF pc \in {"load", "compare", "new"} /\ addr = a THEN 1 ELSE 0

ConnectionsCounted ==
    \A a \in Ip :
        m_connectionsPerIp[a] = Cardinality(Connections(a)) + Counted(a)

(***************************************************************************)
(* A peer has at most one connection more than max_connections_per_ip, and *)
(* the session that is let in knows how many there were before.            *)
(* (server.cpp:529-536)                                                    *)
(***************************************************************************)
ConnectionsBounded ==
    /\ \A a \in Ip : m_connectionsPerIp[a] <= MaxConnectionsPerIp + 1
    /\ \A s \in Session : ord[s] <= MaxConnectionsPerIp

(***************************************************************************)
(* When the accept thread reads activeSessions() to find the least used    *)
(* loop, the counter of every loop is the number of its sessions; the      *)
(* wrap-around that a loop quicker than the accept thread causes between   *)
(* epoll_ctl and ++m_activeSessions is over by then.                       *)
(* (server.cpp:542-547, sessionseventloop.cpp:125-128)                     *)
(***************************************************************************)
ChoiceSeesTrueLoad ==
    pc \in {"load", "compare"} =>
        \A l \in Loop : loopActive[l] = Cardinality(m_sessions[l])

(***************************************************************************)
(* "Delete all active sessions" (server.cpp:574-576) finds none: it would  *)
(* erase from the set it iterates over and use destroyed event loops.      *)
(***************************************************************************)
NothingLeftToSweep ==
    pc = "sweep" => m_activeSessions = {} /\ \A s \in Session : st[s] = "free"

(***************************************************************************)
(* A Wakeupper resumes a session that has yielded, never one whose         *)
(* coroutine was not even started.                                         *)
(***************************************************************************)
WakeupReachesYielded ==
    \A l \in Loop : lpc[l] = "scan" =>
        \A s \in todo[l] \cap woken[l] : io[s] # "fresh"

-----------------------------------------------------------------------------
(***************************************************************************)
(* What a comment says.                                                    *)
(***************************************************************************)

(***************************************************************************)
(* "if we can't create a new session then just close the socket"           *)
(* (server.cpp:558-559): afterwards no session and no count is left of the *)
(* connection.                                                             *)
(***************************************************************************)
FailureJustClosesSocket ==
    /\ ConnectionsCounted
    /\ \A s \in Session : st[s] = "live" => fd[s] \in openFds

-----------------------------------------------------------------------------
(***************************************************************************)
(* A session whose deadline has passed is deleted, unless it makes         *)
(* progress and moves the deadline first.                                  *)
(***************************************************************************)
IdleSessionReaped ==
    \A s \in Session :
        (st[s] = "live" /\ dl[s] = "expired")
            ~> (st[s] # "live" \/ dl[s] # "expired")

(***************************************************************************)
(* A session whose coroutine has ended, or whose peer hung up, is deleted. *)
(***************************************************************************)
Finished(s) ==
    /\ st[s] = "live" /\ ~Registering(s)
    /\ io[s] = "done" \/ ready[fd[s]] = "hup"

FinishedSessionReaped == \A s \in Session : Finished(s) ~> st[s] = "free"

(***************************************************************************)
(* exitSignalHandler makes Server::exec return.                            *)
(***************************************************************************)
ShutdownCompletes == m_shutdown ~> pc = "returned"
=============================================================================
