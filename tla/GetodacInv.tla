---------------------------- MODULE GetodacInv ----------------------------
(***************************************************************************)
(* The inductive invariant behind the safety properties of Getodac.  It    *)
(* holds when wakeups in flight keep their addresses from being reused and *)
(* registering a socket with epoll does not fail (TidySetup).              *)
(***************************************************************************)
EXTENDS Getodac

TidySetup == AddressReuse = FALSE /\ "epoll_add" \notin FailPoints

AcceptPhase == {"accept", "limit", "load", "compare", "new", "insert",
                "epoll_add", "count"}
QuitPhase == {"store_quit", "write_quit", "join", "destroy"}

(***************************************************************************)
(* The locals of exec that are in scope.                                   *)
(***************************************************************************)
AcceptorInv ==
    /\ pc \in AcceptPhase \ {"accept"} => sock \in Fd /\ addr \in Ip
    /\ pc \in {"accept"} \cup QuitPhase \cup {"sweep", "returned"} => sock = Null
    /\ pc \in {"load", "compare", "new", "insert", "epoll_add", "count"} =>
          bestLoop \in Loop
    /\ pc \in {"load", "compare"} => idx \in Loop
    /\ pc \in QuitPhase => idx \in Loop
    /\ IF pc \in {"insert", "epoll_add", "count"}
         THEN newSession \in Session ELSE newSession = Null

(***************************************************************************)
(* An object's fields are set as long as it exists, and m_activeSessions   *)
(* is the set of the objects that exist.                                   *)
(***************************************************************************)
ObjectInv ==
    \A s \in Session :
        /\ st[s] # "free" =>
              owner[s] \in Loop /\ fd[s] \in Fd /\ peer[s] \in Ip
        /\ st[s] = "free" => owner[s] = 0 /\ fd[s] = Null
        /\ pc # "returned" => (s \in m_activeSessions <=> st[s] # "free")
        /\ pc = "returned" => s \notin m_activeSessions

(***************************************************************************)
(* Where a live object is known: in m_sessions of its loop, postponed      *)
(* there with its coroutine ended, or only to the accept thread.           *)
(***************************************************************************)
Placed(s) ==
    /\ \A l \in Loop : s \in m_sessions[l] => Live(l, s)
    /\ \A l \in Loop : s \in m_deleteLater[l] /\ lpc[l] # "exited" =>
          Live(l, s) /\ io[s] = "done" /\ s \notin m_sessions[l]
    /\ st[s] = "live" =>
          \/ s \in m_sessions[owner[s]]
          \/ s \in m_deleteLater[owner[s]] /\ lpc[owner[s]] # "exited"
          \/ newSession = s /\ pc = "insert"
    /\ st[s] = "closed" => lpc[owner[s]] = "dtor" /\ cur[owner[s]] = s

RegistryInv == \A s \in Session : Placed(s)

(***************************************************************************)
(* What a loop holds in its locals.                                        *)
(***************************************************************************)
Holds(l) ==
    /\ lpc[l] # "spin"
    /\ lpc[l] = "wait" => m_deleteLater[l] = {}
    /\ events[l] # {} => lpc[l] = "process"
    /\ \A e \in events[l] : Live(l, e[1])
    /\ todo[l] # {} => lpc[l] \in {"scan", "expiry"}
    /\ \A s \in todo[l] : Live(l, s)
    /\ lpc[l] = "expiry" => cur[l] \in todo[l]
    /\ lpc[l] = "dtor" =>
          /\ cur[l] \in Session
          /\ st[cur[l]] = "closed" /\ owner[cur[l]] = l
    /\ lpc[l] = "exited" => m_quit[l]
    /\ m_quit[l] => pc \notin AcceptPhase

LoopInv == \A l \in Loop : Holds(l)

(***************************************************************************)
(* Sockets: open for every live session and for the accept thread, each    *)
(* used once, and in an interest list for every registered session.        *)
(***************************************************************************)
SocketInv ==
    /\ \A s \in Session : st[s] = "live" => fd[s] \in openFds
    /\ \A s, r \in Session :
          st[s] = "live" /\ st[r] = "live" /\ fd[s] = fd[r] => s = r
    /\ pc \in {"limit", "load", "compare", "new"} =>
          /\ sock \in openFds
          /\ \A s \in Session : st[s] = "live" => fd[s] # sock
    /\ \A f \in Fd : interest[f] # Null =>
          /\ st[interest[f]] = "live" /\ fd[interest[f]] = f
          /\ interest[f] \in m_sessions[owner[interest[f]]]
    /\ \A l \in Loop : \A s \in m_sessions[l] :
          interest[fd[s]] = s \/ (newSession = s /\ pc = "epoll_add")

(***************************************************************************)
(* The session being registered is untouched: it cannot be resumed before  *)
(* epoll knows its socket, it cannot expire, and no Wakeupper names it.    *)
(***************************************************************************)
RegistrationInv ==
    /\ pc \in {"insert", "epoll_add"} =>
          /\ Live(bestLoop, newSession)
          /\ fd[newSession] = sock
          /\ io[newSession] = "fresh" /\ dl[newSession] = "armed"
          /\ interest[sock] = Null
          /\ \A l \in Loop : \A e \in events[l] : e[1] # newSession
    /\ pc = "insert" =>
          \A l \in Loop : newSession \notin m_sessions[l] \cup todo[l]
    /\ pc = "epoll_add" => newSession \in m_sessions[bestLoop]
    /\ \A s \in Session : st[s] = "live" /\ io[s] = "fresh" => ~Outstanding(s)

(***************************************************************************)
(* The loops after the one being destroyed are gone.                       *)
(***************************************************************************)
DestroyedLoops ==
    CASE pc \in {"join", "destroy"} -> {l \in Loop : l > idx}
      [] pc \in {"sweep", "returned"} -> Loop
      [] OTHER -> {}

ShutdownInv ==
    /\ pc = "destroy" => lpc[idx] = "exited"
    /\ \A l \in DestroyedLoops : lpc[l] = "exited" /\ m_sessions[l] = {}

IInv == /\ TypeOK /\ AcceptorInv /\ ObjectInv /\ RegistryInv /\ LoopInv
        /\ SocketInv /\ RegistrationInv /\ ShutdownInv
=============================================================================
