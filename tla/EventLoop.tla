------------------------------ MODULE EventLoop ------------------------------
(***************************************************************************)
(* SessionsEventLoop::loop and the ServerSession methods it calls.  One    *)
(* iteration of the loop is: epoll_wait, processEvents for every event,    *)
(* drain the eventfd, snapshot m_sessions, wake up and time out sessions,  *)
(* delete the postponed ones.                                              *)
(***************************************************************************)
EXTENDS SessionState

(***************************************************************************)
(* epoll_wait returns for a socket with an unreported edge, for the        *)
(* eventfd, or because the earliest deadline the last scan saw has passed  *)
(* (watched is empty when that scan left the timeout at -1).               *)
(***************************************************************************)
Reportable(l) ==
    {f \in Fd : /\ interest[f] # Null
                /\ owner[interest[f]] = l
                /\ ready[f] # "none"}

epoll_wait(l) ==
    /\ lpc[l] = "wait"
    /\ \/ Reportable(l) # {}
       \/ eventFd[l] # Zero
       \/ \E s \in watched[l] : dl[s] # "armed"
    /\ events' = [events EXCEPT ![l] =
                      {<<interest[f], ready[f]>> : f \in Reportable(l)}]
    /\ ready' = [f \in Fd |-> IF f \in Reportable(l) THEN "none" ELSE ready[f]]
    /\ wokeup' = [wokeup EXCEPT ![l] = eventFd[l] # Zero]
    /\ watched' = [watched EXCEPT ![l] = {}]
    /\ lpc' = [lpc EXCEPT ![l] = "process"]
    /\ UNCHANGED <<serverVars, acceptVars, objectVars, registryVars,
                   signalVars, woken, todo, cur, openFds, ticket>>

(***************************************************************************)
(* A signal interrupts epoll_wait: continue, which tests m_quit.           *)
(***************************************************************************)
Interrupted(l) ==
    /\ lpc[l] = "wait" /\ m_quit[l]
    /\ lpc' = [lpc EXCEPT ![l] = "exited"]
    /\ UNCHANGED <<serverVars, acceptVars, objectVars, registryVars,
                   signalVars, events, wokeup, woken, todo, watched, cur,
                   kernelVars, ticket>>

(***************************************************************************)
(* processEvents.  With workload balancing the events are sorted by the    *)
(* sessions' order(), otherwise they come as the kernel lists them.        *)
(***************************************************************************)
ServedNext(l, s) ==
    WorkloadBalancing => \A e \in events[l] : ord[s] <= ord[e[1]]

processEvents(l, s, e) ==
    /\ lpc[l] = "process"
    /\ <<s, e>> \in events[l] /\ ServedNext(l, s)
    /\ \/ /\ e = "hup"
          /\ quitIoLoop(l, s)
          /\ deleteLater(l, s)
          /\ UNCHANGED <<dl, ready>>
       \/ /\ e = "io" /\ io[s] # "done"
          /\ Resume(l, s)
       \/ /\ e = "io" /\ io[s] = "done"
          /\ deleteLater(l, s)
          /\ UNCHANGED <<io, dl, ready, ticket>>
    /\ events' = [events EXCEPT ![l] = @ \ {<<s, e>>}]
    /\ UNCHANGED <<serverVars, acceptVars, st, peer, owner, fd, ord,
                   signalVars, lpc, wokeup, woken, todo, watched, cur,
                   openFds>>

(***************************************************************************)
(* The sessions are copied out of m_sessions under m_sessionsMutex.        *)
(***************************************************************************)
SnapshotTrustingTheEventFd(l) ==
    /\ todo' = [todo EXCEPT ![l] = m_sessions[l] \cup woken[l]]
    /\ lpc' = [lpc EXCEPT ![l] = "scan"]

Snapshot(l) ==
    /\ todo' = [todo EXCEPT ![l] = m_sessions[l]]
    /\ lpc' = [lpc EXCEPT ![l] = "scan"]

EventsProcessed(l) ==
    /\ lpc[l] = "process" /\ events[l] = {}
    /\ IF wokeup[l]
         THEN lpc' = [lpc EXCEPT ![l] = "drain"] /\ UNCHANGED todo
         ELSE Snapshot(l)
    /\ UNCHANGED <<serverVars, acceptVars, objectVars, registryVars,
                   signalVars, events, wokeup, woken, watched, cur,
                   kernelVars, ticket>>

(***************************************************************************)
(* while (eventfd_read(m_eventFd, &data) == 0) if (data != 1) ...          *)
(***************************************************************************)
eventfd_read(l) ==
    /\ lpc[l] = "drain"
    /\ IF eventFd[l] = Zero
         THEN Snapshot(l) /\ UNCHANGED <<eventFd, woken>>
         ELSE /\ woken' = [woken EXCEPT ![l] = @ \cup WokenBy(eventFd[l])]
              /\ eventFd' = [eventFd EXCEPT ![l] = Zero]
              /\ UNCHANGED <<lpc, todo>>
    /\ UNCHANGED <<serverVars, acceptVars, objectVars, registryVars, m_quit,
                   events, wokeup, watched, cur, kernelVars, ticket>>

(***************************************************************************)
(* The scan takes the sessions of the snapshot one by one: wakeup() for    *)
(* one the eventfd named, then nextTimeout() and, past it, timeout().      *)
(***************************************************************************)
wakeup(l, s) ==
    /\ lpc[l] = "scan" /\ s \in todo[l] /\ s \in woken[l]
    /\ IF io[s] # "done"
         THEN Resume(l, s)
         ELSE deleteLater(l, s) /\ UNCHANGED <<io, dl, ready, ticket>>
    /\ cur' = [cur EXCEPT ![l] = s]
    /\ lpc' = [lpc EXCEPT ![l] = "expiry"]
    /\ UNCHANGED <<serverVars, acceptVars, st, peer, owner, fd, ord,
                   signalVars, events, wokeup, woken, todo, watched, openFds>>

Scanned(l, s) ==
    \/ lpc[l] = "scan" /\ s \in todo[l] /\ s \notin woken[l]
    \/ lpc[l] = "expiry" /\ s = cur[l]

ScanStep(l, s) ==
    /\ Scanned(l, s)
    /\ lpc' = [lpc EXCEPT ![l] = "scan"]
    /\ todo' = [todo EXCEPT ![l] = @ \ {s}]
    /\ cur' = [cur EXCEPT ![l] = Null]
    /\ UNCHANGED <<serverVars, acceptVars, st, peer, owner, fd, ord, dl,
                   signalVars, events, wokeup, woken, kernelVars>>

timeout(l, s) ==
    /\ ScanStep(l, s)
    /\ dl[s] = "expired"
    /\ quitIoLoop(l, s)
    /\ deleteLater(l, s)
    /\ UNCHANGED watched

NotYet(l, s) ==
    /\ ScanStep(l, s)
    /\ dl[s] # "expired"
    /\ watched' = IF dl[s] = "armed"
                    THEN [watched EXCEPT ![l] = @ \cup {s}] ELSE watched
    /\ UNCHANGED <<io, registryVars, ticket>>

ScanDone(l) ==
    /\ lpc[l] = "scan" /\ todo[l] = {}
    /\ lpc' = [lpc EXCEPT ![l] = "reap"]
    /\ woken' = [woken EXCEPT ![l] = {}]
    /\ wokeup' = [wokeup EXCEPT ![l] = FALSE]
    /\ UNCHANGED <<serverVars, acceptVars, objectVars, registryVars,
                   signalVars, events, todo, watched, cur, kernelVars, ticket>>

-----------------------------------------------------------------------------
(***************************************************************************)
(* The postponed sessions are deleted with m_deleteLaterMutex, a spin lock *)
(* that is not recursive, held.  A coroutine that had to be ended here and *)
(* failed would call deleteLater and spin on the lock of its own thread.   *)
(* The set is cleared after the last one; nothing reads it before that.    *)
(***************************************************************************)
DeleteBegin(l, s) ==
    /\ lpc[l] = "reap" /\ s \in m_deleteLater[l]
    /\ ServerSessionDtor(l, s)
    /\ \E p \in IF io[s] = "done" THEN {"dtor"} ELSE {"dtor", "spin"} :
          lpc' = [lpc EXCEPT ![l] = p]
    /\ st' = [st EXCEPT ![s] = "closed"]
    /\ cur' = [cur EXCEPT ![l] = s]
    /\ m_deleteLater' = [m_deleteLater EXCEPT ![l] = @ \ {s}]
    /\ UNCHANGED <<serverVars, acceptVars, peer, owner, fd, ord, dl,
                   signalVars, events, wokeup, woken, todo, watched>>

(***************************************************************************)
(* ~BasicServerSession.                                                    *)
(***************************************************************************)
DeleteEnd(l, s) ==
    /\ lpc[l] = "dtor" /\ s = cur[l]
    /\ serverSessionDeleted(s)
    /\ Free(s)
    /\ lpc' = [lpc EXCEPT ![l] = "reap"]
    /\ cur' = [cur EXCEPT ![l] = Null]
    /\ UNCHANGED <<m_shutdown, acceptVars, registryVars, signalVars, events,
                   wokeup, woken, todo, watched, kernelVars, ticket>>

(***************************************************************************)
(* while (!m_quit): the end of an iteration, and the start of the thread.  *)
(***************************************************************************)
QuitBeforeDeleting(l) ==
    /\ lpc[l] = "reap" /\ (m_deleteLater[l] = {} \/ m_quit[l])
    /\ lpc' = [lpc EXCEPT ![l] = IF m_quit[l] THEN "exited" ELSE "wait"]
    /\ UNCHANGED <<serverVars, acceptVars, objectVars, registryVars,
                   signalVars, events, wokeup, woken, todo, watched, cur,
                   kernelVars, ticket>>

NextIteration(l) ==
    /\ lpc[l] = "reap" /\ m_deleteLater[l] = {}
    /\ lpc' = [lpc EXCEPT ![l] = IF m_quit[l] THEN "exited" ELSE "wait"]
    /\ UNCHANGED <<serverVars, acceptVars, objectVars, registryVars,
                   signalVars, events, wokeup, woken, todo, watched, cur,
                   kernelVars, ticket>>

LoopSessionStep(l, s) ==
    \/ \E e \in {"io", "hup"} : processEvents(l, s, e)
    \/ wakeup(l, s)
    \/ timeout(l, s)
    \/ NotYet(l, s)
    \/ DeleteBegin(l, s)
    \/ DeleteEnd(l, s)

LoopStep(l) ==
    \/ epoll_wait(l)
    \/ EventsProcessed(l)
    \/ eventfd_read(l)
    \/ ScanDone(l)
    \/ NextIteration(l)
    \/ \E s \in Session : LoopSessionStep(l, s)
=============================================================================
