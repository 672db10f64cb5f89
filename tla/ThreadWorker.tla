---------------------------- MODULE ThreadWorker ----------------------------
(***************************************************************************)
(* Dracon::ThreadWorker: worker threads that take tasks from a stack, and  *)
(* its destructor, which sets m_quit, notifies and joins without locking   *)
(* m_lock.  A worker holds m_lock between testing the wait's condition and *)
(* sleeping, so that one in "block" keeps the others out.                  *)
(***************************************************************************)
EXTENDS Integers, Sequences

CONSTANTS
    Worker,
    Idle       \* no task

VARIABLES
    m_pendingTasks,   \* the stack, its top last
    wpc,              \* [Worker -> {"loop", "wait", "block", "sleep", "task", "ended"}]
    task,             \* [Worker -> task or Idle]
    m_quit,
    dpc,              \* ~ThreadWorker: "before", "notify", "join" or "joined"
    missed            \* the workers that had tested m_quit but did not yet
                      \* sleep when the destructor notified

workerVars == <<m_pendingTasks, wpc, task, m_quit, dpc, missed>>

Unlocked == \A w \in Worker : wpc[w] # "block"

(* m_waitCondition.notify_one *)
NotifyNobody == UNCHANGED wpc

NotifyOne ==
    \/ \E w \in Worker :
          wpc[w] = "sleep" /\ wpc' = [wpc EXCEPT ![w] = "wait"]
    \/ (\A w \in Worker : wpc[w] # "sleep") /\ UNCHANGED wpc

insertTask(t) ==
    /\ Unlocked
    /\ m_pendingTasks' = Append(m_pendingTasks, t)
    /\ NotifyOne
    /\ UNCHANGED <<task, m_quit, dpc, missed>>

(* while (!m_quit) *)
Loop(w) ==
    /\ wpc[w] = "loop"
    /\ wpc' = [wpc EXCEPT ![w] = IF m_quit THEN "ended" ELSE "wait"]
    /\ UNCHANGED <<m_pendingTasks, task, m_quit, dpc, missed>>

nextTask(w) ==
    /\ wpc[w] = "wait" /\ Unlocked
    /\ \/ /\ m_quit
          /\ wpc' = [wpc EXCEPT ![w] = "loop"]
          /\ UNCHANGED <<m_pendingTasks, task>>
       \/ /\ ~m_quit /\ m_pendingTasks = <<>>
          /\ wpc' = [wpc EXCEPT ![w] = "block"]
          /\ UNCHANGED <<m_pendingTasks, task>>
       \/ /\ ~m_quit /\ m_pendingTasks # <<>>
          /\ wpc' = [wpc EXCEPT ![w] = "task"]
          /\ task' = [task EXCEPT ![w] = m_pendingTasks[Len(m_pendingTasks)]]
          /\ m_pendingTasks' = SubSeq(m_pendingTasks, 1, Len(m_pendingTasks) - 1)
    /\ UNCHANGED <<m_quit, dpc, missed>>

Sleep(w) ==
    /\ wpc[w] = "block"
    /\ wpc' = [wpc EXCEPT ![w] = "sleep"]
    /\ UNCHANGED <<m_pendingTasks, task, m_quit, dpc, missed>>

(* task() returns, or throws what the loop swallows. *)
TaskDone(w) ==
    /\ wpc' = [wpc EXCEPT ![w] = "loop"]
    /\ task' = [task EXCEPT ![w] = Idle]
    /\ UNCHANGED <<m_pendingTasks, m_quit, dpc, missed>>

NotifyOneAtQuit ==
    /\ dpc = "notify" /\ dpc' = "join"
    /\ missed' = {w \in Worker : wpc[w] = "block"}
    /\ NotifyOne
    /\ UNCHANGED m_quit

NotifyAll ==
    /\ dpc = "notify" /\ dpc' = "join"
    /\ missed' = {w \in Worker : wpc[w] = "block"}
    /\ wpc' = [w \in Worker |-> IF wpc[w] = "sleep" THEN "wait" ELSE wpc[w]]
    /\ UNCHANGED m_quit

Destructor ==
    /\ \/ /\ dpc = "before" /\ dpc' = "notify"
          /\ m_quit' = TRUE /\ UNCHANGED <<wpc, missed>>
       \/ NotifyAll
       \/ /\ dpc = "join" /\ \A w \in Worker : wpc[w] = "ended"
          /\ dpc' = "joined" /\ UNCHANGED <<wpc, m_quit, missed>>
    /\ UNCHANGED <<m_pendingTasks, task>>

WorkerInit ==
    /\ m_pendingTasks = <<>>
    /\ wpc = [w \in Worker |-> "loop"]
    /\ task = [w \in Worker |-> Idle]
    /\ m_quit = FALSE /\ dpc = "before" /\ missed = {}
=============================================================================
