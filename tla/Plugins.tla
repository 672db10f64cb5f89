------------------------------ MODULE Plugins ------------------------------
(***************************************************************************)
(* Two plugins and the sessions that run their handlers: the template's    *)
(* REST API, a router and a list of devices under a shared mutex, and the  *)
(* test plugin's /testWorker and /testThrowAfterWakeup, which suspend      *)
(* their session while a task for it is with the ThreadWorker.             *)
(***************************************************************************)
EXTENDS RestRouter, ThreadWorker, TLC

CONSTANTS
    Session, None,
    Paths,        \* the paths requested
    Rounds,       \* the chunks of a /testWorker response
    MaxDevices, Name

VARIABLES
    serving,      \* init_plugin has returned
    pc,           \* where a session's handler is
    handler,
    device,       \* route.capturedResources["device"], None without one
    wait,         \* *wait of a worker handler
    woken,        \* a wakeup the event loop has yet to deliver
    rounds,       \* chunks written
    s_devices

restVars == <<device, s_devices>>
testVars == <<wait, woken, rounds>>
vars == <<routerVars, workerVars, restVars, testVars, serving, pc, handler>>

Goto(s, place) == pc' = [pc EXCEPT ![s] = place]

(* The handler returns or throws. *)
Over(s) ==
    /\ Goto(s, IF handler[s] = "worker" THEN "ended" ELSE "idle")
    /\ handler' = [handler EXCEPT ![s] = None]
    /\ device' = [device EXCEPT ![s] = None]

-----------------------------------------------------------------------------
(***************************************************************************)
(* init_plugin, and create_session: the template's plugin, which comes     *)
(* first, answers with a handler, with an error (no handler runs) or       *)
(* passes; then the test plugin looks at the URL.                          *)
(***************************************************************************)
InitPlugin ==
    /\ ~serving
    /\ \/ (\E r \in Registrations : Register(r)) /\ UNCHANGED serving
       \/ registered = Registrations /\ serving' = TRUE /\ UNCHANGED routerVars
    /\ UNCHANGED <<workerVars, restVars, testVars, pc, handler>>

Device(captures) ==
    IF "device" \in DOMAIN captures THEN captures["device"] ELSE None

WorkerUrl == {<<"testWorker">>, <<"testThrowAfterWakeup">>}

create_session(s, path, method) ==
    /\ serving /\ dpc = "before" /\ pc[s] = "idle"
    /\ \E r \in {createHandler(path, <<>>, method)} :
          \/ /\ r.status = 200
             /\ handler' = [handler EXCEPT ![s] = r.handler]
             /\ device' = [device EXCEPT ![s] = Device(r.captures)]
             /\ Goto(s, "read")
             /\ UNCHANGED rounds
          \/ /\ r = Nothing /\ path \in WorkerUrl
             /\ handler' = [handler EXCEPT ![s] = "worker"]
             /\ rounds' = [rounds EXCEPT
                    ![s] = IF path = <<"testWorker">> THEN 0 ELSE Rounds - 1]
             /\ Goto(s, "insert")
             /\ UNCHANGED device
    /\ UNCHANGED <<routerVars, workerVars, s_devices, wait, woken, serving>>

-----------------------------------------------------------------------------
(***************************************************************************)
(* The devices.  stream >> req suspends the session and may throw; so may  *)
(* the parsing of the index and of the body.  Reading the request and      *)
(* waiting for s_mutex are one place.                                      *)
(***************************************************************************)
stoul(segment) ==
    IF \E n \in 0..MaxDevices : ToString(n) = segment
    THEN CHOOSE n \in 0..MaxDevices : ToString(n) = segment ELSE Bad

ReadFails(s) == pc[s] = "read" /\ Over(s)

Shares(s) == handler[s] = "getDevices"

Inside(s) == pc[s] \in {"locked", "use"}

EnterShared(s) ==
    /\ pc[s] = "read"
    /\ handler[s] = "deleteDevice" => stoul(device[s]) # Bad
    /\ Goto(s, "locked")

Enter(s) ==
    /\ pc[s] = "read"
    /\ handler[s] \in {"patchDevice", "deleteDevice"} => device[s] # None
    /\ handler[s] = "deleteDevice" => stoul(device[s]) # Bad
    /\ \A t \in Session : Inside(t) => Shares(s) /\ Shares(t)
    /\ Goto(s, "locked")

HasIndex(s) ==
    \/ handler[s] \in {"patchDevice", "deleteDevice"}
    \/ handler[s] = "getDevices" /\ device[s] # None

CheckIndex(s) ==
    /\ pc[s] = "locked"
    /\ \/ /\ HasIndex(s) => stoul(device[s]) \in 0..(Len(s_devices) - 1)
          /\ Goto(s, "use") /\ UNCHANGED <<handler, device>>
       \/ /\ HasIndex(s) /\ stoul(device[s]) \notin 0..(Len(s_devices) - 1)
          /\ Over(s)

(***************************************************************************)
(* The lock is released with the response still to be sent.  An element of *)
(* the body that is no string ends postDevices half way, and patchDevice   *)
(* without a change.                                                       *)
(***************************************************************************)
Bodies == UNION {[1..n -> Name] : n \in 0..MaxDevices}

getDevices(s) == {s_devices}
postDevices(s) == Bodies
patchDevice(s) ==
    {[s_devices EXCEPT ![stoul(device[s]) + 1] = name] : name \in Name}
        \cup {s_devices}
deleteDevice(s) == {RemoveAt(s_devices, stoul(device[s]) + 1)}

Changed(s) ==
    CASE handler[s] = "getDevices" -> getDevices(s)
      [] handler[s] = "postDevices" -> postDevices(s)
      [] handler[s] = "patchDevice" -> patchDevice(s)
      [] handler[s] = "deleteDevice" -> deleteDevice(s)

Use(s) ==
    /\ pc[s] = "use"
    /\ s_devices' \in Changed(s)
    /\ Over(s)

RestStep(s) ==
    /\ \/ ReadFails(s) /\ UNCHANGED s_devices
       \/ Enter(s) /\ UNCHANGED <<s_devices, handler, device>>
       \/ CheckIndex(s) /\ UNCHANGED s_devices
       \/ Use(s)
    /\ UNCHANGED <<routerVars, workerVars, testVars, serving>>

-----------------------------------------------------------------------------
(***************************************************************************)
(* The worker handlers: insert a task, yield until *wait is false, write   *)
(* the chunk.  A suspended session is resumed by its wakeup, by its socket *)
(* or, with an error, by its deadline or a hang up.                        *)
(***************************************************************************)
InsertTask(s) ==
    /\ pc[s] = "insert"
    /\ wait' = [wait EXCEPT ![s] = TRUE]
    /\ insertTask(s)
    /\ Goto(s, "yield")
    /\ UNCHANGED <<routerVars, restVars, serving, handler, woken, rounds>>

AfterYield(s) == IF wait[s] THEN "yield" ELSE "write"

Resume(s) ==
    /\ pc[s] = "yield"
    /\ woken' = [woken EXCEPT ![s] = FALSE]
    /\ Goto(s, AfterYield(s))
    /\ UNCHANGED <<routerVars, workerVars, restVars, serving, handler, wait, rounds>>

Fail(s) ==
    /\ pc[s] \in {"yield", "write"}
    /\ Over(s)
    /\ woken' = [woken EXCEPT ![s] = FALSE]
    /\ UNCHANGED <<routerVars, workerVars, s_devices, wait, rounds, serving>>

WriteChunk(s) ==
    /\ pc[s] = "write"
    /\ \/ /\ rounds[s] + 1 < Rounds
          /\ rounds' = [rounds EXCEPT ![s] = @ + 1]
          /\ Goto(s, "insert") /\ UNCHANGED <<handler, device>>
       \/ rounds[s] + 1 >= Rounds /\ Over(s) /\ UNCHANGED rounds
    /\ woken' = [woken EXCEPT ![s] = @ /\ pc'[s] # "ended"]
    /\ UNCHANGED <<routerVars, workerVars, s_devices, wait, serving>>

(* The task: fill *buffer, clear *wait, wake the session *)
ClearsWaitFirst(w) ==
    \/ /\ wpc[w] = "task"
       /\ wait' = [wait EXCEPT ![task[w]] = FALSE]
       /\ wpc' = [wpc EXCEPT ![w] = "fill"]
       /\ UNCHANGED <<m_pendingTasks, task, m_quit, dpc, missed, woken>>
    \/ /\ wpc[w] = "fill"
       /\ wpc' = [wpc EXCEPT ![w] = "wake"]
       /\ UNCHANGED <<m_pendingTasks, task, m_quit, dpc, missed, wait, woken>>
    \/ /\ wpc[w] = "wake"
       /\ woken' = [woken EXCEPT ![task[w]] = pc[task[w]] # "ended"]
       /\ TaskDone(w) /\ UNCHANGED wait

Task(w) ==
    \/ /\ wpc[w] = "task"
       /\ wpc' = [wpc EXCEPT ![w] = "fill"]
       /\ UNCHANGED <<m_pendingTasks, task, m_quit, dpc, missed, wait, woken>>
    \/ /\ wpc[w] = "fill"
       /\ wait' = [wait EXCEPT ![task[w]] = FALSE]
       /\ wpc' = [wpc EXCEPT ![w] = "wake"]
       /\ UNCHANGED <<m_pendingTasks, task, m_quit, dpc, missed, woken>>
    \/ /\ wpc[w] = "wake"
       /\ woken' = [woken EXCEPT ![task[w]] = pc[task[w]] # "ended"]
       /\ TaskDone(w) /\ UNCHANGED wait

(* What the workers do before there are sessions is of no interest. *)
WorkerStep(w) ==
    /\ serving
    /\ \/ (Loop(w) \/ nextTask(w) \/ Sleep(w)) /\ UNCHANGED <<wait, woken>>
       \/ Task(w)
    /\ UNCHANGED <<routerVars, restVars, serving, pc, handler, rounds>>

(* The plugins are unloaded once the event loops are gone. *)
Unload ==
    /\ serving /\ \A s \in Session : pc[s] \in {"idle", "ended"}
    /\ Destructor
    /\ UNCHANGED <<routerVars, restVars, testVars, serving, pc, handler>>

Init ==
    /\ RouterInit /\ WorkerInit
    /\ serving = FALSE
    /\ pc = [s \in Session |-> "idle"]
    /\ handler = [s \in Session |-> None] /\ device = [s \in Session |-> None]
    /\ wait = [s \in Session |-> FALSE] /\ woken = [s \in Session |-> FALSE]
    /\ rounds = [s \in Session |-> 0]
    /\ s_devices = <<>>

Methods == {r.method : r \in Registrations}

SessionStep(s) == RestStep(s) \/ InsertTask(s) \/ WriteChunk(s)

Next ==
    \/ InitPlugin \/ Unload
    \/ \E s \in Session :
          \/ \E path \in Paths, method \in Methods : create_session(s, path, method)
          \/ SessionStep(s) \/ Resume(s) \/ Fail(s)
    \/ \E w \in Worker : WorkerStep(w)

Spec == Init /\ [][Next]_vars

(***************************************************************************)
(* Threads that can go on do, and the event loop delivers a wakeup.        *)
(***************************************************************************)
Fairness ==
    /\ \A s \in Session :
          WF_vars(SessionStep(s)) /\ WF_vars(woken[s] /\ Resume(s))
    /\ \A w \in Worker : WF_vars(WorkerStep(w))
    /\ WF_vars(Unload)

FairSpec == Spec /\ Fairness

-----------------------------------------------------------------------------
(***************************************************************************)
(* What was registered is served: a request whose path only one route      *)
(* matches gets the handler registered for that route and method, with     *)
(* the path's segments as captures and with its query, escaped as a client *)
(* does, decoded.  A method registered for another path does not turn it   *)
(* into 405, and the order of registration does not matter.                *)
(* (restful.h:90-113, 151-168, 190-238, utils.h:81-155)                    *)
(***************************************************************************)
Hex(n) == IF n < 10 THEN 48 + n ELSE 55 + n

Escaped(text) ==
    FlattenSeq([i \in DOMAIN text |->
        IF text[i] = 32 THEN <<43>>
        ELSE IF text[i] \in {37, 38, 43, 61}
        THEN <<37, Hex(text[i] \div 16), Hex(text[i] % 16)>> ELSE <<text[i]>>])

Query(pairs) ==
    FlattenSeq([i \in DOMAIN pairs |->
        Escaped(pairs[i][1]) \o <<61>> \o Escaped(pairs[i][2]) \o <<38>>])

Characters == {32, 37, 38, 43, 61, 97}
Queries ==
    {<<>>, << <<<<97>>, <<>>>>, <<<<98>>, <<97>>>> >>}
        \cup {<< <<<<c, d>>, <<e>>>> >> : c, d, e \in Characters}

Routes(path) ==
    {r.route : r \in {q \in registered :
        \E n \in {Len(BaseUrl)} : Matches([i \in 1..n |-> Text(BaseUrl[i])] \o q.route,
                                          SelectSeq(path, LAMBDA x : x # ""))}}

RegisteredIsServed == ~serving =>
    \A path \in Paths, r \in registered : Routes(path) = {r.route} =>
        \A pairs \in Queries :
            LET answer == createHandler(path, Query(pairs), r.method)
            IN /\ answer.status = 200
               /\ answer.handler = r.handler
               /\ answer.queries = pairs
               /\ DOMAIN answer.captures =
                     {r.route[i].name : i \in {j \in DOMAIN r.route : r.route[j].capture}}

(***************************************************************************)
(* A handler that names a device by its index uses the index on the list   *)
(* it checked it against, and runs only on a route that captures it: the   *)
(* 404 of patchDevice and deleteDevice is unreachable.                     *)
(* (template/src/main.cpp:45-148, 183-193)                                 *)
(***************************************************************************)
IndexInRange ==
    \A s \in Session :
        /\ handler[s] \in {"patchDevice", "deleteDevice"} => device[s] # None
        /\ pc[s] = "use" /\ HasIndex(s) => stoul(device[s]) < Len(s_devices)

(***************************************************************************)
(* The buffer a /testWorker handler shares with its task is written by one *)
(* of them at a time: no task of a session is pending, or has yet to fill  *)
(* the buffer, while its handler sends it, whatever woke the session.      *)
(* (test_plugin.cpp:103-131)                                               *)
(***************************************************************************)
BufferNotShared ==
    \A s \in Session : pc[s] = "write" =>
        /\ s \notin Range(m_pendingTasks)
        /\ \A w \in Worker : task[w] = s => wpc[w] \notin {"task", "fill"}

(***************************************************************************)
(* A handler that waits for its task goes on: the task it inserted is run  *)
(* and wakes it.  (thread_worker.h:86-110, test_plugin.cpp:112-126)        *)
(***************************************************************************)
TaskWakesHandler == \A s \in Session : (pc[s] = "yield") ~> (pc[s] # "yield")

(***************************************************************************)
(* ~ThreadWorker returns if its notification falls on no worker that has   *)
(* tested m_quit and is about to sleep.  (thread_worker.h:67-77)           *)
(***************************************************************************)
DestructorReturns == (dpc = "join" /\ missed = {}) ~> (dpc = "joined")
=============================================================================
