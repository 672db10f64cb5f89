--------------------------- MODULE StaticContent ---------------------------
(***************************************************************************)
(* The static content plugin: static_content_session run by sessions of    *)
(* several event loops, the file cache they share under s_filesCacheMutex, *)
(* the SimpleTimer whose callback empties it, the loading and unloading of *)
(* the plugin, and files that are replaced and deleted meanwhile.  A       *)
(* file's version is also its last write time.                             *)
(***************************************************************************)
EXTENDS LruCache

CONSTANTS
    NumSessions, NumLoops,   \* a session belongs to one loop
    Changing,      \* the files that are replaced and deleted
    MaxVersion     \* how often they are

ASSUME StaticAssumption ==
    /\ NumSessions \in Nat /\ NumLoops \in Nat \ {0} /\ MaxVersion \in Nat
    /\ Changing \subseteq Key
    /\ Value = [version : 1..MaxVersion, lastWriteTime : 1..MaxVersion]

Session == 1..NumSessions
Loop == 0..(NumLoops - 1)
LoopOf(s) == s % NumLoops
Timer == 0

VARIABLES
    version, missing,   \* the files
    mutex,              \* who holds s_filesCacheMutex
    running,            \* the session whose coroutine a loop thread runs
    pc,                 \* "idle", "lock", "stat", "map", "send" or "suspended"
    path, file, lastWriteTime,   \* locals of static_content_session
    tpc,                \* the timer's thread: "none", "check", "block",
                        \* "sleep", "callback" or "ended"
    m_quit,             \* SimpleTimer::m_quit
    dpc                 \* the accept thread, which loads the plugin ("dlopen",
                        \* "init", "dlsym"), serves ("serving") and unloads
                        \* it ("destroy", "notify", "join", "dlclose", "unloaded")

files == <<version, missing>>
locals == <<pc, path, file, lastWriteTime>>
timer == <<tpc, m_quit, dpc>>
vars == <<cacheVars, files, mutex, running, locals, timer>>

-----------------------------------------------------------------------------
Runs(s, place) == running[LoopOf(s)] = s /\ pc[s] = place

(***************************************************************************)
(* The request has been read (stream >> req) and names a file below the    *)
(* root; the coroutine goes on to lock s_filesCacheMutex.                  *)
(***************************************************************************)
Begin(s, k) ==
    /\ dpc = "serving"
    /\ pc[s] = "idle" /\ running[LoopOf(s)] = None
    /\ running' = [running EXCEPT ![LoopOf(s)] = s]
    /\ pc' = [pc EXCEPT ![s] = "lock"]
    /\ path' = [path EXCEPT ![s] = k]
    /\ UNCHANGED <<cacheVars, files, mutex, file, lastWriteTime, timer>>

Lock(s) ==
    /\ Runs(s, "lock") /\ mutex = None
    /\ mutex' = s
    /\ file' = [file EXCEPT ![s] = Found(path[s])]
    /\ value(path[s])
    /\ pc' = [pc EXCEPT ![s] = "stat"]
    /\ UNCHANGED <<files, running, path, lastWriteTime, timer>>

(***************************************************************************)
(* The function returns or throws: file, then lock are destroyed.          *)
(***************************************************************************)
LeaveLocked(s) ==
    /\ mutex' = mutex
    /\ running' = [running EXCEPT ![LoopOf(s)] = None]
    /\ pc' = [pc EXCEPT ![s] = "idle"]
    /\ file' = [file EXCEPT ![s] = None]
    /\ lastWriteTime' = [lastWriteTime EXCEPT ![s] = 0]
    /\ path' = [path EXCEPT ![s] = None]

Leave(s) ==
    /\ mutex' = None
    /\ running' = [running EXCEPT ![LoopOf(s)] = None]
    /\ pc' = [pc EXCEPT ![s] = "idle"]
    /\ file' = [file EXCEPT ![s] = None]
    /\ lastWriteTime' = [lastWriteTime EXCEPT ![s] = 0]
    /\ path' = [path EXCEPT ![s] = None]

(* last_write_time, which throws when there is no such file *)
NotNewer(f, t) == f # None /\ f.lastWriteTime <= t
Current(f, t) == f # None /\ f.lastWriteTime = t

Stat(s) ==
    /\ Runs(s, "stat")
    /\ \/ path[s] \in missing /\ Leave(s)
       \/ /\ path[s] \notin missing
          /\ lastWriteTime' = [lastWriteTime EXCEPT ![s] = version[path[s]]]
          /\ pc' = [pc EXCEPT ![s] = IF Current(file[s], version[path[s]])
                                     THEN "send" ELSE "map"]
          /\ UNCHANGED <<mutex, running, path, file>>
    /\ UNCHANGED <<cacheVars, files, timer>>

(* FileMap, which throws when there is no such file, and s_filesCache.put *)
FileMap(p, t) == [version |-> version[p], lastWriteTime |-> t]

Map(s) ==
    /\ Runs(s, "map")
    /\ \/ path[s] \in missing /\ Leave(s) /\ UNCHANGED cacheVars
       \/ /\ path[s] \notin missing
          /\ LET f == FileMap(path[s], lastWriteTime[s])
             IN file' = [file EXCEPT ![s] = f] /\ put(path[s], f)
          /\ pc' = [pc EXCEPT ![s] = "send"]
          /\ UNCHANGED <<mutex, running, path, lastWriteTime>>
    /\ UNCHANGED <<files, timer>>

(***************************************************************************)
(* stream << res and stream.write: both may suspend the coroutine, with    *)
(* the mutex locked, and may throw.                                        *)
(***************************************************************************)
Send(s) ==
    /\ Runs(s, "send")
    /\ \/ Leave(s)
       \/ /\ running' = [running EXCEPT ![LoopOf(s)] = None]
          /\ pc' = [pc EXCEPT ![s] = "suspended"]
          /\ UNCHANGED <<mutex, path, file, lastWriteTime>>
    /\ UNCHANGED <<cacheVars, files, timer>>

Resume(s) ==
    /\ pc[s] = "suspended" /\ running[LoopOf(s)] = None
    /\ running' = [running EXCEPT ![LoopOf(s)] = s]
    /\ pc' = [pc EXCEPT ![s] = "send"]
    /\ UNCHANGED <<cacheVars, files, mutex, path, file, lastWriteTime, timer>>

-----------------------------------------------------------------------------
(***************************************************************************)
(* The timer's thread: wait_for tests m_quit, sleeps until it is notified  *)
(* or the time is up, and tests it again.                                  *)
(***************************************************************************)
TimerCheck ==
    /\ tpc = "check"
    /\ tpc' = IF m_quit THEN "ended" ELSE "block"

TimerBlock == tpc = "block" /\ tpc' = "sleep"

UntilNotified == tpc = "sleep" /\ tpc' = "sleep"

TimerElapses ==
    /\ tpc = "sleep"
    /\ tpc' = IF m_quit THEN "ended" ELSE "callback"

(* The plugin's callback erases what only the cache refers to. *)
InUse(n) == \E s \in Session : path[s] = keyOf[n] /\ file[s] = valueOf[n]

TimerCallback ==
    /\ tpc = "callback" /\ mutex = None
    /\ m_cacheItems' = SelectSeq(m_cacheItems, InUse)
    /\ m_cacheHash' = [k \in Key |-> IF exists(k) /\ InUse(m_cacheHash[k])
                                     THEN m_cacheHash[k] ELSE None]
    /\ keyOf' = Held(keyOf, m_cacheItems')
    /\ valueOf' = Held(valueOf, m_cacheItems')
    /\ tpc' = "check"
    /\ UNCHANGED m_cacheSize

TimerStep ==
    /\ \/ (TimerCheck \/ TimerBlock \/ TimerElapses) /\ UNCHANGED cacheVars
       \/ TimerCallback
    /\ UNCHANGED <<files, mutex, running, locals, m_quit, dpc>>

(***************************************************************************)
(* init_plugin throws without its configuration, before there is a timer,  *)
(* and returns false, with one, when no path is configured.                *)
(***************************************************************************)
init_plugin ==
    /\ dpc = "init"
    /\ \/ dpc' = "destroy" /\ UNCHANGED tpc
       \/ dpc' \in {"destroy", "dlsym"} /\ tpc' = "check"

(***************************************************************************)
(* ServerPlugin(path, confDir).  An exception destroys m_handler, whose    *)
(* deleter does nothing if dlopen failed and else unloads the plugin.      *)
(***************************************************************************)
LoadStep ==
    /\ \/ dpc = "dlopen" /\ dpc' \in {"unloaded", "init"} /\ UNCHANGED tpc
       \/ init_plugin
       \/ dpc = "dlsym" /\ dpc' \in {"destroy", "serving"} /\ UNCHANGED tpc
    /\ UNCHANGED <<cacheVars, files, mutex, running, locals, m_quit>>

(* m_plugins.clear(), once the event loops are gone *)
ClearPlugins ==
    /\ dpc = "serving" /\ \A s \in Session : pc[s] = "idle"
    /\ dpc' = "destroy" /\ UNCHANGED <<m_quit, tpc>>

(* ~SimpleTimer sets m_quit, notifies and joins, without locking m_lock. *)
TimerDestructor ==
    \/ /\ dpc = "destroy" /\ tpc # "none"
       /\ dpc' = "notify" /\ m_quit' = TRUE /\ UNCHANGED tpc
    \/ /\ dpc = "notify" /\ dpc' = "join"
       /\ tpc' = IF tpc = "sleep" THEN "check" ELSE tpc
       /\ UNCHANGED m_quit
    \/ /\ dpc = "join" /\ tpc = "ended"
       /\ dpc' = "dlclose" /\ UNCHANGED <<m_quit, tpc>>

(* g_timer.reset() *)
destory_plugin ==
    \/ /\ dpc = "destroy" /\ tpc = "none"
       /\ dpc' = "dlclose" /\ UNCHANGED <<m_quit, tpc>>
    \/ TimerDestructor

(* The deleter of m_handler: destory_plugin, then dlclose *)
DestroyStep ==
    /\ \/ ClearPlugins
       \/ destory_plugin
       \/ dpc = "dlclose" /\ dpc' = "unloaded" /\ UNCHANGED <<m_quit, tpc>>
    /\ UNCHANGED <<cacheVars, files, mutex, running, locals>>

-----------------------------------------------------------------------------
Replace(k) ==
    /\ version[k] < MaxVersion
    /\ version' = [version EXCEPT ![k] = @ + 1]
    /\ missing' = missing \ {k}
    /\ UNCHANGED <<cacheVars, mutex, running, locals, timer>>

Delete(k) ==
    /\ missing' = missing \cup {k}
    /\ UNCHANGED <<cacheVars, version, mutex, running, locals, timer>>

Init ==
    /\ CacheInit
    /\ version = [k \in Key |-> 1] /\ missing = {}
    /\ mutex = None
    /\ running = [l \in Loop |-> None]
    /\ pc = [s \in Session |-> "idle"]
    /\ path = [s \in Session |-> None]
    /\ file = [s \in Session |-> None]
    /\ lastWriteTime = [s \in Session |-> 0]
    /\ tpc = "none" /\ m_quit = FALSE /\ dpc = "dlopen"

SessionStep(s) == Lock(s) \/ Stat(s) \/ Map(s) \/ Send(s)

Next ==
    \/ \E s \in Session :
          SessionStep(s) \/ Resume(s) \/ \E k \in Key : Begin(s, k)
    \/ TimerStep \/ LoadStep \/ DestroyStep
    \/ \E k \in Changing : Replace(k) \/ Delete(k)

Spec == Init /\ [][Next]_vars

-----------------------------------------------------------------------------
(***************************************************************************)
(* Threads that can go on do; a loop resumes a session whose socket or     *)
(* deadline is ready, unless it is stuck itself; a response is finite and  *)
(* has a deadline, so that it is not suspended for ever.                   *)
(***************************************************************************)
Finish(s) == Send(s) /\ pc'[s] = "idle"

Fairness ==
    /\ \A s \in Session :
          /\ WF_vars(SessionStep(s)) /\ SF_vars(Finish(s)) /\ SF_vars(Resume(s))
    /\ WF_vars(TimerStep) /\ WF_vars(DestroyStep)

FairSpec == Spec /\ Fairness

(***************************************************************************)
(* What a session sends was in the file when it read the file's last write *)
(* time, or later: an entry of the cache whose file was replaced between   *)
(* last_write_time and FileMap is noticed by the next request.             *)
(* (static_content_plugin.cpp:107-112)                                     *)
(***************************************************************************)
ServedNotStale ==
    \A s \in Session : pc[s] \in {"send", "suspended"} =>
        file[s].version >= lastWriteTime[s] /\ lastWriteTime[s] > 0

(***************************************************************************)
(* A session that locked s_filesCacheMutex unlocks it, whatever happens    *)
(* to its file and its connection: "don't keep the mutex locked while      *)
(* we're sending the data".  (static_content_plugin.cpp:106-122)           *)
(***************************************************************************)
LockIsReleased == \A s \in Session : (mutex = s) ~> (mutex # s)

(***************************************************************************)
(* The plugin is unloaded, whether it served or failed to initialise and   *)
(* also when ~SimpleTimer notifies its thread before that sleeps, but not  *)
(* while the timer's thread or a session may still run its code.           *)
(* (serverplugin.cpp:41-65, static_content_plugin.cpp:166-205,             *)
(* utils.h:281-299, server.cpp:572-578)                                    *)
(***************************************************************************)
UnloadedOnceUnused ==
    /\ [](dpc = "unloaded" => /\ tpc \in {"none", "ended"}
                             /\ \A s \in Session : pc[s] = "idle")
    /\ (dpc = "destroy") ~> (dpc = "unloaded")

Recency == INSTANCE RecencyCache WITH
    entries <- [i \in DOMAIN m_cacheItems |->
                    [key |-> keyOf[m_cacheItems[i]],
                     value |-> valueOf[m_cacheItems[i]]]],
    limit <- m_cacheSize,
    used <- IF mutex \in Session THEN path[mutex] ELSE None,
    NoKey <- None

(***************************************************************************)
(* The files used last stay mapped: the cache and the sessions that share  *)
(* it implement RecencyCache.  The session that holds the mutex uses its   *)
(* path, a request that finds its file makes it the last one to be         *)
(* evicted, and nobody else changes the cache while the mutex is held.     *)
(* (utils.h:168-252, static_content_plugin.cpp:98-122)                     *)
(***************************************************************************)
RecencySpec == Recency!Spec
=============================================================================
