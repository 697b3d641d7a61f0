------------------------------ MODULE DcThreads ------------------------------
(***************************************************************************)
(* How the hardware server starts, stops and restarts the device threads   *)
(* of its dispenser controllers when their configuration changes.          *)
(*                                                                         *)
(* The administration socket's threads change the configuration and raise  *)
(* a flag (configuration.c, under configuration_mutex); the main loop      *)
(* (hardware_server.c) finds the flag, stops the device's thread, starts a *)
(* new one and lowers the flag; a device thread (dc_device.c) reports      *)
(* itself through the configuration.  Each action is one critical section, *)
(* or a step on one thread's own data.                                     *)
(*                                                                         *)
(* What a device thread does while it runs is the subject of DcCommands,   *)
(* how it gets rid of its connections at the end that of DcSessions.       *)
(***************************************************************************)
EXTENDS Integers

CONSTANTS NDevices,        \* bound: entries of the configuration
          MaxControllers,  \* MAX_DISP_CONTROL_COUNT
          MaxUpdates,      \* bound: administrative changes
          LogChoices,      \* what log_enable is set to
          CanFail          \* a driver module may fail to load

ASSUME SizesAssumption ==
  NDevices \in Nat \ {0} /\ MaxControllers \in Nat \ {0} /\ MaxUpdates \in Nat
ASSUME ChoicesAssumption == LogChoices \subseteq BOOLEAN /\ CanFail \in BOOLEAN

Devices     == 0 .. NDevices - 1
Controllers == 0 .. MaxControllers - 1
Threads     == 1 .. NDevices + MaxUpdates    \* an entry's change starts one at most
NoThread    == 0

\* DispencerControllerConf: ver stands for the settings
Conf == [ver : 0 .. MaxUpdates, enable : BOOLEAN, log : BOOLEAN]

VARIABLES
  \* configuration.devices
  devCount,    \* dispencer_controller_count of the configuration
  present,     \* [Devices -> BOOLEAN]: id # 0
  conf,        \* [Devices -> Conf]
  changed,     \* [Devices -> BOOLEAN]
  status,      \* [Devices -> thread_status]
  index,       \* [Devices -> dispencer_controller_index]
  handle,      \* [Devices -> device_thread]
  joining,     \* join_dc_thread holds configuration_mutex
  \* dispencer_controllers[]
  count,       \* dispencer_controller_count
  working,     \* [Controllers -> device_is_working]
  \* the hand-over of the device's number to a new thread
  devIndex,    \* dev_index
  held,        \* threads_mutex is locked
  \* the main loop
  mpc, mdev,   \* place in the loop; i
  mcount,      \* dc_count
  mconf,       \* dc_device
  mdci,        \* dci
  \* device threads
  nthreads,    \* device threads started so far
  tpc,         \* [Threads -> place]
  tdev,        \* [Threads -> device_index]
  tconf,       \* [Threads -> device]
  tdci,        \* [Threads -> dci]
  \* history, read by the properties only
  updates,     \* changes so far (also the bound)
  meant,       \* [Threads -> device the main loop started the thread for]
  calm,        \* every change was made in a quiet moment of its device
  unloadable   \* devices whose driver could not be loaded

store   == <<devCount, present, conf, changed, status, index, handle, joining>>
table   == <<count, working>>
main    == <<mpc, mdev, mcount, mconf, mdci>>
threads == <<tpc, tdev, tconf, tdci>>
history == <<updates, meant, calm, unloadable>>
vars    == <<store, table, devIndex, held, main, nthreads, threads, history>>

Blank == [ver |-> 0, enable |-> FALSE, log |-> FALSE]

\* read_conf: every entry of the file is flagged as changed.
Init ==
  /\ devCount \in 0 .. NDevices
  /\ present = [d \in Devices |-> d < devCount]
  /\ conf \in [Devices -> {c \in Conf : c.ver = 0 /\ c.log \in LogChoices} \cup {Blank}]
  /\ \A d \in Devices : d >= devCount => conf[d] = Blank
  /\ changed = [d \in Devices |-> d < devCount]
  /\ status  = [d \in Devices |-> "Undefined"]
  /\ index   = [d \in Devices |-> 0]
  /\ handle  = [d \in Devices |-> NoThread]
  /\ joining = FALSE
  /\ count = 0 /\ working = [c \in Controllers |-> FALSE]
  /\ devIndex = 0 /\ held = FALSE
  /\ mpc = "count" /\ mdev = 0 /\ mcount = 0 /\ mconf = Blank /\ mdci = 0
  /\ nthreads = 0
  /\ tpc   = [t \in Threads |-> "none"]
  /\ tdev  = [t \in Threads |-> 0]
  /\ tconf = [t \in Threads |-> Blank]
  /\ tdci  = [t \in Threads |-> 0]
  /\ updates = 0 /\ calm = TRUE /\ unloadable = {}
  /\ meant = [t \in Threads |-> 0]

\* configuration_mutex can be had.
Open == ~joining
-----------------------------------------------------------------------------
(* The administration socket.                                               *)

\* Device d is at rest: the main loop is not dealing with it, and its threads run
\* with the driver's loop entered, or have ended.
Quiet(d) ==
  /\ mdev = d => mpc \in {"count", "test", "get"}
  /\ \A t \in Threads : meant[t] = d /\ tpc[t] # "none" =>
       tpc[t] \in {"run", "loaded", "end"}

\* update_dc_conf and delete_dc_conf: the entry is rewritten, or blanked and disabled.
Change(d, c) ==
  /\ Open /\ updates < MaxUpdates
  /\ d < devCount /\ present[d]
  /\ conf' = [conf EXCEPT ![d] = c]
  /\ changed' = [changed EXCEPT ![d] = TRUE]
  /\ updates' = updates + 1
  /\ calm' = (calm /\ Quiet(d))
  /\ UNCHANGED <<devCount, status, index, handle, joining, table, devIndex, held, main,
                 nthreads, threads, meant, unloadable>>

Update(d) ==
  /\ \E on \in BOOLEAN, log \in LogChoices :
       Change(d, [ver |-> updates + 1, enable |-> on, log |-> log])
  /\ UNCHANGED present

Delete(d) ==
  /\ Change(d, [Blank EXCEPT !.ver = updates + 1])
  /\ present' = [present EXCEPT ![d] = FALSE]

\* add_dc_conf: a new entry at the end
Add ==
  /\ Open /\ updates < MaxUpdates
  /\ devCount < NDevices
  /\ \E on \in BOOLEAN, log \in LogChoices :
       conf' = [conf EXCEPT ![devCount] = [ver |-> updates + 1, enable |-> on, log |-> log]]
  /\ present' = [present EXCEPT ![devCount] = TRUE]
  /\ changed' = [changed EXCEPT ![devCount] = TRUE]
  /\ devCount' = devCount + 1
  /\ updates' = updates + 1
  /\ UNCHANGED <<status, index, handle, joining, table, devIndex, held, main, nthreads,
                 threads, meant, calm, unloadable>>
-----------------------------------------------------------------------------
(* The main loop, its part for the dispenser controllers.                   *)

NextDevice == /\ mpc'  = IF mdev + 1 < mcount THEN "test" ELSE "count"
              /\ mdev' = IF mdev + 1 < mcount THEN mdev + 1 ELSE 0

CountDevices ==
  /\ mpc = "count" /\ Open
  /\ mcount' = devCount
  /\ mpc' = IF devCount > 0 THEN "test" ELSE "count"
  /\ UNCHANGED <<store, table, devIndex, held, mdev, mconf, mdci, nthreads, threads,
                 history>>

TestChanged ==
  /\ mpc = "test" /\ Open
  /\ IF changed[mdev] THEN mpc' = "get" /\ UNCHANGED mdev ELSE NextDevice
  /\ UNCHANGED <<store, table, devIndex, held, mcount, mconf, mdci, nthreads, threads,
                 history>>

GetConf ==
  /\ mpc = "get" /\ Open
  /\ mconf' = conf[mdev]
  /\ mpc' = "status"
  /\ UNCHANGED <<store, table, devIndex, held, mdev, mcount, mdci, nthreads, threads,
                 history>>

StartOrClear == IF mconf.enable THEN "lock" ELSE "clear"

\* Mutant: a running thread is not stopped.
TestActive_NoStop ==
  /\ mpc = "status" /\ Open
  /\ mpc' = StartOrClear
  /\ UNCHANGED <<store, table, devIndex, held, mdev, mcount, mconf, mdci, nthreads,
                 threads, history>>

TestActive ==
  /\ mpc = "status" /\ Open
  /\ mpc' = IF status[mdev] = "Active" THEN "index" ELSE StartOrClear
  /\ UNCHANGED <<store, table, devIndex, held, mdev, mcount, mconf, mdci, nthreads,
                 threads, history>>

\* Mutant: the number of the device is taken for that of the controller.
GetIndex_OfDevice ==
  /\ mpc = "index" /\ Open
  /\ mdci' = IF mdev \in Controllers THEN mdev ELSE 0
  /\ mpc' = "lower"
  /\ UNCHANGED <<store, table, devIndex, held, mdev, mcount, mconf, nthreads, threads,
                 history>>

GetIndex ==
  /\ mpc = "index" /\ Open
  /\ mdci' = index[mdev]
  /\ mpc' = "lower"
  /\ UNCHANGED <<store, table, devIndex, held, mdev, mcount, mconf, nthreads, threads,
                 history>>

\* set_dc_device_is_working(dci, FALSE)
LowerWorking ==
  /\ mpc = "lower"
  /\ working' = [working EXCEPT ![mdci] = IF mdci < count THEN FALSE ELSE @]
  /\ mpc' = "wait"
  /\ UNCHANGED <<store, count, devIndex, held, mdev, mcount, mconf, mdci, nthreads,
                 threads, history>>

WaitFinished ==
  /\ mpc = "wait" /\ Open /\ status[mdev] = "Finished"
  /\ mpc' = "join"
  /\ UNCHANGED <<store, table, devIndex, held, mdev, mcount, mconf, mdci, nthreads,
                 threads, history>>

\* join_dc_thread joins with the configuration locked.
BeginJoin ==
  /\ mpc = "join" /\ Open
  /\ joining' = TRUE
  /\ mpc' = "joining"
  /\ UNCHANGED <<devCount, present, conf, changed, status, index, handle, table,
                 devIndex, held, mdev, mcount, mconf, mdci, nthreads, threads, history>>

EndJoin ==
  /\ mpc = "joining" /\ tpc[handle[mdev]] = "end"
  /\ joining' = FALSE
  /\ handle' = [handle EXCEPT ![mdev] = NoThread]
  /\ mpc' = StartOrClear
  /\ UNCHANGED <<devCount, present, conf, changed, status, index, table, devIndex, held,
                 mdev, mcount, mconf, mdci, nthreads, threads, history>>

LockThreads ==
  /\ mpc = "lock" /\ ~held
  /\ held' = TRUE
  /\ devIndex' = mdev
  /\ mpc' = "create"
  /\ UNCHANGED <<store, table, mdev, mcount, mconf, mdci, nthreads, threads, history>>

\* start_dc_thread
CreateThread ==
  LET t == nthreads + 1 IN
  /\ mpc = "create" /\ Open
  /\ nthreads' = t
  /\ handle' = [handle EXCEPT ![mdev] = t]
  /\ tpc' = [tpc EXCEPT ![t] = "boot"]
  /\ meant' = [meant EXCEPT ![t] = mdev]
  /\ mpc' = "handshake"
  /\ UNCHANGED <<devCount, present, conf, changed, status, index, joining, table,
                 devIndex, held, mdev, mcount, mconf, mdci, tdev, tconf, tdci, updates,
                 calm, unloadable>>

\* Mutant: the main loop does not wait for the new thread to take its number.
WaitThreads_Not ==
  /\ mpc = "handshake"
  /\ held' = FALSE
  /\ mpc' = "clear"
  /\ UNCHANGED <<store, table, devIndex, mdev, mcount, mconf, mdci, nthreads, threads,
                 history>>

\* wait_threads_mutex
WaitThreads ==
  /\ mpc = "handshake" /\ ~held
  /\ mpc' = "clear"
  /\ UNCHANGED <<store, table, devIndex, held, mdev, mcount, mconf, mdci, nthreads,
                 threads, history>>

ClearChanged ==
  /\ mpc = "clear" /\ Open
  /\ changed' = [changed EXCEPT ![mdev] = FALSE]
  /\ NextDevice
  /\ UNCHANGED <<devCount, present, conf, status, index, handle, joining, table,
                 devIndex, held, mcount, mconf, mdci, nthreads, threads, history>>

MainLoop ==
  \/ CountDevices \/ TestChanged \/ GetConf \/ TestActive \/ GetIndex \/ LowerWorking
  \/ WaitFinished \/ BeginJoin \/ EndJoin \/ LockThreads \/ CreateThread \/ WaitThreads
  \/ ClearChanged
-----------------------------------------------------------------------------
(* A device thread (dc_device_thread_func), from its start to its end.      *)

Goto(t, place) == tpc' = [tpc EXCEPT ![t] = place]

ReadNumber(t) ==
  /\ tpc[t] = "boot"
  /\ tdev' = [tdev EXCEPT ![t] = devIndex]
  /\ Goto(t, "unlock")
  /\ UNCHANGED <<store, table, devIndex, held, main, nthreads, tconf, tdci, history>>

UnlockThreads(t) ==
  /\ tpc[t] = "unlock"
  /\ held' = FALSE
  /\ Goto(t, "conf")
  /\ UNCHANGED <<store, table, devIndex, main, nthreads, tdev, tconf, tdci, history>>

ReadConf(t) ==
  /\ tpc[t] = "conf" /\ Open
  /\ tconf' = [tconf EXCEPT ![t] = conf[tdev[t]]]
  /\ Goto(t, "alloc")
  /\ UNCHANGED <<store, table, devIndex, held, main, nthreads, tdev, tdci, history>>

\* get_new_dispencer_controller_index: the table is never shortened.
TakeController(t) ==
  /\ tpc[t] = "alloc"
  /\ \/ /\ count < MaxControllers
        /\ tdci' = [tdci EXCEPT ![t] = count]
        /\ count' = count + 1
        /\ Goto(t, "number")
     \/ /\ count = MaxControllers
        /\ Goto(t, "finish")
        /\ UNCHANGED <<tdci, count>>
  /\ UNCHANGED <<store, working, devIndex, held, main, nthreads, tdev, tconf, history>>

StoreIndex(t) ==
  /\ tpc[t] = "number" /\ Open
  /\ index' = [index EXCEPT ![tdev[t]] = tdci[t]]
  /\ Goto(t, IF tconf[t].log THEN "active" ELSE "reset")
  /\ UNCHANGED <<devCount, present, conf, changed, status, handle, joining, table,
                 devIndex, held, main, nthreads, tdev, tconf, tdci, history>>

SetActive(t) ==
  /\ tpc[t] = "active" /\ Open
  /\ status' = [status EXCEPT ![tdev[t]] = "Active"]
  /\ Goto(t, "work")
  /\ UNCHANGED <<devCount, present, conf, changed, index, handle, joining, table,
                 devIndex, held, main, nthreads, tdev, tconf, tdci, history>>

\* set_dc_device_is_working(dci, TRUE), after the thread has reported itself active
RaiseWorking(t) ==
  /\ tpc[t] = "work"
  /\ working' = [working EXCEPT ![tdci[t]] = TRUE]
  /\ Goto(t, "run")
  /\ UNCHANGED <<store, count, devIndex, held, main, nthreads, tdev, tconf, tdci,
                 history>>

\* Mutant: the thread does not look at the flag once the driver is loaded.
Stopped_OnlyUnloaded(t) ==
  /\ tpc[t] = "run" /\ ~working[tdci[t]]
  /\ Goto(t, "leave")
  /\ UNCHANGED <<store, table, devIndex, held, main, nthreads, tdev, tconf, tdci,
                 history>>

\* The loops around the driver end.
Stopped(t) ==
  /\ tpc[t] \in {"run", "loaded"} /\ ~working[tdci[t]]
  /\ Goto(t, "leave")
  /\ UNCHANGED <<store, table, devIndex, held, main, nthreads, tdev, tconf, tdci,
                 history>>

\* The flag was set when the loop began: the driver is loaded and initialised, or
\* cannot be loaded.
LoadDriver(t) ==
  /\ tpc[t] = "run"
  /\ \/ Goto(t, "loaded") /\ UNCHANGED unloadable
     \/ /\ CanFail /\ Goto(t, "failed")
        /\ unloadable' = unloadable \cup {tdev[t]}
  /\ UNCHANGED <<store, table, devIndex, held, main, nthreads, tdev, tconf, tdci,
                 updates, meant, calm>>

\* A driver that cannot be loaded: the thread reports itself finished at once ...
ForgetIndex(t) ==
  /\ tpc[t] = "failed" /\ Open
  /\ index' = [index EXCEPT ![tdev[t]] = 0]
  /\ Goto(t, "report")
  /\ UNCHANGED <<devCount, present, conf, changed, status, handle, joining, table,
                 devIndex, held, main, nthreads, tdev, tconf, tdci, history>>

ReportFinished(t) ==
  /\ tpc[t] = "report" /\ Open
  /\ status' = [status EXCEPT ![tdev[t]] = "Finished"]
  /\ Goto(t, "leave")
  /\ UNCHANGED <<devCount, present, conf, changed, index, handle, joining, table,
                 devIndex, held, main, nthreads, tdev, tconf, tdci, history>>

\* ... and leaves the loop like one that was stopped: the connections are closed.
CloseAll(t) ==
  /\ tpc[t] = "leave"
  /\ Goto(t, "reset")
  /\ UNCHANGED <<store, table, devIndex, held, main, nthreads, tdev, tconf, tdci,
                 history>>

ResetIndex(t) ==
  /\ tpc[t] = "reset" /\ Open
  /\ index' = [index EXCEPT ![tdev[t]] = 0]
  /\ Goto(t, "finish")
  /\ UNCHANGED <<devCount, present, conf, changed, status, handle, joining, table,
                 devIndex, held, main, nthreads, tdev, tconf, tdci, history>>

SetFinished(t) ==
  /\ tpc[t] = "finish" /\ Open
  /\ status' = [status EXCEPT ![tdev[t]] = "Finished"]
  /\ Goto(t, "end")
  /\ UNCHANGED <<devCount, present, conf, changed, index, handle, joining, table,
                 devIndex, held, main, nthreads, tdev, tconf, tdci, history>>

DeviceThread(t) ==
  \/ ReadNumber(t) \/ UnlockThreads(t) \/ ReadConf(t) \/ TakeController(t)
  \/ StoreIndex(t) \/ SetActive(t) \/ RaiseWorking(t) \/ Stopped(t) \/ ForgetIndex(t)
  \/ ReportFinished(t) \/ CloseAll(t) \/ ResetIndex(t) \/ SetFinished(t)

Next ==
  \/ \E d \in Devices : Update(d) \/ Delete(d)
  \/ Add \/ MainLoop
  \/ \E t \in Threads : DeviceThread(t) \/ LoadDriver(t)

Spec == Init /\ [][Next]_vars

\* The main loop and the threads run; nobody has to change anything, and a driver
\* may take any time to come up.
Fairness == WF_vars(MainLoop) /\ \A t \in Threads : WF_vars(DeviceThread(t))

FairSpec == Spec /\ Fairness
-----------------------------------------------------------------------------
Places == {"none", "boot", "unlock", "conf", "alloc", "number", "active", "work", "run",
           "loaded", "failed", "report", "leave", "reset", "finish", "end"}

TypeOK ==
  /\ devCount \in 0 .. NDevices
  /\ present \in [Devices -> BOOLEAN]
  /\ conf \in [Devices -> Conf]
  /\ changed \in [Devices -> BOOLEAN]
  /\ status \in [Devices -> {"Undefined", "Active", "Finished"}]
  /\ index \in [Devices -> Controllers]
  /\ handle \in [Devices -> Threads \cup {NoThread}]
  /\ joining \in BOOLEAN
  /\ count \in 0 .. MaxControllers /\ working \in [Controllers -> BOOLEAN]
  /\ devIndex \in Devices /\ held \in BOOLEAN
  /\ mpc \in {"count", "test", "get", "status", "index", "lower", "wait", "join",
              "joining", "lock", "create", "handshake", "clear"}
  /\ mdev \in Devices /\ mcount \in 0 .. NDevices /\ mconf \in Conf
  /\ mdci \in Controllers
  /\ nthreads \in Threads \cup {0}
  /\ tpc \in [Threads -> Places]
  /\ tdev \in [Threads -> Devices] /\ tconf \in [Threads -> Conf]
  /\ tdci \in [Threads -> Controllers]
  /\ updates \in 0 .. MaxUpdates /\ calm \in BOOLEAN
  /\ unloadable \subseteq Devices
  /\ meant \in [Threads -> Devices]

\* The number of the device reaches its thread through one variable that the main loop
\* reuses for the next device: each thread serves the device it was started for.
ServesItsDevice ==
  \A t \in Threads : tpc[t] \notin {"none", "boot"} => tdev[t] = meant[t]

Operating(t) == tpc[t] \in {"work", "run", "loaded"}

\* The driver of a device is never run by two threads at once, when every change of the
\* configuration is made while the device is at rest and its driver could be loaded (a
\* thread that could not load it reports its end twice, the second time perhaps over the
\* Active of its successor).
OneOperator ==
  calm => \A t, u \in Threads :
            Operating(t) /\ Operating(u) /\ meant[t] = meant[u] =>
              t = u \/ meant[t] \in unloadable

\* The main loop stops a thread of the device whose configuration changed, and none of
\* another device, whatever the order in which devices took their controllers, when every
\* change is made while the device is at rest and drivers can be loaded.  After a change
\* made while a thread starts, or a driver that fails, a device can count as active with
\* its index reset: the main loop stops the thread of controller 0 then.
StopsOwnThread ==
  [][ \A c \in Controllers : working[c] /\ ~working'[c] =>
        \/ ~calm \/ unloadable # {}
        \/ \E t \in Threads : meant[t] = mdev /\ tdci[t] = c ]_vars

Wanted(d) == conf[d].enable /\ conf[d].log

\* The configuration of d is in force.
Applied(d) ==
  IF Wanted(d)
  THEN \E t \in Threads : meant[t] = d /\ Operating(t) /\ tconf[t] = conf[d]
  ELSE \A t \in Threads : meant[t] = d => tpc[t] \in {"none", "end"}

\* A change made while the device is at rest comes into force, however the changes of
\* other devices fall, as long as the table of controllers has room and drivers load.
ChangeApplied ==
  \A d \in Devices, v \in 0 .. MaxUpdates :
    (changed[d] /\ conf[d].ver = v /\ calm)
      ~> (Applied(d) \/ conf[d].ver # v \/ ~calm \/ count = MaxControllers
          \/ unloadable # {})
=============================================================================
