-------------------------- MODULE DcThreadsProofs --------------------------
(***************************************************************************)
(* The hand-over of a device's number to its thread, that a device has one *)
(* thread at the most, and how many threads are ever started, for any      *)
(* number of devices, controllers and configuration changes.               *)
(***************************************************************************)
EXTENDS DcThreads, FiniteSetTheorems, TLAPS

\* What the argument needs to know of the types.
Types ==
  /\ nthreads \in Nat /\ devIndex \in Int /\ mdev \in Int
  /\ tpc \in [Threads -> Places]
  /\ tdev \in [Threads -> Int] /\ meant \in [Threads -> Int]

\* Between start_dc_thread's assignment and the end of wait_threads_mutex, dev_index is
\* the main loop's device.
NumberInPlace ==
  /\ mpc = "create" => held
  /\ mpc \in {"create", "handshake"} => devIndex = mdev

\* Threads are numbered in the order they are created.
NotCreatedYet == \A t \in Threads : t > nthreads => tpc[t] = "none"

\* A thread that has yet to unlock threads_mutex is the last one created, and the main
\* loop is still waiting for it.
LastOneBoots ==
  \A t \in Threads : tpc[t] \in {"boot", "unlock"} =>
    mpc = "handshake" /\ held /\ t = nthreads /\ meant[t] = mdev

IInv == Types /\ NumberInPlace /\ NotCreatedYet /\ LastOneBoots /\ ServesItsDevice

LEMMA InitIInv == Init => IInv
  BY DEF Init, Places, IInv, Types, NumberInPlace, NotCreatedYet, LastOneBoots,
     ServesItsDevice

\* The main loop goes on outside the hand-over, or the store changes.
LEMMA Elsewhere ==
  ASSUME IInv, UNCHANGED <<tpc, tdev, meant, nthreads, held, devIndex>>, mdev' \in Int,
         \/ UNCHANGED <<mpc, mdev>>
         \/ mpc \notin {"create", "handshake"} /\ mpc' \notin {"create", "handshake"}
  PROVE  IInv'
  BY DEF IInv, Types, NumberInPlace, NotCreatedYet, LastOneBoots, ServesItsDevice

\* A thread that has unlocked threads_mutex moves on.
Later == Places \ {"none", "boot", "unlock"}

LEMMA InService ==
  ASSUME IInv, NEW t \in Threads, NEW place \in Later,
         tpc[t] \in Later, Goto(t, place),
         UNCHANGED <<tdev, meant, nthreads, held, devIndex, mpc, mdev>>
  PROVE  IInv'
  BY DEF IInv, Types, NumberInPlace, NotCreatedYet, LastOneBoots, ServesItsDevice,
         Goto, Later, Places

-----------------------------------------------------------------------------
(* The steps of the hand-over itself.                                       *)

LEMMA StepLock == IInv /\ LockThreads => IInv'
  BY DEF LockThreads, store, table, threads, history, IInv, Types, NumberInPlace,
         NotCreatedYet, LastOneBoots, ServesItsDevice

LEMMA StepCreate == IInv /\ CreateThread => IInv'
<1>. SUFFICES ASSUME IInv, CreateThread PROVE IInv'
  OBVIOUS
<1>. USE DEF CreateThread, table, history, IInv
<1>1. \A t \in Threads : tpc[t] \notin {"boot", "unlock"}
  BY DEF LastOneBoots
<1>2. Types'
  <2>1. tpc' \in [Threads -> Places]
    BY DEF Types, Places
  <2>2. nthreads' \in Nat /\ tdev' \in [Threads -> Int]
    BY DEF Types
  <2>3. meant' \in [Threads -> Int]
    BY DEF Types
  <2>. QED
    BY <2>1, <2>2, <2>3 DEF Types
<1>3. NumberInPlace'
  BY DEF NumberInPlace
<1>4. NotCreatedYet'
  BY SizesAssumption DEF Types, NotCreatedYet, Threads
<1>5. LastOneBoots'
  BY <1>1 DEF Types, NumberInPlace, LastOneBoots
<1>6. ServesItsDevice'
  BY DEF Types, NotCreatedYet, ServesItsDevice
<1>. QED
  BY <1>2, <1>3, <1>4, <1>5, <1>6

\* Once threads_mutex can be locked, no thread is left on its way to the number.
LEMMA StepWait == IInv /\ WaitThreads => IInv'
<1>. SUFFICES ASSUME IInv, WaitThreads PROVE IInv'
  OBVIOUS
<1>1. \A t \in Threads : tpc[t] \notin {"boot", "unlock"}
  BY DEF IInv, LastOneBoots, WaitThreads
<1>. QED
  BY <1>1 DEF WaitThreads, store, table, threads, history, IInv, Types,
     NumberInPlace, NotCreatedYet, LastOneBoots, ServesItsDevice

LEMMA StepReadNumber == ASSUME NEW t \in Threads, IInv, ReadNumber(t) PROVE IInv'
<1>. USE DEF ReadNumber, Goto, store, table, main, history, IInv, Types, Places
<1>1. devIndex = meant[t]
  BY DEF LastOneBoots, NumberInPlace
<1>2. LastOneBoots'
  BY DEF LastOneBoots
<1>3. ServesItsDevice'
  BY <1>1 DEF ServesItsDevice
<1>4. NumberInPlace' /\ NotCreatedYet' /\ Types'
  BY DEF NumberInPlace, NotCreatedYet
<1>. QED
  BY <1>2, <1>3, <1>4

LEMMA StepUnlock == ASSUME NEW t \in Threads, IInv, UnlockThreads(t) PROVE IInv'
<1>. USE DEF UnlockThreads, Goto, store, table, main, history, IInv, Types, Places
<1>1. t = nthreads /\ mpc = "handshake"
  BY DEF LastOneBoots
<1>2. LastOneBoots'
  BY <1>1 DEF LastOneBoots
<1>3. ServesItsDevice'
  BY DEF ServesItsDevice
<1>4. NumberInPlace' /\ NotCreatedYet' /\ Types'
  BY <1>1 DEF NumberInPlace, NotCreatedYet
<1>. QED
  BY <1>2, <1>3, <1>4

-----------------------------------------------------------------------------
(* All steps.                                                               *)

LEMMA StepMain == IInv /\ MainLoop => IInv'
<1>. SUFFICES ASSUME IInv, MainLoop PROVE IInv'
  OBVIOUS
<1>. mdev \in Int
  BY DEF IInv, Types
<1>. USE DEF store, table, threads, history, NextDevice, StartOrClear
<1>1. CASE CountDevices
  BY <1>1, Elsewhere DEF CountDevices
<1>2. CASE TestChanged
  BY <1>2, Elsewhere DEF TestChanged
<1>3. CASE GetConf
  BY <1>3, Elsewhere DEF GetConf
<1>4. CASE TestActive
  BY <1>4, Elsewhere DEF TestActive
<1>5. CASE GetIndex
  BY <1>5, Elsewhere DEF GetIndex
<1>6. CASE LowerWorking
  BY <1>6, Elsewhere DEF LowerWorking
<1>7. CASE WaitFinished
  BY <1>7, Elsewhere DEF WaitFinished
<1>8. CASE BeginJoin
  BY <1>8, Elsewhere DEF BeginJoin
<1>9. CASE EndJoin
  BY <1>9, Elsewhere DEF EndJoin
<1>10. CASE ClearChanged
  BY <1>10, Elsewhere DEF ClearChanged
<1>. QED
  BY <1>1, <1>2, <1>3, <1>4, <1>5, <1>6, <1>7, <1>8, <1>9, <1>10, StepLock, StepCreate,
     StepWait DEF MainLoop

LEMMA StepThread ==
  ASSUME NEW t \in Threads, IInv, DeviceThread(t) \/ LoadDriver(t)
  PROVE  IInv'
<1>. USE DEF store, table, main, history, Later, Places
<1>1. CASE ReadConf(t)
  BY <1>1, InService DEF ReadConf
<1>2. CASE TakeController(t)
  BY <1>2, InService DEF TakeController
<1>3. CASE StoreIndex(t)
  BY <1>3, InService DEF StoreIndex
<1>4. CASE SetActive(t)
  BY <1>4, InService DEF SetActive
<1>5. CASE RaiseWorking(t)
  BY <1>5, InService DEF RaiseWorking
<1>6. CASE Stopped(t)
  BY <1>6, InService DEF Stopped
<1>7. CASE LoadDriver(t)
  BY <1>7, InService DEF LoadDriver
<1>8. CASE ForgetIndex(t)
  BY <1>8, InService DEF ForgetIndex
<1>9. CASE ReportFinished(t)
  BY <1>9, InService DEF ReportFinished
<1>10. CASE CloseAll(t)
  BY <1>10, InService DEF CloseAll
<1>11. CASE ResetIndex(t)
  BY <1>11, InService DEF ResetIndex
<1>12. CASE SetFinished(t)
  BY <1>12, InService DEF SetFinished
<1>. QED
  BY <1>1, <1>2, <1>3, <1>4, <1>5, <1>6, <1>7, <1>8, <1>9, <1>10, <1>11, <1>12,
     StepReadNumber, StepUnlock DEF DeviceThread

LEMMA StepIInv == IInv /\ [Next]_vars => IInv'
<1>. SUFFICES ASSUME IInv, [Next]_vars PROVE IInv'
  OBVIOUS
<1>. mdev \in Int
  BY DEF IInv, Types
<1>1. ASSUME NEW d \in Devices, Update(d) \/ Delete(d) PROVE IInv'
  BY <1>1, Elsewhere DEF Update, Delete, Change, table, main, threads
<1>2. CASE Add
  BY <1>2, Elsewhere DEF Add, table, main, threads
<1>3. CASE UNCHANGED vars
  BY <1>3, Elsewhere DEF vars, main, threads, history
<1>. QED
  BY <1>1, <1>2, <1>3, StepMain, StepThread DEF Next

\* However many devices are started and restarted, in whatever order, each device thread
\* reads the number of the device it was started for (dc_device_thread_func's *data),
\* although all of them read the same variable.
THEOREM NumberHandedOver == Spec => []ServesItsDevice
<1>1. Spec => []IInv
  BY InitIInv, StepIInv, PTL DEF Spec
<1>2. IInv => ServesItsDevice
  BY DEF IInv
<1>. QED
  BY <1>1, <1>2, PTL

-----------------------------------------------------------------------------
(* One thread to a device, and the main loop's hold on it.                  *)

Ranges ==
  /\ devCount \in 0 .. NDevices /\ mcount \in 0 .. NDevices /\ mdev \in Devices
  /\ devIndex \in Devices /\ tdev \in [Threads -> Devices] /\ meant \in [Threads -> Devices]
  /\ changed \in [Devices -> BOOLEAN]
  /\ status \in [Devices -> {"Undefined", "Active", "Finished"}]
  /\ index \in [Devices -> Controllers] /\ tdci \in [Threads -> Controllers]
  /\ mdci \in Controllers
  /\ count \in 0 .. MaxControllers /\ working \in [Controllers -> BOOLEAN]
  /\ unloadable \subseteq Devices

Live(t) == tpc[t] \notin {"none", "end"}
Serves(t, d) == meant[t] = d /\ Live(t)

\* Thread t has a controller of its own.
Took(t) == tpc[t] \in {"number", "active", "work", "run", "loaded", "failed", "report",
                       "leave", "reset"}

\* The main loop has come to a place of P with device d.
InHand(d, P) == mdev = d /\ mpc \in P

Loop ==
  /\ mcount <= devCount /\ (mpc # "count" => mdev < mcount)
  /\ mpc = "count" => mdev = 0
  /\ mpc \notin {"count", "test"} => changed[mdev]

Table ==
  /\ \A t \in Threads : Live(t) => meant[t] < devCount
  /\ \A t \in Threads : tpc[t] \in {"failed", "report"} => meant[t] \in unloadable
  /\ \A t \in Threads : Took(t) => tdci[t] < count
  /\ \A t, u \in Threads : Took(t) /\ Took(u) /\ tdci[t] = tdci[u] => t = u

\* Device d has one thread at the most; while a change waits to be dealt with the thread
\* is past its start, and counts as active until it has ended.
Alone(d) ==
  /\ \A t, u \in Threads : Serves(t, d) /\ Serves(u, d) => t = u
  /\ \A t \in Threads : Serves(t, d) /\ tpc[t] \in {"work", "run", "loaded", "leave"} =>
       status[d] = "Active"
  /\ changed[d] /\ ~InHand(d, {"handshake", "clear"}) =>
       \A t \in Threads : Serves(t, d) =>
         tpc[t] \in {"run", "loaded", "leave", "reset", "finish"} /\ status[d] = "Active"
  /\ InHand(d, {"join", "joining", "lock", "create"}) => \A t \in Threads : ~Serves(t, d)

\* The thread of an active device is the one the index leads to, and it goes on until
\* the main loop has lowered its flag.
Known(d) ==
  /\ status[d] = "Active" => \E t \in Threads : Serves(t, d)
  /\ \A t \in Threads : Serves(t, d) =>
       /\ tpc[t] \in {"active", "work", "run", "loaded", "leave"} => index[d] = tdci[t]
       /\ tpc[t] \in {"run", "loaded"} => working[tdci[t]] \/ InHand(d, {"wait"})
       /\ tpc[t] = "leave" => InHand(d, {"wait"})
       /\ changed[d] /\ ~InHand(d, {"wait", "handshake", "clear"}) =>
            tpc[t] \in {"run", "loaded"}
  /\ InHand(d, {"index", "lower"}) => status[d] = "Active"
  /\ InHand(d, {"lower"}) => mdci = index[d]

Held == /\ Ranges /\ Loop /\ Table
        /\ calm => \A d \in Devices : /\ d \notin unloadable => Alone(d)
                                      /\ unloadable = {} => Known(d)

\* Steps that leave the threads and their controllers alone, and steps that leave the main
\* loop and the flags of the changes alone.
LEMMA TableKept ==
  ASSUME Table, UNCHANGED <<tpc, meant, tdci, count, devCount, unloadable>>
  PROVE  Table'
  BY DEF Table, Live, Took

LEMMA LoopKept ==
  ASSUME Loop, UNCHANGED <<mpc, mdev, mcount, devCount, changed>>
  PROVE  Loop'
  BY DEF Loop

\* The administration socket finds the device at rest, or the changes are no longer calm.
LEMMA UpdateHolds ==
  ASSUME NEW e \in Devices, IInv, IInv', Held, Update(e)
  PROVE  Held'
<1>1. Ranges'
  BY SizesAssumption DEF Update, Change, Quiet, table, main, threads, Held,
     Ranges, Loop, IInv, Types, ServesItsDevice, Devices, Controllers
<1>2. Loop'
  BY SizesAssumption DEF Update, Change, Quiet, table, main, threads, Held,
     Ranges, Loop
<1>3. Table'
  BY TableKept DEF Update, Change, table, main, threads, Held
<1>4. ASSUME calm', NEW d \in Devices, d \notin unloadable' PROVE Alone(d)'
  <2>1. Ranges /\ Loop /\ Table /\ calm /\ d \notin unloadable /\ Alone(d)
    BY <1>4 DEF Update, Change, Quiet, table, main, threads, Held
  <2> QED
    BY <1>1, <1>4, <2>1 DEF Update, Change, Quiet, table, main, threads, Alone,
       Ranges, Loop, Table, IInv, Types, NotCreatedYet, ServesItsDevice, LastOneBoots,
       NumberInPlace, Serves, Live, InHand
<1>5. ASSUME calm', NEW d \in Devices, unloadable' = {} PROVE Known(d)'
  <2>1. Ranges /\ Loop /\ Table /\ calm /\ unloadable = {} /\ Alone(d) /\ Known(d)
    BY <1>5 DEF Update, Change, Quiet, table, main, threads, Held
  <2> QED
    BY <1>1, <1>5, <2>1 DEF Update, Change, Quiet, table, main, threads, Alone,
       Known, Ranges, Loop, Table, IInv, Types, NotCreatedYet, ServesItsDevice,
       LastOneBoots, NumberInPlace, Serves, Live, Took, InHand
<1> QED
  BY <1>1, <1>2, <1>3, <1>4, <1>5 DEF Held

\* The same for an entry that is deleted.
LEMMA DeleteHolds ==
  ASSUME NEW e \in Devices, IInv, IInv', Held, Delete(e)
  PROVE  Held'
<1>1. Ranges'
  BY SizesAssumption DEF Delete, Change, Quiet, table, main, threads, Held,
     Ranges, Loop, IInv, Types, ServesItsDevice, Devices, Controllers
<1>2. Loop'
  BY SizesAssumption DEF Delete, Change, Quiet, table, main, threads, Held,
     Ranges, Loop
<1>3. Table'
  BY TableKept DEF Delete, Change, table, main, threads, Held
<1>4. ASSUME calm', NEW d \in Devices, d \notin unloadable' PROVE Alone(d)'
  <2>1. Ranges /\ Loop /\ Table /\ calm /\ d \notin unloadable /\ Alone(d)
    BY <1>4 DEF Delete, Change, Quiet, table, main, threads, Held
  <2> QED
    BY <1>1, <1>4, <2>1 DEF Delete, Change, Quiet, table, main, threads, Alone,
       Ranges, Loop, Table, IInv, Types, NotCreatedYet, ServesItsDevice, LastOneBoots,
       NumberInPlace, Serves, Live, InHand
<1>5. ASSUME calm', NEW d \in Devices, unloadable' = {} PROVE Known(d)'
  <2>1. Ranges /\ Loop /\ Table /\ calm /\ unloadable = {} /\ Alone(d) /\ Known(d)
    BY <1>5 DEF Delete, Change, Quiet, table, main, threads, Held
  <2> QED
    BY <1>1, <1>5, <2>1 DEF Delete, Change, Quiet, table, main, threads, Alone,
       Known, Ranges, Loop, Table, IInv, Types, NotCreatedYet, ServesItsDevice,
       LastOneBoots, NumberInPlace, Serves, Live, Took, InHand
<1> QED
  BY <1>1, <1>2, <1>3, <1>4, <1>5 DEF Held

\* A new entry has no thread yet.
LEMMA AddHolds ==
  ASSUME IInv, IInv', Held, Add
  PROVE  Held'
<1>1. Ranges'
  BY SizesAssumption DEF Add, table, main, threads, Held, Ranges, Loop,
     IInv, Types, ServesItsDevice, Devices, Controllers
<1>2. Loop'
  BY SizesAssumption DEF Add, table, main, threads, Held, Ranges, Loop
<1>3. Table'
  <2>1. \A u \in Threads :
          /\ Live(u)' => meant'[u] < devCount'
          /\ tpc'[u] \in {"failed", "report"} => meant'[u] \in unloadable'
    BY SizesAssumption DEF Add, table, main, threads, Held, Ranges, Loop, Table, IInv,
       Types, NotCreatedYet, ServesItsDevice, Live
  <2>2. tdci' = tdci /\ count' = count /\ \A u \in Threads : Took(u)' => Took(u)
    BY DEF Add, table, main, threads, IInv, Types, NotCreatedYet, Took
  <2> QED
    BY <2>1, <2>2 DEF Held, Table
<1>4. ASSUME calm', NEW d \in Devices, d \notin unloadable' PROVE Alone(d)'
  <2>1. Ranges /\ Loop /\ Table /\ calm /\ d \notin unloadable /\ Alone(d)
    BY <1>4 DEF Add, table, main, threads, Held
  <2> QED
    BY <1>1, <1>4, <2>1 DEF Add, table, main, threads, Alone, Ranges, Loop,
       Table, IInv, Types, NotCreatedYet, ServesItsDevice, LastOneBoots, NumberInPlace,
       Serves, Live, InHand
<1>5. ASSUME calm', NEW d \in Devices, unloadable' = {} PROVE Known(d)'
  <2>1. Ranges /\ Loop /\ Table /\ calm /\ unloadable = {} /\ Alone(d) /\ Known(d)
    BY <1>5 DEF Add, table, main, threads, Held
  <2> QED
    BY <1>1, <1>5, <2>1 DEF Add, table, main, threads, Alone, Known, Ranges,
       Loop, Table, IInv, Types, NotCreatedYet, ServesItsDevice, LastOneBoots,
       NumberInPlace, Serves, Live, Took, InHand
<1> QED
  BY <1>1, <1>2, <1>3, <1>4, <1>5 DEF Held

\* The loop begins anew with the devices there are now.
LEMMA CountDevicesHolds ==
  ASSUME IInv, IInv', Held, CountDevices
  PROVE  Held'
<1>1. Ranges'
  BY SizesAssumption DEF CountDevices, store, table, threads, history, Held,
     Ranges, Loop, IInv, Types, ServesItsDevice, Devices, Controllers
<1>2. Loop'
  BY SizesAssumption DEF CountDevices, store, table, threads, history, Held,
     Ranges, Loop
<1>3. Table'
  BY TableKept DEF CountDevices, store, table, threads, history, Held
<1>4. ASSUME calm', NEW d \in Devices, d \notin unloadable' PROVE Alone(d)'
  <2>1. Ranges /\ Loop /\ Table /\ calm /\ d \notin unloadable /\ Alone(d)
    BY <1>4 DEF CountDevices, store, table, threads, history, Held
  <2> QED
    BY <1>1, <1>4, <2>1 DEF CountDevices, store, table, threads, history, Alone,
       Ranges, Loop, Table, IInv, Types, NotCreatedYet, ServesItsDevice, LastOneBoots,
       NumberInPlace, Serves, Live, InHand
<1>5. ASSUME calm', NEW d \in Devices, unloadable' = {} PROVE Known(d)'
  <2>1. Ranges /\ Loop /\ Table /\ calm /\ unloadable = {} /\ Alone(d) /\ Known(d)
    BY <1>5 DEF CountDevices, store, table, threads, history, Held
  <2> QED
    BY <1>1, <1>5, <2>1 DEF CountDevices, store, table, threads, history, Alone,
       Known, Ranges, Loop, Table, IInv, Types, NotCreatedYet, ServesItsDevice,
       LastOneBoots, NumberInPlace, Serves, Live, Took, InHand
<1> QED
  BY <1>1, <1>2, <1>3, <1>4, <1>5 DEF Held

\* From here the flag of the device in hand is up.
LEMMA TestChangedHolds ==
  ASSUME IInv, IInv', Held, TestChanged
  PROVE  Held'
<1>1. Ranges'
  BY SizesAssumption DEF TestChanged, store, table, threads, history,
     NextDevice, Held, Ranges, Loop, IInv, Types, ServesItsDevice, Devices, Controllers
<1>2. Loop'
  BY SizesAssumption DEF TestChanged, store, table, threads, history,
     NextDevice, Held, Ranges, Loop
<1>3. Table'
  BY TableKept DEF TestChanged, store, table, threads, history, Held
<1>4. ASSUME calm', NEW d \in Devices, d \notin unloadable' PROVE Alone(d)'
  <2>1. Ranges /\ Loop /\ Table /\ calm /\ d \notin unloadable /\ Alone(d)
    BY <1>4 DEF TestChanged, store, table, threads, history, NextDevice, Held
  <2> QED
    BY <1>1, <1>4, <2>1 DEF TestChanged, store, table, threads, history,
       NextDevice, Alone, Ranges, Loop, Table, IInv, Types, NotCreatedYet,
       ServesItsDevice, LastOneBoots, NumberInPlace, Serves, Live, InHand
<1>5. ASSUME calm', NEW d \in Devices, unloadable' = {} PROVE Known(d)'
  <2>1. Ranges /\ Loop /\ Table /\ calm /\ unloadable = {} /\ Alone(d) /\ Known(d)
    BY <1>5 DEF TestChanged, store, table, threads, history, NextDevice, Held
  <2> QED
    BY <1>1, <1>5, <2>1 DEF TestChanged, store, table, threads, history,
       NextDevice, Alone, Known, Ranges, Loop, Table, IInv, Types, NotCreatedYet,
       ServesItsDevice, LastOneBoots, NumberInPlace, Serves, Live, Took, InHand
<1> QED
  BY <1>1, <1>2, <1>3, <1>4, <1>5 DEF Held

\* The settings do not matter to the threads.
LEMMA GetConfHolds ==
  ASSUME IInv, IInv', Held, GetConf
  PROVE  Held'
<1>1. Ranges'
  BY SizesAssumption DEF GetConf, store, table, threads, history, Held,
     Ranges, Loop, IInv, Types, ServesItsDevice, Devices, Controllers
<1>2. Loop'
  BY SizesAssumption DEF GetConf, store, table, threads, history, Held,
     Ranges, Loop
<1>3. Table'
  BY TableKept DEF GetConf, store, table, threads, history, Held
<1>4. ASSUME calm', NEW d \in Devices, d \notin unloadable' PROVE Alone(d)'
  <2>1. Ranges /\ Loop /\ Table /\ calm /\ d \notin unloadable /\ Alone(d)
    BY <1>4 DEF GetConf, store, table, threads, history, Held
  <2> QED
    BY <1>1, <1>4, <2>1 DEF GetConf, store, table, threads, history, Alone,
       Ranges, Loop, Table, IInv, Types, NotCreatedYet, ServesItsDevice, LastOneBoots,
       NumberInPlace, Serves, Live, InHand
<1>5. ASSUME calm', NEW d \in Devices, unloadable' = {} PROVE Known(d)'
  <2>1. Ranges /\ Loop /\ Table /\ calm /\ unloadable = {} /\ Alone(d) /\ Known(d)
    BY <1>5 DEF GetConf, store, table, threads, history, Held
  <2> QED
    BY <1>1, <1>5, <2>1 DEF GetConf, store, table, threads, history, Alone,
       Known, Ranges, Loop, Table, IInv, Types, NotCreatedYet, ServesItsDevice,
       LastOneBoots, NumberInPlace, Serves, Live, Took, InHand
<1> QED
  BY <1>1, <1>2, <1>3, <1>4, <1>5 DEF Held

\* A device that does not count as active has no thread; one that does is stopped first.
LEMMA TestActiveHolds ==
  ASSUME IInv, IInv', Held, TestActive
  PROVE  Held'
<1>1. Ranges'
  BY SizesAssumption DEF TestActive, store, table, threads, history,
     StartOrClear, Held, Ranges, Loop, IInv, Types, ServesItsDevice, Devices, Controllers
<1>2. Loop'
  BY SizesAssumption DEF TestActive, store, table, threads, history,
     StartOrClear, Held, Ranges, Loop
<1>3. Table'
  BY TableKept DEF TestActive, store, table, threads, history, Held
<1>4. ASSUME calm', NEW d \in Devices, d \notin unloadable' PROVE Alone(d)'
  <2>1. Ranges /\ Loop /\ Table /\ calm /\ d \notin unloadable /\ Alone(d)
    BY <1>4 DEF TestActive, store, table, threads, history, StartOrClear, Held
  <2> QED
    BY <1>1, <1>4, <2>1 DEF TestActive, store, table, threads, history,
       StartOrClear, Alone, Ranges, Loop, Table, IInv, Types, NotCreatedYet,
       ServesItsDevice, LastOneBoots, NumberInPlace, Serves, Live, InHand
<1>5. ASSUME calm', NEW d \in Devices, unloadable' = {} PROVE Known(d)'
  <2>1. Ranges /\ Loop /\ Table /\ calm /\ unloadable = {} /\ Alone(d) /\ Known(d)
    BY <1>5 DEF TestActive, store, table, threads, history, StartOrClear, Held
  <2> QED
    BY <1>1, <1>5, <2>1 DEF TestActive, store, table, threads, history,
       StartOrClear, Alone, Known, Ranges, Loop, Table, IInv, Types, NotCreatedYet,
       ServesItsDevice, LastOneBoots, NumberInPlace, Serves, Live, Took, InHand
<1> QED
  BY <1>1, <1>2, <1>3, <1>4, <1>5 DEF Held

\* The index leads to the thread of the device.
LEMMA GetIndexHolds ==
  ASSUME IInv, IInv', Held, GetIndex
  PROVE  Held'
<1>1. Ranges'
  BY SizesAssumption DEF GetIndex, store, table, threads, history, Held,
     Ranges, Loop, IInv, Types, ServesItsDevice, Devices, Controllers
<1>2. Loop'
  BY SizesAssumption DEF GetIndex, store, table, threads, history, Held,
     Ranges, Loop
<1>3. Table'
  BY TableKept DEF GetIndex, store, table, threads, history, Held
<1>4. ASSUME calm', NEW d \in Devices, d \notin unloadable' PROVE Alone(d)'
  <2>1. Ranges /\ Loop /\ Table /\ calm /\ d \notin unloadable /\ Alone(d)
    BY <1>4 DEF GetIndex, store, table, threads, history, Held
  <2> QED
    BY <1>1, <1>4, <2>1 DEF GetIndex, store, table, threads, history, Alone,
       Ranges, Loop, Table, IInv, Types, NotCreatedYet, ServesItsDevice, LastOneBoots,
       NumberInPlace, Serves, Live, InHand
<1>5. ASSUME calm', NEW d \in Devices, unloadable' = {} PROVE Known(d)'
  <2>1. Ranges /\ Loop /\ Table /\ calm /\ unloadable = {} /\ Alone(d) /\ Known(d)
    BY <1>5 DEF GetIndex, store, table, threads, history, Held
  <2> QED
    BY <1>1, <1>5, <2>1 DEF GetIndex, store, table, threads, history, Alone,
       Known, Ranges, Loop, Table, IInv, Types, NotCreatedYet, ServesItsDevice,
       LastOneBoots, NumberInPlace, Serves, Live, Took, InHand
<1> QED
  BY <1>1, <1>2, <1>3, <1>4, <1>5 DEF Held

\* The flag lowered is that of the thread in hand.
LEMMA LowerWorkingHolds ==
  ASSUME IInv, IInv', Held, LowerWorking
  PROVE  Held'
<1>1. Ranges'
  BY SizesAssumption DEF LowerWorking, store, table, threads, history, Held,
     Ranges, Loop, IInv, Types, ServesItsDevice, Devices, Controllers
<1>2. Loop'
  BY SizesAssumption DEF LowerWorking, store, table, threads, history, Held,
     Ranges, Loop
<1>3. Table'
  BY TableKept DEF LowerWorking, store, table, threads, history, Held
<1>4. ASSUME calm', NEW d \in Devices, d \notin unloadable' PROVE Alone(d)'
  <2>1. Ranges /\ Loop /\ Table /\ calm /\ d \notin unloadable /\ Alone(d)
    BY <1>4 DEF LowerWorking, store, table, threads, history, Held
  <2> QED
    BY <1>1, <1>4, <2>1 DEF LowerWorking, store, table, threads, history, Alone,
       Ranges, Loop, Table, IInv, Types, NotCreatedYet, ServesItsDevice, LastOneBoots,
       NumberInPlace, Serves, Live, InHand
<1>5. ASSUME calm', NEW d \in Devices, unloadable' = {} PROVE Known(d)'
  <2>1. Ranges /\ Loop /\ Table /\ calm /\ unloadable = {} /\ Alone(d) /\ Known(d)
    BY <1>5 DEF LowerWorking, store, table, threads, history, Held
  <2>2. PICK t \in Threads : Serves(t, mdev)
    BY <1>5, <2>1 DEF LowerWorking, Held, Known, InHand, Ranges
  <2>3. tpc[t] \in {"run", "loaded"} /\ tdci[t] = mdci
    BY <1>5, <2>1, <2>2 DEF LowerWorking, Held, Known, InHand, Ranges, Loop, history
  <2>4. \A u \in Threads : Serves(u, d) /\ tpc[u] \in {"run", "loaded"} /\ d # mdev =>
          tdci[u] # mdci
    BY <2>1, <2>2, <2>3 DEF Table, Took, Serves
  <2>5. \A u \in Threads : Serves(u, d) /\ tpc[u] \in {"run", "loaded"} =>
          working'[tdci[u]] \/ InHand(d, {"wait"})'
    BY <2>1, <2>4 DEF LowerWorking, Known, InHand, Ranges
  <2> QED
    BY <1>5, <2>1, <2>5 DEF LowerWorking, store, table, threads, history, Alone,
       Known, Ranges, Loop, Table, IInv, Types, NotCreatedYet, ServesItsDevice,
       LastOneBoots, NumberInPlace, Serves, Live, Took, InHand
<1> QED
  BY <1>1, <1>2, <1>3, <1>4, <1>5 DEF Held

\* The thread has reported its end, so it has ended.
LEMMA WaitFinishedHolds ==
  ASSUME IInv, IInv', Held, WaitFinished
  PROVE  Held'
<1>1. Ranges'
  BY SizesAssumption DEF WaitFinished, store, table, threads, history, Held,
     Ranges, Loop, IInv, Types, ServesItsDevice, Devices, Controllers
<1>2. Loop'
  BY SizesAssumption DEF WaitFinished, store, table, threads, history, Held,
     Ranges, Loop
<1>3. Table'
  BY TableKept DEF WaitFinished, store, table, threads, history, Held
<1>4. ASSUME calm', NEW d \in Devices, d \notin unloadable' PROVE Alone(d)'
  <2>1. Ranges /\ Loop /\ Table /\ calm /\ d \notin unloadable /\ Alone(d)
    BY <1>4 DEF WaitFinished, store, table, threads, history, Held
  <2> QED
    BY <1>1, <1>4, <2>1 DEF WaitFinished, store, table, threads, history, Alone,
       Ranges, Loop, Table, IInv, Types, NotCreatedYet, ServesItsDevice, LastOneBoots,
       NumberInPlace, Serves, Live, InHand
<1>5. ASSUME calm', NEW d \in Devices, unloadable' = {} PROVE Known(d)'
  <2>1. Ranges /\ Loop /\ Table /\ calm /\ unloadable = {} /\ Alone(d) /\ Known(d)
    BY <1>5 DEF WaitFinished, store, table, threads, history, Held
  <2> QED
    BY <1>1, <1>5, <2>1 DEF WaitFinished, store, table, threads, history, Alone,
       Known, Ranges, Loop, Table, IInv, Types, NotCreatedYet, ServesItsDevice,
       LastOneBoots, NumberInPlace, Serves, Live, Took, InHand
<1> QED
  BY <1>1, <1>2, <1>3, <1>4, <1>5 DEF Held

\* join_dc_thread locks the configuration.
LEMMA BeginJoinHolds ==
  ASSUME IInv, IInv', Held, BeginJoin
  PROVE  Held'
<1>1. Ranges'
  BY SizesAssumption DEF BeginJoin, store, table, threads, history, Held,
     Ranges, Loop, IInv, Types, ServesItsDevice, Devices, Controllers
<1>2. Loop'
  BY SizesAssumption DEF BeginJoin, store, table, threads, history, Held,
     Ranges, Loop
<1>3. Table'
  BY TableKept DEF BeginJoin, store, table, threads, history, Held
<1>4. ASSUME calm', NEW d \in Devices, d \notin unloadable' PROVE Alone(d)'
  <2>1. Ranges /\ Loop /\ Table /\ calm /\ d \notin unloadable /\ Alone(d)
    BY <1>4 DEF BeginJoin, store, table, threads, history, Held
  <2> QED
    BY <1>1, <1>4, <2>1 DEF BeginJoin, store, table, threads, history, Alone,
       Ranges, Loop, Table, IInv, Types, NotCreatedYet, ServesItsDevice, LastOneBoots,
       NumberInPlace, Serves, Live, InHand
<1>5. ASSUME calm', NEW d \in Devices, unloadable' = {} PROVE Known(d)'
  <2>1. Ranges /\ Loop /\ Table /\ calm /\ unloadable = {} /\ Alone(d) /\ Known(d)
    BY <1>5 DEF BeginJoin, store, table, threads, history, Held
  <2> QED
    BY <1>1, <1>5, <2>1 DEF BeginJoin, store, table, threads, history, Alone,
       Known, Ranges, Loop, Table, IInv, Types, NotCreatedYet, ServesItsDevice,
       LastOneBoots, NumberInPlace, Serves, Live, Took, InHand
<1> QED
  BY <1>1, <1>2, <1>3, <1>4, <1>5 DEF Held

\* ... and unlocks it when the thread has ended.
LEMMA EndJoinHolds ==
  ASSUME IInv, IInv', Held, EndJoin
  PROVE  Held'
<1>1. Ranges'
  BY SizesAssumption DEF EndJoin, store, table, threads, history,
     StartOrClear, Held, Ranges, Loop, IInv, Types, ServesItsDevice, Devices, Controllers
<1>2. Loop'
  BY SizesAssumption DEF EndJoin, store, table, threads, history,
     StartOrClear, Held, Ranges, Loop
<1>3. Table'
  BY TableKept DEF EndJoin, store, table, threads, history, Held
<1>4. ASSUME calm', NEW d \in Devices, d \notin unloadable' PROVE Alone(d)'
  <2>1. Ranges /\ Loop /\ Table /\ calm /\ d \notin unloadable /\ Alone(d)
    BY <1>4 DEF EndJoin, store, table, threads, history, StartOrClear, Held
  <2> QED
    BY <1>1, <1>4, <2>1 DEF EndJoin, store, table, threads, history,
       StartOrClear, Alone, Ranges, Loop, Table, IInv, Types, NotCreatedYet,
       ServesItsDevice, LastOneBoots, NumberInPlace, Serves, Live, InHand
<1>5. ASSUME calm', NEW d \in Devices, unloadable' = {} PROVE Known(d)'
  <2>1. Ranges /\ Loop /\ Table /\ calm /\ unloadable = {} /\ Alone(d) /\ Known(d)
    BY <1>5 DEF EndJoin, store, table, threads, history, StartOrClear, Held
  <2> QED
    BY <1>1, <1>5, <2>1 DEF EndJoin, store, table, threads, history,
       StartOrClear, Alone, Known, Ranges, Loop, Table, IInv, Types, NotCreatedYet,
       ServesItsDevice, LastOneBoots, NumberInPlace, Serves, Live, Took, InHand
<1> QED
  BY <1>1, <1>2, <1>3, <1>4, <1>5 DEF Held

\* The device has no thread when its number is handed over.
LEMMA LockThreadsHolds ==
  ASSUME IInv, IInv', Held, LockThreads
  PROVE  Held'
<1>1. Ranges'
  BY SizesAssumption DEF LockThreads, store, table, threads, history, Held,
     Ranges, Loop, IInv, Types, ServesItsDevice, Devices, Controllers
<1>2. Loop'
  BY SizesAssumption DEF LockThreads, store, table, threads, history, Held,
     Ranges, Loop
<1>3. Table'
  BY TableKept DEF LockThreads, store, table, threads, history, Held
<1>4. ASSUME calm', NEW d \in Devices, d \notin unloadable' PROVE Alone(d)'
  <2>1. Ranges /\ Loop /\ Table /\ calm /\ d \notin unloadable /\ Alone(d)
    BY <1>4 DEF LockThreads, store, table, threads, history, Held
  <2> QED
    BY <1>1, <1>4, <2>1 DEF LockThreads, store, table, threads, history, Alone,
       Ranges, Loop, Table, IInv, Types, NotCreatedYet, ServesItsDevice, LastOneBoots,
       NumberInPlace, Serves, Live, InHand
<1>5. ASSUME calm', NEW d \in Devices, unloadable' = {} PROVE Known(d)'
  <2>1. Ranges /\ Loop /\ Table /\ calm /\ unloadable = {} /\ Alone(d) /\ Known(d)
    BY <1>5 DEF LockThreads, store, table, threads, history, Held
  <2> QED
    BY <1>1, <1>5, <2>1 DEF LockThreads, store, table, threads, history, Alone,
       Known, Ranges, Loop, Table, IInv, Types, NotCreatedYet, ServesItsDevice,
       LastOneBoots, NumberInPlace, Serves, Live, Took, InHand
<1> QED
  BY <1>1, <1>2, <1>3, <1>4, <1>5 DEF Held

\* The new thread is the only one of its device.
LEMMA CreateThreadHolds ==
  ASSUME IInv, IInv', Held, CreateThread
  PROVE  Held'
<1>1. Ranges'
  BY SizesAssumption DEF CreateThread, store, table, threads, history, Held,
     Ranges, Loop, IInv, Types, ServesItsDevice, Devices, Controllers
<1>2. Loop'
  BY SizesAssumption DEF CreateThread, store, table, threads, history, Held,
     Ranges, Loop
<1>3. Table'
  <2>1. \A u \in Threads :
          /\ Live(u)' => meant'[u] < devCount'
          /\ tpc'[u] \in {"failed", "report"} => meant'[u] \in unloadable'
    BY SizesAssumption DEF CreateThread, store, table, threads, history, Held, Ranges,
       Loop, Table, IInv, Types, NotCreatedYet, ServesItsDevice, Live
  <2>2. tdci' = tdci /\ count' = count /\ \A u \in Threads : Took(u)' => Took(u)
    BY DEF CreateThread, store, table, threads, history, IInv, Types, NotCreatedYet, Took
  <2> QED
    BY <2>1, <2>2 DEF Held, Table
<1>4. ASSUME calm', NEW d \in Devices, d \notin unloadable' PROVE Alone(d)'
  <2>1. Ranges /\ Loop /\ Table /\ calm /\ d \notin unloadable /\ Alone(d)
    BY <1>4 DEF CreateThread, store, table, threads, history, Held
  <2> QED
    BY <1>1, <1>4, <2>1 DEF CreateThread, store, table, threads, history, Alone,
       Ranges, Loop, Table, IInv, Types, NotCreatedYet, ServesItsDevice, LastOneBoots,
       NumberInPlace, Serves, Live, InHand
<1>5. ASSUME calm', NEW d \in Devices, unloadable' = {} PROVE Known(d)'
  <2>1. Ranges /\ Loop /\ Table /\ calm /\ unloadable = {} /\ Alone(d) /\ Known(d)
    BY <1>5 DEF CreateThread, store, table, threads, history, Held
  <2> QED
    BY <1>1, <1>5, <2>1 DEF CreateThread, store, table, threads, history, Alone,
       Known, Ranges, Loop, Table, IInv, Types, NotCreatedYet, ServesItsDevice,
       LastOneBoots, NumberInPlace, Serves, Live, Took, InHand
<1> QED
  BY <1>1, <1>2, <1>3, <1>4, <1>5 DEF Held

\* The thread has its number.
LEMMA WaitThreadsHolds ==
  ASSUME IInv, IInv', Held, WaitThreads
  PROVE  Held'
<1>1. Ranges'
  BY SizesAssumption DEF WaitThreads, store, table, threads, history, Held,
     Ranges, Loop, IInv, Types, ServesItsDevice, Devices, Controllers
<1>2. Loop'
  BY SizesAssumption DEF WaitThreads, store, table, threads, history, Held,
     Ranges, Loop
<1>3. Table'
  BY TableKept DEF WaitThreads, store, table, threads, history, Held
<1>4. ASSUME calm', NEW d \in Devices, d \notin unloadable' PROVE Alone(d)'
  <2>1. Ranges /\ Loop /\ Table /\ calm /\ d \notin unloadable /\ Alone(d)
    BY <1>4 DEF WaitThreads, store, table, threads, history, Held
  <2> QED
    BY <1>1, <1>4, <2>1 DEF WaitThreads, store, table, threads, history, Alone,
       Ranges, Loop, Table, IInv, Types, NotCreatedYet, ServesItsDevice, LastOneBoots,
       NumberInPlace, Serves, Live, InHand
<1>5. ASSUME calm', NEW d \in Devices, unloadable' = {} PROVE Known(d)'
  <2>1. Ranges /\ Loop /\ Table /\ calm /\ unloadable = {} /\ Alone(d) /\ Known(d)
    BY <1>5 DEF WaitThreads, store, table, threads, history, Held
  <2> QED
    BY <1>1, <1>5, <2>1 DEF WaitThreads, store, table, threads, history, Alone,
       Known, Ranges, Loop, Table, IInv, Types, NotCreatedYet, ServesItsDevice,
       LastOneBoots, NumberInPlace, Serves, Live, Took, InHand
<1> QED
  BY <1>1, <1>2, <1>3, <1>4, <1>5 DEF Held

\* The change has been dealt with.
LEMMA ClearChangedHolds ==
  ASSUME IInv, IInv', Held, ClearChanged
  PROVE  Held'
<1>1. Ranges'
  BY SizesAssumption DEF ClearChanged, store, table, threads, history,
     NextDevice, Held, Ranges, Loop, IInv, Types, ServesItsDevice, Devices, Controllers
<1>2. Loop'
  BY SizesAssumption DEF ClearChanged, store, table, threads, history,
     NextDevice, Held, Ranges, Loop
<1>3. Table'
  BY TableKept DEF ClearChanged, store, table, threads, history, Held
<1>4. ASSUME calm', NEW d \in Devices, d \notin unloadable' PROVE Alone(d)'
  <2>1. Ranges /\ Loop /\ Table /\ calm /\ d \notin unloadable /\ Alone(d)
    BY <1>4 DEF ClearChanged, store, table, threads, history, NextDevice, Held
  <2> QED
    BY <1>1, <1>4, <2>1 DEF ClearChanged, store, table, threads, history,
       NextDevice, Alone, Ranges, Loop, Table, IInv, Types, NotCreatedYet,
       ServesItsDevice, LastOneBoots, NumberInPlace, Serves, Live, InHand
<1>5. ASSUME calm', NEW d \in Devices, unloadable' = {} PROVE Known(d)'
  <2>1. Ranges /\ Loop /\ Table /\ calm /\ unloadable = {} /\ Alone(d) /\ Known(d)
    BY <1>5 DEF ClearChanged, store, table, threads, history, NextDevice, Held
  <2> QED
    BY <1>1, <1>5, <2>1 DEF ClearChanged, store, table, threads, history,
       NextDevice, Alone, Known, Ranges, Loop, Table, IInv, Types, NotCreatedYet,
       ServesItsDevice, LastOneBoots, NumberInPlace, Serves, Live, Took, InHand
<1> QED
  BY <1>1, <1>2, <1>3, <1>4, <1>5 DEF Held

\* The steps of a device thread: it takes its device's number ...
LEMMA ReadNumberHolds ==
  ASSUME NEW t \in Threads, IInv, IInv', Held, ReadNumber(t)
  PROVE  Held'
<1>1. Ranges'
  BY SizesAssumption DEF ReadNumber, Goto, store, table, main, history,
     Held, Ranges, Loop, IInv, Types, ServesItsDevice, Devices, Controllers
<1>2. Loop'
  BY LoopKept DEF ReadNumber, store, main, Held
<1>3. Table'
  <2>1. \A u \in Threads :
          /\ Live(u)' => meant'[u] < devCount'
          /\ tpc'[u] \in {"failed", "report"} => meant'[u] \in unloadable'
    BY SizesAssumption DEF ReadNumber, Goto, store, table, main, history, Held, Ranges,
       Loop, Table, IInv, Types, NotCreatedYet, ServesItsDevice, Live
  <2>2. tdci' = tdci /\ count' = count /\ \A u \in Threads : Took(u)' => Took(u)
    BY DEF ReadNumber, Goto, store, table, main, history, IInv, Types, NotCreatedYet, Took
  <2> QED
    BY <2>1, <2>2 DEF Held, Table
<1>4. ASSUME calm', NEW d \in Devices, d \notin unloadable' PROVE Alone(d)'
  <2>1. Ranges /\ Loop /\ Table /\ calm /\ d \notin unloadable /\ Alone(d)
    BY <1>4 DEF ReadNumber, Goto, store, table, main, history, Held
  <2> QED
    BY <1>1, <1>4, <2>1 DEF ReadNumber, Goto, store, table, main, history,
       Alone, Ranges, Loop, Table, IInv, Types, NotCreatedYet, ServesItsDevice,
       LastOneBoots, NumberInPlace, Serves, Live, InHand
<1>5. ASSUME calm', NEW d \in Devices, unloadable' = {} PROVE Known(d)'
  <2>1. Ranges /\ Loop /\ Table /\ calm /\ unloadable = {} /\ Alone(d) /\ Known(d)
    BY <1>5 DEF ReadNumber, Goto, store, table, main, history, Held
  <2> QED
    BY <1>1, <1>5, <2>1 DEF ReadNumber, Goto, store, table, main, history,
       Alone, Known, Ranges, Loop, Table, IInv, Types, NotCreatedYet, ServesItsDevice,
       LastOneBoots, NumberInPlace, Serves, Live, Took, InHand
<1> QED
  BY <1>1, <1>2, <1>3, <1>4, <1>5 DEF Held

\* ... tells the main loop so ...
LEMMA UnlockThreadsHolds ==
  ASSUME NEW t \in Threads, IInv, IInv', Held, UnlockThreads(t)
  PROVE  Held'
<1>1. Ranges'
  BY SizesAssumption DEF UnlockThreads, Goto, store, table, main, history,
     Held, Ranges, Loop, IInv, Types, ServesItsDevice, Devices, Controllers
<1>2. Loop'
  BY LoopKept DEF UnlockThreads, store, main, Held
<1>3. Table'
  <2>1. \A u \in Threads :
          /\ Live(u)' => meant'[u] < devCount'
          /\ tpc'[u] \in {"failed", "report"} => meant'[u] \in unloadable'
    BY SizesAssumption DEF UnlockThreads, Goto, store, table, main, history, Held, Ranges,
       Loop, Table, IInv, Types, NotCreatedYet, ServesItsDevice, Live
  <2>2. tdci' = tdci /\ count' = count /\ \A u \in Threads : Took(u)' => Took(u)
    BY DEF UnlockThreads, Goto, store, table, main, history, IInv, Types, NotCreatedYet,
       Took
  <2> QED
    BY <2>1, <2>2 DEF Held, Table
<1>4. ASSUME calm', NEW d \in Devices, d \notin unloadable' PROVE Alone(d)'
  <2>1. Ranges /\ Loop /\ Table /\ calm /\ d \notin unloadable /\ Alone(d)
    BY <1>4 DEF UnlockThreads, Goto, store, table, main, history, Held
  <2> QED
    BY <1>1, <1>4, <2>1 DEF UnlockThreads, Goto, store, table, main, history,
       Alone, Ranges, Loop, Table, IInv, Types, NotCreatedYet, ServesItsDevice,
       LastOneBoots, NumberInPlace, Serves, Live, InHand
<1>5. ASSUME calm', NEW d \in Devices, unloadable' = {} PROVE Known(d)'
  <2>1. Ranges /\ Loop /\ Table /\ calm /\ unloadable = {} /\ Alone(d) /\ Known(d)
    BY <1>5 DEF UnlockThreads, Goto, store, table, main, history, Held
  <2> QED
    BY <1>1, <1>5, <2>1 DEF UnlockThreads, Goto, store, table, main, history,
       Alone, Known, Ranges, Loop, Table, IInv, Types, NotCreatedYet, ServesItsDevice,
       LastOneBoots, NumberInPlace, Serves, Live, Took, InHand
<1> QED
  BY <1>1, <1>2, <1>3, <1>4, <1>5 DEF Held

\* ... reads its device's settings ...
LEMMA ReadConfHolds ==
  ASSUME NEW t \in Threads, IInv, IInv', Held, ReadConf(t)
  PROVE  Held'
<1>1. Ranges'
  BY SizesAssumption DEF ReadConf, Goto, store, table, main, history, Held,
     Ranges, Loop, IInv, Types, ServesItsDevice, Devices, Controllers
<1>2. Loop'
  BY LoopKept DEF ReadConf, store, main, Held
<1>3. Table'
  <2>1. \A u \in Threads :
          /\ Live(u)' => meant'[u] < devCount'
          /\ tpc'[u] \in {"failed", "report"} => meant'[u] \in unloadable'
    BY SizesAssumption DEF ReadConf, Goto, store, table, main, history, Held, Ranges,
       Loop, Table, IInv, Types, NotCreatedYet, ServesItsDevice, Live
  <2>2. tdci' = tdci /\ count' = count /\ \A u \in Threads : Took(u)' => Took(u)
    BY DEF ReadConf, Goto, store, table, main, history, IInv, Types, NotCreatedYet, Took
  <2> QED
    BY <2>1, <2>2 DEF Held, Table
<1>4. ASSUME calm', NEW d \in Devices, d \notin unloadable' PROVE Alone(d)'
  <2>1. Ranges /\ Loop /\ Table /\ calm /\ d \notin unloadable /\ Alone(d)
    BY <1>4 DEF ReadConf, Goto, store, table, main, history, Held
  <2> QED
    BY <1>1, <1>4, <2>1 DEF ReadConf, Goto, store, table, main, history, Alone,
       Ranges, Loop, Table, IInv, Types, NotCreatedYet, ServesItsDevice, LastOneBoots,
       NumberInPlace, Serves, Live, InHand
<1>5. ASSUME calm', NEW d \in Devices, unloadable' = {} PROVE Known(d)'
  <2>1. Ranges /\ Loop /\ Table /\ calm /\ unloadable = {} /\ Alone(d) /\ Known(d)
    BY <1>5 DEF ReadConf, Goto, store, table, main, history, Held
  <2> QED
    BY <1>1, <1>5, <2>1 DEF ReadConf, Goto, store, table, main, history, Alone,
       Known, Ranges, Loop, Table, IInv, Types, NotCreatedYet, ServesItsDevice,
       LastOneBoots, NumberInPlace, Serves, Live, Took, InHand
<1> QED
  BY <1>1, <1>2, <1>3, <1>4, <1>5 DEF Held

\* ... takes the next controller, which no other thread has, or ends ...
LEMMA TakeControllerHolds ==
  ASSUME NEW t \in Threads, IInv, IInv', Held, TakeController(t)
  PROVE  Held'
<1>1. Ranges'
  <2>1. Ranges
    BY DEF Held
  <2>2. CASE count < MaxControllers
    BY SizesAssumption, <2>1, <2>2 DEF TakeController, Goto, store, main, history, Ranges,
       Controllers
  <2>3. CASE count >= MaxControllers
    BY SizesAssumption, <2>1, <2>3 DEF TakeController, Goto, store, main, history, Ranges
  <2> QED
    BY <2>1, <2>2, <2>3, SizesAssumption DEF Ranges
<1>2. Loop'
  BY LoopKept DEF TakeController, store, main, Held
<1>3. Table'
  <2>1. \A u \in Threads :
          /\ Live(u)' => meant'[u] < devCount'
          /\ tpc'[u] \in {"failed", "report"} => meant'[u] \in unloadable'
    BY SizesAssumption DEF TakeController, Goto, store, table, main, history, Held,
       Ranges, Loop, Table, IInv, Types, NotCreatedYet, ServesItsDevice, Live
  <2>2. tpc \in [Threads -> Places] /\ Ranges /\ Table
    BY DEF IInv, Types, Held
  <2>3. CASE count < MaxControllers
    <3>1. tdci' = [tdci EXCEPT ![t] = count] /\ count' = count + 1
      BY <2>3, SizesAssumption, <2>2 DEF TakeController, Ranges
    <3>2. \A u \in Threads : Took(u)' /\ u # t => Took(u)
      BY <2>2 DEF TakeController, Goto, Took
    <3>3. \A u \in Threads : Took(u)' => IF u = t THEN tdci'[u] = count
                                           ELSE tdci'[u] = tdci[u] /\ tdci[u] < count
      BY <2>2, <3>1, <3>2 DEF Table, Ranges
    <3>4. \A u \in Threads : Took(u)' => tdci'[u] < count'
      BY <2>2, <3>1, <3>3, SizesAssumption DEF Ranges, Controllers
    <3>5. \A u, v \in Threads : Took(u)' /\ Took(v)' /\ tdci'[u] = tdci'[v] => u = v
      BY <2>2, <3>2, <3>3 DEF Table, Ranges
    <3> QED
      BY <2>1, <3>4, <3>5 DEF Table
  <2>4. CASE count >= MaxControllers
    <3>1. /\ tdci' = tdci /\ count' = count
          /\ \A u \in Threads : Took(u)' => Took(u)
      BY <2>2, <2>4, SizesAssumption DEF TakeController, Goto, Took, Ranges
    <3> QED
      BY <2>1, <2>2, <3>1 DEF Table
  <2> QED
    BY <2>2, <2>3, <2>4, SizesAssumption DEF Ranges
<1>4. ASSUME calm', NEW d \in Devices, d \notin unloadable' PROVE Alone(d)'
  <2>1. Ranges /\ Loop /\ Table /\ calm /\ d \notin unloadable /\ Alone(d)
    BY <1>4 DEF TakeController, Goto, store, table, main, history, Held
  <2> QED
    BY <1>1, <1>4, <2>1 DEF TakeController, Goto, store, table, main, history,
       Alone, Ranges, Loop, Table, IInv, Types, NotCreatedYet, ServesItsDevice,
       LastOneBoots, NumberInPlace, Serves, Live, InHand
<1>5. ASSUME calm', NEW d \in Devices, unloadable' = {} PROVE Known(d)'
  <2>1. Ranges /\ Loop /\ Table /\ calm /\ unloadable = {} /\ Alone(d) /\ Known(d)
    BY <1>5 DEF TakeController, Goto, store, table, main, history, Held
  <2> QED
    BY <1>1, <1>5, <2>1 DEF TakeController, Goto, store, table, main, history,
       Alone, Known, Ranges, Loop, Table, IInv, Types, NotCreatedYet, ServesItsDevice,
       LastOneBoots, NumberInPlace, Serves, Live, Took, InHand
<1> QED
  BY <1>1, <1>2, <1>3, <1>4, <1>5 DEF Held

\* ... stores the number of its controller ...
LEMMA StoreIndexHolds ==
  ASSUME NEW t \in Threads, IInv, IInv', Held, StoreIndex(t)
  PROVE  Held'
<1>1. Ranges'
  BY SizesAssumption DEF StoreIndex, Goto, store, table, main, history,
     Held, Ranges, Loop, IInv, Types, ServesItsDevice, Devices, Controllers
<1>2. Loop'
  BY LoopKept DEF StoreIndex, store, main, Held
<1>3. Table'
  <2>1. \A u \in Threads :
          /\ Live(u)' => meant'[u] < devCount'
          /\ tpc'[u] \in {"failed", "report"} => meant'[u] \in unloadable'
    BY SizesAssumption DEF StoreIndex, Goto, store, table, main, history, Held, Ranges,
       Loop, Table, IInv, Types, NotCreatedYet, ServesItsDevice, Live
  <2>2. tdci' = tdci /\ count' = count /\ \A u \in Threads : Took(u)' => Took(u)
    BY DEF StoreIndex, Goto, store, table, main, history, IInv, Types, NotCreatedYet, Took
  <2> QED
    BY <2>1, <2>2 DEF Held, Table
<1>4. ASSUME calm', NEW d \in Devices, d \notin unloadable' PROVE Alone(d)'
  <2>1. Ranges /\ Loop /\ Table /\ calm /\ d \notin unloadable /\ Alone(d)
    BY <1>4 DEF StoreIndex, Goto, store, table, main, history, Held
  <2> QED
    BY <1>1, <1>4, <2>1 DEF StoreIndex, Goto, store, table, main, history,
       Alone, Ranges, Loop, Table, IInv, Types, NotCreatedYet, ServesItsDevice,
       LastOneBoots, NumberInPlace, Serves, Live, InHand
<1>5. ASSUME calm', NEW d \in Devices, unloadable' = {} PROVE Known(d)'
  <2>1. Ranges /\ Loop /\ Table /\ calm /\ unloadable = {} /\ Alone(d) /\ Known(d)
    BY <1>5 DEF StoreIndex, Goto, store, table, main, history, Held
  <2> QED
    BY <1>1, <1>5, <2>1 DEF StoreIndex, Goto, store, table, main, history,
       Alone, Known, Ranges, Loop, Table, IInv, Types, NotCreatedYet, ServesItsDevice,
       LastOneBoots, NumberInPlace, Serves, Live, Took, InHand
<1> QED
  BY <1>1, <1>2, <1>3, <1>4, <1>5 DEF Held

\* ... counts as active ...
LEMMA SetActiveHolds ==
  ASSUME NEW t \in Threads, IInv, IInv', Held, SetActive(t)
  PROVE  Held'
<1>1. Ranges'
  BY SizesAssumption DEF SetActive, Goto, store, table, main, history, Held,
     Ranges, Loop, IInv, Types, ServesItsDevice, Devices, Controllers
<1>2. Loop'
  BY LoopKept DEF SetActive, store, main, Held
<1>3. Table'
  <2>1. \A u \in Threads :
          /\ Live(u)' => meant'[u] < devCount'
          /\ tpc'[u] \in {"failed", "report"} => meant'[u] \in unloadable'
    BY SizesAssumption DEF SetActive, Goto, store, table, main, history, Held, Ranges,
       Loop, Table, IInv, Types, NotCreatedYet, ServesItsDevice, Live
  <2>2. tdci' = tdci /\ count' = count /\ \A u \in Threads : Took(u)' => Took(u)
    BY DEF SetActive, Goto, store, table, main, history, IInv, Types, NotCreatedYet, Took
  <2> QED
    BY <2>1, <2>2 DEF Held, Table
<1>4. ASSUME calm', NEW d \in Devices, d \notin unloadable' PROVE Alone(d)'
  <2>1. Ranges /\ Loop /\ Table /\ calm /\ d \notin unloadable /\ Alone(d)
    BY <1>4 DEF SetActive, Goto, store, table, main, history, Held
  <2> QED
    BY <1>1, <1>4, <2>1 DEF SetActive, Goto, store, table, main, history, Alone,
       Ranges, Loop, Table, IInv, Types, NotCreatedYet, ServesItsDevice, LastOneBoots,
       NumberInPlace, Serves, Live, InHand
<1>5. ASSUME calm', NEW d \in Devices, unloadable' = {} PROVE Known(d)'
  <2>1. Ranges /\ Loop /\ Table /\ calm /\ unloadable = {} /\ Alone(d) /\ Known(d)
    BY <1>5 DEF SetActive, Goto, store, table, main, history, Held
  <2> QED
    BY <1>1, <1>5, <2>1 DEF SetActive, Goto, store, table, main, history, Alone,
       Known, Ranges, Loop, Table, IInv, Types, NotCreatedYet, ServesItsDevice,
       LastOneBoots, NumberInPlace, Serves, Live, Took, InHand
<1> QED
  BY <1>1, <1>2, <1>3, <1>4, <1>5 DEF Held

\* ... and raises the flag of its own controller.
LEMMA RaiseWorkingHolds ==
  ASSUME NEW t \in Threads, IInv, IInv', Held, RaiseWorking(t)
  PROVE  Held'
<1>1. Ranges'
  BY SizesAssumption DEF RaiseWorking, Goto, store, table, main, history,
     Held, Ranges, Loop, IInv, Types, ServesItsDevice, Devices, Controllers
<1>2. Loop'
  BY LoopKept DEF RaiseWorking, store, main, Held
<1>3. Table'
  <2>1. \A u \in Threads :
          /\ Live(u)' => meant'[u] < devCount'
          /\ tpc'[u] \in {"failed", "report"} => meant'[u] \in unloadable'
    BY SizesAssumption DEF RaiseWorking, Goto, store, table, main, history, Held, Ranges,
       Loop, Table, IInv, Types, NotCreatedYet, ServesItsDevice, Live
  <2>2. tdci' = tdci /\ count' = count /\ \A u \in Threads : Took(u)' => Took(u)
    BY DEF RaiseWorking, Goto, store, table, main, history, IInv, Types, NotCreatedYet,
       Took
  <2> QED
    BY <2>1, <2>2 DEF Held, Table
<1>4. ASSUME calm', NEW d \in Devices, d \notin unloadable' PROVE Alone(d)'
  <2>1. Ranges /\ Loop /\ Table /\ calm /\ d \notin unloadable /\ Alone(d)
    BY <1>4 DEF RaiseWorking, Goto, store, table, main, history, Held
  <2> QED
    BY <1>1, <1>4, <2>1 DEF RaiseWorking, Goto, store, table, main, history,
       Alone, Ranges, Loop, Table, IInv, Types, NotCreatedYet, ServesItsDevice,
       LastOneBoots, NumberInPlace, Serves, Live, InHand
<1>5. ASSUME calm', NEW d \in Devices, unloadable' = {} PROVE Known(d)'
  <2>1. Ranges /\ Loop /\ Table /\ calm /\ unloadable = {} /\ Alone(d) /\ Known(d)
    BY <1>5 DEF RaiseWorking, Goto, store, table, main, history, Held
  <2> QED
    BY <1>1, <1>5, <2>1 DEF RaiseWorking, Goto, store, table, main, history,
       Alone, Known, Ranges, Loop, Table, IInv, Types, NotCreatedYet, ServesItsDevice,
       LastOneBoots, NumberInPlace, Serves, Live, Took, InHand
<1> QED
  BY <1>1, <1>2, <1>3, <1>4, <1>5 DEF Held

\* A thread that finds its flag lowered is the one in hand.
LEMMA StoppedHolds ==
  ASSUME NEW t \in Threads, IInv, IInv', Held, Stopped(t)
  PROVE  Held'
<1>1. Ranges'
  BY SizesAssumption DEF Stopped, Goto, store, table, main, history, Held,
     Ranges, Loop, IInv, Types, ServesItsDevice, Devices, Controllers
<1>2. Loop'
  BY LoopKept DEF Stopped, store, main, Held
<1>3. Table'
  <2>1. \A u \in Threads :
          /\ Live(u)' => meant'[u] < devCount'
          /\ tpc'[u] \in {"failed", "report"} => meant'[u] \in unloadable'
    BY SizesAssumption DEF Stopped, Goto, store, table, main, history, Held, Ranges, Loop,
       Table, IInv, Types, NotCreatedYet, ServesItsDevice, Live
  <2>2. tdci' = tdci /\ count' = count /\ \A u \in Threads : Took(u)' => Took(u)
    BY DEF Stopped, Goto, store, table, main, history, IInv, Types, NotCreatedYet, Took
  <2> QED
    BY <2>1, <2>2 DEF Held, Table
<1>4. ASSUME calm', NEW d \in Devices, d \notin unloadable' PROVE Alone(d)'
  <2>1. Ranges /\ Loop /\ Table /\ calm /\ d \notin unloadable /\ Alone(d)
    BY <1>4 DEF Stopped, Goto, store, table, main, history, Held
  <2> QED
    BY <1>1, <1>4, <2>1 DEF Stopped, Goto, store, table, main, history, Alone,
       Ranges, Loop, Table, IInv, Types, NotCreatedYet, ServesItsDevice, LastOneBoots,
       NumberInPlace, Serves, Live, InHand
<1>5. ASSUME calm', NEW d \in Devices, unloadable' = {} PROVE Known(d)'
  <2>1. Ranges /\ Loop /\ Table /\ calm /\ unloadable = {} /\ Alone(d) /\ Known(d)
    BY <1>5 DEF Stopped, Goto, store, table, main, history, Held
  <2> QED
    BY <1>1, <1>5, <2>1 DEF Stopped, Goto, store, table, main, history, Alone,
       Known, Ranges, Loop, Table, IInv, Types, NotCreatedYet, ServesItsDevice,
       LastOneBoots, NumberInPlace, Serves, Live, Took, InHand
<1> QED
  BY <1>1, <1>2, <1>3, <1>4, <1>5 DEF Held

\* A driver that cannot be loaded makes its device one of the excused.
LEMMA LoadDriverHolds ==
  ASSUME NEW t \in Threads, IInv, IInv', Held, LoadDriver(t)
  PROVE  Held'
<1>1. Ranges'
  <2>1. Ranges /\ tdev[t] \in Devices
    BY DEF Held, Ranges
  <2> QED
    BY <2>1 DEF LoadDriver, Goto, store, table, main, Ranges
<1>2. Loop'
  BY LoopKept DEF LoadDriver, store, main, Held
<1>3. Table'
  <2>1. \A u \in Threads :
          /\ Live(u)' => meant'[u] < devCount'
          /\ tpc'[u] \in {"failed", "report"} => meant'[u] \in unloadable'
    BY SizesAssumption DEF LoadDriver, Goto, store, table, main, history, Held, Ranges,
       Loop, Table, IInv, Types, NotCreatedYet, ServesItsDevice, Live
  <2>2. tdci' = tdci /\ count' = count /\ \A u \in Threads : Took(u)' => Took(u)
    BY DEF LoadDriver, Goto, store, table, main, history, IInv, Types, NotCreatedYet, Took
  <2> QED
    BY <2>1, <2>2 DEF Held, Table
<1>4. ASSUME calm', NEW d \in Devices, d \notin unloadable' PROVE Alone(d)'
  <2>1. Ranges /\ Loop /\ Table /\ calm /\ d \notin unloadable /\ Alone(d)
    BY <1>4 DEF LoadDriver, Goto, store, table, main, history, Held
  <2> QED
    BY <1>1, <1>4, <2>1 DEF LoadDriver, Goto, store, table, main, history,
       Alone, Ranges, Loop, Table, IInv, Types, NotCreatedYet, ServesItsDevice,
       LastOneBoots, NumberInPlace, Serves, Live, InHand
<1>5. ASSUME calm', NEW d \in Devices, unloadable' = {} PROVE Known(d)'
  <2>1. Ranges /\ Loop /\ Table /\ calm /\ unloadable = {} /\ Alone(d) /\ Known(d)
    BY <1>5 DEF LoadDriver, Goto, store, table, main, history, Held
  <2> QED
    BY <1>1, <1>5, <2>1 DEF LoadDriver, Goto, store, table, main, history,
       Alone, Known, Ranges, Loop, Table, IInv, Types, NotCreatedYet, ServesItsDevice,
       LastOneBoots, NumberInPlace, Serves, Live, Took, InHand
<1> QED
  BY <1>1, <1>2, <1>3, <1>4, <1>5 DEF Held

\* Its thread resets the index ...
LEMMA ForgetIndexHolds ==
  ASSUME NEW t \in Threads, IInv, IInv', Held, ForgetIndex(t)
  PROVE  Held'
<1>1. Ranges'
  <2>1. Ranges /\ tdev[t] \in Devices /\ 0 \in Controllers
    BY SizesAssumption DEF Held, Ranges, Controllers
  <2> QED
    BY <2>1 DEF ForgetIndex, Goto, store, table, main, history, Ranges
<1>2. Loop'
  BY LoopKept DEF ForgetIndex, store, main, Held
<1>3. Table'
  <2>1. \A u \in Threads :
          /\ Live(u)' => meant'[u] < devCount'
          /\ tpc'[u] \in {"failed", "report"} => meant'[u] \in unloadable'
    BY SizesAssumption DEF ForgetIndex, Goto, store, table, main, history, Held, Ranges,
       Loop, Table, IInv, Types, NotCreatedYet, ServesItsDevice, Live
  <2>2. tdci' = tdci /\ count' = count /\ \A u \in Threads : Took(u)' => Took(u)
    BY DEF ForgetIndex, Goto, store, table, main, history, IInv, Types, NotCreatedYet,
       Took
  <2> QED
    BY <2>1, <2>2 DEF Held, Table
<1>4. ASSUME calm', NEW d \in Devices, d \notin unloadable' PROVE Alone(d)'
  <2>1. Ranges /\ Loop /\ Table /\ calm /\ d \notin unloadable /\ Alone(d)
    BY <1>4 DEF ForgetIndex, Goto, store, table, main, history, Held
  <2> QED
    BY <1>1, <1>4, <2>1 DEF ForgetIndex, Goto, store, table, main, history,
       Alone, Ranges, Loop, Table, IInv, Types, NotCreatedYet, ServesItsDevice,
       LastOneBoots, NumberInPlace, Serves, Live, InHand
<1>5. ASSUME calm', NEW d \in Devices, unloadable' = {} PROVE Known(d)'
  <2>1. Ranges /\ Loop /\ Table /\ calm /\ unloadable = {} /\ Alone(d) /\ Known(d)
    BY <1>5 DEF ForgetIndex, Goto, store, table, main, history, Held
  <2> QED
    BY <1>1, <1>5, <2>1 DEF ForgetIndex, Goto, store, table, main, history,
       Alone, Known, Ranges, Loop, Table, IInv, Types, NotCreatedYet, ServesItsDevice,
       LastOneBoots, NumberInPlace, Serves, Live, Took, InHand
<1> QED
  BY <1>1, <1>2, <1>3, <1>4, <1>5 DEF Held

\* ... and reports an end that is not one.
LEMMA ReportFinishedHolds ==
  ASSUME NEW t \in Threads, IInv, IInv', Held, ReportFinished(t)
  PROVE  Held'
<1>1. Ranges'
  BY SizesAssumption DEF ReportFinished, Goto, store, table, main, history,
     Held, Ranges, Loop, IInv, Types, ServesItsDevice, Devices, Controllers
<1>2. Loop'
  BY LoopKept DEF ReportFinished, store, main, Held
<1>3. Table'
  <2>1. \A u \in Threads :
          /\ Live(u)' => meant'[u] < devCount'
          /\ tpc'[u] \in {"failed", "report"} => meant'[u] \in unloadable'
    BY SizesAssumption DEF ReportFinished, Goto, store, table, main, history, Held,
       Ranges, Loop, Table, IInv, Types, NotCreatedYet, ServesItsDevice, Live
  <2>2. tdci' = tdci /\ count' = count /\ \A u \in Threads : Took(u)' => Took(u)
    BY DEF ReportFinished, Goto, store, table, main, history, IInv, Types, NotCreatedYet,
       Took
  <2> QED
    BY <2>1, <2>2 DEF Held, Table
<1>4. ASSUME calm', NEW d \in Devices, d \notin unloadable' PROVE Alone(d)'
  <2>1. Ranges /\ Loop /\ Table /\ calm /\ d \notin unloadable /\ Alone(d)
    BY <1>4 DEF ReportFinished, Goto, store, table, main, history, Held
  <2> QED
    BY <1>1, <1>4, <2>1 DEF ReportFinished, Goto, store, table, main, history,
       Alone, Ranges, Loop, Table, IInv, Types, NotCreatedYet, ServesItsDevice,
       LastOneBoots, NumberInPlace, Serves, Live, InHand
<1>5. ASSUME calm', NEW d \in Devices, unloadable' = {} PROVE Known(d)'
  <2>1. Ranges /\ Loop /\ Table /\ calm /\ unloadable = {} /\ Alone(d) /\ Known(d)
    BY <1>5 DEF ReportFinished, Goto, store, table, main, history, Held
  <2> QED
    BY <1>1, <1>5, <2>1 DEF ReportFinished, Goto, store, table, main, history,
       Alone, Known, Ranges, Loop, Table, IInv, Types, NotCreatedYet, ServesItsDevice,
       LastOneBoots, NumberInPlace, Serves, Live, Took, InHand
<1> QED
  BY <1>1, <1>2, <1>3, <1>4, <1>5 DEF Held

\* A thread that was stopped closes its connections ...
LEMMA CloseAllHolds ==
  ASSUME NEW t \in Threads, IInv, IInv', Held, CloseAll(t)
  PROVE  Held'
<1>1. Ranges'
  BY SizesAssumption DEF CloseAll, Goto, store, table, main, history, Held,
     Ranges, Loop, IInv, Types, ServesItsDevice, Devices, Controllers
<1>2. Loop'
  BY LoopKept DEF CloseAll, store, main, Held
<1>3. Table'
  <2>1. \A u \in Threads :
          /\ Live(u)' => meant'[u] < devCount'
          /\ tpc'[u] \in {"failed", "report"} => meant'[u] \in unloadable'
    BY SizesAssumption DEF CloseAll, Goto, store, table, main, history, Held, Ranges,
       Loop, Table, IInv, Types, NotCreatedYet, ServesItsDevice, Live
  <2>2. tdci' = tdci /\ count' = count /\ \A u \in Threads : Took(u)' => Took(u)
    BY DEF CloseAll, Goto, store, table, main, history, IInv, Types, NotCreatedYet, Took
  <2> QED
    BY <2>1, <2>2 DEF Held, Table
<1>4. ASSUME calm', NEW d \in Devices, d \notin unloadable' PROVE Alone(d)'
  <2>1. Ranges /\ Loop /\ Table /\ calm /\ d \notin unloadable /\ Alone(d)
    BY <1>4 DEF CloseAll, Goto, store, table, main, history, Held
  <2> QED
    BY <1>1, <1>4, <2>1 DEF CloseAll, Goto, store, table, main, history, Alone,
       Ranges, Loop, Table, IInv, Types, NotCreatedYet, ServesItsDevice, LastOneBoots,
       NumberInPlace, Serves, Live, InHand
<1>5. ASSUME calm', NEW d \in Devices, unloadable' = {} PROVE Known(d)'
  <2>1. Ranges /\ Loop /\ Table /\ calm /\ unloadable = {} /\ Alone(d) /\ Known(d)
    BY <1>5 DEF CloseAll, Goto, store, table, main, history, Held
  <2> QED
    BY <1>1, <1>5, <2>1 DEF CloseAll, Goto, store, table, main, history, Alone,
       Known, Ranges, Loop, Table, IInv, Types, NotCreatedYet, ServesItsDevice,
       LastOneBoots, NumberInPlace, Serves, Live, Took, InHand
<1> QED
  BY <1>1, <1>2, <1>3, <1>4, <1>5 DEF Held

\* ... resets the index, while it still counts as active ...
LEMMA ResetIndexHolds ==
  ASSUME NEW t \in Threads, IInv, IInv', Held, ResetIndex(t)
  PROVE  Held'
<1>1. Ranges'
  <2>1. Ranges /\ tdev[t] \in Devices /\ 0 \in Controllers
    BY SizesAssumption DEF Held, Ranges, Controllers
  <2> QED
    BY <2>1 DEF ResetIndex, Goto, store, table, main, history, Ranges
<1>2. Loop'
  BY LoopKept DEF ResetIndex, store, main, Held
<1>3. Table'
  <2>1. \A u \in Threads :
          /\ Live(u)' => meant'[u] < devCount'
          /\ tpc'[u] \in {"failed", "report"} => meant'[u] \in unloadable'
    BY SizesAssumption DEF ResetIndex, Goto, store, table, main, history, Held, Ranges,
       Loop, Table, IInv, Types, NotCreatedYet, ServesItsDevice, Live
  <2>2. tdci' = tdci /\ count' = count /\ \A u \in Threads : Took(u)' => Took(u)
    BY DEF ResetIndex, Goto, store, table, main, history, IInv, Types, NotCreatedYet, Took
  <2> QED
    BY <2>1, <2>2 DEF Held, Table
<1>4. ASSUME calm', NEW d \in Devices, d \notin unloadable' PROVE Alone(d)'
  <2>1. Ranges /\ Loop /\ Table /\ calm /\ d \notin unloadable /\ Alone(d)
    BY <1>4 DEF ResetIndex, Goto, store, table, main, history, Held
  <2> QED
    BY <1>1, <1>4, <2>1 DEF ResetIndex, Goto, store, table, main, history,
       Alone, Ranges, Loop, Table, IInv, Types, NotCreatedYet, ServesItsDevice,
       LastOneBoots, NumberInPlace, Serves, Live, InHand
<1>5. ASSUME calm', NEW d \in Devices, unloadable' = {} PROVE Known(d)'
  <2>1. Ranges /\ Loop /\ Table /\ calm /\ unloadable = {} /\ Alone(d) /\ Known(d)
    BY <1>5 DEF ResetIndex, Goto, store, table, main, history, Held
  <2> QED
    BY <1>1, <1>5, <2>1 DEF ResetIndex, Goto, store, table, main, history,
       Alone, Known, Ranges, Loop, Table, IInv, Types, NotCreatedYet, ServesItsDevice,
       LastOneBoots, NumberInPlace, Serves, Live, Took, InHand
<1> QED
  BY <1>1, <1>2, <1>3, <1>4, <1>5 DEF Held

\* ... and reports its end as it ends.
LEMMA SetFinishedHolds ==
  ASSUME NEW t \in Threads, IInv, IInv', Held, SetFinished(t)
  PROVE  Held'
<1>1. Ranges'
  BY SizesAssumption DEF SetFinished, Goto, store, table, main, history,
     Held, Ranges, Loop, IInv, Types, ServesItsDevice, Devices, Controllers
<1>2. Loop'
  BY LoopKept DEF SetFinished, store, main, Held
<1>3. Table'
  <2>1. \A u \in Threads :
          /\ Live(u)' => meant'[u] < devCount'
          /\ tpc'[u] \in {"failed", "report"} => meant'[u] \in unloadable'
    BY SizesAssumption DEF SetFinished, Goto, store, table, main, history, Held, Ranges,
       Loop, Table, IInv, Types, NotCreatedYet, ServesItsDevice, Live
  <2>2. tdci' = tdci /\ count' = count /\ \A u \in Threads : Took(u)' => Took(u)
    BY DEF SetFinished, Goto, store, table, main, history, IInv, Types, NotCreatedYet,
       Took
  <2> QED
    BY <2>1, <2>2 DEF Held, Table
<1>4. ASSUME calm', NEW d \in Devices, d \notin unloadable' PROVE Alone(d)'
  <2>1. Ranges /\ Loop /\ Table /\ calm /\ d \notin unloadable /\ Alone(d)
    BY <1>4 DEF SetFinished, Goto, store, table, main, history, Held
  <2> QED
    BY <1>1, <1>4, <2>1 DEF SetFinished, Goto, store, table, main, history,
       Alone, Ranges, Loop, Table, IInv, Types, NotCreatedYet, ServesItsDevice,
       LastOneBoots, NumberInPlace, Serves, Live, InHand
<1>5. ASSUME calm', NEW d \in Devices, unloadable' = {} PROVE Known(d)'
  <2>1. Ranges /\ Loop /\ Table /\ calm /\ unloadable = {} /\ Alone(d) /\ Known(d)
    BY <1>5 DEF SetFinished, Goto, store, table, main, history, Held
  <2> QED
    BY <1>1, <1>5, <2>1 DEF SetFinished, Goto, store, table, main, history,
       Alone, Known, Ranges, Loop, Table, IInv, Types, NotCreatedYet, ServesItsDevice,
       LastOneBoots, NumberInPlace, Serves, Live, Took, InHand
<1> QED
  BY <1>1, <1>2, <1>3, <1>4, <1>5 DEF Held

-----------------------------------------------------------------------------
LEMMA InitHolds == Init => Held
<1> SUFFICES ASSUME Init PROVE Held
  OBVIOUS
<1>1. Ranges
  BY SizesAssumption DEF Init, Ranges, Devices, Controllers
<1>2. Loop /\ Table
  BY SizesAssumption DEF Init, Loop, Table, Live, Took
<1>3. ASSUME NEW d \in Devices PROVE Alone(d) /\ Known(d)
  BY <1>3 DEF Init, Alone, Known, Serves, Live, InHand
<1> QED
  BY <1>1, <1>2, <1>3 DEF Held

LEMMA NextHolds == IInv /\ IInv' /\ Held /\ [Next]_vars => Held'
<1> SUFFICES ASSUME IInv, IInv', Held, [Next]_vars PROVE Held'
  OBVIOUS
<1>1. CASE UNCHANGED vars
  BY <1>1 DEF vars, store, table, main, threads, history, Held, Ranges, Loop, Table, Alone,
     Known, Serves, Live, Took, InHand
<1>2. CASE MainLoop
  BY <1>2, CountDevicesHolds, TestChangedHolds, GetConfHolds, TestActiveHolds,
     GetIndexHolds, LowerWorkingHolds, WaitFinishedHolds, BeginJoinHolds, EndJoinHolds,
     LockThreadsHolds, CreateThreadHolds, WaitThreadsHolds, ClearChangedHolds DEF MainLoop
<1>3. ASSUME NEW t \in Threads, DeviceThread(t) \/ LoadDriver(t) PROVE Held'
  BY <1>3, ReadNumberHolds, UnlockThreadsHolds, ReadConfHolds, TakeControllerHolds,
     StoreIndexHolds, SetActiveHolds, RaiseWorkingHolds, StoppedHolds, LoadDriverHolds,
     ForgetIndexHolds, ReportFinishedHolds, CloseAllHolds, ResetIndexHolds,
     SetFinishedHolds DEF DeviceThread
<1>4. ASSUME NEW e \in Devices, Update(e) \/ Delete(e) PROVE Held'
  BY <1>4, UpdateHolds, DeleteHolds
<1> QED
  BY <1>1, <1>2, <1>3, <1>4, AddHolds DEF Next

LEMMA HoldsAlways == Spec => [](IInv /\ Held)
<1>1. Init => IInv /\ Held
  BY InitIInv, InitHolds
<1>2. (IInv /\ Held) /\ [Next]_vars => (IInv /\ Held)'
  BY StepIInv, NextHolds
<1> QED
  BY <1>1, <1>2, PTL DEF Spec

\* Invariant: as long as changes are made while their device is at rest, no two threads
\* run the driver of one device, unless it could not be loaded: the main loop starts a
\* thread only when the one before has ended, although it asks for no more than a status.
THEOREM OneThreadToADriver == Spec => []OneOperator
<1>1. Held => OneOperator
  <2> SUFFICES ASSUME Held, calm, NEW t \in Threads, NEW u \in Threads,
                      Operating(t), Operating(u), meant[t] = meant[u],
                      meant[t] \notin unloadable
               PROVE  t = u
    BY DEF OneOperator
  <2>1. Alone(meant[t])
    BY DEF Held, Ranges
  <2> QED
    BY <2>1 DEF Alone, Serves, Live, Operating
<1> QED
  BY <1>1, HoldsAlways, PTL

\* Action property: under the same condition the flag that the main loop lowers is that of
\* a thread of the device in hand: the index it has read is the one this thread stored.
THEOREM FlagOfItsDevice == Spec => StopsOwnThread
<1> DEFINE Step == \A c \in Controllers : working[c] /\ ~working'[c] =>
                     \/ ~calm \/ unloadable # {}
                     \/ \E t \in Threads : meant[t] = mdev /\ tdci[t] = c
<1>1. Held /\ [Next]_vars => [Step]_vars
  <2> SUFFICES ASSUME Held, Next, calm, unloadable = {},
                      NEW c \in Controllers, working[c], ~working'[c]
               PROVE  \E t \in Threads : meant[t] = mdev /\ tdci[t] = c
    BY DEF vars
  <2>1. Ranges /\ Loop /\ Known(mdev)
    BY DEF Held, Ranges
  <2>2. LowerWorking
    <3>1. \A t \in Threads : ~RaiseWorking(t)
      BY <2>1 DEF RaiseWorking, Ranges
    <3>2. working' # working
      OBVIOUS
    <3> QED
      BY <3>1, <3>2 DEF Next, MainLoop, DeviceThread, Update, Delete, Change, Add,
         CountDevices, TestChanged, GetConf, TestActive, GetIndex, WaitFinished,
         BeginJoin, EndJoin, LockThreads, CreateThread, WaitThreads, ClearChanged,
         ReadNumber, UnlockThreads, ReadConf, TakeController, StoreIndex, SetActive,
         Stopped, LoadDriver, ForgetIndex, ReportFinished, CloseAll, ResetIndex,
         SetFinished, Goto, store, table, main, threads, history, NextDevice
  <2>3. mdci = c /\ mpc = "lower"
    BY <2>1, <2>2 DEF LowerWorking, Ranges
  <2>4. PICK t \in Threads : Serves(t, mdev)
    BY <2>1, <2>3 DEF Known, InHand
  <2>5. tdci[t] = c
    BY <2>1, <2>3, <2>4 DEF Known, InHand, Loop
  <2> QED
    BY <2>4, <2>5 DEF Serves
<1> QED
  BY <1>1, HoldsAlways, PTL DEF Spec, StopsOwnThread

-----------------------------------------------------------------------------
(* The number of threads.                                                   *)

\* The devices that the main loop may yet start a thread for, without another change.
Flagged == {d \in Devices : changed[d] /\ ~InHand(d, {"handshake", "clear"})}

\* Every thread has been started for an entry of the file, or for a change.
Room == nthreads + Cardinality(Flagged) <= NDevices + updates

\* The types that the argument about the drivers did without.
Rest ==
  /\ present \in [Devices -> BOOLEAN] /\ conf \in [Devices -> Conf]
  /\ handle \in [Devices -> Threads \cup {NoThread}] /\ joining \in BOOLEAN
  /\ held \in BOOLEAN /\ mconf \in Conf /\ tconf \in [Threads -> Conf]
  /\ mpc \in {"count", "test", "get", "status", "index", "lower", "wait", "join",
              "joining", "lock", "create", "handshake", "clear"}
  /\ updates \in 0 .. MaxUpdates /\ calm \in BOOLEAN

LEMMA DevicesFinite == IsFiniteSet(Devices) /\ Cardinality(Devices) = NDevices
  BY SizesAssumption, FS_Interval DEF Devices

LEMMA FlaggedFinite == IsFiniteSet(Flagged) /\ Cardinality(Flagged) \in Nat
  BY DevicesFinite, FS_Subset, FS_CardinalityType DEF Flagged

LEMMA FlaggedFiniteNext == IsFiniteSet(Flagged') /\ Cardinality(Flagged') \in Nat
<1>1. Flagged' \subseteq Devices
  BY DEF Flagged
<1> QED
  BY <1>1, DevicesFinite, FS_Subset, FS_CardinalityType

LEMMA FewerFlagged ==
  ASSUME Room, Types, Rest, Flagged' \subseteq Flagged, UNCHANGED <<nthreads, updates>>
  PROVE  Room'
<1>1. Cardinality(Flagged') <= Cardinality(Flagged)
  BY FlaggedFinite, FS_Subset
<1> QED
  BY <1>1, FlaggedFinite, FlaggedFiniteNext, SizesAssumption DEF Room, Types, Rest

\* A change raises one flag at the most.
LEMMA OneMoreFlagged ==
  ASSUME Room, Types, updates \in Nat, NEW d, Flagged' \subseteq Flagged \cup {d}, updates' = updates + 1,
         UNCHANGED nthreads
  PROVE  Room'
<1>1. /\ IsFiniteSet(Flagged \cup {d})
      /\ Cardinality(Flagged \cup {d}) = Cardinality(Flagged) \/ Cardinality(Flagged \cup {d}) = Cardinality(Flagged) + 1
  BY FlaggedFinite, FS_AddElement
<1>2. Cardinality(Flagged') <= Cardinality(Flagged \cup {d})
  BY <1>1, FS_Subset
<1> QED
  BY <1>1, <1>2, FlaggedFinite, FlaggedFiniteNext, SizesAssumption DEF Room, Types

LEMMA ChangeRoom ==
  ASSUME Room, Types, Ranges, Rest, NEW d \in Devices, NEW c, Change(d, c)
  PROVE  Room'
<1>1. Flagged' \subseteq Flagged \cup {d}
  BY DEF Change, Flagged, Ranges, InHand, main
<1>2. updates' = updates + 1 /\ nthreads' = nthreads /\ updates \in Nat
  BY DEF Change, Rest
<1> QED
  BY <1>1, <1>2, OneMoreFlagged

LEMMA AddRoom ==
  ASSUME Room, Types, Ranges, Rest, Add
  PROVE  Room'
<1>1. Flagged' \subseteq Flagged \cup {devCount}
  BY DEF Add, Flagged, Ranges, InHand, main
<1>2. updates' = updates + 1 /\ nthreads' = nthreads /\ updates \in Nat
  BY DEF Add, Rest
<1> QED
  BY <1>1, <1>2, OneMoreFlagged

\* start_dc_thread takes a flag for the thread, although it is lowered only afterwards.
LEMMA CreateRoom ==
  ASSUME Room, Types, Ranges, Rest, Loop, CreateThread
  PROVE  Room' /\ nthreads + 1 <= NDevices + MaxUpdates
<1>1. mdev \in Flagged
  BY DEF CreateThread, Flagged, Ranges, InHand, Loop
<1>2. Flagged' \subseteq Flagged \ {mdev}
  BY DEF CreateThread, Flagged, Ranges, InHand, store
<1>3. /\ IsFiniteSet(Flagged \ {mdev})
      /\ Cardinality(Flagged \ {mdev}) = Cardinality(Flagged) - 1
  BY <1>1, FlaggedFinite, FS_RemoveElement
<1>4. Cardinality(Flagged') <= Cardinality(Flagged \ {mdev})
  BY <1>2, <1>3, FS_Subset
<1>5. Cardinality(Flagged) >= 1
  BY <1>3, FlaggedFiniteNext, <1>4, FlaggedFinite
<1>6. nthreads' = nthreads + 1 /\ updates' = updates /\ nthreads \in Nat /\ updates \in 0 .. MaxUpdates
  BY DEF CreateThread, history, Types, Rest
<1> QED
  BY <1>3, <1>4, <1>5, <1>6, FlaggedFinite, FlaggedFiniteNext, SizesAssumption DEF Room

LEMMA MainRoom ==
  ASSUME Room, Types, Ranges, Rest, Loop, MainLoop, ~CreateThread
  PROVE  Room'
<1>1. UNCHANGED <<nthreads, updates>>
  BY DEF MainLoop, CountDevices, TestChanged, GetConf, TestActive, GetIndex, LowerWorking,
     WaitFinished, BeginJoin, EndJoin, LockThreads, WaitThreads, ClearChanged, history
<1>2. CASE ClearChanged
  <2>1. Flagged' \subseteq Flagged
    BY <1>2 DEF ClearChanged, Flagged, Ranges, InHand
  <2> QED
    BY <1>1, <2>1, FewerFlagged
<1>3. CASE ~ClearChanged
  <2>1. /\ changed' = changed
        /\ mpc \in {"handshake", "clear"} => mdev' = mdev /\ mpc' \in {"handshake", "clear"}
    BY <1>3 DEF MainLoop, CountDevices, TestChanged, GetConf, TestActive, GetIndex,
       LowerWorking, WaitFinished, BeginJoin, EndJoin, LockThreads, WaitThreads, store
  <2>2. Flagged' \subseteq Flagged
    BY <2>1 DEF Flagged, InHand
  <2> QED
    BY <1>1, <2>2, FewerFlagged
<1> QED
  BY <1>2, <1>3

LEMMA ThreadRoom ==
  ASSUME Room, Types, Rest, NEW t \in Threads, DeviceThread(t) \/ LoadDriver(t)
  PROVE  Room'
<1>1. UNCHANGED <<nthreads, updates, changed, main>>
  BY DEF DeviceThread, ReadNumber, UnlockThreads, ReadConf, TakeController, StoreIndex,
     SetActive, RaiseWorking, Stopped, LoadDriver, ForgetIndex, ReportFinished, CloseAll,
     ResetIndex, SetFinished, store, history
<1>2. Flagged' \subseteq Flagged
  BY <1>1 DEF Flagged, InHand, main
<1> QED
  BY <1>1, <1>2, FewerFlagged

LEMMA ConfTypes ==
  ASSUME Rest
  PROVE  /\ updates < MaxUpdates => \A on \in BOOLEAN, log \in LogChoices :
                                      [ver |-> updates + 1, enable |-> on, log |-> log] \in Conf
         /\ updates < MaxUpdates => [Blank EXCEPT !.ver = updates + 1] \in Conf
<1> PICK n : n = updates + 1
  OBVIOUS
<1>1. updates < MaxUpdates => n \in 0 .. MaxUpdates
  BY SizesAssumption DEF Rest
<1>2. n \in 0 .. MaxUpdates => [Blank EXCEPT !.ver = n] \in Conf
  <2>1. n \in 0 .. MaxUpdates => Blank \in [ver : 0 .. MaxUpdates, enable : BOOLEAN, log : BOOLEAN]
    BY SizesAssumption DEF Blank
  <2> QED
    BY <2>1 DEF Conf
<1> QED
  BY <1>1, <1>2, ChoicesAssumption DEF Conf

LEMMA ConfRest ==
  ASSUME Rest, Ranges, (\E d \in Devices : Update(d) \/ Delete(d)) \/ Add
  PROVE  Rest'
<1>1. CASE \E d \in Devices : Update(d)
  <2>1. PICK d \in Devices, on \in BOOLEAN, log \in LogChoices :
          Change(d, [ver |-> updates + 1, enable |-> on, log |-> log]) /\ UNCHANGED present
    BY <1>1 DEF Update
  <2>2. [ver |-> updates + 1, enable |-> on, log |-> log] \in Conf
    BY <2>1, ConfTypes DEF Change
  <2> QED
    BY <2>1, <2>2, SizesAssumption DEF Change, Rest, main, threads, Quiet
<1>2. CASE \E d \in Devices : Delete(d)
  <2>1. PICK d \in Devices : Delete(d)
    BY <1>2
  <2>2. [Blank EXCEPT !.ver = updates + 1] \in Conf
    BY <2>1, ConfTypes DEF Delete, Change
  <2> QED
    BY <2>1, <2>2, SizesAssumption DEF Delete, Change, Rest, main, threads, Quiet
<1>3. CASE Add
  <2>1. PICK on \in BOOLEAN, log \in LogChoices :
          conf' = [conf EXCEPT ![devCount] = [ver |-> updates + 1, enable |-> on, log |-> log]]
    BY <1>3 DEF Add
  <2>2. [ver |-> updates + 1, enable |-> on, log |-> log] \in Conf
    BY <1>3, <2>1, ConfTypes DEF Add
  <2> QED
    BY <1>3, <2>1, <2>2, SizesAssumption DEF Add, Rest, Ranges, Devices, main, threads
<1> QED
  BY <1>1, <1>2, <1>3

LEMMA MainRest ==
  ASSUME Rest, Ranges, Types, MainLoop, CreateThread => nthreads + 1 <= NDevices + MaxUpdates
  PROVE  Rest'
<1>1. CASE CreateThread
  <2>1. nthreads + 1 \in Threads
    BY <1>1, SizesAssumption DEF Threads, Types
  <2> QED
    BY <1>1, <2>1 DEF CreateThread, Rest, history
<1>2. CASE CountDevices \/ TestChanged \/ GetConf \/ TestActive
  BY <1>2 DEF CountDevices, TestChanged, GetConf, TestActive, Rest, Ranges, store, threads,
     history, NextDevice, StartOrClear
<1>3. CASE GetIndex \/ LowerWorking \/ WaitFinished \/ BeginJoin \/ EndJoin
  BY <1>3 DEF GetIndex, LowerWorking, WaitFinished, BeginJoin, EndJoin, Rest, Ranges, store,
     threads, history, StartOrClear
<1>4. CASE LockThreads \/ WaitThreads \/ ClearChanged
  BY <1>4 DEF LockThreads, WaitThreads, ClearChanged, Rest, Ranges, store, threads, history,
     NextDevice
<1> QED
  BY <1>1, <1>2, <1>3, <1>4 DEF MainLoop

LEMMA ThreadRest ==
  ASSUME Rest, Ranges, NEW t \in Threads, DeviceThread(t) \/ LoadDriver(t)
  PROVE  Rest'
<1>1. UNCHANGED <<present, conf, handle, joining, mconf, mpc, updates, calm>>
  BY DEF DeviceThread, ReadNumber, UnlockThreads, ReadConf, TakeController, StoreIndex,
     SetActive, RaiseWorking, Stopped, LoadDriver, ForgetIndex, ReportFinished, CloseAll,
     ResetIndex, SetFinished, store, main, history
<1>2. held' \in BOOLEAN
  BY DEF DeviceThread, ReadNumber, UnlockThreads, ReadConf, TakeController, StoreIndex,
     SetActive, RaiseWorking, Stopped, LoadDriver, ForgetIndex, ReportFinished, CloseAll,
     ResetIndex, SetFinished, Rest
<1>3. tconf' \in [Threads -> Conf]
  BY DEF DeviceThread, ReadNumber, UnlockThreads, ReadConf, TakeController, StoreIndex,
     SetActive, RaiseWorking, Stopped, LoadDriver, ForgetIndex, ReportFinished, CloseAll,
     ResetIndex, SetFinished, Rest, Ranges, threads
<1> QED
  BY <1>1, <1>2, <1>3 DEF Rest

LEMMA InitRoom == Init => Rest /\ Room
<1> SUFFICES ASSUME Init PROVE Rest /\ Room
  OBVIOUS
<1>1. Rest
  <2>1. Blank \in Conf
    BY SizesAssumption DEF Blank, Conf
  <2>2. conf \in [Devices -> Conf]
    BY <2>1 DEF Init
  <2> QED
    <3>1. present \in [Devices -> BOOLEAN] /\ handle \in [Devices -> Threads \cup {NoThread}]
      BY DEF Init
    <3>2. mconf \in Conf /\ tconf \in [Threads -> Conf]
      BY <2>1 DEF Init
    <3>3. /\ joining = FALSE /\ held = FALSE /\ mpc = "count" /\ calm = TRUE
          /\ updates \in 0 .. MaxUpdates
      BY SizesAssumption DEF Init
    <3> QED
      BY <2>2, <3>1, <3>2, <3>3 DEF Rest
<1>2. Cardinality(Flagged) <= NDevices
  BY DevicesFinite, FS_Subset DEF Flagged
<1> QED
  BY <1>1, <1>2, FlaggedFinite, SizesAssumption DEF Init, Room

\* The type invariant: the variables keep to their ranges.  What is not plain about it is
\* that the threads that are started never outnumber the devices of the file and the changes:
\* the flag that start_dc_thread is called for is lowered after it, whatever is changed
\* meanwhile.
THEOREM TypeCorrect == Spec => []TypeOK
<1>1. Init => Rest /\ Room
  BY InitRoom
<1>2. IInv /\ Held /\ (Rest /\ Room) /\ [Next]_vars => (Rest /\ Room)'
  <2> SUFFICES ASSUME IInv, Held, Rest, Room, [Next]_vars PROVE Rest' /\ Room'
    OBVIOUS
  <2>0. Types /\ Ranges /\ Loop
    BY DEF IInv, Held
  <2>1. CASE UNCHANGED vars
    <3>1. Rest' /\ Flagged' \subseteq Flagged /\ UNCHANGED <<nthreads, updates>>
      BY <2>1 DEF vars, store, table, main, threads, history, Rest, Flagged, InHand
    <3> QED
      BY <2>0, <3>1, FewerFlagged
  <2>2. CASE MainLoop
    BY <2>0, <2>2, CreateRoom, MainRoom, MainRest
  <2>3. ASSUME NEW t \in Threads, DeviceThread(t) \/ LoadDriver(t) PROVE Rest' /\ Room'
    BY <2>0, <2>3, ThreadRoom, ThreadRest
  <2>4. ASSUME NEW d \in Devices, Update(d) \/ Delete(d) PROVE Rest' /\ Room'
    <3>1. \E c : Change(d, c)
      BY <2>4 DEF Update, Delete
    <3> QED
      BY <2>0, <2>4, <3>1, ChangeRoom, ConfRest
  <2>5. CASE Add
    BY <2>0, <2>5, AddRoom, ConfRest
  <2> QED
    BY <2>1, <2>2, <2>3, <2>4, <2>5 DEF Next
<1>3. IInv /\ Held /\ Rest /\ Room => TypeOK
  <2> SUFFICES ASSUME IInv, Held, Rest, Room PROVE TypeOK
    OBVIOUS
  <2>1. Types /\ Ranges
    BY DEF IInv, Held
  <2>2. nthreads \in Threads \cup {0}
    BY <2>1, FlaggedFinite, SizesAssumption DEF Room, Rest, Types, Threads
  <2> QED
    BY <2>1, <2>2 DEF TypeOK, Types, Ranges, Rest
<1> QED
  BY <1>1, <1>2, <1>3, HoldsAlways, PTL DEF Spec

=============================================================================
