------------------------ MODULE HardwareServerProofs ------------------------
(***************************************************************************)
(* Theorems about two parts of the hardware server, which share no state.  *)
(*                                                                         *)
(* The sessions with the dispenser controllers, for any number of          *)
(* controllers, slots and connections: DcSessions.                         *)
(*                                                                         *)
(* What the file of its configuration holds when nobody is changing        *)
(* anything, that removals are final and that the store is as asked, for   *)
(* any set of administrators, ids and setups: HsConfig.                    *)
(***************************************************************************)
EXTENDS DcSessions, HsConfig, SequenceTheorems, TLAPS

-----------------------------------------------------------------------------
(* The sessions.                                                           *)

\* The main socket thread of i has a connection in its hands, from accept to the
\* creation of the client thread.
Holding(i) == apc[i] \in {"find", "fill", "sock", "spawn"}

\* A connection in the hands of a main socket thread has been accepted, and has no
\* client thread yet.
HeldIsFresh ==
  \A i \in Controllers : Holding(i) =>
    /\ aconn[i] \in Conns
    /\ thr[aconn[i]] = "none"
    /\ peer[aconn[i]] \in {"up", "gone"}

\* No two main socket threads have the same connection in their hands.
HeldOnce ==
  \A i, j \in Controllers :
    Holding(i) /\ Holding(j) /\ aconn[i] = aconn[j] => i = j

\* Only accepted connections get a client thread.
ThreadAfterAccept == \A c \in Conns : thr[c] # "none" => peer[c] \in {"up", "gone"}

\* The parameters a new client thread finds under its own connection are its own.
OwnParam ==
  \A c \in Conns :
    thr[c] = "boot" /\ pconn[mctl[c]] = c => pslot[mctl[c]] = mslot[c]

Handover == HeldIsFresh /\ HeldOnce /\ ThreadAfterAccept

SlotInv == OwnParam /\ OneClientPerSlot /\ NoSlotLeak

\* The inductive invariant.
IInv == TypeOK /\ Handover /\ ReaderWithinClient /\ SlotInv

-----------------------------------------------------------------------------
(* Types.                                                                   *)

\* The index ranges: there is a controller 0 and a slot 0, and a slot that is not the
\* last has a next one.
LEMMA Ranges ==
  /\ 0 \in Controllers
  /\ 0 \in Slots
  /\ \A s \in Slots : s + 1 < NSlots => s + 1 \in Slots
  BY SizesAssumption DEF Controllers, Slots

LEMMA InitTypeOK == Init => TypeOK
  BY Ranges DEF Init, TypeOK, ConnOrNone

LEMMA StepTypeOK == TypeOK /\ [Next]_vars => TypeOK'
<1>. SUFFICES ASSUME TypeOK, [Next]_vars PROVE TypeOK'
  OBVIOUS
<1>. USE DEF TypeOK, table, held, param, accepts, me, clients,
         scan, devices, peers
<1>1. ASSUME NEW c \in Conns, NEW i \in Controllers, PeerConnects(c, i) PROVE TypeOK'
  BY <1>1 DEF PeerConnects
<1>2. ASSUME NEW c \in Conns, PeerLeaves(c) PROVE TypeOK'
  BY <1>2 DEF PeerLeaves
<1>3. ASSUME NEW i \in Controllers, CreateSock(i) PROVE TypeOK'
  BY <1>3 DEF CreateSock
<1>4. ASSUME NEW i \in Controllers, SetSockStatus(i) PROVE TypeOK'
  BY <1>4 DEF SetSockStatus
<1>5. ASSUME NEW i \in Controllers, TestStatus(i) PROVE TypeOK'
  BY <1>5 DEF TestStatus
<1>6. ASSUME NEW i \in Controllers, NEW c \in Conns, Accept(i, c) PROVE TypeOK'
  BY <1>6 DEF Accept, ConnOrNone
<1>7. ASSUME NEW i \in Controllers, AcceptFails(i) PROVE TypeOK'
  BY <1>7 DEF AcceptFails
<1>8. ASSUME NEW i \in Controllers, NEW s \in Slots, FindSlot(i, s) PROVE TypeOK'
  BY <1>8 DEF FindSlot
<1>9. ASSUME NEW i \in Controllers, NoSlot(i) PROVE TypeOK'
  BY <1>9 DEF NoSlot
<1>10. ASSUME NEW i \in Controllers, FillSlot(i) PROVE TypeOK'
  BY <1>10 DEF FillSlot
<1>11. ASSUME NEW i \in Controllers, StoreSock(i) PROVE TypeOK'
  BY <1>11 DEF StoreSock
<1>12. ASSUME NEW i \in Controllers, Spawn(i) PROVE TypeOK'
  BY <1>12 DEF Spawn, ConnOrNone
<1>13. ASSUME NEW i \in Controllers, Leave(i) PROVE TypeOK'
  BY <1>13 DEF Leave
<1>14. ASSUME NEW c \in Conns, Boot(c) PROVE TypeOK'
  <2>1. pconn[mctl[c]] \in ConnOrNone /\ pslot[mctl[c]] \in Slots
    OBVIOUS
  <2>2. mconn' \in [Conns -> ConnOrNone] /\ mslot' \in [Conns -> Slots]
    BY <1>14, <2>1 DEF Boot
  <2>3. mixed' \subseteq Conns /\ thr' \in [Conns -> {"none", "boot", "reader", "flag",
                     "loop", "join", "close", "unsock", "end"}]
    BY <1>14 DEF Boot
  <2>. QED
    BY <1>14, <2>2, <2>3 DEF Boot
<1>15. ASSUME NEW c \in Conns, StartReader(c) PROVE TypeOK'
  BY <1>15 DEF StartReader
<1>16. ASSUME NEW c \in Conns, RaiseFlag(c) PROVE TypeOK'
  BY <1>16 DEF RaiseFlag
<1>17. ASSUME NEW c \in Conns, LeaveLoop(c) PROVE TypeOK'
  BY <1>17 DEF LeaveLoop
<1>18. ASSUME NEW c \in Conns, Destroy(c) PROVE TypeOK'
  BY <1>18, Ranges DEF Destroy
<1>19. ASSUME NEW c \in Conns, CloseConn(c) PROVE TypeOK'
  BY <1>19 DEF CloseConn
<1>20. ASSUME NEW c \in Conns, ForgetSock(c) PROVE TypeOK'
  BY <1>20 DEF ForgetSock, ConnOrNone
<1>21. ASSUME NEW c \in Conns, ReaderEnds(c) PROVE TypeOK'
  BY <1>21 DEF ReaderEnds
<1>22. ASSUME NEW i \in Controllers, StopRequest(i) PROVE TypeOK'
  BY <1>22 DEF StopRequest
<1>23. ASSUME NEW i \in Controllers, BeginStop(i) PROVE TypeOK'
  BY <1>23 DEF BeginStop
<1>24. ASSUME NEW i \in Controllers, MarkDisconnected(i) PROVE TypeOK'
  BY <1>24 DEF MarkDisconnected
<1>25. ASSUME NEW i \in Controllers, DestroyClients(i) PROVE TypeOK'
  <2>1. shut' \subseteq Conns
    BY <1>25 DEF DestroyClients, ActiveSlots, ConnOrNone
  <2>2. state' \in [Slots -> {"Free", "Busy", "Active", "Destroying"}]
    BY <1>25 DEF DestroyClients
  <2>. QED
    BY <1>25, <2>1, <2>2 DEF DestroyClients
<1>26. ASSUME NEW i \in Controllers, ScanSlot(i) PROVE TypeOK'
  <2>1. scanAt[i] + 1 < NSlots => scanAt[i] + 1 \in Slots
    BY Ranges
  <2>2. CASE /\ scanAt[i] + 1 < NSlots
             /\ scanAt' = [scanAt EXCEPT ![i] = scanAt[i] + 1]
             /\ scanReady' = [scanReady EXCEPT ![i] =
                                 IF Occupied(i, scanAt[i]) THEN FALSE ELSE @]
             /\ UNCHANGED dev
    <3>1. scanReady' = [scanReady EXCEPT ![i] = FALSE] \/ scanReady' = scanReady
      BY <2>2
    <3>2. scanReady' \in [Controllers -> BOOLEAN]
      BY <3>1
    <3>. QED
      BY <1>26, <2>1, <2>2, <3>2 DEF ScanSlot
  <2>3. CASE /\ scanAt' = [scanAt EXCEPT ![i] = 0]
             /\ scanReady' = [scanReady EXCEPT ![i] = TRUE]
             /\ dev' = [dev EXCEPT ![i] =
                           IF Occupied(i, scanAt[i]) \/ ~scanReady[i] THEN @ ELSE "join"]
    <3>1. dev' = dev \/ dev' = [dev EXCEPT ![i] = "join"]
      BY <2>3
    <3>. QED
      BY <1>26, <2>3, <3>1, Ranges DEF ScanSlot
  <2>. QED
    BY <1>26, <2>2, <2>3 DEF ScanSlot
<1>27. ASSUME NEW i \in Controllers, Finish(i) PROVE TypeOK'
  BY <1>27 DEF Finish
<1>28. CASE UNCHANGED vars
  BY <1>28 DEF vars
<1>. QED
  BY <1>1, <1>2, <1>3, <1>4, <1>5, <1>6, <1>7, <1>8, <1>9, <1>10, <1>11, <1>12, <1>13,
    <1>14, <1>15, <1>16, <1>17, <1>18, <1>19, <1>20, <1>21, <1>22, <1>23, <1>24, <1>25,
    <1>26, <1>27, <1>28 DEF Next, ClientThread, MainSocketThread, DeviceThread

-----------------------------------------------------------------------------
(* The hand-over of a connection from the main socket thread to its thread. *)

LEMMA InitHandover == Init => Handover
  BY DEF Init, Handover, HeldIsFresh, HeldOnce, ThreadAfterAccept, Holding

LEMMA StepHeldIsFresh == TypeOK /\ Handover /\ [Next]_vars => HeldIsFresh'
<1>. SUFFICES ASSUME TypeOK, Handover, [Next]_vars PROVE HeldIsFresh'
  OBVIOUS
<1>. USE DEF Handover, HeldIsFresh, HeldOnce, ThreadAfterAccept, Holding, held, param,
  accepts, me, clients, peers
<1>0. /\ apc \in [Controllers -> {"connect", "status", "test", "accept", "find", "fill",
                              "sock", "spawn", "leave", "end"}]
      /\ aconn \in [Controllers -> ConnOrNone]
      /\ thr \in [Conns -> {"none", "boot", "reader", "flag", "loop", "join", "close",
                          "unsock", "end"}]
      /\ peer \in [Conns -> {"away", "waiting", "up", "gone"}]
      /\ sockStatus \in [Controllers -> {"ConnectReady", "Connected", "Disconnected"}]
  BY DEF TypeOK
<1>1. ASSUME NEW c \in Conns, NEW i \in Controllers, PeerConnects(c, i)
             PROVE HeldIsFresh'
  BY <1>0, <1>1 DEF PeerConnects
<1>2. ASSUME NEW c \in Conns, PeerLeaves(c) PROVE HeldIsFresh'
  BY <1>0, <1>2 DEF PeerLeaves
<1>3. ASSUME NEW i \in Controllers, CreateSock(i) PROVE HeldIsFresh'
  BY <1>0, <1>3 DEF CreateSock
<1>4. ASSUME NEW i \in Controllers, SetSockStatus(i) PROVE HeldIsFresh'
  BY <1>0, <1>4 DEF SetSockStatus
<1>5. ASSUME NEW i \in Controllers, TestStatus(i) PROVE HeldIsFresh'
  BY <1>0, <1>5 DEF TestStatus
<1>6. ASSUME NEW i \in Controllers, NEW c \in Conns, Accept(i, c) PROVE HeldIsFresh'
  BY <1>0, <1>6 DEF Accept
<1>7. ASSUME NEW i \in Controllers, AcceptFails(i) PROVE HeldIsFresh'
  BY <1>0, <1>7 DEF AcceptFails
<1>8. ASSUME NEW i \in Controllers, NEW s \in Slots, FindSlot(i, s) PROVE HeldIsFresh'
  BY <1>0, <1>8 DEF FindSlot
<1>9. ASSUME NEW i \in Controllers, NoSlot(i) PROVE HeldIsFresh'
  BY <1>0, <1>9 DEF NoSlot
<1>10. ASSUME NEW i \in Controllers, FillSlot(i) PROVE HeldIsFresh'
  BY <1>0, <1>10 DEF FillSlot
<1>11. ASSUME NEW i \in Controllers, StoreSock(i) PROVE HeldIsFresh'
  BY <1>0, <1>11 DEF StoreSock
<1>12. ASSUME NEW i \in Controllers, Spawn(i) PROVE HeldIsFresh'
  BY <1>0, <1>12 DEF Spawn
<1>13. ASSUME NEW i \in Controllers, Leave(i) PROVE HeldIsFresh'
  BY <1>0, <1>13 DEF Leave
<1>14. ASSUME NEW c \in Conns, Boot(c) PROVE HeldIsFresh'
  BY <1>0, <1>14 DEF Boot
<1>15. ASSUME NEW c \in Conns, StartReader(c) PROVE HeldIsFresh'
  BY <1>0, <1>15 DEF StartReader
<1>16. ASSUME NEW c \in Conns, RaiseFlag(c) PROVE HeldIsFresh'
  BY <1>0, <1>16 DEF RaiseFlag
<1>17. ASSUME NEW c \in Conns, LeaveLoop(c) PROVE HeldIsFresh'
  BY <1>0, <1>17 DEF LeaveLoop
<1>18. ASSUME NEW c \in Conns, Destroy(c) PROVE HeldIsFresh'
  BY <1>0, <1>18 DEF Destroy
<1>19. ASSUME NEW c \in Conns, CloseConn(c) PROVE HeldIsFresh'
  BY <1>0, <1>19 DEF CloseConn
<1>20. ASSUME NEW c \in Conns, ForgetSock(c) PROVE HeldIsFresh'
  BY <1>0, <1>20 DEF ForgetSock
\* The other steps leave what the lemma is about alone.
<1>21. CASE UNCHANGED <<apc, aconn, thr, peer>>
  BY <1>21
<1>22. ASSUME NEW c \in Conns,
           ReaderEnds(c)
       PROVE  HeldIsFresh'
  BY <1>22, <1>21 DEF ReaderEnds
<1>23. ASSUME NEW i \in Controllers,
           StopRequest(i) \/ BeginStop(i) \/ MarkDisconnected(i) \/ DestroyClients(i)
             \/ ScanSlot(i) \/ Finish(i)
       PROVE  HeldIsFresh'
  BY <1>23, <1>21 DEF StopRequest, BeginStop, MarkDisconnected, DestroyClients,
    ScanSlot, Finish
<1>24. CASE UNCHANGED vars
  BY <1>24, <1>21 DEF vars
<1>. QED
  BY <1>1, <1>2, <1>3, <1>4, <1>5, <1>6, <1>7, <1>8, <1>9, <1>10, <1>11, <1>12, <1>13,
    <1>14, <1>15, <1>16, <1>17, <1>18, <1>19, <1>20, <1>22, <1>23, <1>24 DEF Next,
    ClientThread, MainSocketThread, DeviceThread

LEMMA StepHeldOnce == TypeOK /\ Handover /\ [Next]_vars => HeldOnce'
<1>. SUFFICES ASSUME TypeOK, Handover, [Next]_vars PROVE HeldOnce'
  OBVIOUS
<1>. USE DEF Handover, HeldIsFresh, HeldOnce, Holding, held, param, accepts, me,
  clients, peers
<1>0. /\ apc \in [Controllers -> {"connect", "status", "test", "accept", "find", "fill",
                              "sock", "spawn", "leave", "end"}]
      /\ aconn \in [Controllers -> ConnOrNone]
      /\ peer \in [Conns -> {"away", "waiting", "up", "gone"}]
      /\ sockStatus \in [Controllers -> {"ConnectReady", "Connected", "Disconnected"}]
  BY DEF TypeOK
<1>1. ASSUME NEW i \in Controllers, CreateSock(i) PROVE HeldOnce'
  BY <1>0, <1>1 DEF CreateSock
<1>2. ASSUME NEW i \in Controllers, SetSockStatus(i) PROVE HeldOnce'
  BY <1>0, <1>2 DEF SetSockStatus
<1>3. ASSUME NEW i \in Controllers, TestStatus(i) PROVE HeldOnce'
  BY <1>0, <1>3 DEF TestStatus
<1>4. ASSUME NEW i \in Controllers, NEW c \in Conns, Accept(i, c) PROVE HeldOnce'
  BY <1>0, <1>4 DEF Accept
<1>5. ASSUME NEW i \in Controllers, AcceptFails(i) PROVE HeldOnce'
  BY <1>0, <1>5 DEF AcceptFails
<1>6. ASSUME NEW i \in Controllers, NEW s \in Slots, FindSlot(i, s) PROVE HeldOnce'
  BY <1>0, <1>6 DEF FindSlot
<1>7. ASSUME NEW i \in Controllers, NoSlot(i) PROVE HeldOnce'
  BY <1>0, <1>7 DEF NoSlot
<1>8. ASSUME NEW i \in Controllers, FillSlot(i) PROVE HeldOnce'
  BY <1>0, <1>8 DEF FillSlot
<1>9. ASSUME NEW i \in Controllers, StoreSock(i) PROVE HeldOnce'
  BY <1>0, <1>9 DEF StoreSock
<1>10. ASSUME NEW i \in Controllers, Spawn(i) PROVE HeldOnce'
  BY <1>0, <1>10 DEF Spawn
<1>11. ASSUME NEW i \in Controllers, Leave(i) PROVE HeldOnce'
  BY <1>0, <1>11 DEF Leave
\* The other steps leave what the lemma is about alone.
<1>12. CASE UNCHANGED <<apc, aconn>>
  BY <1>12
<1>13. ASSUME NEW c \in Conns, NEW i \in Controllers,
           PeerConnects(c, i)
       PROVE  HeldOnce'
  BY <1>13, <1>12 DEF PeerConnects
<1>14. ASSUME NEW c \in Conns,
           PeerLeaves(c) \/ Boot(c) \/ StartReader(c) \/ RaiseFlag(c) \/ LeaveLoop(c)
             \/ Destroy(c) \/ CloseConn(c) \/ ForgetSock(c) \/ ReaderEnds(c)
       PROVE  HeldOnce'
  BY <1>14, <1>12 DEF PeerLeaves, Boot, StartReader, RaiseFlag, LeaveLoop, Destroy,
    CloseConn, ForgetSock, ReaderEnds
<1>15. ASSUME NEW i \in Controllers,
           StopRequest(i) \/ BeginStop(i) \/ MarkDisconnected(i) \/ DestroyClients(i)
             \/ ScanSlot(i) \/ Finish(i)
       PROVE  HeldOnce'
  BY <1>15, <1>12 DEF StopRequest, BeginStop, MarkDisconnected, DestroyClients,
    ScanSlot, Finish
<1>16. CASE UNCHANGED vars
  BY <1>16, <1>12 DEF vars
<1>. QED
  BY <1>1, <1>2, <1>3, <1>4, <1>5, <1>6, <1>7, <1>8, <1>9, <1>10, <1>11, <1>13, <1>14,
    <1>15, <1>16 DEF Next, ClientThread, MainSocketThread, DeviceThread

LEMMA StepThreadAfterAccept == TypeOK /\ Handover /\ [Next]_vars => ThreadAfterAccept'
<1>. SUFFICES ASSUME TypeOK, Handover, [Next]_vars PROVE ThreadAfterAccept'
  OBVIOUS
<1>. USE DEF Handover, HeldIsFresh, ThreadAfterAccept, Holding, held, param, accepts,
  me, clients, peers
<1>0. /\ thr \in [Conns -> {"none", "boot", "reader", "flag", "loop", "join", "close",
                          "unsock", "end"}]
      /\ peer \in [Conns -> {"away", "waiting", "up", "gone"}]
  BY DEF TypeOK
<1>1. ASSUME NEW c \in Conns, NEW i \in Controllers, PeerConnects(c, i)
             PROVE ThreadAfterAccept'
  BY <1>0, <1>1 DEF PeerConnects
<1>2. ASSUME NEW c \in Conns, PeerLeaves(c) PROVE ThreadAfterAccept'
  BY <1>0, <1>2 DEF PeerLeaves
<1>3. ASSUME NEW i \in Controllers, NEW c \in Conns, Accept(i, c)
             PROVE ThreadAfterAccept'
  BY <1>0, <1>3 DEF Accept
<1>4. ASSUME NEW i \in Controllers, NoSlot(i) PROVE ThreadAfterAccept'
  BY <1>0, <1>4 DEF NoSlot
<1>5. ASSUME NEW i \in Controllers, Spawn(i) PROVE ThreadAfterAccept'
  BY <1>0, <1>5 DEF Spawn
<1>6. ASSUME NEW c \in Conns, Boot(c) PROVE ThreadAfterAccept'
  BY <1>0, <1>6 DEF Boot
<1>7. ASSUME NEW c \in Conns, StartReader(c) PROVE ThreadAfterAccept'
  BY <1>0, <1>7 DEF StartReader
<1>8. ASSUME NEW c \in Conns, RaiseFlag(c) PROVE ThreadAfterAccept'
  BY <1>0, <1>8 DEF RaiseFlag
<1>9. ASSUME NEW c \in Conns, LeaveLoop(c) PROVE ThreadAfterAccept'
  BY <1>0, <1>9 DEF LeaveLoop
<1>10. ASSUME NEW c \in Conns, Destroy(c) PROVE ThreadAfterAccept'
  BY <1>0, <1>10 DEF Destroy
<1>11. ASSUME NEW c \in Conns, CloseConn(c) PROVE ThreadAfterAccept'
  BY <1>0, <1>11 DEF CloseConn
<1>12. ASSUME NEW c \in Conns, ForgetSock(c) PROVE ThreadAfterAccept'
  BY <1>0, <1>12 DEF ForgetSock
\* The other steps leave what the lemma is about alone.
<1>13. CASE UNCHANGED <<thr, peer>>
  BY <1>13
<1>14. ASSUME NEW i \in Controllers,
           CreateSock(i) \/ SetSockStatus(i) \/ TestStatus(i) \/ AcceptFails(i) \/
             FillSlot(i) \/ StoreSock(i) \/ Leave(i) \/ StopRequest(i) \/ BeginStop(i)
             \/ MarkDisconnected(i) \/ DestroyClients(i) \/ ScanSlot(i) \/ Finish(i)
       PROVE  ThreadAfterAccept'
  BY <1>14, <1>13 DEF CreateSock, SetSockStatus, TestStatus, AcceptFails, FillSlot,
    StoreSock, Leave, StopRequest, BeginStop, MarkDisconnected, DestroyClients,
    ScanSlot, Finish
<1>15. ASSUME NEW i \in Controllers, NEW s \in Slots,
           FindSlot(i, s)
       PROVE  ThreadAfterAccept'
  BY <1>15, <1>13 DEF FindSlot
<1>16. ASSUME NEW c \in Conns,
           ReaderEnds(c)
       PROVE  ThreadAfterAccept'
  BY <1>16, <1>13 DEF ReaderEnds
<1>17. CASE UNCHANGED vars
  BY <1>17, <1>13 DEF vars
<1>. QED
  BY <1>1, <1>2, <1>3, <1>4, <1>5, <1>6, <1>7, <1>8, <1>9, <1>10, <1>11, <1>12, <1>14,
    <1>15, <1>16, <1>17 DEF Next, ClientThread, MainSocketThread, DeviceThread

LEMMA StepReader ==
  TypeOK /\ Handover /\ ReaderWithinClient /\ [Next]_vars => ReaderWithinClient'
<1>. SUFFICES ASSUME TypeOK, Handover, ReaderWithinClient, [Next]_vars
             PROVE ReaderWithinClient'
  OBVIOUS
<1>. USE DEF Handover, HeldIsFresh, Holding, ReaderWithinClient, held, param, accepts,
  me, clients, peers
<1>0. /\ thr \in [Conns -> {"none", "boot", "reader", "flag", "loop", "join", "close",
                          "unsock", "end"}]
      /\ rd \in [Conns -> {"none", "run", "done"}]
  BY DEF TypeOK
<1>1. ASSUME NEW i \in Controllers, Spawn(i) PROVE ReaderWithinClient'
  BY <1>0, <1>1 DEF Spawn
<1>2. ASSUME NEW c \in Conns, Boot(c) PROVE ReaderWithinClient'
  BY <1>0, <1>2 DEF Boot
<1>3. ASSUME NEW c \in Conns, StartReader(c) PROVE ReaderWithinClient'
  BY <1>0, <1>3 DEF StartReader
<1>4. ASSUME NEW c \in Conns, RaiseFlag(c) PROVE ReaderWithinClient'
  BY <1>0, <1>4 DEF RaiseFlag
<1>5. ASSUME NEW c \in Conns, LeaveLoop(c) PROVE ReaderWithinClient'
  BY <1>0, <1>5 DEF LeaveLoop
<1>6. ASSUME NEW c \in Conns, Destroy(c) PROVE ReaderWithinClient'
  BY <1>0, <1>6 DEF Destroy
<1>7. ASSUME NEW c \in Conns, CloseConn(c) PROVE ReaderWithinClient'
  BY <1>0, <1>7 DEF CloseConn
<1>8. ASSUME NEW c \in Conns, ForgetSock(c) PROVE ReaderWithinClient'
  BY <1>0, <1>8 DEF ForgetSock
<1>9. ASSUME NEW c \in Conns, ReaderEnds(c) PROVE ReaderWithinClient'
  BY <1>0, <1>9 DEF ReaderEnds
\* The other steps leave what the lemma is about alone.
<1>10. CASE UNCHANGED <<thr, rd>>
  BY <1>10
<1>11. ASSUME NEW c \in Conns, NEW i \in Controllers,
           PeerConnects(c, i) \/ Accept(i, c)
       PROVE  ReaderWithinClient'
  BY <1>11, <1>10 DEF PeerConnects, Accept
<1>12. ASSUME NEW c \in Conns,
           PeerLeaves(c)
       PROVE  ReaderWithinClient'
  BY <1>12, <1>10 DEF PeerLeaves
<1>13. ASSUME NEW i \in Controllers,
           CreateSock(i) \/ SetSockStatus(i) \/ TestStatus(i) \/ AcceptFails(i) \/
             NoSlot(i) \/ FillSlot(i) \/ StoreSock(i) \/ Leave(i) \/ StopRequest(i) \/
             BeginStop(i) \/ MarkDisconnected(i) \/ DestroyClients(i) \/ ScanSlot(i) \/
             Finish(i)
       PROVE  ReaderWithinClient'
  BY <1>13, <1>10 DEF CreateSock, SetSockStatus, TestStatus, AcceptFails, NoSlot,
    FillSlot, StoreSock, Leave, StopRequest, BeginStop, MarkDisconnected,
    DestroyClients, ScanSlot, Finish
<1>14. ASSUME NEW i \in Controllers, NEW s \in Slots,
           FindSlot(i, s)
       PROVE  ReaderWithinClient'
  BY <1>14, <1>10 DEF FindSlot
<1>15. CASE UNCHANGED vars
  BY <1>15, <1>10 DEF vars
<1>. QED
  BY <1>1, <1>2, <1>3, <1>4, <1>5, <1>6, <1>7, <1>8, <1>9, <1>11, <1>12, <1>13, <1>14,
    <1>15 DEF Next, ClientThread, MainSocketThread, DeviceThread

-----------------------------------------------------------------------------
(* One client per slot, and no slot without one.                            *)

LEMMA InitSlots == Init => SlotInv
  BY DEF Init, SlotInv, OwnParam, OneClientPerSlot, NoSlotLeak, Serving, Filling

LEMMA StepOwnParam == TypeOK /\ Handover /\ OwnParam /\ [Next]_vars => OwnParam'
<1>. SUFFICES ASSUME TypeOK, Handover, OwnParam, [Next]_vars PROVE OwnParam'
  OBVIOUS
<1>. USE DEF Handover, HeldIsFresh, OwnParam, Holding, held, param, accepts, me,
  clients, peers
<1>0. /\ thr \in [Conns -> {"none", "boot", "reader", "flag", "loop", "join", "close",
                          "unsock", "end"}]
      /\ mslot \in [Conns -> Slots] /\ mctl \in [Conns -> Controllers]
      /\ aslot \in [Controllers -> Slots]
      /\ pconn \in [Controllers -> ConnOrNone] /\ pslot \in [Controllers -> Slots]
  BY DEF TypeOK
<1>1. ASSUME NEW i \in Controllers, Spawn(i) PROVE OwnParam'
  BY <1>0, <1>1 DEF Spawn
<1>2. ASSUME NEW c \in Conns, Boot(c) PROVE OwnParam'
  BY <1>0, <1>2 DEF Boot
<1>3. ASSUME NEW c \in Conns, StartReader(c) PROVE OwnParam'
  BY <1>0, <1>3 DEF StartReader
<1>4. ASSUME NEW c \in Conns, RaiseFlag(c) PROVE OwnParam'
  BY <1>0, <1>4 DEF RaiseFlag
<1>5. ASSUME NEW c \in Conns, LeaveLoop(c) PROVE OwnParam'
  BY <1>0, <1>5 DEF LeaveLoop
<1>6. ASSUME NEW c \in Conns, Destroy(c) PROVE OwnParam'
  BY <1>0, <1>6 DEF Destroy
<1>7. ASSUME NEW c \in Conns, CloseConn(c) PROVE OwnParam'
  BY <1>0, <1>7 DEF CloseConn
<1>8. ASSUME NEW c \in Conns, ForgetSock(c) PROVE OwnParam'
  BY <1>0, <1>8 DEF ForgetSock
\* The other steps leave what the lemma is about alone.
<1>9. CASE UNCHANGED <<thr, pconn, pslot, mslot, mctl>>
  BY <1>9
<1>10. ASSUME NEW c \in Conns, NEW i \in Controllers,
           PeerConnects(c, i) \/ Accept(i, c)
       PROVE  OwnParam'
  BY <1>10, <1>9 DEF PeerConnects, Accept
<1>11. ASSUME NEW c \in Conns,
           PeerLeaves(c) \/ ReaderEnds(c)
       PROVE  OwnParam'
  BY <1>11, <1>9 DEF PeerLeaves, ReaderEnds
<1>12. ASSUME NEW i \in Controllers,
           CreateSock(i) \/ SetSockStatus(i) \/ TestStatus(i) \/ AcceptFails(i) \/
             NoSlot(i) \/ FillSlot(i) \/ StoreSock(i) \/ Leave(i) \/ StopRequest(i) \/
             BeginStop(i) \/ MarkDisconnected(i) \/ DestroyClients(i) \/ ScanSlot(i) \/
             Finish(i)
       PROVE  OwnParam'
  BY <1>12, <1>9 DEF CreateSock, SetSockStatus, TestStatus, AcceptFails, NoSlot,
    FillSlot, StoreSock, Leave, StopRequest, BeginStop, MarkDisconnected,
    DestroyClients, ScanSlot, Finish
<1>13. ASSUME NEW i \in Controllers, NEW s \in Slots,
           FindSlot(i, s)
       PROVE  OwnParam'
  BY <1>13, <1>9 DEF FindSlot
<1>14. CASE UNCHANGED vars
  BY <1>14, <1>9 DEF vars
<1>. QED
  BY <1>1, <1>2, <1>3, <1>4, <1>5, <1>6, <1>7, <1>8, <1>10, <1>11, <1>12, <1>13, <1>14
    DEF Next, ClientThread, MainSocketThread, DeviceThread

LEMMA StepOneClient == TypeOK /\ Handover /\ SlotInv /\ [Next]_vars => OneClientPerSlot'
<1>. SUFFICES ASSUME TypeOK, Handover, SlotInv, [Next]_vars PROVE OneClientPerSlot'
  OBVIOUS
<1>. USE DEF Handover, HeldIsFresh, HeldOnce, SlotInv, OwnParam, OneClientPerSlot,
  NoSlotLeak, Holding, Serving, Filling, held, param, accepts, me, clients, peers
<1>0. /\ apc \in [Controllers -> {"connect", "status", "test", "accept", "find", "fill",
                              "sock", "spawn", "leave", "end"}]
      /\ thr \in [Conns -> {"none", "boot", "reader", "flag", "loop", "join", "close",
                          "unsock", "end"}]
      /\ mslot \in [Conns -> Slots] /\ mctl \in [Conns -> Controllers]
      /\ aslot \in [Controllers -> Slots]
      /\ pconn \in [Controllers -> ConnOrNone] /\ pslot \in [Controllers -> Slots]
      /\ state \in [Slots -> {"Free", "Busy", "Active", "Destroying"}]
      /\ sockStatus \in [Controllers -> {"ConnectReady", "Connected", "Disconnected"}]
  BY DEF TypeOK
<1>1. ASSUME NEW i \in Controllers, CreateSock(i) PROVE OneClientPerSlot'
  BY <1>0, <1>1 DEF CreateSock
<1>2. ASSUME NEW i \in Controllers, SetSockStatus(i) PROVE OneClientPerSlot'
  BY <1>0, <1>2 DEF SetSockStatus
<1>3. ASSUME NEW i \in Controllers, TestStatus(i) PROVE OneClientPerSlot'
  BY <1>0, <1>3 DEF TestStatus
<1>4. ASSUME NEW i \in Controllers, NEW c \in Conns, Accept(i, c)
             PROVE OneClientPerSlot'
  BY <1>0, <1>4 DEF Accept
<1>5. ASSUME NEW i \in Controllers, AcceptFails(i) PROVE OneClientPerSlot'
  BY <1>0, <1>5 DEF AcceptFails
<1>6. ASSUME NEW i \in Controllers, NEW s \in Slots, FindSlot(i, s)
             PROVE OneClientPerSlot'
  BY <1>0, <1>6 DEF FindSlot
<1>7. ASSUME NEW i \in Controllers, NoSlot(i) PROVE OneClientPerSlot'
  BY <1>0, <1>7 DEF NoSlot
<1>8. ASSUME NEW i \in Controllers, FillSlot(i) PROVE OneClientPerSlot'
  BY <1>0, <1>8 DEF FillSlot
<1>9. ASSUME NEW i \in Controllers, StoreSock(i) PROVE OneClientPerSlot'
  BY <1>0, <1>9 DEF StoreSock
<1>10. ASSUME NEW i \in Controllers, Spawn(i) PROVE OneClientPerSlot'
  BY <1>0, <1>10 DEF Spawn
<1>11. ASSUME NEW i \in Controllers, Leave(i) PROVE OneClientPerSlot'
  BY <1>0, <1>11 DEF Leave
<1>12. ASSUME NEW c \in Conns, Boot(c) PROVE OneClientPerSlot'
  <2>1. CASE mixed' # {}
    BY <2>1
  <2>2. CASE mixed' = {}
    <3>1. mixed = {} /\ pconn[mctl[c]] = c
      BY <1>0, <1>12, <2>2 DEF Boot
    <3>2. mslot[c] = pslot[mctl[c]]
      BY <3>1, <1>12 DEF Boot
    <3>3. mslot' = mslot
      BY <1>0, <3>2, <1>12 DEF Boot
    <3>. QED
      BY <1>0, <1>12, <3>1, <3>3 DEF Boot
  <2>. QED
    BY <2>1, <2>2
<1>13. ASSUME NEW c \in Conns, StartReader(c) PROVE OneClientPerSlot'
  BY <1>0, <1>13 DEF StartReader
<1>14. ASSUME NEW c \in Conns, RaiseFlag(c) PROVE OneClientPerSlot'
  BY <1>0, <1>14 DEF RaiseFlag
<1>15. ASSUME NEW c \in Conns, LeaveLoop(c) PROVE OneClientPerSlot'
  BY <1>0, <1>15 DEF LeaveLoop
<1>16. ASSUME NEW c \in Conns, Destroy(c) PROVE OneClientPerSlot'
  BY <1>0, <1>16 DEF Destroy
<1>17. ASSUME NEW c \in Conns, CloseConn(c) PROVE OneClientPerSlot'
  BY <1>0, <1>17 DEF CloseConn
<1>18. ASSUME NEW c \in Conns, ForgetSock(c) PROVE OneClientPerSlot'
  BY <1>0, <1>18 DEF ForgetSock
\* The other steps leave what the lemma is about alone.
<1>19. CASE UNCHANGED <<apc, aslot, thr, mslot, mixed>>
  BY <1>19
<1>20. ASSUME NEW c \in Conns, NEW i \in Controllers,
           PeerConnects(c, i)
       PROVE  OneClientPerSlot'
  BY <1>20, <1>19 DEF PeerConnects
<1>21. ASSUME NEW c \in Conns,
           PeerLeaves(c) \/ ReaderEnds(c)
       PROVE  OneClientPerSlot'
  BY <1>21, <1>19 DEF PeerLeaves, ReaderEnds
<1>22. ASSUME NEW i \in Controllers,
           StopRequest(i) \/ BeginStop(i) \/ MarkDisconnected(i) \/ DestroyClients(i)
             \/ ScanSlot(i) \/ Finish(i)
       PROVE  OneClientPerSlot'
  BY <1>22, <1>19 DEF StopRequest, BeginStop, MarkDisconnected, DestroyClients,
    ScanSlot, Finish
<1>23. CASE UNCHANGED vars
  BY <1>23, <1>19 DEF vars
<1>. QED
  BY <1>1, <1>2, <1>3, <1>4, <1>5, <1>6, <1>7, <1>8, <1>9, <1>10, <1>11, <1>12, <1>13,
    <1>14, <1>15, <1>16, <1>17, <1>18, <1>20, <1>21, <1>22, <1>23 DEF Next,
    ClientThread, MainSocketThread, DeviceThread

LEMMA StepNoLeak == TypeOK /\ Handover /\ SlotInv /\ [Next]_vars => NoSlotLeak'
<1>. SUFFICES ASSUME TypeOK, Handover, SlotInv, [Next]_vars PROVE NoSlotLeak'
  OBVIOUS
<1>. USE DEF Handover, HeldIsFresh, HeldOnce, SlotInv, OwnParam, OneClientPerSlot,
  NoSlotLeak, Holding, Serving, Filling, table, held, param, accepts, me, clients,
  peers
<1>0. /\ apc \in [Controllers -> {"connect", "status", "test", "accept", "find", "fill",
                              "sock", "spawn", "leave", "end"}]
      /\ thr \in [Conns -> {"none", "boot", "reader", "flag", "loop", "join", "close",
                          "unsock", "end"}]
      /\ mslot \in [Conns -> Slots] /\ mctl \in [Conns -> Controllers]
      /\ aslot \in [Controllers -> Slots]
      /\ pconn \in [Controllers -> ConnOrNone] /\ pslot \in [Controllers -> Slots]
      /\ state \in [Slots -> {"Free", "Busy", "Active", "Destroying"}]
      /\ sockStatus \in [Controllers -> {"ConnectReady", "Connected", "Disconnected"}]
  BY DEF TypeOK
<1>1. ASSUME NEW i \in Controllers, CreateSock(i) PROVE NoSlotLeak'
  BY <1>0, <1>1 DEF CreateSock
<1>2. ASSUME NEW i \in Controllers, SetSockStatus(i) PROVE NoSlotLeak'
  BY <1>0, <1>2 DEF SetSockStatus
<1>3. ASSUME NEW i \in Controllers, TestStatus(i) PROVE NoSlotLeak'
  BY <1>0, <1>3 DEF TestStatus
<1>4. ASSUME NEW i \in Controllers, NEW c \in Conns, Accept(i, c) PROVE NoSlotLeak'
  BY <1>0, <1>4 DEF Accept
<1>5. ASSUME NEW i \in Controllers, AcceptFails(i) PROVE NoSlotLeak'
  BY <1>0, <1>5 DEF AcceptFails
<1>6. ASSUME NEW i \in Controllers, NEW s \in Slots, FindSlot(i, s) PROVE NoSlotLeak'
  BY <1>0, <1>6 DEF FindSlot
<1>7. ASSUME NEW i \in Controllers, NoSlot(i) PROVE NoSlotLeak'
  <2>1. \A j \in Controllers : Filling(j)' <=> Filling(j)
    BY <1>0, <1>7 DEF NoSlot
  <2>2. UNCHANGED <<state, aslot, thr, mslot, mixed>>
    BY <1>7 DEF NoSlot
  <2>. QED
    BY <2>1, <2>2
<1>8. ASSUME NEW i \in Controllers, FillSlot(i) PROVE NoSlotLeak'
  BY <1>0, <1>8 DEF FillSlot
<1>9. ASSUME NEW i \in Controllers, StoreSock(i) PROVE NoSlotLeak'
  BY <1>0, <1>9 DEF StoreSock
<1>10. ASSUME NEW i \in Controllers, Spawn(i) PROVE NoSlotLeak'
  BY <1>0, <1>10 DEF Spawn
<1>11. ASSUME NEW i \in Controllers, Leave(i) PROVE NoSlotLeak'
  BY <1>0, <1>11 DEF Leave
<1>12. ASSUME NEW c \in Conns, Boot(c) PROVE NoSlotLeak'
  <2>1. CASE mixed' # {}
    BY <2>1
  <2>2. CASE mixed' = {}
    <3>1. mixed = {} /\ pconn[mctl[c]] = c
      BY <1>0, <1>12, <2>2 DEF Boot
    <3>2. mslot[c] = pslot[mctl[c]]
      BY <3>1, <1>12 DEF Boot
    <3>3. mslot' = mslot
      BY <1>0, <3>2, <1>12 DEF Boot
    <3>. QED
      BY <1>0, <1>12, <3>1, <3>3 DEF Boot
  <2>. QED
    BY <2>1, <2>2
<1>13. ASSUME NEW c \in Conns, StartReader(c) PROVE NoSlotLeak'
  BY <1>0, <1>13 DEF StartReader
<1>14. ASSUME NEW c \in Conns, RaiseFlag(c) PROVE NoSlotLeak'
  BY <1>0, <1>14 DEF RaiseFlag
<1>15. ASSUME NEW c \in Conns, LeaveLoop(c) PROVE NoSlotLeak'
  BY <1>0, <1>15 DEF LeaveLoop
<1>16. ASSUME NEW c \in Conns, Destroy(c) PROVE NoSlotLeak'
  BY <1>0, <1>16 DEF Destroy
<1>17. ASSUME NEW c \in Conns, CloseConn(c) PROVE NoSlotLeak'
  BY <1>0, <1>17 DEF CloseConn
<1>18. ASSUME NEW c \in Conns, ForgetSock(c) PROVE NoSlotLeak'
  BY <1>0, <1>18 DEF ForgetSock
<1>19. ASSUME NEW i \in Controllers, DestroyClients(i) PROVE NoSlotLeak'
  <2>1. \A s \in Slots : state'[s] # "Free" <=> state[s] # "Free"
    BY <1>0, <1>19 DEF DestroyClients, ActiveSlots
  <2>2. UNCHANGED <<apc, aslot, thr, mslot, mixed>>
    BY <1>19 DEF DestroyClients
  <2>. QED
    BY <2>1, <2>2
\* The other steps leave what the lemma is about alone.
<1>20. CASE UNCHANGED <<state, apc, aslot, thr, mslot, mixed>>
  BY <1>20
<1>21. ASSUME NEW c \in Conns, NEW i \in Controllers,
           PeerConnects(c, i)
       PROVE  NoSlotLeak'
  BY <1>21, <1>20 DEF PeerConnects
<1>22. ASSUME NEW c \in Conns,
           PeerLeaves(c) \/ ReaderEnds(c)
       PROVE  NoSlotLeak'
  BY <1>22, <1>20 DEF PeerLeaves, ReaderEnds
<1>23. ASSUME NEW i \in Controllers,
           StopRequest(i) \/ BeginStop(i) \/ MarkDisconnected(i) \/ ScanSlot(i) \/
             Finish(i)
       PROVE  NoSlotLeak'
  BY <1>23, <1>20 DEF StopRequest, BeginStop, MarkDisconnected, ScanSlot, Finish
<1>24. CASE UNCHANGED vars
  BY <1>24, <1>20 DEF vars
<1>. QED
  BY <1>1, <1>2, <1>3, <1>4, <1>5, <1>6, <1>7, <1>8, <1>9, <1>10, <1>11, <1>12, <1>13,
    <1>14, <1>15, <1>16, <1>17, <1>18, <1>19, <1>21, <1>22, <1>23, <1>24 DEF Next,
    ClientThread, MainSocketThread, DeviceThread

-----------------------------------------------------------------------------
(* The theorems.                                                            *)

LEMMA InitIInv == Init => IInv
  BY InitTypeOK, InitHandover, InitSlots DEF Init, IInv, ReaderWithinClient

LEMMA StepIInv == IInv /\ [Next]_vars => IInv'
  BY StepTypeOK, StepHeldIsFresh, StepHeldOnce, StepThreadAfterAccept, StepReader,
     StepOwnParam, StepOneClient, StepNoLeak DEF IInv, Handover, SlotInv

LEMMA Invariance == Spec => []IInv
  BY InitIInv, StepIInv, PTL DEF Spec

\* The type invariant of the connection handling (slot table, threads, sockets).
THEOREM TypeCorrect == Spec => []TypeOK
<1>1. IInv => TypeOK
  BY DEF IInv
<1>. QED
  BY <1>1, Invariance, PTL

\* However many controllers accept at once and in whatever order connections end, two
\* connections never share a slot of dc_clients[] (find_new_dc_client_index, the accept
\* loop and destroy_dc_client), unless a thread picked up another thread's parameters.
THEOREM SlotsAreExclusive == Spec => []OneClientPerSlot
<1>1. IInv => OneClientPerSlot
  BY DEF IInv, SlotInv
<1>. QED
  BY <1>1, Invariance, PTL

\* Under the same condition a slot is in use exactly as long as a connection is being
\* set up or served in it: none is lost, none is given away twice.
THEOREM SlotsAreNotLost == Spec => []NoSlotLeak
<1>1. IInv => NoSlotLeak
  BY DEF IInv, SlotInv
<1>. QED
  BY <1>1, Invariance, PTL

\* A read thread lives within its client thread, whatever the flag that is raised and
\* lowered by both says: client_info, on the client thread's stack, is there for it.
THEOREM ReadersAreContained == Spec => []ReaderWithinClient
<1>1. IInv => ReaderWithinClient
  BY DEF IInv
<1>. QED
  BY <1>1, Invariance, PTL

-----------------------------------------------------------------------------
(* The configuration.                                                      *)

(* Every field of every kind.                                              *)
Names == UNION {Fields[k] : k \in Kinds}

Rec == [id : Ids \cup {0}, has : SUBSET Names, ask : SUBSET Names, moved : BOOLEAN]

HTypes == /\ setup \in Setups
          /\ store \in Seq(Rec) /\ file \in Seq(Rec)
          /\ DOMAIN doing = Admins
          /\ \A a \in Admins : doing[a].step = "write" => \E id \in Ids \cup {0} : doing[a] = Writing(id)

(* An entry loaded, written and loaded again is as loaded at first: what   *)
(* parse_xml takes is written, and taken from where it was written.        *)
LEMMA TableFacts ==
    \A k \in Kinds : /\ Loads[k] \subseteq Names
                     /\ \A f \in Loads[k] : /\ Attribute(f) \in Loads[k] \cap Saved[k]
                                            /\ Attribute(Attribute(f)) = Attribute(f)
<1> DEFINE Good(k) == /\ Loads[k] \subseteq Fields[k] \cup Fields["common"]
                      /\ \A f \in Loads[k] : /\ Attribute(f) \in Loads[k] \cap Saved[k]
                                             /\ Attribute(Attribute(f)) = Attribute(f)
<1>1. Good("dc")
  BY DEF Loads, Saved, Attribute, Fields, LoadDc, SaveDc, SavedHead, DeviceHead,
         DCLibConfig, DCDecimalPointOptions, LibConfig, LoadDcMapping
<1>2. Good("tgs")
  BY DEF Loads, Saved, Attribute, Fields, LoadTgs, SaveTgs, SavedHead, DeviceHead,
         TgsLibConfig, LibConfig, LoadTgsMapping
<1>3. Good("ppc")
  BY DEF Loads, Saved, Attribute, Fields, LoadPpc, SavePpc, SavedHead, DeviceHead,
         PpcLibConfig, LibConfig, LoadPpcMapping
<1>4. Good("sc")
  BY DEF Loads, Saved, Attribute, Fields, LoadSc, SaveSc, SavedHead, DeviceHead,
         ScLibConfig, LibConfig, LoadScMapping
<1>5. Good("profile")
  BY DEF Loads, Saved, Attribute, Fields, LoadProfiles, add_profiles, Profile,
         CommonConf
<1>6. Good("common")
  BY DEF Loads, Saved, Attribute, Fields, LoadCommon, add_common, CommonConf
<1>7. ASSUME NEW k \in Kinds PROVE Good(k) /\ Fields[k] \subseteq Names /\ "common" \in Kinds
  BY <1>1, <1>2, <1>3, <1>4, <1>5, <1>6 DEF Kinds, Devices, Names
<1>8. Fields["common"] \subseteq Names
  BY DEF Kinds, Names
<1> QED
  BY <1>7, <1>8

-----------------------------------------------------------------------------
(* The states the argument is about.                                       *)
(* An entry of the store was there, is one that was there with other       *)
(* fields, or was added.                                                   *)
LEMMA LoadedTypes ==
    ASSUME setup \in Setups, NEW entries \in Seq(Rec)
    PROVE  /\ Loaded(entries) \in Seq(Rec) /\ DOMAIN Loaded(entries) = DOMAIN entries
           /\ \A i \in DOMAIN entries : Loaded(entries)[i].id = entries[i].id
<1>1. kind \in Kinds
  BY SetupsAssumption DEF kind
<1>2. ASSUME NEW i \in 1..Len(entries)
      PROVE  [entries[i] EXCEPT !.has = {f \in Loads[kind] : Attribute(f) \in @}] \in Rec
  <2> DEFINE got == {f \in Loads[kind] : Attribute(f) \in entries[i].has}
  <2>1. entries[i] \in Rec
    BY <1>2
  <2>2. got \subseteq Names
    BY <1>1, TableFacts
  <2> HIDE DEF got
  <2>3. [entries[i] EXCEPT !.has = got] \in Rec
    BY <2>1, <2>2 DEF Rec
  <2> QED
    BY <2>3 DEF got
<1>3. Loaded(entries) \in [1..Len(entries) -> Rec]
  BY <1>2 DEF Loaded
<1> QED
  BY <1>3 DEF Loaded, Rec

LEMMA WrittenTypes ==
    ASSUME NEW entries \in Seq(Rec)
    PROVE  /\ Written(entries) \in Seq(Rec) /\ DOMAIN Written(entries) = DOMAIN entries
           /\ \A i \in DOMAIN entries : Written(entries)[i].id = entries[i].id
<1>1. ASSUME NEW i \in 1..Len(entries)
      PROVE  [entries[i] EXCEPT !.has = @ \cap Saved[kind]] \in Rec
  <2>1. entries[i] \in Rec
    BY <1>1
  <2>2. entries[i].has \cap Saved[kind] \subseteq Names
    BY <2>1 DEF Rec
  <2> QED
    BY <2>1, <2>2 DEF Rec
<1>2. Written(entries) \in [1..Len(entries) -> Rec]
  BY <1>1 DEF Written
<1> QED
  BY <1>2 DEF Written, Rec

LEMMA LoadedAgain ==
    ASSUME setup \in Setups, NEW entries \in Seq(Rec)
    PROVE  Loaded(Written(Loaded(entries))) = Loaded(entries)
<1> DEFINE twice == Loaded(Written(Loaded(entries)))
           once == Loaded(entries)
<1>1. kind \in Kinds
  BY SetupsAssumption DEF kind
<1>2. /\ once \in Seq(Rec) /\ Written(once) \in Seq(Rec) /\ twice \in Seq(Rec)
      /\ DOMAIN once = DOMAIN entries /\ DOMAIN twice = DOMAIN entries
  BY LoadedTypes, WrittenTypes
<1>3. ASSUME NEW i \in DOMAIN entries PROVE twice[i] = once[i]
  <2>1. entries[i] \in Rec
    BY <1>3
  <2>2. once[i] = [entries[i] EXCEPT !.has = {f \in Loads[kind] : Attribute(f) \in entries[i].has}]
    BY <1>3 DEF Loaded
  <2>3. twice[i] = [[once[i] EXCEPT !.has = @ \cap Saved[kind]]
                      EXCEPT !.has = {f \in Loads[kind] : Attribute(f) \in @}]
    BY <1>2, <1>3 DEF Loaded, Written
  <2>4. twice[i] = [once[i] EXCEPT !.has = {f \in Loads[kind] :
                                               Attribute(f) \in once[i].has \cap Saved[kind]}]
    BY <2>1, <2>2, <2>3 DEF Rec
  <2>5. {f \in Loads[kind] : Attribute(f) \in once[i].has \cap Saved[kind]} = once[i].has
    <3>1. once[i].has = {f \in Loads[kind] : Attribute(f) \in entries[i].has}
      BY <2>1, <2>2 DEF Rec
    <3> QED
      BY <1>1, <3>1, TableFacts
  <2>6. once[i] \in Rec
    BY <1>2, <1>3
  <2> HIDE DEF once
  <2>7. [once[i] EXCEPT !.has = once[i].has] = once[i]
    BY <2>6 DEF Rec
  <2> QED
    BY <2>4, <2>5, <2>7
<1> QED
  BY <1>2, <1>3

-----------------------------------------------------------------------------
(* What the operations on an entry keep.                                   *)
LEMMA RequestTypes ==
    ASSUME setup \in Setups, NEW fields \in Requests, NEW got \in Received(fields)
    PROVE  fields \subseteq Names /\ got \subseteq Names
<1>1. fields \subseteq Names
  BY SetupsAssumption DEF Requests, Names, kind
<1> QED
  BY <1>1 DEF Received

LEMMA AddedTypes ==
    ASSUME NEW id \in Ids, NEW fields, NEW got, fields \subseteq Names, got \subseteq Names
    PROVE  [id |-> id, has |-> got \cap AddCopies[kind], ask |-> fields, moved |-> FALSE] \in Rec
<1>1. got \cap AddCopies[kind] \subseteq Names
  OBVIOUS
<1> QED
  BY <1>1 DEF Rec

LEMMA UpdatedTypes ==
    ASSUME NEW e \in Rec, NEW fields, NEW got, fields \subseteq Names, got \subseteq Names
    PROVE  Updated(e, fields, got) \in Rec /\ Updated(e, fields, got).id = e.id
<1> DEFINE left == Untouched(fields)
           set == UpdateCopies[kind] \ left
           has == (e.has \ set) \cup (got \cap set)
           ask == (fields \ left) \cup (e.ask \cap left)
<1>1. has \subseteq Names /\ ask \subseteq Names
  BY DEF Rec
<1>2. Updated(e, fields, got) = [e EXCEPT !.has = has, !.ask = ask, !.moved = FALSE]
  BY DEF Updated, Rec
<1> HIDE DEF has, ask
<1> QED
  BY <1>1, <1>2 DEF Rec

LEMMA ClearedTypes ==
    ASSUME NEW e \in Rec
    PROVE  Cleared(e) \in Rec /\ Cleared(e).id = 0
<1>1. e.has \ DeleteClears[kind] \subseteq Names
  BY DEF Rec
<1>2. Cleared(e) = [e EXCEPT !.id = 0, !.has = e.has \ DeleteClears[kind], !.ask = {}]
  BY DEF Cleared, Rec
<1> QED
  BY <1>1, <1>2 DEF Rec

LEMMA MovedTypes ==
    ASSUME NEW e \in Rec, NEW onto \in Rec
    PROVE  Moved(e, onto) \in Rec /\ Moved(e, onto).id = e.id
<1>1. (e.has \ {"name"}) \cup (onto.has \cap {"guid"}) \subseteq Names
  BY DEF Rec
<1> QED
  BY <1>1 DEF Moved, Rec

Enabled(e, on) == [e EXCEPT !.has = (@ \ {"profiles_enable"}) \cup on,
                            !.ask = (@ \ {"profiles_enable"}) \cup on]

LEMMA EnabledTypes ==
    ASSUME NEW e \in Rec, NEW on \in SUBSET {"profiles_enable"}
    PROVE  Enabled(e, on) \in Rec /\ Enabled(e, on).id = e.id
<1>1. "profiles_enable" \in Names
  BY DEF Names, Kinds, Fields, CommonConf
<1>2. /\ (e.has \ {"profiles_enable"}) \cup on \subseteq Names
      /\ (e.ask \ {"profiles_enable"}) \cup on \subseteq Names
  BY <1>1 DEF Rec
<1>3. Enabled(e, on) = [e EXCEPT !.has = (e.has \ {"profiles_enable"}) \cup on,
                                 !.ask = (e.ask \ {"profiles_enable"}) \cup on]
  BY DEF Enabled, Rec
<1> QED
  BY <1>2, <1>3 DEF Rec

-----------------------------------------------------------------------------
(* The store that an action leaves behind, as far as ids are concerned: it *)
(* has the entries it had, some of them without their id, and perhaps one  *)
(* more.                                                                   *)
Keeps == /\ store' \in Seq(Rec)
         /\ \A i \in DOMAIN store' : store'[i].id = 0 \/ \E j \in DOMAIN store : store[j].id = store'[i].id

LEMMA MapKeeps ==
    ASSUME HTypes, DOMAIN store' = DOMAIN store, store' = [i \in DOMAIN store |-> store'[i]],
           \A i \in DOMAIN store : store'[i] \in Rec /\ store'[i].id \in {0, store[i].id}
    PROVE  Keeps
<1>1. store' \in [1..Len(store) -> Rec]
  BY DEF HTypes
<1> QED
  BY <1>1 DEF HTypes, Keeps

LEMMA UpdateKeeps ==
    ASSUME HTypes, NEW a, NEW id, NEW fields \in Requests, NEW got \in Received(fields),
           Update(a, id, fields, got)
    PROVE  Keeps
<1>1. fields \subseteq Names /\ got \subseteq Names
  BY RequestTypes DEF HTypes
<1>2. ASSUME NEW i \in DOMAIN store
      PROVE  store'[i] \in Rec /\ store'[i].id = store[i].id
  <2>1. store[i] \in Rec
    BY DEF HTypes
  <2> QED
    BY <1>1, <2>1, UpdatedTypes DEF Update
<1> QED
  BY <1>2, MapKeeps DEF Update

LEMMA EnableKeeps ==
    ASSUME HTypes, NEW a, set_profiles_enable(a)
    PROVE  Keeps
<1>1. ASSUME NEW i \in DOMAIN store
      PROVE  store'[i] \in Rec /\ store'[i].id = store[i].id
  <2>1. store[i] \in Rec
    BY DEF HTypes
  <2> DEFINE on == IF doing[a].on THEN {"profiles_enable"} ELSE {}
  <2>2. on \in SUBSET {"profiles_enable"}
    OBVIOUS
  <2>3. store'[i] = Enabled(store[i], on)
    BY DEF set_profiles_enable, Enabled
  <2> HIDE DEF on
  <2> QED
    BY <2>1, <2>2, <2>3, EnabledTypes
<1> QED
  BY <1>1, MapKeeps DEF set_profiles_enable

LEMMA DeleteKeeps ==
    ASSUME HTypes, NEW a, NEW id \in Ids, DeleteDevice(a, id)
    PROVE  Keeps /\ \A i \in DOMAIN store' : store'[i].id # id
<1>1. ASSUME NEW i \in DOMAIN store
      PROVE  store'[i] \in Rec /\ store'[i].id \in {0, store[i].id} /\ store'[i].id # id
  <2>1. store[i] \in Rec
    BY DEF HTypes
  <2> QED
    BY <2>1, ClearedTypes, IdsAssumption DEF DeleteDevice
<1> QED
  BY <1>1, MapKeeps DEF DeleteDevice

LEMMA DeleteProfileKeeps ==
    ASSUME HTypes, NEW a, NEW id, delete_client_profile(a, id)
    PROVE  Keeps
<1>1. PICK i \in DOMAIN store :
        store' = [j \in 1..(Len(store) - 1) |->
                     IF j < i THEN store[j] ELSE Moved(store[j + 1], store[j])]
  BY DEF delete_client_profile
<1>2. ASSUME NEW j \in 1..(Len(store) - 1)
      PROVE  /\ store'[j] \in Rec
             /\ \E k \in DOMAIN store : store[k].id = store'[j].id
  <2>1. j \in DOMAIN store /\ j + 1 \in DOMAIN store
    BY DEF HTypes
  <2>2. store[j] \in Rec /\ store[j + 1] \in Rec
    BY <2>1 DEF HTypes
  <2>3. CASE j < i
    BY <1>1, <2>1, <2>2, <2>3
  <2>4. CASE ~(j < i)
    <3>1. store'[j] = Moved(store[j + 1], store[j])
      BY <1>1, <2>4
    <3> QED
      BY <3>1, <2>1, <2>2, MovedTypes
  <2> QED
    BY <2>3, <2>4
<1>3. Len(store) - 1 \in Nat
  BY <1>1 DEF HTypes
<1>4. store' \in [1..(Len(store) - 1) -> Rec] /\ DOMAIN store' = 1..(Len(store) - 1)
  BY <1>1, <1>2
<1>5. store' \in Seq(Rec)
  BY <1>3, <1>4, SeqDef
<1> QED
  BY <1>2, <1>4, <1>5 DEF Keeps

-----------------------------------------------------------------------------
(* The invariants.                                                         *)

(* An administrator who writes a removal removed the last entry of this id *)
(* and nobody has added one since; a removal that was answered is neither  *)
(* in the store nor in the file.                                           *)
Removed == /\ gone \subseteq Ids
           /\ \A a \in Admins : doing[a].step = "write" =>
                 \A i \in DOMAIN store : store[i].id = doing[a].deleted => store[i].id = 0
           /\ \A id \in gone : /\ \A i \in DOMAIN store : store[i].id # id
                               /\ \A i \in DOMAIN file : file[i].id # id

ConfigInv == HTypes /\ SavedWhenQuiet /\ Removed

LEMMA InitConfigInv == ASSUME ConfigInit PROVE ConfigInv
<1>1. setup \in Setups /\ file \in Seq(Rec)
  <2>1. ASSUME NEW fields \in Requests
        PROVE  [id |-> 1, has |-> fields, ask |-> fields, moved |-> FALSE] \in Rec
    <3>1. fields \subseteq Names
      BY SetupsAssumption DEF ConfigInit, Requests, Names, kind
    <3> QED
      BY <3>1, IdsAssumption DEF Rec
  <2>2. file = <<>> \/ \E fields \in Requests :
          file = <<[id |-> 1, has |-> fields, ask |-> fields, moved |-> FALSE]>>
    BY DEF ConfigInit, HandWritten
  <2>3. <<>> \in Seq(Rec) /\ \A e \in Rec : <<e>> \in Seq(Rec)
    BY EmptySeq
  <2> QED
    BY <2>1, <2>2, <2>3 DEF ConfigInit
<1>2. store \in Seq(Rec)
  BY <1>1, LoadedTypes DEF ConfigInit
<1>3. HTypes
  BY <1>1, <1>2 DEF ConfigInit, HTypes, Nothing
<1>4. SavedWhenQuiet
  BY <1>1, LoadedAgain DEF ConfigInit, SavedWhenQuiet
<1>5. Removed
  BY DEF ConfigInit, Removed, Nothing
<1> QED
  BY <1>3, <1>4, <1>5 DEF ConfigInv

(* A change of the store by administrator a, who has a step left after it. *)
LEMMA ChangeStep ==
    ASSUME ConfigInv, NEW a \in Admins, NEW then, doing' = [doing EXCEPT ![a] = then],
           UNCHANGED <<setup, file, gone>>, Keeps, then # Nothing,
           then.step = "write" => /\ \E id \in Ids \cup {0} : then = Writing(id)
                                  /\ \A i \in DOMAIN store' :
                                        store'[i].id = then.deleted => store'[i].id = 0
    PROVE  ConfigInv'
<1>1. doing'[a] = then /\ DOMAIN doing' = Admins /\ \A b \in Admins \ {a} : doing'[b] = doing[b]
  BY DEF ConfigInv, HTypes
<1>2. HTypes'
  BY <1>1 DEF ConfigInv, HTypes, Keeps
<1>3. SavedWhenQuiet'
  BY <1>1 DEF SavedWhenQuiet, Nothing
<1>4. Removed'
  <2>1. ASSUME NEW b \in Admins, doing'[b].step = "write", NEW i \in DOMAIN store',
               store'[i].id = doing'[b].deleted
        PROVE  store'[i].id = 0
    BY <1>1, <2>1 DEF ConfigInv, Removed, Keeps
  <2>2. ASSUME NEW id \in gone, NEW i \in DOMAIN store' PROVE store'[i].id # id
    BY <2>2, IdsAssumption DEF ConfigInv, Removed, Keeps
  <2> QED
    BY <2>1, <2>2 DEF ConfigInv, Removed
<1> QED
  BY <1>2, <1>3, <1>4 DEF ConfigInv

LEMMA StepAdd ==
    ASSUME ConfigInv, NEW a \in Admins, NEW id \in Ids, NEW fields \in Requests,
           NEW got \in Received(fields), Add(a, id, fields, got)
    PROVE  ConfigInv'
<1> DEFINE new == [id |-> id, has |-> got \cap AddCopies[kind], ask |-> fields, moved |-> FALSE]
<1>1. new \in Rec
  BY RequestTypes, AddedTypes DEF ConfigInv, HTypes
<1>2. /\ store' \in Seq(Rec)
      /\ \A i \in DOMAIN store' : store'[i].id = id \/ (i \in DOMAIN store /\ store'[i] = store[i])
  <2>1. store' = Append(store, new) /\ store \in Seq(Rec) /\ new.id = id
    BY DEF Add, ConfigInv, HTypes
  <2> HIDE DEF new
  <2> QED
    BY <1>1, <2>1
<1>3. /\ DOMAIN doing' = Admins /\ doing'[a] = Writing(0)
      /\ \A b \in Admins : doing'[b] = Writing(0) \/ (doing'[b] = doing[b] /\ doing[b] # Writing(id))
  <2>1. doing' = [b \in Admins |-> IF b = a \/ doing[b] = Writing(id) THEN Writing(0) ELSE doing[b]]
    BY DEF Add
  <2> QED
    BY <2>1
<1>4. HTypes'
  BY <1>2, <1>3 DEF Add, ConfigInv, HTypes, Writing
<1>5. SavedWhenQuiet'
  BY <1>3 DEF SavedWhenQuiet, Nothing, Writing
<1>6. Removed'
  <2>1. ASSUME NEW b \in Admins, doing'[b].step = "write", NEW i \in DOMAIN store',
               store'[i].id = doing'[b].deleted
        PROVE  store'[i].id = 0
    <3>1. CASE doing'[b] = Writing(0)
      BY <2>1, <3>1 DEF Writing
    <3>2. CASE doing'[b] = doing[b] /\ doing[b] # Writing(id)
      <4>1. doing'[b].deleted # id
        BY <2>1, <3>2 DEF Writing, ConfigInv, HTypes
      <4> QED
        BY <1>2, <2>1, <3>2, <4>1 DEF ConfigInv, Removed
    <3> QED
      BY <1>3, <3>1, <3>2
  <2>2. ASSUME NEW gid \in gone', NEW i \in DOMAIN store' PROVE store'[i].id # gid
    BY <1>2, <2>2 DEF Add, ConfigInv, Removed
  <2> QED
    BY <2>1, <2>2 DEF Add, ConfigInv, Removed
<1> QED
  BY <1>4, <1>5, <1>6 DEF ConfigInv

LEMMA StepUpdate ==
    ASSUME ConfigInv, NEW a \in Admins, NEW id \in Ids, NEW fields \in Requests,
           NEW got \in Received(fields), Update(a, id, fields, got)
    PROVE  ConfigInv'
<1> DEFINE then == IF kind = "common" THEN Enabling("profiles_enable" \in got) ELSE Writing(0)
<1>1. Keeps
  BY UpdateKeeps DEF ConfigInv
<1>2. doing' = [doing EXCEPT ![a] = then] /\ UNCHANGED <<setup, file, gone>>
  BY DEF Update
<1>3. then # Nothing /\ (then.step = "write" => then = Writing(0))
  BY DEF Nothing, Enabling, Writing
<1> HIDE DEF then
<1>4. then.step = "write" => then.deleted = 0
  BY <1>3 DEF Writing
<1> QED
  BY <1>1, <1>2, <1>3, <1>4, ChangeStep

LEMMA StepEnable ==
    ASSUME ConfigInv, NEW a \in Admins, set_profiles_enable(a)
    PROVE  ConfigInv'
<1>1. Keeps
  BY EnableKeeps DEF ConfigInv
<1>2. doing' = [doing EXCEPT ![a] = Writing(0)] /\ UNCHANGED <<setup, file, gone>>
  BY DEF set_profiles_enable
<1>3. Writing(0) # Nothing /\ Writing(0).deleted = 0
  BY DEF Nothing, Writing
<1> QED
  BY <1>1, <1>2, <1>3, ChangeStep

LEMMA StepDelete ==
    ASSUME ConfigInv, NEW a \in Admins, NEW id \in Ids, DeleteDevice(a, id)
    PROVE  ConfigInv'
<1>1. Keeps /\ \A i \in DOMAIN store' : store'[i].id # id
  BY DeleteKeeps DEF ConfigInv
<1>2. doing' = [doing EXCEPT ![a] = Writing(id)] /\ UNCHANGED <<setup, file, gone>>
  BY DEF DeleteDevice
<1>3. Writing(id) # Nothing /\ Writing(id).deleted = id
  BY DEF Nothing, Writing
<1> QED
  BY <1>1, <1>2, <1>3, ChangeStep

LEMMA StepDeleteProfile ==
    ASSUME ConfigInv, NEW a \in Admins, NEW id \in Ids, delete_client_profile(a, id)
    PROVE  ConfigInv'
<1>1. Keeps
  BY DeleteProfileKeeps DEF ConfigInv
<1>2. unsaved' /\ UNCHANGED <<setup, file, doing, gone>>
  BY DEF delete_client_profile
<1>3. HTypes' /\ SavedWhenQuiet'
  BY <1>1, <1>2 DEF ConfigInv, HTypes, Keeps, SavedWhenQuiet
<1>4. Removed'
  <2>1. ASSUME NEW b \in Admins, doing[b].step = "write", NEW i \in DOMAIN store',
               store'[i].id = doing[b].deleted
        PROVE  store'[i].id = 0
    BY <1>1, <2>1 DEF ConfigInv, Removed, Keeps
  <2>2. ASSUME NEW gid \in gone, NEW i \in DOMAIN store' PROVE store'[i].id # gid
    BY <1>1, <2>2, IdsAssumption DEF ConfigInv, Removed, Keeps
  <2> QED
    BY <1>2, <2>1, <2>2 DEF ConfigInv, Removed
<1> QED
  BY <1>3, <1>4 DEF ConfigInv

LEMMA StepWrite ==
    ASSUME ConfigInv, NEW a \in Admins, write_conf(a)
    PROVE  ConfigInv'
<1>1. /\ file' = Written(store) /\ UNCHANGED <<setup, store>>
      /\ doing' = [doing EXCEPT ![a] = Nothing] /\ gone' = gone \cup ({doing[a].deleted} \ {0})
  BY DEF write_conf
<1>2. /\ file' \in Seq(Rec) /\ DOMAIN file' = DOMAIN store
      /\ \A i \in DOMAIN store : file'[i].id = store[i].id
  BY <1>1, WrittenTypes DEF ConfigInv, HTypes
<1>3. /\ DOMAIN doing' = Admins /\ \A b \in Admins : doing'[b] = Nothing \/ doing'[b] = doing[b]
  BY <1>1 DEF ConfigInv, HTypes
<1>4. HTypes'
  BY <1>1, <1>2, <1>3 DEF ConfigInv, HTypes, Nothing
<1>5. SavedWhenQuiet'
  BY <1>1 DEF SavedWhenQuiet, Loaded, Written, kind
<1>6. Removed'
  <2>1. gone' \subseteq Ids
    BY <1>1 DEF write_conf, ConfigInv, HTypes, Removed, Writing
  <2>2. ASSUME NEW b \in Admins, doing'[b].step = "write", NEW i \in DOMAIN store,
               store[i].id = doing'[b].deleted
        PROVE  store[i].id = 0
    BY <1>3, <2>2 DEF ConfigInv, Removed, Nothing
  <2>3. ASSUME NEW id \in gone', NEW i \in DOMAIN store PROVE store[i].id # id
    BY <1>1, <2>1, <2>3, IdsAssumption DEF write_conf, ConfigInv, Removed
  <2> QED
    BY <1>1, <1>2, <2>1, <2>2, <2>3 DEF Removed
<1> QED
  BY <1>4, <1>5, <1>6 DEF ConfigInv

LEMMA StepRestart ==
    ASSUME ConfigInv, Restart
    PROVE  ConfigInv'
<1>1. /\ store' = Loaded(file) /\ UNCHANGED <<setup, file, gone>>
      /\ doing' = [a \in Admins |-> Nothing]
  BY DEF Restart
<1>2. /\ store' \in Seq(Rec) /\ DOMAIN store' = DOMAIN file
      /\ \A i \in DOMAIN file : store'[i].id = file[i].id
  BY <1>1, LoadedTypes DEF ConfigInv, HTypes
<1>3. HTypes'
  BY <1>1, <1>2 DEF ConfigInv, HTypes, Nothing
<1>4. SavedWhenQuiet'
  <2>1. Loaded(Written(Loaded(file))) = Loaded(file)
    BY LoadedAgain DEF ConfigInv, HTypes
  <2>2. Loaded(file)' = Loaded(file) /\ Loaded(Written(store))' = Loaded(Written(store'))
    BY <1>1 DEF Loaded, Written, kind
  <2> QED
    BY <1>1, <2>1, <2>2 DEF SavedWhenQuiet
<1>5. Removed'
  BY <1>1, <1>2 DEF ConfigInv, Removed, Nothing
<1> QED
  BY <1>3, <1>4, <1>5 DEF ConfigInv

LEMMA Stutter ==
    ASSUME ConfigInv, UNCHANGED configVars
    PROVE  ConfigInv'
<1>1. UNCHANGED <<setup, store, file, doing, unsaved, gone>>
  BY DEF configVars
<1>2. SavedWhenQuiet'
  BY <1>1 DEF ConfigInv, SavedWhenQuiet, Loaded, Written, kind
<1> QED
  BY <1>1, <1>2 DEF ConfigInv, HTypes, Removed

LEMMA ConfigInvAlways == ConfigSpec => []ConfigInv
<1>1. ConfigInv /\ [ConfigNext]_configVars => ConfigInv'
  BY StepAdd, StepUpdate, StepEnable, StepDelete, StepDeleteProfile, StepWrite, StepRestart,
     Stutter
  DEF ConfigNext
<1> QED
  BY InitConfigInv, <1>1, PTL DEF ConfigSpec

(* Once no change is under way, and no profile was removed since the last  *)
(* write, the server would find after a restart what it has now (write_conf*)
(* of configuration.c, write_settings and parse_xml of xml.c).             *)
THEOREM FileIsCurrent == ConfigSpec => []SavedWhenQuiet
<1>1. ConfigInv => SavedWhenQuiet
  BY DEF ConfigInv
<1> QED
  BY ConfigInvAlways, <1>1, PTL

(* A removal that was answered with success is final, over restarts and    *)
(* whatever other administrators do meanwhile (delete_*_conf, write_conf). *)
THEOREM RemovalIsFinal == ConfigSpec => []DeletedStaysDeleted
<1>1. ConfigInv => DeletedStaysDeleted
  BY DEF ConfigInv, Removed, DeletedStaysDeleted
<1> QED
  BY ConfigInvAlways, <1>1, PTL

-----------------------------------------------------------------------------
(* What the store holds of every request.                                  *)

(* What the code loses of an entry that no removal has moved.              *)
LostAtRest ==
    CASE kind = "dc" -> LostOfDevices \cup {"nozzle.num", "full_tank_volume"}
      [] kind \in Devices \ {"dc"} -> LostOfDevices
      [] kind = "profile" -> {}
      [] kind = "common" -> {"file_size", "save_days", "conn_log_file_size",
                             "conn_log_save_days"}

(* A field passes through every stage: add, update, clear, file.           *)
Passes(k, f) ==
    /\ f \in Loads[k] \cap Saved[k] \cap UpdateCopies[k] /\ Attribute(f) = f
    /\ k # "common" => f \in AddCopies[k]
    /\ k \in Devices => f \in DeleteClears[k]
    /\ f \notin {"nozzle.num", "full_tank_volume"}

(* The fields of a device pass, except for those that LostOf names.        *)
LEMMA PassingOfDevices ==
    /\ \A f \in Fields["dc"] \ (LostOfDevices \cup {"nozzle.num", "full_tank_volume"}) :
          Passes("dc", f)
    /\ \A f \in Fields["tgs"] \ LostOfDevices : Passes("tgs", f)
    /\ \A f \in Fields["ppc"] \ LostOfDevices : Passes("ppc", f)
    /\ \A f \in Fields["sc"] \ LostOfDevices : Passes("sc", f)
<1>1. \A f \in Fields["dc"] \ (LostOfDevices \cup {"nozzle.num", "full_tank_volume"}) :
          Passes("dc", f)
  BY DEF Passes, Fields, Loads, Saved, UpdateCopies, AddCopies, DeleteClears, Attribute,
         LostOfDevices, Devices, DeviceHead, DeviceSizes, DCLibConfig, LibConfig,
         LibLogOptions, ConnOptions, TimeoutOptions, DCDecimalPointOptions, LoadDc,
         LoadDcMapping, SaveDc, SavedHead, UpdateDc, AddDc, DeleteDc, CopiedLib, CopiedConn
<1>2. \A f \in Fields["tgs"] \ LostOfDevices : Passes("tgs", f)
  BY DEF Passes, Fields, Loads, Saved, UpdateCopies, AddCopies, DeleteClears, Attribute,
         LostOfDevices, Devices, DeviceHead, DeviceSizes, TgsLibConfig, LibConfig,
         LibLogOptions, ConnOptions, TimeoutOptions, LoadTgs, LoadTgsMapping, SaveTgs,
         SavedHead, UpdateTgs, AddTgs, DeleteTgs, CopiedLib, CopiedConn
<1>3. \A f \in Fields["ppc"] \ LostOfDevices : Passes("ppc", f)
  BY DEF Passes, Fields, Loads, Saved, UpdateCopies, AddCopies, DeleteClears, Attribute,
         LostOfDevices, Devices, DeviceHead, DeviceSizes, PpcLibConfig, LibConfig,
         LibLogOptions, ConnOptions, TimeoutOptions, LoadPpc, LoadPpcMapping, SavePpc,
         SavedHead, UpdatePpc, AddPpc, DeletePpc, CopiedLib, CopiedConn
<1>4. \A f \in Fields["sc"] \ LostOfDevices : Passes("sc", f)
  BY DEF Passes, Fields, Loads, Saved, UpdateCopies, AddCopies, DeleteClears, Attribute,
         LostOfDevices, Devices, DeviceHead, DeviceSizes, ScLibConfig, LibConfig,
         LibLogOptions, ConnOptions, TimeoutOptions, LoadSc, LoadScMapping, SaveSc,
         SavedHead, UpdateSc, AddSc, DeleteSc, CopiedLib, CopiedConn
<1> QED
  BY <1>1, <1>2, <1>3, <1>4

(* So do those of a profile and of the common configuration, in which an   *)
(* update may leave a name, a directory and the use of profiles alone.     *)
LEMMA PassingOfOthers ==
    /\ \A f \in Fields["profile"] : Passes("profile", f)
    /\ \A f \in Fields["common"] \ {"file_size", "save_days", "conn_log_file_size",
                                    "conn_log_save_days"} : Passes("common", f)
<1>1. \A f \in Fields["profile"] : Passes("profile", f)
  BY DEF Passes, Fields, Loads, Saved, UpdateCopies, AddCopies, Attribute, Devices,
         Profile, LoadProfiles, add_profiles, UpdateProfile, AddProfile
<1>2. \A f \in Fields["common"] \ {"file_size", "save_days", "conn_log_file_size",
                                   "conn_log_save_days"} : Passes("common", f)
  BY DEF Passes, Fields, Loads, Saved, UpdateCopies, Attribute, Devices, CommonConf,
         LoadCommon, add_common, UpdateCommon
<1> QED
  BY <1>1, <1>2

LEMMA Passing ==
    ASSUME setup \in Setups
    PROVE  /\ kind \in Kinds
           /\ \A f \in Fields[kind] \ LostAtRest : Passes(kind, f)
           /\ kind # "profile" => \A e : LostOf(e) = LostAtRest
           /\ kind = "profile" => /\ LostAtRest = {}
                                  /\ \A e : LostOf(e) = IF e.moved THEN {"name", "guid"} ELSE {}
<1>1. kind \in Kinds
  BY SetupsAssumption DEF kind
<1>2. CASE kind = "dc"
  BY <1>2, PassingOfDevices DEF LostAtRest, LostOf, Devices, Kinds
<1>3. CASE kind \in {"tgs", "ppc", "sc"}
  <2>1. LostAtRest = LostOfDevices /\ \A e : LostOf(e) = LostOfDevices
    BY <1>3 DEF LostAtRest, LostOf, Devices
  <2> QED
    BY <1>1, <1>3, <2>1, PassingOfDevices
<1>4. CASE kind = "profile"
  BY <1>1, <1>4, PassingOfOthers DEF LostAtRest, LostOf, Devices
<1>5. CASE kind = "common"
  BY <1>1, <1>5, PassingOfOthers DEF LostAtRest, LostOf, Devices
<1> QED
  BY <1>1, <1>2, <1>3, <1>4, <1>5 DEF Kinds, Devices

(* An entry is what the last request for it asked.                         *)
Holds(e) == /\ e \in Rec /\ e.has \subseteq Fields[kind] /\ e.ask \subseteq Fields[kind]
            /\ Agree(e.has, e.ask, LostOf(e))

(* Every entry of the store is as asked, and so is every one of the file,  *)
(* for it becomes one of the store; and it is only for an update of the    *)
(* common configuration that the use of profiles is still to be set.       *)
EntriesHold ==
    /\ \A i \in DOMAIN store : Holds(store[i])
    /\ \A i \in DOMAIN file : Holds(file[i])
    /\ \A a \in Admins : doing[a].step = "enable" => kind = "common"

LEMMA LoadedHolds ==
    ASSUME setup \in Setups, NEW e, Holds(e)
    PROVE  Holds([e EXCEPT !.has = {f \in Loads[kind] : Attribute(f) \in @}])
<1> DEFINE got == {f \in Loads[kind] : Attribute(f) \in e.has}
           new == [e EXCEPT !.has = got]
<1>1. got \subseteq Fields[kind] /\ got \subseteq Names
  <2>1. kind = "common" \/ "log.enable" \in Fields[kind] \/ "log.enable" \notin Loads[kind]
    BY Passing DEF Kinds, Devices, Fields, Loads, LoadProfiles, add_profiles, Profile, LibConfig,
       LibLogOptions, DCLibConfig, TgsLibConfig, PpcLibConfig, ScLibConfig
  <2>2. kind = "common" => "log.enable" \notin Loads[kind]
    BY DEF Loads, LoadCommon, CommonConf
  <2>3. got \subseteq Fields[kind]
    BY <2>1, <2>2 DEF Holds, Attribute
  <2> QED
    BY <2>3, Passing DEF Names
<1>2. \A f \in Fields[kind] \ LostAtRest : f \in Loads[kind] /\ Attribute(f) = f
  BY Passing DEF Passes
<1>3. LostAtRest \subseteq LostOf(e)
  BY Passing
<1>4. Agree(got, e.ask, LostOf(e))
  BY <1>1, <1>2, <1>3 DEF Holds, Agree
<1>5. e \in Rec
  BY DEF Holds
<1> HIDE DEF got
<1>6. new \in Rec /\ new.has = got /\ new.ask = e.ask /\ new.moved = e.moved
  BY <1>1, <1>5 DEF Rec
<1>7. LostOf(new) = LostOf(e)
  BY <1>6 DEF LostOf
<1>8. e.ask \subseteq Fields[kind]
  BY DEF Holds
<1>9. Holds(new)
  BY <1>1, <1>4, <1>6, <1>7, <1>8 DEF Holds
<1> QED
  BY <1>9 DEF got

LEMMA WrittenHolds ==
    ASSUME setup \in Setups, NEW e, Holds(e)
    PROVE  Holds([e EXCEPT !.has = @ \cap Saved[kind]])
<1> DEFINE put == e.has \cap Saved[kind]
           new == [e EXCEPT !.has = put]
<1>1. put \subseteq Fields[kind] /\ put \subseteq Names
  BY DEF Holds, Rec
<1>2. \A f \in Fields[kind] \ LostAtRest : f \in Saved[kind]
  BY Passing DEF Passes
<1>3. LostAtRest \subseteq LostOf(e)
  BY Passing
<1>4. Agree(put, e.ask, LostOf(e))
  BY <1>1, <1>2, <1>3 DEF Holds, Agree
<1>5. e \in Rec
  BY DEF Holds
<1> HIDE DEF put
<1>6. new \in Rec /\ new.has = put /\ new.ask = e.ask /\ new.moved = e.moved
  BY <1>1, <1>5 DEF Rec
<1>7. LostOf(new) = LostOf(e)
  BY <1>6 DEF LostOf
<1>8. e.ask \subseteq Fields[kind]
  BY DEF Holds
<1>9. Holds(new)
  BY <1>1, <1>4, <1>6, <1>7, <1>8 DEF Holds
<1> QED
  BY <1>9 DEF put

(* What is received of a request is what was asked, but for the fields of  *)
(* a dispenser controller that are misread.                                *)
LEMMA ReceivedAsAsked ==
    ASSUME setup \in Setups, NEW fields \in Requests, NEW got \in Received(fields)
    PROVE  /\ fields \subseteq Fields[kind] /\ got \subseteq fields
           /\ \A f \in fields \ LostAtRest : f \in got
<1>1. fields \subseteq Fields[kind]
  BY SetupsAssumption DEF Requests, kind
<1>2. got \subseteq fields /\ fields \ {"nozzle.num", "full_tank_volume"} \subseteq got
  BY DEF Received
<1>3. \A f \in Fields[kind] \ LostAtRest : f \notin {"nozzle.num", "full_tank_volume"}
  BY Passing DEF Passes
<1> QED
  BY <1>1, <1>2, <1>3

LEMMA AddedHolds ==
    ASSUME setup \in Setups, NEW id \in Ids, NEW fields \in Requests,
           NEW got \in Received(fields), kind # "common"
    PROVE  Holds([id |-> id, has |-> got \cap AddCopies[kind], ask |-> fields, moved |-> FALSE])
<1> DEFINE has == got \cap AddCopies[kind]
           new == [id |-> id, has |-> has, ask |-> fields, moved |-> FALSE]
<1>1. new \in Rec
  BY RequestTypes, AddedTypes
<1>2. \A f \in Fields[kind] \ LostAtRest : f \in AddCopies[kind]
  BY Passing DEF Passes
<1>3. Agree(has, fields, LostAtRest) /\ has \subseteq Fields[kind] /\ fields \subseteq Fields[kind]
  BY <1>2, ReceivedAsAsked DEF Agree
<1> HIDE DEF has
<1>4. new.has = has /\ new.ask = fields /\ new.moved = FALSE
  OBVIOUS
<1>5. LostOf(new) = LostAtRest
  BY <1>4, Passing
<1>6. Holds(new)
  BY <1>1, <1>3, <1>4, <1>5 DEF Holds
<1> QED
  BY <1>6 DEF has

LEMMA UpdatedHolds ==
    ASSUME setup \in Setups, NEW e, Holds(e), NEW fields \in Requests,
           NEW got \in Received(fields)
    PROVE  Holds(Updated(e, fields, got))
<1> DEFINE left == Untouched(fields)
           set == UpdateCopies[kind] \ left
           has == (e.has \ set) \cup (got \cap set)
           ask == (fields \ left) \cup (e.ask \cap left)
           new == Updated(e, fields, got)
<1>1. new \in Rec /\ new.id = e.id
  BY RequestTypes, UpdatedTypes DEF Holds
<1>2. new.has = has /\ new.ask = ask /\ new.moved = FALSE
  <2>1. e \in Rec
    BY DEF Holds
  <2>2. new = [e EXCEPT !.has = has, !.ask = ask, !.moved = FALSE]
    BY DEF Updated
  <2> HIDE DEF has, ask, new
  <2> QED
    BY <2>1, <2>2 DEF Rec
<1>3. LostOf(new) = LostAtRest
  BY <1>2, Passing
<1>4. kind # "profile" => Agree(e.has, e.ask, LostAtRest)
  BY Passing DEF Holds
<1>5. kind = "profile" => left = {}
  BY DEF Untouched
<1>6. \A f \in Fields[kind] \ LostAtRest : f \in UpdateCopies[kind]
  BY Passing DEF Passes
<1>7. /\ fields \subseteq Fields[kind] /\ got \subseteq fields
      /\ \A f \in fields \ LostAtRest : f \in got
  BY ReceivedAsAsked
<1>8. e.has \subseteq Fields[kind] /\ e.ask \subseteq Fields[kind]
  BY DEF Holds
<1> HIDE DEF left, new
<1>9. Agree(has, ask, LostAtRest) /\ has \subseteq Fields[kind] /\ ask \subseteq Fields[kind]
  <2>1. has \subseteq Fields[kind] /\ ask \subseteq Fields[kind]
    BY <1>7, <1>8
  <2>2. ASSUME NEW f \in Fields[kind] \ LostAtRest PROVE f \in has <=> f \in ask
    <3>1. CASE f \in left
      BY <3>1, <2>2, <1>4, <1>5 DEF Agree
    <3>2. CASE f \notin left
      BY <3>2, <2>2, <1>6, <1>7
    <3> QED
      BY <3>1, <3>2
  <2> QED
    BY <2>1, <2>2 DEF Agree
<1> HIDE DEF has, ask
<1> QED
  BY <1>1, <1>2, <1>3, <1>9 DEF Holds, new

LEMMA ClearedHolds ==
    ASSUME setup \in Setups, NEW e, Holds(e), kind \in Devices
    PROVE  Holds(Cleared(e))
<1> DEFINE new == Cleared(e)
<1>1. new \in Rec
  BY ClearedTypes DEF Holds
<1>2. new.has = e.has \ DeleteClears[kind] /\ new.ask = {} /\ new.moved = e.moved
  BY DEF Cleared, Holds, Rec
<1>3. LostOf(new) = LostAtRest
  BY Passing DEF Devices
<1>4. \A f \in Fields[kind] \ LostAtRest : f \in DeleteClears[kind]
  BY Passing DEF Passes
<1>5. e.has \subseteq Fields[kind]
  BY DEF Holds
<1> HIDE DEF new
<1> QED
  BY <1>1, <1>2, <1>3, <1>4, <1>5 DEF Holds, Agree, new

LEMMA MovedHolds ==
    ASSUME setup \in Setups, NEW e, Holds(e), NEW onto, Holds(onto), kind = "profile"
    PROVE  Holds(Moved(e, onto))
<1> DEFINE new == Moved(e, onto)
           has == (e.has \ {"name"}) \cup (onto.has \cap {"guid"})
<1>1. new \in Rec
  BY MovedTypes DEF Holds
<1>2. new.has = has /\ new.ask = e.ask /\ new.moved
  BY DEF Moved, Holds, Rec
<1>3. LostOf(new) = {"name", "guid"} /\ LostOf(e) \subseteq {"name", "guid"}
  BY <1>2, Passing
<1>4. Agree(has, e.ask, {"name", "guid"})
  BY <1>3 DEF Holds, Agree
<1>5. has \subseteq Fields[kind] /\ e.ask \subseteq Fields[kind]
  BY DEF Holds
<1> HIDE DEF new, has
<1> QED
  BY <1>1, <1>2, <1>3, <1>4, <1>5 DEF Holds, new

LEMMA EnabledHolds ==
    ASSUME setup \in Setups, NEW e, Holds(e), NEW on \in SUBSET {"profiles_enable"},
           kind = "common"
    PROVE  Holds(Enabled(e, on))
<1> DEFINE new == Enabled(e, on)
           has == (e.has \ {"profiles_enable"}) \cup on
           ask == (e.ask \ {"profiles_enable"}) \cup on
<1>1. new \in Rec
  BY EnabledTypes DEF Holds
<1>2. new.has = has /\ new.ask = ask
  <2>1. e \in Rec
    BY DEF Holds
  <2>2. new = [e EXCEPT !.has = has, !.ask = ask]
    BY DEF Enabled
  <2> HIDE DEF has, ask, new
  <2> QED
    BY <2>1, <2>2 DEF Rec
<1>3. LostOf(new) = LostOf(e)
  BY Passing
<1>4. "profiles_enable" \in Fields[kind]
  BY DEF Fields, CommonConf
<1>5. Agree(has, ask, LostOf(e))
  BY DEF Holds, Agree
<1>6. has \subseteq Fields[kind] /\ ask \subseteq Fields[kind]
  BY <1>4 DEF Holds
<1> HIDE DEF new, has, ask
<1> QED
  BY <1>1, <1>2, <1>3, <1>5, <1>6 DEF Holds, new

-----------------------------------------------------------------------------
(* Every operation leaves entries as they were asked.                      *)
LEMMA InitHold == ASSUME ConfigInit PROVE EntriesHold
<1>1. ConfigInv /\ setup \in Setups
  BY InitConfigInv DEF ConfigInit
<1>2. ASSUME NEW i \in DOMAIN file PROVE Holds(file[i])
  <2>1. PICK fields \in Requests :
           file = <<[id |-> 1, has |-> fields, ask |-> fields, moved |-> FALSE]>>
    BY <1>2 DEF ConfigInit, HandWritten
  <2>2. file[i].has = fields /\ file[i].ask = fields
    BY <1>2, <2>1
  <2>3. fields \subseteq Fields[kind]
    BY <1>1, SetupsAssumption DEF Requests, kind
  <2>4. file[i] \in Rec
    BY <1>1, <1>2 DEF ConfigInv, HTypes
  <2> QED
    BY <2>2, <2>3, <2>4 DEF Holds, Agree
<1>3. ASSUME NEW i \in DOMAIN store PROVE Holds(store[i])
  <2>1. store = Loaded(file)
    BY DEF ConfigInit
  <2>2. /\ i \in DOMAIN file
        /\ store[i] = [file[i] EXCEPT !.has = {f \in Loads[kind] : Attribute(f) \in @}]
    BY <1>3, <2>1 DEF Loaded
  <2> QED
    BY <1>1, <1>2, <2>2, LoadedHolds
<1> QED
  BY <1>2, <1>3 DEF EntriesHold, ConfigInit, Nothing

LEMMA StepHold ==
    ASSUME ConfigInv, EntriesHold, [ConfigNext]_configVars
    PROVE  EntriesHold'
<1>1. setup \in Setups /\ store \in Seq(Rec) /\ DOMAIN doing = Admins
  BY DEF ConfigInv, HTypes
<1>2. setup' = setup /\ kind' = kind
  BY DEF ConfigNext, configVars, Add, Update, set_profiles_enable, DeleteDevice, delete_client_profile,
         write_conf, Restart, kind
<1>3. \A e : Holds(e)' <=> Holds(e)
  BY <1>2 DEF Holds, LostOf
<1>4. ASSUME NEW a \in Admins, NEW id \in Ids, NEW fields \in Requests,
             NEW got \in Received(fields), Add(a, id, fields, got)
      PROVE  EntriesHold'
  <2> DEFINE new == [id |-> id, has |-> got \cap AddCopies[kind], ask |-> fields,
                     moved |-> FALSE]
  <2>1. Holds(new)
    BY <1>1, <1>4, AddedHolds DEF Add
  <2>2. store' = Append(store, new) /\ file' = file
    BY <1>4 DEF Add
  <2>3. new \in Rec
    BY <2>1 DEF Holds
  <2>4. \A b \in Admins : doing'[b].step = "enable" => doing[b].step = "enable"
    BY <1>4 DEF Add, Writing
  <2> HIDE DEF new
  <2>5. \A i \in DOMAIN store' : store'[i] = new \/ (i \in DOMAIN store /\ store'[i] = store[i])
    BY <1>1, <2>2, <2>3
  <2>6. \A i \in DOMAIN store' : Holds(store'[i])
    BY <2>1, <2>5 DEF EntriesHold
  <2> QED
    BY <1>2, <1>3, <2>2, <2>4, <2>6 DEF EntriesHold
<1>5. ASSUME NEW a \in Admins, NEW id \in Ids, NEW fields \in Requests,
             NEW got \in Received(fields), Update(a, id, fields, got)
      PROVE  EntriesHold'
  <2>1. ASSUME NEW i \in DOMAIN store' PROVE Holds(store'[i])
    <3>1. i \in DOMAIN store /\ Holds(store[i])
      BY <1>5, <2>1 DEF Update, EntriesHold
    <3>2. store'[i] = Updated(store[i], fields, got) \/ store'[i] = store[i]
      BY <1>5, <3>1 DEF Update
    <3> QED
      BY <1>1, <3>1, <3>2, UpdatedHolds
  <2>2. \A b \in Admins : doing'[b].step = "enable" => kind = "common"
    BY <1>1, <1>5 DEF Update, EntriesHold, Writing
  <2> QED
    BY <1>2, <1>3, <1>5, <2>1, <2>2 DEF EntriesHold, Update
<1>6. ASSUME NEW a \in Admins, set_profiles_enable(a)
      PROVE  EntriesHold'
  <2>1. ASSUME NEW i \in DOMAIN store' PROVE Holds(store'[i])
    <3> DEFINE on == IF doing[a].on THEN {"profiles_enable"} ELSE {}
    <3>1. i \in DOMAIN store /\ Holds(store[i]) /\ on \in SUBSET {"profiles_enable"}
      BY <1>6, <2>1 DEF set_profiles_enable, EntriesHold
    <3>2. store'[i] = Enabled(store[i], on)
      BY <1>6, <3>1 DEF set_profiles_enable, Enabled
    <3>3. kind = "common"
      BY <1>6 DEF set_profiles_enable, EntriesHold
    <3> HIDE DEF on
    <3> QED
      BY <1>1, <3>1, <3>2, <3>3, EnabledHolds
  <2>2. \A b \in Admins : doing'[b].step = "enable" => kind = "common"
    BY <1>1, <1>6 DEF set_profiles_enable, EntriesHold, Writing
  <2> QED
    BY <1>2, <1>3, <1>6, <2>1, <2>2 DEF EntriesHold, set_profiles_enable
<1>7. ASSUME NEW a \in Admins, NEW id \in Ids, DeleteDevice(a, id)
      PROVE  EntriesHold'
  <2>1. ASSUME NEW i \in DOMAIN store' PROVE Holds(store'[i])
    <3>1. i \in DOMAIN store /\ Holds(store[i])
      BY <1>7, <2>1 DEF DeleteDevice, EntriesHold
    <3>2. store'[i] = Cleared(store[i]) \/ store'[i] = store[i]
      BY <1>7, <3>1 DEF DeleteDevice
    <3> QED
      BY <1>1, <1>7, <3>1, <3>2, ClearedHolds DEF DeleteDevice
  <2>2. \A b \in Admins : doing'[b].step = "enable" => kind = "common"
    BY <1>1, <1>7 DEF DeleteDevice, EntriesHold, Writing
  <2> QED
    BY <1>2, <1>3, <1>7, <2>1, <2>2 DEF EntriesHold, DeleteDevice
<1>8. ASSUME NEW a \in Admins, NEW id \in Ids, delete_client_profile(a, id)
      PROVE  EntriesHold'
  <2>1. PICK i \in DOMAIN store :
           store' = [j \in 1..(Len(store) - 1) |->
                        IF j < i THEN store[j] ELSE Moved(store[j + 1], store[j])]
    BY <1>8 DEF delete_client_profile
  <2>2. ASSUME NEW j \in DOMAIN store' PROVE Holds(store'[j])
    <3>1. j \in DOMAIN store /\ j + 1 \in DOMAIN store
      BY <1>1, <2>1, <2>2
    <3>2. Holds(store[j]) /\ Holds(store[j + 1])
      BY <3>1 DEF EntriesHold
    <3>3. store'[j] = store[j] \/ store'[j] = Moved(store[j + 1], store[j])
      BY <2>1, <2>2
    <3> QED
      BY <1>1, <1>8, <3>2, <3>3, MovedHolds DEF delete_client_profile
  <2> QED
    BY <1>2, <1>3, <1>8, <2>2 DEF EntriesHold, delete_client_profile
<1>9. ASSUME NEW a \in Admins, write_conf(a)
      PROVE  EntriesHold'
  <2>1. ASSUME NEW i \in DOMAIN file' PROVE Holds(file'[i])
    <3>1. file' = Written(store)
      BY <1>9 DEF write_conf
    <3>2. /\ i \in DOMAIN store
          /\ file'[i] = [store[i] EXCEPT !.has = @ \cap Saved[kind]]
      BY <2>1, <3>1 DEF Written
    <3> QED
      BY <1>1, <3>2, WrittenHolds DEF EntriesHold
  <2>2. \A b \in Admins : doing'[b].step = "enable" => kind = "common"
    BY <1>1, <1>9 DEF write_conf, EntriesHold, Nothing
  <2> QED
    BY <1>2, <1>3, <1>9, <2>1, <2>2 DEF EntriesHold, write_conf
<1>10. ASSUME Restart
       PROVE  EntriesHold'
  <2>1. ASSUME NEW i \in DOMAIN store' PROVE Holds(store'[i])
    <3>1. store' = Loaded(file)
      BY <1>10 DEF Restart
    <3>2. /\ i \in DOMAIN file
          /\ store'[i] = [file[i] EXCEPT !.has = {f \in Loads[kind] : Attribute(f) \in @}]
      BY <2>1, <3>1 DEF Loaded
    <3> QED
      BY <1>1, <3>2, LoadedHolds DEF EntriesHold
  <2> QED
    BY <1>2, <1>3, <1>10, <2>1 DEF EntriesHold, Restart, Nothing
<1>11. ASSUME UNCHANGED configVars PROVE EntriesHold'
  BY <1>2, <1>3, <1>11 DEF EntriesHold, configVars
<1> QED
  BY <1>4, <1>5, <1>6, <1>7, <1>8, <1>9, <1>10, <1>11 DEF ConfigNext

LEMMA HoldAlways == ConfigSpec => [](ConfigInv /\ EntriesHold)
<1>1. ConfigInit => EntriesHold
  BY InitHold
<1>2. ConfigInv /\ ConfigInv' /\ EntriesHold /\ [ConfigNext]_configVars => EntriesHold'
  BY StepHold
<1> QED
  BY <1>1, <1>2, ConfigInvAlways, PTL DEF ConfigSpec

(* Every field of every entry is as the last request for it asked, but for *)
(* those that LostOf names, for any number of administrators, any order of *)
(* their requests and any restarts (add_*_conf, update_*_conf,             *)
(* delete_*_conf, write_settings, parse_xml).                              *)
THEOREM StoreIsAsAsked == ConfigSpec => []StoreHolds
<1>1. EntriesHold => StoreHolds
  BY DEF EntriesHold, Holds, StoreHolds
<1> QED
  BY HoldAlways, <1>1, PTL

-----------------------------------------------------------------------------
(* What the readers of the store are told.                                 *)

(* The width a field has on every way from the store to a reader.          *)
ByteNames == {"enable", "log_enable", "log_trace", "log.enable", "log.trace", "log.system",
              "log.requests", "log.frames", "log.parsing", "conn.type", "conn.byte_size",
              "conn.stop_bits", "dp.price", "dp.volume", "dp.amount", "counters_enable",
              "auto_start", "auto_payment", "disp.addr", "nozzle.num", "nozzle.grade",
              "tank.channel", "pole.num", "pole.grade", "pole.symbol_count", "sensor.addr",
              "param.num", "param.type"}
WordNames == {"port", "conn.ip_port"}
LongNames == {"command_timeout", "interval", "file_size", "save_days", "log.file_size",
              "log.save_days", "conn.baudrate", "timeout.read", "timeout.write",
              "full_tank_volume", "disp.num", "tank.num", "sensor.num"}
WidthOf(f) == IF f \in ByteNames THEN 1
              ELSE IF f \in WordNames THEN 2 ELSE IF f \in LongNames THEN 4 ELSE 0

Fits(pack) == pack = [f \in DOMAIN pack |-> WidthOf(f)]

LEMMA Joined ==
    ASSUME NEW p, NEW q, Fits(p), Fits(q)
    PROVE  Fits(p ++ q) /\ DOMAIN (p ++ q) = DOMAIN p \cup DOMAIN q
BY DEF Fits, ++

LEMMA Units ==
    ASSUME NEW S
    PROVE  /\ DOMAIN Bytes(S) = S /\ DOMAIN Words(S) = S /\ DOMAIN Longs(S) = S /\ DOMAIN Texts(S) = S
           /\ S \subseteq ByteNames => Fits(Bytes(S))
           /\ S \subseteq WordNames => Fits(Words(S))
           /\ S \subseteq LongNames => Fits(Longs(S))
           /\ S \cap (ByteNames \cup WordNames \cup LongNames) = {} => Fits(Texts(S))
<1>1. /\ DOMAIN Bytes(S) = S /\ DOMAIN Words(S) = S /\ DOMAIN Longs(S) = S /\ DOMAIN Texts(S) = S
  BY DEF Bytes, Words, Longs, Texts
<1>2. S \subseteq ByteNames => Fits(Bytes(S))
  BY DEF Fits, Bytes, WidthOf
<1>3. \A f \in WordNames : f \notin ByteNames
  BY DEF WordNames, ByteNames
<1>4. S \subseteq WordNames => Fits(Words(S))
  BY <1>3 DEF Fits, Words, WidthOf
<1>5. \A f \in LongNames : f \notin ByteNames \cup WordNames
  BY DEF WordNames, ByteNames, LongNames
<1>6. S \subseteq LongNames => Fits(Longs(S))
  BY <1>5 DEF Fits, Longs, WidthOf
<1>7. S \cap (ByteNames \cup WordNames \cup LongNames) = {} => Fits(Texts(S))
  BY DEF Fits, Texts, WidthOf
<1> QED
  BY <1>1, <1>2, <1>4, <1>6, <1>7

(* The first fields of a device's pack, and those of its module.           *)
LEMMA HeadPacks ==
    /\ Fits(SentDevice) /\ DOMAIN SentDevice = DeviceHead \cup DeviceSizes
    /\ Fits(SentLib) /\ DOMAIN SentLib = LibConfig
    /\ Fits(PssModuleSettings) /\ DOMAIN PssModuleSettings = LibConfig
<1>1. Fits(SentDevice) /\ DOMAIN SentDevice = DeviceHead \cup DeviceSizes
  <2>1. Fits(SentDevice)
    BY DEF SentDevice, ++, Texts, Bytes, Words, Longs, Fits, WidthOf, ByteNames,
      WordNames, LongNames
  <2>2. DOMAIN SentDevice = DeviceHead \cup DeviceSizes
    BY DEF SentDevice, ++, Texts, Bytes, Words, Longs, DeviceHead, DeviceSizes
  <2> QED
    BY <2>1, <2>2
<1>2. Fits(SentLib) /\ DOMAIN SentLib = LibConfig
  <2>1. Fits(SentLib)
    BY DEF SentLib, ++, Texts, Bytes, Words, Longs, Fits, WidthOf, ByteNames,
      WordNames, LongNames
  <2>2. DOMAIN SentLib = LibConfig
    BY DEF SentLib, ++, Texts, Bytes, Words, Longs, LibConfig, LibLogOptions,
      ConnOptions, TimeoutOptions
  <2> QED
    BY <2>1, <2>2
<1>3. Fits(PssModuleSettings) /\ DOMAIN PssModuleSettings = LibConfig
  <2>1. /\ Fits(PssModuleSettingsLogSettings)
        /\ DOMAIN PssModuleSettingsLogSettings = LibLogOptions
    BY DEF PssModuleSettingsLogSettings, LibLogOptions, ++, Texts, Bytes, Longs, Fits,
           WidthOf, ByteNames, WordNames, LongNames
  <2>2. /\ Fits(PssModuleSettingsConnSettings)
        /\ DOMAIN PssModuleSettingsConnSettings = ConnOptions
    BY DEF PssModuleSettingsConnSettings, ConnOptions, ++, Texts, Bytes, Words, Longs, Fits,
           WidthOf, ByteNames, WordNames, LongNames
  <2>3. /\ Fits(PssModuleSettingsTimeoutSettings)
        /\ DOMAIN PssModuleSettingsTimeoutSettings = TimeoutOptions
    BY DEF PssModuleSettingsTimeoutSettings, TimeoutOptions, Longs, Fits, WidthOf, ByteNames,
           WordNames, LongNames
  <2> DEFINE two == PssModuleSettingsLogSettings ++ PssModuleSettingsConnSettings
  <2>4. Fits(two) /\ DOMAIN two = LibLogOptions \cup ConnOptions
    BY <2>1, <2>2, Joined
  <2>5. PssModuleSettings = two ++ PssModuleSettingsTimeoutSettings
    BY DEF PssModuleSettings
  <2> HIDE DEF two
  <2> QED
    BY <2>3, <2>4, <2>5, Joined DEF LibConfig
<1> QED
  BY <1>1, <1>2, <1>3

(* The first fields of a device's pack, as pss takes them.                 *)
LEMMA HeadTaken ==
    ASSUME NEW h, Fits(h),
           DOMAIN h = {"name", "module_name", "port", "enable", "command_timeout", "interval"}
    PROVE  LET head == h ++ Texts({"log_dir"}) ++ Bytes({"log_enable", "log_trace"})
                       ++ Longs({"file_size", "save_days"})
           IN  Fits(head) /\ DOMAIN head = DeviceHead \cup DeviceSizes
<1> DEFINE t == Texts({"log_dir"})
           b == Bytes({"log_enable", "log_trace"})
           l == Longs({"file_size", "save_days"})
           head == h ++ t ++ b ++ l
<1>1. Fits(t) /\ Fits(b) /\ Fits(l)
  BY DEF Texts, Bytes, Longs, Fits, WidthOf, ByteNames, WordNames, LongNames
<1>2. /\ DOMAIN t = {"log_dir"} /\ DOMAIN b = {"log_enable", "log_trace"}
      /\ DOMAIN l = {"file_size", "save_days"}
  BY Units
<1> HIDE DEF t, b, l
<1>3. Fits(h ++ t) /\ DOMAIN (h ++ t) = DOMAIN h \cup DOMAIN t
  BY <1>1, Joined
<1>4. Fits(h ++ t ++ b) /\ DOMAIN (h ++ t ++ b) = DOMAIN h \cup DOMAIN t \cup DOMAIN b
  BY <1>1, <1>3, Joined
<1>5. Fits(head) /\ DOMAIN head = DOMAIN h \cup DOMAIN t \cup DOMAIN b \cup DOMAIN l
  BY <1>1, <1>4, Joined
<1>6. DOMAIN h \cup DOMAIN t \cup DOMAIN b \cup DOMAIN l = DeviceHead \cup DeviceSizes
  BY <1>2 DEF DeviceHead, DeviceSizes
<1> QED
  BY <1>5, <1>6 DEF t, b, l

(* The packs of dispenser controllers, as sent and as pss takes them.      *)
LEMMA DcPacks ==
    /\ Fits(SentDc) /\ DOMAIN SentDc = Fields["dc"]
    /\ Fits(PssDispencerControllerConfig) /\ DOMAIN PssDispencerControllerConfig = Fields["dc"]
<1>1. /\ Fits(SentDcMapping)
      /\ Fits(Bytes({"dp.price", "dp.volume", "dp.amount", "counters_enable", "auto_start", "auto_payment"}))
      /\ Fits(Longs({"full_tank_volume"}))
  BY DEF SentDcMapping, ++, Texts, Bytes, Words, Longs, Fits, WidthOf, ByteNames,
    WordNames, LongNames
<1>2. Fits(SentDc)
  BY <1>1, HeadPacks, Joined DEF SentDc
<1>3. DOMAIN SentDc = Fields["dc"]
  BY HeadPacks DEF SentDc, SentDcMapping, ++, Texts, Bytes, Words, Longs, Fields,
    DCLibConfig, DCDecimalPointOptions
<1>4. Fits(PssDispencerControllerModuleSettings)
  BY HeadPacks DEF PssDispencerControllerModuleSettings,
    PssDispencerControllerModuleSettingsDpSettings, PssDispencerControllerMapping,
    PssDispencerFrame, PssNozzleFrame, ++, Texts, Bytes, Words, Longs, Fits, WidthOf,
    ByteNames, WordNames, LongNames
<1>5. DOMAIN PssDispencerControllerModuleSettings = DCLibConfig
  BY HeadPacks DEF PssDispencerControllerModuleSettings,
    PssDispencerControllerModuleSettingsDpSettings, PssDispencerControllerMapping,
    PssDispencerFrame, PssNozzleFrame, ++, Texts, Bytes, Words, Longs, DCLibConfig,
    DCDecimalPointOptions
<1> DEFINE head == PssDcHead ++ Texts({"log_dir"}) ++ Bytes({"log_enable", "log_trace"})
          ++ Longs({"file_size", "save_days"})
<1>6. Fits(head) /\ DOMAIN head = DeviceHead \cup DeviceSizes
  <2>1. Fits(PssDcHead)
    BY DEF PssDcHead, ++, Texts, Bytes, Words, Longs, Fits, WidthOf, ByteNames,
      WordNames, LongNames
  <2>2. DOMAIN PssDcHead = {"name", "module_name", "port", "enable", "command_timeout",
                     "interval"}
    BY DEF PssDcHead, ++, Texts, Bytes, Words, Longs
  <2> QED
    BY <2>1, <2>2, HeadTaken
<1>7. PssDispencerControllerConfig = head ++ PssDispencerControllerModuleSettings
  BY DEF PssDispencerControllerConfig
<1> HIDE DEF head
<1>8. Fits(PssDispencerControllerConfig) /\ DOMAIN PssDispencerControllerConfig = Fields["dc"]
  BY <1>4, <1>5, <1>6, <1>7, Joined DEF Fields
<1> QED
  BY <1>2, <1>3, <1>8

(* Those of tank gauges.                                                   *)
LEMMA TgsPacks ==
    /\ Fits(SentTgs) /\ DOMAIN SentTgs = Fields["tgs"]
    /\ Fits(PssTgsConfig) /\ DOMAIN PssTgsConfig = Fields["tgs"]
<1>1. Fits(SentTgsMapping)
  BY DEF SentTgsMapping, ++, Texts, Bytes, Words, Longs, Fits, WidthOf, ByteNames,
    WordNames, LongNames
<1>2. Fits(SentTgs)
  BY <1>1, HeadPacks, Joined DEF SentTgs
<1>3. DOMAIN SentTgs = Fields["tgs"]
  BY HeadPacks DEF SentTgs, SentTgsMapping, ++, Texts, Bytes, Words, Longs, Fields,
    TgsLibConfig
<1>4. Fits(PssTgsModuleSettings)
  BY HeadPacks DEF PssTgsModuleSettings, PssTgsMapping, PssTankFrame, ++, Texts, Bytes,
    Words, Longs, Fits, WidthOf, ByteNames, WordNames, LongNames
<1>5. DOMAIN PssTgsModuleSettings = TgsLibConfig
  BY HeadPacks DEF PssTgsModuleSettings, PssTgsMapping, PssTankFrame, ++, Texts, Bytes,
    Words, Longs, TgsLibConfig
<1> DEFINE head == PssTgsHead ++ Texts({"log_dir"}) ++ Bytes({"log_enable", "log_trace"})
          ++ Longs({"file_size", "save_days"})
<1>6. Fits(head) /\ DOMAIN head = DeviceHead \cup DeviceSizes
  <2>1. Fits(PssTgsHead)
    BY DEF PssTgsHead, ++, Texts, Bytes, Words, Longs, Fits, WidthOf, ByteNames,
      WordNames, LongNames
  <2>2. DOMAIN PssTgsHead = {"name", "module_name", "port", "enable", "command_timeout",
                     "interval"}
    BY DEF PssTgsHead, ++, Texts, Bytes, Words, Longs
  <2> QED
    BY <2>1, <2>2, HeadTaken
<1>7. PssTgsConfig = head ++ PssTgsModuleSettings
  BY DEF PssTgsConfig
<1> HIDE DEF head
<1>8. Fits(PssTgsConfig) /\ DOMAIN PssTgsConfig = Fields["tgs"]
  BY <1>4, <1>5, <1>6, <1>7, Joined DEF Fields
<1> QED
  BY <1>2, <1>3, <1>8

(* Those of price poles.                                                   *)
LEMMA PpcPacks ==
    /\ Fits(SentPpc) /\ DOMAIN SentPpc = Fields["ppc"]
    /\ Fits(PssPpcConfig) /\ DOMAIN PssPpcConfig = Fields["ppc"]
<1>1. /\ Fits(SentPpcMapping)
      /\ Fits(Bytes({"dp.price"}))
  BY DEF SentPpcMapping, ++, Texts, Bytes, Words, Longs, Fits, WidthOf, ByteNames,
    WordNames, LongNames
<1>2. Fits(SentPpc)
  BY <1>1, HeadPacks, Joined DEF SentPpc
<1>3. DOMAIN SentPpc = Fields["ppc"]
  BY HeadPacks DEF SentPpc, SentPpcMapping, ++, Texts, Bytes, Words, Longs, Fields,
    PpcLibConfig
<1>4. Fits(PssPpcModuleSettings)
  BY HeadPacks DEF PssPpcModuleSettings, PssPpcMapping, PssPricePoleFrame,
    PssPricePoleControllerModuleSettingsDpSettings, ++, Texts, Bytes, Words, Longs,
    Fits, WidthOf, ByteNames, WordNames, LongNames
<1>5. DOMAIN PssPpcModuleSettings = PpcLibConfig
  BY HeadPacks DEF PssPpcModuleSettings, PssPpcMapping, PssPricePoleFrame,
    PssPricePoleControllerModuleSettingsDpSettings, ++, Texts, Bytes, Words, Longs,
    PpcLibConfig
<1> DEFINE head == PssPpcHead ++ Texts({"log_dir"}) ++ Bytes({"log_enable", "log_trace"})
          ++ Longs({"file_size", "save_days"})
<1>6. Fits(head) /\ DOMAIN head = DeviceHead \cup DeviceSizes
  <2>1. Fits(PssPpcHead)
    BY DEF PssPpcHead, ++, Texts, Bytes, Words, Longs, Fits, WidthOf, ByteNames,
      WordNames, LongNames
  <2>2. DOMAIN PssPpcHead = {"name", "module_name", "port", "enable", "command_timeout",
                     "interval"}
    BY DEF PssPpcHead, ++, Texts, Bytes, Words, Longs
  <2> QED
    BY <2>1, <2>2, HeadTaken
<1>7. PssPpcConfig = head ++ PssPpcModuleSettings
  BY DEF PssPpcConfig
<1> HIDE DEF head
<1>8. Fits(PssPpcConfig) /\ DOMAIN PssPpcConfig = Fields["ppc"]
  BY <1>4, <1>5, <1>6, <1>7, Joined DEF Fields
<1> QED
  BY <1>2, <1>3, <1>8

(* Those of sensors.                                                       *)
LEMMA ScPacks ==
    /\ Fits(SentSc) /\ DOMAIN SentSc = Fields["sc"]
    /\ Fits(PssScConfig) /\ DOMAIN PssScConfig = Fields["sc"]
<1>1. Fits(SentScMapping)
  BY DEF SentScMapping, ++, Texts, Bytes, Words, Longs, Fits, WidthOf, ByteNames,
    WordNames, LongNames
<1>2. Fits(SentSc)
  BY <1>1, HeadPacks, Joined DEF SentSc
<1>3. DOMAIN SentSc = Fields["sc"]
  BY HeadPacks DEF SentSc, SentScMapping, ++, Texts, Bytes, Words, Longs, Fields,
    ScLibConfig
<1>4. Fits(PssScModuleSettings)
  BY HeadPacks DEF PssScModuleSettings, PssScMapping, PssSensorFrame, PssParamFrame,
    ++, Texts, Bytes, Words, Longs, Fits, WidthOf, ByteNames, WordNames, LongNames
<1>5. DOMAIN PssScModuleSettings = ScLibConfig
  BY HeadPacks DEF PssScModuleSettings, PssScMapping, PssSensorFrame, PssParamFrame,
    ++, Texts, Bytes, Words, Longs, ScLibConfig
<1> DEFINE head == PssScHead ++ Texts({"log_dir"}) ++ Bytes({"log_enable", "log_trace"})
          ++ Longs({"file_size", "save_days"})
<1>6. Fits(head) /\ DOMAIN head = DeviceHead \cup DeviceSizes
  <2>1. Fits(PssScHead)
    BY DEF PssScHead, ++, Texts, Bytes, Words, Longs, Fits, WidthOf, ByteNames,
      WordNames, LongNames
  <2>2. DOMAIN PssScHead = {"name", "module_name", "port", "enable", "command_timeout",
                     "interval"}
    BY DEF PssScHead, ++, Texts, Bytes, Words, Longs
  <2> QED
    BY <2>1, <2>2, HeadTaken
<1>7. PssScConfig = head ++ PssScModuleSettings
  BY DEF PssScConfig
<1> HIDE DEF head
<1>8. Fits(PssScConfig) /\ DOMAIN PssScConfig = Fields["sc"]
  BY <1>4, <1>5, <1>6, <1>7, Joined DEF Fields
<1> QED
  BY <1>2, <1>3, <1>8

(* Those of profiles and of the common configuration have every field.     *)
LEMMA OtherPacks ==
    /\ DOMAIN SentProfile = Fields["profile"]
    /\ DOMAIN SentCommon = Fields["common"]
<1>1. DOMAIN SentProfile = Fields["profile"]
  BY DEF SentProfile, ++, Texts, Bytes, Words, Longs, Fields, Profile
<1>2. DOMAIN SentCommon = Fields["common"]
  BY DEF SentCommon, ++, Texts, Bytes, Words, Longs, Fields, CommonConf
<1> QED
  BY <1>1, <1>2

(* What a client of a device is told fits what pss takes it with, and is   *)
(* every unit of the device.                                               *)
LEMMA PacksOfDevices ==
    /\ \A k \in Devices : Fits(SentByDevice[k])
    /\ \A k \in DOMAIN TakenOfDevice : Fits(TakenOfDevice[k])
    /\ \A k \in Devices : DOMAIN SentByDevice[k] = Fields[k] \cap Mapping
<1>1. /\ Fits(send_dc_device_configuration_message)
      /\ Fits(send_tgs_device_configuration_message)
      /\ Fits(send_ppc_device_configuration_message)
      /\ Fits(send_sc_device_configuration_message)
  BY DEF send_dc_device_configuration_message, send_tgs_device_configuration_message,
    send_ppc_device_configuration_message, send_sc_device_configuration_message,
    SentDispencers, ++, Texts, Bytes, Words, Longs, Fits, WidthOf, ByteNames,
    WordNames, LongNames
<1>2. Fits(ParseDCConfigurationFrame) /\ Fits(ParseTGSConfigurationFrame)
  BY DEF ParseDCConfigurationFrame, ParseDispencerConfigurationFrame,
         ParseNozzleConfigurationFrame, ParseTGSConfigurationFrame,
         ParseTGSTankConfigurationFrame, ++, Texts, Bytes, Words, Longs,
         Fits, WidthOf, ByteNames, WordNames, LongNames
<1>3. DOMAIN send_dc_device_configuration_message = Fields["dc"] \cap Mapping
  BY DEF send_dc_device_configuration_message, SentDispencers, ++, Texts, Bytes, Words,
    Longs, Fields, Mapping, DeviceHead, DeviceSizes, LibConfig, LibLogOptions,
    ConnOptions, TimeoutOptions, DCLibConfig, DCDecimalPointOptions, TgsLibConfig,
    PpcLibConfig, ScLibConfig
<1>4. DOMAIN send_tgs_device_configuration_message = Fields["tgs"] \cap Mapping
  BY DEF send_tgs_device_configuration_message, ++, Texts, Bytes, Words, Longs, Fields,
    Mapping, DeviceHead, DeviceSizes, LibConfig, LibLogOptions, ConnOptions,
    TimeoutOptions, DCLibConfig, DCDecimalPointOptions, TgsLibConfig, PpcLibConfig,
    ScLibConfig
<1>5. DOMAIN send_ppc_device_configuration_message = Fields["ppc"] \cap Mapping
  BY DEF send_ppc_device_configuration_message, ++, Texts, Bytes, Words, Longs, Fields,
    Mapping, DeviceHead, DeviceSizes, LibConfig, LibLogOptions, ConnOptions,
    TimeoutOptions, DCLibConfig, DCDecimalPointOptions, TgsLibConfig, PpcLibConfig,
    ScLibConfig
<1>6. DOMAIN send_sc_device_configuration_message = Fields["sc"] \cap Mapping
  BY DEF send_sc_device_configuration_message, ++, Texts, Bytes, Words, Longs, Fields,
    Mapping, DeviceHead, DeviceSizes, LibConfig, LibLogOptions, ConnOptions,
    TimeoutOptions, DCLibConfig, DCDecimalPointOptions, TgsLibConfig, PpcLibConfig,
    ScLibConfig
<1> QED
  BY <1>1, <1>2, <1>3, <1>4, <1>5, <1>6 DEF SentByDevice, TakenOfDevice, Devices

(* A field that is neither lost nor left untold reaches an administrator   *)
(* and the thread of a device under its own name.                          *)
LEMMA Telling ==
    ASSUME setup \in Setups
    PROVE  /\ \A f \in Fields[kind] \ (LostAtRest \cup UntoldOf) :
                 f \in Confs[kind] /\ SentFrom(f) = f
           /\ \A f : SentFrom(f) \in Fields[kind] => f \in UntoldOf \/ SentFrom(f) = f
           /\ kind \in Devices => Fields[kind] \subseteq ThreadConfs[kind]
<1> USE Passing
<1>1. CASE kind = "dc"
  <2>1. /\ Fields["dc"] = ConfsOfDc /\ Fields["dc"] \subseteq get_dc_conf
        /\ "tank.num" \notin Fields["dc"] /\ "tank.channel" \notin Fields["dc"]
    BY DEF Fields, ConfsOfDc, get_dc_conf, DCLibConfig, DeviceHead, DeviceSizes, LibConfig,
           LibLogOptions, ConnOptions, TimeoutOptions, DCDecimalPointOptions
  <2> QED
    BY <1>1, <2>1 DEF Confs, ThreadConfs, SentFrom
<1>2. CASE kind = "tgs"
  <2>1. LostAtRest \cup UntoldOf = LostOfDevices \cup {"tank.channel", "log.file_size", "log.save_days"}
    BY <1>2 DEF LostAtRest, UntoldOf, Devices
  <2>2. /\ Fields["tgs"] \ (LostOfDevices \cup {"log.file_size", "log.save_days"}) \subseteq ConfsOfTgs
        /\ Fields["tgs"] \subseteq get_tgs_conf
    BY DEF Fields, ConfsOfTgs, get_tgs_conf, TgsLibConfig, LostOfDevices, DeviceHead, DeviceSizes,
           LibConfig, ReadLib, LibLogOptions, ConnOptions, TimeoutOptions
  <2>3. UntoldOf = {"tank.channel", "log.file_size", "log.save_days"}
    BY <1>2 DEF UntoldOf
  <2> QED
    BY <1>2, <2>1, <2>2, <2>3 DEF Confs, ThreadConfs, SentFrom
<1>3. CASE kind = "ppc"
  <2>1. LostAtRest \cup UntoldOf = LostOfDevices \cup {"log.file_size", "log.save_days"}
    BY <1>3 DEF LostAtRest, UntoldOf, Devices
  <2>2. /\ Fields["ppc"] \ (LostOfDevices \cup {"log.file_size", "log.save_days"}) \subseteq ConfsOfPpc
        /\ Fields["ppc"] \subseteq get_ppc_conf
        /\ "tank.num" \notin Fields["ppc"] /\ "tank.channel" \notin Fields["ppc"]
    BY DEF Fields, ConfsOfPpc, get_ppc_conf, PpcLibConfig, LostOfDevices, DeviceHead, DeviceSizes,
           LibConfig, ReadLib, LibLogOptions, ConnOptions, TimeoutOptions
  <2> QED
    BY <1>3, <2>1, <2>2 DEF Confs, ThreadConfs, SentFrom
<1>4. CASE kind = "sc"
  <2>1. LostAtRest \cup UntoldOf = LostOfDevices \cup {"log.file_size", "log.save_days"}
    BY <1>4 DEF LostAtRest, UntoldOf, Devices
  <2>2. /\ Fields["sc"] \ (LostOfDevices \cup {"log.file_size", "log.save_days"}) \subseteq ConfsOfSc
        /\ Fields["sc"] \subseteq get_sc_conf
        /\ "tank.num" \notin Fields["sc"] /\ "tank.channel" \notin Fields["sc"]
    BY DEF Fields, ConfsOfSc, get_sc_conf, ScLibConfig, LostOfDevices, DeviceHead, DeviceSizes,
           LibConfig, ReadLib, LibLogOptions, ConnOptions, TimeoutOptions
  <2> QED
    BY <1>4, <2>1, <2>2 DEF Confs, ThreadConfs, SentFrom
<1>5. CASE kind = "profile"
  <2>1. /\ Fields["profile"] = get_profiles_conf
        /\ "tank.num" \notin Fields["profile"] /\ "tank.channel" \notin Fields["profile"]
    BY DEF Fields, get_profiles_conf, Profile
  <2> QED
    BY <1>5, <2>1 DEF Confs, SentFrom, Devices
<1>6. CASE kind = "common"
  <2>1. /\ Fields["common"] = get_common_conf
        /\ "tank.num" \notin Fields["common"] /\ "tank.channel" \notin Fields["common"]
    BY DEF Fields, get_common_conf, CommonConf
  <2> QED
    BY <1>6, <2>1 DEF Confs, SentFrom, Devices
<1> QED
  BY <1>1, <1>2, <1>3, <1>4, <1>5, <1>6 DEF Kinds, Devices

LEMMA AllSent ==
    ASSUME setup \in Setups
    PROVE  /\ DOMAIN Sent[kind] = Fields[kind]
           /\ kind \in Devices => /\ Fits(Sent[kind]) /\ Fits(PssParses[kind])
                                  /\ DOMAIN PssParses[kind] = Fields[kind]
<1>1. kind \in {"dc", "tgs", "ppc", "sc", "profile", "common"}
  BY Passing DEF Kinds, Devices
<1> QED
  BY <1>1, DcPacks, TgsPacks, PpcPacks, ScPacks, OtherPacks DEF Sent, PssParses, Devices

LEMMA HeldIsTold ==
    ASSUME setup \in Setups, NEW e, Holds(e)
    PROVE  LET excused == LostOf(e) \cup UntoldOf
           IN  /\ Agree(Told(e), e.ask, excused)
               /\ kind \in Devices =>
                     /\ Agree(PssTold(e), e.ask, excused)
                     /\ Agree(ThreadTold(e), e.ask, LostOf(e))
                     /\ Agree(ClientTold(e), e.ask \cap Mapping, LostOf(e))
<1> DEFINE lost == LostOf(e)
           untold == UntoldOf
<1>1. /\ e.has \subseteq Fields[kind] /\ e.ask \subseteq Fields[kind] /\ LostAtRest \subseteq lost
      /\ \A f \in Fields[kind] \ lost : f \in e.has <=> f \in e.ask
  BY Passing DEF Holds, Agree
<1>2. /\ \A f \in Fields[kind] \ (lost \cup untold) : f \in Confs[kind] /\ SentFrom(f) = f
      /\ \A f : SentFrom(f) \in Fields[kind] => f \in untold \/ SentFrom(f) = f
  BY <1>1, Telling
<1>3. kind \in Devices => Fields[kind] \subseteq ThreadConfs[kind]
  BY Telling
<1>4. Told(e) = {f \in Fields[kind] : SentFrom(f) \in e.has \cap Confs[kind]}
  BY AllSent DEF Told
<1> HIDE DEF lost, untold
<1>5. Told(e) \ (lost \cup untold) = e.ask \ (lost \cup untold)
  BY <1>1, <1>2, <1>4
<1>6. ASSUME kind \in Devices PROVE PssTold(e) = Told(e)
  <2>1. \A f \in Fields[kind] : PssParses[kind][f] = Sent[kind][f]
    BY <1>6, AllSent DEF Fits
  <2> QED
    BY <1>4, <2>1 DEF PssTold
<1>7. ASSUME kind \in Devices PROVE ThreadTold(e) = e.has
  BY <1>1, <1>3, <1>7 DEF ThreadTold
<1>8. ASSUME kind \in Devices PROVE ClientTold(e) = e.has \cap Mapping
  <2> DEFINE sent == SentByDevice[kind]
  <2>1. DOMAIN sent = Fields[kind] \cap Mapping
    BY <1>8, PacksOfDevices
  <2>2. ASSUME kind \in DOMAIN TakenOfDevice, NEW f \in DOMAIN TakenOfDevice[kind] \cap DOMAIN sent
        PROVE  TakenOfDevice[kind][f] = sent[f]
    <3>1. Fits(sent) /\ Fits(TakenOfDevice[kind])
      BY <1>8, <2>2, PacksOfDevices
    <3> DEFINE took == TakenOfDevice[kind]
    <3> HIDE DEF sent, took
    <3>2. Fits(sent) /\ Fits(took) /\ f \in DOMAIN took /\ f \in DOMAIN sent
      BY <2>2, <3>1 DEF took
    <3>3. took[f] = WidthOf(f) /\ sent[f] = WidthOf(f)
      BY <3>2 DEF Fits
    <3> QED
      BY <3>3 DEF took
  <2>3. ClientTold(e) = {f \in e.has \cap DOMAIN sent :
                            kind \in DOMAIN TakenOfDevice /\ f \in DOMAIN TakenOfDevice[kind]
                               => TakenOfDevice[kind][f] = sent[f]}
    BY <1>7, <1>8 DEF ClientTold
  <2> HIDE DEF sent
  <2> QED
    BY <1>1, <2>1, <2>2, <2>3
<1> QED
  BY <1>1, <1>5, <1>6, <1>7, <1>8 DEF Agree, lost, untold

(* What an administrator reads back, what pss takes of it, what a device's *)
(* thread is started with and what its clients are told of its units is    *)
(* what was last asked for, but for LostOf and UntoldOf: all packs and     *)
(* parsers agree on every other field and its width (send_*, Parse*,       *)
(* get_*_conf, system_message_func.c, hardware_serv.c of pss).             *)
THEOREM ReadersHearWhatWasAsked == ConfigSpec => []ReadersTold
<1>1. ConfigInv /\ EntriesHold => ReadersTold
  BY HeldIsTold DEF ConfigInv, HTypes, EntriesHold, ReadersTold
<1> QED
  BY HoldAlways, <1>1, PTL
=============================================================================
