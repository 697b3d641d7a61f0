-------------------------- MODULE DeviceLinksProofs --------------------------
(***************************************************************************)
(* The links between pss and the device threads of the hardware server,    *)
(* for every set-up of links, devices and bounds: first one link on its    *)
(* own (PssLoad), then all of them with the server behind (DeviceLinks),   *)
(* then that the second implements the first.                              *)
(***************************************************************************)
EXTENDS DeviceLinks, SequenceTheorems, TLAPS

-----------------------------------------------------------------------------
(* 1. One link: what pss has installed while it loads its configuration.   *)

LoadTypes ==
    /\ hs_state \in 1..Complete
    /\ requests \in Seq(Types) /\ answers \in Seq(Types)
    /\ server_devices \in Seq(Types)
    /\ loaded \in BOOLEAN

(* At most one kind is under way, and it is the one of the current step.   *)
OneUnderWay ==
    \/ requests = <<>> /\ answers = <<>>
    \/ hs_state # Complete /\ requests = <<Steps[hs_state]>> /\ answers = <<>>
    \/ hs_state # Complete /\ requests = <<>> /\ answers = <<Steps[hs_state]>>

(* Installed over this link are the kinds from step n on up to the current *)
(* one, each once and in their order.                                      *)
InstalledFrom(n) ==
    /\ Len(server_devices) = hs_state - n
    /\ \A i \in 1..(hs_state - n) : server_devices[i] = Steps[n - 1 + i]

NoGap == \E n \in 1..hs_state : InstalledFrom(n) /\ ("remade" \notin past => n = 1)

IInv == /\ LoadTypes
        /\ loaded => conf = "done" /\ hs_state = Complete
        /\ "late" \notin past => OneUnderWay /\ NoGap

LEMMA StepsFacts ==
    /\ Steps \in Seq(Types) /\ Len(Steps) = 4 /\ Complete = 5 /\ GetScConf = 4
    /\ \A i \in 1..4 : Steps[i] \in Types
    /\ \A i, j \in 1..4 : Steps[i] = Steps[j] => i = j
<1>1. Steps[1] = "dc" /\ Steps[2] = "tgs" /\ Steps[3] = "ppc" /\ Steps[4] = "sc"
  BY DEF Steps
<1>2. Len(Steps) = 4 /\ Steps \in Seq(Types)
  BY DEF Steps, Types
<1> QED
  BY <1>1, <1>2 DEF Complete, GetScConf, Types

LEMMA InitIInv == Init => IInv
<1> SUFFICES ASSUME Init PROVE IInv
  OBVIOUS
<1>1. LoadTypes
  <2>1. <<>> \in Seq(Types)
    BY EmptySeq
  <2>2. 1 \in 1..Complete
    BY StepsFacts
  <2> QED
    BY <2>1, <2>2 DEF Init, LoadTypes, GetDcConf
<1>2. 1 \in 1..hs_state /\ InstalledFrom(1)
  BY DEF Init, InstalledFrom, GetDcConf
<1>3. ~loaded /\ OneUnderWay
  BY DEF Init, OneUnderWay
<1>4. NoGap
  BY <1>2 DEF NoGap
<1> QED
  BY <1>1, <1>3, <1>4 DEF IInv

(* The steps of the configuration thread.                                  *)
LEMMA StepConnect == IInv /\ Connect => IInv'
<1> SUFFICES ASSUME IInv, Connect PROVE IInv'
  OBVIOUS
<1>1. LoadTypes' /\ OneUnderWay' /\ ~loaded'
  BY DEF Connect, IInv, LoadTypes, OneUnderWay
<1>2. /\ hs_state \in 1..hs_state' /\ Len(server_devices') = hs_state' - hs_state
      /\ \A i \in 1..(hs_state' - hs_state) : server_devices'[i] = Steps[hs_state - 1 + i]
  BY StepsFacts DEF Connect, IInv, LoadTypes
<1>3. "remade" \notin past' => hs_state = 1
  BY DEF Connect, Note, GetDcConf
<1>4. NoGap'
  BY <1>2, <1>3 DEF NoGap, InstalledFrom
<1> QED
  BY <1>1, <1>4 DEF IInv

LEMMA StepSetConnected == IInv /\ SetConnected => IInv'
  BY StepsFacts DEF SetConnected, Note, link, IInv, LoadTypes, OneUnderWay,
     NoGap, InstalledFrom

LEMMA StepAsk == IInv /\ Ask => IInv'
<1> SUFFICES ASSUME IInv, Ask PROVE IInv'
  OBVIOUS
<1>1. hs_state \in 1..4 /\ Steps[hs_state] \in Types
  BY StepsFacts DEF Ask, IInv, LoadTypes
<1>2. LoadTypes'
  BY <1>1 DEF Ask, IInv, LoadTypes
<1>3. ASSUME "late" \notin past' PROVE "late" \notin past /\ OneUnderWay'
  <2>1. requests = <<>> /\ answers = <<>> /\ "late" \notin past
    BY <1>3 DEF Ask, Note
  <2>2. requests' = <<Steps[hs_state]>> \/ requests' = <<>>
    BY <2>1, <1>1 DEF Ask
  <2> QED
    BY <2>1, <2>2 DEF Ask, OneUnderWay
<1>4. NoGap => NoGap'
  BY DEF Ask, Note, NoGap, InstalledFrom
<1> QED
  BY <1>2, <1>3, <1>4 DEF Ask, IInv

LEMMA StepFinish == IInv /\ Finish => IInv'
  BY DEF Finish, link, IInv, LoadTypes, OneUnderWay, NoGap, InstalledFrom

LEMMA StepDisconnect == IInv /\ Disconnect => IInv'
  BY StepsFacts DEF Disconnect, IInv, LoadTypes, OneUnderWay, NoGap,
     InstalledFrom

(* The steps of the reader thread.                                         *)
LEMMA StepParseConfigFrame == IInv /\ ParseConfigFrame => IInv'
<1> SUFFICES ASSUME IInv, ParseConfigFrame PROVE IInv'
  OBVIOUS
<1>1. Head(answers) \in Types /\ answers' \in Seq(Types)
  BY DEF ParseConfigFrame, IInv, LoadTypes
<1>2. LoadTypes'
  BY <1>1, StepsFacts DEF ParseConfigFrame, IInv, LoadTypes
<1>3. loaded' => conf' = "done" /\ hs_state' = Complete
  BY DEF ParseConfigFrame, IInv
<1>4. ASSUME "late" \notin past' PROVE OneUnderWay' /\ NoGap'
  <2>1. /\ requests = <<>> /\ answers = <<Steps[hs_state]>>
        /\ hs_state \in 1..4 /\ hs_state' = hs_state + 1
    BY <1>4, StepsFacts DEF ParseConfigFrame, IInv, LoadTypes, OneUnderWay
  <2>2. OneUnderWay'
    BY <2>1, StepsFacts DEF ParseConfigFrame, OneUnderWay
  <2>3. server_devices' = Append(server_devices, Steps[hs_state]) /\ past' = past
    BY <2>1, StepsFacts DEF ParseConfigFrame
  <2>4. PICK n \in 1..hs_state : InstalledFrom(n) /\ ("remade" \notin past => n = 1)
    BY <1>4, <2>3 DEF IInv, NoGap
  <2>5. Len(server_devices') = hs_state' - n
    BY <2>1, <2>3, <2>4, StepsFacts DEF InstalledFrom, IInv, LoadTypes
  <2>6. ASSUME NEW i \in 1..(hs_state' - n) PROVE server_devices'[i] = Steps[n - 1 + i]
    <3>1. CASE i \in 1..(hs_state - n)
      BY <3>1, <2>1, <2>3, <2>4, StepsFacts DEF InstalledFrom, IInv, LoadTypes
    <3>2. CASE i = hs_state - n + 1
      <4>1. n - 1 + i = hs_state /\ i = Len(server_devices) + 1
        BY <3>2, <2>1, <2>4 DEF InstalledFrom
      <4> QED
        BY <4>1, <2>1, <2>3, StepsFacts DEF IInv, LoadTypes
    <3> QED
      BY <3>1, <3>2, <2>1, <2>4
  <2> QED
    BY <2>1, <2>2, <2>3, <2>4, <2>5, <2>6 DEF NoGap, InstalledFrom
<1> QED
  BY <1>2, <1>3, <1>4 DEF IInv

LEMMA StepReadClosed == IInv /\ ReadClosed => IInv'
  BY DEF ReadClosed, link, IInv, LoadTypes, OneUnderWay, NoGap, InstalledFrom

(* The steps of the server and of the link.                                *)
LEMMA StepServerAnswers == IInv /\ ServerAnswers => IInv'
<1> SUFFICES ASSUME IInv, ServerAnswers PROVE IInv'
  OBVIOUS
<1>1. Head(requests) \in Types /\ requests' \in Seq(Types)
  BY DEF ServerAnswers, IInv, LoadTypes
<1>2. LoadTypes'
  BY <1>1 DEF ServerAnswers, IInv, LoadTypes
<1>3. ASSUME "late" \notin past PROVE OneUnderWay'
  <2>1. requests = <<Steps[hs_state]>> /\ answers = <<>> /\ hs_state # Complete
    BY <1>3 DEF ServerAnswers, IInv, OneUnderWay
  <2> QED
    BY <2>1, StepsFacts DEF ServerAnswers, OneUnderWay, IInv, LoadTypes
<1>4. NoGap' = NoGap
  BY DEF ServerAnswers, NoGap, InstalledFrom
<1> QED
  BY <1>2, <1>3, <1>4 DEF ServerAnswers, IInv

LEMMA StepLinkBreaks == IInv /\ LinkBreaks => IInv'
<1> SUFFICES ASSUME IInv, LinkBreaks PROVE IInv'
  OBVIOUS
<1>1. PICK n \in 0..Len(answers) : answers' = SubSeq(answers, 1, n)
  BY DEF LinkBreaks
<1>2. answers' \in Seq(Types) /\ (n = 0 => answers' = <<>>)
      /\ (n = Len(answers) => answers' = answers)
  BY <1>1 DEF IInv, LoadTypes
<1>3. LoadTypes'
  BY <1>2 DEF LinkBreaks, IInv, LoadTypes
<1>4. ASSUME "late" \notin past PROVE OneUnderWay'
  <2>1. requests' = <<>> /\ hs_state' = hs_state
    BY DEF LinkBreaks
  <2>2. n = 0 \/ n = Len(answers)
    <3>1. OneUnderWay
      BY <1>4 DEF IInv
    <3>2. CASE answers = <<>>
      BY <3>2
    <3>3. CASE answers = <<Steps[hs_state]>>
      BY <3>3
    <3> QED
      BY <3>1, <3>2, <3>3 DEF OneUnderWay
  <2> QED
    BY <1>2, <1>4, <2>1, <2>2 DEF IInv, OneUnderWay
<1>5. NoGap' = NoGap
  BY DEF LinkBreaks, NoGap, InstalledFrom
<1> QED
  BY <1>3, <1>4, <1>5 DEF LinkBreaks, IInv

LEMMA Stutter == IInv /\ UNCHANGED vars => IInv'
<1> SUFFICES ASSUME IInv, UNCHANGED vars PROVE IInv'
  OBVIOUS
<1>1. UNCHANGED <<conf, hs_state, requests, answers, server_devices, loaded, past>>
  BY DEF vars, link
<1> QED
  BY <1>1 DEF IInv, LoadTypes, OneUnderWay, NoGap, InstalledFrom

LEMMA IInvLoadedOnce == IInv => LoadedOnce
<1> SUFFICES ASSUME IInv, "late" \notin past PROVE
      /\ \A i, j \in DOMAIN server_devices : server_devices[i] = server_devices[j] => i = j
      /\ loaded /\ "remade" \notin past => server_devices = Steps
  BY DEF LoadedOnce
<1>1. PICK n \in 1..hs_state : InstalledFrom(n) /\ ("remade" \notin past => n = 1)
  BY DEF IInv, NoGap
<1>2. DOMAIN server_devices = 1..(hs_state - n) /\ hs_state \in 1..5
  BY <1>1, StepsFacts DEF InstalledFrom, IInv, LoadTypes
<1>3. ASSUME NEW i \in DOMAIN server_devices, NEW j \in DOMAIN server_devices,
             server_devices[i] = server_devices[j]
      PROVE  i = j
  <2>1. n - 1 + i \in 1..4 /\ n - 1 + j \in 1..4
    BY <1>2
  <2>2. Steps[n - 1 + i] = Steps[n - 1 + j]
    BY <1>1, <1>2, <1>3 DEF InstalledFrom
  <2>3. n - 1 + i = n - 1 + j
    BY <2>1, <2>2, StepsFacts
  <2> QED
    BY <2>3, <1>2
<1>4. ASSUME loaded, "remade" \notin past PROVE server_devices = Steps
  <2>1. n = 1 /\ hs_state = 5
    BY <1>1, <1>4, StepsFacts DEF IInv
  <2>2. Len(server_devices) = Len(Steps)
        /\ \A i \in 1..Len(server_devices) : server_devices[i] = Steps[i]
    BY <1>1, <2>1, StepsFacts DEF InstalledFrom
  <2> QED
    BY <2>2, StepsFacts, SeqEqual DEF IInv, LoadTypes
<1> QED
  BY <1>3, <1>4

(* No kind of device is installed twice, and all four are when the load is *)
(* declared complete, unless a request was sent while another was under    *)
(* way, or the link was made again half way (hardware_serv.c of pss).      *)
THEOREM NothingTwice == Spec => []LoadedOnce
<1>1. IInv /\ [Next]_vars => IInv'
  BY StepConnect, StepSetConnected, StepAsk, StepFinish, StepDisconnect,
     StepParseConfigFrame, StepReadClosed, StepServerAnswers, StepLinkBreaks, Stutter
  DEF Next
<1> QED
  BY InitIInv, <1>1, IInvLoadedOnce, PTL DEF Spec

-----------------------------------------------------------------------------
(* 2. What one step does to the server's side of the links.                *)

(* What the steps do to what the server tells its clients.                 *)
view == <<setup, data, changed, count, place, clients, masked>>

DeviceReads ==
    /\ \/ ReadConfig \/ ReadStatus(FirstUnit) \/ TellStatus
       \/ Kind("ppc") /\ ReadStatus(<<"find", 0>>)
    /\ UNCHANGED masked

TankThread == /\ Kind("tgs") /\ UNCHANGED masked
              /\ \E u \in Units : set_tank_state_from_driver(u) \/ tell_tank(u)
SensorThread == /\ Kind("sc") /\ UNCHANGED masked
                /\ \E u \in Units : set_sensor_state_from_driver(u) \/ tell_sensor(u)
PoleThread ==
    /\ Kind("ppc")
    /\ \/ find_ppc_client_command
       \/ \E s \in Slots, k \in Asks : set_ppc_client_command_result(s, k)
       \/ \E u \in Units : set_price_pole_state_from_driver(u)
       \/ tell_poles

Comes == /\ \E p \in Peers : /\ SlotsOf(p) = {}
                             /\ Accept(p, IF Kind("ppc") THEN {0, 1} ELSE 0 .. count)
         /\ UNCHANGED masked
Ends(s) ==
    /\ \/ ReaderEnds(s) /\ ("cut" \in lost' \/ \E p \in Peers : links[p].state = "leaving")
       \/ SetDestroying /\ "cut" \in lost'
       \/ Destroy(s)
    /\ UNCHANGED masked

\* The items of a message, and the units they stand for.
Sends(s) ==
    /\ \/ Send(s, 0, {0})
       \/ ~Kind("ppc") /\ \E u \in Units : Send(s, u, {u})
       \/ Kind("ppc") /\ Send(s, 1, Units)
       \/ ClearFlag(s)
    /\ UNCHANGED masked
Answers(s) ==
    /\ \/ Answer(s, {}) \/ Answer(s, {0})
       \/ ~Kind("ppc") /\ (Answer(s, 1 .. count) \/ \E u \in Units : Answer(s, {u}))
       \/ Kind("ppc") /\ Answer(s, Units)
    /\ clients[s].reading
    /\ UNCHANGED masked

KeepStep ==
    \/ UNCHANGED view
    \/ DeviceReads \/ TankThread \/ SensorThread \/ PoleThread
    \/ \E s \in Slots : Ends(s) \/ Sends(s) \/ Answers(s)

ServerStep == KeepStep \/ Comes

LEMMA AcceptComes == ASSUME NEW p \in Peers, SlotsOf(p) = {}, AcceptPeer(p) PROVE Comes
  BY DEF AcceptPeer, Comes, Kind, tgs_main_socket_thread_func,
     sc_main_socket_thread_func,
         ppc_main_socket_thread_func, set_new_tgs_client_param, set_new_sc_client_param,
         set_new_ppc_client_param, poles

LEMMA LoginAnswers ==
    ASSUME NEW s \in Slots, NEW guid, NEW v, NEW permitted, PPSetPrices(s, guid, v, permitted)
    PROVE  Answers(s)
  BY DEF PPSetPrices, ParsePPCRequest, Login, Answers

LEMMA ReadKeepStep == ASSUME NEW p \in Peers, ReadLink(p) PROVE KeepStep
<1>1. PICK s \in Slots :
          IF Head(links[p].asked)[1] = "status" THEN Login(s, TRUE) /\ Answer(s, {0}) /\ UNCHANGED poles
        ELSE PPSetPrices(s, FALSE, Head(links[p].asked)[2], TRUE)
  BY DEF ReadLink, SlotsOf
<1>2. CASE Head(links[p].asked)[1] = "status"
  BY <1>1, <1>2 DEF KeepStep, Answers, Login, poles
<1>3. CASE Head(links[p].asked)[1] # "status"
  BY <1>1, <1>3, LoginAnswers DEF KeepStep
<1> QED
  BY <1>2, <1>3

LEMMA LinkServerStep ==
    ASSUME NEW p \in Peers,
           \/ connect_to_server_device(p) \/ connect_fails(p)
           \/ disconnect_server_devices(p) \/ LinkCut(p)
           \/ tgs_device_func(p) \/ sc_device_func(p) \/ ppc_device_func(p)
           \/ price_update(p) \/ ReadLink(p)
    PROVE  ServerStep
<1>1. CASE connect_to_server_device(p)
  BY <1>1, AcceptComes DEF connect_to_server_device, ServerStep, KeepStep
<1>2. CASE connect_fails(p) \/ disconnect_server_devices(p) \/ price_update(p)
  BY <1>2 DEF connect_fails, disconnect_server_devices, price_update,
     ServerStep, KeepStep, view, hs, server, poles
<1>3. CASE LinkCut(p)
  BY <1>3 DEF LinkCut, Break, Lose, SlotsOf, ServerStep, KeepStep, Ends, poles
<1>4. CASE RecvReturnsNothing(p)
  <2>1. CASE LinkCloses(p)
    BY <2>1 DEF LinkCloses, ServerStep, KeepStep, view, hs, server, poles
  <2>2. CASE reconnect_to_server_device(p)
    BY <2>2, AcceptComes DEF reconnect_to_server_device, ServerStep, KeepStep
  <2>3. CASE ThreadEnds(p)
    BY <2>3 DEF ThreadEnds, SlotsOf, ServerStep, KeepStep, Ends, view, server,
       poles
  <2> QED
    BY <1>4, <2>1, <2>2, <2>3 DEF RecvReturnsNothing
<1>5. CASE ParseTankDataFrame(p) \/ set_gauge_state(p) \/ ParseSensorDataFrame(p)
  BY <1>5 DEF ParseTankDataFrame, set_gauge_state, ParseSensorDataFrame,
     ServerStep, KeepStep, view, hs, server, poles
<1>6. CASE ReadLink(p)
  BY <1>6, ReadKeepStep DEF ServerStep
<1> QED
  BY <1>1, <1>2, <1>3, <1>4, <1>5, <1>6
  DEF tgs_device_func, sc_device_func, ppc_device_func, ParseTGSFrame, ParseTGSDataFrame,
      ParseSCFrame, ParseSCDataFrame

LEMMA ProgramKeepStep ==
    Program => KeepStep \/ \E p \in setup.others : SlotsOf(p) = {} /\ AcceptPeer(p)
<1> SUFFICES ASSUME Program
             PROVE  KeepStep \/ \E p \in setup.others : SlotsOf(p) = {} /\ AcceptPeer(p)
  OBVIOUS
<1>2. ASSUME NEW s \in Slots, NEW guid \in BOOLEAN,
             \/ Kind("tgs") /\ tgs_device_client_read_thread_func(s, guid) /\ UNCHANGED poles
             \/ Kind("sc") /\ sc_device_client_read_thread_func(s, guid) /\ UNCHANGED poles
             \/ Kind("ppc") /\ ppc_device_client_read_thread_func(s, guid)
      PROVE  Answers(s)
  BY <1>2 DEF tgs_device_client_read_thread_func,
     sc_device_client_read_thread_func,
       ppc_device_client_read_thread_func, ParseTGSRequest, ParseSCRequest, ParsePPCRequest,
       Login, Answers, Kind, poles
<1>3. ASSUME NEW s \in Slots, NEW guid \in BOOLEAN,
             \E v \in Price, permitted \in BOOLEAN : PPSetPrices(s, guid, v, permitted)
      PROVE  Answers(s)
  BY <1>3, LoginAnswers
<1>4. \/ \E p \in setup.others : SlotsOf(p) = {} /\ AcceptPeer(p)
      \/ \E s \in Slots, guid \in BOOLEAN :
            \/ Kind("tgs") /\ tgs_device_client_read_thread_func(s, guid) /\ UNCHANGED poles
            \/ Kind("sc") /\ sc_device_client_read_thread_func(s, guid) /\ UNCHANGED poles
            \/ Kind("ppc") /\ ppc_device_client_read_thread_func(s, guid)
            \/ \E v \in Price, permitted \in BOOLEAN : PPSetPrices(s, guid, v, permitted)
  <2>1. \A p : SlotsOf(p) \subseteq Slots
    BY DEF SlotsOf
  <2> QED
    BY <2>1 DEF Program
<1> QED
  BY <1>2, <1>3, <1>4 DEF KeepStep

LEMMA PushKeepStep ==
    ASSUME NEW s \in Slots, NEW u \in Units, PushTank(s, u) \/ PushSensor(s, u)
    PROVE  KeepStep
  BY DEF PushTank, PushSensor, Push, send_tgs_device_data_message,
     send_sc_device_data_message,
         Kind, Sends, KeepStep, poles

LEMMA TankKeepStep == TankServer => KeepStep
<1> SUFFICES ASSUME TankServer PROVE KeepStep
  OBVIOUS
<1>1. UNCHANGED masked /\ Kind("tgs")
  BY DEF TankServer, poles
<1>2. CASE TankMoves
  BY <1>1, <1>2 DEF TankMoves, UnitMoves, KeepStep, view
<1>3. CASE tgs_device_thread_func
  BY <1>1, <1>3 DEF tgs_device_thread_func, set_tank_config_from_driver,
       set_tgs_device_status_from_driver, DeviceReads, TankThread, KeepStep
<1>4. ASSUME NEW s \in Slots, tgs_device_client_thread_func(s) \/ Send(s, 0, {0}) PROVE KeepStep
  BY <1>1, <1>4 DEF tgs_device_client_thread_func, destroy_tgs_client, Sends,
     Ends, KeepStep
<1> QED
  BY <1>2, <1>3, <1>4 DEF TankServer

LEMMA SensorKeepStep == SensorServer => KeepStep
<1> SUFFICES ASSUME SensorServer PROVE KeepStep
  OBVIOUS
<1>1. UNCHANGED masked /\ Kind("sc")
  BY DEF SensorServer, poles
<1>2. CASE SensorMoves
  BY <1>1, <1>2 DEF SensorMoves, UnitMoves, KeepStep, view
<1>3. CASE sensor_controller_device_thread_func
  BY <1>1, <1>3 DEF sensor_controller_device_thread_func,
     set_sensor_config_from_driver,
       set_sc_device_status_from_driver, DeviceReads, SensorThread, KeepStep
<1>4. ASSUME NEW s \in Slots, sc_device_client_thread_func(s) \/ Send(s, 0, {0}) PROVE KeepStep
  BY <1>1, <1>4 DEF sc_device_client_thread_func, destroy_sc_client, Sends,
     Ends, KeepStep
<1> QED
  BY <1>2, <1>3, <1>4 DEF SensorServer

LEMMA PoleKeepStep == PoleServer => KeepStep
<1> SUFFICES ASSUME PoleServer PROVE KeepStep
  OBVIOUS
<1>1. Kind("ppc")
  BY DEF PoleServer
<1>2. CASE PoleShows
  BY <1>2 DEF PoleShows, KeepStep, view, server, poles
<1>3. CASE ppc_device_thread_func
  <2>1. CASE \/ set_price_pole_config_from_driver \/ set_ppc_device_status_from_driver
             \/ TellStatus /\ UNCHANGED poles
    BY <1>1, <2>1 DEF set_price_pole_config_from_driver,
       set_ppc_device_status_from_driver,
         DeviceReads, KeepStep, poles
  <2>2. CASE PoleThread
    BY <2>2 DEF KeepStep
  <2> QED
    BY <1>1, <1>3, <2>1, <2>2 DEF ppc_device_thread_func, PoleThread
<1>4. ASSUME NEW s \in Slots, ppc_device_client_thread_func(s) PROVE KeepStep
  <2>1. CASE get_ppc_client_command_result(s) \/ clear_ppc_client_command(s)
    BY <2>1 DEF get_ppc_client_command_result, clear_ppc_client_command,
       KeepStep, view, server
  <2>2. CASE ClearFlag(s) /\ UNCHANGED poles
    BY <2>2 DEF Sends, KeepStep, poles
  <2>3. CASE destroy_ppc_client(s)
    BY <2>3 DEF destroy_ppc_client, Ends, KeepStep
  <2> QED
    BY <1>4, <2>1, <2>2, <2>3 DEF ppc_device_client_thread_func
<1>5. ASSUME NEW s \in Slots, send_ppc_device_status_message(s) \/ send_ppc_device_data_message(s)
      PROVE  KeepStep
  BY <1>1, <1>5 DEF send_ppc_device_status_message,
     send_ppc_device_data_message, Sends, KeepStep, poles
<1> QED
  BY <1>2, <1>3, <1>4, <1>5 DEF PoleServer

LEMMA OtherKeepStep == OtherStops => KeepStep
<1> SUFFICES ASSUME OtherStops PROVE KeepStep
  OBVIOUS
<1>1. SetDestroying /\ UNCHANGED masked /\ "cut" \in lost'
  BY DEF OtherStops, Break, Lose, set_tgs_clients_status_is_destroying,
     set_sc_clients_status_is_destroying,
         set_ppc_clients_status_is_destroying, poles
<1>2. \E s \in Slots : TRUE
  BY <1>1 DEF SetDestroying
<1> QED
  BY <1>1, <1>2 DEF Ends, KeepStep

LEMMA ProgramServerStep == setup \in Setups /\ Program => ServerStep
<1> SUFFICES ASSUME setup \in Setups, Program PROVE ServerStep
  OBVIOUS
<1>1. setup.others \subseteq Peers
  BY ShapeAssumption
<1> QED
  BY <1>1, ProgramKeepStep, AcceptComes DEF ServerStep

LEMMA NextServerStep == setup \in Setups /\ [LinkedNext]_allVars => ServerStep
<1> SUFFICES ASSUME setup \in Setups, [LinkedNext]_allVars PROVE ServerStep
  OBVIOUS
<1>1. CASE Load \/ UNCHANGED allVars
  BY <1>1 DEF Load, allVars, hs, server, poles, linkVars, ServerStep, KeepStep,
     view
<1>2. CASE \E p \in Peers :
             \/ connect_to_server_device(p) \/ connect_fails(p)
             \/ disconnect_server_devices(p) \/ LinkCut(p)
             \/ tgs_device_func(p) \/ sc_device_func(p) \/ ppc_device_func(p)
             \/ price_update(p) \/ ReadLink(p)
  BY <1>2, LinkServerStep
<1>3. CASE \E s \in Slots, u \in Units : PushTank(s, u) \/ PushSensor(s, u)
  BY <1>3, PushKeepStep DEF ServerStep
<1> QED
  BY <1>1, <1>2, <1>3, ProgramServerStep, TankKeepStep, SensorKeepStep,
     PoleKeepStep, OtherKeepStep
  DEF LinkedNext, ServerStep

Values == {0, 1}
States == {"none", "open", "closed", "leaving"}
Results == {"none", "NoError", "Error"}
Questions == {<<"status">>} \cup ({"prices"} \X Price)
Frames == Units \X Values

ClientType ==
    [state : {"Free", "Active", "Destroying"}, peer : Peers \cup {Nobody}, logged : BOOLEAN,
     count : {0, setup.units}, flags : SUBSET Nat, reading : BOOLEAN, sent : SUBSET Nat,
     told : [Units -> Values \cup {Unknown}], missed : SUBSET Nat]
LinkType == [state : States, bound : BOOLEAN, asked : Seq(Questions), frames : Seq(Frames),
             half : {<<>>} \cup Frames]
CommandType == [state : {"Free", "New", "Run", "Complete"}, ask : Nat, result : Results]
FetchedType == [got : BOOLEAN, ask : Nat, result : Results]
AskType == [price : Price, outcome : Results, told : Results \cup {"gone", "refused"}]

ServerTypes ==
    /\ setup \in Setups
    /\ data \in [Units -> Values] /\ count \in {0, setup.units}
    /\ clients \in [Slots -> ClientType]

LinkTypes ==
    /\ links \in [Peers -> LinkType]
    /\ tanks \in [Units -> Values] /\ gauges \in [Units -> Values]
    /\ door \in Values /\ price \in Price

PoleTypes ==
    /\ real \in [Units -> Values]
    /\ commands \in [Slots -> CommandType] /\ fetched \in [Slots -> FetchedType]
    /\ ordered \in Price /\ asks \in Seq(AskType)

Typed == ServerTypes /\ LinkTypes /\ PoleTypes

LEMMA UnitsFacts ==
    setup \in Setups => /\ setup.units \in Nat \ {0} /\ Units = 1 .. setup.units /\ 1 \in Units
                        /\ setup.pss \subseteq Peers /\ setup.others \subseteq Peers
                        /\ Nobody \notin Peers /\ setup.pss \cap setup.others = {}
                        /\ Slots \subseteq Nat
  BY ShapeAssumption DEF Units, Nobody

LEMMA StepSetup == ServerStep => setup' = setup
<1> SUFFICES ASSUME ServerStep PROVE setup' = setup
  OBVIOUS
<1>1. CASE UNCHANGED view
  BY <1>1 DEF view
<1>2. CASE DeviceReads
  BY <1>2 DEF DeviceReads, ReadConfig, ReadStatus, TellStatus
<1>3. CASE TankThread \/ SensorThread
  BY <1>3 DEF TankThread, SensorThread, set_tank_state_from_driver, tell_tank,
       set_sensor_state_from_driver, tell_sensor
<1>4. CASE PoleThread
  BY <1>4 DEF PoleThread, find_ppc_client_command,
     set_ppc_client_command_result,
       set_price_pole_state_from_driver, tell_poles
<1>5. CASE Comes
  BY <1>5 DEF Comes, Accept, server
<1>6. ASSUME NEW s \in Slots, Ends(s) \/ Sends(s) \/ Answers(s) PROVE setup' = setup
  BY <1>6 DEF Ends, Sends, Answers, ReaderEnds, SetDestroying, Destroy, Send,
     ClearFlag, Answer, server
<1> QED
  BY <1>1, <1>2, <1>3, <1>4, <1>5, <1>6 DEF ServerStep, KeepStep

(* The types of a client's slot after each of the steps of a client.       *)
LEMMA FlagTypes ==
    ASSUME NEW c \in ClientType, NEW i \in Nat PROVE Flag(c, i) \in ClientType
  BY DEF Flag, ClientType

LEMMA ToldTypes ==
    ASSUME ServerTypes, NEW c \in ClientType, NEW items
    PROVE  Told(c, items) \in ClientType
<1>1. [u \in Units |-> IF u \in items THEN data[u] ELSE c.told[u]] \in [Units -> Values \cup {Unknown}]
  BY DEF ServerTypes, ClientType
<1> QED
  BY <1>1 DEF Told, ClientType

LEMMA FreeTypes == Free \in ClientType
  BY DEF Free, ClientType, Unknown

LEMMA ClientsTyped ==
    ASSUME ServerTypes, ServerStep PROVE clients' \in [Slots -> ClientType]
<1> USE DEF ServerTypes
<1>1. setup' = setup /\ setup.units \in Nat /\ Units \subseteq Nat
  BY StepSetup, UnitsFacts
<1>2. ASSUME NEW i \in Nat, NEW holders, FlagAll(i, holders) PROVE clients' \in [Slots -> ClientType]
  BY <1>2, FlagTypes DEF FlagAll
<1>3. CASE UNCHANGED view
  BY <1>3 DEF view
<1>4. CASE DeviceReads
  BY <1>4, <1>2 DEF DeviceReads, ReadConfig, ReadStatus, TellStatus
<1>5. CASE TankThread
  <2>1. PICK u \in Units : set_tank_state_from_driver(u) \/ tell_tank(u)
    BY <1>5 DEF TankThread
  <2>2. CASE clients' = [s \in Slots |-> IF Active(s) THEN [clients[s] EXCEPT !.flags = @ \ {0}] ELSE clients[s]]
    <3>1. ASSUME NEW s \in Slots PROVE [clients[s] EXCEPT !.flags = @ \ {0}] \in ClientType
      BY DEF ClientType
    <3> QED
      BY <2>2, <3>1
  <2> QED
    BY <1>2, <2>1, <2>2 DEF set_tank_state_from_driver, tell_tank
<1>6. CASE SensorThread
  BY <1>1, <1>2, <1>6 DEF SensorThread, set_sensor_state_from_driver,
     tell_sensor
<1>7. CASE PoleThread
  BY <1>2, <1>7 DEF PoleThread, find_ppc_client_command,
     set_ppc_client_command_result,
       set_price_pole_state_from_driver, tell_poles
<1>8. CASE Comes
  <2>1. PICK p \in Peers, s \in Slots : 
          clients' = [clients EXCEPT ![s] =
              [Free EXCEPT !.state = "Active", !.peer = p, !.logged = ~filtering, !.count = count,
                           !.flags = IF Kind("ppc") THEN {0, 1} ELSE 0 .. count, !.reading = TRUE]]
    BY <1>8 DEF Comes, Accept
  <2>2. (IF Kind("ppc") THEN {0, 1} ELSE 0 .. count) \in SUBSET Nat /\ (~filtering) \in BOOLEAN
    BY <1>1
  <2>3. [Free EXCEPT !.state = "Active", !.peer = p, !.logged = ~filtering, !.count = count,
                     !.flags = IF Kind("ppc") THEN {0, 1} ELSE 0 .. count, !.reading = TRUE] \in ClientType
    BY <2>2, FreeTypes DEF ClientType
  <2> QED
    BY <2>1, <2>3
<1>9. ASSUME NEW s \in Slots, Ends(s) PROVE clients' \in [Slots -> ClientType]
  <2>1. ASSUME NEW t \in Slots
        PROVE  /\ [clients[t] EXCEPT !.reading = FALSE] \in ClientType
               /\ [clients[t] EXCEPT !.state = "Destroying", !.reading = FALSE] \in ClientType
    BY DEF ClientType
  <2> QED
    BY <1>9, <2>1, FreeTypes DEF Ends, ReaderEnds, SetDestroying, Destroy
<1>10. ASSUME NEW s \in Slots, Sends(s) PROVE clients' \in [Slots -> ClientType]
  <2>1. ASSUME NEW i \in Nat, NEW items, Send(s, i, items) PROVE clients' \in [Slots -> ClientType]
    <3>1. [Told(clients[s], items) EXCEPT !.sent = {i}] \in ClientType
      BY ToldTypes DEF ClientType
    <3> QED
      BY <2>1, <3>1 DEF Send
  <2>2. ASSUME ClearFlag(s) PROVE clients' \in [Slots -> ClientType]
    <3>1. [clients[s] EXCEPT !.sent = {}, !.flags = IF Active(s) THEN @ \ clients[s].sent ELSE @] \in ClientType
      BY DEF ClientType
    <3> QED
      BY <2>2, <3>1 DEF ClearFlag
  <2> QED
    BY <1>1, <1>10, <2>1, <2>2 DEF Sends
<1>11. ASSUME NEW s \in Slots, Answers(s) PROVE clients' \in [Slots -> ClientType]
  <2>1. ASSUME NEW items, Answer(s, items) PROVE clients' \in [Slots -> ClientType]
    <3>1. Told(clients[s], items) \in ClientType
      BY ToldTypes
    <3>2. [Told(clients[s], items) EXCEPT !.logged = TRUE] \in ClientType
      BY <3>1 DEF ClientType
    <3> QED
      BY <2>1, <3>2 DEF Answer
  <2> QED
    BY <1>11, <2>1 DEF Answers
<1> QED
  BY <1>3, <1>4, <1>5, <1>6, <1>7, <1>8, <1>9, <1>10, <1>11 DEF ServerStep,
     KeepStep

LEMMA DataTyped ==
    ASSUME Typed, ServerStep PROVE data' \in [Units -> Values] /\ count' \in {0, setup.units}
<1> USE DEF Typed, ServerTypes, PoleTypes, Values
<1>1. CASE UNCHANGED view
  BY <1>1 DEF view
<1>2. CASE DeviceReads
  BY <1>2 DEF DeviceReads, ReadConfig, ReadStatus, TellStatus
<1>3. CASE TankThread \/ SensorThread
  BY <1>3 DEF TankThread, SensorThread, set_tank_state_from_driver, tell_tank,
       set_sensor_state_from_driver, tell_sensor, set_tgs_tank_data, set_sc_sensor_data
<1>4. CASE PoleThread
  BY <1>4 DEF PoleThread, find_ppc_client_command,
     set_ppc_client_command_result,
       set_price_pole_state_from_driver, set_ppc_price_pole_data, tell_poles
<1>5. CASE Comes
  BY <1>5 DEF Comes, Accept, server
<1>6. ASSUME NEW s \in Slots, Ends(s) \/ Sends(s) \/ Answers(s) PROVE data' = data /\ count' = count
  BY <1>6 DEF Ends, Sends, Answers, ReaderEnds, SetDestroying, Destroy, Send,
     ClearFlag, Answer, server
<1> QED
  BY <1>1, <1>2, <1>3, <1>4, <1>5, <1>6 DEF ServerStep, KeepStep

LEMMA ServerTypesStep == Typed /\ ServerStep => ServerTypes'
<1> SUFFICES ASSUME Typed, ServerStep PROVE ServerTypes'
  OBVIOUS
<1>1. setup' = setup /\ clients' \in [Slots -> ClientType]
  BY StepSetup, ClientsTyped DEF Typed
<1>2. data' \in [Units -> Values] /\ count' \in {0, setup.units}
  BY DataTyped
<1>3. ClientType' = ClientType /\ Units' = Units
  BY <1>1 DEF ClientType, Units
<1> QED
  BY <1>1, <1>2, <1>3 DEF Typed, ServerTypes

(* What the steps do to the commands of the price poles.                   *)
priced == <<commands, fetched, ordered, asks>>

PoleStep ==
    \/ UNCHANGED priced /\ (place' = place \/ place'[1] # "run")
    \/ find_ppc_client_command
    \/ \E s \in Slots, k \in Asks : set_ppc_client_command_result(s, k)
    \/ \E s \in Slots : \/ get_ppc_client_command_result(s) \/ clear_ppc_client_command(s)
                        \/ Kind("ppc") /\ destroy_ppc_client(s)
    \/ \E s \in Slots, guid \in BOOLEAN, v \in Price, permitted \in BOOLEAN :
          PPSetPrices(s, guid, v, permitted)

LEMMA AsksFor ==
    ASSUME Typed, NEW p \in Peers, links[p].asked # <<>>, Head(links[p].asked)[1] # "status"
    PROVE  Head(links[p].asked) \in {"prices"} \X Price
<1>1. Head(links[p].asked) \in Questions
  BY DEF Typed, LinkTypes, LinkType
<1> QED
  BY <1>1 DEF Questions

LEMMA AcceptPoles ==
    ASSUME NEW p \in Peers, AcceptPeer(p) PROVE UNCHANGED <<real, server, poles>>
  BY DEF AcceptPeer, tgs_main_socket_thread_func, sc_main_socket_thread_func,
         ppc_main_socket_thread_func, set_new_tgs_client_param, set_new_sc_client_param,
         set_new_ppc_client_param, Accept, poles

LEMMA LinkPoleStep ==
    ASSUME Typed, NEW p \in Peers,
           \/ connect_to_server_device(p) \/ connect_fails(p)
           \/ disconnect_server_devices(p) \/ LinkCut(p)
           \/ tgs_device_func(p) \/ sc_device_func(p) \/ ppc_device_func(p)
           \/ price_update(p) \/ ReadLink(p)
    PROVE  PoleStep /\ real' = real
<1>1. CASE connect_to_server_device(p)
  BY <1>1, AcceptPoles DEF connect_to_server_device, PoleStep, priced, server,
     poles
<1>2. CASE connect_fails(p) \/ disconnect_server_devices(p) \/ price_update(p)
  BY <1>2 DEF connect_fails, disconnect_server_devices, price_update, PoleStep,
     priced, hs, server, poles
<1>3. CASE LinkCut(p)
  BY <1>3 DEF LinkCut, ReaderEnds, PoleStep, priced, server, poles
<1>4. CASE RecvReturnsNothing(p)
  <2>1. CASE LinkCloses(p)
    BY <2>1 DEF LinkCloses, PoleStep, priced, hs, server, poles
  <2>2. CASE reconnect_to_server_device(p)
    BY <2>2, AcceptPoles DEF reconnect_to_server_device, PoleStep, priced,
       server, poles
  <2>3. CASE ThreadEnds(p)
    BY <2>3 DEF ThreadEnds, ReaderEnds, PoleStep, priced, server, poles
  <2> QED
    BY <1>4, <2>1, <2>2, <2>3 DEF RecvReturnsNothing
<1>5. CASE ParseTankDataFrame(p) \/ set_gauge_state(p) \/ ParseSensorDataFrame(p)
  BY <1>5 DEF ParseTankDataFrame, set_gauge_state, ParseSensorDataFrame,
     PoleStep, priced, hs, server, poles
<1>6. CASE ReadLink(p)
  <2>1. PICK s \in Slots :
          IF Head(links[p].asked)[1] = "status" THEN Login(s, TRUE) /\ Answer(s, {0}) /\ UNCHANGED poles
          ELSE PPSetPrices(s, FALSE, Head(links[p].asked)[2], TRUE)
    BY <1>6 DEF ReadLink, SlotsOf
  <2>2. CASE Head(links[p].asked)[1] = "status"
    BY <2>1, <2>2 DEF Answer, PoleStep, priced, server, poles
  <2>3. CASE Head(links[p].asked)[1] # "status"
    <3>1. Head(links[p].asked)[2] \in Price
      BY <1>6, <2>3, AsksFor DEF ReadLink
    <3>2. PoleStep
      BY <2>1, <2>3, <3>1 DEF PoleStep
    <3> QED
      BY <2>1, <2>3, <3>2 DEF PPSetPrices, Answer
  <2> QED
    BY <2>2, <2>3
<1> QED
  BY <1>1, <1>2, <1>3, <1>4, <1>5, <1>6
  DEF tgs_device_func, sc_device_func, ppc_device_func, ParseTGSFrame, ParseTGSDataFrame,
      ParseSCFrame, ParseSCDataFrame

LEMMA ProgramPoleStep == setup \in Setups /\ Program => PoleStep /\ real' = real
<1> SUFFICES ASSUME setup \in Setups, Program PROVE PoleStep /\ real' = real
  OBVIOUS
<1>1. CASE \E p \in setup.others : AcceptPeer(p)
  BY <1>1, AcceptPoles, UnitsFacts DEF PoleStep, priced, server, poles
<1>2. ASSUME NEW s \in Slots, NEW guid \in BOOLEAN,
             \/ Kind("tgs") /\ tgs_device_client_read_thread_func(s, guid) /\ UNCHANGED poles
             \/ Kind("sc") /\ sc_device_client_read_thread_func(s, guid) /\ UNCHANGED poles
             \/ Kind("ppc") /\ ppc_device_client_read_thread_func(s, guid)
      PROVE  PoleStep /\ real' = real
  BY <1>2 DEF tgs_device_client_read_thread_func,
     sc_device_client_read_thread_func,
       ppc_device_client_read_thread_func, Answer, PoleStep, priced, server, poles
<1>3. ASSUME NEW s \in Slots, NEW guid \in BOOLEAN,
             \E v \in Price, permitted \in BOOLEAN : PPSetPrices(s, guid, v, permitted)
      PROVE  PoleStep /\ real' = real
  <2>1. PoleStep
    BY <1>3 DEF PoleStep
  <2> QED
    BY <1>3, <2>1 DEF PPSetPrices, Answer
<1>4. \/ \E p \in setup.others : AcceptPeer(p)
      \/ \E s \in Slots, guid \in BOOLEAN :
            \/ Kind("tgs") /\ tgs_device_client_read_thread_func(s, guid) /\ UNCHANGED poles
            \/ Kind("sc") /\ sc_device_client_read_thread_func(s, guid) /\ UNCHANGED poles
            \/ Kind("ppc") /\ ppc_device_client_read_thread_func(s, guid)
            \/ \E v \in Price, permitted \in BOOLEAN : PPSetPrices(s, guid, v, permitted)
  BY DEF Program, SlotsOf
<1> QED
  BY <1>1, <1>2, <1>3, <1>4

LEMMA PushPoleStep ==
    ASSUME NEW s \in Slots, NEW u \in Units, PushTank(s, u) \/ PushSensor(s, u)
    PROVE  PoleStep /\ real' = real
  BY DEF PushTank, PushSensor, Push, send_tgs_device_data_message,
     send_sc_device_data_message,
         Send, PoleStep, priced, server, poles

(* The units change, and price poles show what they were given.            *)
RealStep == \/ real' = real
            \/ \E u \in Units : real' = [real EXCEPT ![u] = 1 - @]
            \/ \E u \in Units : real' = [real EXCEPT ![u] = ordered]

LEMMA TankPoleStep == TankServer => PoleStep /\ RealStep
<1> SUFFICES ASSUME TankServer PROVE PoleStep /\ RealStep
  OBVIOUS
<1>1. UNCHANGED priced
  BY DEF TankServer, poles, priced
<1>2. CASE TankMoves
  BY <1>1, <1>2 DEF TankMoves, UnitMoves, PoleStep, RealStep
<1>3. CASE tgs_device_thread_func
  BY <1>1, <1>3 DEF tgs_device_thread_func, set_tank_config_from_driver,
     ReadConfig, ReadStatus,
       FirstUnit, NextUnit, set_tank_state_from_driver, tell_tank, TellStatus,
       set_tgs_device_status_from_driver, PoleStep, RealStep
<1>4. ASSUME NEW s \in Slots, tgs_device_client_thread_func(s) \/ Send(s, 0, {0})
      PROVE  PoleStep /\ RealStep
  BY <1>1, <1>4 DEF tgs_device_client_thread_func, destroy_tgs_client, Send,
     ClearFlag, Destroy,
       server, PoleStep, RealStep
<1> QED
  BY <1>2, <1>3, <1>4 DEF TankServer

LEMMA SensorPoleStep == SensorServer => PoleStep /\ RealStep
<1> SUFFICES ASSUME SensorServer PROVE PoleStep /\ RealStep
  OBVIOUS
<1>1. UNCHANGED priced
  BY DEF SensorServer, poles, priced
<1>2. CASE SensorMoves
  BY <1>1, <1>2 DEF SensorMoves, UnitMoves, PoleStep, RealStep
<1>3. CASE sensor_controller_device_thread_func
  BY <1>1, <1>3 DEF sensor_controller_device_thread_func,
     set_sensor_config_from_driver, ReadConfig,
       ReadStatus, FirstUnit, NextUnit, set_sensor_state_from_driver, tell_sensor, TellStatus,
       set_sc_device_status_from_driver, PoleStep, RealStep
<1>4. ASSUME NEW s \in Slots, sc_device_client_thread_func(s) \/ Send(s, 0, {0})
      PROVE  PoleStep /\ RealStep
  BY <1>1, <1>4 DEF sc_device_client_thread_func, destroy_sc_client, Send,
     ClearFlag, Destroy,
       server, PoleStep, RealStep
<1> QED
  BY <1>2, <1>3, <1>4 DEF SensorServer

LEMMA PolePoleStep == PoleServer => PoleStep /\ RealStep
<1> SUFFICES ASSUME PoleServer PROVE PoleStep /\ RealStep
  OBVIOUS
<1>1. CASE PoleShows
  BY <1>1 DEF PoleShows, PoleStep, priced, RealStep, server, poles
<1>2. CASE ppc_device_thread_func
  <2>1. CASE \/ set_price_pole_config_from_driver \/ set_ppc_device_status_from_driver
             \/ TellStatus /\ UNCHANGED poles
    BY <2>1 DEF set_price_pole_config_from_driver,
       set_ppc_device_status_from_driver, ReadConfig,
         ReadStatus, TellStatus, PoleStep, priced, RealStep, poles
  <2>2. CASE find_ppc_client_command
    BY <2>2 DEF find_ppc_client_command, PoleStep, RealStep
  <2>3. CASE \E s \in Slots, k \in Asks : set_ppc_client_command_result(s, k)
    BY <2>3 DEF set_ppc_client_command_result, PoleStep, RealStep
  <2>4. CASE tell_poles \/ \E u \in Units : set_price_pole_state_from_driver(u)
    BY <2>4 DEF tell_poles, set_price_pole_state_from_driver, PoleStep, priced,
       RealStep, poles
  <2> QED
    BY <1>2, <2>1, <2>2, <2>3, <2>4 DEF ppc_device_thread_func
<1>3. ASSUME NEW s \in Slots, ppc_device_client_thread_func(s) PROVE PoleStep /\ RealStep
  <2>1. CASE get_ppc_client_command_result(s) \/ clear_ppc_client_command(s)
    BY <2>1 DEF get_ppc_client_command_result, clear_ppc_client_command,
       PoleStep, RealStep
  <2>2. CASE ClearFlag(s) /\ UNCHANGED poles
    BY <2>2 DEF ClearFlag, server, PoleStep, priced, RealStep, poles
  <2>3. CASE destroy_ppc_client(s)
    BY <2>3 DEF destroy_ppc_client, Destroy, PoleStep, RealStep, PoleServer
  <2> QED
    BY <1>3, <2>1, <2>2, <2>3 DEF ppc_device_client_thread_func
<1>4. ASSUME NEW s \in Slots, send_ppc_device_status_message(s) \/ send_ppc_device_data_message(s)
      PROVE  PoleStep /\ RealStep
  BY <1>4 DEF send_ppc_device_status_message, send_ppc_device_data_message,
     Send, server, PoleStep,
       priced, RealStep, poles
<1> QED
  BY <1>1, <1>2, <1>3, <1>4 DEF PoleServer

LEMMA NextPoleStep == Typed /\ [LinkedNext]_allVars => PoleStep /\ RealStep
<1> SUFFICES ASSUME Typed, [LinkedNext]_allVars PROVE PoleStep /\ RealStep
  OBVIOUS
<1>1. CASE Load \/ UNCHANGED allVars
  BY <1>1 DEF Load, allVars, hs, server, poles, linkVars, PoleStep, priced,
     RealStep
<1>2. CASE OtherStops
  BY <1>2 DEF OtherStops, set_tgs_clients_status_is_destroying,
     set_sc_clients_status_is_destroying,
       set_ppc_clients_status_is_destroying, SetDestroying, server, poles, PoleStep, priced, RealStep
<1>3. CASE \E p \in Peers :
             \/ connect_to_server_device(p) \/ connect_fails(p)
             \/ disconnect_server_devices(p) \/ LinkCut(p)
             \/ tgs_device_func(p) \/ sc_device_func(p) \/ ppc_device_func(p)
             \/ price_update(p) \/ ReadLink(p)
  BY <1>3, LinkPoleStep DEF RealStep
<1>4. CASE \E s \in Slots, u \in Units : PushTank(s, u) \/ PushSensor(s, u)
  BY <1>4, PushPoleStep DEF RealStep
<1>5. CASE Program
  BY <1>5, ProgramPoleStep DEF RealStep, Typed, ServerTypes
<1> QED
  BY <1>1, <1>2, <1>3, <1>4, <1>5, TankPoleStep, SensorPoleStep, PolePoleStep
     DEF LinkedNext

LEMMA PoleTypesStep == Typed /\ setup' = setup /\ PoleStep /\ RealStep => PoleTypes'
<1> SUFFICES ASSUME Typed, setup' = setup, PoleStep, RealStep PROVE PoleTypes'
  OBVIOUS
<1> USE DEF Typed, PoleTypes
<1>1. Units' = Units
  BY DEF Units
<1>2. real' \in [Units -> Values]
  BY DEF RealStep, Values, Price
<1>3. /\ commands' \in [Slots -> CommandType] /\ fetched' \in [Slots -> FetchedType]
      /\ ordered' \in Price /\ asks' \in Seq(AskType)
  <2>1. CASE UNCHANGED priced
    BY <2>1 DEF priced
  <2>2. CASE find_ppc_client_command
    BY <2>2 DEF find_ppc_client_command, CommandType
  <2>3. ASSUME NEW s \in Slots, NEW k \in Asks, set_ppc_client_command_result(s, k)
        PROVE  /\ commands' \in [Slots -> CommandType] /\ fetched' \in [Slots -> FetchedType]
               /\ ordered' \in Price /\ asks' \in Seq(AskType)
    <3>1. PICK result \in {"NoError", "Error"} :
            /\ ordered' = IF result = "NoError" THEN asks[k].price ELSE ordered
            /\ asks' = [asks EXCEPT ![k].outcome = result]
            /\ commands' = [commands EXCEPT ![s].result = result, ![s].state = "Complete"]
      BY <2>3 DEF set_ppc_client_command_result
    <3>2. asks[k] \in AskType
      BY DEF Asks
    <3>5. [asks[k] EXCEPT !.outcome = result] \in AskType
      BY <3>2 DEF AskType, Results
    <3>3. asks' \in Seq(AskType)
      BY <3>1, <3>5 DEF Asks
    <3>4. commands' \in [Slots -> CommandType]
      BY <3>1 DEF CommandType, Results
    <3> QED
      BY <2>3, <3>1, <3>2, <3>3, <3>4 DEF set_ppc_client_command_result,
         AskType
  <2>4. ASSUME NEW s \in Slots, get_ppc_client_command_result(s)
        PROVE  /\ commands' \in [Slots -> CommandType] /\ fetched' \in [Slots -> FetchedType]
               /\ ordered' \in Price /\ asks' \in Seq(AskType)
    BY <2>4 DEF get_ppc_client_command_result, CommandType, FetchedType
  <2>5. ASSUME NEW k, NEW t \in Results \cup {"gone"}
        PROVE  [asks EXCEPT ![k].told = t] \in Seq(AskType)
    <3>1. CASE k \in Asks
      <4>1. asks[k] \in AskType
        BY <3>1 DEF Asks
      <4>2. [asks[k] EXCEPT !.told = t] \in AskType
        BY <4>1 DEF AskType
      <4> QED
        BY <4>2, <3>1 DEF Asks
    <3>2. CASE k \notin Asks
      <4>1. asks \in [1 .. Len(asks) -> AskType] /\ DOMAIN asks = 1 .. Len(asks)
        OBVIOUS
      <4>2. [asks EXCEPT ![k].told = t] = asks
        BY <4>1, <3>2 DEF Asks
      <4> QED
        BY <4>2
    <3> QED
      BY <3>1, <3>2
  <2>6. NoCommand \in CommandType /\ Nothing \in FetchedType
    BY DEF NoCommand, Nothing, CommandType, FetchedType, Results
  <2>7. ASSUME NEW s \in Slots, clear_ppc_client_command(s)
        PROVE  /\ commands' \in [Slots -> CommandType] /\ fetched' \in [Slots -> FetchedType]
               /\ ordered' \in Price /\ asks' \in Seq(AskType)
    <3>1. fetched[s].result \in Results
      BY DEF FetchedType
    <3>2. asks' \in Seq(AskType)
      BY <2>5, <2>7, <3>1 DEF clear_ppc_client_command
    <3> QED
      BY <2>6, <2>7, <3>2 DEF clear_ppc_client_command
  <2>8. ASSUME NEW s \in Slots, destroy_ppc_client(s)
        PROVE  /\ commands' \in [Slots -> CommandType] /\ fetched' \in [Slots -> FetchedType]
               /\ ordered' \in Price /\ asks' \in Seq(AskType)
    BY <2>5, <2>6, <2>8 DEF destroy_ppc_client
  <2>9. ASSUME NEW s \in Slots, NEW guid \in BOOLEAN, NEW v \in Price, NEW permitted \in BOOLEAN,
               PPSetPrices(s, guid, v, permitted)
        PROVE  /\ commands' \in [Slots -> CommandType] /\ fetched' \in [Slots -> FetchedType]
               /\ ordered' \in Price /\ asks' \in Seq(AskType)
    <3>1. NewAsk(v, "none") \in AskType /\ NewAsk(v, "refused") \in AskType
      BY DEF NewAsk, AskType, Results
    <3>2. asks' \in Seq(AskType)
      BY <2>9, <3>1 DEF PPSetPrices
    <3>3. [state |-> "New", ask |-> Len(asks) + 1, result |-> "none"] \in CommandType
      BY DEF CommandType, Results
    <3> QED
      BY <2>9, <3>2, <3>3 DEF PPSetPrices
  <2> QED
    BY <2>1, <2>2, <2>3, <2>4, <2>7, <2>8, <2>9 DEF PoleStep
<1> QED
  BY <1>1, <1>2, <1>3

LEMMA LinkTypesStep == Typed /\ setup' = setup /\ [LinkedNext]_allVars => LinkTypes'
<1> SUFFICES ASSUME Typed, setup' = setup, [LinkedNext]_allVars PROVE LinkTypes'
  OBVIOUS
<1> USE DEF Typed, LinkTypes
<1>0. Units' = Units /\ LinkType' = LinkType
  BY DEF Units, LinkType, Frames
<1>1. <<>> \in Seq(Frames) /\ <<>> \in Seq(Questions) /\ <<<<"status">>>> \in Seq(Questions)
  BY DEF Questions
<1>2. NoLink \in LinkType
  BY <1>1 DEF NoLink, LinkType, States
<1>3. CASE UNCHANGED <<links, forecourt>>
  BY <1>0, <1>3 DEF forecourt
<1>4. ASSUME NEW p \in Peers,
             \/ connect_to_server_device(p) \/ connect_fails(p)
             \/ disconnect_server_devices(p) \/ LinkCut(p) \/ RecvReturnsNothing(p) \/ ReadLink(p)
      PROVE  LinkTypes'
  <2>1. UNCHANGED forecourt
    BY <1>4 DEF connect_to_server_device, connect_fails,
       disconnect_server_devices, LinkCut,
         RecvReturnsNothing, LinkCloses, reconnect_to_server_device, ThreadEnds, ReadLink
  <2>2. links' \in [Peers -> LinkType]
    <3>1. CASE connect_to_server_device(p)
      <4>1. [NoLink EXCEPT !.state = "open", !.bound = TRUE, !.asked = <<<<"status">>>>] \in LinkType
        BY <1>1, <1>2 DEF LinkType, States
      <4> QED
        BY <3>1, <4>1 DEF connect_to_server_device
    <3>2. CASE connect_fails(p) \/ disconnect_server_devices(p)
      <4>1. /\ [links[p] EXCEPT !.state = "closed"] \in LinkType
            /\ [links[p] EXCEPT !.state = "leaving", !.bound = FALSE] \in LinkType
        BY DEF LinkType, States
      <4> QED
        BY <3>2, <4>1, <1>2 DEF connect_fails, disconnect_server_devices
    <3>3. CASE LinkCut(p)
      BY <3>3, <1>1 DEF LinkCut, LinkType
    <3>4. CASE RecvReturnsNothing(p)
      <4>1. [NoLink EXCEPT !.state = "open"] \in LinkType /\ [NoLink EXCEPT !.state = "closed"] \in LinkType
        BY <1>2 DEF LinkType, States
      <4> QED
        BY <3>4, <4>1, <1>2 DEF RecvReturnsNothing, LinkCloses,
           reconnect_to_server_device, ThreadEnds
    <3>5. CASE ReadLink(p)
      <4>1. links[p].asked # <<>> /\ links[p].asked \in Seq(Questions)
        BY <3>5 DEF ReadLink, LinkType
      <4>2. Tail(links[p].asked) \in Seq(Questions)
        BY <4>1
      <4>3. [links[p] EXCEPT !.asked = Tail(@)] \in LinkType
        BY <4>2 DEF LinkType
      <4> QED
        BY <3>5, <4>3 DEF ReadLink
    <3> QED
      BY <1>4, <3>1, <3>2, <3>3, <3>4, <3>5
  <2> QED
    BY <1>0, <2>1, <2>2 DEF forecourt
<1>5. ASSUME NEW p \in Peers, ParseTankDataFrame(p) \/ ParseSensorDataFrame(p)
      PROVE  LinkTypes'
  <2>1. links[p].frames # <<>> /\ links[p].frames \in Seq(Frames)
    BY <1>5 DEF ParseTankDataFrame, ParseSensorDataFrame, LinkType
  <2>2. Head(links[p].frames) \in Frames /\ Tail(links[p].frames) \in Seq(Frames)
    BY <2>1
  <2>3. /\ [links[p] EXCEPT !.frames = Tail(@)] \in LinkType
        /\ [links[p] EXCEPT !.frames = Tail(@), !.half = Head(links[p].frames)] \in LinkType
    BY <2>2 DEF LinkType
  <2>4. links' \in [Peers -> LinkType]
    BY <1>5, <2>3 DEF ParseTankDataFrame, ParseSensorDataFrame
  <2>5. Head(links[p].frames)[1] \in Units /\ Head(links[p].frames)[2] \in Values
    BY <2>2 DEF Frames
  <2>6. /\ tanks' \in [Units -> Values] /\ gauges' \in [Units -> Values]
        /\ door' \in Values /\ price' \in Price
    BY <1>5, <2>5 DEF ParseTankDataFrame, ParseSensorDataFrame
  <2> QED
    BY <1>0, <2>4, <2>6
<1>6. ASSUME NEW p \in Peers, set_gauge_state(p) PROVE LinkTypes'
  <2>1. links[p].half[1] \in Units /\ links[p].half[2] \in Values
    BY <1>6 DEF set_gauge_state, LinkType, Frames
  <2>2. [links[p] EXCEPT !.half = <<>>] \in LinkType
    BY DEF LinkType
  <2> QED
    BY <1>0, <1>6, <2>1, <2>2 DEF set_gauge_state
<1>7. ASSUME NEW p \in Peers, price_update(p) PROVE LinkTypes'
  <2>1. links[p].asked \in Seq(Questions) /\ <<"prices", price'>> \in Questions
    BY <1>7 DEF price_update, Questions, LinkType
  <2>2. Append(links[p].asked, <<"prices", price'>>) \in Seq(Questions)
    BY <2>1
  <2>3. [links[p] EXCEPT !.asked = Append(@, <<"prices", price'>>)] \in LinkType
    BY <2>2 DEF LinkType
  <2> QED
    BY <1>0, <1>7, <2>3 DEF price_update
<1>8. ASSUME NEW s \in Slots, NEW u \in Units, PushTank(s, u) \/ PushSensor(s, u)
      PROVE  LinkTypes'
  <2>1. /\ UNCHANGED forecourt
        /\ \/ links' = links
           \/ IsLink(clients[s].peer)
              /\ links' = [links EXCEPT ![clients[s].peer].frames = Append(@, <<u, data[u]>>)]
    BY <1>8 DEF PushTank, PushSensor, Push
  <2>2. ASSUME NEW p \in Peers PROVE [links[p] EXCEPT !.frames = Append(@, <<u, data[u]>>)] \in LinkType
    <3>1. links[p].frames \in Seq(Frames) /\ <<u, data[u]>> \in Frames
      BY DEF LinkType, Frames, ServerTypes
    <3>2. Append(links[p].frames, <<u, data[u]>>) \in Seq(Frames)
      BY <3>1
    <3> QED
      BY <3>2 DEF LinkType
  <2>3. IsLink(clients[s].peer) => clients[s].peer \in Peers
    BY UnitsFacts DEF IsLink, ServerTypes
  <2>4. links' \in [Peers -> LinkType]
    BY <2>1, <2>2, <2>3
  <2> QED
    BY <1>0, <2>1, <2>4 DEF forecourt
<1> QED
  <2>1. CASE Load \/ UNCHANGED allVars \/ Program \/ TankServer \/ SensorServer \/ PoleServer \/ OtherStops
    BY <2>1, <1>3 DEF Load, allVars, linkVars, Program, TankServer,
       SensorServer, PoleServer, OtherStops
  <2> QED
    BY <2>1, <1>4, <1>5, <1>6, <1>7, <1>8
    DEF LinkedNext, tgs_device_func, sc_device_func, ppc_device_func, ParseTGSFrame,
        ParseTGSDataFrame, ParseSCFrame, ParseSCDataFrame

LEMMA TypesStep == Typed /\ [LinkedNext]_allVars => Typed'
<1> SUFFICES ASSUME Typed, [LinkedNext]_allVars PROVE Typed'
  OBVIOUS
<1>1. ServerStep
  BY NextServerStep DEF Typed, ServerTypes
<1>2. setup' = setup
  BY <1>1, StepSetup
<1>3. ServerTypes'
  BY <1>1, ServerTypesStep
<1>4. LinkTypes'
  BY <1>2, LinkTypesStep
<1>5. PoleTypes'
  BY <1>2, NextPoleStep, PoleTypesStep
<1> QED
  BY <1>3, <1>4, <1>5 DEF Typed

LEMMA TypesInit == LinkedInit => Typed
<1> SUFFICES ASSUME LinkedInit PROVE Typed
  OBVIOUS
<1> USE DEF LinkedInit, DeviceInit, PolesInit, LinksInit, Values
<1>1. ServerTypes
  <2>1. [s \in Slots |-> Free] \in [Slots -> ClientType]
    BY FreeTypes
  <2> QED
    BY <2>1 DEF ServerTypes
<1>2. NoLink \in LinkType
  <2>1. <<>> \in Seq(Frames) /\ <<>> \in Seq(Questions)
    OBVIOUS
  <2> QED
    BY <2>1 DEF NoLink, LinkType, States
<1>3. LinkTypes
  BY <1>2 DEF LinkTypes, Price
<1>4. NoCommand \in CommandType /\ Nothing \in FetchedType
  BY DEF NoCommand, Nothing, CommandType, FetchedType, Results
<1>5. PoleTypes
  BY <1>4 DEF PoleTypes, Price
<1> QED
  BY <1>1, <1>3, <1>5 DEF Typed

-----------------------------------------------------------------------------
(* 3. Every change reaches every client of the server (ClientsTold).       *)

(* Until a driver names units the data are those of none; that is why the  *)
(* data that are reset with the configuration have not changed.            *)
Places ==
    /\ place[1] = "load" => count = 0
    /\ place[1] = "read" => count > 0
    /\ count = 0 => \A u \in Units : data[u] = 0

(* A client has been told of an item that does not wait for it, and one    *)
(* whose flag is about to be cleared knows the item.                       *)
Heard(s, u, i) ==
    Active(s) /\ i \notin changed =>
        /\ i \in clients[s].flags \/ Knows(s, u, i)
        /\ i \in clients[s].sent => Knows(s, u, i)

\* The item a client is to be told unit u with.
Due(s, u, i) == \/ Kind("sc") /\ u <= clients[s].count /\ i = u
                \/ Kind("ppc") /\ ~masked /\ i = 1

AllHeard == \A s \in Slots, u, i \in Units : Due(s, u, i) => Heard(s, u, i)

LEMMA PlacesStep == Typed /\ Places /\ ServerStep => Places'
<1> SUFFICES ASSUME Typed, Places, ServerStep PROVE Places'
  OBVIOUS
<1> USE DEF Places
<1>0. Units' = Units /\ setup.units \in Nat /\ count \in Nat /\ 1 \in Units
  BY StepSetup, UnitsFacts DEF Typed, ServerTypes, Units
<1>1. CASE UNCHANGED <<data, count, place>>
  BY <1>0, <1>1
<1>2. CASE DeviceReads
  <2>1. CASE ReadConfig
    BY <1>0, <2>1 DEF ReadConfig
  <2>2. CASE TellStatus
    BY <1>0, <2>2 DEF TellStatus
  <2>3. CASE ReadStatus(FirstUnit) \/ ReadStatus(<<"find", 0>>)
    BY <1>0, <2>3 DEF ReadStatus, FirstUnit
  <2> QED
    BY <1>2, <2>1, <2>2, <2>3 DEF DeviceReads
<1>3. ASSUME NEW u \in Units, \/ set_tank_state_from_driver(u) \/ tell_tank(u)
                                \/ set_sensor_state_from_driver(u) \/ tell_sensor(u)
      PROVE  Places'
  <2>1. u > 0 /\ u \in Nat
    BY UnitsFacts DEF Typed, ServerTypes
  <2>2. CASE set_tank_state_from_driver(u) \/ set_sensor_state_from_driver(u)
    BY <1>0, <2>2 DEF set_tank_state_from_driver, set_sensor_state_from_driver
  <2>3. CASE tell_tank(u) \/ tell_sensor(u)
    BY <1>0, <2>1, <2>3 DEF tell_tank, tell_sensor, NextUnit
  <2> QED
    BY <1>3, <2>2, <2>3
<1>5. CASE PoleThread
  <2>1. CASE find_ppc_client_command
    BY <1>0, <2>1 DEF find_ppc_client_command, FirstUnit
  <2>2. CASE \E s \in Slots, k \in Asks : set_ppc_client_command_result(s, k)
    BY <1>0, <2>2 DEF set_ppc_client_command_result, FirstUnit
  <2>3. CASE tell_poles
    BY <1>0, <2>3 DEF tell_poles
  <2>4. CASE \E u \in Units : set_price_pole_state_from_driver(u)
    BY <1>0, <2>4 DEF set_price_pole_state_from_driver
  <2> QED
    BY <1>5, <2>1, <2>2, <2>3, <2>4 DEF PoleThread
<1>6. CASE Comes
  BY <1>1, <1>6 DEF Comes, Accept, server
<1>7. ASSUME NEW s \in Slots, Ends(s) \/ Sends(s) \/ Answers(s) PROVE Places'
  BY <1>1, <1>7 DEF Ends, Sends, Answers, ReaderEnds, SetDestroying, Destroy,
     Send, ClearFlag, Answer, server
<1> QED
  BY <1>1, <1>2, <1>3, <1>5, <1>6, <1>7 DEF ServerStep, KeepStep, view,
     TankThread, SensorThread

(* An item is flagged for the clients that hold it: they hear of it, or    *)
(* have just been sent it and miss it.                                     *)
LEMMA FlaggedHeard ==
    ASSUME Typed, UNCHANGED <<setup, data>>, NEW s \in Slots, NEW u \in Units, NEW i \in Nat,
           NEW j \in Nat, NEW holders \in SUBSET Slots, Active(s)' => s \in holders \/ i # j,
           FlagAll(j, holders), changed' = changed \ {j}, Heard(s, u, i)
    PROVE  Heard(s, u, i)'
<1>1. clients[s] \in ClientType
  BY DEF Typed, ServerTypes
<1>2. CASE Active(s) /\ s \in holders
  <2>1. clients'[s] = Flag(clients[s], j)
    BY <1>2 DEF FlagAll
  <2>2. /\ Active(s) /\ clients'[s].flags = clients[s].flags \cup {j} /\ clients'[s].sent = clients[s].sent
        /\ clients'[s].told = clients[s].told
        /\ clients'[s].missed = clients[s].missed \cup (clients[s].sent \cap {j})
    BY <1>1, <1>2, <2>1 DEF Flag, ClientType, Active
  <2> QED
    BY <2>2 DEF Heard, Knows
<1>3. CASE ~(Active(s) /\ s \in holders)
  <2>1. clients'[s] = clients[s]
    BY <1>3 DEF FlagAll
  <2> QED
    BY <1>3, <2>1 DEF Heard, Knows, Active
<1> QED
  BY <1>2, <1>3

LEMMA DeviceHeard ==
    Typed /\ Places /\ AllHeard /\ DeviceReads => AllHeard'
<1> SUFFICES ASSUME Typed, Places, AllHeard, DeviceReads,
                    NEW s \in Slots, NEW u \in Units', NEW i \in Units', Due(s, u, i)'
             PROVE  Heard(s, u, i)'
  BY DEF AllHeard
<1>1. /\ setup' = setup /\ masked' = masked /\ Units' = Units /\ i \in Nat /\ i # 0 /\ 0 \in Nat
  <2>1. setup' = setup /\ masked' = masked
    BY DEF DeviceReads, ReadConfig, ReadStatus, TellStatus
  <2> QED
    BY <2>1, UnitsFacts DEF Units, Typed, ServerTypes
<1>2. clients'[s].count = clients[s].count
  <2>1. CASE clients' = clients
    BY <2>1
  <2>2. CASE FlagAll(0, Slots)
    <3>1. clients[s] \in ClientType
      BY DEF Typed, ServerTypes
    <3> QED
      BY <2>2, <3>1 DEF FlagAll, Flag, ClientType
  <2> QED
    BY <2>1, <2>2 DEF DeviceReads, ReadConfig, ReadStatus, TellStatus
<1>3. Heard(s, u, i)
  BY <1>1, <1>2 DEF AllHeard, Due, Kind
<1>4. CASE ReadConfig
  <2>1. data'[u] = data[u]
    BY <1>1, <1>4 DEF ReadConfig, Places, Typed, ServerTypes
  <2> QED
    BY <1>3, <1>4, <2>1 DEF ReadConfig, Heard, Knows, Active
<1>5. CASE \E first : ReadStatus(first)
  BY <1>1, <1>3, <1>5 DEF ReadStatus, Heard, Knows, Active
<1>6. CASE TellStatus
  <2>1. CASE 0 \in changed
    BY <1>1, <1>3, <1>6, <2>1, FlaggedHeard DEF TellStatus
  <2>2. CASE 0 \notin changed
    BY <1>1, <1>3, <1>6, <2>2 DEF TellStatus, Heard, Knows, Active
  <2> QED
    BY <2>1, <2>2
<1> QED
  BY <1>4, <1>5, <1>6 DEF DeviceReads

LEMMA SensorHeard ==
    Typed /\ AllHeard /\ SensorThread => AllHeard'
<1> SUFFICES ASSUME Typed, AllHeard, NEW v \in Units, Kind("sc"), UNCHANGED masked,
                    set_sensor_state_from_driver(v) \/ tell_sensor(v),
                    NEW s \in Slots, NEW u \in Units', NEW i \in Units', Due(s, u, i)'
             PROVE  Heard(s, u, i)'
  BY DEF AllHeard, SensorThread
<1>1. /\ setup' = setup /\ Units' = Units /\ i \in Nat /\ v \in Nat
  <2>1. setup' = setup
    BY DEF set_sensor_state_from_driver, tell_sensor
  <2> QED
    BY <2>1, UnitsFacts DEF Units, Typed, ServerTypes
<1>2. clients'[s].count = clients[s].count
  <2>1. CASE clients' = clients
    BY <2>1
  <2>2. CASE FlagAll(v, Holders(v))
    <3>1. clients[s] \in ClientType
      BY DEF Typed, ServerTypes
    <3> QED
      BY <2>2, <3>1 DEF FlagAll, Flag, ClientType
  <2> QED
    BY <2>1, <2>2 DEF set_sensor_state_from_driver, tell_sensor
<1>3. i = u /\ u <= clients[s].count /\ Heard(s, u, i)
  BY <1>1, <1>2 DEF AllHeard, Due, Kind
<1>4. CASE set_sensor_state_from_driver(v)
  <2>1. CASE data'[u] = data[u]
    <3>1. changed \subseteq changed' /\ clients' = clients
      BY <1>4 DEF set_sensor_state_from_driver, set_sc_sensor_data
    <3> QED
      BY <1>3, <2>1, <3>1 DEF Heard, Knows, Active
  <2>2. CASE data'[u] # data[u]
    <3>1. u \in changed'
      BY <1>1, <1>4, <2>2 DEF set_sensor_state_from_driver, set_sc_sensor_data,
         Typed, ServerTypes
    <3> QED
      BY <1>3, <3>1 DEF Heard
  <2> QED
    BY <2>1, <2>2
<1>5. CASE tell_sensor(v)
  <2>1. CASE v \in changed
    <3>1. s \in Holders(v) \/ i # v
      BY <1>3 DEF Holders
    <3>2. Holders(v) \subseteq Slots
      BY DEF Holders
    <3> QED
      BY <1>1, <1>3, <1>5, <2>1, <3>1, <3>2, FlaggedHeard DEF tell_sensor
  <2>2. CASE v \notin changed
    BY <1>1, <1>3, <1>5, <2>2 DEF tell_sensor, Heard, Knows, Active
  <2> QED
    BY <2>1, <2>2
<1> QED
  BY <1>4, <1>5

LEMMA PolesHeard ==
    Typed /\ AllHeard /\ PoleThread => AllHeard'
<1> SUFFICES ASSUME Typed, AllHeard, PoleThread,
                    NEW s \in Slots, NEW u \in Units', NEW i \in Units', Due(s, u, i)'
             PROVE  Heard(s, u, i)'
  BY DEF AllHeard
<1>1. /\ setup' = setup /\ Units' = Units /\ i \in Nat /\ 1 \in Nat /\ Kind("ppc") /\ i = 1
      /\ ~masked'
  <2>1. setup' = setup /\ Kind("ppc")
    BY DEF PoleThread, find_ppc_client_command, set_ppc_client_command_result,
       set_price_pole_state_from_driver, tell_poles
  <2> QED
    BY <2>1, UnitsFacts DEF Units, Due, Kind, Typed, ServerTypes
<1>2. ~masked => Heard(s, u, i)
  BY <1>1 DEF AllHeard, Due
<1>3. CASE UNCHANGED <<data, changed, clients, masked>>
  BY <1>1, <1>2, <1>3 DEF Heard, Knows, Active
<1>4. CASE tell_poles
  <2>1. ~masked
    BY <1>1, <1>4 DEF tell_poles, poles
  <2>2. CASE 1 \in changed
    BY <1>1, <1>2, <1>4, <2>1, <2>2, FlaggedHeard DEF tell_poles
  <2>3. CASE 1 \notin changed
    BY <1>1, <1>2, <1>4, <2>1, <2>3 DEF tell_poles, Heard, Knows, Active
  <2> QED
    BY <2>2, <2>3
<1>5. ASSUME NEW v \in Units, set_ppc_price_pole_data(v, real[v]), clients' = clients PROVE Heard(s, u, i)'
  <2>1. ~masked /\ (1 \in changed => 1 \in changed')
    BY <1>1, <1>5 DEF set_ppc_price_pole_data
  <2>2. CASE data'[u] = data[u]
    BY <1>1, <1>2, <1>5, <2>1, <2>2 DEF Heard, Knows, Active
  <2>3. CASE data'[u] # data[u]
    <3>1. 1 \in changed'
      BY <1>1, <1>5, <2>3 DEF set_ppc_price_pole_data, Typed, ServerTypes
    <3> QED
      BY <1>1, <3>1 DEF Heard
  <2> QED
    BY <2>2, <2>3
<1> QED
  BY <1>3, <1>4, <1>5 DEF PoleThread, find_ppc_client_command,
     set_ppc_client_command_result,
     set_price_pole_state_from_driver

(* Who comes has everything to hear; who is told knows; and who leaves is  *)
(* not told.                                                               *)
LEMMA ComesHeard == Typed /\ AllHeard /\ Comes => AllHeard'
<1> SUFFICES ASSUME Typed, AllHeard, Comes,
                    NEW s \in Slots, NEW u \in Units', NEW i \in Units', Due(s, u, i)'
             PROVE  Heard(s, u, i)'
  BY DEF AllHeard
<1>1. /\ UNCHANGED <<setup, data, changed, masked>> /\ Units' = Units
      /\ i \in Nat /\ i > 0 /\ count \in Nat
  BY UnitsFacts DEF Comes, Accept, server, Units, Typed, ServerTypes
<1>2. PICK t \in Slots, p \in Peers :
        clients' = [clients EXCEPT ![t] =
           [Free EXCEPT !.state = "Active", !.peer = p, !.logged = ~filtering, !.count = count,
                        !.flags = IF Kind("ppc") THEN {0, 1} ELSE 0 .. count, !.reading = TRUE]]
  BY DEF Comes, Accept
<1>3. CASE s = t
  <2>1. /\ clients'[s].count = count /\ clients'[s].sent = {}
        /\ clients'[s].flags = IF Kind("ppc") THEN {0, 1} ELSE 0 .. count
    BY <1>2, <1>3 DEF Free, Typed, ServerTypes
  <2>2. i \in clients'[s].flags
    BY <1>1, <2>1 DEF Due, Kind
  <2> QED
    BY <2>1, <2>2 DEF Heard
<1>4. CASE s # t
  <2>1. clients'[s] = clients[s]
    BY <1>2, <1>4 DEF Typed, ServerTypes
  <2> QED
    BY <1>1, <2>1 DEF AllHeard, Due, Heard, Knows, Active, Kind
<1> QED
  BY <1>3, <1>4

LEMMA EndsHeard == ASSUME Typed, AllHeard, NEW t \in Slots, Ends(t) PROVE AllHeard'
<1> SUFFICES ASSUME NEW s \in Slots, NEW u \in Units', NEW i \in Units', Due(s, u, i)', Active(s)'
             PROVE  Heard(s, u, i)'
  BY DEF AllHeard, Heard
<1>1. UNCHANGED <<setup, data, changed, masked>> /\ Units' = Units
  BY DEF Ends, ReaderEnds, SetDestroying, Destroy, server, Units
<1>2. Active(s) /\ (clients'[s] = clients[s] \/ clients'[s] = [clients[s] EXCEPT !.reading = FALSE])
  <2>1. clients[s] \in ClientType
    BY DEF Typed, ServerTypes
  <2>2. CASE ReaderEnds(t)
    BY <2>1, <2>2 DEF ReaderEnds, Active, Typed, ServerTypes, ClientType
  <2>3. CASE SetDestroying
    <3>1. CASE Active(s)
      <4>1. clients'[s].state = "Destroying"
        BY <2>1, <2>3, <3>1 DEF SetDestroying, ClientType
      <4> QED
        BY <4>1 DEF Active
    <3>2. CASE ~Active(s)
      BY <2>3, <3>2 DEF SetDestroying, Active
    <3> QED
      BY <3>1, <3>2
  <2>4. CASE Destroy(t)
    BY <2>4 DEF Destroy, Active, Free, Typed, ServerTypes
  <2> QED
    BY <2>2, <2>3, <2>4 DEF Ends
<1>3. /\ clients'[s].count = clients[s].count /\ clients'[s].flags = clients[s].flags
      /\ clients'[s].sent = clients[s].sent /\ clients'[s].told = clients[s].told
      /\ clients'[s].missed = clients[s].missed
  BY <1>2 DEF Typed, ServerTypes, ClientType
<1> QED
  BY <1>1, <1>2, <1>3 DEF AllHeard, Due, Heard, Knows, Kind

\* Items are told that include the one of a unit exactly if they include the unit.
LEMMA ToldHeard ==
    ASSUME Typed, NEW s \in Slots, NEW items, NEW u \in Units, NEW i \in Units,
           i \in items => u \in items
    PROVE  LET c == Told(clients[s], items) IN
           /\ Knows(s, u, i) \/ u \in items => c.told[u] = data[u] \/ i \in c.missed
           /\ c.flags = clients[s].flags /\ c.sent = clients[s].sent
           /\ c.state = clients[s].state /\ c.count = clients[s].count
  BY DEF Told, Knows, Typed, ServerTypes, ClientType

LEMMA SendsHeard == ASSUME Typed, AllHeard, NEW t \in Slots, Sends(t) PROVE AllHeard'
<1> SUFFICES ASSUME NEW s \in Slots, NEW u \in Units', NEW i \in Units', Due(s, u, i)'
             PROVE  Heard(s, u, i)'
  BY DEF AllHeard
<1>1. UNCHANGED <<setup, data, changed, masked>> /\ Units' = Units
  BY DEF Sends, Send, ClearFlag, server, Units
<1>2. CASE s # t
  <2>1. clients'[s] = clients[s]
    BY <1>2 DEF Sends, Send, ClearFlag, Typed, ServerTypes
  <2> QED
    BY <1>1, <2>1 DEF AllHeard, Due, Heard, Knows, Active, Kind
<1>3. CASE s = t /\ ClearFlag(t)
  <2>1. /\ clients'[s].count = clients[s].count /\ clients'[s].state = clients[s].state
        /\ clients'[s].sent = {} /\ clients'[s].told = clients[s].told
        /\ clients'[s].missed = clients[s].missed
        /\ Active(s) => clients'[s].flags = clients[s].flags \ clients[s].sent
    BY <1>3 DEF ClearFlag, Typed, ServerTypes, ClientType
  <2> QED
    BY <1>1, <2>1 DEF AllHeard, Due, Heard, Knows, Active, Kind
<1>4. ASSUME s = t, NEW j, NEW items, Send(t, j, items), i \in items => u \in items,
             i = j => u \in items
      PROVE  Heard(s, u, i)'
  <2>1. clients'[s] = [Told(clients[s], items) EXCEPT !.sent = {j}]
    BY <1>4 DEF Send, Typed, ServerTypes
  <2> DEFINE c == Told(clients[s], items)
  <2>2. c \in ClientType
    BY ToldTypes DEF Typed, ServerTypes
  <2>3. /\ clients'[s].told = c.told /\ clients'[s].missed = c.missed /\ clients'[s].flags = c.flags
        /\ clients'[s].state = c.state /\ clients'[s].count = c.count /\ clients'[s].sent = {j}
    BY <2>1, <2>2 DEF ClientType
  <2>4. /\ Knows(s, u, i) \/ u \in items => c.told[u] = data[u] \/ i \in c.missed
        /\ c.flags = clients[s].flags /\ c.state = clients[s].state /\ c.count = clients[s].count
    BY <1>1, <1>4, ToldHeard
  <2>5. (Knows(s, u, i) \/ u \in items => Knows(s, u, i)') /\ clients'[s].flags = clients[s].flags
        /\ (Active(s)' => Active(s)) /\ (Due(s, u, i)' => Due(s, u, i))
    BY <1>1, <2>3, <2>4 DEF Knows, Active, Due, Kind
  <2>6. Heard(s, u, i)
    BY <1>1, <2>5 DEF AllHeard
  <2> QED
    BY <1>1, <1>4, <2>3, <2>5, <2>6 DEF Heard
<1>5. i # 0 /\ \/ Kind("sc") /\ i = u
               \/ Kind("ppc") /\ i = 1
  BY <1>1, UnitsFacts DEF Due, Kind, Typed, ServerTypes
<1> QED
  BY <1>1, <1>2, <1>3, <1>4, <1>5 DEF Sends, Kind

LEMMA AnswersHeard == ASSUME Typed, AllHeard, NEW t \in Slots, Answers(t) PROVE AllHeard'
<1> SUFFICES ASSUME NEW s \in Slots, NEW u \in Units', NEW i \in Units', Due(s, u, i)'
             PROVE  Heard(s, u, i)'
  BY DEF AllHeard
<1>1. UNCHANGED <<setup, data, changed, masked>> /\ Units' = Units
  BY DEF Answers, Answer, server, Units
<1>2. CASE s # t
  <2>1. clients'[s] = clients[s]
    BY <1>2 DEF Answers, Answer, Typed, ServerTypes
  <2> QED
    BY <1>1, <2>1 DEF AllHeard, Due, Heard, Knows, Active, Kind
<1>3. ASSUME s = t, NEW items, Answer(t, items), i \in items => u \in items
      PROVE  Heard(s, u, i)'
  <2>1. clients'[s] = [Told(clients[s], items) EXCEPT !.logged = TRUE]
    BY <1>3 DEF Answer, Typed, ServerTypes
  <2> DEFINE c == Told(clients[s], items)
  <2>2. c \in ClientType
    BY ToldTypes DEF Typed, ServerTypes
  <2>3. /\ clients'[s].told = c.told /\ clients'[s].missed = c.missed /\ clients'[s].flags = c.flags
        /\ clients'[s].state = c.state /\ clients'[s].count = c.count /\ clients'[s].sent = c.sent
    BY <2>1, <2>2 DEF ClientType
  <2>4. /\ Knows(s, u, i) \/ u \in items => c.told[u] = data[u] \/ i \in c.missed
        /\ c.flags = clients[s].flags /\ c.sent = clients[s].sent
        /\ c.state = clients[s].state /\ c.count = clients[s].count
    BY <1>1, <1>3, ToldHeard
  <2>5. /\ (Knows(s, u, i) => Knows(s, u, i)') /\ (Active(s)' => Active(s))
        /\ clients'[s].flags = clients[s].flags /\ clients'[s].sent = clients[s].sent
        /\ (Due(s, u, i)' => Due(s, u, i))
    BY <1>1, <2>3, <2>4 DEF Knows, Active, Due, Kind
  <2>6. Heard(s, u, i)
    BY <1>1, <2>5 DEF AllHeard
  <2> QED
    BY <1>1, <2>5, <2>6 DEF Heard
<1>4. i # 0 /\ \/ Kind("sc") /\ i = u
               \/ Kind("ppc") /\ i = 1
  BY <1>1, UnitsFacts DEF Due, Kind, Typed, ServerTypes
<1> QED
  BY <1>1, <1>2, <1>3, <1>4 DEF Answers, Kind

LEMMA HeardStep == Typed /\ Places /\ AllHeard /\ ServerStep => AllHeard'
<1> SUFFICES ASSUME Typed, Places, AllHeard, ServerStep PROVE AllHeard'
  OBVIOUS
<1>1. CASE UNCHANGED view
  BY <1>1 DEF view, AllHeard, Due, Heard, Knows, Active, Kind, Units
<1>2. CASE TankThread
  <2>1. setup' = setup /\ Kind("tgs")
    BY <1>2, StepSetup DEF TankThread
  <2> QED
    BY <2>1 DEF AllHeard, Due, Kind
<1> QED
  BY <1>1, <1>2, DeviceHeard, SensorHeard, PolesHeard, ComesHeard, EndsHeard,
     SendsHeard, AnswersHeard
  DEF ServerStep, KeepStep

ServerInv == Typed /\ Places /\ AllHeard

LEMMA ServerInvInit == LinkedInit => ServerInv
<1> SUFFICES ASSUME LinkedInit PROVE ServerInv
  OBVIOUS
<1>1. Places
  BY DEF LinkedInit, DeviceInit, Places
<1>2. \A s \in Slots : ~Active(s)
  BY DEF LinkedInit, DeviceInit, Active, Free
<1> QED
  BY <1>1, <1>2, TypesInit DEF ServerInv, AllHeard, Heard

LEMMA ServerInvStep == ServerInv /\ [LinkedNext]_allVars => ServerInv'
<1>1. ServerInv /\ [LinkedNext]_allVars => ServerStep
  BY NextServerStep DEF ServerInv, Typed, ServerTypes
<1> QED
  BY <1>1, TypesStep, PlacesStep, HeardStep DEF ServerInv

LEMMA HeardTold == ServerInv => ClientsTold
<1> SUFFICES ASSUME ServerInv, NEW s \in Slots, NEW u \in Units
             PROVE  /\ Kind("sc") /\ Settled(s, u) /\ u <= clients[s].count => Knows(s, u, u)
                    /\ Kind("ppc") /\ Settled(s, 1) /\ ~masked => Knows(s, u, 1)
  BY DEF ClientsTold
<1>1. 1 \in Units
  BY UnitsFacts DEF ServerInv, Typed, ServerTypes
<1> QED
  BY <1>1 DEF ServerInv, AllHeard, Due, Heard, Settled

(* What the server holds of sensors and price poles, its clients are told. *)
THEOREM ChangesAreTold == LinkedSpec => []ClientsTold
  BY ServerInvInit, ServerInvStep, HeardTold, PTL DEF LinkedSpec

-----------------------------------------------------------------------------
(* 4. Slots and links: which client of the server is which point of sale.  *)

Broken == "cut" \in lost

(* Every link has one slot, and unless something broke each that is taken  *)
(* is read.                                                                *)
SlotsInv ==
    /\ \A s \in Slots :
         /\ clients[s].state = "Free" => clients[s].peer = Nobody /\ ~clients[s].reading
         /\ clients[s].state = "Destroying" => ~clients[s].reading
         /\ Kind("sc") => clients[s].flags \subseteq 0 .. clients[s].count
         /\ ~Broken /\ clients[s].state # "Free" => clients[s].reading
    /\ \A s, t \in Slots : clients[s].peer = clients[t].peer /\ clients[s].peer # Nobody => s = t

LinkInv(p) ==
    /\ links[p].state \in {"none", "closed"} =>
         /\ links[p].frames = <<>> /\ links[p].half = <<>> /\ links[p].asked = <<>> /\ ~links[p].bound
         /\ IsLink(p) => \A s \in SlotsOf(p) : ~clients[s].reading
    /\ ~IsLink(p) => links[p].state = "none"
    /\ ~Broken => /\ links[p].state # "leaving"
                  /\ links[p].state = "open" => SlotsOf(p) # {}

LinksInv == \A p \in Peers : LinkInv(p)

LEMMA LostGrows == [LinkedNext]_allVars => lost \subseteq lost'
  BY DEF LinkedNext, allVars, Load, linkVars, connect_to_server_device,
     connect_fails,
     disconnect_server_devices, LinkCut, Break, Lose, tgs_device_func, sc_device_func, ppc_device_func,
     ParseTGSFrame, ParseTGSDataFrame, ParseSCFrame, ParseSCDataFrame, ParseTankDataFrame,
     set_gauge_state, ParseSensorDataFrame, RecvReturnsNothing, LinkCloses,
     reconnect_to_server_device, ThreadEnds, price_update, ReadLink, PushTank, PushSensor, Push,
     Program, TankServer, SensorServer, PoleServer, OtherStops

\* What a step that nobody comes with leaves of a slot, or how it ends it.
SameSlot(s) ==
    /\ clients'[s].state = clients[s].state /\ clients'[s].peer = clients[s].peer
    /\ clients'[s].reading = clients[s].reading /\ clients'[s].count = clients[s].count
    /\ Kind("sc") => clients'[s].flags \subseteq 0 .. clients[s].count

EndedSlot(s) ==
    /\ Broken'
    /\ \/ clients'[s] = [clients[s] EXCEPT !.reading = FALSE]
       \/ clients'[s] = [clients[s] EXCEPT !.state = "Destroying", !.reading = FALSE]
       \/ clients'[s] = Free

LEMMA FlagAllSlots ==
    ASSUME Typed, SlotsInv, NEW i \in Nat, NEW holders,
           Kind("sc") => \A s \in holders : i <= clients[s].count, FlagAll(i, holders),
           NEW s \in Slots
    PROVE  SameSlot(s)
<1>1. clients[s] \in ClientType /\ clients[s].count \in Nat
  BY UnitsFacts DEF Typed, ServerTypes, ClientType
<1>2. CASE Active(s) /\ s \in holders
  <2>1. clients'[s] = Flag(clients[s], i)
    BY <1>2 DEF FlagAll
  <2>2. /\ clients'[s].state = clients[s].state /\ clients'[s].peer = clients[s].peer
        /\ clients'[s].reading = clients[s].reading /\ clients'[s].count = clients[s].count
        /\ clients'[s].flags = clients[s].flags \cup {i}
    BY <1>1, <2>1 DEF Flag, ClientType
  <2> QED
    BY <1>1, <1>2, <2>2 DEF SlotsInv, SameSlot
<1>3. CASE ~(Active(s) /\ s \in holders)
  BY <1>3 DEF FlagAll, SlotsInv, SameSlot
<1> QED
  BY <1>2, <1>3

LEMMA TellSlots ==
    ASSUME Typed, SlotsInv, NEW t \in Slots, Sends(t) \/ Answers(t), NEW s \in Slots
    PROVE  SameSlot(s)
<1>1. clients[s] \in ClientType
  BY DEF Typed, ServerTypes
<1>2. ASSUME /\ clients'[s].state = clients[s].state /\ clients'[s].peer = clients[s].peer
             /\ clients'[s].reading = clients[s].reading /\ clients'[s].count = clients[s].count
             /\ clients'[s].flags \subseteq clients[s].flags
      PROVE  SameSlot(s)
  BY <1>2 DEF SameSlot, SlotsInv
<1>3. CASE s # t
  <2>1. clients'[s] = clients[s]
    BY <1>3 DEF Sends, Answers, Send, ClearFlag, Answer, Typed, ServerTypes
  <2> QED
    BY <1>2, <2>1
<1>4. ASSUME NEW items
      PROVE  LET c == Told(clients[s], items) IN
             /\ c \in ClientType
             /\ c.state = clients[s].state /\ c.peer = clients[s].peer
             /\ c.reading = clients[s].reading /\ c.count = clients[s].count
             /\ c.flags = clients[s].flags
  <2>1. Told(clients[s], items) \in ClientType
    BY <1>1, ToldTypes DEF Typed
  <2> QED
    BY <1>1, <2>1 DEF Told, ClientType
<1>5. ASSUME s = t, NEW i, NEW items, Send(t, i, items) PROVE SameSlot(s)
  <2>1. clients'[s] = [Told(clients[s], items) EXCEPT !.sent = {i}]
    BY <1>5 DEF Send, Typed, ServerTypes
  <2> QED
    BY <1>2, <1>4, <2>1 DEF ClientType
<1>6. ASSUME s = t, NEW items, Answer(t, items) PROVE SameSlot(s)
  <2>1. clients'[s] = [Told(clients[s], items) EXCEPT !.logged = TRUE]
    BY <1>6 DEF Answer, Typed, ServerTypes
  <2> QED
    BY <1>2, <1>4, <2>1 DEF ClientType
<1>7. CASE s = t /\ ClearFlag(t)
  BY <1>1, <1>2, <1>7 DEF ClearFlag, Typed, ServerTypes, ClientType
<1> QED
  BY <1>3, <1>5, <1>6, <1>7 DEF Sends, Answers

LEMMA KeepSlots ==
    ASSUME Typed, SlotsInv, LinksInv, KeepStep, lost \subseteq lost', NEW s \in Slots
    PROVE  SameSlot(s) \/ EndedSlot(s)
<1>1. ASSUME UNCHANGED clients PROVE SameSlot(s)
  BY <1>1 DEF SlotsInv, SameSlot
<1>2. clients[s] \in ClientType /\ clients[s].count \in Nat
  BY UnitsFacts DEF Typed, ServerTypes, ClientType
<1>3. ASSUME FlagAll(0, Slots) PROVE SameSlot(s)
  <2>1. \A t \in Slots : 0 <= clients[t].count
    BY UnitsFacts DEF Typed, ServerTypes, ClientType
  <2> QED
    BY <1>3, <2>1, FlagAllSlots
<1>4. CASE DeviceReads
  BY <1>1, <1>3, <1>4 DEF DeviceReads, ReadConfig, ReadStatus, TellStatus
<1>5. CASE TankThread
  <2>1. PICK u \in Units : set_tank_state_from_driver(u) \/ tell_tank(u)
    BY <1>5 DEF TankThread
  <2>2. CASE clients' = [t \in Slots |-> IF Active(t) THEN [clients[t] EXCEPT !.flags = @ \ {0}] ELSE clients[t]]
    BY <1>2, <2>2 DEF ClientType, SlotsInv, SameSlot
  <2> QED
    BY <1>1, <1>3, <2>1, <2>2 DEF set_tank_state_from_driver, tell_tank
<1>6. CASE SensorThread
  <2>1. PICK u \in Units : set_sensor_state_from_driver(u) \/ tell_sensor(u)
    BY <1>6 DEF SensorThread
  <2>2. u \in Nat /\ \A t \in Holders(u) : u <= clients[t].count
    BY UnitsFacts DEF Holders, Typed, ServerTypes
  <2> QED
    BY <1>1, <2>1, <2>2, FlagAllSlots DEF set_sensor_state_from_driver,
       tell_sensor
<1>7. CASE PoleThread
  <2>1. 1 \in Nat /\ ~Kind("sc")
    BY <1>7 DEF PoleThread, Kind
  <2> QED
    BY <1>1, <1>7, <2>1, FlagAllSlots DEF PoleThread, find_ppc_client_command,
       set_ppc_client_command_result, set_price_pole_state_from_driver, tell_poles
<1>8. ASSUME NEW t \in Slots, Ends(t) PROVE SameSlot(s) \/ EndedSlot(s)
  <2>1. Broken'
    BY <1>8 DEF Ends, LinksInv, LinkInv, SlotsInv, Destroy, Broken
  <2>2. \/ clients'[s] = clients[s]
        \/ clients'[s] = [clients[s] EXCEPT !.reading = FALSE]
        \/ clients'[s] = [clients[s] EXCEPT !.state = "Destroying", !.reading = FALSE]
        \/ clients'[s] = Free
    BY <1>8 DEF Ends, ReaderEnds, SetDestroying, Destroy, Typed, ServerTypes
  <2> QED
    BY <2>1, <2>2 DEF SlotsInv, SameSlot, EndedSlot
<1>9. ASSUME NEW t \in Slots, Sends(t) \/ Answers(t) PROVE SameSlot(s)
  BY <1>9, TellSlots
<1> QED
  BY <1>1, <1>4, <1>5, <1>6, <1>7, <1>8, <1>9 DEF KeepStep, view

LEMMA ComesSlots ==
    ASSUME Typed, NEW p, NEW news, Accept(p, news)
    PROVE  \E t \in Slots :
             /\ clients[t].state = "Free"
             /\ clients'[t] = [Free EXCEPT !.state = "Active", !.peer = p, !.logged = ~filtering,
                                           !.count = count, !.flags = news, !.reading = TRUE]
             /\ \A s \in Slots \ {t} : clients'[s] = clients[s]
  BY DEF Accept, FirstFree, Typed, ServerTypes

LEMMA SlotsStep ==
    Typed /\ SlotsInv /\ LinksInv /\ ServerStep /\ lost \subseteq lost' => SlotsInv'
<1> SUFFICES ASSUME Typed, SlotsInv, LinksInv, ServerStep, lost \subseteq lost' PROVE SlotsInv'
  OBVIOUS
<1>0. setup' = setup
  BY StepSetup
<1>1. ASSUME NEW s \in Slots PROVE clients[s] \in ClientType /\ clients[s].count \in Nat /\ count \in Nat
  BY UnitsFacts DEF Typed, ServerTypes, ClientType
<1>2. CASE KeepStep
  <2>1. ASSUME NEW s \in Slots
        PROVE  /\ clients'[s].state = "Free" => clients'[s].peer = Nobody /\ ~clients'[s].reading
               /\ clients'[s].state = "Destroying" => ~clients'[s].reading
               /\ Kind("sc")' => clients'[s].flags \subseteq 0 .. clients'[s].count
               /\ ~Broken' /\ clients'[s].state # "Free" => clients'[s].reading
               /\ clients'[s].peer = Nobody \/ clients'[s].peer = clients[s].peer
    <3>1. CASE SameSlot(s)
      BY <1>0, <3>1 DEF SameSlot, SlotsInv, Kind, Broken
    <3>2. CASE Broken' /\ clients'[s] = [clients[s] EXCEPT !.reading = FALSE]
      BY <1>0, <1>1, <3>2 DEF SlotsInv, Kind, ClientType
    <3>3. CASE Broken' /\ clients'[s] = [clients[s] EXCEPT !.state = "Destroying", !.reading = FALSE]
      BY <1>0, <1>1, <3>3 DEF SlotsInv, Kind, ClientType
    <3>4. CASE Broken' /\ clients'[s] = Free
      BY <3>4 DEF Free
    <3> QED
      BY <1>2, <3>1, <3>2, <3>3, <3>4, KeepSlots DEF EndedSlot
  <2> QED
    BY <2>1 DEF SlotsInv
<1>3. CASE Comes
  <2> DEFINE news == IF Kind("ppc") THEN {0, 1} ELSE 0 .. count
  <2>1. PICK p \in Peers : SlotsOf(p) = {} /\ Accept(p, news)
    BY <1>3 DEF Comes
  <2> HIDE DEF news
  <2>2. PICK t \in Slots :
          /\ clients[t].state = "Free"
          /\ clients'[t] = [Free EXCEPT !.state = "Active", !.peer = p, !.logged = ~filtering,
                                        !.count = count, !.flags = news, !.reading = TRUE]
          /\ \A s \in Slots \ {t} : clients'[s] = clients[s]
    BY <2>1, ComesSlots
  <2>3. /\ clients'[t].state = "Active" /\ clients'[t].peer = p /\ clients'[t].reading
        /\ clients'[t].count = count
        /\ clients'[t].flags = news
    BY <2>2 DEF Free
  <2>4. p # Nobody /\ count \in Nat /\ \A s \in Slots : clients[s].peer # p
    BY <1>1, <2>1, UnitsFacts DEF Typed, ServerTypes, SlotsOf
  <2>5. ASSUME NEW s \in Slots
        PROVE  /\ clients'[s].state = "Free" => clients'[s].peer = Nobody /\ ~clients'[s].reading
               /\ clients'[s].state = "Destroying" => ~clients'[s].reading
               /\ Kind("sc")' => clients'[s].flags \subseteq 0 .. clients'[s].count
               /\ ~Broken' /\ clients'[s].state # "Free" => clients'[s].reading
    <3>1. CASE s = t
      BY <1>0, <2>3, <3>1 DEF Kind, news
    <3>2. CASE s # t
      BY <1>0, <2>2, <3>2 DEF SlotsInv, Kind, Broken
    <3> QED
      BY <3>1, <3>2
  <2>6. ASSUME NEW s \in Slots, NEW r \in Slots, clients'[s].peer = clients'[r].peer, clients'[s].peer # Nobody
        PROVE  s = r
    <3>1. s # t => clients'[s].peer = clients[s].peer /\ clients'[s].peer # p
      BY <2>2, <2>4
    <3>2. r # t => clients'[r].peer = clients[r].peer /\ clients'[r].peer # p
      BY <2>2, <2>4
    <3> QED
      BY <2>3, <2>6, <3>1, <3>2 DEF SlotsInv
  <2> QED
    BY <2>5, <2>6 DEF SlotsInv
<1> QED
  BY <1>2, <1>3 DEF ServerStep

\* Nobody comes to the link of q, and nobody leaves unless something broke.
Keeps(q) ==
    \A s \in Slots :
        /\ clients'[s].reading /\ clients'[s].peer = q => clients[s].reading /\ clients[s].peer = q
        /\ ~Broken' /\ clients[s].peer = q => clients'[s].peer = q

LEMMA KeptSlots ==
    ASSUME Typed, SlotsInv, LinksInv, KeepStep, lost \subseteq lost', NEW q \in Peers
    PROVE  Keeps(q)
<1> SUFFICES ASSUME NEW s \in Slots
             PROVE  /\ clients'[s].reading /\ clients'[s].peer = q => clients[s].reading /\ clients[s].peer = q
                    /\ ~Broken' /\ clients[s].peer = q => clients'[s].peer = q
  BY DEF Keeps
<1>1. CASE SameSlot(s)
  BY <1>1 DEF SameSlot
<1>2. CASE EndedSlot(s)
  <2>1. clients[s] \in ClientType
    BY DEF Typed, ServerTypes
  <2>2. Broken' /\ ~clients'[s].reading
    <3>1. /\ ~[clients[s] EXCEPT !.reading = FALSE].reading
          /\ ~[clients[s] EXCEPT !.state = "Destroying", !.reading = FALSE].reading
          /\ ~Free.reading
      BY <2>1 DEF Free, ClientType
    <3> QED
      BY <1>2, <3>1 DEF EndedSlot
  <2> QED
    BY <2>2
<1> QED
  BY <1>1, <1>2, KeepSlots

LEMMA ComesKeeps ==
    ASSUME Typed, SlotsInv, NEW p \in Peers, SlotsOf(p) = {}, AcceptPeer(p), NEW q \in Peers, q # p
    PROVE  Keeps(q)
<1>1. PICK news : Accept(p, news)
  BY DEF AcceptPeer, tgs_main_socket_thread_func, sc_main_socket_thread_func,
     ppc_main_socket_thread_func, set_new_tgs_client_param, set_new_sc_client_param,
     set_new_ppc_client_param
<1>2. PICK t \in Slots :
          /\ clients[t].state = "Free"
          /\ clients'[t] = [Free EXCEPT !.state = "Active", !.peer = p, !.logged = ~filtering,
                                        !.count = count, !.flags = news, !.reading = TRUE]
          /\ \A s \in Slots \ {t} : clients'[s] = clients[s]
  BY <1>1, ComesSlots
<1>3. clients'[t].peer = p /\ clients[t].peer = Nobody /\ Nobody # q
  BY <1>2, UnitsFacts DEF Free, SlotsInv, Typed, ServerTypes
<1> QED
  BY <1>2, <1>3 DEF Keeps

LEMMA KeptLink ==
    ASSUME setup' = setup, lost \subseteq lost', NEW q \in Peers, Keeps(q), LinkInv(q),
           links'[q].state = links[q].state,
           links[q].state \in {"none", "closed"} => links'[q] = links[q]
    PROVE  LinkInv(q)'
<1>1. IsLink(q)' = IsLink(q) /\ (~Broken' => ~Broken)
  BY DEF IsLink, Broken
<1>2. ASSUME ~Broken', SlotsOf(q) # {} PROVE SlotsOf(q)' # {}
  BY <1>2 DEF Keeps, SlotsOf
<1>3. ASSUME \A s \in SlotsOf(q) : ~clients[s].reading PROVE \A s \in SlotsOf(q)' : ~clients'[s].reading
  BY <1>3 DEF Keeps, SlotsOf
<1> QED
  BY <1>1, <1>2, <1>3 DEF LinkInv

LEMMA LinksStep ==
    Typed /\ SlotsInv /\ LinksInv /\ [LinkedNext]_allVars => LinksInv'
<1> SUFFICES ASSUME Typed, SlotsInv, LinksInv, [LinkedNext]_allVars PROVE LinksInv'
  OBVIOUS
<1>0. setup' = setup /\ lost \subseteq lost'
  BY NextServerStep, StepSetup, LostGrows DEF Typed, ServerTypes
<1>1. ASSUME KeepStep, \A q \in Peers : /\ links'[q].state = links[q].state
                                        /\ links[q].state \in {"none", "closed"} => links'[q] = links[q]
      PROVE  LinksInv'
  BY <1>0, <1>1, KeptSlots, KeptLink DEF LinksInv
<1>2. CASE Load \/ UNCHANGED allVars
  <2>1. KeepStep /\ links' = links
    BY <1>2 DEF Load, allVars, hs, server, poles, linkVars, KeepStep, view
  <2> QED
    BY <1>1, <2>1
<1>3. CASE TankServer \/ SensorServer \/ PoleServer \/ OtherStops
  <2>1. KeepStep
    BY <1>3, TankKeepStep, SensorKeepStep, PoleKeepStep, OtherKeepStep
  <2>2. links' = links
    BY <1>3 DEF TankServer, SensorServer, PoleServer, OtherStops, linkVars
  <2> QED
    BY <1>1, <2>1, <2>2
<1>4. CASE Program
  <2>1. links' = links
    BY <1>4 DEF Program, linkVars
  <2>2. CASE KeepStep
    BY <1>1, <2>1, <2>2
  <2>3. ASSUME NEW p \in setup.others, SlotsOf(p) = {}, AcceptPeer(p) PROVE LinksInv'
    <3>1. p \in Peers /\ ~IsLink(p)
      BY UnitsFacts DEF IsLink, Typed, ServerTypes
    <3>2. ASSUME NEW q \in Peers, q # p PROVE LinkInv(q)'
      BY <1>0, <2>1, <2>3, <3>1, <3>2, ComesKeeps, KeptLink DEF LinksInv
    <3>3. LinkInv(p)'
      BY <1>0, <2>1, <3>1 DEF LinksInv, LinkInv, IsLink, Broken
    <3> QED
      BY <3>2, <3>3 DEF LinksInv
  <2> QED
    BY <1>4, <2>2, <2>3, ProgramKeepStep
<1>5. ASSUME NEW s \in Slots, NEW u \in Units, PushTank(s, u) \/ PushSensor(s, u) PROVE LinksInv'
  <2>1. KeepStep
    BY <1>5, PushKeepStep
  <2>2. \/ links' = links
        \/ /\ IsLink(clients[s].peer) /\ clients[s].reading
           /\ links' = [links EXCEPT ![clients[s].peer].frames = Append(@, <<u, data[u]>>)]
    BY <1>5 DEF PushTank, PushSensor, Push
  <2>3. CASE links' = links
    BY <1>1, <2>1, <2>3
  <2>4. CASE links' # links
    <3>1. clients[s].peer \in Peers /\ s \in SlotsOf(clients[s].peer)
      BY <2>2, <2>4, UnitsFacts DEF IsLink, SlotsOf, Typed, ServerTypes
    <3>2. links[clients[s].peer].state \notin {"none", "closed"}
      BY <2>2, <2>4, <3>1 DEF LinksInv, LinkInv
    <3>3. ASSUME NEW q \in Peers
          PROVE  /\ links'[q].state = links[q].state
                 /\ links[q].state \in {"none", "closed"} => links'[q] = links[q]
      <4>1. CASE q # clients[s].peer
        BY <2>2, <2>4, <3>1, <4>1 DEF Typed, LinkTypes
      <4>2. CASE q = clients[s].peer
        <5>1. links'[q] = [links[q] EXCEPT !.frames = Append(@, <<u, data[u]>>)]
          BY <2>2, <2>4, <3>1, <4>2 DEF Typed, LinkTypes
        <5> QED
          BY <3>2, <4>2, <5>1 DEF Typed, LinkTypes, LinkType
      <4> QED
        BY <4>1, <4>2
    <3> QED
      BY <1>1, <2>1, <3>3
  <2> QED
    BY <2>3, <2>4
<1>6. ASSUME NEW p \in Peers, links' = [links EXCEPT ![p] = links'[p]], KeepStep, LinkInv(p)'
      PROVE  LinksInv'
  <2>1. ASSUME NEW q \in Peers, q # p PROVE LinkInv(q)'
    <3>1. links'[q] = links[q]
      BY <1>6, <2>1 DEF Typed, LinkTypes
    <3> QED
      BY <1>0, <1>6, <3>1, KeptSlots, KeptLink DEF LinksInv
  <2> QED
    BY <1>6, <2>1 DEF LinksInv
<1>7. ASSUME NEW p \in Peers, IsLink(p), SlotsOf(p) = {}, AcceptPeer(p),
             links' = [links EXCEPT ![p] = links'[p]],
             links'[p].state = "open"
      PROVE  LinksInv'
  <2>1. ASSUME NEW q \in Peers, q # p PROVE LinkInv(q)'
    <3>1. links'[q] = links[q]
      BY <1>7, <2>1 DEF Typed, LinkTypes
    <3> QED
      BY <1>0, <1>7, <2>1, <3>1, ComesKeeps, KeptLink DEF LinksInv
  <2>2. SlotsOf(p)' # {}
    <3>1. PICK news : Accept(p, news)
      BY <1>7 DEF AcceptPeer, tgs_main_socket_thread_func,
         sc_main_socket_thread_func,
         ppc_main_socket_thread_func, set_new_tgs_client_param, set_new_sc_client_param,
         set_new_ppc_client_param
    <3>2. PICK t \in Slots :
            /\ clients[t].state = "Free"
            /\ clients'[t] = [Free EXCEPT !.state = "Active", !.peer = p, !.logged = ~filtering,
                                          !.count = count, !.flags = news, !.reading = TRUE]
            /\ \A s \in Slots \ {t} : clients'[s] = clients[s]
      BY <3>1, ComesSlots
    <3>3. clients'[t].peer = p
      BY <3>2 DEF Free
    <3> QED
      BY <3>3 DEF SlotsOf
  <2>3. LinkInv(p)'
    BY <1>0, <1>7, <2>2 DEF LinkInv, IsLink
  <2> QED
    BY <2>1, <2>3 DEF LinksInv
<1>8. ASSUME NEW p \in Peers, connect_to_server_device(p) \/ reconnect_to_server_device(p)
      PROVE  LinksInv'
  <2>1. links' = [links EXCEPT ![p] = links'[p]] /\ links'[p].state = "open"
    BY <1>8 DEF connect_to_server_device, reconnect_to_server_device, NoLink,
       Typed, LinkTypes
  <2>2. IsLink(p)
    BY <1>8 DEF connect_to_server_device, reconnect_to_server_device, LinksInv,
       LinkInv
  <2> QED
    BY <1>7, <1>8, <2>1, <2>2 DEF connect_to_server_device,
       reconnect_to_server_device
<1>9. ASSUME NEW p \in Peers, connect_fails(p) \/ disconnect_server_devices(p) \/ LinkCloses(p)
      PROVE  LinksInv'
  <2>1. clients' = clients /\ KeepStep
    BY <1>9 DEF connect_fails, disconnect_server_devices, LinkCloses, hs,
       server, poles, KeepStep, view
  <2>2. links' = [links EXCEPT ![p] = links'[p]]
    BY <1>9 DEF connect_fails, disconnect_server_devices, LinkCloses, Typed,
       LinkTypes
  <2>3. LinkInv(p) /\ links[p] \in LinkType
    BY DEF LinksInv, Typed, LinkTypes
  <2>4. CASE connect_fails(p)
    <3>1. links'[p] = [links[p] EXCEPT !.state = "closed"] /\ links[p].state = "none" /\ IsLink(p)
      BY <2>4 DEF connect_fails, Typed, LinkTypes
    <3>2. LinkInv(p)'
      BY <1>0, <2>1, <2>3, <3>1 DEF LinkInv, LinkType, IsLink, SlotsOf
    <3> QED
      BY <1>6, <2>1, <2>2, <3>2
  <2>5. CASE disconnect_server_devices(p)
    <3>1. Broken' /\ links[p].state \in {"open", "closed"}
      BY <2>5 DEF disconnect_server_devices, Break, Lose, Broken
    <3>2. CASE links[p].state = "closed"
      <4>1. links'[p] = NoLink
        BY <2>5, <3>2 DEF disconnect_server_devices, Typed, LinkTypes
      <4>2. LinkInv(p)'
        BY <1>0, <2>1, <2>3, <3>1, <3>2, <4>1 DEF LinkInv, NoLink, IsLink,
           SlotsOf
      <4> QED
        BY <1>6, <2>1, <2>2, <4>2
    <3>3. CASE links[p].state = "open"
      <4>1. links'[p] = [links[p] EXCEPT !.state = "leaving", !.bound = FALSE]
        BY <2>5, <3>3 DEF disconnect_server_devices, Typed, LinkTypes
      <4>2. links'[p].state = "leaving" /\ IsLink(p)
        BY <2>3, <3>3, <4>1 DEF LinkType, LinkInv
      <4>3. LinkInv(p)'
        BY <1>0, <3>1, <4>2 DEF LinkInv, IsLink
      <4> QED
        BY <1>6, <2>1, <2>2, <4>3
    <3> QED
      BY <3>1, <3>2, <3>3
  <2>6. CASE LinkCloses(p)
    <3>1. /\ links'[p] = [NoLink EXCEPT !.state = "closed"] /\ links[p].state = "open"
          /\ \A s \in SlotsOf(p) : ~clients[s].reading
      BY <2>6 DEF LinkCloses, Typed, LinkTypes
    <3>2. /\ links'[p].state = "closed" /\ links'[p].frames = <<>> /\ links'[p].half = <<>>
          /\ links'[p].asked = <<>> /\ ~links'[p].bound
      BY <3>1 DEF NoLink
    <3>3. LinkInv(p)'
      BY <1>0, <2>1, <2>3, <3>1, <3>2 DEF LinkInv, IsLink, SlotsOf
    <3> QED
      BY <1>6, <2>1, <2>2, <3>3
  <2> QED
    BY <1>9, <2>4, <2>5, <2>6
<1>10. ASSUME NEW p \in Peers, LinkCut(p) PROVE LinksInv'
  <2>1. KeepStep /\ Broken'
    BY <1>10 DEF LinkCut, Break, Lose, SlotsOf, KeepStep, Ends, poles, Broken
  <2>2. LinkInv(p) /\ links[p] \in LinkType
    BY DEF LinksInv, Typed, LinkTypes
  <2>3. /\ links' = [links EXCEPT ![p] = links'[p]]
        /\ links'[p] = [links[p] EXCEPT !.frames = <<>>, !.asked = <<>>]
    BY <1>10 DEF LinkCut, Typed, LinkTypes
  <2>4. /\ links'[p].state = links[p].state /\ links'[p].frames = <<>> /\ links'[p].asked = <<>>
        /\ links'[p].half = links[p].half /\ links'[p].bound = links[p].bound
    BY <2>2, <2>3 DEF LinkType
  <2>5. Keeps(p)
    BY <1>0, <2>1, KeptSlots
  <2>6. LinkInv(p)'
    BY <1>0, <2>1, <2>2, <2>4, <2>5 DEF LinkInv, Keeps, SlotsOf, IsLink
  <2> QED
    BY <1>6, <2>1, <2>3, <2>6
<1>11. ASSUME NEW p \in Peers, ThreadEnds(p) PROVE LinksInv'
  <2>1. KeepStep
    BY <1>11 DEF ThreadEnds, SlotsOf, KeepStep, Ends, view, server, poles
  <2>2. links' = [links EXCEPT ![p] = links'[p]] /\ links'[p] = NoLink
    BY <1>11 DEF ThreadEnds, Typed, LinkTypes
  <2>3. IsLink(p) /\ p # Nobody
    BY <1>11, UnitsFacts DEF ThreadEnds, LinksInv, LinkInv, Typed, ServerTypes
  <2>4. \A s \in SlotsOf(p)' : ~clients'[s].reading
    <3>1. CASE \E s \in SlotsOf(p) : ReaderEnds(s)
      <4>1. PICK t \in SlotsOf(p) : ReaderEnds(t)
        BY <3>1
      <4>2. /\ clients'[t].peer = p /\ ~clients'[t].reading
            /\ \A s \in Slots \ {t} : clients'[s] = clients[s]
        BY <4>1 DEF ReaderEnds, SlotsOf, Typed, ServerTypes, ClientType
      <4> QED
        BY <2>3, <4>1, <4>2 DEF SlotsOf, SlotsInv
    <3>2. CASE (\A s \in SlotsOf(p) : ~clients[s].reading) /\ UNCHANGED clients
      BY <3>2 DEF SlotsOf
    <3> QED
      BY <1>11, <3>1, <3>2 DEF ThreadEnds
  <2>5. LinkInv(p)'
    BY <1>0, <2>2, <2>3, <2>4 DEF LinkInv, NoLink, IsLink
  <2> QED
    BY <1>6, <2>1, <2>2, <2>5
<1>12. ASSUME NEW p \in Peers,
              \/ ParseTankDataFrame(p) \/ set_gauge_state(p) \/ ParseSensorDataFrame(p)
              \/ price_update(p) \/ ReadLink(p)
       PROVE  LinksInv'
  <2>1. KeepStep
    BY <1>12, ReadKeepStep DEF ParseTankDataFrame, set_gauge_state,
       ParseSensorDataFrame, price_update,
       KeepStep, view, hs, server, poles
  <2>2. LinkInv(p) /\ links[p] \in LinkType
    BY DEF LinksInv, Typed, LinkTypes
  <2>3. links[p].state \in {"none", "closed"} => links' = links
    BY <1>12, <2>2 DEF ParseTankDataFrame, set_gauge_state,
       ParseSensorDataFrame, price_update, ReadLink, LinkInv
  <2>4. links'[p].state = links[p].state /\ \A q \in Peers \ {p} : links'[q] = links[q]
    <3>1. CASE ParseTankDataFrame(p) \/ ParseSensorDataFrame(p)
      BY <2>2, <3>1 DEF ParseTankDataFrame, ParseSensorDataFrame, LinkType,
         Typed, LinkTypes
    <3>2. CASE set_gauge_state(p)
      <4>1. links' = [links EXCEPT ![p].half = <<>>] /\ links \in [Peers -> LinkType]
        BY <3>2 DEF set_gauge_state, Typed, LinkTypes
      <4>2. links'[p] = [links[p] EXCEPT !.half = <<>>] /\ \A q \in Peers \ {p} : links'[q] = links[q]
        BY <4>1
      <4> QED
        BY <2>2, <4>2 DEF LinkType
    <3>4. CASE ReadLink(p)
      <4>1. links' = [links EXCEPT ![p].asked = Tail(@)] /\ links \in [Peers -> LinkType]
        BY <3>4 DEF ReadLink, Typed, LinkTypes
      <4>2. links'[p] = [links[p] EXCEPT !.asked = Tail(@)] /\ \A q \in Peers \ {p} : links'[q] = links[q]
        BY <4>1
      <4> QED
        BY <2>2, <4>2 DEF LinkType
    <3>3. CASE price_update(p)
      BY <2>2, <3>3 DEF price_update, LinkType, Typed, LinkTypes
    <3> QED
      BY <1>12, <3>1, <3>2, <3>3, <3>4
  <2> QED
    BY <1>1, <2>1, <2>3, <2>4
<1> QED
  BY <1>2, <1>3, <1>4, <1>5, <1>8, <1>9, <1>10, <1>11, <1>12
  DEF LinkedNext, tgs_device_func, sc_device_func, ppc_device_func, ParseTGSFrame, ParseTGSDataFrame,
      ParseSCFrame, ParseSCDataFrame, RecvReturnsNothing

-----------------------------------------------------------------------------
(* 5. The invariant of slots and links together, and frames under way.     *)

LinkedInv == ServerInv /\ SlotsInv /\ LinksInv

LEMMA LinkedInvInit == LinkedInit => LinkedInv
<1> SUFFICES ASSUME LinkedInit PROVE LinkedInv
  OBVIOUS
<1>1. ServerInv
  BY ServerInvInit
<1>2. /\ \A s \in Slots : clients[s].state = "Free" /\ clients[s].peer = Nobody /\ ~clients[s].reading
                          /\ clients[s].flags = {}
      /\ lost = {}
  BY DEF LinkedInit, DeviceInit, LinksInit, Free
<1>3. SlotsInv
  BY <1>2 DEF SlotsInv
<1>4. \A p \in Peers : links[p] = NoLink
  BY DEF LinkedInit, LinksInit
<1>5. LinksInv
  BY <1>2, <1>4 DEF LinksInv, LinkInv, NoLink, SlotsOf
<1> QED
  BY <1>1, <1>3, <1>5 DEF LinkedInv

LEMMA LinkedInvStep == LinkedInv /\ [LinkedNext]_allVars => LinkedInv'
<1>1. LinkedInv /\ [LinkedNext]_allVars => ServerStep
  BY NextServerStep DEF LinkedInv, ServerInv, Typed, ServerTypes
<1> QED
  BY <1>1, ServerInvStep, SlotsStep, LinksStep, LostGrows DEF LinkedInv,
     ServerInv

(* The frames of the first sensor that are under way on a link: the last   *)
(* is what the link was told last.                                         *)
Drained(f) == \A i \in DOMAIN f : f[i][1] # 1
EndsWith(f, v) ==
    \A i \in DOMAIN f : f[i][1] = 1 /\ (\A j \in DOMAIN f : j > i => f[j][1] # 1) => f[i][2] = v

LEMMA NothingUnderWay == ASSUME NEW v PROVE EndsWith(<<>>, v)
  BY DEF EndsWith

LEMMA TailDrained ==
    ASSUME NEW f \in Seq(Frames), f # <<>>, Drained(Tail(f)), Head(f)[1] # 1
    PROVE  Drained(f)
<1> SUFFICES ASSUME NEW i \in DOMAIN f, f[i][1] = 1 PROVE FALSE
  BY DEF Drained
<1>1. i # 1 => i - 1 \in DOMAIN Tail(f) /\ Tail(f)[i - 1] = f[i]
  OBVIOUS
<1> QED
  BY <1>1 DEF Drained

LEMMA TailEndsWith ==
    ASSUME NEW f \in Seq(Frames), f # <<>>, NEW v, EndsWith(f, v)
    PROVE  /\ EndsWith(Tail(f), v)
           /\ Drained(Tail(f)) /\ Head(f)[1] = 1 => Head(f)[2] = v
<1>1. ASSUME NEW i \in DOMAIN Tail(f)
      PROVE  i + 1 \in DOMAIN f /\ f[i + 1] = Tail(f)[i] /\ i \in Nat /\ i >= 1
  OBVIOUS
<1>2. ASSUME NEW j \in DOMAIN f, j > 1 PROVE j - 1 \in DOMAIN Tail(f) /\ Tail(f)[j - 1] = f[j]
  BY <1>2
<1>3. DOMAIN f = 1 .. Len(f) /\ 1 \in DOMAIN f /\ Head(f) = f[1]
  OBVIOUS
<1>4. ASSUME NEW i \in DOMAIN Tail(f), Tail(f)[i][1] = 1,
             \A j \in DOMAIN Tail(f) : j > i => Tail(f)[j][1] # 1
      PROVE  Tail(f)[i][2] = v
  <2>1. ASSUME NEW j \in DOMAIN f, j > i + 1 PROVE f[j][1] # 1
    <3>1. j \in Nat /\ j - 1 > i /\ j > 1
      BY <1>1, <1>3, <2>1
    <3> QED
      BY <1>2, <1>4, <3>1
  <2> QED
    BY <1>1, <1>4, <2>1 DEF EndsWith
<1>5. ASSUME Drained(Tail(f)), Head(f)[1] = 1 PROVE Head(f)[2] = v
  BY <1>2, <1>3, <1>5 DEF EndsWith, Drained
<1> QED
  BY <1>4, <1>5 DEF EndsWith

LEMMA AppendEndsWith ==
    ASSUME NEW f \in Seq(Frames), NEW u \in Units, NEW x \in Values, NEW v, EndsWith(f, v)
    PROVE  /\ EndsWith(Append(f, <<u, x>>), IF u = 1 THEN x ELSE v)
           /\ Drained(Append(f, <<u, x>>)) => u # 1 /\ Drained(f)
<1> DEFINE g == Append(f, <<u, x>>)
<1>1. /\ DOMAIN f = 1 .. Len(f) /\ DOMAIN g = 1 .. Len(f) + 1 /\ Len(f) \in Nat
      /\ \A i \in DOMAIN f : g[i] = f[i]
      /\ g[Len(f) + 1] = <<u, x>>
  OBVIOUS
<1> HIDE DEF g
<1>2. Drained(g) => u # 1 /\ Drained(f)
  BY <1>1 DEF Drained
<1>3. ASSUME NEW i \in DOMAIN g, g[i][1] = 1, \A j \in DOMAIN g : j > i => g[j][1] # 1
      PROVE  g[i][2] = IF u = 1 THEN x ELSE v
  <2>1. CASE u = 1
    <3>1. i = Len(f) + 1
      BY <1>1, <1>3, <2>1
    <3> QED
      BY <1>1, <2>1, <3>1
  <2>2. CASE u # 1
    <3>1. i \in DOMAIN f
      BY <1>1, <1>3, <2>2
    <3>2. \A j \in DOMAIN f : j > i => f[j][1] # 1
      BY <1>1, <1>3
    <3> QED
      BY <1>1, <1>3, <2>2, <3>1, <3>2 DEF EndsWith
  <2> QED
    BY <2>1, <2>2
<1> QED
  BY <1>2, <1>3 DEF EndsWith, g

-----------------------------------------------------------------------------
(* 6. Sensors: the door follows the last frame read (DoorFollows).         *)

FramesOf(s) == links[clients[s].peer].frames
OneLink == \A p, q \in setup.pss : p = q

\* Once it has read what is under way, a link says the same of the door as pss.
Faithful(s) ==
    clients[s].reading /\ Drained(FramesOf(s)) => clients[s].told[1] \in {Unknown, door}

(* A link that is read will hear, as the last of the first sensor, what    *)
(* the server told it last; frames under way have a slot that gets them;   *)
(* and one of the links at least is faithful, the one that read last.      *)
DoorInv ==
    Kind("sc") =>
    /\ \A s \in Slots : IsLink(clients[s].peer) /\ clients[s].reading =>
          EndsWith(FramesOf(s), clients[s].told[1])
    /\ \A p \in Peers : links[p].frames # <<>> /\ ~Broken => \E s \in Watching : clients[s].peer = p
    /\ (Broken => OneLink) => Watching = {} \/ \E s \in Watching : Faithful(s)

\* What a step leaves of a slot and of the frames of a link.
Quiet(s) ==
    \/ SameSlot(s) /\ (IsLink(clients[s].peer) => clients'[s].told[1] = clients[s].told[1])
    \/ EndedSlot(s)
KeptFrames(p) ==
    \/ links'[p].frames = links[p].frames
    \/ /\ links'[p].frames = <<>> /\ Broken'
       /\ \A s \in Slots : clients'[s].peer = p => ~clients'[s].reading

LEMMA EndedReads ==
    ASSUME Typed, NEW s \in Slots, EndedSlot(s)
    PROVE  /\ ~clients'[s].reading /\ Broken'
           /\ \/ clients'[s].peer = clients[s].peer /\ clients'[s].count = clients[s].count
              \/ clients'[s].peer = Nobody
<1>1. clients[s] \in ClientType
  BY DEF Typed, ServerTypes
<1>2. Free.peer = Nobody /\ ~Free.reading
  BY DEF Free
<1> QED
  BY <1>1, <1>2 DEF EndedSlot, ClientType

LEMMA QuietDoor ==
    ASSUME Typed, SlotsInv, DoorInv, Kind("sc"), setup' = setup, lost \subseteq lost', door' = door,
           \A s \in Slots : Quiet(s), \A p \in Peers : KeptFrames(p)
    PROVE  DoorInv'
<1>1. /\ \A p : IsLink(p)' = IsLink(p)
      /\ OneLink' = OneLink /\ (~Broken' => ~Broken)
      /\ \A p : IsLink(p) => p \in Peers /\ p # Nobody
  BY UnitsFacts DEF IsLink, OneLink, Broken, Typed, ServerTypes
<1>2. ASSUME NEW s \in Slots
      PROVE  clients'[s].reading => /\ SameSlot(s)
                                    /\ IsLink(clients[s].peer) => clients'[s].told[1] = clients[s].told[1]
  BY EndedReads DEF Quiet
<1>3. ASSUME NEW s \in Slots, IsLink(clients[s].peer)', clients'[s].reading
      PROVE  EndsWith(FramesOf(s), clients[s].told[1])'
  <2>1. /\ clients'[s].peer = clients[s].peer /\ clients[s].reading
        /\ clients'[s].told[1] = clients[s].told[1]
    BY <1>1, <1>2, <1>3 DEF SameSlot
  <2>2. clients[s].peer \in Peers /\ links'[clients[s].peer].frames = links[clients[s].peer].frames
    BY <1>1, <1>3, <2>1 DEF KeptFrames
  <2>3. EndsWith(FramesOf(s), clients[s].told[1])
    BY <1>1, <1>3, <2>1 DEF DoorInv
  <2> QED
    BY <2>1, <2>2, <2>3 DEF FramesOf, EndsWith
<1>4. ASSUME NEW p \in Peers, links'[p].frames # <<>>, ~Broken'
      PROVE  \E s \in Watching' : clients'[s].peer = p
  <2>1. links[p].frames # <<>> /\ ~Broken
    BY <1>1, <1>4 DEF KeptFrames
  <2>2. PICK s \in Watching : clients[s].peer = p
    BY <2>1 DEF DoorInv
  <2>3. SameSlot(s) /\ s \in Slots
    BY <1>4, <2>2, EndedReads DEF Quiet, Watching
  <2> QED
    BY <1>1, <2>2, <2>3 DEF Watching, SameSlot
<1>5. ASSUME Broken' => OneLink', NEW t \in Watching'
      PROVE  \E s \in Watching' : Faithful(s)'
  <2>1. t \in Watching /\ clients'[t].peer = clients[t].peer
    <3>1. t \in Slots /\ IsLink(clients'[t].peer) /\ clients'[t].count > 0
      BY <1>1, <1>5 DEF Watching
    <3> QED
      BY <1>1, <3>1, EndedReads DEF Quiet, SameSlot, Watching
  <2>2. PICK s \in Watching : Faithful(s)
    BY <1>1, <1>5, <2>1 DEF DoorInv
  <2>3. s \in Slots /\ IsLink(clients[s].peer) /\ clients[s].peer \in Peers
    BY <1>1, <2>2 DEF Watching
  <2>4. CASE SameSlot(s) /\ clients'[s].told[1] = clients[s].told[1]
    <3>1. s \in Watching'
      BY <1>1, <2>2, <2>4 DEF Watching, SameSlot
    <3>2. clients'[s].reading => clients[s].reading /\ FramesOf(s)' = FramesOf(s)
      BY <2>3, <2>4 DEF SameSlot, KeptFrames, FramesOf
    <3>3. Faithful(s)'
      BY <2>2, <2>4, <3>2 DEF Faithful, Drained, Unknown
    <3> QED
      BY <3>1, <3>3
  <2>5. CASE EndedSlot(s)
    <3>1. s = t
      <4>1. clients[t].peer = clients[s].peer /\ clients[s].peer # Nobody /\ t \in Slots
        BY <1>1, <1>5, <2>1, <2>3, <2>5, EndedReads DEF OneLink, Watching,
           IsLink
      <4> QED
        BY <2>3, <4>1 DEF SlotsInv
    <3>2. ~clients'[t].reading
      BY <2>3, <2>5, <3>1, EndedReads
    <3> QED
      BY <1>5, <3>2 DEF Faithful
  <2> QED
    BY <2>3, <2>4, <2>5 DEF Quiet
<1> QED
  BY <1>3, <1>4, <1>5 DEF DoorInv

LEMMA DoorFrames ==
    ASSUME setup' = setup, lost' = lost
    PROVE  /\ \A p : IsLink(p)' = IsLink(p)
           /\ OneLink' = OneLink /\ Broken' = Broken
  BY DEF IsLink, OneLink, Broken

LEMMA ComesDoor ==
    ASSUME Typed, SlotsInv, DoorInv, Kind("sc"), setup' = setup, lost' = lost, door' = door,
           NEW p \in Peers, SlotsOf(p) = {}, AcceptPeer(p),
           links'[p].frames = <<>>, \A q \in Peers \ {p} : links'[q] = links[q]
    PROVE  DoorInv'
<1>1. PICK news : Accept(p, news)
  BY DEF AcceptPeer, tgs_main_socket_thread_func, sc_main_socket_thread_func,
     ppc_main_socket_thread_func, set_new_tgs_client_param, set_new_sc_client_param,
     set_new_ppc_client_param
<1>2. PICK t \in Slots :
          /\ clients[t].state = "Free"
          /\ clients'[t] = [Free EXCEPT !.state = "Active", !.peer = p, !.logged = ~filtering,
                                        !.count = count, !.flags = news, !.reading = TRUE]
          /\ \A s \in Slots \ {t} : clients'[s] = clients[s]
  BY ONLY Typed, <1>1, ComesSlots
<1>3. /\ \A q : IsLink(q)' = IsLink(q)
      /\ OneLink' = OneLink /\ Broken' = Broken
  BY DoorFrames
<1>4. /\ \A q : IsLink(q) => q \in Peers /\ q # Nobody
      /\ 1 \in Units
  BY UnitsFacts DEF IsLink, Typed, ServerTypes
<1>5. clients'[t].peer = p /\ clients'[t].told[1] = Unknown /\ t \notin Watching
  <2>1. clients[t].peer = Nobody
    BY <1>2 DEF SlotsInv
  <2> QED
    BY <1>2, <1>4, <2>1 DEF Free, Watching
<1>6. ASSUME NEW s \in Slots, s # t, IsLink(clients[s].peer)
      PROVE  clients'[s] = clients[s] /\ FramesOf(s)' = FramesOf(s)
  <2>1. clients[s].peer # p
    BY DEF SlotsOf
  <2> QED
    BY <1>2, <1>4, <1>6, <2>1 DEF FramesOf
<1>7. ASSUME NEW s \in Slots, IsLink(clients[s].peer)', clients'[s].reading
      PROVE  EndsWith(FramesOf(s), clients[s].told[1])'
  <2>1. CASE s = t
    BY <1>5, <2>1 DEF FramesOf, EndsWith
  <2>2. CASE s # t
    <3>1. clients'[s] = clients[s] /\ FramesOf(s)' = FramesOf(s)
      BY <1>2, <1>3, <1>6, <1>7, <2>2
    <3>2. EndsWith(FramesOf(s), clients[s].told[1])
      BY <1>3, <1>7, <3>1 DEF DoorInv
    <3> QED
      BY <3>1, <3>2 DEF EndsWith
  <2> QED
    BY <2>1, <2>2
<1>8. ASSUME NEW s \in Watching PROVE s \in Watching' /\ clients'[s] = clients[s] /\ FramesOf(s)' = FramesOf(s)
  <2>1. s \in Slots /\ IsLink(clients[s].peer) /\ clients[s].count > 0 /\ s # t
    BY <1>5 DEF Watching
  <2> QED
    BY <1>3, <1>6, <2>1 DEF Watching
<1>9. ASSUME NEW q \in Peers, links'[q].frames # <<>>, ~Broken'
      PROVE  \E s \in Watching' : clients'[s].peer = q
  <2>1. PICK s \in Watching : clients[s].peer = q
    BY <1>3, <1>9 DEF DoorInv
  <2> QED
    BY <1>8, <2>1
<1>10. ASSUME Broken' => OneLink', Watching' # {} PROVE \E s \in Watching' : Faithful(s)'
  <2>1. CASE Watching = {}
    <3>1. ASSUME NEW s \in Watching' PROVE s = t
      BY <1>2, <1>3, <2>1 DEF Watching
    <3> QED
      BY <1>5, <1>10, <3>1 DEF Faithful
  <2>2. CASE Watching # {}
    <3>1. PICK s \in Watching : Faithful(s)
      BY <1>3, <1>10, <2>2 DEF DoorInv
    <3> QED
      BY <1>8, <3>1 DEF Faithful, Drained, Unknown
  <2> QED
    BY <2>1, <2>2
<1> QED
  BY <1>7, <1>9, <1>10 DEF DoorInv

LEMMA ParseDoor ==
    ASSUME Typed, SlotsInv, LinksInv, DoorInv, Kind("sc"), NEW p \in Peers, ParseSensorDataFrame(p)
    PROVE  DoorInv'
<1> DEFINE f == links[p].frames
<1>1. /\ f # <<>> /\ f \in Seq(Frames)
      /\ links'[p].frames = Tail(f) /\ \A q \in Peers \ {p} : links'[q] = links[q]
      /\ door' = IF Head(f)[1] = 1 THEN Head(f)[2] ELSE door
  BY DEF ParseSensorDataFrame, Typed, LinkTypes, LinkType
<1>2. /\ clients' = clients /\ lost' = lost /\ setup' = setup
  BY DEF ParseSensorDataFrame, hs, server
<1>3. /\ \A q : IsLink(q)' = IsLink(q)
      /\ OneLink' = OneLink /\ Broken' = Broken
      /\ Watching' = Watching
  BY <1>2, DoorFrames DEF Watching
<1>4. /\ \A q : IsLink(q) => q \in Peers
      /\ IsLink(p)
  BY <1>1, UnitsFacts DEF IsLink, LinksInv, LinkInv, Typed, ServerTypes
<1> HIDE DEF f
<1>5. ASSUME NEW s \in Slots, IsLink(clients[s].peer)
      PROVE  FramesOf(s)' = IF clients[s].peer = p THEN Tail(f) ELSE FramesOf(s)
  BY <1>1, <1>2, <1>4, <1>5 DEF FramesOf
<1>6. ASSUME NEW s \in Slots, IsLink(clients[s].peer)', clients'[s].reading
      PROVE  EndsWith(FramesOf(s), clients[s].told[1])'
  <2>1. EndsWith(FramesOf(s), clients[s].told[1])
    BY <1>2, <1>3, <1>6 DEF DoorInv
  <2>2. CASE clients[s].peer = p
    <3>1. FramesOf(s) = f
      BY <2>2 DEF FramesOf, f
    <3>2. EndsWith(Tail(f), clients[s].told[1])
      BY <1>1, <2>1, <3>1, TailEndsWith
    <3> QED
      BY <1>2, <1>3, <1>5, <1>6, <2>2, <3>2 DEF EndsWith
  <2>3. CASE clients[s].peer # p
    BY <1>2, <1>3, <1>5, <1>6, <2>1, <2>3 DEF EndsWith
  <2> QED
    BY <2>2, <2>3
<1>7. ASSUME NEW q \in Peers, links'[q].frames # <<>>, ~Broken'
      PROVE  \E s \in Watching' : clients'[s].peer = q
  <2>1. links[q].frames # <<>>
    BY <1>1, <1>7 DEF f
  <2> QED
    BY <1>2, <1>3, <1>7, <2>1 DEF DoorInv
<1>8. ASSUME Broken' => OneLink', Watching' # {} PROVE \E s \in Watching' : Faithful(s)'
  <2>1. PICK w \in Watching : Faithful(w)
    BY <1>3, <1>8 DEF DoorInv
  <2>2. CASE Head(f)[1] = 1
    <3>1. PICK s \in Watching : clients[s].peer = p
      <4>1. CASE Broken
        <5>1. clients[w].peer = p
          BY <1>3, <1>4, <1>8, <2>1, <4>1 DEF OneLink, Watching, IsLink
        <5> QED
          BY <2>1, <5>1
      <4>2. CASE ~Broken
        BY <1>1, <4>2 DEF DoorInv, f
      <4> QED
        BY <4>1, <4>2
    <3>2. s \in Slots /\ IsLink(clients[s].peer) /\ FramesOf(s) = f /\ FramesOf(s)' = Tail(f)
      BY <1>5, <3>1 DEF Watching, FramesOf, f
    <3>3. ASSUME clients[s].reading, Drained(Tail(f)) PROVE clients[s].told[1] = door'
      <4>1. EndsWith(f, clients[s].told[1])
        BY <3>2, <3>3 DEF DoorInv
      <4>2. Head(f)[2] = clients[s].told[1]
        BY <1>1, <2>2, <3>3, <4>1, TailEndsWith
      <4> QED
        BY <1>1, <2>2, <4>2
    <3>4. Faithful(s)'
      BY <1>2, <3>2, <3>3 DEF Faithful, Drained
    <3> QED
      BY <1>3, <3>1, <3>4
  <2>3. CASE Head(f)[1] # 1
    <3>1. w \in Slots /\ IsLink(clients[w].peer)
      BY <2>1 DEF Watching
    <3>2. ASSUME Drained(FramesOf(w)') PROVE Drained(FramesOf(w))
      <4>1. CASE clients[w].peer = p
        <5>1. FramesOf(w) = f /\ Drained(Tail(f))
          BY <1>5, <3>1, <3>2, <4>1 DEF FramesOf, f
        <5> QED
          BY <1>1, <2>3, <5>1, TailDrained
      <4>2. CASE clients[w].peer # p
        BY <1>5, <3>1, <3>2, <4>2
      <4> QED
        BY <4>1, <4>2
    <3>3. door' = door
      BY <1>1, <2>3
    <3>4. Faithful(w)'
      BY <1>2, <2>1, <3>2, <3>3 DEF Faithful, Drained, Unknown
    <3> QED
      BY <1>3, <2>1, <3>4
  <2> QED
    BY <2>2, <2>3
<1> QED
  BY <1>6, <1>7, <1>8 DEF DoorInv

LEMMA ToldOne ==
    ASSUME Typed, NEW s \in Slots, NEW items
    PROVE  LET c == Told(clients[s], items) IN
           /\ c \in ClientType
           /\ c.told[1] = IF 1 \in items THEN data[1] ELSE clients[s].told[1]
<1>1. clients[s] \in ClientType /\ Told(clients[s], items) \in ClientType /\ 1 \in Units
  BY ToldTypes, UnitsFacts DEF Typed, ServerTypes
<1> QED
  BY <1>1 DEF Told, ClientType

LEMMA PushDoor ==
    ASSUME Typed, SlotsInv, LinksInv, DoorInv, NEW s \in Slots, NEW u \in Units, PushSensor(s, u)
    PROVE  DoorInv'
<1> DEFINE p == clients[s].peer
           f == links[p].frames
<1>1. /\ Kind("sc") /\ Send(s, u, {u}) /\ setup' = setup /\ lost' = lost /\ door' = door
      /\ links' = IF IsLink(p) /\ clients[s].reading THEN [links EXCEPT ![p].frames = Append(@, <<u, data[u]>>)]
                  ELSE links
  BY DEF PushSensor, Push, send_sc_device_data_message, Send, server, forecourt
<1>2. \A t \in Slots : SameSlot(t)
  <2>1. Sends(s)
    BY <1>1 DEF Sends, Kind, PushSensor, poles
  <2> QED
    BY <2>1, TellSlots
<1>3. /\ clients'[s].told[1] = IF u = 1 THEN data[1] ELSE clients[s].told[1]
      /\ \A t \in Slots \ {s} : clients'[t] = clients[t]
      /\ Active(s) /\ u \in clients[s].flags
  <2>1. clients'[s] = [Told(clients[s], {u}) EXCEPT !.sent = {u}] /\ \A t \in Slots \ {s} : clients'[t] = clients[t]
    BY <1>1 DEF Send, Typed, ServerTypes
  <2>2. Told(clients[s], {u}) \in ClientType
        /\ Told(clients[s], {u}).told[1] = IF u = 1 THEN data[1] ELSE clients[s].told[1]
    BY ToldOne
  <2>3. clients'[s].told[1] = Told(clients[s], {u}).told[1]
    BY <2>1, <2>2 DEF ClientType
  <2> QED
    BY <1>1, <2>1, <2>2, <2>3 DEF Send
<1>4. /\ \A q : IsLink(q)' = IsLink(q)
      /\ OneLink' = OneLink /\ Broken' = Broken
      /\ Watching' = Watching
  BY <1>1, <1>2, DoorFrames DEF Watching, SameSlot
<1>5. /\ \A q : IsLink(q) => q \in Peers /\ q # Nobody
      /\ data[u] \in Values
  BY UnitsFacts DEF IsLink, Typed, ServerTypes
<1>6. CASE ~(IsLink(p) /\ clients[s].reading)
  <2>1. links' = links /\ door' = door
    BY <1>1, <1>6
  <2>2. ASSUME NEW t \in Slots, IsLink(clients[t].peer)', clients'[t].reading
        PROVE  EndsWith(FramesOf(t), clients[t].told[1])'
    <3>1. t # s /\ clients'[t] = clients[t]
      BY <1>2, <1>3, <1>4, <1>6, <2>2 DEF SameSlot
    <3>2. EndsWith(FramesOf(t), clients[t].told[1]) /\ FramesOf(t)' = FramesOf(t)
      BY <1>1, <1>4, <2>1, <2>2, <3>1 DEF DoorInv, FramesOf
    <3> QED
      BY <3>1, <3>2 DEF EndsWith
  <2>3. ASSUME NEW q \in Peers, links'[q].frames # <<>>, ~Broken'
        PROVE  \E t \in Watching' : clients'[t].peer = q
    <3>1. PICK t \in Watching : clients[t].peer = q
      BY <1>1, <1>4, <2>1, <2>3 DEF DoorInv
    <3> QED
      BY <1>2, <1>4, <3>1 DEF SameSlot, Watching
  <2>4. ASSUME Broken' => OneLink', Watching' # {} PROVE \E t \in Watching' : Faithful(t)'
    <3>1. PICK t \in Watching : Faithful(t)
      BY <1>1, <1>4, <2>4 DEF DoorInv
    <3>2. Faithful(t)'
      <4>1. CASE t = s
        BY <1>2, <1>4, <1>6, <3>1, <4>1 DEF Faithful, SameSlot, Watching
      <4>2. CASE t # s
        BY <1>3, <2>1, <3>1, <4>2 DEF Faithful, FramesOf, Drained, Unknown,
           Watching
      <4> QED
        BY <4>1, <4>2
    <3> QED
      BY <1>4, <3>1, <3>2
  <2> QED
    BY <2>2, <2>3, <2>4 DEF DoorInv
<1>7. CASE IsLink(p) /\ clients[s].reading
  <2>1. /\ f \in Seq(Frames) /\ links'[p].frames = Append(f, <<u, data[u]>>)
        /\ \A q \in Peers \ {p} : links'[q] = links[q]
    BY <1>1, <1>5, <1>7 DEF Typed, LinkTypes, LinkType
  <2> DEFINE v == clients[s].told[1]
  <2>2. EndsWith(f, v)
    BY <1>1, <1>7 DEF DoorInv, FramesOf
  <2> HIDE DEF f, v
  <2>3. /\ EndsWith(Append(f, <<u, data[u]>>), IF u = 1 THEN data[u] ELSE v)
        /\ Drained(Append(f, <<u, data[u]>>)) => u # 1 /\ Drained(f)
    BY <1>5, <2>1, <2>2, AppendEndsWith
  <2>4. ASSUME NEW t \in Slots, t # s, IsLink(clients[t].peer)
        PROVE  clients'[t] = clients[t] /\ FramesOf(t)' = FramesOf(t)
    <3>1. clients[t].peer # p /\ clients[t].peer \in Peers
      BY <1>5, <1>7, <2>4 DEF SlotsInv
    <3> QED
      BY <1>3, <2>1, <2>4, <3>1 DEF FramesOf
  <2>5. clients'[s].peer = p /\ FramesOf(s)' = Append(f, <<u, data[u]>>)
    BY <1>2, <2>1 DEF SameSlot, FramesOf
  <2>6. ASSUME NEW t \in Slots, IsLink(clients[t].peer)', clients'[t].reading
        PROVE  EndsWith(FramesOf(t), clients[t].told[1])'
    <3>1. CASE t = s
      <4>1. EndsWith(FramesOf(s)', clients'[s].told[1])
        BY <1>3, <2>3, <2>5 DEF v
      <4> QED
        BY <3>1, <4>1 DEF EndsWith
    <3>2. CASE t # s
      <4>1. clients'[t] = clients[t] /\ FramesOf(t)' = FramesOf(t) /\ EndsWith(FramesOf(t), clients[t].told[1])
        BY <1>1, <1>3, <1>4, <2>4, <2>6, <3>2 DEF DoorInv
      <4> QED
        BY <4>1 DEF EndsWith
    <3> QED
      BY <3>1, <3>2
  <2>7. ASSUME NEW q \in Peers, links'[q].frames # <<>>, ~Broken'
        PROVE  \E t \in Watching' : clients'[t].peer = q
    <3>1. CASE q = p
      <4>1. clients[s].count > 0
        <5>1. u \in 0 .. clients[s].count /\ u \in Nat \ {0}
          BY <1>1, <1>3, UnitsFacts DEF SlotsInv, Typed, ServerTypes
        <5>2. clients[s].count \in Nat
          BY UnitsFacts DEF Typed, ServerTypes, ClientType
        <5> QED
          BY <5>1, <5>2
      <4>2. s \in Watching
        BY <1>7, <4>1 DEF Watching
      <4> QED
        BY <1>4, <2>5, <3>1, <4>2
    <3>2. CASE q # p
      <4>1. PICK t \in Watching : clients[t].peer = q
        BY <1>1, <1>4, <2>1, <2>7, <3>2 DEF DoorInv
      <4> QED
        BY <1>2, <1>4, <4>1 DEF SameSlot, Watching
    <3> QED
      BY <3>1, <3>2
  <2>8. ASSUME Broken' => OneLink', Watching' # {} PROVE \E t \in Watching' : Faithful(t)'
    <3>1. PICK t \in Watching : Faithful(t)
      BY <1>1, <1>4, <2>8 DEF DoorInv
    <3>2. Faithful(t)'
      <4>1. CASE t = s
        <5>1. ASSUME clients'[s].reading, Drained(FramesOf(s)')
              PROVE  clients'[s].told[1] \in {Unknown, door'}
          <6>1. u # 1 /\ Drained(f)
            BY <2>3, <2>5, <5>1
          <6> QED
            BY <1>1, <1>3, <1>7, <3>1, <4>1, <6>1 DEF Faithful, FramesOf, f
        <5> QED
          BY <4>1, <5>1 DEF Faithful, Drained, Unknown
      <4>2. CASE t # s
        BY <1>1, <2>4, <3>1, <4>2 DEF Faithful, Drained, Unknown, Watching
      <4> QED
        BY <4>1, <4>2
    <3> QED
      BY <1>4, <3>1, <3>2
  <2> QED
    BY <2>6, <2>7, <2>8 DEF DoorInv
<1> QED
  BY <1>6, <1>7

\* What is told to the slot of a link is told by a push, of one sensor, or is
\* not of a sensor.
LEMMA SensorQuiet ==
    ASSUME Typed, SlotsInv, LinksInv, SensorServer, lost \subseteq lost', NEW s \in Slots
    PROVE  Quiet(s)
<1>1. SameSlot(s) \/ EndedSlot(s)
  BY SensorKeepStep, KeepSlots
<1>2. clients[s] \in ClientType /\ 1 \in Units
  BY UnitsFacts DEF Typed, ServerTypes
<1>3. ASSUME clients'[s].told[1] = clients[s].told[1] PROVE Quiet(s)
  BY <1>1, <1>3 DEF Quiet
<1>4. CASE UNCHANGED clients
  BY <1>3, <1>4
<1>5. ASSUME NEW i, NEW holders, FlagAll(i, holders) PROVE Quiet(s)
  BY <1>2, <1>3, <1>5 DEF FlagAll, Flag, ClientType
<1>6. CASE sensor_controller_device_thread_func
  BY <1>4, <1>5, <1>6 DEF sensor_controller_device_thread_func,
     set_sensor_config_from_driver, ReadConfig,
     set_sc_device_status_from_driver, ReadStatus, set_sensor_state_from_driver, tell_sensor, TellStatus
<1>7. ASSUME NEW t \in Slots, Destroy(t) PROVE Quiet(s)
  <2>1. /\ clients' = [clients EXCEPT ![t] = Free] /\ clients[t].state # "Free"
        /\ clients \in [Slots -> ClientType]
    BY <1>7 DEF Destroy, Typed, ServerTypes
  <2>2. Free.state = "Free"
    BY DEF Free
  <2>3. CASE s = t
    <3>1. clients'[s].state # clients[s].state
      BY <2>1, <2>2, <2>3
    <3> QED
      BY <1>1, <3>1 DEF SameSlot, Quiet
  <2>4. CASE s # t
    BY <1>3, <2>1, <2>4
  <2> QED
    BY <2>3, <2>4
<1>8. ASSUME NEW t \in Slots, ClearFlag(t) PROVE Quiet(s)
  BY <1>2, <1>3, <1>8 DEF ClearFlag, Typed, ServerTypes, ClientType
<1>9. ASSUME NEW t \in Slots, Send(t, 0, {0}) PROVE Quiet(s)
  <2>1. /\ clients' = [clients EXCEPT ![t] = [Told(@, {0}) EXCEPT !.sent = {0}]]
        /\ clients \in [Slots -> ClientType]
    BY <1>9 DEF Send, Typed, ServerTypes
  <2>2. CASE s = t
    <3>1. clients'[s] = [Told(clients[s], {0}) EXCEPT !.sent = {0}]
      BY <2>1, <2>2
    <3>2. /\ Told(clients[s], {0}) \in ClientType
          /\ Told(clients[s], {0}).told[1] = IF 1 \in {0} THEN data[1] ELSE clients[s].told[1]
      BY ToldOne
    <3> QED
      BY <1>3, <3>1, <3>2 DEF ClientType
  <2>3. CASE s # t
    BY <1>3, <2>1, <2>3
  <2> QED
    BY <2>2, <2>3
<1>10. CASE SensorMoves
  BY <1>4, <1>10 DEF SensorMoves, UnitMoves
<1> QED
  BY <1>6, <1>7, <1>8, <1>9, <1>10 DEF SensorServer,
     sc_device_client_thread_func, destroy_sc_client

LEMMA LinkAnswerQuiet ==
    ASSUME Typed, SlotsInv, LinksInv, KeepStep, lost \subseteq lost', NEW t \in Slots, NEW items,
           1 \notin items \/ ~IsLink(clients[t].peer), Answer(t, items), NEW s \in Slots
    PROVE  Quiet(s)
<1>1. SameSlot(s) \/ EndedSlot(s)
  BY KeepSlots
<1>2. /\ clients' = [clients EXCEPT ![t] = [Told(@, items) EXCEPT !.logged = TRUE]]
      /\ clients \in [Slots -> ClientType]
  BY DEF Answer, Typed, ServerTypes
<1>3. CASE s # t
  BY <1>1, <1>2, <1>3 DEF Quiet
<1>4. CASE s = t
  <2>1. clients'[s] = [Told(clients[s], items) EXCEPT !.logged = TRUE]
    BY <1>2, <1>4
  <2>2. /\ Told(clients[s], items) \in ClientType
        /\ Told(clients[s], items).told[1] = IF 1 \in items THEN data[1] ELSE clients[s].told[1]
    BY ToldOne
  <2>3. IsLink(clients[s].peer) => clients'[s].told[1] = clients[s].told[1]
    BY <1>4, <2>1, <2>2 DEF ClientType
  <2> QED
    BY <1>1, <2>3 DEF Quiet
<1> QED
  BY <1>3, <1>4

LEMMA EndsQuiet ==
    ASSUME Typed, SlotsInv, LinksInv, KeepStep, lost \subseteq lost',
           (\E t \in Slots : ReaderEnds(t)) \/ SetDestroying \/ UNCHANGED clients, NEW s \in Slots
    PROVE  Quiet(s)
<1>1. SameSlot(s) \/ EndedSlot(s)
  BY KeepSlots
<1>2. clients[s] \in ClientType
  BY DEF Typed, ServerTypes
<1>3. \/ clients'[s] = clients[s] \/ clients'[s] = [clients[s] EXCEPT !.reading = FALSE]
      \/ clients'[s] = [clients[s] EXCEPT !.state = "Destroying", !.reading = FALSE]
  BY DEF ReaderEnds, SetDestroying, Typed, ServerTypes
<1>4. clients'[s].told[1] = clients[s].told[1]
  BY <1>2, <1>3 DEF ClientType
<1> QED
  BY <1>1, <1>4 DEF Quiet

LEMMA DoorStep ==
    LinkedInv /\ DoorInv /\ [LinkedNext]_allVars => DoorInv'
<1> SUFFICES ASSUME LinkedInv, DoorInv, [LinkedNext]_allVars PROVE DoorInv'
  OBVIOUS
<1>a. /\ Typed /\ SlotsInv /\ LinksInv
      /\ setup' = setup /\ lost \subseteq lost'
  BY NextServerStep, StepSetup, LostGrows DEF LinkedInv, ServerInv, Typed,
     ServerTypes
<1> SUFFICES ASSUME Kind("sc") PROVE DoorInv'
  BY <1>a DEF DoorInv, Kind
<1>0. /\ Typed /\ SlotsInv /\ LinksInv
      /\ setup' = setup /\ lost \subseteq lost'
      /\ ~Kind("tgs") /\ ~Kind("ppc")
  BY <1>a DEF Kind
<1>1. ASSUME \A s \in Slots : Quiet(s), \A p \in Peers : KeptFrames(p), door' = door PROVE DoorInv'
  BY <1>0, <1>1, QuietDoor
<1>2. ASSUME KeepStep, links' = links, door' = door,
             (\E t \in Slots : ReaderEnds(t)) \/ SetDestroying \/ UNCHANGED clients
      PROVE  DoorInv'
  BY <1>0, <1>1, <1>2, EndsQuiet DEF KeptFrames
<1>3. CASE Load \/ UNCHANGED allVars
  <2>1. links' = links /\ door' = door /\ UNCHANGED clients /\ UNCHANGED view
    BY <1>3 DEF Load, allVars, hs, server, poles, linkVars, forecourt, view
  <2> QED
    BY <1>2, <2>1 DEF KeepStep
<1>4. CASE OtherStops
  <2>1. links' = links /\ door' = door /\ SetDestroying
    BY <1>4 DEF OtherStops, forecourt, set_sc_clients_status_is_destroying,
       set_tgs_clients_status_is_destroying, set_ppc_clients_status_is_destroying
  <2> QED
    BY <1>2, <1>4, <2>1, OtherKeepStep
<1>5. CASE TankServer \/ SensorServer \/ PoleServer
  <2>1. SensorServer /\ links' = links /\ door' = door
    BY <1>0, <1>5 DEF TankServer, SensorServer, PoleServer, linkVars, forecourt
  <2>2. \A s \in Slots : Quiet(s)
    BY <1>0, <2>1, SensorQuiet
  <2> QED
    BY <1>1, <2>1, <2>2 DEF KeptFrames
<1>6. ASSUME NEW s \in Slots, NEW u \in Units, PushTank(s, u) \/ PushSensor(s, u) PROVE DoorInv'
  <2>1. PushSensor(s, u)
    BY <1>0, <1>6 DEF PushTank
  <2> QED
    BY <1>0, <2>1, PushDoor
<1>7. ASSUME NEW p \in Peers, SlotsOf(p) = {}, AcceptPeer(p), door' = door, lost' = lost,
             links'[p].frames = <<>>, \A q \in Peers \ {p} : links'[q] = links[q]
      PROVE  DoorInv'
  BY <1>0, <1>7, ComesDoor
<1>8. CASE Program
  <2>1. links' = links /\ door' = door /\ lost' = lost
    BY <1>8 DEF Program, linkVars, forecourt
  <2>2. \/ \E p \in setup.others : SlotsOf(p) = {} /\ AcceptPeer(p)
        \/ \E p \in setup.others : \E s \in SlotsOf(p) : KeepStep /\ \E items : Answer(s, items)
    <3>1. ASSUME NEW p \in setup.others, NEW s \in SlotsOf(p), NEW guid \in BOOLEAN,
                 sc_device_client_read_thread_func(s, guid), UNCHANGED poles
          PROVE  KeepStep /\ \E items : Answer(s, items)
      <4>1. Answers(s) /\ s \in Slots
        BY <1>0, <3>1 DEF sc_device_client_read_thread_func, ParseSCRequest,
           Login, Answers, poles, SlotsOf
      <4> QED
        BY <3>1, <4>1 DEF sc_device_client_read_thread_func, KeepStep
    <3> QED
      BY <1>0, <1>8, <3>1 DEF Program
  <2>3. ASSUME NEW p \in setup.others PROVE p \in Peers /\ ~IsLink(p) /\ links[p].frames = <<>>
    <3>1. p \in Peers /\ ~IsLink(p)
      BY <1>0, <2>3, UnitsFacts DEF IsLink, Typed, ServerTypes
    <3> QED
      BY <1>0, <3>1 DEF LinksInv, LinkInv
  <2>4. ASSUME NEW p \in setup.others, SlotsOf(p) = {}, AcceptPeer(p) PROVE DoorInv'
    BY <1>7, <2>1, <2>3, <2>4
  <2>5. ASSUME NEW p \in setup.others, NEW s \in SlotsOf(p), KeepStep, NEW items, Answer(s, items) PROVE DoorInv'
    <3>1. s \in Slots /\ ~IsLink(clients[s].peer)
      BY <2>3, <2>5 DEF SlotsOf
    <3>2. \A t \in Slots : Quiet(t)
      BY <1>0, <2>5, <3>1, LinkAnswerQuiet
    <3> QED
      BY <1>1, <2>1, <3>2 DEF KeptFrames
  <2> QED
    BY <2>2, <2>4, <2>5
<1>9. ASSUME NEW p \in Peers, connect_to_server_device(p) \/ reconnect_to_server_device(p) PROVE DoorInv'
  <2>1. /\ SlotsOf(p) = {} /\ AcceptPeer(p) /\ door' = door /\ lost' = lost
        /\ links'[p].frames = <<>> /\ \A q \in Peers \ {p} : links'[q] = links[q]
    BY <1>0, <1>9 DEF connect_to_server_device, reconnect_to_server_device,
       forecourt, NoLink, Typed, LinkTypes
  <2> QED
    BY <1>7, <2>1
<1>10. ASSUME NEW p \in Peers, connect_fails(p) \/ disconnect_server_devices(p) \/ LinkCloses(p) \/ price_update(p)
       PROVE DoorInv'
  <2>1. KeepStep /\ UNCHANGED clients /\ door' = door
    BY <1>10 DEF connect_fails, disconnect_server_devices, LinkCloses,
       price_update, hs, server, poles, KeepStep,
       view, forecourt
  <2>2. \A s \in Slots : Quiet(s)
    BY <1>0, <2>1, EndsQuiet
  <2>3. ~price_update(p)
    BY <1>0 DEF price_update
  <2>4. links[p] \in LinkType /\ \A q \in Peers \ {p} : links'[q] = links[q]
    BY <1>0, <1>10, <2>3 DEF connect_fails, disconnect_server_devices,
       LinkCloses, Typed, LinkTypes
  <2>5. links'[p].frames = links[p].frames
    <3>1. CASE connect_fails(p)
      BY <1>0, <2>4, <3>1 DEF connect_fails, LinkType, Typed, LinkTypes
    <3>2. CASE disconnect_server_devices(p)
      <4>1. CASE links[p].state = "closed"
        <5>1. links'[p] = NoLink
          BY <1>0, <3>2, <4>1 DEF disconnect_server_devices, Typed, LinkTypes
        <5> QED
          BY <1>0, <4>1, <5>1 DEF NoLink, LinksInv, LinkInv
      <4>2. CASE links[p].state # "closed"
        <5>1. links'[p] = [links[p] EXCEPT !.state = "leaving", !.bound = FALSE]
          BY <1>0, <3>2, <4>2 DEF disconnect_server_devices, Typed, LinkTypes
        <5> QED
          BY <2>4, <5>1 DEF LinkType
      <4> QED
        BY <4>1, <4>2
    <3>3. CASE LinkCloses(p)
      <4>1. links'[p] = [NoLink EXCEPT !.state = "closed"] /\ links[p].frames = <<>>
        BY <1>0, <3>3 DEF LinkCloses, Typed, LinkTypes
      <4> QED
        BY <4>1 DEF NoLink
    <3> QED
      BY <1>10, <2>3, <3>1, <3>2, <3>3
  <2> QED
    BY <1>1, <2>1, <2>2, <2>4, <2>5 DEF KeptFrames
<1>11. ASSUME NEW p \in Peers, LinkCut(p) \/ ThreadEnds(p) PROVE DoorInv'
  <2>1. KeepStep
    BY <1>11 DEF LinkCut, ThreadEnds, Break, Lose, SlotsOf, KeepStep, Ends,
       view, server, poles
  <2>2. /\ door' = door
        /\ (\E t \in Slots : ReaderEnds(t)) \/ UNCHANGED clients
    BY <1>11 DEF LinkCut, ThreadEnds, forecourt, SlotsOf
  <2>3. \A s \in Slots : Quiet(s)
    BY <1>0, <2>1, <2>2, EndsQuiet
  <2>4. Broken'
    BY <1>0, <1>11 DEF LinkCut, Break, Lose, ThreadEnds, LinksInv, LinkInv,
       Broken
  <2>5. links'[p].frames = <<>> /\ \A q \in Peers \ {p} : links'[q] = links[q]
    <3>1. CASE LinkCut(p)
      <4>1. links'[p] = [links[p] EXCEPT !.frames = <<>>, !.asked = <<>>] /\ links[p] \in LinkType
        BY <1>0, <3>1 DEF LinkCut, Typed, LinkTypes
      <4>2. links'[p].frames = <<>>
        BY <4>1 DEF LinkType
      <4> QED
        BY <1>0, <3>1, <4>2 DEF LinkCut, Typed, LinkTypes
    <3>2. CASE ThreadEnds(p)
      BY <1>0, <3>2 DEF ThreadEnds, NoLink, Typed, LinkTypes
    <3> QED
      BY <1>11, <3>1, <3>2
  <2>6. ASSUME NEW s \in Slots, clients'[s].peer = p PROVE ~clients'[s].reading
    <3>1. CASE \E t \in SlotsOf(p) : ReaderEnds(t)
      <4>1. PICK t \in SlotsOf(p) : ReaderEnds(t)
        BY <3>1
      <4>2. t \in Slots /\ clients[t].peer = p /\ p # Nobody
        BY <1>0, <4>1, UnitsFacts DEF SlotsOf, Typed, ServerTypes
      <4>3. /\ clients'[t] = [clients[t] EXCEPT !.reading = FALSE] /\ clients[t] \in ClientType
            /\ \A r \in Slots \ {t} : clients'[r] = clients[r]
        BY <1>0, <4>1, <4>2 DEF ReaderEnds, Typed, ServerTypes
      <4>4. s = t
        BY <1>0, <2>6, <4>2, <4>3 DEF SlotsInv
      <4> QED
        BY <4>3, <4>4 DEF ClientType
    <3>2. CASE (\A t \in SlotsOf(p) : ~clients[t].reading) /\ UNCHANGED clients
      BY <2>6, <3>2 DEF SlotsOf
    <3> QED
      BY <1>11, <3>1, <3>2 DEF LinkCut, ThreadEnds
  <2> QED
    BY <1>1, <2>2, <2>3, <2>4, <2>5, <2>6 DEF KeptFrames
<1>12. ASSUME NEW p \in Peers, ReadLink(p) PROVE DoorInv'
  <2>1. KeepStep /\ door' = door
    BY <1>12, ReadKeepStep DEF ReadLink, forecourt
  <2>2. PICK s \in Slots, items \in {{}, {0}} : Answer(s, items) /\ 1 \notin items
    <3>1. PICK s \in Slots : Answer(s, {}) \/ Answer(s, {0})
      BY <1>12 DEF ReadLink, SlotsOf, PPSetPrices
    <3> QED
      BY <3>1
  <2>3. \A t \in Slots : Quiet(t)
    BY <1>0, <2>1, <2>2, LinkAnswerQuiet
  <2>4. \A q \in Peers : KeptFrames(q)
    <3>1. links' = [links EXCEPT ![p].asked = Tail(@)] /\ links \in [Peers -> LinkType]
      BY <1>0, <1>12 DEF ReadLink, Typed, LinkTypes
    <3>2. links'[p] = [links[p] EXCEPT !.asked = Tail(@)] /\ \A q \in Peers \ {p} : links'[q] = links[q]
      BY <3>1
    <3> QED
      BY <3>1, <3>2 DEF KeptFrames, LinkType
  <2> QED
    BY <1>1, <2>1, <2>3, <2>4
<1>13. ASSUME NEW p \in Peers, ParseSensorDataFrame(p) PROVE DoorInv'
  BY <1>0, <1>13, ParseDoor
<1> QED
  BY <1>0, <1>3, <1>4, <1>5, <1>6, <1>8, <1>9, <1>10, <1>11, <1>12, <1>13
  DEF LinkedNext, tgs_device_func, sc_device_func, ppc_device_func,
      ParseSCFrame, ParseSCDataFrame, RecvReturnsNothing

LEMMA DoorInit == LinkedInit => DoorInv
<1> SUFFICES ASSUME LinkedInit PROVE DoorInv
  OBVIOUS
<1>1. /\ \A s \in Slots : clients[s].count = 0 /\ ~clients[s].reading
      /\ \A p \in Peers : links[p].frames = <<>>
  BY DEF LinkedInit, DeviceInit, LinksInit, Free, NoLink
<1> QED
  BY <1>1 DEF DoorInv, Watching

LEMMA FaithfulDoor == LinkedInv /\ DoorInv => DoorFollows
<1> SUFFICES ASSUME LinkedInv, DoorInv, Kind("sc"), Watching # {},
                    \A s \in Watching : /\ clients[s].reading /\ Settled(s, 1)
                                        /\ links[clients[s].peer].frames = <<>>,
                    Broken => OneLink
             PROVE  door = data[1] \/ \E s \in Watching : 1 \in clients[s].missed
  BY DEF DoorFollows, Broken, OneLink
<1>1. PICK s \in Watching : Faithful(s)
  BY DEF DoorInv
<1>2. /\ s \in Slots /\ clients[s] \in ClientType /\ clients[s].count > 0 /\ Typed
      /\ data[1] \in Values /\ 1 \in Units
  BY UnitsFacts DEF Watching, LinkedInv, ServerInv, Typed, ServerTypes
<1>3. Drained(FramesOf(s))
  BY <1>1 DEF Drained, FramesOf
<1>4. clients[s].told[1] \in {Unknown, door}
  BY <1>1, <1>3 DEF Faithful
<1>5. 1 <= clients[s].count
  BY <1>2, UnitsFacts DEF ClientType, Typed, ServerTypes
<1>6. Knows(s, 1, 1)
  BY <1>1, <1>2, <1>5, HeardTold DEF LinkedInv, ClientsTold
<1> QED
  BY <1>1, <1>2, <1>4, <1>6 DEF Knows, Unknown, Values

-----------------------------------------------------------------------------
(* 7. Gauges: the value shown is the value read last (GaugesFollow).       *)

\* Link p has set the record of tank u and not yet its gauge.
Halfway(p, u) == links[p].half # <<>> /\ links[p].half[1] = u

(* Whoever is between the two records of a tank will set the gauge to what *)
(* the tank is, and is alone; elsewhere the two agree.                     *)
GaugeInv ==
    "crossed" \notin lost =>
    /\ \A p \in Peers, u \in Units : Halfway(p, u) => links[p].half[2] = tanks[u]
    /\ \A p, q \in Peers, u \in Units : Halfway(p, u) /\ Halfway(q, u) => p = q
    /\ \A u \in Units : (\A p \in Peers : ~Halfway(p, u)) => gauges[u] = tanks[u]

LEMMA KeptGauges ==
    ASSUME GaugeInv, setup' = setup, lost \subseteq lost', tanks' = tanks, gauges' = gauges,
           \A p \in Peers : links'[p].half = links[p].half
    PROVE  GaugeInv'
<1>1. Units' = Units /\ ("crossed" \notin lost' => "crossed" \notin lost)
  BY DEF Units
<1> QED
  BY <1>1 DEF GaugeInv, Halfway

LEMMA TankGauges ==
    ASSUME Typed, GaugeInv, setup' = setup, lost \subseteq lost', NEW p \in Peers, ParseTankDataFrame(p)
    PROVE  GaugeInv'
<1> DEFINE f == Head(links[p].frames)
<1>1. /\ f \in Frames /\ links[p].half = <<>>
      /\ tanks' = [tanks EXCEPT ![f[1]] = f[2]] /\ gauges' = gauges
      /\ "crossed" \notin lost' => \A q \in Peers : ~Halfway(q, f[1])
  BY DEF ParseTankDataFrame, Typed, LinkTypes, LinkType, Lose, Halfway
<1>2. links'[p].half = f /\ \A q \in Peers \ {p} : links'[q] = links[q]
  <2>1. /\ links' = [links EXCEPT ![p].frames = Tail(@), ![p].half = f]
        /\ links \in [Peers -> LinkType]
    BY DEF ParseTankDataFrame, Typed, LinkTypes
  <2>2. links'[p] = [links[p] EXCEPT !.frames = Tail(@), !.half = f] /\ \A q \in Peers \ {p} : links'[q] = links[q]
    BY <2>1
  <2> QED
    BY <2>1, <2>2 DEF LinkType
<1> HIDE DEF f
<1>3. Units' = Units /\ f[1] \in Units /\ tanks \in [Units -> Values] /\ f # <<>>
  <2>1. f[1] \in Units /\ f # <<>>
    BY <1>1 DEF Frames, Halfway, set_gauge_state
  <2>2. Units' = Units
    BY DEF Units
  <2> QED
    BY <2>1, <2>2 DEF Typed, LinkTypes
<1> SUFFICES ASSUME "crossed" \notin lost' PROVE GaugeInv'
  BY DEF GaugeInv
<1>4. "crossed" \notin lost /\ \A q \in Peers : ~Halfway(q, f[1])
  BY <1>1
<1>5. ASSUME NEW q \in Peers, NEW u \in Units
      PROVE  Halfway(q, u)' <=> (q = p /\ u = f[1]) \/ (Halfway(q, u) /\ q # p /\ u # f[1])
  BY <1>1, <1>2, <1>3, <1>4 DEF Halfway
<1>6. ASSUME NEW q \in Peers, NEW u \in Units, Halfway(q, u)' PROVE links'[q].half[2] = tanks'[u]
  <2>1. CASE q = p
    BY <1>1, <1>2, <1>3, <1>5, <1>6, <2>1
  <2>2. CASE q # p
    BY <1>1, <1>2, <1>3, <1>4, <1>5, <1>6, <2>2 DEF GaugeInv
  <2> QED
    BY <2>1, <2>2
<1>7. ASSUME NEW q \in Peers, NEW r \in Peers, NEW u \in Units, Halfway(q, u)', Halfway(r, u)' PROVE q = r
  BY <1>4, <1>5, <1>7 DEF GaugeInv
<1>8. ASSUME NEW u \in Units, \A q \in Peers : ~Halfway(q, u)' PROVE gauges'[u] = tanks'[u]
  <2>1. u # f[1] /\ \A q \in Peers : ~Halfway(q, u)
    <3>1. u # f[1]
      BY <1>5, <1>8
    <3>2. ~Halfway(p, u)
      BY <1>1 DEF Halfway
    <3> QED
      BY <1>5, <1>8, <3>1, <3>2
  <2> QED
    BY <1>1, <1>3, <1>4, <2>1 DEF GaugeInv
<1> QED
  BY <1>3, <1>6, <1>7, <1>8 DEF GaugeInv

LEMMA HalfGauges ==
    ASSUME Typed, GaugeInv, setup' = setup, lost \subseteq lost', NEW p \in Peers, set_gauge_state(p)
    PROVE  GaugeInv'
<1> DEFINE f == links[p].half
<1>1. /\ f \in Frames /\ f # <<>>
      /\ gauges' = [gauges EXCEPT ![f[1]] = f[2]] /\ tanks' = tanks
  BY DEF set_gauge_state, Typed, LinkTypes, LinkType
<1>2. links'[p].half = <<>> /\ \A q \in Peers \ {p} : links'[q] = links[q]
  <2>1. links' = [links EXCEPT ![p].half = <<>>] /\ links \in [Peers -> LinkType]
    BY DEF set_gauge_state, Typed, LinkTypes
  <2>2. links'[p] = [links[p] EXCEPT !.half = <<>>] /\ \A q \in Peers \ {p} : links'[q] = links[q]
    BY <2>1
  <2> QED
    BY <2>2 DEF LinkType
<1>3. Halfway(p, f[1]) /\ \A u \in Units : Halfway(p, u) => u = f[1]
  BY <1>1 DEF Halfway
<1> HIDE DEF f
<1>4. Units' = Units /\ f[1] \in Units /\ gauges \in [Units -> Values]
  BY <1>1 DEF Units, Frames, Typed, LinkTypes
<1> SUFFICES ASSUME "crossed" \notin lost' PROVE GaugeInv'
  BY DEF GaugeInv
<1>5. "crossed" \notin lost
  OBVIOUS
<1>6. ASSUME NEW q \in Peers, NEW u \in Units
      PROVE  Halfway(q, u)' <=> Halfway(q, u) /\ q # p
  BY <1>2 DEF Halfway
<1>7. ASSUME NEW q \in Peers, NEW u \in Units, Halfway(q, u)' PROVE links'[q].half[2] = tanks'[u]
  BY <1>1, <1>2, <1>5, <1>6, <1>7 DEF GaugeInv
<1>8. ASSUME NEW q \in Peers, NEW r \in Peers, NEW u \in Units, Halfway(q, u)', Halfway(r, u)' PROVE q = r
  BY <1>5, <1>6, <1>8 DEF GaugeInv
<1>9. ASSUME NEW u \in Units, \A q \in Peers : ~Halfway(q, u)' PROVE gauges'[u] = tanks'[u]
  <2>1. CASE u = f[1]
    <3>1. f[2] = tanks[u]
      BY <1>3, <1>5, <2>1 DEF GaugeInv, f
    <3> QED
      BY <1>1, <1>4, <2>1, <3>1
  <2>2. CASE u # f[1]
    <3>1. \A q \in Peers : ~Halfway(q, u)
      BY <1>3, <1>6, <1>9, <2>2
    <3> QED
      BY <1>1, <1>4, <1>5, <2>2, <3>1 DEF GaugeInv
  <2> QED
    BY <2>1, <2>2
<1> QED
  BY <1>4, <1>7, <1>8, <1>9 DEF GaugeInv

LEMMA GaugeStep == LinkedInv /\ GaugeInv /\ [LinkedNext]_allVars => GaugeInv'
<1> SUFFICES ASSUME LinkedInv, GaugeInv, [LinkedNext]_allVars PROVE GaugeInv'
  OBVIOUS
<1>0. Typed /\ LinksInv /\ setup' = setup /\ lost \subseteq lost'
  BY NextServerStep, StepSetup, LostGrows DEF LinkedInv, ServerInv, Typed,
     ServerTypes
<1>1. ASSUME tanks' = tanks, gauges' = gauges, links' = links PROVE GaugeInv'
  BY <1>0, <1>1, KeptGauges
<1>2. ASSUME tanks' = tanks, gauges' = gauges, NEW p \in Peers,
             links'[p].half = links[p].half, \A q \in Peers \ {p} : links'[q] = links[q]
      PROVE  GaugeInv'
  BY <1>0, <1>2, KeptGauges
<1>3. CASE Load \/ Program \/ TankServer \/ SensorServer \/ PoleServer \/ OtherStops \/ UNCHANGED allVars
  BY <1>1, <1>3 DEF Load, Program, TankServer, SensorServer, PoleServer,
     OtherStops, allVars, linkVars, forecourt
<1>4. ASSUME NEW s \in Slots, NEW u \in Units, PushTank(s, u) \/ PushSensor(s, u) PROVE GaugeInv'
  <2>1. \/ links' = links
        \/ /\ IsLink(clients[s].peer)
           /\ links' = [links EXCEPT ![clients[s].peer].frames = Append(@, <<u, data[u]>>)]
    BY <1>4 DEF PushTank, PushSensor, Push
  <2>2. tanks' = tanks /\ gauges' = gauges
    BY <1>4 DEF PushTank, PushSensor, Push, forecourt
  <2>3. ASSUME NEW p \in Peers, links' = [links EXCEPT ![p].frames = Append(@, <<u, data[u]>>)] PROVE GaugeInv'
    <3>1. /\ links'[p] = [links[p] EXCEPT !.frames = Append(@, <<u, data[u]>>)] /\ links[p] \in LinkType
          /\ \A q \in Peers \ {p} : links'[q] = links[q]
      BY <1>0, <2>3 DEF Typed, LinkTypes
    <3>2. links'[p].half = links[p].half
      BY <3>1 DEF LinkType
    <3> QED
      BY <1>2, <2>2, <3>1, <3>2
  <2>4. IsLink(clients[s].peer) => clients[s].peer \in Peers
    BY <1>0, UnitsFacts DEF IsLink, Typed, ServerTypes
  <2> QED
    BY <1>1, <2>1, <2>2, <2>3, <2>4
<1>5. ASSUME NEW p \in Peers, \/ connect_to_server_device(p) \/ connect_fails(p) \/ reconnect_to_server_device(p)
                              \/ LinkCloses(p) \/ disconnect_server_devices(p) \/ ThreadEnds(p)
      PROVE  GaugeInv'
  <2>1. links[p] \in LinkType /\ LinkInv(p)
    BY <1>0 DEF Typed, LinkTypes, LinksInv
  <2>2. /\ tanks' = tanks /\ gauges' = gauges
        /\ \A q \in Peers \ {p} : links'[q] = links[q]
    BY <1>0, <1>5 DEF connect_to_server_device, connect_fails,
       reconnect_to_server_device, LinkCloses,
       disconnect_server_devices, ThreadEnds, forecourt, Typed, LinkTypes
  <2>3. \/ links'[p] = [links[p] EXCEPT !.state = "closed"]
        \/ links'[p] = [links[p] EXCEPT !.state = "leaving", !.bound = FALSE]
        \/ links[p].half = <<>> /\ links'[p].half = <<>>
    <3>1. NoLink.half = <<>>
      BY DEF NoLink
    <3>2. CASE connect_to_server_device(p) \/ reconnect_to_server_device(p) \/ LinkCloses(p) \/ ThreadEnds(p)
      <4>1. links[p].half = <<>>
        BY <2>1, <3>2 DEF connect_to_server_device, reconnect_to_server_device,
           LinkCloses, ThreadEnds, LinkInv
      <4>2. \/ links'[p] = [NoLink EXCEPT !.state = "open", !.bound = TRUE, !.asked = <<<<"status">>>>]
            \/ links'[p] = [NoLink EXCEPT !.state = "open"]
            \/ links'[p] = [NoLink EXCEPT !.state = "closed"]
            \/ links'[p] = NoLink
        BY <1>0, <3>2 DEF connect_to_server_device, reconnect_to_server_device,
           LinkCloses, ThreadEnds,
           Typed, LinkTypes
      <4>3. /\ [NoLink EXCEPT !.state = "open", !.bound = TRUE, !.asked = <<<<"status">>>>].half = <<>>
            /\ [NoLink EXCEPT !.state = "open"].half = <<>>
            /\ [NoLink EXCEPT !.state = "closed"].half = <<>>
        BY DEF NoLink
      <4>4. links'[p].half = <<>>
        BY <3>1, <4>2, <4>3
      <4> QED
        BY <4>1, <4>4
    <3>3. CASE connect_fails(p)
      BY <1>0, <3>3 DEF connect_fails, Typed, LinkTypes
    <3>4. CASE disconnect_server_devices(p)
      <4>1. CASE links[p].state = "closed"
        BY <1>0, <2>1, <3>1, <3>4, <4>1 DEF disconnect_server_devices, Typed,
           LinkTypes, LinkInv
      <4>2. CASE links[p].state # "closed"
        BY <1>0, <3>4, <4>2 DEF disconnect_server_devices, Typed, LinkTypes
      <4> QED
        BY <4>1, <4>2
    <3> QED
      BY <1>5, <3>2, <3>3, <3>4
  <2>4. links'[p].half = links[p].half
    BY <2>1, <2>3 DEF LinkType
  <2> QED
    BY <1>2, <2>2, <2>4
<1>6. ASSUME NEW p \in Peers, LinkCut(p) \/ ReadLink(p) \/ price_update(p) \/ ParseSensorDataFrame(p)
      PROVE  GaugeInv'
  <2>1. tanks' = tanks /\ gauges' = gauges
    BY <1>6 DEF LinkCut, ReadLink, price_update, ParseSensorDataFrame,
       forecourt
  <2>2. \/ links' = [links EXCEPT ![p].frames = <<>>, ![p].asked = <<>>]
        \/ links' = [links EXCEPT ![p].asked = Tail(@)]
        \/ links' = [links EXCEPT ![p].asked = Append(@, <<"prices", price'>>)]
        \/ links' = [links EXCEPT ![p].frames = Tail(@)]
        \/ links' = links
    BY <1>6 DEF LinkCut, ReadLink, price_update, ParseSensorDataFrame
  <2>3. links \in [Peers -> LinkType] /\ links[p] \in LinkType
    BY <1>0 DEF Typed, LinkTypes
  <2>4. \/ links'[p] = [links[p] EXCEPT !.frames = <<>>, !.asked = <<>>]
        \/ links'[p] = [links[p] EXCEPT !.asked = Tail(@)]
        \/ links'[p] = [links[p] EXCEPT !.asked = Append(@, <<"prices", price'>>)]
        \/ links'[p] = [links[p] EXCEPT !.frames = Tail(@)]
        \/ links'[p] = links[p]
    BY <2>2, <2>3
  <2>5. links'[p].half = links[p].half
    BY <2>3, <2>4 DEF LinkType
  <2>6. \A q \in Peers \ {p} : links'[q] = links[q]
    BY <2>2, <2>3
  <2> QED
    BY <1>2, <2>1, <2>5, <2>6
<1>7. ASSUME NEW p \in Peers, ParseTankDataFrame(p) \/ set_gauge_state(p) PROVE GaugeInv'
  BY <1>0, <1>7, TankGauges, HalfGauges
<1> QED
  BY <1>3, <1>4, <1>5, <1>6, <1>7
  DEF LinkedNext, tgs_device_func, sc_device_func, ppc_device_func, ParseTGSFrame, ParseTGSDataFrame,
      ParseSCFrame, ParseSCDataFrame, RecvReturnsNothing

LEMMA GaugeInit == LinkedInit => GaugeInv
  BY DEF LinkedInit, LinksInit, GaugeInv, Halfway, NoLink

LEMMA SetGauges == LinkedInv /\ GaugeInv => GaugesFollow
<1> SUFFICES ASSUME LinkedInv, GaugeInv, \A p \in Peers : links[p].half = <<>>, "crossed" \notin lost
             PROVE  gauges = tanks
  BY DEF GaugesFollow
<1>1. \A u \in Units : gauges[u] = tanks[u]
  BY DEF GaugeInv, Halfway
<1> QED
  BY <1>1 DEF LinkedInv, ServerInv, Typed, LinkTypes

(* What pss keeps of tanks, gauges and the door follows what its links read. *)
THEOREM LinksFollow == LinkedSpec => []PssFollows
<1> DEFINE PssInv == LinkedInv /\ DoorInv /\ GaugeInv
<1>1. LinkedInit => PssInv
  BY LinkedInvInit, DoorInit, GaugeInit
<1>2. PssInv /\ [LinkedNext]_allVars => PssInv'
  BY LinkedInvStep, DoorStep, GaugeStep
<1>3. PssInv => PssFollows
  BY FaithfulDoor, SetGauges DEF PssFollows
<1> QED
  BY <1>1, <1>2, <1>3, PTL DEF LinkedSpec

-----------------------------------------------------------------------------
(* 8. Commands of the price poles: whose command a slot holds.             *)

Gone(k) == \E j \in Asks : j < k /\ asks[j].told = "gone"
GoneUpTo(k) == \E j \in Asks : j <= k /\ asks[j].told = "gone"
Matches(k, result) == result = asks[k].outcome \/ Gone(k)

\* A request waits in a slot unanswered; a result without one is of a client that has gone.
Waits(s) ==
    /\ commands[s].ask # 0 =>
         /\ commands[s].ask \in Asks /\ asks[commands[s].ask].told = "none"
         /\ commands[s].state = "Complete" => Matches(commands[s].ask, commands[s].result)
         /\ commands[s].state = "New" => asks[commands[s].ask].outcome = "none"
    /\ commands[s].ask = 0 =>
         /\ commands[s].state \in {"Free", "Complete"}
         /\ commands[s].state = "Complete" => \E j \in Asks : asks[j].told = "gone"

\* What the client's thread took is of the request in its slot, or of one that has gone.
Takes(s) ==
    fetched[s].got =>
      /\ fetched[s].ask # 0 => /\ commands[s].ask = fetched[s].ask /\ commands[s].state = "Complete"
                               /\ Matches(fetched[s].ask, fetched[s].result)
      /\ fetched[s].ask = 0 =>
           \E j \in Asks : asks[j].told = "gone" /\ (commands[s].ask = 0 \/ j < commands[s].ask)

\* The driver works for a slot that has the request still, or whose client has gone.
Runs(s, k) ==
    /\ asks[k].outcome = "none"
    /\ commands[s].ask = 0 \/ commands[s].ask >= k
    /\ commands[s].state # "Complete"
    /\ \A t \in Slots : commands[t].ask = k => t = s /\ commands[t].state = "Run"
    /\ commands[s].ask = k \/ GoneUpTo(k)
RunInv == place[1] = "run" => \E s \in Slots, k \in Asks : place = <<"run", s, k>> /\ Runs(s, k)

Apart == \A s, t \in Slots : commands[s].ask = commands[t].ask /\ commands[s].ask # 0 => s = t

CommandInv ==
    /\ \A s \in Slots : Waits(s) /\ Takes(s)
    /\ RunInv /\ Apart /\ PriceAnswers

Tables == commands \in [Slots -> CommandType] /\ fetched \in [Slots -> FetchedType] /\ asks \in Seq(AskType)

LEMMA AsksSet ==
    ASSUME asks \in Seq(AskType)
    PROVE  /\ Asks = 1 .. Len(asks) /\ Len(asks) \in Nat /\ 0 \notin Asks /\ Asks \subseteq Nat
           /\ \A k \in Asks : asks[k] \in AskType
  BY DEF Asks

\* A step that leaves the requests alone, and the slots but s.
LEMMA FindCommand == Tables /\ CommandInv /\ find_ppc_client_command => CommandInv'
<1> SUFFICES ASSUME Tables, CommandInv, find_ppc_client_command PROVE CommandInv'
  OBVIOUS
<1>1. asks' = asks /\ fetched' = fetched /\ Asks' = Asks /\ \A k : Gone(k)' = Gone(k) /\ GoneUpTo(k)' = GoneUpTo(k)
  BY DEF find_ppc_client_command, Asks, Gone, GoneUpTo
<1>2. CASE commands' = commands /\ place'[1] # "run"
  BY <1>1, <1>2 DEF CommandInv, Waits, Takes, Matches, RunInv, Apart,
     PriceAnswers, Asked
<1>3. ASSUME NEW s \in Slots, New(s), commands' = [commands EXCEPT ![s].state = "Run"],
             place' = <<"run", s, commands[s].ask>>
      PROVE  CommandInv'
  <2>1. /\ commands'[s] = [commands[s] EXCEPT !.state = "Run"] /\ commands[s] \in CommandType
        /\ \A t \in Slots \ {s} : commands'[t] = commands[t]
    BY <1>3 DEF Tables
  <2>2. /\ commands'[s].state = "Run" /\ commands'[s].ask = commands[s].ask /\ commands'[s].result = commands[s].result
        /\ commands[s].state = "New" /\ commands[s].ask # 0
    BY <1>3, <2>1 DEF CommandType, New
  <2>3. /\ Waits(s) /\ Takes(s) /\ commands[s].ask \in Asks
        /\ asks[commands[s].ask].outcome = "none" /\ commands[s].ask \in Nat
    BY <2>2, AsksSet DEF CommandInv, Waits, Tables
  <2>4. ASSUME NEW t \in Slots PROVE Waits(t)' /\ Takes(t)'
    <3>1. CASE t = s
      BY <1>1, <2>2, <2>3, <3>1 DEF Waits, Takes, Matches
    <3>2. CASE t # s
      BY <1>1, <2>1, <3>2 DEF CommandInv, Waits, Takes, Matches
    <3> QED
      BY <3>1, <3>2
  <2>0. PICK k \in Asks : k = commands[s].ask
    BY <2>3
  <2>5. Runs(s, k)'
    <3>1. \A t \in Slots : commands[t].ask = k => t = s
      BY <2>0, <2>2 DEF CommandInv, Apart
    <3>2. ASSUME NEW t \in Slots, commands'[t].ask = k PROVE t = s /\ commands'[t].state = "Run"
      <4>1. t # s => commands'[t] = commands[t]
        BY <2>1
      <4>2. t = s
        BY <3>1, <3>2, <4>1
      <4> QED
        BY <2>2, <4>2
    <3> QED
      BY <1>1, <2>0, <2>2, <2>3, <3>2 DEF Runs
  <2>6. RunInv'
    BY <1>1, <1>3, <2>0, <2>5 DEF RunInv
  <2>7. Apart'
    <3>1. \A t \in Slots : commands'[t].ask = commands[t].ask
      BY <2>1, <2>2
    <3> QED
      BY <3>1 DEF CommandInv, Apart
  <2>8. PriceAnswers'
    BY <1>1 DEF CommandInv, PriceAnswers, Asked
  <2> QED
    BY <2>4, <2>6, <2>7, <2>8 DEF CommandInv
<1>4. FirstUnit[1] # "run"
  BY DEF FirstUnit
<1> QED
  BY <1>2, <1>3, <1>4 DEF find_ppc_client_command

LEMMA RunCommand ==
    ASSUME Tables, CommandInv, NEW s \in Slots, NEW k \in Asks, set_ppc_client_command_result(s, k)
    PROVE  CommandInv'
<1>1. PICK result \in {"NoError", "Error"} :
          /\ asks' = [asks EXCEPT ![k].outcome = result]
          /\ commands' = [commands EXCEPT ![s].result = result, ![s].state = "Complete"]
  BY DEF set_ppc_client_command_result
<1>2. /\ fetched' = fetched /\ place'[1] # "run" /\ Runs(s, k)
  BY DEF set_ppc_client_command_result, FirstUnit, CommandInv, RunInv
<1>3. /\ Asks = 1 .. Len(asks) /\ Len(asks) \in Nat /\ 0 \notin Asks /\ Asks \subseteq Nat
      /\ \A j \in Asks : asks[j] \in AskType
  BY AsksSet DEF Tables
<1>4. /\ Asks' = Asks /\ asks'[k] = [asks[k] EXCEPT !.outcome = result]
      /\ \A j \in Asks \ {k} : asks'[j] = asks[j]
  BY <1>1, <1>3 DEF Asks
<1>5. \A j \in Asks : /\ asks'[j].told = asks[j].told
                      /\ asks'[j].outcome = IF j = k THEN result ELSE asks[j].outcome
  BY <1>3, <1>4 DEF AskType
<1>6. \A j : Gone(j)' = Gone(j) /\ GoneUpTo(j)' = GoneUpTo(j)
  BY <1>4, <1>5 DEF Gone, GoneUpTo
<1>7. /\ commands'[s] = [commands[s] EXCEPT !.result = result, !.state = "Complete"] /\ commands[s] \in CommandType
      /\ \A t \in Slots \ {s} : commands'[t] = commands[t]
  BY <1>1 DEF Tables
<1>8. commands'[s].state = "Complete" /\ commands'[s].ask = commands[s].ask /\ commands'[s].result = result
  BY <1>7 DEF CommandType
<1>9. ASSUME NEW t \in Slots PROVE Waits(t)' /\ Takes(t)'
  <2>0. Waits(t) /\ Takes(t)
    BY DEF CommandInv
  <2>1. CASE t = s
    <3>1. commands[s].ask # 0 => Matches(commands[s].ask, result)'
      <4>1. CASE commands[s].ask = k
        BY <1>5, <1>8, <4>1 DEF Matches
      <4>2. CASE commands[s].ask # 0 /\ commands[s].ask # k
        <5>1. commands[s].ask \in Nat /\ commands[s].ask > k
          BY <1>2, <1>3, <1>7, <4>2 DEF Runs, CommandType
        <5>2. Gone(commands[s].ask)
          BY <1>2, <1>3, <4>2, <5>1 DEF Runs, Gone, GoneUpTo
        <5> QED
          BY <1>6, <1>8, <5>2 DEF Matches, Gone
      <4> QED
        BY <4>1, <4>2
    <3>2. commands[s].ask = 0 => \E j \in Asks : asks[j].told = "gone"
      BY <1>2, <1>3 DEF Runs, GoneUpTo
    <3>3. Waits(s)'
      BY <1>4, <1>5, <1>8, <2>0, <2>1, <3>1, <3>2 DEF Waits, Matches
    <3>4. Takes(s)'
      <4>1. fetched[s].got => fetched[s].ask = 0
        BY <1>2, <2>0, <2>1 DEF Runs, Takes
      <4> QED
        BY <1>2, <1>4, <1>5, <1>8, <2>0, <2>1, <4>1 DEF Takes
    <3> QED
      BY <2>1, <3>3, <3>4
  <2>2. CASE t # s
    <3>1. commands[t].ask # k /\ commands'[t] = commands[t]
      BY <1>2, <1>7, <2>2 DEF Runs
    <3>2. fetched[t].got /\ fetched[t].ask # 0 => fetched[t].ask # k /\ fetched[t].ask \in Asks
      BY <2>0, <3>1 DEF Takes, Waits
    <3>3. Waits(t)'
      BY <1>4, <1>5, <1>6, <2>0, <3>1 DEF Waits, Matches
    <3>4. Takes(t)'
      BY <1>2, <1>4, <1>5, <1>6, <2>0, <3>1, <3>2 DEF Takes, Matches
    <3> QED
      BY <3>3, <3>4
  <2> QED
    BY <2>1, <2>2
<1>10. Apart'
  <2>1. \A t \in Slots : commands'[t].ask = commands[t].ask
    BY <1>7, <1>8
  <2> QED
    BY <2>1 DEF CommandInv, Apart
<1>11. PriceAnswers'
  <2>1. ASSUME NEW j \in Asks, asks[j].told \in {"NoError", "Error"}
        PROVE  asks'[j].told = asks'[j].outcome \/ \E i \in Asks : i < j /\ asks[i].told = "gone"
    <3>1. asks[j].told = asks[j].outcome \/ \E i \in Asks : i < j /\ asks[i].told = "gone"
      BY <2>1 DEF CommandInv, PriceAnswers, Asked
    <3> QED
      BY <1>2, <1>5, <2>1, <3>1 DEF Runs
  <2> QED
    BY <1>4, <1>5, <2>1 DEF PriceAnswers, Asked
<1> QED
  BY <1>2, <1>9, <1>10, <1>11 DEF CommandInv, RunInv

LEMMA TakeResult ==
    ASSUME Tables, CommandInv, NEW s \in Slots, get_ppc_client_command_result(s)
    PROVE  CommandInv'
<1>1. /\ asks' = asks /\ commands' = commands /\ place' = place /\ Asks' = Asks
      /\ \A k : Gone(k)' = Gone(k) /\ GoneUpTo(k)' = GoneUpTo(k)
  BY DEF get_ppc_client_command_result, server, Asks, Gone, GoneUpTo
<1>2. /\ fetched'[s] = [got |-> TRUE, ask |-> commands[s].ask, result |-> commands[s].result]
      /\ \A t \in Slots \ {s} : fetched'[t] = fetched[t]
      /\ commands[s].state = "Complete"
  BY DEF get_ppc_client_command_result, Tables
<1>3. ASSUME NEW t \in Slots PROVE Waits(t)' /\ Takes(t)'
  <2>1. Waits(t) /\ Takes(t)
    BY DEF CommandInv
  <2>2. CASE t = s
    BY <1>1, <1>2, <2>1, <2>2 DEF Waits, Takes, Matches
  <2>3. CASE t # s
    BY <1>1, <1>2, <2>1, <2>3 DEF Waits, Takes, Matches
  <2> QED
    BY <2>2, <2>3
<1>4. RunInv' /\ Apart' /\ PriceAnswers'
  BY <1>1 DEF CommandInv, RunInv, Runs, Apart, PriceAnswers, Asked
<1> QED
  BY <1>3, <1>4 DEF CommandInv

\* The slot of s loses its command, of which its client is told or which is gone.
LEMMA DropCommand ==
    ASSUME Tables, CommandInv, NEW s \in Slots,
           commands' = [commands EXCEPT ![s] = NoCommand], place' = place,
           ~fetched'[s].got, \A t \in Slots \ {s} : fetched'[t] = fetched[t],
           Asks' = Asks, \A j \in Asks : asks'[j].outcome = asks[j].outcome,
           \A j \in Asks : j # commands[s].ask => asks'[j].told = asks[j].told,
           \A k \in Asks : Runs(s, k) => GoneUpTo(k)',
           \A k \in Asks : k = commands[s].ask /\ asks'[k].told \in {"NoError", "Error"} =>
                              Matches(k, asks'[k].told)
    PROVE  CommandInv'
<1>1. /\ Asks = 1 .. Len(asks) /\ Len(asks) \in Nat /\ 0 \notin Asks /\ Asks \subseteq Nat
      /\ \A j \in Asks : asks[j] \in AskType
  BY AsksSet DEF Tables
<1>2. commands'[s].ask = 0 /\ commands'[s].state = "Free" /\ \A t \in Slots \ {s} : commands'[t] = commands[t]
  BY DEF Tables, NoCommand
<1>3. \A j \in Asks : asks[j].told = "gone" => asks'[j].told = "gone"
  BY <1>1 DEF CommandInv, Waits
<1>4. \A k : (Gone(k) => Gone(k)') /\ (GoneUpTo(k) => GoneUpTo(k)')
  BY <1>3 DEF Gone, GoneUpTo
<1>5. \A k \in Asks : \A result : Matches(k, result) => Matches(k, result)'
  BY <1>4 DEF Matches
<1>6. ASSUME NEW t \in Slots PROVE Waits(t)' /\ Takes(t)'
  <2>1. Waits(t) /\ Takes(t)
    BY DEF CommandInv
  <2>2. CASE t = s
    BY <1>1, <1>2, <2>2 DEF Waits, Takes
  <2>3. CASE t # s
    <3>1. commands[t].ask # 0 => commands[t].ask # commands[s].ask
      BY <2>3 DEF CommandInv, Apart
    <3>2. commands'[t] = commands[t] /\ fetched'[t] = fetched[t]
      BY <1>2, <2>3
    <3>3. Waits(t)'
      <4>1. CASE commands[t].ask # 0
        <5>1. PICK k \in Asks : k = commands[t].ask
          BY <2>1, <4>1 DEF Waits
        <5> QED
          BY <1>1, <1>5, <2>1, <3>1, <3>2, <4>1, <5>1 DEF Waits
      <4>2. CASE commands[t].ask = 0
        BY <1>3, <2>1, <3>2, <4>2 DEF Waits
      <4> QED
        BY <4>1, <4>2
    <3>4. Takes(t)'
      <4>1. CASE fetched[t].got /\ fetched[t].ask # 0
        <5>1. PICK k \in Asks : k = fetched[t].ask
          BY <2>1, <4>1 DEF Waits, Takes
        <5> QED
          BY <1>5, <2>1, <3>2, <4>1, <5>1 DEF Takes
      <4>2. CASE fetched[t].got /\ fetched[t].ask = 0
        BY <1>3, <2>1, <3>2, <4>2 DEF Takes
      <4>3. CASE ~fetched[t].got
        BY <3>2, <4>3 DEF Takes
      <4> QED
        BY <4>1, <4>2, <4>3
    <3> QED
      BY <3>3, <3>4
  <2> QED
    BY <2>2, <2>3
<1>7. RunInv'
  <2> SUFFICES ASSUME place[1] = "run" PROVE RunInv'
    BY DEF RunInv
  <2>1. PICK r \in Slots, k \in Asks : place = <<"run", r, k>> /\ Runs(r, k)
    BY DEF CommandInv, RunInv
  <2>2. k # 0 /\ asks'[k].outcome = "none"
    BY <1>1, <2>1 DEF Runs
  <2>3. \A t \in Slots : commands'[t].ask = k => t = r /\ commands'[t].state = "Run"
    BY <1>2, <2>1, <2>2 DEF Runs
  <2>4. Runs(r, k)'
    <3>1. CASE r = s
      BY <1>2, <2>1, <2>2, <2>3, <3>1 DEF Runs
    <3>2. CASE r # s
      BY <1>2, <1>4, <2>1, <2>2, <2>3, <3>2 DEF Runs
    <3> QED
      BY <3>1, <3>2
  <2> QED
    BY <2>1, <2>4 DEF RunInv
<1>8. Apart'
  BY <1>2 DEF CommandInv, Apart
<1>9. PriceAnswers'
  <2>1. ASSUME NEW k \in Asks, asks'[k].told \in {"NoError", "Error"}
        PROVE  asks'[k].told = asks'[k].outcome \/ Gone(k)'
    <3>1. Matches(k, asks'[k].told)
      <4>1. CASE k = commands[s].ask
        BY <2>1, <4>1
      <4>2. CASE k # commands[s].ask
        BY <2>1, <4>2 DEF CommandInv, PriceAnswers, Asked, Matches, Gone
      <4> QED
        BY <4>1, <4>2
    <3> QED
      BY <1>4, <3>1 DEF Matches
  <2> QED
    BY <2>1 DEF PriceAnswers, Asked, Gone
<1> QED
  BY <1>6, <1>7, <1>8, <1>9 DEF CommandInv

LEMMA ToldAsk ==
    ASSUME asks \in Seq(AskType), NEW k \in Asks, NEW t, asks' = [asks EXCEPT ![k].told = t]
    PROVE  /\ Asks' = Asks /\ asks'[k].told = t
           /\ \A j \in Asks : asks'[j].outcome = asks[j].outcome
           /\ \A j \in Asks : asks'[j].price = asks[j].price
           /\ \A j \in Asks : j # k => asks'[j].told = asks[j].told
<1>1. Asks = 1 .. Len(asks) /\ \A j \in Asks : asks[j] \in AskType
  BY AsksSet
<1>2. /\ Asks' = Asks /\ asks'[k] = [asks[k] EXCEPT !.told = t]
      /\ \A j \in Asks \ {k} : asks'[j] = asks[j]
  BY <1>1 DEF Asks
<1> QED
  BY <1>1, <1>2 DEF AskType

LEMMA ClearCommand ==
    ASSUME Tables, CommandInv, NEW s \in Slots, clear_ppc_client_command(s)
    PROVE  CommandInv'
<1>1. /\ Waits(s) /\ Takes(s) /\ fetched[s].got /\ place' = place
      /\ commands' = [commands EXCEPT ![s] = NoCommand]
      /\ ~fetched'[s].got /\ \A t \in Slots \ {s} : fetched'[t] = fetched[t]
  BY DEF clear_ppc_client_command, CommandInv, server, Tables, Nothing
<1>2. CASE fetched[s].ask = 0
  <2>1. asks' = asks /\ Asks' = Asks
    BY <1>2 DEF clear_ppc_client_command, Asks
  <2>2. ASSUME NEW k \in Asks, Runs(s, k) PROVE GoneUpTo(k)'
    <3>1. k # 0 /\ k \in Nat
      BY AsksSet DEF Tables
    <3>2. GoneUpTo(k)
      <4>1. CASE commands[s].ask = k
        <5>1. PICK j \in Asks : asks[j].told = "gone" /\ j < k
          BY <1>1, <1>2, <3>1, <4>1 DEF Takes
        <5>2. j \in Nat
          BY AsksSet DEF Tables
        <5> QED
          BY <3>1, <5>1, <5>2 DEF GoneUpTo
      <4> QED
        BY <2>2, <4>1 DEF Runs
    <3> QED
      BY <2>1, <3>2 DEF GoneUpTo
  <2>3. ASSUME NEW k \in Asks, k = commands[s].ask, asks'[k].told \in {"NoError", "Error"} PROVE FALSE
    BY <1>1, <2>1, <2>3, AsksSet DEF Waits, Tables
  <2> QED
    BY <1>1, <2>1, <2>2, <2>3, DropCommand
<1>3. CASE fetched[s].ask # 0
  <2>1. PICK k \in Asks : k = fetched[s].ask /\ k = commands[s].ask
    BY <1>1, <1>3 DEF Takes, Waits
  <2>2. asks' = [asks EXCEPT ![k].told = fetched[s].result]
    BY <1>3, <2>1 DEF clear_ppc_client_command
  <2>3. /\ Asks' = Asks /\ asks'[k].told = fetched[s].result
        /\ \A j \in Asks : asks'[j].outcome = asks[j].outcome
        /\ \A j \in Asks : asks'[j].price = asks[j].price
        /\ \A j \in Asks : j # k => asks'[j].told = asks[j].told
    BY <2>2, ToldAsk DEF Tables
  <2>4. \A j \in Asks : ~Runs(s, j)
    BY <1>1, <1>3 DEF Takes, Runs
  <2>5. Matches(k, asks'[k].told)
    BY <1>1, <1>3, <2>1, <2>3 DEF Takes
  <2> QED
    BY <1>1, <2>1, <2>3, <2>4, <2>5, DropCommand
<1> QED
  BY <1>2, <1>3

LEMMA DestroyCommand ==
    ASSUME Tables, CommandInv, NEW s \in Slots, destroy_ppc_client(s)
    PROVE  CommandInv'
<1>1. /\ Waits(s) /\ ~fetched'[s].got /\ place' = place
      /\ commands' = [commands EXCEPT ![s] = NoCommand]
      /\ \A t \in Slots \ {s} : fetched'[t] = fetched[t]
  BY DEF destroy_ppc_client, Destroy, CommandInv, server
<1>2. CASE commands[s].ask = 0
  <2>1. asks' = asks /\ Asks' = Asks
    BY <1>2 DEF destroy_ppc_client, Asks
  <2>2. ASSUME NEW k \in Asks, Runs(s, k) PROVE GoneUpTo(k)'
    BY <1>2, <2>1, <2>2, AsksSet DEF Runs, GoneUpTo, Tables
  <2>3. \A k \in Asks : k # commands[s].ask
    BY <1>2, AsksSet DEF Tables
  <2> QED
    BY <1>1, <2>1, <2>2, <2>3, DropCommand
<1>3. CASE commands[s].ask # 0
  <2>1. PICK k \in Asks : k = commands[s].ask
    BY <1>1, <1>3 DEF Waits
  <2>2. asks' = [asks EXCEPT ![k].told = "gone"]
    BY <1>3, <2>1 DEF destroy_ppc_client
  <2>3. /\ Asks' = Asks /\ asks'[k].told = "gone"
        /\ \A j \in Asks : asks'[j].outcome = asks[j].outcome
        /\ \A j \in Asks : asks'[j].price = asks[j].price
        /\ \A j \in Asks : j # k => asks'[j].told = asks[j].told
    BY <2>2, ToldAsk DEF Tables
  <2>4. ASSUME NEW j \in Asks, Runs(s, j) PROVE GoneUpTo(j)'
    <3>1. j \in Nat /\ k \in Nat
      BY AsksSet DEF Tables
    <3>2. CASE k = j
      BY <2>3, <3>1, <3>2 DEF GoneUpTo
    <3>3. CASE k # j
      <4>1. PICK i \in Asks : i <= j /\ asks[i].told = "gone"
        BY <2>1, <2>4, <3>3 DEF Runs, GoneUpTo
      <4>2. asks'[i].told = "gone"
        BY <2>3, <4>1
      <4> QED
        BY <2>3, <4>1, <4>2 DEF GoneUpTo
    <3> QED
      BY <3>2, <3>3
  <2> QED
    BY <1>1, <2>1, <2>3, <2>4, DropCommand
<1> QED
  BY <1>2, <1>3

LEMMA SetPrices ==
    ASSUME Tables, CommandInv, NEW s \in Slots, NEW guid, NEW v \in Price, NEW permitted,
           PPSetPrices(s, guid, v, permitted)
    PROVE  CommandInv'
<1> DEFINE n == Len(asks) + 1
<1>1. /\ Asks = 1 .. Len(asks) /\ Len(asks) \in Nat /\ 0 \notin Asks /\ Asks \subseteq Nat
  BY AsksSet DEF Tables
<1>2. /\ Asks' = Asks \cup {n} /\ \A j \in Asks : asks'[j] = asks[j]
      /\ asks'[n].outcome = "none" /\ asks'[n].told \in {"none", "refused"}
      /\ n \notin Asks /\ n # 0 /\ \A j \in Asks : j < n
  <2>1. PICK told \in {"none", "refused"} : asks' = Append(asks, NewAsk(v, told))
    BY DEF PPSetPrices
  <2>2. NewAsk(v, told).outcome = "none" /\ NewAsk(v, told).told = told
    BY DEF NewAsk
  <2>3. /\ DOMAIN asks' = 1 .. n /\ asks'[n] = NewAsk(v, told)
        /\ \A j \in 1 .. Len(asks) : asks'[j] = asks[j]
    BY <2>1 DEF Tables
  <2> QED
    BY <1>1, <2>2, <2>3 DEF Asks
<1>3. place' = place /\ fetched' = fetched
  BY DEF PPSetPrices, Answer, server
<1>4. \/ commands' = commands
      \/ /\ commands[s].ask = 0 /\ asks'[n].told = "none"
         /\ commands' = [commands EXCEPT ![s] = [state |-> "New", ask |-> n, result |-> "none"]]
  <2>1. Append(asks, NewAsk(v, "none"))[n].told = "none"
    BY DEF Tables, NewAsk
  <2> QED
    BY <2>1 DEF PPSetPrices
<1> HIDE DEF n
<1>5. \A k \in Asks : Gone(k)' = Gone(k) /\ GoneUpTo(k)' = GoneUpTo(k)
  BY <1>1, <1>2 DEF Gone, GoneUpTo
<1>6. \A k \in Asks : \A result : Matches(k, result)' = Matches(k, result)
  BY <1>2, <1>5 DEF Matches
<1>7. ASSUME NEW t \in Slots, commands'[t] = commands[t] PROVE Waits(t)' /\ Takes(t)'
  <2>1. Waits(t) /\ Takes(t) /\ fetched'[t] = fetched[t]
    BY <1>3 DEF CommandInv
  <2>2. Waits(t)'
    <3>1. CASE commands[t].ask # 0
      <4>1. PICK k \in Asks : k = commands[t].ask
        BY <2>1, <3>1 DEF Waits
      <4> QED
        BY <1>2, <1>6, <1>7, <2>1, <3>1, <4>1 DEF Waits
    <3>2. CASE commands[t].ask = 0
      BY <1>2, <1>7, <2>1, <3>2 DEF Waits
    <3> QED
      BY <3>1, <3>2
  <2>3. Takes(t)'
    <3>1. CASE fetched[t].got /\ fetched[t].ask # 0
      <4>1. PICK k \in Asks : k = fetched[t].ask
        BY <2>1, <3>1 DEF Takes, Waits
      <4> QED
        BY <1>2, <1>6, <1>7, <2>1, <3>1, <4>1 DEF Takes
    <3>2. CASE fetched[t].got /\ fetched[t].ask = 0
      BY <1>2, <1>7, <2>1, <3>2 DEF Takes
    <3>3. CASE ~fetched[t].got
      BY <2>1, <3>3 DEF Takes
    <3> QED
      BY <3>1, <3>2, <3>3
  <2> QED
    BY <2>2, <2>3
<1>8. PriceAnswers'
  <2>1. ASSUME NEW k \in Asks', asks'[k].told \in {"NoError", "Error"} PROVE asks'[k].told = asks'[k].outcome \/ Gone(k)'
    <3>1. k \in Asks /\ asks'[k] = asks[k]
      BY <1>2, <2>1
    <3>2. Matches(k, asks[k].told)
      BY <2>1, <3>1 DEF CommandInv, PriceAnswers, Asked, Matches, Gone
    <3> QED
      BY <1>5, <3>1, <3>2 DEF Matches
  <2> QED
    BY <2>1 DEF PriceAnswers, Asked, Gone
<1>9. ASSUME NEW r \in Slots, NEW k \in Asks, Runs(r, k) PROVE k \in Asks' /\ Runs(r, k)'
  <2>1. k # 0 /\ k # n /\ k < n /\ asks'[k] = asks[k]
    BY <1>1, <1>2
  <2>2. CASE commands' = commands
    BY <1>2, <1>5, <1>9, <2>1, <2>2 DEF Runs
  <2>3. CASE /\ commands[s].ask = 0
             /\ commands' = [commands EXCEPT ![s] = [state |-> "New", ask |-> n, result |-> "none"]]
    <3>1. /\ commands'[s].ask = n /\ commands'[s].state = "New"
          /\ \A t \in Slots \ {s} : commands'[t] = commands[t]
      BY <2>3 DEF Tables
    <3>2. n >= k /\ n # k
      BY <1>1, <2>1 DEF n
    <3>3. \A t \in Slots : commands'[t].ask = k => t = r /\ commands'[t].state = "Run"
      BY <1>9, <3>1, <3>2 DEF Runs
    <3>4. CASE r = s
      BY <1>2, <1>5, <1>9, <2>1, <2>3, <3>1, <3>2, <3>3, <3>4 DEF Runs
    <3>5. CASE r # s
      BY <1>2, <1>5, <1>9, <2>1, <3>1, <3>3, <3>5 DEF Runs
    <3> QED
      BY <3>4, <3>5
  <2> QED
    BY <1>4, <2>2, <2>3
<1>10. RunInv'
  BY <1>3, <1>9 DEF CommandInv, RunInv
<1>11. CASE commands' = commands
  BY <1>7, <1>8, <1>10, <1>11 DEF CommandInv, Apart
<1>12. CASE /\ commands[s].ask = 0 /\ asks'[n].told = "none"
            /\ commands' = [commands EXCEPT ![s] = [state |-> "New", ask |-> n, result |-> "none"]]
  <2>1. /\ commands'[s].ask = n /\ commands'[s].state = "New"
        /\ \A t \in Slots \ {s} : commands'[t] = commands[t]
    BY <1>12 DEF Tables
  <2>2. Waits(s)'
    BY <1>2, <1>12, <2>1 DEF Waits
  <2>3. Takes(s)'
    <3>1. fetched[s].got => fetched[s].ask = 0 /\ \E j \in Asks : asks[j].told = "gone"
      BY <1>12 DEF CommandInv, Takes
    <3> QED
      BY <1>2, <1>3, <2>1, <3>1 DEF Takes
  <2>4. \A t \in Slots : commands[t].ask # n
    BY <1>2 DEF CommandInv, Waits
  <2>5. Apart'
    BY <2>1, <2>4 DEF CommandInv, Apart
  <2> QED
    BY <1>7, <1>8, <1>10, <2>1, <2>2, <2>3, <2>5 DEF CommandInv
<1> QED
  BY <1>4, <1>11, <1>12

LEMMA CommandStep == Typed /\ CommandInv /\ PoleStep => CommandInv'
<1> SUFFICES ASSUME Typed, CommandInv, PoleStep PROVE CommandInv'
  OBVIOUS
<1>1. Tables
  BY DEF Typed, PoleTypes, Tables
<1>2. CASE UNCHANGED priced /\ (place' = place \/ place'[1] # "run")
  BY <1>2 DEF priced, CommandInv, Waits, Takes, Matches, Gone, GoneUpTo,
     RunInv, Runs, Apart, PriceAnswers, Asked, Asks
<1> QED
  BY <1>1, <1>2, FindCommand, RunCommand, TakeResult, ClearCommand,
     DestroyCommand, SetPrices DEF PoleStep

LEMMA CommandInit == LinkedInit => CommandInv
  BY DEF LinkedInit, PolesInit, DeviceInit, CommandInv, Waits, Takes, RunInv,
     Apart, PriceAnswers,
     Asked, Asks, NoCommand, Nothing

-----------------------------------------------------------------------------
(* 9. Prices: what a point of sale is answered is what it asked for.       *)

Fine == /\ lost = {} /\ setup.others = {}
        /\ \A k \in Asks : asks[k].outcome # "Error" /\ asks[k].told # "refused"

AsksPrices(p) == \E i \in DOMAIN links[p].asked : links[p].asked[i][1] = "prices"
Busy(s) == commands[s].state \in {"New", "Run"}
Quietly == \A p \in setup.pss : ~AsksPrices(p)

(* As long as nothing was lost: prices are under way for one point of sale *)
(* at most, the last it asked for is the price set last, and so is what    *)
(* the poles were given once nothing is under way.                         *)
PriceInv ==
    Kind("ppc") /\ Fine =>
    /\ \A s \in Slots : /\ clients[s].state # "Free" => IsLink(clients[s].peer)
                        /\ clients[s].state = "Free" => commands[s].ask = 0
    /\ \A k \in Asks : asks[k].told # "gone"
    /\ \A p, q \in setup.pss : PricesUnderWay(p) /\ PricesUnderWay(q) => p = q
    /\ \A p \in setup.pss : AsksPrices(p) => links[p].asked[Len(links[p].asked)] = <<"prices", price>>
    /\ Quietly => /\ \A s \in Slots : Busy(s) => asks[commands[s].ask].price = price
                  /\ Idle => ordered = price

\* What was answered with an error or refused is so for good.
LEMMA FineBefore ==
    ASSUME Tables, CommandInv, setup' = setup, lost \subseteq lost', PoleStep, Fine' PROVE Fine
<1>1. /\ Asks = 1 .. Len(asks) /\ Len(asks) \in Nat /\ 0 \notin Asks /\ Asks \subseteq Nat
      /\ \A j \in Asks : asks[j] \in AskType
  BY AsksSet DEF Tables
<1>2. lost = {} /\ setup.others = {}
  BY DEF Fine
<1> SUFFICES ASSUME NEW k \in Asks, asks[k].outcome = "Error" \/ asks[k].told = "refused" PROVE FALSE
  BY <1>2 DEF Fine
<1>3. ASSUME asks' = asks PROVE FALSE
  BY <1>3 DEF Fine, Asks
<1>4. ASSUME NEW s \in Slots, NEW j \in Asks, set_ppc_client_command_result(s, j) PROVE FALSE
  <2>1. asks[j].outcome = "none"
    BY <1>4 DEF set_ppc_client_command_result, CommandInv, RunInv, Runs
  <2>2. PICK result : asks' = [asks EXCEPT ![j].outcome = result]
    BY <1>4 DEF set_ppc_client_command_result
  <2>3. CASE k = j
    <3>1. asks'[k] = [asks[k] EXCEPT !.outcome = result] /\ k \in Asks'
      BY <1>1, <2>2, <2>3 DEF Asks
    <3>2. asks'[k].told = "refused"
      BY <1>1, <2>1, <2>3, <3>1 DEF AskType
    <3> QED
      BY <3>1, <3>2 DEF Fine
  <2>4. CASE k # j
    <3>1. asks'[k] = asks[k] /\ k \in Asks'
      BY <1>1, <2>2, <2>4 DEF Asks
    <3> QED
      BY <3>1 DEF Fine
  <2> QED
    BY <2>3, <2>4
<1>5. ASSUME NEW s \in Slots, NEW j \in Asks, j = commands[s].ask, NEW t, asks' = [asks EXCEPT ![j].told = t]
      PROVE  FALSE
  <2>1. asks[j].told = "none"
    BY <1>1, <1>5 DEF CommandInv, Waits
  <2>2. /\ Asks' = Asks /\ asks'[j].told = t
        /\ \A i \in Asks : asks'[i].outcome = asks[i].outcome
        /\ \A i \in Asks : asks'[i].price = asks[i].price
        /\ \A i \in Asks : i # j => asks'[i].told = asks[i].told
    BY <1>5, ToldAsk DEF Tables
  <2> QED
    BY <2>1, <2>2 DEF Fine
<1>6. ASSUME NEW s \in Slots, clear_ppc_client_command(s) PROVE FALSE
  <2>1. fetched[s].ask # 0 => fetched[s].ask = commands[s].ask /\ commands[s].ask \in Asks
    BY <1>6 DEF clear_ppc_client_command, CommandInv, Waits, Takes
  <2> QED
    BY <1>3, <1>5, <1>6, <2>1 DEF clear_ppc_client_command
<1>7. ASSUME NEW s \in Slots, destroy_ppc_client(s) PROVE FALSE
  <2>1. commands[s].ask # 0 => commands[s].ask \in Asks
    BY DEF CommandInv, Waits
  <2> QED
    BY <1>3, <1>5, <1>7, <2>1 DEF destroy_ppc_client
<1>8. ASSUME NEW a, asks' = Append(asks, a) PROVE FALSE
  <2>1. k \in DOMAIN Append(asks, a) /\ Append(asks, a)[k] = asks[k]
    BY <1>1 DEF Tables
  <2> QED
    BY <1>8, <2>1 DEF Fine, Asks
<1> QED
  BY <1>3, <1>4, <1>6, <1>7, <1>8 DEF PoleStep, priced,
     find_ppc_client_command, get_ppc_client_command_result,
     PPSetPrices

LEMMA BusyAsks ==
    ASSUME Tables, CommandInv, NEW s \in Slots, Busy(s)
    PROVE  commands[s].ask \in Asks /\ commands[s].ask # 0
  BY DEF CommandInv, Waits, Busy

LEMMA LinksPrices ==
    ASSUME Tables, CommandInv, PriceInv, Kind("ppc"), Fine, setup' = setup,
           \A s \in Slots : clients'[s].state = clients[s].state /\ clients'[s].peer = clients[s].peer,
           \A s \in Slots : Busy(s)' => Busy(s) /\ commands'[s].ask = commands[s].ask,
           \A s \in Slots : commands[s].ask = 0 => commands'[s].ask = 0,
           \A k \in Asks' : asks'[k].told # "gone",
           \A k \in Asks : asks'[k].price = asks[k].price,
           \A p \in setup.pss : /\ AsksPrices(p)' = AsksPrices(p)
                                /\ AsksPrices(p)' => links'[p].asked[Len(links'[p].asked)] =
                                                     links[p].asked[Len(links[p].asked)],
           price' = price,
           Idle' /\ Quietly => ordered' = price
    PROVE  PriceInv'
<1>1. \A p : IsLink(p)' = IsLink(p)
  BY DEF IsLink
<1>2. \A p \in setup.pss : AsksPrices(p)' = AsksPrices(p)
  OBVIOUS
<1>3. \A p \in setup.pss : PricesUnderWay(p)' => PricesUnderWay(p)
  <2> SUFFICES ASSUME NEW p \in setup.pss, PricesUnderWay(p)' PROVE PricesUnderWay(p)
    OBVIOUS
  <2>1. AsksPrices(p)' \/ \E s \in Slots : clients'[s].peer = p /\ Busy(s)'
    BY DEF PricesUnderWay, AsksPrices, Busy, SlotsOf
  <2>2. AsksPrices(p) \/ \E s \in Slots : clients[s].peer = p /\ Busy(s)
    BY <1>2, <2>1
  <2> QED
    BY <2>2 DEF PricesUnderWay, AsksPrices, Busy, SlotsOf
<1>4. Quietly' = Quietly
  BY <1>2 DEF Quietly
<1>5. ASSUME Quietly, NEW s \in Slots, Busy(s)' PROVE asks'[commands'[s].ask].price = price
  BY <1>5, BusyAsks DEF PriceInv
<1>6. \A s \in Slots : /\ clients'[s].state # "Free" => IsLink(clients[s].peer)'
                       /\ clients'[s].state = "Free" => commands'[s].ask = 0
  BY <1>1 DEF PriceInv
<1>7. \A p, q \in setup.pss : PricesUnderWay(p)' /\ PricesUnderWay(q)' => p = q
  BY <1>3 DEF PriceInv
<1>8. \A p \in setup.pss : AsksPrices(p)' => links'[p].asked[Len(links'[p].asked)] = <<"prices", price'>>
  BY <1>2 DEF PriceInv
<1> QED
  BY <1>4, <1>5, <1>6, <1>7, <1>8 DEF PriceInv

LEMMA KeptPrices ==
    ASSUME Tables, CommandInv, PriceInv, Kind("ppc"), Fine, setup' = setup,
           \A s \in Slots : clients'[s].state = clients[s].state /\ clients'[s].peer = clients[s].peer,
           \A s \in Slots : Busy(s)' => Busy(s) /\ commands'[s].ask = commands[s].ask,
           \A s \in Slots : commands[s].ask = 0 => commands'[s].ask = 0,
           \A k \in Asks' : asks'[k].told # "gone",
           \A k \in Asks : asks'[k].price = asks[k].price,
           \A p \in setup.pss : links'[p].asked = links[p].asked, price' = price,
           Idle' /\ Quietly => ordered' = price
    PROVE  PriceInv'
<1>1. \A p \in setup.pss : /\ AsksPrices(p)' = AsksPrices(p)
                           /\ AsksPrices(p)' => links'[p].asked[Len(links'[p].asked)] =
                                                links[p].asked[Len(links[p].asked)]
  BY DEF AsksPrices
<1> QED
  BY <1>1, LinksPrices

Stays == \A s \in Slots : clients'[s].state = clients[s].state /\ clients'[s].peer = clients[s].peer

LEMMA KeepStays ==
    ASSUME Typed, SlotsInv, LinksInv, KeepStep, lost \subseteq lost', Fine' PROVE Stays
  BY KeepSlots DEF SameSlot, EndedSlot, Broken, Fine, Stays

\* Nothing that concerns prices.
LEMMA IdlePrices ==
    ASSUME Tables, CommandInv, PriceInv, Kind("ppc"), Fine, setup' = setup, Stays,
           UNCHANGED priced, place' = place \/ (place[1] # "run" /\ place'[1] # "run"),
           \A p \in setup.pss : links'[p].asked = links[p].asked, price' = price
    PROVE  PriceInv'
<1>1. /\ commands' = commands /\ ordered' = ordered /\ asks' = asks /\ Asks' = Asks
      /\ \A s \in Slots : Busy(s)' = Busy(s)
  BY DEF priced, Busy, Asks
<1>2. Idle' = Idle
  BY <1>1 DEF Idle
<1>3. /\ \A s \in Slots : clients'[s].state = clients[s].state /\ clients'[s].peer = clients[s].peer
      /\ \A s \in Slots : Busy(s)' => Busy(s) /\ commands'[s].ask = commands[s].ask
      /\ \A s \in Slots : commands[s].ask = 0 => commands'[s].ask = 0
      /\ \A k \in Asks' : asks'[k].told # "gone"
      /\ \A k \in Asks : asks'[k].price = asks[k].price
      /\ Idle' /\ Quietly => ordered' = price
  BY <1>1, <1>2 DEF PriceInv, Stays
<1> QED
  BY <1>3, KeptPrices

LEMMA FindPrices ==
    ASSUME Tables, CommandInv, PriceInv, Kind("ppc"), Fine, setup' = setup, Stays,
           find_ppc_client_command, links' = links, price' = price
    PROVE  PriceInv'
<1>1. ordered' = ordered /\ asks' = asks /\ Asks' = Asks
  BY DEF find_ppc_client_command, Asks
<1>2. CASE commands' = commands /\ place'[1] # "run"
  <2>1. place[1] # "run" /\ UNCHANGED priced
    BY <1>2 DEF find_ppc_client_command, priced
  <2> QED
    BY <1>2, <2>1, IdlePrices
<1>3. ASSUME NEW s \in Slots, New(s), commands' = [commands EXCEPT ![s].state = "Run"],
             place' = <<"run", s, commands[s].ask>>
      PROVE  PriceInv'
  <2>1. /\ commands'[s] = [commands[s] EXCEPT !.state = "Run"] /\ commands[s] \in CommandType
        /\ \A t \in Slots \ {s} : commands'[t] = commands[t]
    BY <1>3 DEF Tables
  <2>2. commands'[s].ask = commands[s].ask /\ Busy(s)
    BY <1>3, <2>1 DEF CommandType, New, Busy
  <2>3. \A t \in Slots : Busy(t)' => Busy(t) /\ commands'[t].ask = commands[t].ask
    BY <2>1, <2>2 DEF Busy
  <2>4. ~Idle'
    BY <1>3 DEF Idle
  <2>5. /\ \A t \in Slots : clients'[t].state = clients[t].state /\ clients'[t].peer = clients[t].peer
        /\ \A t \in Slots : commands[t].ask = 0 => commands'[t].ask = 0
        /\ \A k \in Asks' : asks'[k].told # "gone"
        /\ \A k \in Asks : asks'[k].price = asks[k].price
        /\ \A p \in setup.pss : links'[p].asked = links[p].asked
        /\ Idle' /\ Quietly => ordered' = price
    BY <1>1, <2>1, <2>2, <2>4 DEF PriceInv, Stays
  <2> QED
    BY <2>3, <2>5, KeptPrices
<1>4. FirstUnit[1] # "run"
  BY DEF FirstUnit
<1> QED
  BY <1>2, <1>3, <1>4 DEF find_ppc_client_command

LEMMA RunPrices ==
    ASSUME Tables, CommandInv, PriceInv, Kind("ppc"), Fine, Fine', setup' = setup, Stays,
           NEW s \in Slots, NEW k \in Asks, set_ppc_client_command_result(s, k), links' = links, price' = price
    PROVE  PriceInv'
<1>1. PICK result \in {"NoError", "Error"} :
          /\ ordered' = IF result = "NoError" THEN asks[k].price ELSE ordered
          /\ asks' = [asks EXCEPT ![k].outcome = result]
          /\ commands' = [commands EXCEPT ![s].result = result, ![s].state = "Complete"]
  BY DEF set_ppc_client_command_result
<1>2. Asks = 1 .. Len(asks) /\ \A j \in Asks : asks[j] \in AskType
  BY AsksSet DEF Tables
<1>3. /\ Asks' = Asks /\ asks'[k] = [asks[k] EXCEPT !.outcome = result]
      /\ \A j \in Asks \ {k} : asks'[j] = asks[j]
  BY <1>1, <1>2 DEF Asks
<1>4. /\ \A j \in Asks : asks'[j].told = asks[j].told /\ asks'[j].price = asks[j].price
      /\ asks'[k].outcome = result
  BY <1>2, <1>3 DEF AskType
<1>5. result = "NoError"
  BY <1>1, <1>3, <1>4 DEF Fine
<1>6. commands[s].ask = k /\ Busy(s)
  <2>1. Runs(s, k)
    BY DEF CommandInv, RunInv, set_ppc_client_command_result
  <2>2. ~GoneUpTo(k)
    BY DEF PriceInv, GoneUpTo
  <2> QED
    BY <2>1, <2>2 DEF Runs, Busy
<1>7. Quietly => ordered' = price
  BY <1>1, <1>5, <1>6 DEF PriceInv
<1>8. /\ commands'[s] = [commands[s] EXCEPT !.result = result, !.state = "Complete"] /\ commands[s] \in CommandType
      /\ \A t \in Slots \ {s} : commands'[t] = commands[t]
  BY <1>1 DEF Tables
<1>9. commands'[s].state = "Complete" /\ commands'[s].ask = commands[s].ask
  BY <1>8 DEF CommandType
<1>10. \A t \in Slots : Busy(t)' => Busy(t) /\ commands'[t].ask = commands[t].ask
  BY <1>8, <1>9 DEF Busy
<1>11. /\ \A t \in Slots : clients'[t].state = clients[t].state /\ clients'[t].peer = clients[t].peer
       /\ \A t \in Slots : commands[t].ask = 0 => commands'[t].ask = 0
       /\ \A j \in Asks' : asks'[j].told # "gone"
       /\ \A j \in Asks : asks'[j].price = asks[j].price
       /\ \A p \in setup.pss : links'[p].asked = links[p].asked
       /\ Idle' /\ Quietly => ordered' = price
  BY <1>3, <1>4, <1>7, <1>8, <1>9 DEF PriceInv, Stays
<1> QED
  BY <1>10, <1>11, KeptPrices

LEMMA ClearPrices ==
    ASSUME Tables, CommandInv, PriceInv, Kind("ppc"), Fine, setup' = setup, Stays,
           NEW s \in Slots, clear_ppc_client_command(s), links' = links, price' = price
    PROVE  PriceInv'
<1>1. /\ Waits(s) /\ Takes(s) /\ fetched[s].got /\ fetched[s] \in FetchedType
      /\ commands' = [commands EXCEPT ![s] = NoCommand] /\ place' = place /\ ordered' = ordered
  BY DEF clear_ppc_client_command, CommandInv, server, Tables
<1>2. fetched[s].ask # 0
  BY <1>1 DEF Takes, PriceInv
<1>3. PICK k \in Asks : k = fetched[s].ask /\ k = commands[s].ask
  BY <1>1, <1>2 DEF Takes, Waits
<1>4. asks' = [asks EXCEPT ![k].told = fetched[s].result]
  BY <1>2, <1>3 DEF clear_ppc_client_command
<1>5. /\ Asks' = Asks /\ asks'[k].told = fetched[s].result
      /\ \A j \in Asks : asks'[j].outcome = asks[j].outcome
      /\ \A j \in Asks : asks'[j].price = asks[j].price
      /\ \A j \in Asks : j # k => asks'[j].told = asks[j].told
  BY <1>4, ToldAsk DEF Tables
<1>6. fetched[s].result # "gone"
  BY <1>1 DEF FetchedType, Results
<1>7. ~Busy(s) /\ ~Busy(s)' /\ commands'[s].ask = 0 /\ \A t \in Slots \ {s} : commands'[t] = commands[t]
  BY <1>1, <1>2 DEF Takes, Busy, Tables, NoCommand
<1>8. \A t \in Slots : Busy(t)' = Busy(t) /\ (Busy(t)' => commands'[t].ask = commands[t].ask)
  BY <1>7 DEF Busy
<1>9. Idle' = Idle
  BY <1>1, <1>8 DEF Idle, Busy
<1>10. /\ \A t \in Slots : clients'[t].state = clients[t].state /\ clients'[t].peer = clients[t].peer
       /\ \A t \in Slots : Busy(t)' => Busy(t) /\ commands'[t].ask = commands[t].ask
       /\ \A t \in Slots : commands[t].ask = 0 => commands'[t].ask = 0
       /\ \A j \in Asks' : asks'[j].told # "gone"
       /\ \A j \in Asks : asks'[j].price = asks[j].price
       /\ \A p \in setup.pss : links'[p].asked = links[p].asked
       /\ Idle' /\ Quietly => ordered' = price
  BY <1>1, <1>5, <1>6, <1>7, <1>8, <1>9 DEF PriceInv, Stays
<1> QED
  BY <1>10, KeptPrices

LEMMA PolePrices ==
    ASSUME Typed, SlotsInv, LinksInv, CommandInv, PriceInv, Kind("ppc"), Fine, Fine', setup' = setup, PoleServer
    PROVE  PriceInv'
<1>1. /\ Tables /\ links' = links /\ price' = price /\ lost' = lost
  BY DEF PoleServer, linkVars, forecourt, Typed, PoleTypes, Tables
<1>2. Stays
  BY <1>1, PoleKeepStep, KeepStays
<1>3. ASSUME UNCHANGED priced, place' = place \/ (place[1] # "run" /\ place'[1] # "run") PROVE PriceInv'
  BY <1>1, <1>2, <1>3, IdlePrices
<1>4. CASE PoleShows
  BY <1>3, <1>4 DEF PoleShows, server, poles, priced
<1>5. CASE ppc_device_thread_func
  <2>1. CASE \/ set_price_pole_config_from_driver \/ set_ppc_device_status_from_driver
             \/ TellStatus /\ UNCHANGED poles
    BY <1>3, <2>1 DEF set_price_pole_config_from_driver,
       set_ppc_device_status_from_driver, TellStatus,
       ReadConfig, ReadStatus, poles, priced
  <2>2. CASE find_ppc_client_command
    BY <1>1, <1>2, <2>2, FindPrices
  <2>3. ASSUME NEW s \in Slots, NEW k \in Asks, set_ppc_client_command_result(s, k) PROVE PriceInv'
    BY <1>1, <1>2, <2>3, RunPrices
  <2>4. ASSUME NEW u \in Units, set_price_pole_state_from_driver(u) PROVE PriceInv'
    BY <1>3, <2>4 DEF set_price_pole_state_from_driver,
       set_ppc_price_pole_data, priced
  <2>5. CASE tell_poles
    BY <1>3, <2>5 DEF tell_poles, poles, priced
  <2> QED
    BY <1>5, <2>1, <2>2, <2>3, <2>4, <2>5 DEF ppc_device_thread_func
<1>6. ASSUME NEW s \in Slots, ppc_device_client_thread_func(s) PROVE PriceInv'
  <2>1. CASE ClearFlag(s) /\ UNCHANGED poles
    BY <1>3, <2>1 DEF ClearFlag, server, poles, priced
  <2>2. CASE get_ppc_client_command_result(s)
    <3>1. /\ commands' = commands /\ ordered' = ordered /\ asks' = asks /\ Asks' = Asks /\ place' = place
          /\ \A t \in Slots : Busy(t)' = Busy(t)
      BY <2>2 DEF get_ppc_client_command_result, server, Asks, Busy
    <3>2. Idle' = Idle
      BY <3>1 DEF Idle
    <3>3. /\ \A t \in Slots : clients'[t].state = clients[t].state /\ clients'[t].peer = clients[t].peer
          /\ \A t \in Slots : Busy(t)' => Busy(t) /\ commands'[t].ask = commands[t].ask
          /\ \A t \in Slots : commands[t].ask = 0 => commands'[t].ask = 0
          /\ \A k \in Asks' : asks'[k].told # "gone"
          /\ \A k \in Asks : asks'[k].price = asks[k].price
          /\ \A p \in setup.pss : links'[p].asked = links[p].asked
          /\ Idle' /\ Quietly => ordered' = price
      BY <1>1, <1>2, <3>1, <3>2 DEF PriceInv, Stays
    <3> QED
      BY <1>1, <3>3, KeptPrices
  <2>3. CASE clear_ppc_client_command(s)
    BY <1>1, <1>2, <2>3, ClearPrices
  <2>4. CASE destroy_ppc_client(s)
    BY <2>4 DEF destroy_ppc_client, Destroy, SlotsInv, Broken, Fine
  <2> QED
    BY <1>6, <2>1, <2>2, <2>3, <2>4 DEF ppc_device_client_thread_func
<1>7. ASSUME NEW s \in Slots, send_ppc_device_status_message(s) \/ send_ppc_device_data_message(s) PROVE PriceInv'
  BY <1>3, <1>7 DEF send_ppc_device_status_message,
     send_ppc_device_data_message, Send, server, poles, priced
<1> QED
  BY <1>4, <1>5, <1>6, <1>7 DEF PoleServer

\* A link opens.
LEMMA ComesPrices ==
    ASSUME Typed, SlotsInv, CommandInv, PriceInv, Kind("ppc"), Fine, setup' = setup, price' = price,
           NEW p \in Peers, IsLink(p), SlotsOf(p) = {}, AcceptPeer(p), links[p].asked = <<>>,
           \A i \in DOMAIN links'[p].asked : links'[p].asked[i][1] # "prices",
           \A q \in Peers \ {p} : links'[q] = links[q]
    PROVE  PriceInv'
<1>1. PICK news : Accept(p, news)
  BY DEF AcceptPeer, tgs_main_socket_thread_func, sc_main_socket_thread_func,
     ppc_main_socket_thread_func, set_new_tgs_client_param, set_new_sc_client_param,
     set_new_ppc_client_param
<1>2. PICK t \in Slots :
          /\ clients[t].state = "Free"
          /\ clients'[t] = [Free EXCEPT !.state = "Active", !.peer = p, !.logged = ~filtering,
                                        !.count = count, !.flags = news, !.reading = TRUE]
          /\ \A s \in Slots \ {t} : clients'[s] = clients[s]
  BY ONLY Typed, <1>1, ComesSlots
<1>3. clients'[t].peer = p /\ clients'[t].state = "Active"
  BY <1>2 DEF Free
<1>4. /\ commands' = commands /\ ordered' = ordered /\ asks' = asks /\ Asks' = Asks /\ place' = place
      /\ \A s \in Slots : Busy(s)' = Busy(s)
  BY AcceptPoles DEF server, poles, Asks, Busy
<1>5. \A q : IsLink(q)' = IsLink(q) /\ (IsLink(q) => q \in setup.pss /\ q \in Peers)
  BY UnitsFacts DEF IsLink, Typed, ServerTypes
<1>6. ~Busy(t)
  BY <1>2 DEF PriceInv, CommandInv, Waits, Busy
<1>7. ASSUME NEW q \in setup.pss
      PROVE  /\ AsksPrices(q)' = AsksPrices(q)
             /\ AsksPrices(q)' => links'[q].asked = links[q].asked
             /\ PricesUnderWay(q)' => PricesUnderWay(q)
  <2>0. q \in Peers
    BY <1>5 DEF IsLink
  <2>1. CASE q = p
    <3>1. ~AsksPrices(q)' /\ ~AsksPrices(q)
      BY <2>1 DEF AsksPrices
    <3>2. \A s \in Slots : clients'[s].peer = p => s = t
      BY <1>2 DEF SlotsOf
    <3> QED
      BY <1>4, <1>6, <2>1, <3>1, <3>2 DEF PricesUnderWay, AsksPrices, SlotsOf,
         Busy
  <2>2. CASE q # p
    <3>1. links'[q] = links[q] /\ \A s \in Slots : clients'[s].peer = q => clients[s].peer = q
      BY <1>2, <1>3, <2>0, <2>2
    <3> QED
      BY <1>4, <3>1 DEF AsksPrices, PricesUnderWay, SlotsOf
  <2> QED
    BY <2>1, <2>2
<1>8. Quietly' = Quietly /\ Idle' = Idle
  BY <1>4, <1>7 DEF Quietly, Idle
<1>9. \A s \in Slots : /\ clients'[s].state # "Free" => IsLink(clients[s].peer)'
                       /\ clients'[s].state = "Free" => commands'[s].ask = 0
  BY <1>2, <1>3, <1>4, <1>5 DEF PriceInv
<1>10. \A q \in setup.pss : AsksPrices(q)' => links'[q].asked[Len(links'[q].asked)] = <<"prices", price'>>
  BY <1>7 DEF PriceInv
<1>11. \A q, r \in setup.pss : PricesUnderWay(q)' /\ PricesUnderWay(r)' => q = r
  BY <1>7 DEF PriceInv
<1>12. Quietly' => /\ \A s \in Slots : Busy(s)' => asks'[commands'[s].ask].price = price'
                   /\ Idle' => ordered' = price'
  BY <1>4, <1>8 DEF PriceInv
<1> QED
  BY <1>4, <1>9, <1>10, <1>11, <1>12 DEF PriceInv

\* A point of sale sets the prices.
LEMMA NewPrices ==
    ASSUME Typed, PriceInv, Kind("ppc"), Fine, Fine', setup' = setup, NEW p \in Peers, price_update(p)
    PROVE  PriceInv'
<1>1. /\ commands' = commands /\ ordered' = ordered /\ asks' = asks /\ Asks' = Asks /\ clients' = clients
      /\ \A s \in Slots : Busy(s)' = Busy(s)
  BY DEF price_update, hs, server, poles, Asks, Busy
<1>2. links[p].bound /\ p \in setup.pss /\ \A q \in setup.pss \ {p} : ~PricesUnderWay(q)
  BY DEF price_update, Lose, Fine, IsLink
<1>3. /\ links'[p] = [links[p] EXCEPT !.asked = Append(@, <<"prices", price'>>)] /\ links[p] \in LinkType
      /\ \A q \in Peers \ {p} : links'[q] = links[q]
  BY <1>2 DEF price_update, Typed, LinkTypes
<1>4. links'[p].asked = Append(links[p].asked, <<"prices", price'>>) /\ links[p].asked \in Seq(Questions)
  BY <1>3 DEF LinkType
<1>5. /\ Len(links'[p].asked) \in DOMAIN links'[p].asked
      /\ links'[p].asked[Len(links'[p].asked)] = <<"prices", price'>>
  BY <1>4
<1>6. AsksPrices(p)'
  BY <1>5 DEF AsksPrices
<1>7. \A q \in setup.pss : q \in Peers
  BY UnitsFacts DEF Typed, ServerTypes
<1>8. ASSUME NEW q \in setup.pss, q # p PROVE ~AsksPrices(q)' /\ ~PricesUnderWay(q)'
  <2>1. ~PricesUnderWay(q) /\ links'[q] = links[q]
    BY <1>2, <1>3, <1>7, <1>8
  <2> QED
    BY <1>1, <2>1 DEF PricesUnderWay, AsksPrices, SlotsOf
<1>9. \A q, r \in setup.pss : PricesUnderWay(q)' /\ PricesUnderWay(r)' => q = r
  BY <1>8
<1>10. \A q \in setup.pss : AsksPrices(q)' => links'[q].asked[Len(links'[q].asked)] = <<"prices", price'>>
  BY <1>5, <1>8
<1>11. ~Quietly'
  BY <1>2, <1>6 DEF Quietly
<1>12. \A s \in Slots : /\ clients'[s].state # "Free" => IsLink(clients[s].peer)'
                        /\ clients'[s].state = "Free" => commands'[s].ask = 0
  BY <1>1 DEF PriceInv, IsLink
<1> QED
  BY <1>1, <1>9, <1>10, <1>11, <1>12 DEF PriceInv

LEMMA TailAsked ==
    ASSUME NEW f \in Seq(Questions), f # <<>>
    PROVE  /\ Tail(f) \in Seq(Questions) /\ Len(Tail(f)) = Len(f) - 1 /\ DOMAIN f = 1 .. Len(f) /\ Len(f) \in Nat \ {0}
           /\ DOMAIN Tail(f) = 1 .. Len(f) - 1
           /\ \A i \in 1 .. Len(f) - 1 : Tail(f)[i] = f[i + 1]
           /\ Head(f) = f[1]
  OBVIOUS

\* The server reads what a link has asked.
LEMMA ReadPrices ==
    ASSUME Typed, SlotsInv, LinksInv, CommandInv, PriceInv, Kind("ppc"), Fine, Fine', setup' = setup,
           NEW p \in Peers, ReadLink(p)
    PROVE  PriceInv'
<1> DEFINE f == links[p].asked
<1>1. /\ f # <<>> /\ f \in Seq(Questions) /\ price' = price /\ lost' = lost
      /\ links' = [links EXCEPT ![p].asked = Tail(@)] /\ links \in [Peers -> LinkType]
  BY DEF ReadLink, forecourt, Typed, LinkTypes, LinkType
<1>2. links'[p] = [links[p] EXCEPT !.asked = Tail(@)] /\ \A q \in Peers \ {p} : links'[q] = links[q]
  BY <1>1
<1>3. links'[p].asked = Tail(f)
  BY <1>1, <1>2 DEF LinkType
<1>4. Stays
  BY <1>1, ReadKeepStep, KeepStays
<1>5. p \in setup.pss /\ \A q \in setup.pss : q \in Peers
  BY <1>1, UnitsFacts DEF LinksInv, LinkInv, IsLink, Typed, ServerTypes
<1>6. PICK s \in SlotsOf(p) :
          IF Head(f)[1] = "status" THEN Login(s, TRUE) /\ Answer(s, {0}) /\ UNCHANGED poles
          ELSE PPSetPrices(s, FALSE, Head(f)[2], TRUE)
  BY DEF ReadLink
<1> HIDE DEF f
<1>7. /\ Tail(f) \in Seq(Questions) /\ Len(Tail(f)) = Len(f) - 1 /\ DOMAIN f = 1 .. Len(f) /\ Len(f) \in Nat \ {0}
      /\ DOMAIN Tail(f) = 1 .. Len(f) - 1
      /\ \A i \in 1 .. Len(f) - 1 : Tail(f)[i] = f[i + 1]
      /\ Head(f) = f[1]
  BY <1>1, TailAsked
<1>8. \A q \in setup.pss \ {p} : AsksPrices(q)' = AsksPrices(q) /\ links'[q] = links[q]
  BY <1>2, <1>5 DEF AsksPrices
<1>9. /\ AsksPrices(p) <=> \E i \in DOMAIN f : f[i][1] = "prices"
      /\ AsksPrices(p)' <=> \E i \in DOMAIN Tail(f) : Tail(f)[i][1] = "prices"
  BY <1>3 DEF AsksPrices, f
<1>10. AsksPrices(p) => f[Len(f)] = <<"prices", price>>
  BY <1>5 DEF PriceInv, f
<1>11. ASSUME AsksPrices(p), Len(f) # 1
       PROVE  AsksPrices(p)' /\ Tail(f)[Len(Tail(f))] = f[Len(f)] /\ f[Len(f)][1] = "prices"
  <2>1. /\ Len(f) - 1 \in 1 .. Len(f) - 1 /\ Tail(f)[Len(f) - 1] = f[Len(f)]
    BY <1>7, <1>11
  <2>2. f[Len(f)][1] = "prices"
    BY <1>10, <1>11
  <2>3. \E i \in DOMAIN Tail(f) : Tail(f)[i][1] = "prices"
    BY <1>7, <2>1, <2>2
  <2> QED
    BY <1>7, <1>9, <2>1, <2>2, <2>3
<1>12. CASE Head(f)[1] = "status"
  <2>1. UNCHANGED priced /\ place' = place
    BY <1>6, <1>12 DEF Answer, server, poles, priced
  <2>2. AsksPrices(p)' = AsksPrices(p)
    <3>1. ASSUME NEW i \in DOMAIN f, f[i][1] = "prices" PROVE i - 1 \in DOMAIN Tail(f) /\ Tail(f)[i - 1] = f[i]
      <4>1. i # 1
        BY <1>7, <1>12, <3>1
      <4> QED
        BY <1>7, <4>1
    <3>2. \A i \in DOMAIN Tail(f) : i + 1 \in DOMAIN f /\ Tail(f)[i] = f[i + 1]
      BY <1>7
    <3>3. ASSUME AsksPrices(p) PROVE AsksPrices(p)'
      <4>1. PICK i \in DOMAIN f : f[i][1] = "prices"
        BY <1>9, <3>3
      <4>2. i - 1 \in DOMAIN Tail(f) /\ Tail(f)[i - 1][1] = "prices"
        BY <3>1, <4>1
      <4> QED
        BY <1>9, <4>2
    <3>4. ASSUME AsksPrices(p)' PROVE AsksPrices(p)
      <4>1. PICK i \in DOMAIN Tail(f) : Tail(f)[i][1] = "prices"
        BY <1>9, <3>4
      <4>2. i + 1 \in DOMAIN f /\ f[i + 1][1] = "prices"
        BY <3>2, <4>1
      <4> QED
        BY <1>9, <4>2
    <3>5. AsksPrices(p) \in BOOLEAN /\ AsksPrices(p)' \in BOOLEAN
      BY DEF AsksPrices
    <3> QED
      BY <3>3, <3>4, <3>5
  <2>3. AsksPrices(p)' => links'[p].asked[Len(links'[p].asked)] = links[p].asked[Len(links[p].asked)]
    <3>1. AsksPrices(p)' => Len(f) # 1
      BY <1>7, <1>9
    <3> QED
      BY <1>3, <1>11, <2>2, <3>1 DEF f
  <2>4. /\ commands' = commands /\ ordered' = ordered /\ asks' = asks /\ Asks' = Asks /\ place' = place
        /\ \A t \in Slots : Busy(t)' = Busy(t)
    BY <2>1 DEF priced, Asks, Busy
  <2>5. Idle' = Idle
    BY <2>4 DEF Idle
  <2>6. /\ \A t \in Slots : clients'[t].state = clients[t].state /\ clients'[t].peer = clients[t].peer
        /\ \A t \in Slots : Busy(t)' => Busy(t) /\ commands'[t].ask = commands[t].ask
        /\ \A t \in Slots : commands[t].ask = 0 => commands'[t].ask = 0
        /\ \A k \in Asks' : asks'[k].told # "gone"
        /\ \A k \in Asks : asks'[k].price = asks[k].price
        /\ \A q \in setup.pss : /\ AsksPrices(q)' = AsksPrices(q)
                                /\ AsksPrices(q)' => links'[q].asked[Len(links'[q].asked)] =
                                                     links[q].asked[Len(links[q].asked)]
        /\ Idle' /\ Quietly => ordered' = price
    BY <1>4, <1>8, <2>2, <2>3, <2>4, <2>5 DEF PriceInv, Stays
  <2>7. Tables
    BY DEF Typed, PoleTypes, Tables
  <2> QED
    BY <1>1, <2>6, <2>7, LinksPrices
<1>13. CASE Head(f)[1] # "status"
  <2> DEFINE n == Len(asks) + 1
             v == Head(f)[2]
  <2>1. /\ Head(f)[1] = "prices" /\ PPSetPrices(s, FALSE, v, TRUE) /\ s \in Slots /\ clients[s].peer = p
    <3>1. Head(f) \in {"prices"} \X Price
      BY <1>1, <1>13, AsksFor DEF f
    <3> QED
      BY <1>6, <1>13, <3>1 DEF SlotsOf
  <2>2. /\ Asks = 1 .. Len(asks) /\ Len(asks) \in Nat /\ asks \in Seq(AskType) /\ commands \in [Slots -> CommandType]
    BY AsksSet DEF Typed, PoleTypes
  <2>3. Active(s) /\ commands[s].ask = 0
    <3>1. ASSUME asks' = Append(asks, NewAsk(v, "refused")) PROVE FALSE
      <4>1. n \in Asks' /\ asks'[n].told = "refused"
        BY <2>2, <3>1 DEF Asks, NewAsk
      <4> QED
        BY <4>1 DEF Fine
    <3> QED
      BY <2>1, <3>1 DEF PPSetPrices
  <2>4. /\ asks' = Append(asks, NewAsk(v, "none")) /\ ordered' = ordered
        /\ commands' = [commands EXCEPT ![s] = [state |-> "New", ask |-> n, result |-> "none"]]
    BY <2>1, <2>3 DEF PPSetPrices
  <2>5. /\ Asks' = Asks \cup {n} /\ \A k \in Asks : asks'[k] = asks[k]
        /\ asks'[n].price = v /\ asks'[n].told = "none"
    <3>1. DOMAIN asks' = 1 .. n /\ asks'[n] = NewAsk(v, "none") /\ \A k \in 1 .. Len(asks) : asks'[k] = asks[k]
      BY <2>2, <2>4
    <3> QED
      BY <2>2, <3>1 DEF Asks, NewAsk
  <2>6. /\ commands'[s].ask = n /\ commands'[s].state = "New"
        /\ \A t \in Slots \ {s} : commands'[t] = commands[t]
    BY <2>1, <2>2, <2>4
  <2> HIDE DEF n, v
  <2>7. AsksPrices(p) /\ PricesUnderWay(p)
    BY <1>7, <1>9, <2>1 DEF PricesUnderWay, AsksPrices
  <2>8. Busy(s)' /\ ~Idle'
    BY <2>1, <2>6 DEF Busy, Idle
  <2>9. ASSUME NEW t \in Slots, t # s PROVE ~Busy(t) /\ ~Busy(t)'
    <3>1. ASSUME Busy(t) PROVE FALSE
      <4>1. clients[t].peer \in setup.pss
        <5>1. commands[t].ask # 0
          BY <2>2, <3>1 DEF CommandInv, Waits, Busy
        <5> QED
          BY <5>1 DEF PriceInv, IsLink
      <4>2. PricesUnderWay(clients[t].peer)
        BY <3>1 DEF PricesUnderWay, SlotsOf, Busy
      <4>3. clients[t].peer = p
        BY <1>5, <2>7, <4>1, <4>2 DEF PriceInv
      <4>4. p # Nobody
        BY UnitsFacts DEF Typed, ServerTypes
      <4> QED
        BY <2>1, <2>9, <4>3, <4>4 DEF SlotsInv
    <3> QED
      BY <2>6, <2>9, <3>1 DEF Busy
  <2>10. \A q \in setup.pss : PricesUnderWay(q)' => q = p
    <3> SUFFICES ASSUME NEW q \in setup.pss, PricesUnderWay(q)', q # p PROVE FALSE
      OBVIOUS
    <3>1. AsksPrices(q) \/ \E t \in Slots : clients'[t].peer = q /\ Busy(t)'
      BY <1>8 DEF PricesUnderWay, AsksPrices, SlotsOf, Busy
    <3>2. ~AsksPrices(q)
      BY <1>5, <2>7 DEF PriceInv, PricesUnderWay, AsksPrices
    <3> QED
      BY <1>4, <2>1, <2>9, <3>1, <3>2 DEF Stays
  <2>11. \A q \in setup.pss : AsksPrices(q)' => links'[q].asked[Len(links'[q].asked)] = <<"prices", price'>>
    <3>1. \A q \in setup.pss : AsksPrices(q)' => q = p
      BY <2>10 DEF PricesUnderWay, AsksPrices
    <3>2. AsksPrices(p)' => Len(f) # 1
      BY <1>7, <1>9
    <3>3. AsksPrices(p)' => Tail(f)[Len(Tail(f))] = <<"prices", price>>
      BY <1>10, <1>11, <2>7, <3>2
    <3> QED
      BY <1>1, <1>3, <3>1, <3>3
  <2>12. Quietly' => \A t \in Slots : Busy(t)' => asks'[commands'[t].ask].price = price'
    <3> SUFFICES ASSUME Quietly' PROVE v = price
      BY <1>1, <2>5, <2>6, <2>9
    <3>1. Len(f) = 1
      BY <1>5, <1>11, <2>7 DEF Quietly
    <3> QED
      BY <1>7, <1>10, <2>7, <3>1 DEF v
  <2>13. \A k \in Asks' : asks'[k].told # "gone"
    BY <2>5 DEF PriceInv
  <2>14. \A t \in Slots : /\ clients'[t].state # "Free" => IsLink(clients[t].peer)'
                          /\ clients'[t].state = "Free" => commands'[t].ask = 0
    <3>1. clients'[s].state # "Free"
      BY <1>4, <2>1, <2>3 DEF Stays, Active
    <3> QED
      BY <1>4, <2>6, <3>1 DEF PriceInv, Stays, IsLink
  <2> QED
    BY <2>8, <2>10, <2>11, <2>12, <2>13, <2>14 DEF PriceInv
<1> QED
  BY <1>12, <1>13

-----------------------------------------------------------------------------
(* 10. The steps of the whole, and what all of it implements.              *)

LEMMA PriceStep == LinkedInv /\ CommandInv /\ PriceInv /\ [LinkedNext]_allVars => PriceInv'
<1> SUFFICES ASSUME LinkedInv, CommandInv, PriceInv, [LinkedNext]_allVars PROVE PriceInv'
  OBVIOUS
<1>a. /\ Typed /\ SlotsInv /\ LinksInv /\ Tables
      /\ setup' = setup /\ lost \subseteq lost' /\ PoleStep
  BY NextServerStep, StepSetup, LostGrows, NextPoleStep
  DEF LinkedInv, ServerInv, Typed, ServerTypes, PoleTypes, Tables
<1> SUFFICES ASSUME Kind("ppc"), Fine' PROVE PriceInv'
  BY <1>a DEF PriceInv, Kind
<1>0. /\ Typed /\ SlotsInv /\ LinksInv /\ Tables
      /\ setup' = setup /\ lost \subseteq lost' /\ PoleStep
      /\ Fine /\ ~Kind("tgs") /\ ~Kind("sc")
      /\ lost = {} /\ lost' = {} /\ ~Broken
  <2>1. Fine
    BY <1>a, FineBefore
  <2> QED
    BY <1>a, <2>1 DEF Kind, Fine, Broken
<1>1. CASE Load \/ UNCHANGED allVars
  <2>1. UNCHANGED priced /\ place' = place /\ links' = links /\ price' = price /\ UNCHANGED clients
    BY <1>1 DEF Load, allVars, hs, server, poles, linkVars, forecourt, priced
  <2>2. Stays
    BY <2>1 DEF Stays
  <2> QED
    BY <1>0, <2>1, <2>2, IdlePrices
<1>2. CASE TankServer \/ SensorServer \/ PoleServer
  BY <1>0, <1>2, PolePrices DEF TankServer, SensorServer
<1>3. ASSUME Break PROVE FALSE
  BY <1>0, <1>3 DEF Break, Lose
<1>4. CASE Program
  BY <1>0, <1>4 DEF Program, Fine
<1>5. ASSUME NEW p \in Peers, connect_to_server_device(p) \/ reconnect_to_server_device(p) PROVE PriceInv'
  <2>1. LinkInv(p)
    BY <1>0 DEF LinksInv
  <2>2. /\ SlotsOf(p) = {} /\ AcceptPeer(p) /\ price' = price
        /\ \A q \in Peers \ {p} : links'[q] = links[q]
    BY <1>0, <1>5 DEF connect_to_server_device, reconnect_to_server_device,
       forecourt, Typed, LinkTypes
  <2>3. IsLink(p) /\ links[p].asked = <<>>
    BY <1>5, <2>1 DEF connect_to_server_device, reconnect_to_server_device,
       LinkInv
  <2>4. links'[p].asked = <<>> \/ links'[p].asked = <<<<"status">>>>
    <3>1. \/ links'[p] = [NoLink EXCEPT !.state = "open", !.bound = TRUE, !.asked = <<<<"status">>>>]
          \/ links'[p] = [NoLink EXCEPT !.state = "open"]
      BY <1>0, <1>5 DEF connect_to_server_device, reconnect_to_server_device,
         Typed, LinkTypes
    <3>2. /\ [NoLink EXCEPT !.state = "open", !.bound = TRUE, !.asked = <<<<"status">>>>].asked = <<<<"status">>>>
          /\ [NoLink EXCEPT !.state = "open"].asked = <<>>
      BY DEF NoLink
    <3> QED
      BY <3>1, <3>2
  <2>5. \A i \in DOMAIN links'[p].asked : links'[p].asked[i][1] # "prices"
    BY <2>4
  <2> QED
    BY <1>0, <2>2, <2>3, <2>5, ComesPrices
<1>6. ASSUME NEW p \in Peers, connect_fails(p) PROVE PriceInv'
  <2>1. UNCHANGED priced /\ place' = place /\ price' = price /\ UNCHANGED clients
    BY <1>6 DEF connect_fails, hs, server, poles, forecourt, priced
  <2>2. Stays
    BY <2>1 DEF Stays
  <2>3. links' = [links EXCEPT ![p].state = "closed"] /\ links \in [Peers -> LinkType]
    BY <1>0, <1>6 DEF connect_fails, Typed, LinkTypes
  <2>4. links'[p] = [links[p] EXCEPT !.state = "closed"] /\ \A q \in Peers \ {p} : links'[q] = links[q]
    BY <2>3
  <2>5. links'[p].asked = links[p].asked
    BY <2>3, <2>4 DEF LinkType
  <2>6. \A q \in setup.pss : links'[q].asked = links[q].asked
    BY <1>0, <2>4, <2>5, UnitsFacts DEF Typed, ServerTypes
  <2> QED
    BY <1>0, <2>1, <2>2, <2>6, IdlePrices
<1>7. ASSUME NEW p \in Peers, price_update(p) PROVE PriceInv'
  BY <1>0, <1>7, NewPrices
<1>8. ASSUME NEW p \in Peers, ReadLink(p) PROVE PriceInv'
  BY <1>0, <1>8, ReadPrices
<1>9. ASSUME NEW p \in Peers, disconnect_server_devices(p) \/ LinkCut(p) \/ ThreadEnds(p) \/ LinkCloses(p) PROVE FALSE
  <2>1. LinkInv(p) /\ (links[p].state = "open" => IsLink(p))
    BY <1>0 DEF LinksInv, LinkInv
  <2>2. CASE ThreadEnds(p)
    BY <1>0, <2>1, <2>2 DEF ThreadEnds, LinkInv
  <2>3. CASE LinkCloses(p)
    <3>1. PICK s \in Slots : clients[s].peer = p /\ ~clients[s].reading
      BY <1>0, <2>1, <2>3 DEF LinkCloses, LinkInv, SlotsOf
    <3>2. p # Nobody
      BY <1>0, UnitsFacts DEF Typed, ServerTypes
    <3> QED
      BY <1>0, <3>1, <3>2 DEF SlotsInv
  <2> QED
    BY <1>3, <1>9, <2>2, <2>3 DEF disconnect_server_devices, LinkCut
<1>10. ~OtherStops
  BY <1>3 DEF OtherStops
<1> QED
  BY <1>0, <1>1, <1>2, <1>4, <1>5, <1>6, <1>7, <1>8, <1>9, <1>10
  DEF LinkedNext, PushTank, PushSensor, tgs_device_func, sc_device_func, ppc_device_func, RecvReturnsNothing

LEMMA PriceInit == LinkedInit => PriceInv
<1> SUFFICES ASSUME LinkedInit PROVE PriceInv
  OBVIOUS
<1>1. /\ \A s \in Slots : clients[s].state = "Free" /\ commands[s].ask = 0 /\ ~Busy(s)
      /\ Asks = {} /\ ordered = 0 /\ price = 0
  BY DEF LinkedInit, DeviceInit, PolesInit, LinksInit, Free, NoCommand, Busy,
     Asks
<1>2. \A p \in setup.pss : ~PricesUnderWay(p) /\ ~AsksPrices(p)
  <2>1. \A p \in setup.pss : p \in Peers
    BY UnitsFacts DEF LinkedInit, DeviceInit
  <2>2. \A p \in Peers : DOMAIN links[p].asked = {}
    BY DEF LinkedInit, LinksInit, NoLink
  <2> QED
    BY <1>1, <2>1, <2>2 DEF PricesUnderWay, AsksPrices, SlotsOf, Busy
<1> QED
  BY <1>1, <1>2 DEF PriceInv

LEMMA QuietPrices == LinkedInv /\ PriceInv => PricesShown
<1> SUFFICES ASSUME LinkedInv, PriceInv, Idle, Kind("ppc"), Fine, \A p \in Peers : links[p].asked = <<>>
             PROVE  ordered = price
  BY DEF PricesShown, Fine
<1>1. \A p \in setup.pss : p \in Peers
  BY UnitsFacts DEF LinkedInv, ServerInv, Typed, ServerTypes
<1>2. Quietly
  BY <1>1 DEF Quietly, AsksPrices
<1> QED
  BY <1>2 DEF PriceInv

(* Who asks for prices is told of its own request, and the poles are given *)
(* the price set last.                                                     *)
THEOREM PricesAsAsked == LinkedSpec => []PricesHonoured
<1> DEFINE PoleInv == LinkedInv /\ CommandInv /\ PriceInv
<1>1. LinkedInit => PoleInv
  BY LinkedInvInit, CommandInit, PriceInit
<1>2. PoleInv /\ [LinkedNext]_allVars => PoleInv'
  BY LinkedInvStep, CommandStep, PriceStep, NextPoleStep DEF LinkedInv,
     ServerInv
<1>3. PoleInv => PricesHonoured
  BY QuietPrices DEF PricesHonoured, CommandInv
<1> QED
  BY <1>1, <1>2, <1>3, PTL DEF LinkedSpec

(* The links leave the loading of the configuration as it was.             *)
THEOREM LinksRefineLoad == LinkedSpec => Spec
<1>1. LinkedInit => Init
  BY DEF LinkedInit
<1>2. [LinkedNext]_allVars => [Next]_vars
  <2>1. UNCHANGED load => UNCHANGED vars
    BY DEF load, vars
  <2>2. CASE UNCHANGED allVars
    BY <2>1, <2>2 DEF allVars
  <2>3. CASE Load
    BY <2>3 DEF Load
  <2>4. ASSUME NEW p \in Peers,
               \/ connect_to_server_device(p) \/ connect_fails(p)
               \/ disconnect_server_devices(p) \/ LinkCut(p)
               \/ tgs_device_func(p) \/ sc_device_func(p) \/ ppc_device_func(p)
               \/ price_update(p) \/ ReadLink(p)
        PROVE  UNCHANGED load
    BY <2>4 DEF connect_to_server_device, connect_fails,
       disconnect_server_devices, LinkCut, tgs_device_func,
       sc_device_func, ppc_device_func, ParseTGSFrame, ParseTGSDataFrame, ParseSCFrame, ParseSCDataFrame,
       ParseTankDataFrame, set_gauge_state, ParseSensorDataFrame, RecvReturnsNothing, LinkCloses,
       reconnect_to_server_device, ThreadEnds, price_update, ReadLink
  <2>5. ASSUME NEW s \in Slots, NEW u \in Units, PushTank(s, u) \/ PushSensor(s, u) PROVE UNCHANGED load
    BY <2>5 DEF PushTank, PushSensor, Push
  <2>6. Program \/ TankServer \/ SensorServer \/ PoleServer \/ OtherStops => UNCHANGED load
    BY DEF Program, TankServer, SensorServer, PoleServer, OtherStops
  <2> QED
    BY <2>1, <2>2, <2>3, <2>4, <2>5, <2>6 DEF LinkedNext
<1> QED
  BY <1>1, <1>2, PTL DEF LinkedSpec, Spec

(* So no kind of device is installed twice while the links come up, either. *)
THEOREM LinksLoadOnce == LinkedSpec => []LoadedOnce
  BY LinksRefineLoad, NothingTwice, PTL
=============================================================================
