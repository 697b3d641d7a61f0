---------------------------- MODULE DeviceLinks ----------------------------
(***************************************************************************)
(* The links of pss to one device of the hardware server, from the loading *)
(* of the configuration on: for every point of sale (a peer) pss opens one *)
(* link, with a thread that reads it, and opens it again when it breaks    *)
(* (connect_to_server_devices and the three device threads of pss).  A     *)
(* peer may also be another program, which asks whatever it wants.         *)
(***************************************************************************)
EXTENDS PssLoad, TgsDevice, ScDevice, PpcDevice

CONSTANT MaxFrames     \* bound: data frames under way on a link

VARIABLES
    links,       \* [Peers -> a link of pss]
    tanks,       \* [Units -> {0, 1}], tanks of pss: online or not
    gauges,      \* [Units -> {0, 1}], tank_gauges of pss: Operative or not
    door,        \* door_switch of pss
    price,       \* the price set at the point of sale
    cuts,        \* how often a link was cut or refused
    lost         \* history: what was lost by the links

forecourt == <<tanks, gauges, door, price>>
load == <<conf, reader, connected, hs_state, link, server_devices, loaded, breaks, past>>
hs == <<real, server, clients, poles>>
linkVars == <<links, forecourt, cuts, lost>>
allVars == <<load, hs, linkVars>>

\* open: the thread has a socket; closed: it tries to connect again; leaving: it is
\* to end and still in recv.  bound: devices[].sock is it, so that pss can
\* write; half: a tank whose gauge is still to be set.
NoLink == [state |-> "none", bound |-> FALSE, asked |-> <<>>, frames |-> <<>>, half |-> <<>>]

LinksInit == /\ links = [p \in Peers |-> NoLink]
             /\ tanks = [u \in Units |-> 0]
             /\ gauges = [u \in Units |-> 0]
             /\ door = 0
             /\ price = 0
             /\ cuts = 0
             /\ lost = {}

LinkedInit == Init /\ DeviceInit /\ PolesInit /\ LinksInit

Kind(k) == setup.kind = k
IsLink(p) == p \in setup.pss
Loaded == loaded /\ past = {} /\ breaks = 0
SlotsOf(p) == {s \in Slots : clients[s].peer = p}
Lose(what, happened) == lost' = lost \cup (IF happened THEN {what} ELSE {})

-----------------------------------------------------------------------------
(* The links and the threads that read them.                               *)

AcceptPeer(p) == \/ Kind("tgs") /\ tgs_main_socket_thread_func(p) /\ UNCHANGED poles
                 \/ Kind("sc") /\ sc_main_socket_thread_func(p) /\ UNCHANGED poles
                 \/ Kind("ppc") /\ ppc_main_socket_thread_func(p)

\* The thread then asks for the status, with the guid of pss.
connect_to_server_device(p) ==
    /\ Loaded /\ IsLink(p) /\ links[p].state = "none" /\ SlotsOf(p) = {}
    /\ AcceptPeer(p)
    /\ links' = [links EXCEPT ![p] =
         [NoLink EXCEPT !.state = "open", !.bound = TRUE, !.asked = <<<<"status">>>>]]
    /\ UNCHANGED <<load, forecourt, cuts, lost>>

Failure == cuts < setup.cuts /\ cuts' = cuts + 1
Break == Failure /\ Lose("cut", TRUE)

\* The port of the device is not open yet.
connect_fails(p) ==
    /\ Loaded /\ IsLink(p) /\ links[p].state = "none"
    /\ Failure
    /\ links' = [links EXCEPT ![p].state = "closed"]
    /\ UNCHANGED <<load, hs, forecourt, lost>>

\* The new socket stays with the thread: what pss writes has no socket, and
\* the status is not asked for.
reconnect_to_server_device(p) ==
    /\ links[p].state = "closed" /\ SlotsOf(p) = {}
    /\ AcceptPeer(p)
    /\ links' = [links EXCEPT ![p] = [NoLink EXCEPT !.state = "open"]]
    /\ UNCHANGED <<load, forecourt, cuts, lost>>

\* recv returns nothing more.
LinkCloses(p) ==
    /\ links[p].state = "open" /\ links[p].frames = <<>> /\ links[p].half = <<>>
    /\ \A s \in SlotsOf(p) : ~clients[s].reading
    /\ links' = [links EXCEPT ![p] = [NoLink EXCEPT !.state = "closed"]]
    /\ UNCHANGED <<load, hs, forecourt, cuts, lost>>

\* The point of sale leaves.  Closing the socket does not wake the thread: it ends
\* after the next message of the server, and only then the server learns of it.
disconnect_server_devices(p) ==
    /\ links[p].state \in {"open", "closed"}
    /\ Break
    /\ links' = [links EXCEPT ![p] = IF @.state = "closed" THEN NoLink
                                     ELSE [@ EXCEPT !.state = "leaving", !.bound = FALSE]]
    /\ UNCHANGED <<load, hs, forecourt>>

ThreadEnds(p) ==
    /\ links[p].state = "leaving" /\ links[p].half = <<>>
    /\ \/ \E s \in SlotsOf(p) : ReaderEnds(s)
       \/ (\A s \in SlotsOf(p) : ~clients[s].reading) /\ UNCHANGED <<real, server, clients>>
    /\ links' = [links EXCEPT ![p] = NoLink]
    /\ UNCHANGED <<load, poles, forecourt, cuts, lost>>

\* The network cuts a link, or a program leaves: nothing under way arrives.
LinkCut(p) ==
    /\ Break
    /\ \E s \in SlotsOf(p) : ReaderEnds(s)
    /\ links' = [links EXCEPT ![p].frames = <<>>, ![p].asked = <<>>]
    /\ UNCHANGED <<load, poles, forecourt>>

\* The record of the tank and the gauge are set one after the other.
ParseTankDataFrame(p) ==
    /\ links[p].frames # <<>> /\ links[p].half = <<>>
    /\ LET f == Head(links[p].frames)
       IN  /\ tanks' = [tanks EXCEPT ![f[1]] = f[2]]
           /\ links' = [links EXCEPT ![p].frames = Tail(@), ![p].half = f]
           /\ Lose("crossed", \E q \in Peers : links[q].half # <<>> /\ links[q].half[1] = f[1])
    /\ UNCHANGED <<load, hs, gauges, door, price, cuts>>

\* Mutant: only a tank that is online sets its gauge.
set_gauge_state_WhenOnline(p) ==
    /\ links[p].half # <<>>
    /\ gauges' = IF links[p].half[2] = 1 THEN [gauges EXCEPT ![links[p].half[1]] = 1] ELSE gauges
    /\ links' = [links EXCEPT ![p].half = <<>>]
    /\ UNCHANGED <<load, hs, tanks, door, price, cuts, lost>>

set_gauge_state(p) ==
    /\ links[p].half # <<>>
    /\ gauges' = [gauges EXCEPT ![links[p].half[1]] = links[p].half[2]]
    /\ links' = [links EXCEPT ![p].half = <<>>]
    /\ UNCHANGED <<load, hs, tanks, door, price, cuts, lost>>

\* The first sensor is the one of the door.
ParseSensorDataFrame(p) ==
    /\ links[p].frames # <<>>
    /\ LET f == Head(links[p].frames) IN door' = IF f[1] = 1 THEN f[2] ELSE door
    /\ links' = [links EXCEPT ![p].frames = Tail(@)]
    /\ UNCHANGED <<load, hs, tanks, gauges, price, cuts, lost>>

\* A turn of the thread of a link: recv returned nothing, or a frame.  Frames of
\* price poles change nothing, nor do those without data.
RecvReturnsNothing(p) == LinkCloses(p) \/ reconnect_to_server_device(p) \/ ThreadEnds(p)

ParseTGSDataFrame(p) == ParseTankDataFrame(p) \/ set_gauge_state(p)
ParseTGSFrame(p) == ParseTGSDataFrame(p)
tgs_device_func(p) == Kind("tgs") /\ (ParseTGSFrame(p) \/ RecvReturnsNothing(p))

ParseSCDataFrame(p) == ParseSensorDataFrame(p)
ParseSCFrame(p) == ParseSCDataFrame(p)
sc_device_func(p) == Kind("sc") /\ (ParseSCFrame(p) \/ RecvReturnsNothing(p))

ppc_device_func(p) == Kind("ppc") /\ RecvReturnsNothing(p)

\* Prices of the link of p are on their way to the driver.
PricesUnderWay(p) ==
    \/ \E i \in DOMAIN links[p].asked : links[p].asked[i][1] = "prices"
    \/ \E s \in SlotsOf(p) : commands[s].state \in {"New", "Run"}

\* A point of sale sets the prices; without a socket they go nowhere.
price_update(p) ==
    /\ Loaded /\ Kind("ppc") /\ IsLink(p) /\ links[p].state # "none"
    /\ Len(links[p].asked) < MaxFrames
    /\ price' \in Price
    /\ links' = IF links[p].bound THEN [links EXCEPT ![p].asked = Append(@, <<"prices", price'>>)] ELSE links
    /\ Lose("prices", ~links[p].bound \/ \E q \in setup.pss \ {p} : PricesUnderWay(q))
    /\ UNCHANGED <<load, hs, tanks, gauges, door, cuts>>

-----------------------------------------------------------------------------
(* The server, as the links and the other programs make it move.           *)

\* A message with data goes to its link, or nowhere if the link is broken; a full
\* link stops the sender.
Push(s, u, send) ==
    LET p == clients[s].peer IN
    /\ IsLink(p) => Len(links[p].frames) < MaxFrames
    /\ send
    /\ links' = IF IsLink(p) /\ clients[s].reading THEN [links EXCEPT ![p].frames = Append(@, <<u, data[u]>>)]
                ELSE links
    /\ UNCHANGED <<load, forecourt, cuts, lost>>

PushTank(s, u) == /\ Kind("tgs")
                  /\ Push(s, u, send_tgs_device_data_message(s, u)) /\ UNCHANGED poles
PushSensor(s, u) == /\ Kind("sc")
                    /\ Push(s, u, send_sc_device_data_message(s, u)) /\ UNCHANGED poles

\* A link has asked; another program asks what it wants.
ReadLink(p) ==
    /\ links[p].asked # <<>>
    /\ \E s \in SlotsOf(p) :
         IF Head(links[p].asked)[1] = "status" THEN Login(s, TRUE) /\ Answer(s, {0}) /\ UNCHANGED poles
         ELSE PPSetPrices(s, FALSE, Head(links[p].asked)[2], TRUE)
    /\ links' = [links EXCEPT ![p].asked = Tail(@)]
    /\ UNCHANGED <<load, forecourt, cuts, lost>>

Program ==
    /\ \/ \E p \in setup.others : Loaded /\ SlotsOf(p) = {} /\ AcceptPeer(p)
       \/ \E p \in setup.others : \E s \in SlotsOf(p), guid \in BOOLEAN :
            \/ Kind("tgs") /\ tgs_device_client_read_thread_func(s, guid) /\ UNCHANGED poles
            \/ Kind("sc") /\ sc_device_client_read_thread_func(s, guid) /\ UNCHANGED poles
            \/ Kind("ppc") /\ ppc_device_client_read_thread_func(s, guid)
            \/ Kind("ppc") /\ \E v \in Price \cap setup.prices, permitted \in BOOLEAN :
                                PPSetPrices(s, guid, v, permitted)
    /\ UNCHANGED <<load, linkVars>>

TankServer ==
    /\ Kind("tgs")
    /\ \/ TankMoves \/ tgs_device_thread_func
       \/ \E s \in Slots : tgs_device_client_thread_func(s) \/ Send(s, 0, {0})
    /\ UNCHANGED <<load, linkVars, poles>>

SensorServer ==
    /\ Kind("sc")
    /\ \/ SensorMoves \/ sensor_controller_device_thread_func
       \/ \E s \in Slots : sc_device_client_thread_func(s) \/ Send(s, 0, {0})
    /\ UNCHANGED <<load, linkVars, poles>>

PoleServer ==
    /\ Kind("ppc")
    /\ \/ PoleShows \/ ppc_device_thread_func
       \/ \E s \in Slots : \/ ppc_device_client_thread_func(s)
                           \/ send_ppc_device_status_message(s)
                           \/ send_ppc_device_data_message(s)
    /\ UNCHANGED <<load, linkVars>>

\* Another device of the kind is stopped.
OtherStops ==
    /\ Break
    /\ \/ Kind("tgs") /\ set_tgs_clients_status_is_destroying
       \/ Kind("sc") /\ set_sc_clients_status_is_destroying
       \/ Kind("ppc") /\ set_ppc_clients_status_is_destroying
    /\ UNCHANGED <<load, poles, links, forecourt>>

Load == Next /\ ~Loaded /\ UNCHANGED <<hs, linkVars>>

LinkedNext ==
    \/ Load
    \/ \E p \in Peers : \/ connect_to_server_device(p) \/ connect_fails(p)
                        \/ disconnect_server_devices(p) \/ LinkCut(p)
                        \/ tgs_device_func(p) \/ sc_device_func(p) \/ ppc_device_func(p)
                        \/ price_update(p) \/ ReadLink(p)
    \/ \E s \in Slots, u \in Units : PushTank(s, u) \/ PushSensor(s, u)
    \/ Program \/ TankServer \/ SensorServer \/ PoleServer \/ OtherStops

LinkedSpec == LinkedInit /\ [][LinkedNext]_allVars
LinkedFairSpec == /\ LinkedSpec
                  /\ WF_vars(ConfThread) /\ WF_vars(ReadThread) /\ WF_vars(ServerAnswers)
-----------------------------------------------------------------------------
(* Nothing of item i is on its way from the device to the client of slot s. *)
Settled(s, i) ==
    Active(s) /\ clients[s].logged /\ i \notin clients[s].flags /\ i \notin changed

Knows(s, u, item) == clients[s].told[u] = data[u] \/ item \in clients[s].missed

(* What the server holds of a sensor, and of the price poles, its clients  *)
(* are told: a client that was there, or came, before a change hears of it *)
(* by a push or knows it by its own questions.  Left out are a change that *)
(* is flagged between a push and the clearing of its flag, which is never  *)
(* pushed, and a pole whose change the next pole overwrote before it was   *)
(* flagged (ppc_device_data.c:301).                                        *)
ClientsTold ==
    \A s \in Slots, u \in Units :
        /\ Kind("sc") /\ Settled(s, u) /\ u <= clients[s].count => Knows(s, u, u)
        /\ Kind("ppc") /\ Settled(s, 1) /\ ~masked => Knows(s, u, 1)

(* The slots of the links of pss that get the data of sensors.             *)
Watching == {s \in Slots : IsLink(clients[s].peer) /\ clients[s].count > 0}

(* The door of the station is at pss what the first sensor of the server   *)
(* says, once its links have read what was under way: the one that read    *)
(* last counts, so that each must have heard the same.  Not if one of      *)
(* several links broke after it had set the door back to an older value.   *)
DoorFollows ==
    /\ Kind("sc") /\ Watching # {}
    /\ \A s \in Watching : /\ clients[s].reading /\ Settled(s, 1)
                           /\ links[clients[s].peer].frames = <<>>
    /\ "cut" \in lost => \A p, q \in setup.pss : p = q
    => door = data[1] \/ \E s \in Watching : 1 \in clients[s].missed

(* The gauge of a tank is operative exactly when the tank is online, two   *)
(* records that each link's thread sets one after the other, unless the    *)
(* threads of two links were between the two for one tank together.        *)
GaugesFollow ==
    (\A p \in Peers : links[p].half = <<>>) /\ "crossed" \notin lost => gauges = tanks

(* What pss keeps of a device follows what its links have read.            *)
PssFollows == DoorFollows /\ GaugesFollow

Asked == {k \in Asks : asks[k].told \in {"NoError", "Error"}}
PriceAnswers ==
    \A k \in Asked : \/ asks[k].told = asks[k].outcome
                    \/ \E j \in Asks : j < k /\ asks[j].told = "gone"

Idle == place[1] # "run" /\ \A s \in Slots : commands[s].state \notin {"New", "Run"}
PricesShown ==
    /\ Idle /\ Kind("ppc") /\ lost = {} /\ setup.others = {}
    /\ \A p \in Peers : links[p].asked = <<>>
    /\ \A k \in Asks : asks[k].outcome # "Error" /\ asks[k].told # "refused"
    => ordered = price

(* Who asked for prices is told what the driver made of this request, not  *)
(* of another one that had or has the slot (set_ppc_client_command_result  *)
(* writes to the slot, whoever has it by then), unless an earlier          *)
(* connection ended with its request unanswered; and the price that the    *)
(* poles are given last is the one set last at a point of sale, if no      *)
(* request failed or was refused, no link broke, and no two points of sale *)
(* set prices together.                                                    *)
PricesHonoured == PriceAnswers /\ PricesShown

(* The log of the hardware server: "Update tank state for all clients for  *)
(* tank index %d" (tgs_device.c:853).  A client that was told of a tank is *)
(* told of every change of it.                                             *)
TanksTold ==
    \A s \in Slots, u \in Units :
        Kind("tgs") /\ Settled(s, u) /\ u <= clients[s].count => Knows(s, u, u)
=============================================================================
