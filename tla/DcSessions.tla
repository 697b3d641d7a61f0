----------------------------- MODULE DcSessions -----------------------------
(***************************************************************************)
(* The connections of the dispenser controllers (dc_device.c): listening   *)
(* socket, accept, the slot table dc_clients[], the two threads of every   *)
(* connection, and how a controller that stops gets rid of them.           *)
(*                                                                         *)
(* Three kinds of threads share the table (under dcc_mutex, one critical   *)
(* section per function of dc_device_client_data.c): one main socket       *)
(* thread per controller, one client thread and one read thread per        *)
(* connection, and one device thread per controller, which takes part when *)
(* it stops.  What the connections carry is the subject of DcCommands.     *)
(***************************************************************************)
EXTENDS Integers

CONSTANTS NControllers,   \* controllers started so far: dci is 0 .. N - 1
          NSlots,         \* MAX_DEVICE_CLIENT_COUNT
          NConns          \* bound: connections the peers make

ASSUME SizesAssumption ==
  NControllers \in Nat \ {0} /\ NSlots \in Nat \ {0} /\ NConns \in Nat

Controllers == 0 .. NControllers - 1
Slots == 0 .. NSlots - 1
Conns == 1 .. NConns        \* connections, and the client threads made for them
None  == 0                  \* no connection: a descriptor that is not one

VARIABLES
  \* dc_clients[]
  state,       \* [Slots -> ClientState]
  owner,       \* [Slots -> dispencer_controller_index]
  sock,        \* [Slots -> Conns \cup {None}]
  readActive,  \* [Slots -> BOOLEAN]: read_thread_is_active
  \* main socket threads
  apc,         \* [Controllers -> place of the thread]
  aconn,       \* [Controllers -> client_socket]
  aslot,       \* [Controllers -> client_index]
  pconn,       \* [Controllers -> info.socket]: info lives on the thread's stack
  pslot,       \* [Controllers -> info.client_index]
  \* client threads and their read threads
  thr,         \* [Conns -> place of the client thread]
  mconn,       \* [Conns -> client_info.socket]: the thread's copy of info
  mslot,       \* [Conns -> client_info.client_index]
  mctl,        \* [Conns -> client_info.dispencer_controller_index]
  rd,          \* [Conns -> read thread of client thread c]
  \* dispencer_controllers[]
  lsock,       \* [Controllers -> sock: "zero", "none" (-1), "open", "shut"]
  sockStatus,  \* [Controllers -> SocketStatus]
  working,     \* [Controllers -> is_working]
  dev,         \* [Controllers -> place of the device thread]
  scanAt,      \* [Controllers -> i of close_dc_sock's loop]
  scanReady,   \* [Controllers -> exit_ready]
  \* the peers
  peer,        \* [Conns -> "away", "waiting", "up", "gone"]
  target,      \* [Conns -> controller the peer connected to]
  shut,        \* connections whose socket was shut down
  mixed        \* client threads that copied the info of another connection

table   == <<state, owner, sock, readActive>>
held    == <<aconn, aslot>>
param   == <<pconn, pslot>>
accepts == <<apc, held, param>>
me      == <<mconn, mslot, mctl>>
clients == <<thr, me, rd>>
scan    == <<scanAt, scanReady>>
devices == <<lsock, sockStatus, working, dev, scan>>
peers   == <<peer, target, shut>>
vars    == <<table, accepts, clients, devices, peers, mixed>>

ConnOrNone == Conns \cup {None}

Init ==
  /\ state = [s \in Slots |-> "Free"]
  /\ owner = [s \in Slots |-> 0]
  /\ sock  = [s \in Slots |-> None]
  /\ readActive = [s \in Slots |-> FALSE]
  /\ apc   = [i \in Controllers |-> "connect"]
  /\ aconn = [i \in Controllers |-> None]
  /\ aslot = [i \in Controllers |-> 0]
  /\ pconn = [i \in Controllers |-> None]
  /\ pslot = [i \in Controllers |-> 0]
  /\ thr   = [c \in Conns |-> "none"]
  /\ mconn = [c \in Conns |-> None]
  /\ mslot = [c \in Conns |-> 0]
  /\ mctl  = [c \in Conns |-> 0]
  /\ rd    = [c \in Conns |-> "none"]
  /\ lsock = [i \in Controllers |-> "zero"]           \* the zeroed table:
  /\ sockStatus = [i \in Controllers |-> "Disconnected"]  \* sock 0, status 0
  /\ working = [i \in Controllers |-> TRUE]
  /\ dev   = [i \in Controllers |-> "run"]
  /\ scanAt = [i \in Controllers |-> 0]
  /\ scanReady = [i \in Controllers |-> TRUE]
  /\ peer  = [c \in Conns |-> "away"]
  /\ target = [c \in Conns |-> 0]
  /\ shut  = {}
  /\ mixed = {}

-----------------------------------------------------------------------------
(* The peers.                                                               *)

PeerConnects(c, i) ==
  /\ peer[c] = "away" /\ lsock[i] = "open"
  /\ peer' = [peer EXCEPT ![c] = "waiting"]
  /\ target' = [target EXCEPT ![c] = i]
  /\ UNCHANGED <<table, accepts, clients, devices, shut, mixed>>

PeerLeaves(c) ==
  /\ peer[c] = "up"
  /\ peer' = [peer EXCEPT ![c] = "gone"]
  /\ UNCHANGED <<table, accepts, clients, devices, target, shut, mixed>>

-----------------------------------------------------------------------------
(* The main socket thread (dc_main_socket_thread_func).                     *)

\* connect_dc_socket: create_serv_sock, then set_dc_sock ...
CreateSock(i) ==
  /\ apc[i] = "connect"
  /\ \E ok \in BOOLEAN : lsock' = [lsock EXCEPT ![i] = IF ok THEN "open" ELSE "none"]
  /\ apc' = [apc EXCEPT ![i] = "status"]
  /\ UNCHANGED <<table, held, param, clients, sockStatus, working, dev, scan, peers, mixed>>

\* ... and the status, whatever it has become in between.
SetSockStatus(i) ==
  /\ apc[i] = "status"
  /\ sockStatus' = [sockStatus EXCEPT ![i] =
                      IF lsock[i] = "none" THEN "ConnectReady" ELSE "Connected"]
  /\ apc' = [apc EXCEPT ![i] = "test"]
  /\ UNCHANGED <<table, held, param, clients, lsock, working, dev, scan, peers, mixed>>

\* The loop: leave when disconnected, retry when the port could not be bound.
TestStatus(i) ==
  /\ apc[i] = "test"
  /\ apc' = [apc EXCEPT ![i] = CASE sockStatus[i] = "Disconnected" -> "leave"
                                    [] sockStatus[i] = "ConnectReady" -> "connect"
                                    [] sockStatus[i] = "Connected"    -> "accept"]
  /\ UNCHANGED <<table, held, param, clients, devices, peers, mixed>>

\* accept returns a connection, or an error once the socket is shut down.
Accept(i, c) ==
  /\ apc[i] = "accept" /\ lsock[i] = "open"
  /\ peer[c] = "waiting" /\ target[c] = i
  /\ peer' = [peer EXCEPT ![c] = "up"]
  /\ apc' = [apc EXCEPT ![i] = "find"]
  /\ aconn' = [aconn EXCEPT ![i] = c]
  /\ UNCHANGED <<table, aslot, param, clients, devices, target, shut, mixed>>

AcceptFails(i) ==
  /\ apc[i] = "accept" /\ lsock[i] # "open"
  /\ apc' = [apc EXCEPT ![i] = "test"]
  /\ UNCHANGED <<table, held, param, clients, devices, peers, mixed>>

\* find_new_dc_client_index: the first free slot becomes busy; without one the
\* connection is closed.
FindSlot(i, s) ==
  /\ apc[i] = "find"
  /\ state[s] = "Free"
  /\ \A t \in Slots : t < s => state[t] # "Free"
  /\ state' = [state EXCEPT ![s] = "Busy"]
  /\ apc' = [apc EXCEPT ![i] = "fill"]
  /\ aslot' = [aslot EXCEPT ![i] = s]
  /\ UNCHANGED <<owner, sock, readActive, aconn, param, clients, devices, peers, mixed>>

NoSlot(i) ==
  /\ apc[i] = "find"
  /\ \A s \in Slots : state[s] # "Free"
  /\ peer' = [peer EXCEPT ![aconn[i]] = "gone"]
  /\ apc' = [apc EXCEPT ![i] = "test"]
  /\ UNCHANGED <<table, held, param, clients, devices, target, shut, mixed>>

\* set_new_dc_client_param
FillSlot(i) ==
  LET s == aslot[i] IN
  /\ apc[i] = "fill"
  /\ state' = [state EXCEPT ![s] = "Active"]
  /\ owner' = [owner EXCEPT ![s] = i]
  /\ readActive' = [readActive EXCEPT ![s] = FALSE]
  /\ apc' = [apc EXCEPT ![i] = "sock"]
  /\ UNCHANGED <<sock, held, param, clients, devices, peers, mixed>>

\* set_dc_client_sock
StoreSock(i) ==
  /\ apc[i] = "sock"
  /\ sock' = [sock EXCEPT ![aslot[i]] = aconn[i]]
  /\ apc' = [apc EXCEPT ![i] = "spawn"]
  /\ UNCHANGED <<state, owner, readActive, held, param, clients, devices, peers, mixed>>

\* The client thread is created with the address of info; the main socket thread
\* goes on at once.
Spawn(i) ==
  LET c == aconn[i] IN
  /\ apc[i] = "spawn"
  /\ pconn' = [pconn EXCEPT ![i] = c]
  /\ pslot' = [pslot EXCEPT ![i] = aslot[i]]
  /\ thr' = [thr EXCEPT ![c] = "boot"]
  /\ mconn' = [mconn EXCEPT ![c] = c]
  /\ mslot' = [mslot EXCEPT ![c] = aslot[i]]
  /\ mctl' = [mctl EXCEPT ![c] = i]
  /\ apc' = [apc EXCEPT ![i] = "test"]
  /\ UNCHANGED <<table, held, rd, devices, peers, mixed>>

\* Out of the loop: close the listening socket.
Leave(i) ==
  /\ apc[i] = "leave"
  /\ lsock' = [lsock EXCEPT ![i] = "none"]
  /\ apc' = [apc EXCEPT ![i] = "end"]
  /\ UNCHANGED <<table, held, param, clients, sockStatus, working, dev, scan, peers, mixed>>

MainSocketThread(i) ==
  \/ CreateSock(i) \/ SetSockStatus(i) \/ TestStatus(i) \/ AcceptFails(i)
  \/ (\E c \in Conns : Accept(i, c)) \/ (\E s \in Slots : FindSlot(i, s)) \/ NoSlot(i)
  \/ FillSlot(i) \/ StoreSock(i) \/ Spawn(i) \/ Leave(i)

-----------------------------------------------------------------------------
(* The client thread (dc_device_client_thread_func) and its read thread.    *)

\* The thread copies info from the main socket thread's stack, where the next
\* connection may have been written meanwhile.
Boot(c) ==
  LET i == mctl[c] IN
  /\ thr[c] = "boot"
  /\ mconn' = [mconn EXCEPT ![c] = pconn[i]]
  /\ mslot' = [mslot EXCEPT ![c] = pslot[i]]
  /\ mixed' = IF pconn[i] = c THEN mixed ELSE mixed \cup {c}
  /\ thr' = [thr EXCEPT ![c] = "reader"]
  /\ UNCHANGED <<table, accepts, mctl, rd, devices, peers>>

StartReader(c) ==
  /\ thr[c] = "reader"
  /\ rd' = [rd EXCEPT ![c] = "run"]
  /\ thr' = [thr EXCEPT ![c] = "flag"]
  /\ UNCHANGED <<table, accepts, me, devices, peers, mixed>>

\* The flag is raised by the creator, after the read thread is on its way.
RaiseFlag(c) ==
  /\ thr[c] = "flag"
  /\ readActive' = [readActive EXCEPT ![mslot[c]] = TRUE]
  /\ thr' = [thr EXCEPT ![c] = "loop"]
  /\ UNCHANGED <<state, owner, sock, accepts, me, rd, devices, peers, mixed>>

LeaveLoop(c) ==
  /\ thr[c] = "loop"
  /\ ~readActive[mslot[c]]
  /\ thr' = [thr EXCEPT ![c] = "join"]
  /\ UNCHANGED <<table, accepts, me, rd, devices, peers, mixed>>

\* Mutant: the state of the slot is not reset.
Destroy_KeepsState(c) ==
  LET s == mslot[c] IN
  /\ thr[c] = "join" /\ rd[c] = "done"
  /\ owner' = [owner EXCEPT ![s] = 0]
  /\ readActive' = [readActive EXCEPT ![s] = FALSE]
  /\ thr' = [thr EXCEPT ![c] = "close"]
  /\ UNCHANGED <<state, sock, accepts, me, rd, devices, peers, mixed>>

\* Mutant: a client marked as destroying is released without waiting for its reader.
Destroy_AtOnce(c) ==
  LET s == mslot[c] IN
  /\ \/ thr[c] = "join" /\ rd[c] = "done"
     \/ thr[c] = "loop" /\ state[s] = "Destroying"
  /\ state' = [state EXCEPT ![s] = "Free"]
  /\ owner' = [owner EXCEPT ![s] = 0]
  /\ readActive' = [readActive EXCEPT ![s] = FALSE]
  /\ thr' = [thr EXCEPT ![c] = "close"]
  /\ UNCHANGED <<sock, accepts, me, rd, devices, peers, mixed>>

\* g_thread_join, then destroy_dc_client
Destroy(c) ==
  LET s == mslot[c] IN
  /\ thr[c] = "join" /\ rd[c] = "done"
  /\ state' = [state EXCEPT ![s] = "Free"]
  /\ owner' = [owner EXCEPT ![s] = 0]
  /\ readActive' = [readActive EXCEPT ![s] = FALSE]
  /\ thr' = [thr EXCEPT ![c] = "close"]
  /\ UNCHANGED <<sock, accepts, me, rd, devices, peers, mixed>>

CloseConn(c) ==
  /\ thr[c] = "close"
  /\ peer' = [peer EXCEPT ![mconn[c]] = "gone"]
  /\ thr' = [thr EXCEPT ![c] = "unsock"]
  /\ UNCHANGED <<table, accepts, me, rd, devices, target, shut, mixed>>

\* set_dc_client_sock(-1), on a slot that has been free for a while
ForgetSock(c) ==
  /\ thr[c] = "unsock"
  /\ sock' = [sock EXCEPT ![mslot[c]] = None]
  /\ thr' = [thr EXCEPT ![c] = "end"]
  /\ UNCHANGED <<state, owner, readActive, accepts, me, rd, devices, peers, mixed>>

\* recv returns 0 or an error: the flag is lowered and the read thread ends.
HungUp(c) == peer[c] = "gone" \/ c \in shut

\* Mutant: the read thread ends without a word.
ReaderEnds_Silent(c) ==
  /\ rd[c] = "run"
  /\ HungUp(mconn[c])
  /\ rd' = [rd EXCEPT ![c] = "done"]
  /\ UNCHANGED <<table, accepts, thr, me, devices, peers, mixed>>

ReaderEnds(c) ==
  /\ rd[c] = "run"
  /\ HungUp(mconn[c])
  /\ readActive' = [readActive EXCEPT ![mslot[c]] = FALSE]
  /\ rd' = [rd EXCEPT ![c] = "done"]
  /\ UNCHANGED <<state, owner, sock, accepts, thr, me, devices, peers, mixed>>

ClientThread(c) ==
  \/ Boot(c) \/ StartReader(c) \/ RaiseFlag(c) \/ LeaveLoop(c)
  \/ Destroy(c) \/ CloseConn(c) \/ ForgetSock(c)

-----------------------------------------------------------------------------
(* The device thread when it stops (end of dc_device_thread_func and        *)
(* close_dc_sock).                                                          *)

StopRequest(i) ==
  /\ dev[i] = "run" /\ working[i]
  /\ working' = [working EXCEPT ![i] = FALSE]
  /\ UNCHANGED <<table, accepts, clients, lsock, sockStatus, dev, scan, peers, mixed>>

\* get_dc_sock and shutdown: nothing is closed, and the main socket thread is told
\* nothing, when the port is not bound right now.  Before the first attempt to bind
\* it the descriptor is the 0 of the zeroed table, which passes the test.
BeginStop(i) ==
  /\ dev[i] = "run" /\ ~working[i]
  /\ lsock' = [lsock EXCEPT ![i] = IF @ = "open" THEN "shut" ELSE @]
  /\ dev' = [dev EXCEPT ![i] = IF lsock[i] = "none" THEN "join" ELSE "mark"]
  /\ UNCHANGED <<table, accepts, clients, sockStatus, working, scan, peers, mixed>>

MarkDisconnected(i) ==
  /\ dev[i] = "mark"
  /\ sockStatus' = [sockStatus EXCEPT ![i] = "Disconnected"]
  /\ dev' = [dev EXCEPT ![i] = "destroy"]
  /\ UNCHANGED <<table, accepts, clients, lsock, working, scan, peers, mixed>>

ActiveSlots == {s \in Slots : state[s] = "Active"}

\* Mutant: the sockets are not shut down.
DestroyClients_NoShutdown(i) ==
  /\ dev[i] = "destroy"
  /\ state' = [s \in Slots |-> IF s \in ActiveSlots THEN "Destroying" ELSE state[s]]
  /\ dev' = [dev EXCEPT ![i] = "scan"]
  /\ UNCHANGED <<owner, sock, readActive, accepts, clients, lsock, sockStatus, working,
                 scan, peers, mixed>>

\* Mutant: the slots are given back here, not by the client threads.
DestroyClients_FreesSlots(i) ==
  /\ dev[i] = "destroy"
  /\ shut' = shut \cup ({sock[s] : s \in ActiveSlots} \ {None})
  /\ state' = [s \in Slots |-> IF s \in ActiveSlots THEN "Free" ELSE state[s]]
  /\ dev' = [dev EXCEPT ![i] = "scan"]
  /\ UNCHANGED <<owner, sock, readActive, accepts, clients, lsock, sockStatus, working,
                 scan, peer, target, mixed>>

\* set_dc_clients_status_is_destroying: the active clients of every controller
DestroyClients(i) ==
  /\ dev[i] = "destroy"
  /\ shut' = shut \cup ({sock[s] : s \in ActiveSlots} \ {None})
  /\ state' = [s \in Slots |-> IF s \in ActiveSlots THEN "Destroying" ELSE state[s]]
  /\ dev' = [dev EXCEPT ![i] = "scan"]
  /\ UNCHANGED <<owner, sock, readActive, accepts, clients, lsock, sockStatus, working,
                 scan, peer, target, mixed>>

\* One slot after the other; once a whole pass finds none of its own, go on.
Occupied(i, s) == owner[s] = i /\ state[s] # "Free"

ScanSlot(i) ==
  LET s == scanAt[i] IN
  /\ dev[i] = "scan"
  /\ \/ /\ s + 1 < NSlots
        /\ scanAt' = [scanAt EXCEPT ![i] = s + 1]
        /\ scanReady' = [scanReady EXCEPT ![i] = IF Occupied(i, s) THEN FALSE ELSE @]
        /\ UNCHANGED dev
     \/ /\ s + 1 = NSlots
        /\ scanAt' = [scanAt EXCEPT ![i] = 0]
        /\ scanReady' = [scanReady EXCEPT ![i] = TRUE]
        /\ dev' = [dev EXCEPT ![i] = IF Occupied(i, s) \/ ~scanReady[i] THEN @ ELSE "join"]
  /\ UNCHANGED <<table, accepts, clients, lsock, sockStatus, working, peers, mixed>>

\* g_thread_join of the main socket thread
Finish(i) ==
  /\ dev[i] = "join" /\ apc[i] = "end"
  /\ dev' = [dev EXCEPT ![i] = "off"]
  /\ UNCHANGED <<table, accepts, clients, lsock, sockStatus, working, scan, peers, mixed>>

DeviceThread(i) ==
  \/ BeginStop(i) \/ MarkDisconnected(i) \/ DestroyClients(i) \/ ScanSlot(i) \/ Finish(i)

Next ==
  \/ \E c \in Conns : \/ (\E i \in Controllers : PeerConnects(c, i))
                      \/ PeerLeaves(c) \/ ClientThread(c) \/ ReaderEnds(c)
  \/ \E i \in Controllers : MainSocketThread(i) \/ StopRequest(i) \/ DeviceThread(i)

Spec == Init /\ [][Next]_vars

\* Every thread runs; peers come and go as they like, and nobody has to stop.
Fairness ==
  /\ \A c \in Conns : WF_vars(ClientThread(c)) /\ WF_vars(ReaderEnds(c))
  /\ \A i \in Controllers : WF_vars(MainSocketThread(i)) /\ WF_vars(DeviceThread(i))

FairSpec == Spec /\ Fairness
-----------------------------------------------------------------------------
TypeOK ==
  /\ state \in [Slots -> {"Free", "Busy", "Active", "Destroying"}]
  /\ owner \in [Slots -> Controllers]
  /\ sock  \in [Slots -> ConnOrNone]
  /\ readActive \in [Slots -> BOOLEAN]
  /\ apc \in [Controllers -> {"connect", "status", "test", "accept", "find", "fill",
                              "sock", "spawn", "leave", "end"}]
  /\ aconn \in [Controllers -> ConnOrNone] /\ aslot \in [Controllers -> Slots]
  /\ pconn \in [Controllers -> ConnOrNone] /\ pslot \in [Controllers -> Slots]
  /\ thr \in [Conns -> {"none", "boot", "reader", "flag", "loop", "join", "close",
                        "unsock", "end"}]
  /\ mconn \in [Conns -> ConnOrNone] /\ mslot \in [Conns -> Slots]
  /\ mctl \in [Conns -> Controllers]
  /\ rd \in [Conns -> {"none", "run", "done"}]
  /\ lsock \in [Controllers -> {"zero", "none", "open", "shut"}]
  /\ sockStatus \in [Controllers -> {"ConnectReady", "Connected", "Disconnected"}]
  /\ working \in [Controllers -> BOOLEAN]
  /\ dev \in [Controllers -> {"run", "mark", "destroy", "scan", "join", "off"}]
  /\ scanAt \in [Controllers -> Slots] /\ scanReady \in [Controllers -> BOOLEAN]
  /\ peer \in [Conns -> {"away", "waiting", "up", "gone"}]
  /\ target \in [Conns -> Controllers]
  /\ shut \subseteq Conns
  /\ mixed \subseteq Conns

\* Client thread c uses its slot: from its creation until destroy_dc_client.
Serving(c) == thr[c] \in {"boot", "reader", "flag", "loop", "join"}

\* The main socket thread of controller i has a slot that no thread serves yet.
Filling(i) == apc[i] \in {"fill", "sock", "spawn"}

\* As long as every client thread got its own parameters, no two connections share
\* a slot, whichever controllers accept them and however slots are given back and
\* taken again: every field of dc_clients[] has one client behind it.
OneClientPerSlot ==
  mixed = {} =>
    /\ \A c, e \in Conns :
         Serving(c) /\ Serving(e) /\ mslot[c] = mslot[e] => c = e
    /\ \A i, j \in Controllers :
         Filling(i) /\ Filling(j) /\ aslot[i] = aslot[j] => i = j
    /\ \A i \in Controllers, c \in Conns :
         Filling(i) /\ Serving(c) => aslot[i] # mslot[c]

\* Slots are not leaked: a slot that is not free has a connection that is being
\* set up or served, and a slot in use is not handed out again.
NoSlotLeak ==
  mixed = {} =>
    \A s \in Slots : state[s] # "Free" <=>
      \/ \E c \in Conns : Serving(c) /\ mslot[c] = s
      \/ \E i \in Controllers : Filling(i) /\ aslot[i] = s

\* A read thread touches only the slot of its own connection, also at the very end.
ReaderWithinClient ==
  \A c \in Conns : rd[c] = "run" => thr[c] \in {"flag", "loop", "join"}

\* A client thread that reached its loop with its read thread running ends once the
\* connection is gone, and gives its slot back.
ClientThreadEnds ==
  \A c \in Conns :
    (thr[c] = "loop" /\ rd[c] = "run" /\ HungUp(mconn[c]) /\ mixed = {})
      ~> (thr[c] = "end" \/ mixed # {})

\* Nothing is in transition at controller i: its main socket thread waits in accept,
\* and every connection is over, is not here yet, or is served with its socket stored.
Settled(i) ==
  /\ apc[i] = "accept" /\ sockStatus[i] = "Connected"
  /\ \A c \in Conns :
       \/ thr[c] \in {"none", "end"}
       \/ /\ thr[c] = "loop" /\ rd[c] = "run"
          /\ state[mslot[c]] = "Active" /\ sock[mslot[c]] = mconn[c]
  /\ \A j \in Controllers \ {i} : apc[j] \in {"accept", "end"} /\ dev[j] \in {"run", "off"}

\* A controller that begins to stop when nothing is in transition does stop: its main
\* socket thread leaves, every client is found in the table and disconnected, and
\* the wait for the slots to become free ends, whatever the peers do.
SettledStopCompletes ==
  \A i \in Controllers :
    (dev[i] = "mark" /\ lsock[i] = "shut" /\ Settled(i) /\ mixed = {}) ~> dev[i] = "off"
=============================================================================
