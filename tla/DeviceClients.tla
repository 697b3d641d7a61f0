--------------------------- MODULE DeviceClients ---------------------------
(***************************************************************************)
(* What the hardware server does alike for its tank gauges, sensors and    *)
(* price poles: a device thread polls the driver and flags what changed,   *)
(* a thread per client pushes what is flagged, another reads the client's  *)
(* requests.  Item 0 is the status of the device, item u the data of its   *)
(* unit u.  How connections start and end in detail is the subject of      *)
(* DcSessions, where the code is the same: here each is one step.          *)
(***************************************************************************)
EXTENDS Naturals

CONSTANTS Slots,     \* 1 .. the number of client slots
          Peers,     \* who may connect, not 0
          Setups     \* the devices looked at: records of
                     \*   kind: "tgs", "sc" or "ppc"
                     \*   units: the tanks, sensors or price poles that are wired
                     \*   pss, others: the peers that are links of pss, other programs
                     \*   filtering: the set of choices whether profiles are enabled
                     \*   moves, cuts, asks: bounds for the changes of units and status,
                     \*      for broken links, for requests to set prices
                     \*   prices: those that the other programs set

ASSUME ShapeAssumption ==
    /\ Slots \subseteq Nat /\ 0 \notin Peers
    /\ \A d \in Setups : /\ d.units \in Nat \ {0}
                         /\ d.pss \cup d.others \subseteq Peers /\ d.pss \cap d.others = {}

Nobody == 0
Unknown == 2              \* not a value of a unit or a status: never told

VARIABLES
    setup,      \* the device looked at, chosen at the start
    real,       \* [Units -> {0, 1}], what the driver would return
    moves,      \* how often a unit or the status changed by itself
    place,      \* <<what the device thread does next, a unit or a slot or 0>>
    data,       \* [Units -> {0, 1}], what the server holds
    changed,    \* the items whose data_is_changed or device_status_is_changed is set
    count,      \* tank_count, sensor_count, price_pole_count
    status,     \* device_status: 1 is NoError
    clients,    \* [Slots -> the slot of a client and its two threads]
    filtering   \* profiles are enabled

Units == 1 .. setup.units
server == <<setup, moves, place, data, changed, count, status, filtering>>

\* A slot.  sent, told and missed are what the model keeps beside the code:
\* the item sent and not yet unflagged, what the peer was told last, and the
\* items that were flagged again in between.
Free == [state |-> "Free", peer |-> Nobody, logged |-> FALSE, count |-> 0, flags |-> {},
         reading |-> FALSE, sent |-> {}, told |-> [u \in Units |-> Unknown], missed |-> {}]

DeviceInit ==
    /\ setup \in Setups
    /\ filtering \in setup.filtering
    /\ real = [u \in Units |-> 0]
    /\ moves = 0
    /\ place = <<"load", 0>>
    /\ data = [u \in Units |-> 0]
    /\ changed = {}
    /\ count = 0
    /\ status = 0
    /\ clients = [s \in Slots |-> Free]

Active(s) == clients[s].state = "Active"

-----------------------------------------------------------------------------
(* The device thread.                                                      *)

Move == moves < setup.moves /\ moves' = moves + 1

UnitMoves ==
    /\ Move
    /\ \E u \in Units : real' = [real EXCEPT ![u] = 1 - @]
    /\ UNCHANGED <<setup, place, data, changed, count, status, filtering, clients>>

\* init_lib and what the driver names; it may fail half way and name none.
ReadConfig ==
    /\ place = <<"load", 0>>
    /\ count' \in {0, setup.units}
    /\ data' = [u \in Units |-> 0]
    /\ place' = <<"poll", 0>>
    /\ UNCHANGED <<setup, real, moves, changed, status, clients, filtering>>

\* A healthy device is asked for its units, beginning at `first`.
ReadStatus(first) ==
    /\ place = <<"poll", 0>>
    /\ \/ status' = 1 /\ UNCHANGED moves
       \/ status' = 0 /\ Move
    /\ changed' = IF status' # status THEN changed \cup {0} ELSE changed
    /\ place' = IF status' = 1 THEN first ELSE <<"tell", 0>>
    /\ UNCHANGED <<setup, real, data, count, clients, filtering>>

\* Without units the driver is closed and loaded again; a change of the
\* status then waits.
FirstUnit == IF count > 0 THEN <<"read", 1>> ELSE <<"load", 0>>
NextUnit(u) == IF u < count THEN <<"read", u + 1>> ELSE <<"tell", 0>>

\* A client whose thread has just sent the item, and is about to clear its
\* flag, misses the change.
Flag(c, i) == [c EXCEPT !.flags = @ \cup {i}, !.missed = @ \cup (c.sent \cap {i})]

FlagAll(i, holders) ==
    clients' = [s \in Slots |->
        IF Active(s) /\ s \in holders THEN Flag(clients[s], i) ELSE clients[s]]

Holders(i) == {s \in Slots : i <= clients[s].count}

TellStatus ==
    /\ place = <<"tell", 0>>
    /\ IF 0 \in changed THEN FlagAll(0, Slots) ELSE UNCHANGED clients
    /\ changed' = changed \ {0}
    /\ place' = <<"poll", 0>>
    /\ UNCHANGED <<setup, real, moves, data, count, status, filtering>>

-----------------------------------------------------------------------------
(* The slots and the threads of the clients.                               *)

FirstFree(s) == /\ clients[s].state = "Free"
                /\ \A t \in Slots : t < s => clients[t].state # "Free"

Accept(p, news) ==
    /\ \E s \in Slots :
         /\ FirstFree(s)
         /\ clients' = [clients EXCEPT ![s] =
              [Free EXCEPT !.state = "Active", !.peer = p, !.logged = ~filtering,
                           !.count = count, !.flags = news, !.reading = TRUE]]
    /\ UNCHANGED <<real, server>>

\* The peer closes its end, or the network does: recv returns.
ReaderEnds(s) ==
    /\ clients[s].reading
    /\ clients' = [clients EXCEPT ![s].reading = FALSE]
    /\ UNCHANGED <<real, server>>

\* A device of the same kind is stopped: the clients of all of them end.
SetDestroying ==
    /\ \E s \in Slots : Active(s)
    /\ clients' = [s \in Slots |->
         IF Active(s) THEN [clients[s] EXCEPT !.state = "Destroying", !.reading = FALSE]
         ELSE clients[s]]
    /\ UNCHANGED <<real, server>>

Destroy(s) ==
    /\ clients[s].state # "Free" /\ ~clients[s].reading /\ clients[s].sent = {}
    /\ clients' = [clients EXCEPT ![s] = Free]
    /\ UNCHANGED <<real, server>>

\* The client is told what the server holds now of some items.
Told(c, items) ==
    [c EXCEPT !.told = [u \in Units |-> IF u \in items THEN data[u] ELSE @[u]],
              !.missed = @ \ items]

\* The thread of a client goes round its flags; a message and the clearing of
\* its flag are two steps.
Send(s, i, items) ==
    /\ clients[s].sent = {} /\ Active(s) /\ clients[s].logged /\ i \in clients[s].flags
    /\ clients' = [clients EXCEPT ![s] = [Told(@, items) EXCEPT !.sent = {i}]]
    /\ UNCHANGED <<real, server>>

ClearFlag(s) ==
    /\ clients[s].sent # {}
    /\ clients' = [clients EXCEPT
         ![s].sent = {}, ![s].flags = IF Active(s) THEN @ \ clients[s].sent ELSE @]
    /\ UNCHANGED <<real, server>>

\* The reader of a client: a request with the guid of an enabled profile logs
\* it in; without one, who is not logged in gets no answer.
Login(s, guid) == clients[s].reading /\ (guid \/ clients[s].logged)

Answer(s, items) ==
    /\ clients' = [clients EXCEPT ![s] = [Told(@, items) EXCEPT !.logged = TRUE]]
    /\ UNCHANGED <<real, server>>
=============================================================================
