------------------------------ MODULE PpcDevice ------------------------------
(***************************************************************************)
(* A price pole controller of the hardware server (ppc_device*.c).  Its    *)
(* clients also set prices: a request waits in the slot of its client      *)
(* until the device thread finds it.  Item 1 is the data of all the poles, *)
(* which are told together.                                                *)
(***************************************************************************)
EXTENDS DeviceClients, Sequences

VARIABLES
    commands,   \* [Slots -> the command part of a client's slot]
    fetched,    \* [Slots -> what the client's thread took of a complete one]
    ordered,    \* the price the driver was given last
    masked,     \* history: a pole hid the change of an earlier one
    asks        \* history: for every request its price, what the driver made
                \* of it and what its client was told, or "gone" with its client
poles == <<commands, fetched, ordered, masked, asks>>

Price == {0, 1}
NoCommand == [state |-> "Free", ask |-> 0, result |-> "none"]
Nothing == [got |-> FALSE, ask |-> 0, result |-> "none"]

PolesInit == /\ commands = [s \in Slots |-> NoCommand]
             /\ fetched = [s \in Slots |-> Nothing]
             /\ ordered = 0
             /\ masked = FALSE
             /\ asks = <<>>

Asks == DOMAIN asks

-----------------------------------------------------------------------------
(* The device thread.                                                      *)

\* The poles show the price they were given one after the other.
PoleShows ==
    /\ \E u \in Units : real[u] # ordered /\ real' = [real EXCEPT ![u] = ordered]
    /\ UNCHANGED <<server, clients, poles>>

set_price_pole_config_from_driver == ReadConfig /\ UNCHANGED poles
set_ppc_device_status_from_driver == ReadStatus(<<"find", 0>>) /\ UNCHANGED poles

New(s) == Active(s) /\ commands[s].ask # 0 /\ commands[s].state = "New"

find_ppc_client_command ==
    /\ place = <<"find", 0>>
    /\ \/ \E s \in Slots :
            /\ New(s) /\ \A t \in Slots : t < s => ~New(t)
            /\ commands' = [commands EXCEPT ![s].state = "Run"]
            /\ place' = <<"run", s, commands[s].ask>>
       \/ /\ \A s \in Slots : ~New(s)
          /\ place' = FirstUnit
          /\ UNCHANGED commands
    /\ UNCHANGED <<setup, real, moves, data, changed, count, status, clients, filtering, fetched, ordered,
                   masked, asks>>

\* set_price_to_driver, then set_ppc_client_command_result: whoever has the
\* slot by now.
set_ppc_client_command_result(s, k) ==
    /\ place = <<"run", s, k>>
    /\ \E result \in {"NoError", "Error"} :
         /\ ordered' = IF result = "NoError" THEN asks[k].price ELSE ordered
         /\ asks' = [asks EXCEPT ![k].outcome = result]
         /\ commands' = [commands EXCEPT ![s].result = result, ![s].state = "Complete"]
    /\ place' = FirstUnit
    /\ UNCHANGED <<setup, real, moves, data, changed, count, status, clients, filtering, fetched, masked>>

\* data_is_changed is of the controller, and every pole overwrites it.
set_ppc_price_pole_data(u, now) ==
    /\ data' = [data EXCEPT ![u] = now]
    /\ changed' = (changed \ {1}) \cup (IF now # data[u] THEN {1} ELSE {})
    /\ masked' = (masked \/ (1 \in changed /\ now = data[u]))

set_price_pole_state_from_driver(u) ==
    /\ place = <<"read", u>>
    /\ set_ppc_price_pole_data(u, real[u]) \/ UNCHANGED <<data, changed, masked>>
    /\ place' = IF u < count THEN <<"read", u + 1>> ELSE <<"tell", 1>>
    /\ UNCHANGED <<setup, real, moves, count, status, clients, filtering, commands, fetched, ordered,
                   asks>>

tell_poles ==
    /\ place = <<"tell", 1>>
    /\ IF 1 \in changed THEN FlagAll(1, Slots) ELSE UNCHANGED clients
    /\ changed' = changed \ {1}
    /\ place' = <<"tell", 0>>
    /\ UNCHANGED <<setup, real, moves, data, count, status, filtering, poles>>

ppc_device_thread_func ==
    \/ set_price_pole_config_from_driver \/ set_ppc_device_status_from_driver
    \/ find_ppc_client_command
    \/ \E s \in Slots, k \in Asks : set_ppc_client_command_result(s, k)
    \/ \E u \in Units : set_price_pole_state_from_driver(u)
    \/ tell_poles
    \/ TellStatus /\ UNCHANGED poles

-----------------------------------------------------------------------------
(* The clients.                                                            *)

set_new_ppc_client_param(p) == Accept(p, {0, 1}) /\ UNCHANGED poles
ppc_main_socket_thread_func(p) == set_new_ppc_client_param(p)
set_ppc_clients_status_is_destroying == SetDestroying

\* destroy_ppc_client: the command goes with the slot, run or not.
destroy_ppc_client(s) ==
    /\ ~fetched[s].got
    /\ Destroy(s)
    /\ commands' = [commands EXCEPT ![s] = NoCommand]
    /\ asks' = IF commands[s].ask = 0 THEN asks
               ELSE [asks EXCEPT ![commands[s].ask].told = "gone"]
    /\ UNCHANGED <<fetched, ordered, masked>>

send_ppc_device_status_message(s) == ~fetched[s].got /\ Send(s, 0, {0}) /\ UNCHANGED poles
send_ppc_device_data_message(s) == ~fetched[s].got /\ Send(s, 1, Units) /\ UNCHANGED poles

\* The result is taken and the slot cleared in two steps, then it is sent.
get_ppc_client_command_result(s) ==
    /\ Active(s) /\ commands[s].state = "Complete" /\ ~fetched[s].got /\ clients[s].sent = {}
    /\ fetched' = [fetched EXCEPT ![s] = [got |-> TRUE, ask |-> commands[s].ask,
                                          result |-> commands[s].result]]
    /\ UNCHANGED <<real, server, clients, commands, ordered, masked, asks>>

clear_ppc_client_command(s) ==
    /\ fetched[s].got
    /\ fetched' = [fetched EXCEPT ![s] = Nothing]
    /\ commands' = [commands EXCEPT ![s] = NoCommand]
    /\ asks' = IF fetched[s].ask = 0 THEN asks
               ELSE [asks EXCEPT ![fetched[s].ask].told = fetched[s].result]
    /\ UNCHANGED <<real, server, clients, ordered, masked>>

ppc_device_client_thread_func(s) ==
    \/ ~fetched[s].got /\ ClearFlag(s) /\ UNCHANGED poles
    \/ get_ppc_client_command_result(s) \/ clear_ppc_client_command(s)
    \/ destroy_ppc_client(s)

ParsePPCRequest(s, guid) == Login(s, guid)

NewAsk(price, told) == [price |-> price, outcome |-> "none", told |-> told]

\* Mutant: a request replaces the one that waits or runs.
PPSetPrices_Replaces(s, guid, price, permitted) ==
    /\ Len(asks) < setup.asks
    /\ ParsePPCRequest(s, guid) /\ Answer(s, {})
    /\ IF permitted /\ Active(s)
       THEN /\ commands' = [commands EXCEPT ![s] =
                 [state |-> "New", ask |-> Len(asks) + 1, result |-> "none"]]
            /\ asks' = Append(asks, NewAsk(price, "none"))
       ELSE /\ asks' = Append(asks, NewAsk(price, "refused"))
            /\ UNCHANGED commands
    /\ UNCHANGED <<fetched, ordered, masked>>

\* set_ppc_client_command: one request of a client at a time, and the rights
\* of its profile count.
PPSetPrices(s, guid, price, permitted) ==
    /\ Len(asks) < setup.asks
    /\ ParsePPCRequest(s, guid) /\ Answer(s, {})
    /\ IF permitted /\ Active(s) /\ commands[s].ask = 0
       THEN /\ commands' = [commands EXCEPT ![s] =
                 [state |-> "New", ask |-> Len(asks) + 1, result |-> "none"]]
            /\ asks' = Append(asks, NewAsk(price, "none"))
       ELSE /\ asks' = Append(asks, NewAsk(price, "refused"))
            /\ UNCHANGED commands
    /\ UNCHANGED <<fetched, ordered, masked>>

ppc_device_client_read_thread_func(s, guid) ==
    /\ ParsePPCRequest(s, guid)
    /\ Answer(s, {}) \/ Answer(s, {0}) \/ Answer(s, Units)
    /\ UNCHANGED poles
=============================================================================
