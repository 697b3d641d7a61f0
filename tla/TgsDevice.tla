------------------------------ MODULE TgsDevice ------------------------------
(***************************************************************************)
(* A tank gauge system of the hardware server (tgs_device*.c).             *)
(***************************************************************************)
EXTENDS DeviceClients

TankMoves == UnitMoves

set_tank_config_from_driver == ReadConfig
set_tgs_device_status_from_driver == ReadStatus(FirstUnit)

set_tgs_tank_data(u, now) ==
    /\ data' = [data EXCEPT ![u] = now]
    /\ changed' = IF now # data[u] THEN changed \cup {u} ELSE changed

set_tank_state_from_driver(u) ==
    /\ place = <<"read", u>>
    /\ set_tgs_tank_data(u, real[u]) \/ UNCHANGED <<data, changed>>
    /\ place' = <<"tell", u>>
    /\ UNCHANGED <<setup, real, moves, count, status, clients, filtering>>

\* set_tgs_device_status_is_changed_for_all_clients(tgsi, i, TRUE): the flag of
\* the device status becomes the index of the tank, so that the first tank
\* clears it and the others set it; the tank's own flag is never set again.
tell_tank(u) ==
    /\ place = <<"tell", u>>
    /\ IF u \notin changed THEN UNCHANGED clients
       ELSE IF u > 1 THEN FlagAll(0, Slots)
       ELSE clients' = [s \in Slots |->
              IF Active(s) THEN [clients[s] EXCEPT !.flags = @ \ {0}] ELSE clients[s]]
    /\ changed' = changed \ {u}
    /\ place' = NextUnit(u)
    /\ UNCHANGED <<setup, real, moves, data, count, status, filtering>>

tgs_device_thread_func ==
    \/ set_tank_config_from_driver \/ set_tgs_device_status_from_driver
    \/ \E u \in Units : set_tank_state_from_driver(u) \/ tell_tank(u)
    \/ TellStatus

set_new_tgs_client_param(p) == Accept(p, 0 .. count)

tgs_main_socket_thread_func(p) == set_new_tgs_client_param(p)
set_tgs_clients_status_is_destroying == SetDestroying

destroy_tgs_client(s) == Destroy(s)

tgs_device_client_thread_func(s) == ClearFlag(s) \/ destroy_tgs_client(s)

send_tgs_device_data_message(s, i) == Send(s, i, {i})

ParseTGSRequest(s, guid) == Login(s, guid)

tgs_device_client_read_thread_func(s, guid) ==
    /\ ParseTGSRequest(s, guid)
    /\ \/ Answer(s, {}) \/ Answer(s, {0})
       \/ count > 0 /\ (Answer(s, 1 .. count) \/ \E u \in Units : Answer(s, {u}))
=============================================================================
