------------------------------ MODULE ScDevice ------------------------------
(***************************************************************************)
(* A sensor controller of the hardware server (sc_device*.c).              *)
(***************************************************************************)
EXTENDS DeviceClients

SensorMoves == UnitMoves

set_sensor_config_from_driver == ReadConfig
set_sc_device_status_from_driver == ReadStatus(FirstUnit)

set_sc_sensor_data(u, now) ==
    /\ data' = [data EXCEPT ![u] = now]
    /\ changed' = IF now # data[u] THEN changed \cup {u} ELSE changed

\* A driver that fails leaves the data as they were.
set_sensor_state_from_driver(u) ==
    /\ place = <<"read", u>>
    /\ set_sc_sensor_data(u, real[u]) \/ UNCHANGED <<data, changed>>
    /\ place' = <<"tell", u>>
    /\ UNCHANGED <<setup, real, moves, count, status, clients, filtering>>

\* Mutant: only the first sensor's clients are flagged.
tell_sensor_FirstOnly(u) ==
    /\ place = <<"tell", u>>
    /\ IF u \in changed /\ u = 1 THEN FlagAll(u, Holders(u)) ELSE UNCHANGED clients
    /\ changed' = changed \ {u}
    /\ place' = NextUnit(u)
    /\ UNCHANGED <<setup, real, moves, data, count, status, filtering>>

tell_sensor(u) ==
    /\ place = <<"tell", u>>
    /\ IF u \in changed THEN FlagAll(u, Holders(u)) ELSE UNCHANGED clients
    /\ changed' = changed \ {u}
    /\ place' = NextUnit(u)
    /\ UNCHANGED <<setup, real, moves, data, count, status, filtering>>

sensor_controller_device_thread_func ==
    \/ set_sensor_config_from_driver \/ set_sc_device_status_from_driver
    \/ \E u \in Units : set_sensor_state_from_driver(u) \/ tell_sensor(u)
    \/ TellStatus

\* A new client is told of everything once it is logged in.
set_new_sc_client_param(p) == Accept(p, 0 .. count)

sc_main_socket_thread_func(p) == set_new_sc_client_param(p)
set_sc_clients_status_is_destroying == SetDestroying

destroy_sc_client(s) == Destroy(s)

sc_device_client_thread_func(s) == ClearFlag(s) \/ destroy_sc_client(s)

send_sc_device_data_message(s, i) == Send(s, i, {i})

ParseSCRequest(s, guid) == Login(s, guid)

\* The configuration, the device status, the data of one sensor or of all of them;
\* what has a number no sensor has, and any other command, is refused.
sc_device_client_read_thread_func(s, guid) ==
    /\ ParseSCRequest(s, guid)
    /\ \/ Answer(s, {}) \/ Answer(s, {0})
       \/ count > 0 /\ (Answer(s, 1 .. count) \/ \E u \in Units : Answer(s, {u}))
=============================================================================
