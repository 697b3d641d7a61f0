------------------------------ MODULE HsConfig ------------------------------
(***************************************************************************)
(* The configuration of the hardware server: the store of configuration.c, *)
(* the administrators who change it over their socket (system_thread.c),   *)
(* the XML file (xml.c), restarts, and what the readers of the store are   *)
(* told (system_message_func.c and, on its side, hardware_serv.c of pss).  *)
(*                                                                         *)
(* A value is reduced to whether a field differs from its default: an      *)
(* entry is the set of its fields that do.  One behaviour is about one     *)
(* kind of entry and one field of it (setup), so that every field of       *)
(* ConfTables is followed alone and together with all others.              *)
(***************************************************************************)
EXTENDS ConfTables, Sequences, FiniteSets

CONSTANTS Admins,   \* the connections of the administration socket
          Ids,      \* the ids an administrator gives, all above zero
          Setups    \* [kind, field, admins, room] of the behaviours to follow

ASSUME IdsAssumption == Ids \subseteq Nat \ {0} /\ 1 \in Ids
ASSUME SetupsAssumption ==
    \A s \in Setups : /\ s.kind \in Kinds /\ s.field \in Fields[s.kind]
                      /\ s.admins \subseteq Admins /\ s.room \in Nat \ {0}

VARIABLES
    setup,    \* the kind, the field, the administrators and MAX_DEVICE_COUNT
    store,    \* the entries of this kind in configuration
    file,     \* the entries of this kind in the XML file
    doing,    \* what the thread of an administrator has still to do
    unsaved,  \* a removed profile is still in the file
    gone      \* history: the ids whose removal was answered with success

configVars == <<setup, store, file, doing, unsaved, gone>>

kind == setup.kind

(* An entry: its id, its fields that differ from their default, the ones   *)
(* that differ in the last request for it (history), and whether a removed *)
(* profile in front of it has moved it (history).                          *)
Entry == [id : Ids \cup {0}, has : SUBSET Fields[kind], ask : SUBSET Fields[kind],
          moved : BOOLEAN]

Nothing == [step |-> "nothing"]
Enabling(on) == [step |-> "enable", on |-> on]
Writing(id) == [step |-> "write", deleted |-> id]   \* 0: not a removal

-----------------------------------------------------------------------------
(* The wire.  The fields of a request come with the widths of the server's *)
(* own answers or with those its parser wants; a request is refused with a *)
(* Nak when one of them has another width.                                 *)
Requests == {{}, {setup.field}, Fields[kind]}

Accepted(fields, widths) == \A f \in fields : widths[f] = ServerParses[kind][f]

(* Of a nozzle's number the highest byte is kept, which is zero, and the   *)
(* volume of a full tank is read from what lies behind the buffer.         *)
Received(fields) ==
    {(fields \ {"nozzle.num", "full_tank_volume"}) \cup garbage :
        garbage \in SUBSET (fields \cap {"full_tank_volume"})}

(* update_common_conf leaves a name or a directory that is not given as it *)
(* is, and the use of profiles to set_profiles_enable.                     *)
Untouched(fields) ==
    IF kind = "common" THEN ({"server_name", "log_dir"} \ fields) \cup {"profiles_enable"}
                       ELSE {}

Updated(e, fields, got) ==
    LET left == Untouched(fields)
        set == UpdateCopies[kind] \ left
    IN  [e EXCEPT !.has = (@ \ set) \cup (got \cap set),
                  !.ask = (fields \ left) \cup (@ \cap left),
                  !.moved = FALSE]

Cleared(e) == [e EXCEPT !.id = 0, !.has = @ \ DeleteClears[kind], !.ask = {}]

(* A profile moves one place down without its name, and without its guid   *)
(* when it has none to replace the removed one's.                          *)
Moved(e, onto) == [e EXCEPT !.has = (@ \ {"name"}) \cup (onto.has \cap {"guid"}),
                            !.moved = TRUE]

-----------------------------------------------------------------------------
(* The file.                                                               *)
Written(entries) == [i \in DOMAIN entries |-> [entries[i] EXCEPT !.has = @ \cap Saved[kind]]]
Loaded(entries) ==
    [i \in DOMAIN entries |->
        [entries[i] EXCEPT !.has = {f \in Loads[kind] : Attribute(f) \in @}]]

HandWritten == {<<>>} \cup {<<[id |-> 1, has |-> fields, ask |-> fields, moved |-> FALSE]>> :
                               fields \in Requests}

ConfigInit ==
  /\ setup \in Setups
  /\ file \in IF kind = "common" THEN HandWritten \ {<<>>} ELSE HandWritten
  /\ store = Loaded(file)
  /\ doing = [a \in Admins |-> Nothing]
  /\ unsaved = FALSE
  /\ gone = {}

-----------------------------------------------------------------------------
(* A request changes the store under configuration_mutex; the file is      *)
(* written, and the answer sent, in a critical section of its own.         *)
Free(a) == a \in setup.admins /\ doing[a] = Nothing

Request(a, fields, got) ==
    /\ Free(a)
    /\ fields \in Requests
    /\ \E widths \in {Sent[kind], ServerParses[kind]} : Accepted(fields, widths)
    /\ got \in Received(fields)

Add(a, id, fields, got) ==
    /\ kind # "common"
    /\ Request(a, fields, got)
    /\ Len(store) < setup.room
    /\ store' = Append(store, [id |-> id, has |-> got \cap AddCopies[kind], ask |-> fields,
                               moved |-> FALSE])
    /\ doing' = [b \in Admins |-> IF b = a \/ doing[b] = Writing(id) THEN Writing(0)
                                                                   ELSE doing[b]]
    /\ gone' = gone \ {id}
    /\ UNCHANGED <<setup, file, unsaved>>

Update(a, id, fields, got) ==
    /\ Request(a, fields, got)
    /\ \E i \in DOMAIN store : store[i].id = id
    /\ store' = [i \in DOMAIN store |-> IF store[i].id = id
                                        THEN Updated(store[i], fields, got)
                                        ELSE store[i]]
    /\ doing' = [doing EXCEPT ![a] = IF kind = "common"
                                     THEN Enabling("profiles_enable" \in got)
                                     ELSE Writing(0)]
    /\ UNCHANGED <<setup, file, unsaved, gone>>

set_profiles_enable(a) ==
    /\ doing[a].step = "enable"
    /\ store' = [i \in DOMAIN store |->
                    [store[i] EXCEPT !.has = (@ \ {"profiles_enable"})
                                             \cup (IF doing[a].on THEN {"profiles_enable"} ELSE {}),
                                     !.ask = (@ \ {"profiles_enable"})
                                             \cup (IF doing[a].on THEN {"profiles_enable"} ELSE {})]]
    /\ doing' = [doing EXCEPT ![a] = Writing(0)]
    /\ UNCHANGED <<setup, file, unsaved, gone>>

(* Mutant: the removal is not written to the file.                         *)
DeleteDevice_NotWritten(a, id) ==
    /\ kind \in Devices
    /\ Free(a)
    /\ \E i \in DOMAIN store : store[i].id = id
    /\ store' = [i \in DOMAIN store |-> IF store[i].id = id THEN Cleared(store[i])
                                                           ELSE store[i]]
    /\ UNCHANGED <<setup, file, doing, unsaved, gone>>

(* Mutant: only the first of several devices of this id is removed.        *)
DeleteDevice_FirstOnly(a, id) ==
    /\ kind \in Devices
    /\ Free(a)
    /\ \E i \in DOMAIN store :
          /\ store[i].id = id /\ \A j \in 1..(i - 1) : store[j].id # id
          /\ store' = [store EXCEPT ![i] = Cleared(@)]
    /\ doing' = [doing EXCEPT ![a] = Writing(id)]
    /\ UNCHANGED <<setup, file, unsaved, gone>>

DeleteDevice(a, id) ==
    /\ kind \in Devices
    /\ Free(a)
    /\ \E i \in DOMAIN store : store[i].id = id
    /\ store' = [i \in DOMAIN store |-> IF store[i].id = id THEN Cleared(store[i])
                                                           ELSE store[i]]
    /\ doing' = [doing EXCEPT ![a] = Writing(id)]
    /\ UNCHANGED <<setup, file, unsaved, gone>>

(* The first profile of this id goes, but its removal is answered as if    *)
(* there were none: nothing is written.                                    *)
delete_client_profile(a, id) ==
    /\ kind = "profile"
    /\ Free(a)
    /\ \E i \in DOMAIN store :
          /\ store[i].id = id /\ \A j \in 1..(i - 1) : store[j].id # id
          /\ store' = [j \in 1..(Len(store) - 1) |->
                          IF j < i THEN store[j] ELSE Moved(store[j + 1], store[j])]
    /\ unsaved' = TRUE
    /\ UNCHANGED <<setup, file, doing, gone>>

write_conf(a) ==
    /\ doing[a].step = "write"
    /\ file' = Written(store)
    /\ unsaved' = FALSE
    /\ gone' = gone \cup ({doing[a].deleted} \ {0})
    /\ doing' = [doing EXCEPT ![a] = Nothing]
    /\ UNCHANGED <<setup, store>>

(* The server stops at any point and is started again.                     *)
Restart ==
    /\ store' = Loaded(file)
    /\ doing' = [a \in Admins |-> Nothing]
    /\ unsaved' = FALSE
    /\ UNCHANGED <<setup, file, gone>>

ConfigNext ==
    \/ \E a \in Admins, id \in Ids, fields \in Requests : \E got \in Received(fields) :
          Add(a, id, fields, got) \/ Update(a, id, fields, got)
    \/ \E a \in Admins : set_profiles_enable(a) \/ write_conf(a)
    \/ \E a \in Admins, id \in Ids : DeleteDevice(a, id) \/ delete_client_profile(a, id)
    \/ Restart

ConfigSpec == ConfigInit /\ [][ConfigNext]_configVars

-----------------------------------------------------------------------------
(* Readers.  The fields of an entry that reach an administrator, and pss,  *)
(* with a value that is not the default.                                   *)
Told(e) == {f \in DOMAIN Sent[kind] : SentFrom(f) \in e.has \cap Confs[kind]}
PssTold(e) == {f \in Told(e) : PssParses[kind][f] = Sent[kind][f]}

(* What the thread of a device starts its driver with.                     *)
ThreadTold(e) == e.has \cap ThreadConfs[kind]

(* What a client of the device is told by hsc_GetConfiguration, with the   *)
(* width that it takes it with when it is one of pss.                      *)
ClientTold(e) ==
    LET sent == SentByDevice[kind]
        Takes(f) == kind \in DOMAIN TakenOfDevice /\ f \in DOMAIN TakenOfDevice[kind]
                        => TakenOfDevice[kind][f] = sent[f]
    IN  {f \in ThreadTold(e) \cap DOMAIN sent : Takes(f)}

-----------------------------------------------------------------------------
(* What the code loses: nothing copies the sizes of a device's log nor the *)
(* rest of its connection, "enable" of a module's log is read from another *)
(* node, a nozzle's number and the volume of a full tank are misread, and  *)
(* a profile that moves leaves its name and may keep another guid.         *)
LostOfDevices == DeviceSizes \cup {"conn.ip_port", "conn.baudrate", "conn.byte_size",
                                   "conn.parity", "conn.stop_bits", "log.enable"}
LostOf(e) ==
    CASE kind = "dc" -> LostOfDevices \cup {"nozzle.num", "full_tank_volume"}
      [] kind \in Devices \ {"dc"} -> LostOfDevices
      [] kind = "profile" -> IF e.moved THEN {"name", "guid"} ELSE {}
      [] kind = "common" -> {"file_size", "save_days", "conn_log_file_size",
                             "conn_log_save_days"}

(* What the readers of the gauges and of the controllers of price poles    *)
(* and sensors are not told, or told wrongly, though the store has it.     *)
UntoldOf == CASE kind = "tgs" -> {"tank.channel", "log.file_size", "log.save_days"}
              [] kind \in {"ppc", "sc"} -> {"log.file_size", "log.save_days"}
              [] OTHER -> {}

(* The units of a device and its decimal points: what its clients ask for. *)
Mapping == (DCLibConfig \cup TgsLibConfig \cup PpcLibConfig \cup ScLibConfig)
           \ (LibConfig \cup {"counters_enable", "auto_start", "auto_payment",
                             "full_tank_volume"})

Agree(S, T, excused) == S \ excused = T \ excused

(* Whatever administrators ask, in any order and with restarts between,    *)
(* every field of an entry in the store is as last asked for (add_*_conf,  *)
(* update_*_conf, delete_*_conf, parse_xml, write_settings), but for the   *)
(* ones the code loses.                                                    *)
StoreHolds == \A i \in DOMAIN store :
    Agree(store[i].has, store[i].ask, LostOf(store[i]))

(* When no change is under way and no profile has been removed since the   *)
(* last write, a restart would find the store as it is: no order of two    *)
(* administrators' changes and writes leaves a change out of the file      *)
(* (write_conf after configuration_mutex was released).                    *)
SavedWhenQuiet ==
    (\A a \in Admins : doing[a] = Nothing) /\ ~unsaved
        => Loaded(file) = Loaded(Written(store))

(* An entry whose removal was answered with success is never again in the  *)
(* store or in the file, also after a restart, unless an administrator has *)
(* added it (delete_*_conf, write_conf).                                   *)
DeletedStaysDeleted ==
    \A id \in gone : \A e \in {store[i] : i \in DOMAIN store} \cup {file[i] : i \in DOMAIN file} :
        e.id # id

(* What an administrator reads back, and what pss takes of it, is what was *)
(* last asked for, but for what the code loses: the senders, the copies of *)
(* get_device_confs and both parsers agree on every field's place and      *)
(* width (system_message_func.c, hardware_serv.c of pss).  The thread of a *)
(* device started then runs its driver with all of it (get_*_conf), and    *)
(* its clients are told of every unit (send_*_device_configuration_message)*)
ReadersTold == \A i \in DOMAIN store :
    LET excused == LostOf(store[i]) \cup UntoldOf
    IN  /\ Agree(Told(store[i]), store[i].ask, excused)
        /\ kind \in Devices =>
              /\ Agree(PssTold(store[i]), store[i].ask, excused)
              /\ Agree(ThreadTold(store[i]), store[i].ask, LostOf(store[i]))
              /\ Agree(ClientTold(store[i]), store[i].ask \cap Mapping, LostOf(store[i]))
=============================================================================
