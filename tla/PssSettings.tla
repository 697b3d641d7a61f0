----------------------------- MODULE PssSettings -----------------------------
(***************************************************************************)
(* The data that pss keeps in one structure under pss_data_mutex: the      *)
(* parameters and the devices that points of sale change, what the links   *)
(* to the controllers record, the XML file, and restarts.                  *)
(*                                                                         *)
(* A value is reduced to whether it differs from zero (the type of an      *)
(* address to whether it is local): an entry is the set of its fields that *)
(* do.  One behaviour follows some fields of one kind of entry (setup), so *)
(* that every field of PssTables is followed alone, and with the others it *)
(* meets on its way.                                                       *)
(***************************************************************************)
EXTENDS PssTables, FiniteSetsExt

CONSTANTS Threads,  \* threads of points of sale and of links to controllers
          Ids,      \* the ids of entries, all above zero
          Setups    \* [kind, fields, threads, ids, room] of the behaviours to follow

ASSUME IdsAssumption == Ids \subseteq Nat \ {0} /\ 1 \in Ids
ASSUME SetupsAssumption ==
    \A s \in Setups : /\ s.kind \in Kinds /\ s.fields \subseteq Fields[s.kind]
                      /\ s.threads \subseteq Threads /\ s.ids \subseteq Ids
                      /\ s.room \in Nat \ {0}

VARIABLES
    setup,      \* the kind, its fields, the threads, the ids, the length of the array
    units,      \* the array: also what it holds behind count
    count,      \* the entries in use
    file,       \* the entries in the XML file
    doing,      \* what a thread has still to do
    unsaved,    \* a request that does not save has changed something
    installed,  \* history: the ids of the acknowledged installations
    hidden      \* history: one was acknowledged and not listed, or another is twice

vars == <<setup, units, count, file, doing, unsaved, installed, hidden>>

kind == setup.kind

(* An entry: its id, its fields that are not zero, the ones that would not *)
(* be if each request changed its own fields only and at once (history),   *)
(* and whether a request has written back what another had changed since   *)
(* it was read (history).                                                  *)
Entry == [id : Ids \cup {0}, has : SUBSET setup.fields, ask : SUBSET setup.fields,
          lapped : BOOLEAN]
Empty == [id |-> 0, has |-> {}, ask |-> {}, lapped |-> FALSE]

Idle == [step |-> "idle"]
Saving == [step |-> "save"]
Connecting == [step |-> "connect"]
Loading == [step |-> "load"]

Listed(id) == \E i \in 1..count : units[i].id = id
At(id) == Min({i \in 1..count : units[i].id = id})
-----------------------------------------------------------------------------
(* The requests that change part of an entry: the fields that one names    *)
(* (any of them, or always all), those it sets, whether the values are     *)
(* given by the request, zero, or not zero, whether it reads and writes    *)
(* back the whole entry in two critical sections, and whether the file is  *)
(* written after it.                                                       *)
Order(names, sets, any, copied, saved) ==
    [names |-> names \cap setup.fields, sets |-> sets, any |-> any, value |-> "given",
     copied |-> copied, saved |-> saved]
Fixed(fields, value, saved) ==
    [Order(fields, fields, FALSE, FALSE, saved) EXCEPT !.value = value]

load_FpOperationModeSet == Order(PSSOperationMode, PSSOperationMode, FALSE, TRUE, TRUE)
set_fuelling_point == Order(RuntimeOfFp, RuntimeOfFp, FALSE, TRUE, TRUE)
close_Fp == Order({"is_close"}, {"is_close"}, FALSE, FALSE, TRUE)
fp_operation_mode_no == Order({"operation_mode_no"}, {"operation_mode_no"}, FALSE, FALSE, FALSE)
(* Each of the 20 volumes is written to the place of the parameter in the  *)
(* request, so that only the last one stays, in one place.                 *)
change_TgsTgParameters ==
    Order({"tank_height", "first_point", "points"}, {"tank_height", "first_point"}, TRUE,
          FALSE, TRUE)
set_tgs == Order({"main_state", "sub_state"}, {"main_state", "sub_state"}, FALSE, TRUE, TRUE)
set_tank == Order(PSSTank, PSSTank, FALSE, TRUE, TRUE)
open_close_reset_Pp == Order({"main_state"}, {"main_state"}, FALSE, TRUE, FALSE)
load_FcPriceSet_id ==
    LET fields == {"fc_price_set_id", "fc_price_set_date_and_time"}
    IN  Order(fields, fields, FALSE, FALSE, TRUE)
set_FcOperationModeNo ==
    LET fields == {"fc_operation_mode_no", "fc_operation_mode_date_and_time"}
    IN  Order(fields, fields, FALSE, FALSE, FALSE)
load_FcPriceSet_groups ==
    LET fields == {"price.grade_id", "price.price"}
    IN  Order(fields, fields, FALSE, FALSE, TRUE)

(* The logon "MASTER-RESET".                                               *)
master_reset == Fixed({"price.grade_id", "price.price"}, "zero", FALSE)
update_fc_master_reset_date_and_time ==
    Fixed({"fc_master_reset_date_and_time", "fc_reset_date_and_time"}, "not zero", FALSE)
(* A pump that is reset: other bits of its sub state may be left.          *)
reset_fp_param(left) ==
    Fixed(PSSPresetData \cup {"fuelling_volume", "fuelling_money"}
          \cup (IF left THEN {} ELSE {"sub_state"}), "zero", TRUE)
(* A link that is lost or opened again.                                    *)
set_fps_main_state == Fixed({"main_state"}, "not zero", FALSE)
set_fps_sub_state == Fixed({"sub_state"}, "zero", FALSE)

Orders ==
    CASE kind \in Settings -> {Order(Named[kind], Changes[kind], TRUE, TRUE, TRUE)}
      [] kind = "fp" -> {load_FpOperationModeSet, set_fuelling_point, close_Fp,
                         fp_operation_mode_no, reset_fp_param(TRUE), reset_fp_param(FALSE),
                         set_fps_main_state, set_fps_sub_state}
      [] kind = "tg" -> {change_TgsTgParameters, set_tgs}
      [] kind = "pp" -> {open_close_reset_Pp}
      [] kind = "tank" -> {set_tank}
      [] kind = "status" -> {load_FcPriceSet_id, set_FcOperationModeNo,
                             update_fc_master_reset_date_and_time}
      [] kind = "functions" -> {load_FcPriceSet_groups, master_reset}
      [] OTHER -> {}

NamedBy(o) == IF o.any THEN SUBSET o.names ELSE {o.names}
Values(o, N) == CASE o.value = "given" -> SUBSET N
                  [] o.value = "zero" -> {{}}
                  [] o.value = "not zero" -> {N}

(* What is taken of the values V given for the fields N: a text as long as *)
(* its field is dropped, and the first point of a gauge is any of them.    *)
Taken(N, V) ==
    {(V \ (Texts \cup {"first_point"})) \cup some :
        some \in SUBSET ((V \cap Texts) \cup (N \cap {"first_point"}))}
-----------------------------------------------------------------------------
(* The file.                                                               *)
Saved == [i \in 1..count |-> [units[i] EXCEPT !.has = @ \cap Saves[kind]]]
Loaded(entries) ==
    [i \in DOMAIN entries |->
        [entries[i] EXCEPT !.has = {f \in Loads[kind] \cap setup.fields : ReadFrom(f) \in @}]]
InArray(entries) ==
    [i \in 1..setup.room |-> IF i \in DOMAIN entries THEN entries[i] ELSE Empty]
IdsOf(entries) == {entries[i].id : i \in DOMAIN entries}
Twice(entries) == \E i, j \in DOMAIN entries : i # j /\ entries[i].id = entries[j].id

(* Written by hand, or by an earlier run.                                  *)
FirstFile ==
    LET one == {<<[id |-> 1, has |-> has, ask |-> has, lapped |-> FALSE]>> :
                    has \in SUBSET (setup.fields \cap Saves[kind])}
    IN  IF kind \in Devices THEN one \cup {<<>>} ELSE one

(* The hardware server's devices are read before the first client comes.   *)
Began == [t \in Threads |-> IF kind = "server" /\ t \in setup.threads
                             THEN Connecting ELSE Idle]

Start == /\ units = InArray(Loaded(file))
         /\ count = Len(file)
         /\ doing = Began
         /\ unsaved = FALSE
         /\ installed = IdsOf(file)
         /\ hidden = Twice(file)

Init == setup \in Setups /\ file \in FirstFile /\ Start
-----------------------------------------------------------------------------
Free(t) == t \in setup.threads /\ doing[t] = Idle

(* The end of a request: the file is written in a critical section of its  *)
(* own, after the request has been acknowledged.                           *)
Finish(t, saved) ==
    /\ doing' = [doing EXCEPT ![t] = IF saved THEN Saving ELSE Idle]
    /\ unsaved' = (unsaved \/ ~saved)

Copy(t, id, o, N, V) ==
    /\ Free(t)
    /\ o.copied
    /\ Listed(id)
    /\ \E got \in Taken(N, V) :
          doing' = [doing EXCEPT ![t] =
              [step |-> "set", id |-> id, saw |-> units[At(id)].has, named |-> N, asked |-> V,
               sets |-> N \cap o.sets, got |-> got \cap o.sets, saved |-> o.saved]]
    /\ UNCHANGED <<setup, units, count, file, unsaved, installed, hidden>>

(* The entry may have gone or changed since it was read.                   *)
set_by_id(d) ==
    LET written(e) == [e EXCEPT !.has = (d.saw \ d.sets) \cup d.got,
                                !.ask = (@ \ d.named) \cup d.asked,
                                !.lapped = @ \/ e.has # d.saw]
    IN  IF Listed(d.id) THEN [units EXCEPT ![At(d.id)] = written(@)] ELSE units

Set(t) ==
    LET d == doing[t]
    IN  /\ d.step = "set"
        /\ units' = set_by_id(d)
        /\ Finish(t, d.saved)
        /\ UNCHANGED <<setup, count, file, installed, hidden>>

(* In one critical section; the tank gauges are looked for in the whole    *)
(* array, and an id of zero means all of them.                             *)
Direct(t, id, o, N, V) ==
    LET reached == {i \in 1..(IF kind = "tg" THEN setup.room ELSE count) :
                       units[i].id # 0 /\ (units[i].id = id \/ (kind = "tg" /\ id = 0))}
    IN  /\ Free(t)
        /\ ~o.copied
        /\ \E got \in Taken(N, V) :
              units' = [i \in DOMAIN units |->
                  IF i \in reached
                  THEN [units[i] EXCEPT !.has = (@ \ (N \cap o.sets)) \cup (got \cap o.sets),
                                        !.ask = (@ \ N) \cup V]
                  ELSE units[i]]
        /\ Finish(t, o.saved)
        /\ UNCHANGED <<setup, count, file, installed, hidden>>

(* A request that changes nothing here.                                    *)
Other(t) ==
    /\ Free(t)
    /\ Finish(t, TRUE)
    /\ UNCHANGED <<setup, units, count, file, installed, hidden>>

(* An installation takes the first place that is free or has this id, also *)
(* behind the entries in use; in a full array it is acknowledged as well.  *)
(* A sub device is not saved.                                              *)
(* Mutant: only a free place is taken.                                     *)
Places_FreeOnly(id) == {i \in DOMAIN units : units[i].id = 0}
Places(id) == {i \in DOMAIN units : units[i].id \in {0, id}}

Install(t, id, form, V) ==
    LET place == Min(Places(id))
        full == Places(id) = {}
        new(got) == [id |-> id,
                     has |-> (got \cap form.sets) \cup (InstallAdds[kind] \cap setup.fields),
                     ask |-> V \cup (InstallAdds[kind] \cap setup.fields),
                     lapped |-> FALSE]
    IN  /\ kind \in Devices
        /\ Free(t)
        /\ V \subseteq form.carries
        /\ \E got \in Taken(V, V) :
              units' = IF full THEN units ELSE [units EXCEPT ![place] = new(got)]
        /\ count' = IF ~full /\ units[place].id = 0 THEN count + 1 ELSE count
        /\ installed' = installed \cup {id}
        /\ hidden' = (hidden \/ full \/ place > count')
        /\ Finish(t, kind # "tgsd")
        /\ UNCHANGED <<setup, file>>

(* The entries behind move down; the place cleared is the one after the    *)
(* last, which is beyond the array when that is full (room of the array:   *)
(* the code then overwrites what follows it).  Of two entries of one id in *)
(* succession the second stays.                                            *)
Clear(t, id) ==
    LET at == {i \in 1..count : units[i].id = id}
        place == Min(at)
    IN  /\ kind \in Devices
        /\ Free(t)
        /\ IF at = {} THEN UNCHANGED <<units, count>>
           ELSE /\ count < setup.room
                /\ at \subseteq {place, place + 1}
                /\ units' = [i \in DOMAIN units |->
                                IF i = count + 1 THEN Empty
                                ELSE IF i \in place..(count - 1) THEN units[i + 1]
                                ELSE units[i]]
                /\ count' = count - 1
        /\ installed' = installed \ {id}
        /\ Finish(t, TRUE)
        /\ UNCHANGED <<setup, file, hidden>>

(* All of a kind, also behind the entries in use.                          *)
ClearAll(t) ==
    /\ kind \in Devices
    /\ Free(t)
    /\ units' = [i \in DOMAIN units |-> Empty]
    /\ count' = 0
    /\ installed' = {}
    /\ hidden' = FALSE
    /\ Finish(t, TRUE)
    /\ UNCHANGED <<setup, file>>

clr_install_data(t, id) == IF id = 0 THEN ClearAll(t) ELSE Clear(t, id)

(* The thread that loads the hardware server's devices: a connection makes *)
(* the list empty, each device that is read is added behind the others     *)
(* (the code does not look whether there is a place left).                 *)
clear_service_devices(t) ==
    /\ doing[t] \in {Connecting, Loading}
    /\ doing' = [doing EXCEPT ![t] = Loading]
    /\ units' = [i \in DOMAIN units |-> IF i <= count THEN Empty ELSE units[i]]
    /\ count' = 0
    /\ unsaved' = TRUE
    /\ installed' = {}
    /\ hidden' = FALSE
    /\ UNCHANGED <<setup, file>>

add_server_device(t, V) ==
    /\ doing[t] = Loading
    /\ count < setup.room
    /\ count + 1 \in setup.ids \ installed
    /\ count' = count + 1
    /\ units' = [units EXCEPT ![count'] = [id |-> count', has |-> V, ask |-> V,
                                          lapped |-> FALSE]]
    /\ installed' = installed \cup {count'}
    /\ unsaved' = TRUE
    /\ UNCHANGED <<setup, file, doing, hidden>>

server_conf_is_load(t) ==
    /\ doing[t] = Loading
    /\ doing' = [doing EXCEPT ![t] = Idle]
    /\ UNCHANGED <<setup, units, count, file, unsaved, installed, hidden>>

(* Mutant: while another request is under way the saving is left to it, and *)
(* what waits to be saved is taken as done.                                *)
save_pss_data_Once(t) ==
    /\ doing[t] = Saving
    /\ file' = IF \E u \in Threads \ {t} : doing[u] # Idle THEN file ELSE Saved
    /\ unsaved' = FALSE
    /\ doing' = [u \in Threads |-> IF doing[u] = Saving THEN Idle ELSE doing[u]]
    /\ UNCHANGED <<setup, units, count, installed, hidden>>

save_pss_data(t) ==
    /\ doing[t] = Saving
    /\ file' = Saved
    /\ unsaved' = FALSE
    /\ doing' = [doing EXCEPT ![t] = Idle]
    /\ UNCHANGED <<setup, units, count, installed, hidden>>

(* pss stops at any point, but not while it writes the file, and starts    *)
(* again.                                                                  *)
Restart ==
    /\ UNCHANGED <<setup, file>>
    /\ units' = InArray(Loaded(file))
    /\ count' = Len(file)
    /\ doing' = Began
    /\ unsaved' = FALSE
    /\ installed' = IdsOf(file)
    /\ hidden' = Twice(file)

Next ==
    \/ \E t \in Threads, id \in setup.ids \cup {0}, o \in Orders :
          \E N \in NamedBy(o) : \E V \in Values(o, N) :
              Copy(t, id, o, N, V) \/ Direct(t, id, o, N, V)
    \/ \E t \in Threads : Set(t) \/ Other(t) \/ save_pss_data(t)
    \/ \E t \in Threads, id \in setup.ids, V \in SUBSET setup.fields :
          kind \in Devices /\ \E form \in Forms[kind] : Install(t, id, form, V)
    \/ \E t \in Threads, id \in setup.ids \cup {0} : clr_install_data(t, id)
    \/ \E t \in Threads : clear_service_devices(t) \/ server_conf_is_load(t)
    \/ \E t \in Threads, V \in SUBSET setup.fields : add_server_device(t, V)
    \/ Restart

Spec == Init /\ [][Next]_vars
-----------------------------------------------------------------------------
(* FcInstallStatus: the ids of the devices in use.  Of the sub devices it  *)
(* only counts the group.                                                  *)
Told == {"fp", "pp", "tg"}
device_count == count
id_by_index(i) == units[i].id
send_fc_install_status ==
    {id_by_index(i) : i \in IF kind \in Told THEN 1..device_count ELSE {}}

(* What the code loses: the status "money due" of a service mode is not    *)
(* read back, the type of a fuelling mode is not changed and the higher    *)
(* grade of a group is taken for another; FpGradeOptions keeps no ids;     *)
(* texts as long as their field; what of a preset, an operation mode, the  *)
(* points of a gauge and its sub devices is not written or read;           *)
(* a pole's grades are read from its price groups.                         *)
LostOf ==
    CASE kind = "service" -> {"money_due_in_trans_buffer_status"}
      [] kind = "fuelling" -> {"fuelling_type"}
      [] kind = "group" -> {"mode_of_high_grade"}
      [] kind = "general" -> Texts
      [] kind = "fp" -> Texts \cup {"option.id", "preset.grade_id", "preset.valid_grades",
                                    "operation_mode.type"}
      [] kind = "tg" -> {"first_point", "points"}
      [] kind = "tgsd" -> {"sub_dev_ids"}
      [] kind = "pp" -> {"position.fc_grade_id"}
      [] OTHER -> {}

(* What the answers leave out of a fuelling point.                         *)
UntoldOf ==
    IF kind = "fp"
    THEN {"device_sub_address", "option.nozzle_id", "option.nozzle_tag_reader_id",
          "operation_mode_no"}
    ELSE {}

Agree(S, T, excused) == S \ excused = T \ excused

(* Whatever points of sale ask and links record, in any order and with     *)
(* restarts between, an entry holds what was last asked of each of its     *)
(* fields (change_*, install_*, open, close, loads; writer and reader of   *)
(* the file), but for what the code loses and for requests that overlap on *)
(* one entry.                                                              *)
HeldAsAsked == \A i \in 1..count :
    units[i].lapped \/ Agree(units[i].has, units[i].ask, LostOf)

(* Every answer to a point of sale tells of an entry, in each of its       *)
(* versions and for one device or for all, what was last asked             *)
(* (FcParameterSet_req, FpInstallData_req, TgsTgParameters_req, price set, *)
(* status, sales and data requests), under the same conditions.            *)
ToldAsAsked == \A i \in 1..count :
    units[i].lapped \/ \A a \in Answers(kind, units[i].has) :
        Agree(units[i].has \cap a.tells, units[i].ask \cap a.names, LostOf \cup UntoldOf)

(* When no request is under way, and none that does not save has come      *)
(* since the last save, a restart finds the data as it is: no order of the *)
(* threads' changes and saves leaves a change out of the file.             *)
FileFollows ==
    (\A t \in Threads : doing[t] = Idle) /\ ~unsaved
        => Loaded(file) = Loaded(Saved)

(* The devices in use are those whose installation was acknowledged, each  *)
(* once, and FcInstallStatus tells them, unless an installation met a full *)
(* array or the entry that a removal has left behind the last              *)
(* (install_new_*, delete_*, clear_install_data).                          *)
ListedAsInstalled ==
    ~hidden => /\ {units[i].id : i \in 1..count} = installed
               /\ \A i, j \in 1..count : units[i].id = units[j].id => i = j
               /\ send_fc_install_status = IF kind \in Told THEN installed ELSE {}
=============================================================================
