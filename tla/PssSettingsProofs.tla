-------------------------- MODULE PssSettingsProofs --------------------------
(***************************************************************************)
(* The data of pss are what was asked for, told as they are held, saved    *)
(* and listed, for any number of threads, ids and setups, and whatever     *)
(* fields of a kind are followed together.                                 *)
(***************************************************************************)
EXTENDS PssSettings, SequenceTheorems, FiniteSetTheorems, WellFoundedInduction, TLAPS

-----------------------------------------------------------------------------
(* What the tables say.                                                    *)
LEMMA SavedFields ==
    /\ Saves["general"] = add_general_params /\ Saves["service"] = add_service_modes
    /\ Saves["fuelling"] = add_fuelling_modes /\ Saves["group"] = add_fuelling_mode_groups
    /\ Saves["limits"] = add_dispence_limits
    /\ Saves["status"] = add_fc_status
    /\ Saves["functions"] = add_general_functions["functions"]
    /\ Saves["receipts"] = add_payment_control["receipts"]
    /\ \A k \in {"fp", "tg", "tgsd", "pp", "tank", "server", "terminal"} :
           Saves[k] = add_devices[k]
<1>1. /\ DOMAIN add_devices = {"fp", "tg", "tgsd", "pp", "tank", "server", "terminal"}
      /\ DOMAIN add_common = {"status"} /\ add_common["status"] = add_fc_status
  BY DEF add_devices, add_common
<1>2. /\ DOMAIN add_dispence_control = {"service", "fuelling", "group", "limits"}
      /\ DOMAIN add_payment_control = {"receipts"}
      /\ DOMAIN add_general_functions = {"functions"}
  BY DEF add_dispence_control, add_payment_control, add_general_functions
<1>3. /\ DOMAIN add_general_configuration = {"general", "functions", "service", "fuelling",
                                            "group", "limits", "receipts"}
      /\ add_general_configuration["general"] = add_general_params
      /\ add_general_configuration["functions"] = add_general_functions["functions"]
      /\ \A k \in {"service", "fuelling", "group", "limits"} :
             add_general_configuration[k] = add_dispence_control[k]
      /\ add_general_configuration["receipts"] = add_payment_control["receipts"]
  BY <1>2 DEF add_general_configuration, ++
<1>4. /\ add_dispence_control["service"] = add_service_modes
      /\ add_dispence_control["fuelling"] = add_fuelling_modes
      /\ add_dispence_control["group"] = add_fuelling_mode_groups
      /\ add_dispence_control["limits"] = add_dispence_limits
  BY DEF add_dispence_control
<1> QED
  BY <1>1, <1>3, <1>4 DEF Saves, ++

LEMMA LoadedFields ==
    /\ Loads["general"] = parse_general_params /\ Loads["service"] = parse_service_modes
    /\ Loads["fuelling"] = parse_fuelling_modes
    /\ Loads["group"] = parse_fuelling_mode_groups
    /\ Loads["limits"] = parse_dispense_limits
    /\ Loads["status"] = parse_fc_status
    /\ Loads["functions"] = parse_general_functions["functions"]
    /\ Loads["receipts"] = parse_payment_control["receipts"]
    /\ \A k \in {"fp", "tg", "tgsd", "pp", "tank", "server", "terminal"} :
           Loads[k] = parse_devices[k]
<1>1. /\ DOMAIN parse_devices = {"fp", "tg", "tgsd", "pp", "tank", "server", "terminal"}
      /\ DOMAIN parse_common = {"status"} /\ parse_common["status"] = parse_fc_status
  BY DEF parse_devices, parse_common
<1>2. /\ DOMAIN parse_dispence_control = {"service", "fuelling", "group", "limits"}
      /\ DOMAIN parse_payment_control = {"receipts"}
      /\ DOMAIN parse_general_functions = {"functions"}
  BY DEF parse_dispence_control, parse_payment_control, parse_general_functions
<1>3. /\ DOMAIN parse_general_configuration = {"general", "functions", "service", "fuelling",
                                            "group", "limits", "receipts"}
      /\ parse_general_configuration["general"] = parse_general_params
      /\ parse_general_configuration["functions"] = parse_general_functions["functions"]
      /\ \A k \in {"service", "fuelling", "group", "limits"} :
             parse_general_configuration[k] = parse_dispence_control[k]
      /\ parse_general_configuration["receipts"] = parse_payment_control["receipts"]
  BY <1>2 DEF parse_general_configuration, ++
<1>4. /\ parse_dispence_control["service"] = parse_service_modes
      /\ parse_dispence_control["fuelling"] = parse_fuelling_modes
      /\ parse_dispence_control["group"] = parse_fuelling_mode_groups
      /\ parse_dispence_control["limits"] = parse_dispense_limits
  BY DEF parse_dispence_control
<1> QED
  BY <1>1, <1>3, <1>4 DEF Loads, ++

(* What is not lost is written to the file and read from it, each field    *)
(* from its own; and what is read once is read again.                      *)
LEMMA FileKeeps ==
    ASSUME kind \in Kinds
    PROVE  /\ \A f \in Fields[kind] \ LostOf :
                 f \in Loads[kind] /\ f \in Saves[kind] /\ ReadFrom(f) = f
           /\ \A f \in Loads[kind] :
                 /\ ReadFrom(f) \in Loads[kind] /\ ReadFrom(f) \in Saves[kind]
                 /\ ReadFrom(ReadFrom(f)) = ReadFrom(f)
<1>1. CASE kind = "general"
  BY <1>1, SavedFields, LoadedFields DEF Fields, PSSGeneralParams, add_general_params,
     parse_general_params, LostOf, Settings, ReadFrom, Texts
<1>2. CASE kind = "service"
  BY <1>2, SavedFields, LoadedFields DEF Fields, PSSServiceMode, add_service_modes,
     parse_service_modes, LostOf, Settings, ReadFrom, Texts
<1>3. CASE kind = "fuelling"
  BY <1>3, SavedFields, LoadedFields DEF Fields, PSSFuellingMode, add_fuelling_modes,
     parse_fuelling_modes, LostOf, Settings, ReadFrom, Texts
<1>4. CASE kind = "group"
  BY <1>4, SavedFields, LoadedFields DEF Fields, PSSFuellingModeGroup,
     add_fuelling_mode_groups, parse_fuelling_mode_groups, LostOf, Settings, ReadFrom,
     Texts
<1>5. CASE kind = "limits"
  BY <1>5, SavedFields, LoadedFields DEF Fields, PSSDispenceLimits, add_dispence_limits,
     parse_dispense_limits, LostOf, Settings, ReadFrom, Texts
<1>6. CASE kind = "fp"
  BY <1>6, SavedFields, LoadedFields DEF Fields, PSSFuellingPoint, InstalledOfFp,
     RuntimeOfFp, PSSOperationMode, PSSTransactions, PSSPresetData, PSSGradeOption,
     PSSPumpIntDecimalPositions, add_devices, add_fuelling_points, add_fp_grade_options,
     add_fp_tank_connections, add_fp_valid_grades, add_fp_preset_data,
     add_fp_transactions, add_fp_decimal_positions, add_fp_operation_modes,
     add_fp_limits, parse_devices, parse_fuelling_point, parse_fp_tank_connections,
     parse_fp_transactions, parse_fp_preset_valid_grades, parse_fp_preset_data,
     parse_fp_grade_options, parse_fp_decimal_positions, parse_fp_operation_modes,
     parse_fp_limits, LostOf, Settings, ReadFrom, Texts
<1>7. CASE kind = "tg"
  BY <1>7, SavedFields, LoadedFields DEF Fields, PSSTankGauge, add_devices,
     add_tank_gauges, parse_devices, parse_tank_gauge, LostOf, Settings, ReadFrom, Texts
<1>8. CASE kind = "tgsd"
  BY <1>8, SavedFields, LoadedFields DEF Fields, PSSTankGaugeSubDevice, add_devices,
     add_tank_gauge_sub_devices, parse_devices, parse_tank_gauge_sub_device, LostOf,
     Settings, ReadFrom, Texts
<1>9. CASE kind = "pp"
  BY <1>9, SavedFields, LoadedFields DEF Fields, PSSPricePole, add_devices,
     add_price_poles, add_price_position_options, parse_devices, parse_price_pole,
     parse_price_position_options, LostOf, Settings, ReadFrom, Texts
<1>10. CASE kind = "server"
  BY <1>10, SavedFields, LoadedFields DEF Fields, PSSServerDevice, add_devices,
     add_server_devices, add_server_device_unts, parse_devices, parse_server_devices,
     parse_server_device_units, LostOf, Settings, ReadFrom, Texts
<1>11. CASE kind = "tank"
  BY <1>11, SavedFields, LoadedFields DEF Fields, PSSTank, add_devices, add_tanks,
     parse_devices, parse_tanks, LostOf, Settings, ReadFrom, Texts
<1>12. CASE kind = "status"
  BY <1>12, SavedFields, LoadedFields DEF Fields, PSSFcStatus, add_fc_status,
     parse_fc_status, LostOf, Settings, ReadFrom, Texts
<1>13. CASE kind = "functions"
  BY <1>13, SavedFields, LoadedFields DEF Fields, PSSGeneralFunctions,
     add_general_functions, add_grades, add_price_groups, parse_general_functions,
     parse_grades, parse_price_groups, LostOf, Settings, ReadFrom, Texts
<1>14. CASE kind = "receipts"
  BY <1>14, SavedFields, LoadedFields DEF Fields, PSSReceipts, add_payment_control,
     add_receipt_lines, add_receipt_headers, add_receipt_formats, parse_payment_control,
     parse_receipt_lines, parse_receipt_headers, parse_receipt_formats, LostOf,
     Settings, ReadFrom, Texts
<1>15. CASE kind = "terminal"
  BY <1>15, SavedFields, LoadedFields DEF Fields, PSSPaymentTerminal, add_devices,
     add_payment_terminals, parse_devices, parse_payment_terminal,
     parse_pt_select_options, LostOf, Settings, ReadFrom, Texts
<1> QED
  BY <1>1, <1>2, <1>3, <1>4, <1>5, <1>6, <1>7, <1>8, <1>9, <1>10, <1>11, <1>12, <1>13,
     <1>14, <1>15 DEF Kinds, Settings, Devices, Others

(* A request sets the fields it names, but for those that are lost.        *)
Fits(o) == /\ o.names \subseteq setup.fields /\ o.copied \in BOOLEAN /\ o.saved \in BOOLEAN
           /\ o.value \in {"given", "zero", "not zero"}
           /\ o.names \ o.sets \subseteq LostOf
           /\ o.names \cap (Texts \cup {"first_point"}) \subseteq LostOf

LEMMA OrderFits ==
    ASSUME NEW names, NEW sets, NEW any, NEW copied \in BOOLEAN, NEW saved \in BOOLEAN,
           names \ sets \subseteq LostOf,
           names \cap (Texts \cup {"first_point"}) \subseteq LostOf
    PROVE  Fits(Order(names, sets, any, copied, saved))
  BY DEF Fits, Order

LEMMA FixedFits ==
    ASSUME NEW fields, NEW value \in {"zero", "not zero"}, NEW saved \in BOOLEAN,
           fields \cap (Texts \cup {"first_point"}) \subseteq LostOf
    PROVE  Fits(Fixed(fields, value, saved))
  BY DEF Fits, Fixed, Order

LEMMA OrdersFit ==
    ASSUME kind \in Kinds, NEW o \in Orders
    PROVE  Fits(o)
<1>1. CASE kind \in Settings
  <2>1. o = Order(Named[kind], Changes[kind], TRUE, TRUE, TRUE)
    BY <1>1 DEF Orders, Settings
  <2>2. CASE kind = "general"
    BY <2>1, <2>2, OrderFits DEF Named, Changes, change_fc_parameters, LostOf, Settings,
       PSSGeneralParams
  <2>3. CASE kind = "service"
    BY <2>1, <2>3, OrderFits DEF Named, Changes, change_service_mode_parameters, LostOf,
       Settings, PSSServiceMode, Texts
  <2>4. CASE kind = "fuelling"
    BY <2>1, <2>4, OrderFits DEF Named, Changes, change_fuelling_mode_parameters, LostOf,
       Settings, PSSFuellingMode, Texts
  <2>5. CASE kind = "group"
    BY <2>1, <2>5, OrderFits DEF Named, Changes, change_fuelling_mode_group_parameters,
       LostOf, Settings, PSSFuellingModeGroup, Texts
  <2>6. CASE kind = "limits"
    BY <2>1, <2>6, OrderFits DEF Named, Changes,
       change_global_fuelling_limits_parameters, LostOf, Settings, PSSDispenceLimits, Texts
  <2> QED
    BY <1>1, <2>2, <2>3, <2>4, <2>5, <2>6 DEF Settings
<1>2. CASE kind = "fp"
  <2>1. Texts \subseteq LostOf
    BY <1>2 DEF LostOf
  <2>2. "first_point" \notin PSSOperationMode \cup RuntimeOfFp
                                \cup PSSPresetData
                                \cup {"is_close", "operation_mode_no", "main_state", "sub_state",
                                      "fuelling_volume", "fuelling_money"}
    BY DEF PSSOperationMode, RuntimeOfFp, PSSPresetData, PSSTransactions
  <2>3. /\ Fits(load_FpOperationModeSet) /\ Fits(set_fuelling_point) /\ Fits(close_Fp)
        /\ Fits(fp_operation_mode_no)
    BY <2>1, <2>2, OrderFits DEF load_FpOperationModeSet, set_fuelling_point, close_Fp,
       fp_operation_mode_no
  <2>4. /\ Fits(reset_fp_param(TRUE)) /\ Fits(reset_fp_param(FALSE))
        /\ Fits(set_fps_main_state) /\ Fits(set_fps_sub_state)
    BY <2>1, <2>2, FixedFits DEF reset_fp_param, set_fps_main_state, set_fps_sub_state
  <2>5. o \in {load_FpOperationModeSet, set_fuelling_point, close_Fp, fp_operation_mode_no,
               reset_fp_param(TRUE), reset_fp_param(FALSE), set_fps_main_state,
               set_fps_sub_state}
    BY <1>2 DEF Orders, Settings
  <2> QED
    BY <2>3, <2>4, <2>5
<1>3. CASE kind = "tg"
  <2>1. Fits(change_TgsTgParameters) /\ Fits(set_tgs)
    BY <1>3, OrderFits DEF change_TgsTgParameters, set_tgs, LostOf, Texts
  <2> QED
    BY <1>3, <2>1 DEF Orders, Settings
<1>4. CASE kind = "pp"
  <2>1. Fits(open_close_reset_Pp)
    BY <1>4, OrderFits DEF open_close_reset_Pp, LostOf, Texts
  <2> QED
    BY <1>4, <2>1 DEF Orders, Settings
<1>5. CASE kind = "tank"
  <2>1. Fits(set_tank)
    BY <1>5, OrderFits DEF set_tank, PSSTank, LostOf, Texts
  <2> QED
    BY <1>5, <2>1 DEF Orders, Settings
<1>6. CASE kind = "status"
  <2>1. Fits(load_FcPriceSet_id) /\ Fits(set_FcOperationModeNo)
    BY <1>6, OrderFits DEF load_FcPriceSet_id, set_FcOperationModeNo, LostOf, Texts
  <2>2. Fits(update_fc_master_reset_date_and_time)
    BY <1>6, FixedFits DEF update_fc_master_reset_date_and_time, LostOf, Texts
  <2> QED
    BY <1>6, <2>1, <2>2 DEF Orders, Settings
<1>7. CASE kind = "functions"
  <2>1. Fits(load_FcPriceSet_groups)
    BY <1>7, OrderFits DEF load_FcPriceSet_groups, LostOf, Texts
  <2>2. Fits(master_reset)
    BY <1>7, FixedFits DEF master_reset, LostOf, Texts
  <2> QED
    BY <1>7, <2>1, <2>2 DEF Orders, Settings
<1>8. CASE kind \in {"tgsd", "server", "receipts", "terminal"}
  BY <1>8 DEF Orders, Settings
<1> QED
  BY <1>1, <1>2, <1>3, <1>4, <1>5, <1>6, <1>7, <1>8 DEF Kinds, Settings, Devices, Others

(* What is taken of a request agrees with it.                              *)
LEMMA RequestFits ==
    ASSUME kind \in Kinds, NEW o \in Orders, NEW N \in NamedBy(o), NEW V \in Values(o, N),
           NEW got \in Taken(N, V)
    PROVE  /\ N \subseteq setup.fields /\ V \subseteq N /\ got \subseteq N
           /\ N \ o.sets \subseteq LostOf /\ Agree(got \cap o.sets, V, LostOf)
<1>1. Fits(o)
  BY OrdersFit
<1>2. N \subseteq o.names
  BY DEF NamedBy
<1>3. V \subseteq N
  BY <1>1 DEF Values, Fits
<1>4. PICK some \in SUBSET ((V \cap Texts) \cup (N \cap {"first_point"})) :
        got = (V \ (Texts \cup {"first_point"})) \cup some
  BY DEF Taken
<1>5. N \subseteq setup.fields /\ got \subseteq N /\ N \ o.sets \subseteq LostOf
  BY <1>1, <1>2, <1>3, <1>4 DEF Fits
<1>6. N \cap (Texts \cup {"first_point"}) \subseteq LostOf
  BY <1>1, <1>2 DEF Fits
<1>7. Agree(got \cap o.sets, V, LostOf)
  BY <1>3, <1>4, <1>5, <1>6 DEF Agree
<1> QED
  BY <1>3, <1>5, <1>7

(* An installation sets what it carries, but for what is lost.             *)
LEMMA FormsFit ==
    ASSUME kind \in Devices, NEW form \in Forms[kind]
    PROVE  /\ form.carries \ form.sets \subseteq LostOf
           /\ form.carries \cap (Texts \cup {"first_point"}) \subseteq LostOf
<1>1. CASE kind = "fp"
  <2>1. Texts \subseteq LostOf /\ "option.id" \in LostOf
    BY <1>1 DEF LostOf
  <2>2. "first_point" \notin fp_v0 \cup fp_v1 \cup fp_v2 \cup fp_v3
            \cup fp_address_v3(TRUE) \cup fp_address_v3(FALSE)
            \cup fp_grade_option_pars \cup fp_grade_options
    BY DEF fp_v0, fp_v1, fp_v2, fp_v3, fp_address_v3, fp_grade_option_pars, fp_grade_options,
       PSSPumpIntDecimalPositions
  <2>3. Forms["fp"] = {Form(f, f) : f \in {fp_v0, fp_v1, fp_v2}}
            \cup {Form(fp_v3 \cup fp_address_v3(local) \cup fp_grade_option_pars,
                       fp_v3 \cup fp_address_v3(local) \cup fp_grade_option_pars) :
                     local \in BOOLEAN}
            \cup {Form(fp_v3 \cup fp_address_v3(TRUE) \cup fp_grade_options \cup {"option.id"},
                       fp_v3 \cup fp_address_v3(TRUE) \cup fp_grade_options)}
    BY DEF Forms
  <2>4. CASE form \in {Form(f, f) : f \in {fp_v0, fp_v1, fp_v2}}
    <3>1. PICK f \in {fp_v0, fp_v1, fp_v2} : form = Form(f, f)
      BY <2>4
    <3> QED
      BY <2>1, <2>2, <3>1 DEF Form
  <2>5. CASE \E local \in BOOLEAN :
               form = Form(fp_v3 \cup fp_address_v3(local) \cup fp_grade_option_pars,
                           fp_v3 \cup fp_address_v3(local) \cup fp_grade_option_pars)
    <3>1. PICK local \in BOOLEAN :
              form = Form(fp_v3 \cup fp_address_v3(local) \cup fp_grade_option_pars,
                          fp_v3 \cup fp_address_v3(local) \cup fp_grade_option_pars)
      BY <2>5
    <3>2. form.carries = form.sets
          /\ form.carries = fp_v3 \cup fp_address_v3(local) \cup fp_grade_option_pars
      BY <3>1 DEF Form
    <3>3. fp_address_v3(local) \in {fp_address_v3(TRUE), fp_address_v3(FALSE)}
      OBVIOUS
    <3> QED
      BY <2>1, <2>2, <3>2, <3>3
  <2>6. CASE form = Form(fp_v3 \cup fp_address_v3(TRUE) \cup fp_grade_options \cup {"option.id"},
                         fp_v3 \cup fp_address_v3(TRUE) \cup fp_grade_options)
    BY <2>1, <2>2, <2>6 DEF Form
  <2> QED
    BY <1>1, <2>3, <2>4, <2>5, <2>6
<1>2. CASE kind = "tg"
  BY <1>2 DEF Forms, Form, install_tank_gauge, LostOf, Texts
<1>3. CASE kind = "tgsd"
  BY <1>3 DEF Forms, Form, install_tg_ext_sub_dev, LostOf, Texts
<1>4. CASE kind = "pp"
  BY <1>4 DEF Forms, Form, install_price_pole, LostOf, Texts
<1> QED
  BY <1>1, <1>2, <1>3, <1>4 DEF Devices

-----------------------------------------------------------------------------
(* The states the argument is about.                                       *)

(* What a request that has read an entry is still to write back.           *)
Waiting == [step : {"set"}, id : Ids \cup {0}, saw : SUBSET setup.fields,
            named : SUBSET setup.fields, asked : SUBSET setup.fields,
            sets : SUBSET setup.fields, got : SUBSET setup.fields, saved : BOOLEAN]

(* No place below count is empty, in the array and in the file.            *)
Types ==
    /\ setup \in Setups
    /\ units \in [1 .. setup.room -> Entry] /\ count \in 0 .. setup.room
    /\ \A i \in 1 .. count : units[i].id # 0
    /\ file \in Seq(Entry) /\ Len(file) <= setup.room
    /\ \A i \in DOMAIN file : file[i].id # 0
    /\ DOMAIN doing = Threads
    /\ \A t \in Threads : doing[t].step = "set" => doing[t] \in Waiting
    /\ unsaved \in BOOLEAN

(* Whoever changes something leaves a save to do, or marks it as unsaved.  *)
Current ==
    ~unsaved /\ (\A t \in Threads : doing[t] # Saving) => Loaded(file) = Loaded(Saved)

(* An entry is as asked; and so will be one that a request writes back,    *)
(* if it is still what the request has read.                               *)
Holds(e) == e.lapped \/ Agree(e.has, e.ask, LostOf)
Faithful(d) == /\ d.got \subseteq d.sets /\ d.sets \subseteq d.named
               /\ d.asked \subseteq d.named /\ d.named \ d.sets \subseteq LostOf
               /\ Agree(d.got, d.asked, LostOf)
Holding ==
    /\ \A i \in DOMAIN units : Holds(units[i])
    /\ \A i \in DOMAIN file : Holds(file[i])
    /\ \A t \in Threads : doing[t].step = "set" => Faithful(doing[t])

(* The list of the devices, apart from its answer.                         *)
Listing == ~hidden => /\ {units[i].id : i \in 1 .. count} = installed
                      /\ \A i, j \in 1 .. count : units[i].id = units[j].id => i = j

IInv == Types /\ Current /\ Holding /\ Listing

LEMMA SetupTypes ==
    ASSUME setup \in Setups
    PROVE  /\ kind \in Kinds /\ setup.fields \subseteq Fields[kind]
           /\ setup.threads \subseteq Threads /\ setup.ids \subseteq Ids
           /\ setup.room \in Nat \ {0}
  BY SetupsAssumption DEF kind

LEMMA Smallest ==
    ASSUME NEW n \in Nat, NEW S \in SUBSET (1 .. n), S # {}
    PROVE  Min(S) \in S /\ \A y \in S : Min(S) <= y
<1> DEFINE R == OpToRel(<, Nat)
<1>1. S \subseteq Nat
  OBVIOUS
<1>2. \E x \in S : \A y \in S : <<y, x>> \notin R
  BY <1>1, NatLessThanWellFounded, WFMin
<1>3. \A y, x \in Nat : y < x => <<y, x>> \in R
  BY DEF OpToRel
<1> HIDE DEF R
<1>4. PICK x \in S : \A y \in S : x =< y
  <2>1. PICK x \in S : \A y \in S : <<y, x>> \notin R
    BY <1>2
  <2>2. \A y \in S : y \in Nat /\ x \in Nat /\ ~(y < x)
    BY <1>1, <1>3, <2>1
  <2> QED
    BY <2>2
<1>5. \E z \in S : \A y \in S : z =< y
  BY <1>4
<1> QED
  BY <1>5 DEF Min

LEMMA FirstListed ==
    ASSUME Types, NEW id, Listed(id)
    PROVE  At(id) \in 1 .. count /\ At(id) \in DOMAIN units /\ units[At(id)].id = id
<1> DEFINE S == {i \in 1 .. count : units[i].id = id}
<1>1. count \in Nat /\ count <= setup.room /\ setup.room \in Nat
  BY SetupTypes DEF Types
<1>2. S \in SUBSET (1 .. count) /\ S # {}
  BY DEF Listed
<1>3. Min(S) \in S
  BY <1>1, <1>2, Smallest
<1>4. DOMAIN units = 1 .. setup.room
  BY DEF Types
<1> QED
  BY <1>1, <1>3, <1>4 DEF At

-----------------------------------------------------------------------------
(* The file and the array.                                                 *)
LEMMA LoadedEntries ==
    ASSUME setup \in Setups, NEW entries \in Seq(Entry)
    PROVE  /\ Loaded(entries) \in Seq(Entry) /\ Len(Loaded(entries)) = Len(entries)
           /\ DOMAIN Loaded(entries) = DOMAIN entries
           /\ \A i \in DOMAIN entries :
                 /\ Loaded(entries)[i].id = entries[i].id
                 /\ Loaded(entries)[i].ask = entries[i].ask
                 /\ Loaded(entries)[i].lapped = entries[i].lapped
                 /\ Loaded(entries)[i].has =
                        {f \in Loads[kind] \cap setup.fields : ReadFrom(f) \in entries[i].has}
                 /\ Holds(entries[i]) => Holds(Loaded(entries)[i])
<1>1. DOMAIN entries = 1 .. Len(entries) /\ Len(entries) \in Nat
  OBVIOUS
<1>2. \A i \in DOMAIN entries : entries[i] \in Entry
  BY <1>1
<1>3. /\ DOMAIN Loaded(entries) = DOMAIN entries
      /\ \A i \in DOMAIN entries : Loaded(entries)[i] =
            [entries[i] EXCEPT !.has = {f \in Loads[kind] \cap setup.fields : ReadFrom(f) \in @}]
  BY DEF Loaded
<1>4. ASSUME NEW i \in DOMAIN entries
      PROVE  /\ Loaded(entries)[i] \in Entry
             /\ Loaded(entries)[i].id = entries[i].id
             /\ Loaded(entries)[i].ask = entries[i].ask
             /\ Loaded(entries)[i].lapped = entries[i].lapped
             /\ Loaded(entries)[i].has =
                    {f \in Loads[kind] \cap setup.fields : ReadFrom(f) \in entries[i].has}
  <2> DEFINE has == {f \in Loads[kind] \cap setup.fields : ReadFrom(f) \in entries[i].has}
  <2>1. entries[i] \in Entry /\ Loaded(entries)[i] = [entries[i] EXCEPT !.has = has]
    BY <1>2, <1>3
  <2>2. has \in SUBSET setup.fields
    OBVIOUS
  <2> HIDE DEF has
  <2>3. Loaded(entries)[i] \in Entry /\ Loaded(entries)[i].has = has
        /\ Loaded(entries)[i].id = entries[i].id
        /\ Loaded(entries)[i].ask = entries[i].ask
        /\ Loaded(entries)[i].lapped = entries[i].lapped
    BY <2>1, <2>2 DEF Entry
  <2> QED
    BY <2>3 DEF has
<1>5. Loaded(entries) \in Seq(Entry) /\ Len(Loaded(entries)) = Len(entries)
  <2>1. Loaded(entries) \in [1 .. Len(entries) -> Entry]
    BY <1>1, <1>3, <1>4 DEF Loaded
  <2> QED
    BY <1>1, <2>1
<1>6. ASSUME NEW i \in DOMAIN entries, Holds(entries[i]) PROVE Holds(Loaded(entries)[i])
  <2> DEFINE old == entries[i].has
             new == Loaded(entries)[i].has
             ask == entries[i].ask
  <2>1. new = {f \in Loads[kind] \cap setup.fields : ReadFrom(f) \in old}
        /\ old \subseteq setup.fields /\ ask \subseteq setup.fields
    BY <1>2, <1>4 DEF Entry
  <2>2. setup.fields \subseteq Fields[kind] /\ kind \in Kinds
    BY SetupTypes
  <2>3. \A f \in Fields[kind] \ LostOf : f \in Loads[kind] /\ ReadFrom(f) = f
    BY <2>2, FileKeeps
  <2>4. CASE Agree(old, ask, LostOf)
    <3> HIDE DEF old, new, ask
    <3>1. old \ LostOf = new \ LostOf
      BY <2>1, <2>2, <2>3
    <3> QED
      BY <1>4, <2>4, <3>1 DEF Agree, Holds, old, new, ask
  <2>5. CASE entries[i].lapped
    BY <1>4, <2>5 DEF Holds
  <2> QED
    BY <1>6, <2>4, <2>5 DEF Holds
<1> QED
  BY <1>3, <1>4, <1>5, <1>6

LEMMA SavedEntries ==
    ASSUME Types
    PROVE  /\ Saved \in Seq(Entry) /\ Len(Saved) = count /\ DOMAIN Saved = 1 .. count
           /\ \A i \in 1 .. count :
                 /\ Saved[i].id = units[i].id /\ Saved[i].ask = units[i].ask
                 /\ Saved[i].lapped = units[i].lapped
                 /\ Saved[i].has = units[i].has \cap Saves[kind]
                 /\ Holds(units[i]) => Holds(Saved[i])
<1>1. /\ kind \in Kinds /\ setup.fields \subseteq Fields[kind]
      /\ count \in Nat /\ units \in [1 .. setup.room -> Entry] /\ setup.room \in Nat
      /\ count <= setup.room
  BY SetupTypes DEF Types
<1>2. \A f \in Fields[kind] \ LostOf : f \in Saves[kind]
  BY <1>1, FileKeeps
<1>3. ASSUME NEW i \in 1 .. count
      PROVE  /\ Saved[i] \in Entry
             /\ Saved[i].id = units[i].id /\ Saved[i].ask = units[i].ask
             /\ Saved[i].lapped = units[i].lapped
             /\ Saved[i].has = units[i].has \cap Saves[kind]
  <2> DEFINE has == units[i].has \cap Saves[kind]
  <2>1. units[i] \in Entry
    BY <1>1
  <2>2. Saved[i] = [units[i] EXCEPT !.has = has]
    BY DEF Saved
  <2>3. has \in SUBSET setup.fields
    BY <2>1 DEF Entry
  <2> HIDE DEF has
  <2>4. /\ Saved[i] \in Entry /\ Saved[i].id = units[i].id /\ Saved[i].ask = units[i].ask
        /\ Saved[i].lapped = units[i].lapped /\ Saved[i].has = has
    BY <2>1, <2>2, <2>3 DEF Entry
  <2> QED
    BY <2>4 DEF has
<1>4. Saved \in [1 .. count -> Entry] /\ DOMAIN Saved = 1 .. count
  BY <1>3 DEF Saved
<1>5. Saved \in Seq(Entry) /\ Len(Saved) = count
  BY <1>1, <1>4
<1>6. ASSUME NEW i \in 1 .. count, Holds(units[i]) PROVE Holds(Saved[i])
  <2>1. units[i].has \subseteq setup.fields
    BY <1>1 DEF Entry
  <2>2. units[i].has \ LostOf = Saved[i].has \ LostOf
    BY <1>1, <1>2, <1>3, <2>1
  <2> QED
    BY <1>3, <1>6, <2>2 DEF Holds, Agree
<1> QED
  BY <1>3, <1>4, <1>5, <1>6

LEMMA EmptyHolds == Empty \in Entry /\ Holds(Empty) /\ Empty.id = 0
  BY DEF Empty, Entry, Holds, Agree

LEMMA ArrayOfEntries ==
    ASSUME setup \in Setups, NEW entries \in Seq(Entry), Len(entries) <= setup.room
    PROVE  /\ InArray(entries) \in [1 .. setup.room -> Entry]
           /\ \A i \in DOMAIN entries : InArray(entries)[i] = entries[i]
           /\ (\A i \in DOMAIN entries : Holds(entries[i])) =>
                 \A i \in DOMAIN InArray(entries) : Holds(InArray(entries)[i])
<1>1. setup.room \in Nat /\ Len(entries) \in Nat /\ DOMAIN entries = 1 .. Len(entries)
  BY SetupTypes
<1>2. \A i \in DOMAIN entries : i \in 1 .. setup.room /\ entries[i] \in Entry
  BY <1>1
<1> QED
  BY <1>2, EmptyHolds DEF InArray

(* pss begins with what the file has.                                      *)
FileGood == /\ setup \in Setups /\ file \in Seq(Entry) /\ Len(file) <= setup.room
            /\ \A i \in DOMAIN file : file[i].id # 0 /\ Holds(file[i])

LEMMA StartGood ==
    ASSUME FileGood, Start
    PROVE  IInv
<1> DEFINE read == Loaded(file)
<1>1. /\ setup \in Setups /\ file \in Seq(Entry) /\ Len(file) <= setup.room
      /\ \A i \in DOMAIN file : file[i].id # 0 /\ Holds(file[i])
      /\ DOMAIN file = 1 .. Len(file) /\ Len(file) \in Nat
  BY DEF FileGood
<1>2. /\ units = InArray(read) /\ count = Len(file) /\ doing = Began /\ unsaved = FALSE
      /\ installed = IdsOf(file) /\ hidden = Twice(file)
  BY DEF Start
<1>3. /\ read \in Seq(Entry) /\ Len(read) = Len(file) /\ DOMAIN read = DOMAIN file
      /\ \A i \in DOMAIN file : read[i].id = file[i].id /\ Holds(read[i])
  BY <1>1, LoadedEntries
<1> HIDE DEF read
<1>4. /\ units \in [1 .. setup.room -> Entry] /\ \A i \in 1 .. count : units[i] = read[i]
      /\ \A i \in DOMAIN units : Holds(units[i])
  BY <1>1, <1>2, <1>3, ArrayOfEntries
<1>5. \A t \in Threads : doing[t] \in {Connecting, Idle} /\ doing[t].step # "set"
  BY <1>2 DEF Began, Connecting, Idle
<1>6. Types
  <2>1. count \in 0 .. setup.room
    BY <1>1, <1>2, SetupTypes
  <2>2. DOMAIN doing = Threads
    BY <1>2 DEF Began
  <2>3. \A i \in 1 .. count : units[i].id # 0
    BY <1>1, <1>2, <1>3, <1>4
  <2> QED
    BY <1>1, <1>2, <1>4, <1>5, <2>1, <2>2, <2>3 DEF Types
<1>7. Holding
  BY <1>1, <1>4, <1>5 DEF Holding
<1>8. Listing
  <2>1. \A i \in 1 .. count : i \in DOMAIN file /\ units[i].id = file[i].id
    BY <1>1, <1>2, <1>3, <1>4
  <2>2. {units[i].id : i \in 1 .. count} = installed
    BY <1>1, <1>2, <2>1 DEF IdsOf
  <2>3. ~hidden => \A i, j \in 1 .. count : units[i].id = units[j].id => i = j
    BY <1>2, <2>1 DEF Twice
  <2> QED
    BY <2>2, <2>3 DEF Listing
<1>9. Loaded(file) = Loaded(Saved)
  <2>1. /\ kind \in Kinds /\ Saved \in Seq(Entry) /\ DOMAIN Saved = DOMAIN file
        /\ \A i \in 1 .. count :
              /\ Saved[i].id = units[i].id /\ Saved[i].ask = units[i].ask
              /\ Saved[i].lapped = units[i].lapped
              /\ Saved[i].has = units[i].has \cap Saves[kind]
    BY <1>1, <1>2, <1>6, SavedEntries, SetupTypes
  <2> DEFINE again == Loaded(Saved)
  <2>2. DOMAIN again = DOMAIN file
    BY <1>1, <2>1, LoadedEntries
  <2>3. ASSUME NEW i \in DOMAIN file PROVE again[i] = read[i]
    <3>1. i \in 1 .. count /\ i \in DOMAIN Saved
      BY <1>1, <1>2, <2>1
    <3>2. /\ again[i].id = Saved[i].id /\ again[i].ask = Saved[i].ask
          /\ again[i].lapped = Saved[i].lapped
          /\ again[i].has = {f \in Loads[kind] \cap setup.fields : ReadFrom(f) \in Saved[i].has}
          /\ again \in Seq(Entry) /\ Len(again) = Len(Saved)
      BY <1>1, <2>1, <3>1, LoadedEntries
    <3>3. /\ read[i].id = file[i].id /\ read[i].ask = file[i].ask
          /\ read[i].lapped = file[i].lapped
          /\ read[i].has = {f \in Loads[kind] \cap setup.fields : ReadFrom(f) \in file[i].has}
      BY <1>1, LoadedEntries DEF read
    <3>4. file[i].has \subseteq setup.fields
      <4>1. file[i] \in Entry
        BY <1>1
      <4> QED
        BY <4>1 DEF Entry
    <3>5. \A f \in Loads[kind] : /\ ReadFrom(f) \in Loads[kind] /\ ReadFrom(f) \in Saves[kind]
                                 /\ ReadFrom(ReadFrom(f)) = ReadFrom(f)
      BY <2>1, FileKeeps
    <3>6. Saved[i].has = read[i].has \cap Saves[kind]
      BY <1>4, <2>1, <3>1
    <3>7. \A f : f \in again[i].has <=> f \in read[i].has
      BY <3>2, <3>3, <3>4, <3>5, <3>6
    <3>8. again[i] \in Entry /\ read[i] \in Entry
      BY <1>3, <2>1, <2>2, <3>1, <3>2
    <3>9. again[i].has = read[i].has
      BY <3>7
    <3>10. /\ again[i].id = read[i].id /\ again[i].ask = read[i].ask
           /\ again[i].lapped = read[i].lapped
      BY <1>4, <2>1, <3>1, <3>2
    <3> QED
      BY <3>8, <3>9, <3>10 DEF Entry
  <2>4. again \in Seq(Entry)
    BY <1>1, <2>1, LoadedEntries
  <2>5. again = read
    BY <1>3, <2>2, <2>3, <2>4
  <2> QED
    BY <2>5 DEF read
<1>10. Current
  BY <1>9 DEF Current
<1> QED
  BY <1>6, <1>7, <1>8, <1>10 DEF IInv

LEMMA InitOK == Init => IInv
<1>1. ASSUME Init PROVE FileGood
  <2>1. setup \in Setups /\ setup.room \in Nat \ {0} /\ kind \in Kinds
    BY <1>1, SetupTypes DEF Init
  <2>2. CASE file = <<>>
    BY <2>1, <2>2 DEF FileGood
  <2>3. ASSUME NEW has \in SUBSET (setup.fields \cap Saves[kind]),
               file = <<[id |-> 1, has |-> has, ask |-> has, lapped |-> FALSE]>>
        PROVE  FileGood
    <3> DEFINE e == [id |-> 1, has |-> has, ask |-> has, lapped |-> FALSE]
    <3>1. e \in Entry /\ Holds(e) /\ e.id # 0
      BY IdsAssumption DEF Entry, Holds, Agree
    <3> HIDE DEF e
    <3>2. file = <<e>>
      BY <2>3 DEF e
    <3> QED
      BY <2>1, <3>1, <3>2 DEF FileGood
  <2> QED
    BY <1>1, <2>2, <2>3 DEF Init, FirstFile
<1> QED
  BY <1>1, StartGood DEF Init

LEMMA StartAgain == (FileGood /\ Start => IInv)'
<1>1. FileGood /\ Start => IInv
  BY StartGood
<1> QED
  BY <1>1, PTL

LEMMA RestartOK == ASSUME IInv, Restart PROVE IInv'
<1>1. FileGood'
  BY DEF IInv, Types, Holding, FileGood, Restart, Entry, Holds, LostOf, kind
<1>2. Start'
  BY DEF Restart, Start, InArray, Loaded, Began, IdsOf, Twice, kind
<1> QED
  BY <1>1, <1>2, StartAgain

-----------------------------------------------------------------------------
(* The steps.                                                              *)
LEMMA SameListing ==
    ASSUME Listing, UNCHANGED <<count, installed, hidden>>,
           \A i \in 1 .. count : units'[i].id = units[i].id
    PROVE  Listing'
<1>1. {units'[i].id : i \in 1 .. count'} = {units[i].id : i \in 1 .. count}
  OBVIOUS
<1> QED
  BY <1>1 DEF Listing

(* A request that has changed the array, or nothing, comes to its end.     *)
LEMMA Finished ==
    ASSUME IInv, NEW t \in Threads, NEW saved \in BOOLEAN, Finish(t, saved),
           UNCHANGED <<setup, file>>,
           units' \in [1 .. setup.room -> Entry], count' \in 0 .. setup.room,
           \A i \in 1 .. count' : units'[i].id # 0,
           \A i \in 1 .. setup.room : Holds(units'[i]),
           Listing'
    PROVE  IInv'
<1>1. /\ doing' = [doing EXCEPT ![t] = IF saved THEN Saving ELSE Idle]
      /\ unsaved' = (unsaved \/ ~saved)
  BY DEF Finish
<1>2. Types /\ Holding
  BY DEF IInv
<1>3. DOMAIN doing = Threads
  BY <1>2 DEF Types
<1>4. doing'[t] \in {Saving, Idle} /\ doing'[t].step # "set" /\ (saved => doing'[t] = Saving)
  BY <1>1, <1>3 DEF Saving, Idle
<1>5. \A u \in Threads : u # t => doing'[u] = doing[u]
  BY <1>1, <1>3
<1>6. Current'
  BY <1>1, <1>4 DEF Current
<1>7. kind' = kind /\ LostOf' = LostOf /\ Entry' = Entry /\ Waiting' = Waiting
  BY DEF kind, LostOf, Entry, Waiting
<1>8. Holding'
  <2>1. \A u \in Threads : doing'[u].step = "set" => Faithful(doing'[u])
    BY <1>2, <1>4, <1>5 DEF Holding
  <2>2. (\A u \in Threads : doing[u].step = "set" => Faithful(doing[u]))'
    BY <1>7, <2>1 DEF Faithful
  <2>3. (\A i \in DOMAIN units : Holds(units[i]))'
    BY <1>7 DEF Holds
  <2>4. (\A i \in DOMAIN file : Holds(file[i]))'
    BY <1>2, <1>7 DEF Holding, Holds
  <2> QED
    BY <2>2, <2>3, <2>4 DEF Holding
<1>9. Types'
  <2>1. \A u \in Threads : doing'[u].step = "set" => doing'[u] \in Waiting
    BY <1>2, <1>4, <1>5 DEF Types
  <2>2. DOMAIN doing' = Threads
    BY <1>1, <1>3
  <2>3. unsaved' \in BOOLEAN
    BY <1>1
  <2> QED
    BY <1>2, <1>7, <2>1, <2>2, <2>3 DEF Types
<1> QED
  BY <1>6, <1>8, <1>9 DEF IInv

LEMMA CopyOK ==
    ASSUME IInv, NEW t \in Threads, NEW id \in setup.ids \cup {0}, NEW o \in Orders,
           NEW N \in NamedBy(o), NEW V \in Values(o, N), Copy(t, id, o, N, V)
    PROVE  IInv'
<1>1. Types /\ Holding /\ Current /\ Listing
  BY DEF IInv
<1>2. PICK got \in Taken(N, V) :
        doing' = [doing EXCEPT ![t] =
              [step |-> "set", id |-> id, saw |-> units[At(id)].has, named |-> N, asked |-> V,
               sets |-> N \cap o.sets, got |-> got \cap o.sets, saved |-> o.saved]]
  BY DEF Copy
<1> DEFINE d == [step |-> "set", id |-> id, saw |-> units[At(id)].has, named |-> N,
                 asked |-> V, sets |-> N \cap o.sets, got |-> got \cap o.sets,
                 saved |-> o.saved]
<1>3. /\ UNCHANGED <<setup, units, count, file, unsaved, installed, hidden>>
      /\ Listed(id) /\ doing[t] = Idle
  BY DEF Copy, Free
<1>4. /\ kind \in Kinds /\ setup.ids \subseteq Ids
  BY <1>1, SetupTypes DEF Types
<1>5. /\ N \subseteq setup.fields /\ V \subseteq N /\ got \subseteq N
      /\ N \ o.sets \subseteq LostOf /\ Agree(got \cap o.sets, V, LostOf) /\ o.saved \in BOOLEAN
  BY <1>4, OrdersFit, RequestFits DEF Fits
<1>6. units[At(id)].has \in SUBSET setup.fields
  <2>1. units[At(id)] \in Entry
    BY <1>1, <1>3, FirstListed DEF Types
  <2> QED
    BY <2>1 DEF Entry
<1>7. d \in Waiting
  BY <1>4, <1>5, <1>6 DEF Waiting
<1>8. Faithful(d)
  BY <1>5 DEF Faithful
<1> HIDE DEF d
<1>9. DOMAIN doing = Threads /\ doing' = [doing EXCEPT ![t] = d]
  BY <1>1, <1>2 DEF Types, d
<1>10. doing'[t] = d /\ \A u \in Threads : u # t => doing'[u] = doing[u]
  BY <1>9
<1>11. /\ kind' = kind /\ LostOf' = LostOf /\ Entry' = Entry /\ Waiting' = Waiting
  BY <1>3 DEF kind, LostOf, Entry, Waiting
<1>12. Holding'
  <2>1. \A u \in Threads : doing'[u].step = "set" => Faithful(doing'[u])
    BY <1>1, <1>8, <1>10 DEF Holding
  <2>2. (\A u \in Threads : doing[u].step = "set" => Faithful(doing[u]))'
    BY <1>11, <2>1 DEF Faithful
  <2> QED
    BY <1>1, <1>3, <1>11, <2>2 DEF Holding, Holds
<1>13. Types'
  <2>1. \A u \in Threads : doing'[u].step = "set" => doing'[u] \in Waiting
    BY <1>1, <1>7, <1>10 DEF Types
  <2>2. DOMAIN doing' = Threads
    BY <1>9
  <2> QED
    BY <1>1, <1>3, <1>11, <2>1, <2>2 DEF Types
<1>14. Current'
  <2>1. doing[t] # Saving
    BY <1>3 DEF Idle, Saving
  <2>2. (\A u \in Threads : doing'[u] # Saving) => \A u \in Threads : doing[u] # Saving
    BY <1>10, <2>1
  <2>3. Loaded(file)' = Loaded(file) /\ Loaded(Saved)' = Loaded(Saved)
    BY <1>3, <1>11 DEF Loaded, Saved
  <2> QED
    BY <1>1, <1>3, <2>2, <2>3 DEF Current
<1>15. Listing'
  BY <1>1, <1>3 DEF Listing
<1> QED
  BY <1>12, <1>13, <1>14, <1>15 DEF IInv

LEMMA SetOK == ASSUME IInv, NEW t \in Threads, Set(t) PROVE IInv'
<1> DEFINE d == doing[t]
<1>1. Types /\ Holding /\ Listing
  BY DEF IInv
<1>2. /\ d.step = "set" /\ units' = set_by_id(d) /\ Finish(t, d.saved)
      /\ UNCHANGED <<setup, count, file, installed, hidden>>
  BY DEF Set
<1>3. d \in Waiting /\ Faithful(d)
  BY <1>1, <1>2 DEF Types, Holding
<1> HIDE DEF d
<1>4. d.saved \in BOOLEAN
  BY <1>3 DEF Waiting
<1>5. units \in [1 .. setup.room -> Entry] /\ \A i \in DOMAIN units : Holds(units[i])
  BY <1>1 DEF Types, Holding
<1>6. /\ units' \in [1 .. setup.room -> Entry]
      /\ \A i \in 1 .. setup.room : Holds(units'[i])
      /\ \A i \in 1 .. setup.room : units'[i].id = units[i].id
  <2>1. CASE ~Listed(d.id)
    BY <1>2, <1>5, <2>1 DEF set_by_id
  <2>2. CASE Listed(d.id)
    <3> DEFINE e == units[At(d.id)]
               has == (d.saw \ d.sets) \cup d.got
               ask == (e.ask \ d.named) \cup d.asked
               lapped == e.lapped \/ e.has # d.saw
               new == [e EXCEPT !.has = has, !.ask = ask, !.lapped = lapped]
    <3>1. At(d.id) \in DOMAIN units
      BY <1>1, <2>2, FirstListed
    <3>2. e \in Entry /\ Holds(e)
      BY <1>5, <3>1
    <3>3. units' = [units EXCEPT ![At(d.id)] = new]
      BY <1>2, <2>2, <3>1 DEF set_by_id
    <3>4. has \in SUBSET setup.fields /\ ask \in SUBSET setup.fields /\ lapped \in BOOLEAN
      BY <1>3, <3>2 DEF Waiting, Entry
    <3>5. lapped \/ Agree(has, ask, LostOf)
      <4>1. SUFFICES ASSUME ~e.lapped, e.has = d.saw PROVE Agree(has, ask, LostOf)
        OBVIOUS
      <4>2. e.has \ LostOf = e.ask \ LostOf
        BY <3>2, <4>1 DEF Holds, Agree
      <4>3. \A f : f \notin LostOf => (f \in has <=> f \in ask)
        <5> SUFFICES ASSUME NEW f, f \notin LostOf PROVE f \in has <=> f \in ask
          OBVIOUS
        <5>1. /\ f \in d.got <=> f \in d.asked
              /\ f \in d.got => f \in d.sets
              /\ f \in d.sets <=> f \in d.named
          BY <1>3 DEF Faithful, Agree
        <5>2. f \in d.saw <=> f \in e.ask
          BY <4>1, <4>2
        <5> QED
          BY <5>1, <5>2
      <4> QED
        BY <4>3 DEF Agree
    <3> HIDE DEF has, ask, lapped
    <3>6. /\ new \in Entry /\ new.id = e.id /\ new.has = has /\ new.ask = ask
          /\ new.lapped = lapped
      BY <3>2, <3>4 DEF Entry
    <3>7. Holds(new)
      BY <3>5, <3>6 DEF Holds
    <3> HIDE DEF new
    <3> QED
      BY <1>5, <3>1, <3>3, <3>6, <3>7
  <2> QED
    BY <2>1, <2>2
<1>7. count \in 0 .. setup.room /\ setup.room \in Nat
  BY <1>1, SetupTypes DEF Types
<1>8. \A i \in 1 .. count : i \in 1 .. setup.room
  BY <1>7
<1>9. \A i \in 1 .. count' : units'[i].id # 0
  BY <1>1, <1>2, <1>6, <1>8 DEF Types
<1>10. Listing'
  BY <1>1, <1>2, <1>6, <1>8, SameListing
<1> QED
  BY <1>2, <1>4, <1>6, <1>7, <1>9, <1>10, Finished

LEMMA Ranges ==
    ASSUME Types
    PROVE  /\ setup.room \in Nat \ {0} /\ count \in Nat /\ count <= setup.room
           /\ DOMAIN units = 1 .. setup.room
           /\ \A i \in 1 .. setup.room : units[i] \in Entry
           /\ \A i \in 1 .. count : i \in 1 .. setup.room
  BY SetupTypes DEF Types

LEMMA DirectOK ==
    ASSUME IInv, NEW t \in Threads, NEW id \in setup.ids \cup {0}, NEW o \in Orders,
           NEW N \in NamedBy(o), NEW V \in Values(o, N), Direct(t, id, o, N, V)
    PROVE  IInv'
<1> DEFINE reached == {i \in 1 .. (IF kind = "tg" THEN setup.room ELSE count) :
                          units[i].id # 0 /\ (units[i].id = id \/ (kind = "tg" /\ id = 0))}
<1>1. Types /\ Holding /\ Listing
  BY DEF IInv
<1>2. /\ Finish(t, o.saved) /\ UNCHANGED <<setup, count, file, installed, hidden>>
  BY DEF Direct
<1>3. PICK got \in Taken(N, V) :
        units' = [i \in DOMAIN units |->
                    IF i \in reached
                    THEN [units[i] EXCEPT !.has = (@ \ (N \cap o.sets)) \cup (got \cap o.sets),
                                          !.ask = (@ \ N) \cup V]
                    ELSE units[i]]
  BY DEF Direct
<1> HIDE DEF reached
<1>4. kind \in Kinds
  BY <1>1, SetupTypes DEF Types
<1>5. /\ N \subseteq setup.fields /\ V \subseteq N /\ got \subseteq N
      /\ N \ o.sets \subseteq LostOf /\ Agree(got \cap o.sets, V, LostOf) /\ o.saved \in BOOLEAN
  BY <1>4, OrdersFit, RequestFits DEF Fits
<1>6. ASSUME NEW i \in 1 .. setup.room
      PROVE  units'[i] \in Entry /\ Holds(units'[i]) /\ units'[i].id = units[i].id
  <2> DEFINE e == units[i]
             has == (e.has \ (N \cap o.sets)) \cup (got \cap o.sets)
             ask == (e.ask \ N) \cup V
             new == [e EXCEPT !.has = has, !.ask = ask]
  <2>1. e \in Entry /\ Holds(e) /\ i \in DOMAIN units
    BY <1>1, Ranges DEF Holding
  <2>2. units'[i] = IF i \in reached THEN new ELSE e
    BY <1>3, <2>1
  <2>3. has \in SUBSET setup.fields /\ ask \in SUBSET setup.fields
    BY <1>5, <2>1 DEF Entry
  <2>4. ASSUME Agree(e.has, e.ask, LostOf) PROVE Agree(has, ask, LostOf)
    <3>1. ASSUME NEW f, f \notin LostOf PROVE f \in has <=> f \in ask
      <4>1. f \in e.has <=> f \in e.ask
        BY <2>4, <3>1 DEF Agree
      <4>2. f \in got \cap o.sets <=> f \in V
        BY <1>5, <3>1 DEF Agree
      <4>3. f \in N \cap o.sets <=> f \in N
        BY <1>5, <3>1
      <4> QED
        BY <4>1, <4>2, <4>3
    <3> QED
      BY <3>1 DEF Agree
  <2> HIDE DEF has, ask
  <2>5. /\ new \in Entry /\ new.id = e.id /\ new.has = has /\ new.ask = ask
        /\ new.lapped = e.lapped
    BY <2>1, <2>3 DEF Entry
  <2>6. Holds(new)
    BY <2>1, <2>4, <2>5 DEF Holds
  <2> HIDE DEF new
  <2> QED
    BY <2>1, <2>2, <2>5, <2>6
<1>7. units' \in [1 .. setup.room -> Entry]
  <2>1. DOMAIN units' = 1 .. setup.room
    BY <1>1, <1>3, Ranges
  <2>2. units' = [i \in 1 .. setup.room |-> units'[i]]
    BY <1>1, <1>3, Ranges
  <2> QED
    BY <1>6, <2>2
<1>8. \A i \in 1 .. count' : units'[i].id # 0
  BY <1>1, <1>2, <1>6, Ranges DEF Types
<1>9. Listing'
  BY <1>1, <1>2, <1>6, Ranges, SameListing
<1>10. count' \in 0 .. setup.room
  BY <1>1, <1>2 DEF Types
<1> QED
  BY <1>2, <1>5, <1>6, <1>7, <1>8, <1>9, <1>10, Finished

LEMMA OtherOK == ASSUME IInv, NEW t \in Threads, Other(t) PROVE IInv'
<1>1. Types /\ Holding /\ Listing
  BY DEF IInv
<1>2. Finish(t, TRUE) /\ UNCHANGED <<setup, units, count, file, installed, hidden>>
  BY DEF Other
<1>3. Listing'
  BY <1>1, <1>2, SameListing
<1>4. /\ units' \in [1 .. setup.room -> Entry] /\ count' \in 0 .. setup.room
      /\ \A i \in 1 .. count' : units'[i].id # 0
      /\ \A i \in 1 .. setup.room : Holds(units'[i])
  BY <1>1, <1>2, Ranges DEF Types, Holding
<1> QED
  BY <1>2, <1>3, <1>4, Finished

LEMMA InstallOK ==
    ASSUME IInv, NEW t \in Threads, NEW id \in setup.ids, NEW V \in SUBSET setup.fields,
           kind \in Devices, NEW form \in Forms[kind], Install(t, id, form, V)
    PROVE  IInv'
<1> DEFINE place == Min(Places(id))
           full == Places(id) = {}
           adds == InstallAdds[kind] \cap setup.fields
           new(got) == [id |-> id, has |-> (got \cap form.sets) \cup adds,
                        ask |-> V \cup adds, lapped |-> FALSE]
<1>1. Types /\ Holding /\ Listing
  BY DEF IInv
<1>2. PICK got \in Taken(V, V) :
        units' = IF full THEN units ELSE [units EXCEPT ![place] = new(got)]
  BY DEF Install
<1>3. /\ V \subseteq form.carries
      /\ count' = IF ~full /\ units[place].id = 0 THEN count + 1 ELSE count
      /\ installed' = installed \cup {id}
      /\ hidden' = (hidden \/ full \/ place > count')
      /\ Finish(t, kind # "tgsd")
      /\ UNCHANGED <<setup, file>>
  BY DEF Install
<1>4. id \in Ids /\ id # 0
  BY <1>1, SetupTypes, IdsAssumption DEF Types
<1> DEFINE e == new(got)
<1>5. e \in Entry /\ Holds(e) /\ e.id = id
  <2> DEFINE has == (got \cap form.sets) \cup adds
             ask == V \cup adds
  <2>1. PICK some \in SUBSET ((V \cap Texts) \cup (V \cap {"first_point"})) :
          got = (V \ (Texts \cup {"first_point"})) \cup some
    BY DEF Taken
  <2>2. has \in SUBSET setup.fields /\ ask \in SUBSET setup.fields
    BY <2>1
  <2>3. /\ form.carries \ form.sets \subseteq LostOf
        /\ form.carries \cap (Texts \cup {"first_point"}) \subseteq LostOf
    BY FormsFit
  <2>4. Agree(has, ask, LostOf)
    <3>1. ASSUME NEW f, f \notin LostOf PROVE f \in has <=> f \in ask
      <4>1. f \in V => f \in form.sets /\ f \notin Texts \cup {"first_point"}
        BY <1>3, <2>3, <3>1
      <4>2. f \in got => f \in V
        BY <2>1
      <4>3. f \in V => f \in got
        BY <2>1, <4>1
      <4> QED
        BY <4>1, <4>2, <4>3
    <3> QED
      BY <3>1 DEF Agree
  <2> HIDE DEF has, ask
  <2>5. e = [id |-> id, has |-> has, ask |-> ask, lapped |-> FALSE]
    BY DEF has, ask
  <2> QED
    BY <1>4, <2>2, <2>4, <2>5 DEF Entry, Holds
<1> HIDE DEF e
<1>6. /\ setup.room \in Nat \ {0} /\ count \in Nat /\ count <= setup.room
      /\ DOMAIN units = 1 .. setup.room
      /\ \A i \in 1 .. setup.room : units[i] \in Entry
      /\ \A i \in 1 .. count : i \in 1 .. setup.room /\ units[i].id # 0
  BY <1>1, Ranges DEF Types
<1>7. CASE full
  <2>1. units' = units /\ count' = count /\ hidden' = TRUE
    BY <1>2, <1>3, <1>7
  <2>2. Listing'
    BY <2>1 DEF Listing
  <2>3. (kind # "tgsd") \in BOOLEAN
    OBVIOUS
  <2>4. \A i \in 1 .. setup.room : Holds(units'[i])
    BY <1>1, <1>6, <2>1 DEF Holding
  <2>5. units' \in [1 .. setup.room -> Entry]
    BY <1>1, <2>1 DEF Types
  <2>6. Finish(t, kind # "tgsd") /\ UNCHANGED <<setup, file>>
    BY <1>3
  <2>7. count' \in 0 .. setup.room /\ \A i \in 1 .. count' : units'[i].id # 0
    BY <1>6, <2>1
  <2> QED
    BY <2>2, <2>3, <2>4, <2>5, <2>6, <2>7, Finished
<1>8. CASE ~full
  <2>1. units' = [units EXCEPT ![place] = e]
    BY <1>2, <1>8 DEF e
  <2>2. /\ place \in 1 .. setup.room /\ units[place].id \in {0, id}
        /\ \A i \in 1 .. setup.room : units[i].id \in {0, id} => place <= i
    <3>1. Places(id) \in SUBSET (1 .. setup.room) /\ Places(id) # {}
      BY <1>6, <1>8 DEF Places
    <3>2. place \in Places(id) /\ \A i \in Places(id) : place <= i
      BY <1>6, <3>1, Smallest
    <3> QED
      BY <1>6, <3>2 DEF Places
  <2>3. count' = IF units[place].id = 0 THEN count + 1 ELSE count
    BY <1>3, <1>8
  <2> HIDE DEF full, place
  <2>4. \A i \in 1 .. setup.room : units'[i] = IF i = place THEN e ELSE units[i]
    BY <1>6, <2>1
  <2>5. units' \in [1 .. setup.room -> Entry] /\ \A i \in 1 .. setup.room : Holds(units'[i])
    <3>1. units' = [i \in 1 .. setup.room |-> IF i = place THEN e ELSE units[i]]
      BY <1>6, <2>1, <2>2
    <3> QED
      BY <1>1, <1>5, <1>6, <2>4, <3>1 DEF Holding
  <2>6. units[place].id = 0 => place > count
    BY <1>6, <2>2
  <2>7. count' \in 0 .. setup.room
    BY <1>6, <2>2, <2>3, <2>6
  <2>8. \A i \in 1 .. count' : i \in 1 .. setup.room /\ units'[i].id # 0
    <3> SUFFICES ASSUME NEW i \in 1 .. count' PROVE i \in 1 .. setup.room /\ units'[i].id # 0
      OBVIOUS
    <3>1. i \in 1 .. setup.room /\ (i <= count \/ (units[place].id = 0 /\ i = count + 1))
      BY <1>6, <2>3, <2>7
    <3>2. CASE i = place
      BY <1>4, <1>5, <2>4, <3>1, <3>2
    <3>3. CASE i # place /\ i <= count
      BY <1>6, <2>4, <3>1, <3>3
    <3>4. CASE i # place /\ units[place].id = 0 /\ i = count + 1
      <4>1. i < place
        BY <1>6, <2>2, <2>6, <3>4
      <4>2. units[i].id # 0
        BY <2>2, <3>1, <4>1
      <4> QED
        BY <2>4, <3>1, <3>4, <4>2
    <3> QED
      BY <1>6, <3>1, <3>2, <3>3, <3>4
  <2>9. Listing'
    <3> SUFFICES ASSUME ~hidden'
                 PROVE  /\ {units'[i].id : i \in 1 .. count'} = installed'
                        /\ \A i, j \in 1 .. count' : units'[i].id = units'[j].id => i = j
      BY DEF Listing
    <3>1. ~hidden /\ place <= count'
      <4>1. ~hidden /\ ~(place > count')
        BY <1>3
      <4>2. place \in Nat /\ count' \in Nat
        BY <1>6, <2>2, <2>7
      <4> QED
        BY <4>1, <4>2
    <3>2. /\ {units[i].id : i \in 1 .. count} = installed
          /\ \A i, j \in 1 .. count : units[i].id = units[j].id => i = j
      BY <1>1, <3>1 DEF Listing
    <3>3. CASE units[place].id = 0
      <4>1. place = count + 1 /\ count' = count + 1
        BY <1>6, <2>2, <2>3, <2>6, <3>1, <3>3
      <4>2. \A i \in 1 .. count : units'[i].id = units[i].id /\ units[i].id # id
        BY <1>6, <2>2, <2>4, <4>1
      <4>3. units'[count + 1].id = id
        BY <1>5, <2>2, <2>4, <4>1
      <4>4. \A i \in 1 .. count' : i \in 1 .. count \/ i = count + 1
        BY <1>6, <4>1
      <4>5. \A i \in 1 .. count : i \in 1 .. count'
        BY <1>6, <4>1
      <4>6. {units'[i].id : i \in 1 .. count'} = {units[i].id : i \in 1 .. count} \cup {id}
        <5>1. count + 1 \in 1 .. count'
          BY <1>6, <4>1
        <5> QED
          BY <4>2, <4>3, <4>4, <4>5, <5>1
      <4>7. \A i, j \in 1 .. count' : units'[i].id = units'[j].id => i = j
        BY <3>2, <4>2, <4>3, <4>4
      <4> QED
        BY <1>3, <3>2, <4>6, <4>7
    <3>4. CASE units[place].id # 0
      <4>1. count' = count /\ units[place].id = id /\ place \in 1 .. count
        BY <1>6, <2>2, <2>3, <3>1, <3>4
      <4>2. \A i \in 1 .. count : units'[i].id = units[i].id
        BY <1>5, <1>6, <2>4, <4>1
      <4>3. {units'[i].id : i \in 1 .. count'} = {units[i].id : i \in 1 .. count}
        BY <4>1, <4>2
      <4>4. id \in installed
        BY <3>2, <4>1
      <4> QED
        BY <1>3, <3>2, <4>1, <4>2, <4>3, <4>4
    <3> QED
      BY <3>3, <3>4
  <2>10. (kind # "tgsd") \in BOOLEAN
    OBVIOUS
  <2> QED
    BY <1>3, <2>5, <2>7, <2>8, <2>9, <2>10, Finished
<1> QED
  BY <1>7, <1>8

LEMMA ClearOK ==
    ASSUME IInv, NEW t \in Threads, NEW id, Clear(t, id)
    PROVE  IInv'
<1> DEFINE at == {i \in 1 .. count : units[i].id = id}
           place == Min(at)
<1>1. Types /\ Holding /\ Listing
  BY DEF IInv
<1>2. /\ installed' = installed \ {id} /\ Finish(t, TRUE) /\ UNCHANGED <<setup, file, hidden>>
  BY DEF Clear
<1>3. /\ setup.room \in Nat \ {0} /\ count \in Nat /\ count <= setup.room
      /\ DOMAIN units = 1 .. setup.room
      /\ \A i \in 1 .. setup.room : units[i] \in Entry /\ Holds(units[i])
      /\ \A i \in 1 .. count : i \in 1 .. setup.room /\ units[i].id # 0
  BY <1>1, Ranges DEF Types, Holding
<1>4. CASE at = {}
  <2>1. units' = units /\ count' = count
    BY <1>4 DEF Clear
  <2>2. ~hidden => id \notin installed
    BY <1>1, <1>4 DEF Listing
  <2>3. Listing'
    BY <1>1, <1>2, <2>1, <2>2 DEF Listing
  <2>4. units' \in [1 .. setup.room -> Entry] /\ \A i \in 1 .. setup.room : Holds(units'[i])
    BY <1>1, <1>3, <2>1 DEF Types
  <2>5. count' \in 0 .. setup.room /\ \A i \in 1 .. count' : units'[i].id # 0
    BY <1>3, <2>1
  <2> QED
    BY <1>2, <2>3, <2>4, <2>5, Finished
<1>5. CASE at # {}
  <2>1. /\ count < setup.room /\ at \subseteq {place, place + 1} /\ count' = count - 1
        /\ units' = [i \in DOMAIN units |-> IF i = count + 1 THEN Empty
                                            ELSE IF i \in place .. (count - 1) THEN units[i + 1]
                                            ELSE units[i]]
    BY <1>5 DEF Clear
  <2>2. place \in at /\ \A i \in at : place <= i
    <3>1. at \in SUBSET (1 .. count)
      OBVIOUS
    <3> QED
      BY <1>3, <1>5, <3>1, Smallest
  <2>3. place \in 1 .. count /\ units[place].id = id
    BY <2>2
  <2> HIDE DEF place, at
  <2>4. \A i \in 1 .. setup.room :
           units'[i] = IF i = count + 1 THEN Empty
                       ELSE IF i \in place .. (count - 1) THEN units[i + 1] ELSE units[i]
    BY <1>3, <2>1
  <2>5. \A i \in 1 .. setup.room : units'[i] \in Entry /\ Holds(units'[i])
    <3>1. \A i \in place .. (count - 1) : i + 1 \in 1 .. setup.room
      BY <1>3, <2>3
    <3> QED
      BY <1>3, <2>4, <3>1, EmptyHolds
  <2>6. units' \in [1 .. setup.room -> Entry]
    <3>1. units' = [i \in 1 .. setup.room |-> units'[i]]
      BY <1>3, <2>1
    <3> QED
      BY <2>5, <3>1
  <2>7. count' \in 0 .. setup.room /\ count' = count - 1
    BY <1>3, <2>1, <2>3
  <2>8. \A i \in 1 .. count' : /\ i \in 1 .. count
                               /\ i < place => units'[i] = units[i]
                               /\ i >= place => units'[i] = units[i + 1] /\ i + 1 \in 1 .. count
    BY <1>3, <2>3, <2>4, <2>7
  <2>9. \A i \in 1 .. count' : units'[i].id # 0
    <3> SUFFICES ASSUME NEW i \in 1 .. count' PROVE units'[i].id # 0
      OBVIOUS
    <3>1. \A j \in 1 .. count : units[j].id # 0
      BY <1>3
    <3>2. \E j \in 1 .. count : units'[i] = units[j]
      <4>1. i \in Nat /\ place \in Nat
        BY <2>3, <2>7
      <4>2. CASE i < place
        BY <2>8, <4>2
      <4>3. CASE i >= place
        BY <2>8, <4>3
      <4> QED
        BY <4>1, <4>2, <4>3
    <3> QED
      BY <3>1, <3>2
  <2>10. Listing'
    <3> SUFFICES ASSUME ~hidden
                 PROVE  /\ {units'[i].id : i \in 1 .. count'} = installed'
                        /\ \A i, j \in 1 .. count' : units'[i].id = units'[j].id => i = j
      BY <1>2 DEF Listing
    <3>1. /\ {units[i].id : i \in 1 .. count} = installed
          /\ \A i, j \in 1 .. count : units[i].id = units[j].id => i = j
      BY <1>1 DEF Listing
    <3> DEFINE from(i) == IF i < place THEN i ELSE i + 1
    <3>2. \A i \in 1 .. count' : /\ from(i) \in 1 .. count /\ units'[i] = units[from(i)]
                                 /\ from(i) # place
      <4> SUFFICES ASSUME NEW i \in 1 .. count'
                   PROVE  /\ from(i) \in 1 .. count /\ units'[i] = units[from(i)]
                          /\ from(i) # place
        OBVIOUS
      <4>1. i \in Nat /\ place \in Nat
        BY <2>3, <2>7
      <4>2. CASE i < place
        BY <2>8, <4>1, <4>2
      <4>3. CASE i >= place
        BY <2>8, <4>1, <4>3
      <4> QED
        BY <4>1, <4>2, <4>3
    <3>3. \A j \in 1 .. count : j # place => \E i \in 1 .. count' : from(i) = j
      <4> SUFFICES ASSUME NEW j \in 1 .. count, j # place
                   PROVE  \E i \in 1 .. count' : from(i) = j
        OBVIOUS
      <4>1. CASE j < place
        <5>1. j \in 1 .. count' /\ from(j) = j
          BY <1>3, <2>3, <2>7, <4>1
        <5> QED
          BY <5>1
      <4>2. CASE j > place
        <5>1. j - 1 \in 1 .. count' /\ from(j - 1) = j
          BY <1>3, <2>3, <2>7, <4>2
        <5> QED
          BY <5>1
      <4> QED
        BY <2>3, <4>1, <4>2
    <3>4. \A i, j \in 1 .. count' : from(i) = from(j) => i = j
      BY <2>3, <2>7
    <3> HIDE DEF from
    <3>5. \A i, j \in 1 .. count' : units'[i].id = units'[j].id => i = j
      BY <3>1, <3>2, <3>4
    <3>6. \A x : x \in {units'[i].id : i \in 1 .. count'} <=> x \in installed /\ x # id
      <4> SUFFICES ASSUME NEW x
                   PROVE  x \in {units'[i].id : i \in 1 .. count'} <=> x \in installed /\ x # id
        OBVIOUS
      <4>1. ASSUME NEW i \in 1 .. count', x = units'[i].id PROVE x \in installed /\ x # id
        <5>1. x = units[from(i)].id /\ from(i) \in 1 .. count /\ from(i) # place
          BY <3>2, <4>1
        <5> QED
          BY <2>3, <3>1, <5>1
      <4>2. ASSUME x \in installed, x # id PROVE x \in {units'[i].id : i \in 1 .. count'}
        <5>1. PICK j \in 1 .. count : units[j].id = x
          BY <3>1, <4>2
        <5>2. PICK i \in 1 .. count' : from(i) = j
          BY <2>3, <3>3, <4>2, <5>1
        <5> QED
          BY <3>2, <5>1, <5>2
      <4> QED
        BY <4>1, <4>2
    <3> QED
      BY <1>2, <3>5, <3>6
  <2> QED
    BY <1>2, <2>5, <2>6, <2>7, <2>9, <2>10, Finished
<1> QED
  BY <1>4, <1>5

LEMMA ClearAllOK == ASSUME IInv, NEW t \in Threads, ClearAll(t) PROVE IInv'
<1>1. Types
  BY DEF IInv
<1>2. /\ units' = [i \in DOMAIN units |-> Empty] /\ count' = 0 /\ installed' = {}
      /\ hidden' = FALSE /\ Finish(t, TRUE) /\ UNCHANGED <<setup, file>>
  BY DEF ClearAll
<1>3. DOMAIN units = 1 .. setup.room /\ setup.room \in Nat
  BY <1>1, Ranges
<1>4. units' \in [1 .. setup.room -> Entry] /\ \A i \in 1 .. setup.room : Holds(units'[i])
  BY <1>2, <1>3, EmptyHolds
<1>5. count' \in 0 .. setup.room /\ \A i \in 1 .. count' : units'[i].id # 0
  BY <1>2, <1>3
<1>6. Listing'
  BY <1>2 DEF Listing
<1> QED
  BY <1>2, <1>4, <1>5, <1>6, Finished

(* A step that leaves no thread with more to write back.                   *)
LEMMA Recorded ==
    ASSUME IInv, UNCHANGED setup, DOMAIN doing' = Threads, unsaved' \in BOOLEAN,
           \A u \in Threads : doing'[u] = doing[u] \/ doing'[u].step # "set",
           units' \in [1 .. setup.room -> Entry], count' \in 0 .. setup.room,
           \A i \in 1 .. count' : units'[i].id # 0,
           \A i \in 1 .. setup.room : Holds(units'[i]),
           file' \in Seq(Entry), Len(file') <= setup.room,
           \A i \in DOMAIN file' : file'[i].id # 0 /\ Holds(file'[i]),
           Listing', Current'
    PROVE  IInv'
<1>1. Types /\ Holding
  BY DEF IInv
<1>2. kind' = kind /\ LostOf' = LostOf /\ Entry' = Entry /\ Waiting' = Waiting
  BY DEF kind, LostOf, Entry, Waiting
<1>3. Holding'
  <2>1. \A u \in Threads : doing'[u].step = "set" => Faithful(doing'[u])
    BY <1>1 DEF Holding
  <2>2. (\A u \in Threads : doing[u].step = "set" => Faithful(doing[u]))'
    BY <1>2, <2>1 DEF Faithful
  <2>3. (\A i \in DOMAIN units : Holds(units[i]))'
    BY <1>2 DEF Holds
  <2>4. (\A i \in DOMAIN file : Holds(file[i]))'
    BY <1>2 DEF Holds
  <2> QED
    BY <2>2, <2>3, <2>4 DEF Holding
<1>4. Types'
  <2>1. \A u \in Threads : doing'[u].step = "set" => doing'[u] \in Waiting
    BY <1>1 DEF Types
  <2> QED
    BY <1>1, <1>2, <2>1 DEF Types
<1> QED
  BY <1>3, <1>4 DEF IInv

(* What the invariant says of the file, for the steps that leave it.       *)
LEMMA FileStays ==
    ASSUME IInv, UNCHANGED file
    PROVE  /\ file' \in Seq(Entry) /\ Len(file') <= setup.room
           /\ \A i \in DOMAIN file' : file'[i].id # 0 /\ Holds(file'[i])
  BY DEF IInv, Types, Holding

LEMMA ConnectOK ==
    ASSUME IInv, NEW t \in Threads, clear_service_devices(t)
    PROVE  IInv'
<1>1. Types /\ Holding
  BY DEF IInv
<1>2. /\ doing' = [doing EXCEPT ![t] = Loading] /\ count' = 0 /\ unsaved' = TRUE
      /\ units' = [i \in DOMAIN units |-> IF i <= count THEN Empty ELSE units[i]]
      /\ installed' = {} /\ hidden' = FALSE /\ UNCHANGED <<setup, file>>
  BY DEF clear_service_devices
<1>3. /\ DOMAIN doing' = Threads /\ unsaved' \in BOOLEAN
      /\ \A u \in Threads : doing'[u] = doing[u] \/ doing'[u].step # "set"
  BY <1>1, <1>2 DEF Types, Loading
<1>4. /\ DOMAIN units = 1 .. setup.room /\ setup.room \in Nat /\ count \in Nat
      /\ \A i \in 1 .. setup.room : units[i] \in Entry /\ Holds(units[i])
  BY <1>1, Ranges DEF Holding
<1>5. \A i \in 1 .. setup.room : units'[i] \in Entry /\ Holds(units'[i])
  BY <1>2, <1>4, EmptyHolds
<1>6. units' \in [1 .. setup.room -> Entry]
  <2>1. units' = [i \in 1 .. setup.room |-> units'[i]]
    BY <1>2, <1>4
  <2> QED
    BY <1>5, <2>1
<1>7. count' \in 0 .. setup.room /\ \A i \in 1 .. count' : units'[i].id # 0
  BY <1>2, <1>4
<1>8. Current' /\ Listing'
  BY <1>2 DEF Current, Listing
<1> QED
  BY <1>2, <1>3, <1>5, <1>6, <1>7, <1>8, FileStays, Recorded

LEMMA AddOK ==
    ASSUME IInv, NEW t \in Threads, NEW V \in SUBSET setup.fields, add_server_device(t, V)
    PROVE  IInv'
<1> DEFINE new == [id |-> count + 1, has |-> V, ask |-> V, lapped |-> FALSE]
<1>1. Types /\ Holding /\ Listing
  BY DEF IInv
<1>2. /\ count < setup.room /\ count + 1 \in setup.ids /\ count + 1 \notin installed
      /\ count' = count + 1 /\ units' = [units EXCEPT ![count + 1] = new]
      /\ installed' = installed \cup {count + 1} /\ unsaved' = TRUE
      /\ UNCHANGED <<setup, file, doing, hidden>>
  BY DEF add_server_device
<1>3. /\ DOMAIN units = 1 .. setup.room /\ setup.room \in Nat /\ count \in Nat
      /\ \A i \in 1 .. setup.room : units[i] \in Entry /\ Holds(units[i])
      /\ \A i \in 1 .. count : units[i].id # 0
  BY <1>1, Ranges DEF Holding, Types
<1>4. count + 1 \in Ids /\ count + 1 \in 1 .. setup.room
  BY <1>1, <1>2, <1>3, SetupTypes DEF Types
<1>5. new \in Entry /\ Holds(new) /\ new.id = count + 1
  BY <1>4 DEF Entry, Holds, Agree
<1> HIDE DEF new
<1>6. /\ units'[count + 1] = new
      /\ \A i \in 1 .. setup.room : i # count + 1 => units'[i] = units[i]
  BY <1>2, <1>3, <1>4
<1>7. \A i \in 1 .. setup.room : units'[i] \in Entry /\ Holds(units'[i])
  BY <1>3, <1>5, <1>6
<1>8. units' \in [1 .. setup.room -> Entry]
  BY <1>1, <1>2, <1>5 DEF Types
<1>9. \A i \in 1 .. count' : i = count + 1 \/ i \in 1 .. count
  BY <1>2, <1>3
<1>10. \A i \in 1 .. count : i \in 1 .. setup.room /\ i # count + 1 /\ units'[i] = units[i]
  BY <1>2, <1>3, <1>6
<1>11. count' \in 0 .. setup.room /\ \A i \in 1 .. count' : units'[i].id # 0
  BY <1>2, <1>3, <1>5, <1>6, <1>9, <1>10
<1>12. Listing'
  <2> SUFFICES ASSUME ~hidden
               PROVE  /\ {units'[i].id : i \in 1 .. count'} = installed'
                      /\ \A i, j \in 1 .. count' : units'[i].id = units'[j].id => i = j
    BY <1>2 DEF Listing
  <2>1. /\ {units[i].id : i \in 1 .. count} = installed
        /\ \A i, j \in 1 .. count : units[i].id = units[j].id => i = j
    BY <1>1 DEF Listing
  <2>2. 1 .. count' = (1 .. count) \cup {count + 1}
    BY <1>2, <1>3
  <2>3. {units'[i].id : i \in 1 .. count'}
            = {units'[i].id : i \in 1 .. count} \cup {units'[count + 1].id}
    BY <2>2
  <2>4. {units'[i].id : i \in 1 .. count} = {units[i].id : i \in 1 .. count}
    BY <1>10
  <2>5. \A i \in 1 .. count : units'[i].id # count + 1
    BY <1>2, <1>10, <2>1
  <2> QED
    BY <1>2, <1>5, <1>6, <1>9, <1>10, <2>1, <2>3, <2>4, <2>5
<1>13. Current'
  BY <1>2 DEF Current
<1>14. /\ DOMAIN doing' = Threads /\ unsaved' \in BOOLEAN
       /\ \A u \in Threads : doing'[u] = doing[u] \/ doing'[u].step # "set"
  BY <1>1, <1>2 DEF Types
<1> QED
  BY <1>2, <1>7, <1>8, <1>11, <1>12, <1>13, <1>14, FileStays, Recorded

LEMMA LoadOK ==
    ASSUME IInv, NEW t \in Threads, server_conf_is_load(t)
    PROVE  IInv'
<1>1. Types /\ Holding /\ Listing /\ Current
  BY DEF IInv
<1>2. /\ doing[t] = Loading /\ doing' = [doing EXCEPT ![t] = Idle]
      /\ UNCHANGED <<setup, units, count, file, unsaved, installed, hidden>>
  BY DEF server_conf_is_load
<1>3. /\ DOMAIN doing' = Threads /\ unsaved' \in BOOLEAN
      /\ \A u \in Threads : doing'[u] = doing[u] \/ doing'[u].step # "set"
  BY <1>1, <1>2 DEF Types, Idle
<1>4. /\ units' \in [1 .. setup.room -> Entry] /\ count' \in 0 .. setup.room
      /\ \A i \in 1 .. count' : units'[i].id # 0
      /\ \A i \in 1 .. setup.room : Holds(units'[i])
  BY <1>1, <1>2 DEF Types, Holding
<1>5. Listing'
  BY <1>1, <1>2 DEF Listing
<1>6. Current'
  <2>1. Loading # Saving
    BY DEF Loading, Saving
  <2>2. (\A u \in Threads : doing'[u] # Saving) => \A u \in Threads : doing[u] # Saving
    BY <1>1, <1>2, <2>1 DEF Types
  <2>3. Loaded(file)' = Loaded(file) /\ Loaded(Saved)' = Loaded(Saved)
    BY <1>2 DEF Loaded, Saved, kind
  <2> QED
    BY <1>1, <1>2, <2>2, <2>3 DEF Current
<1> QED
  BY <1>2, <1>3, <1>4, <1>5, <1>6, FileStays, Recorded

LEMMA SaveOK ==
    ASSUME IInv, NEW t \in Threads, save_pss_data(t)
    PROVE  IInv'
<1>1. Types /\ Holding /\ Listing
  BY DEF IInv
<1>2. /\ file' = Saved /\ unsaved' = FALSE /\ doing' = [doing EXCEPT ![t] = Idle]
      /\ UNCHANGED <<setup, units, count, installed, hidden>>
  BY DEF save_pss_data
<1>3. /\ DOMAIN doing' = Threads /\ unsaved' \in BOOLEAN
      /\ \A u \in Threads : doing'[u] = doing[u] \/ doing'[u].step # "set"
  BY <1>1, <1>2 DEF Types, Idle
<1>4. /\ units' \in [1 .. setup.room -> Entry] /\ count' \in 0 .. setup.room
      /\ \A i \in 1 .. count' : units'[i].id # 0
      /\ \A i \in 1 .. setup.room : Holds(units'[i])
  BY <1>1, <1>2 DEF Types, Holding
<1>5. Listing'
  BY <1>1, <1>2 DEF Listing
<1>6. /\ file' \in Seq(Entry) /\ Len(file') <= setup.room
      /\ \A i \in DOMAIN file' : file'[i].id # 0 /\ Holds(file'[i])
  <2>1. /\ Saved \in Seq(Entry) /\ Len(Saved) = count /\ DOMAIN Saved = 1 .. count
        /\ \A i \in 1 .. count : /\ Saved[i].id = units[i].id
                                 /\ Holds(units[i]) => Holds(Saved[i])
    BY <1>1, SavedEntries
  <2>2. \A i \in 1 .. count : units[i].id # 0 /\ Holds(units[i])
    BY <1>1, Ranges DEF Types, Holding
  <2>3. count <= setup.room
    BY <1>1, Ranges
  <2> HIDE DEF Saved
  <2> QED
    BY <1>2, <2>1, <2>2, <2>3
<1>7. Current'
  <2>1. Saved' = Saved /\ kind' = kind
    BY <1>2 DEF Saved, kind
  <2>2. file' = Saved'
    BY <1>2, <2>1
  <2>3. Loaded(file)' = Loaded(Saved)'
    BY <2>2 DEF Loaded
  <2> QED
    BY <2>3 DEF Current
<1> QED
  BY <1>2, <1>3, <1>4, <1>5, <1>6, <1>7, Recorded

LEMMA StutterOK == ASSUME IInv, UNCHANGED vars PROVE IInv'
<1>1. /\ kind' = kind /\ LostOf' = LostOf /\ Entry' = Entry /\ Waiting' = Waiting
      /\ UNCHANGED <<setup, units, count, file, doing, unsaved, installed, hidden>>
  BY DEF vars, kind, LostOf, Entry, Waiting
<1>2. Types'
  BY <1>1 DEF IInv, Types
<1>3. Holding'
  BY <1>1 DEF IInv, Holding, Holds, Faithful
<1>4. Current'
  <2>1. Loaded(file)' = Loaded(file) /\ Loaded(Saved)' = Loaded(Saved)
    BY <1>1 DEF Loaded, Saved
  <2> QED
    BY <1>1, <2>1 DEF IInv, Current
<1>5. Listing'
  BY <1>1 DEF IInv, Listing
<1> QED
  BY <1>2, <1>3, <1>4, <1>5 DEF IInv

LEMMA NextOK == IInv /\ [Next]_vars => IInv'
<1> SUFFICES ASSUME IInv, [Next]_vars PROVE IInv'
  OBVIOUS
<1>1. ASSUME NEW t \in Threads, NEW id \in setup.ids \cup {0}, NEW o \in Orders,
             NEW N \in NamedBy(o), NEW V \in Values(o, N),
             Copy(t, id, o, N, V) \/ Direct(t, id, o, N, V)
      PROVE  IInv'
  BY <1>1, CopyOK, DirectOK
<1>2. ASSUME NEW t \in Threads, Set(t) \/ Other(t) \/ save_pss_data(t) PROVE IInv'
  BY <1>2, SetOK, OtherOK, SaveOK
<1>3. ASSUME NEW t \in Threads, NEW id \in setup.ids, NEW V \in SUBSET setup.fields,
             kind \in Devices, NEW form \in Forms[kind], Install(t, id, form, V)
      PROVE  IInv'
  BY <1>3, InstallOK
<1>4. ASSUME NEW t \in Threads, NEW id \in setup.ids \cup {0}, clr_install_data(t, id)
      PROVE  IInv'
  BY <1>4, ClearOK, ClearAllOK DEF clr_install_data
<1>5. ASSUME NEW t \in Threads, clear_service_devices(t) \/ server_conf_is_load(t)
      PROVE  IInv'
  BY <1>5, ConnectOK, LoadOK
<1>6. ASSUME NEW t \in Threads, NEW V \in SUBSET setup.fields, add_server_device(t, V)
      PROVE  IInv'
  BY <1>6, AddOK
<1>7. CASE Restart
  BY <1>7, RestartOK
<1>8. CASE UNCHANGED vars
  BY <1>8, StutterOK
<1> QED
  BY <1>1, <1>2, <1>3, <1>4, <1>5, <1>6, <1>7, <1>8 DEF Next

LEMMA Always == Spec => []IInv
  BY InitOK, NextOK, PTL DEF Spec

-----------------------------------------------------------------------------
(* What the answers tell.  The parameters of version 3 of a status are     *)
(* read up to the number that it announces.                                *)
Reads(s, n) == UNION {s[i] : i \in {j \in DOMAIN s : j <= n}}

LEMMA CountOne ==
    ASSUME NEW S, NEW x, NEW has, IsFiniteSet(has \cap S), x \notin S
    PROVE  /\ IsFiniteSet(has \cap (S \cup {x}))
           /\ Cardinality(has \cap (S \cup {x}))
                  = Cardinality(has \cap S) + (IF x \in has THEN 1 ELSE 0)
<1>0. Cardinality(has \cap S) \in Nat
  BY FS_CardinalityType
<1>1. CASE x \in has
  <2>1. has \cap (S \cup {x}) = (has \cap S) \cup {x} /\ x \notin has \cap S
    BY <1>1
  <2> QED
    BY <1>0, <1>1, <2>1, FS_AddElement
<1>2. CASE x \notin has
  <2>1. has \cap (S \cup {x}) = has \cap S
    BY <1>2
  <2> QED
    <3>1. \A c \in Nat : c = c + (IF x \in has THEN 1 ELSE 0)
      BY <1>2
    <3> QED
      BY <1>0, <2>1, <3>1
<1> QED
  BY <1>1, <1>2

LEMMA Announced ==
    ASSUME NEW has
    PROVE  fp_status_3_announced(has)
               = 4 + (IF "fuelling_volume" \in has THEN 1 ELSE 0)
                   + (IF "fuelling_money" \in has THEN 1 ELSE 0)
                   + (IF "attendant_accaunt_id" \in has THEN 1 ELSE 0)
                   + (IF "operation_mode.service_modes" \in has THEN 1 ELSE 0)
                   + (IF "grade_id" \in has THEN 1 ELSE 0)
<1> DEFINE n(x) == IF x \in has THEN 1 ELSE 0
           S1 == {} \cup {"fuelling_volume"}
           S2 == S1 \cup {"fuelling_money"}
           S3 == S2 \cup {"attendant_accaunt_id"}
           S4 == S3 \cup {"operation_mode.service_modes"}
           S5 == S4 \cup {"grade_id"}
<1>1. IsFiniteSet(has \cap {}) /\ Cardinality(has \cap {}) = 0
  BY FS_EmptySet
<1>2. IsFiniteSet(has \cap S1) /\ Cardinality(has \cap S1) = n("fuelling_volume")
  <2>1. "fuelling_volume" \notin {}
    OBVIOUS
  <2>2. /\ IsFiniteSet(has \cap ({} \cup {"fuelling_volume"}))
        /\ Cardinality(has \cap ({} \cup {"fuelling_volume"}))
               = Cardinality(has \cap {}) + n("fuelling_volume")
    BY <1>1, <2>1, CountOne
  <2> QED
    BY <1>1, <2>2
<1>3. /\ IsFiniteSet(has \cap S2)
      /\ Cardinality(has \cap S2) = n("fuelling_volume") + n("fuelling_money")
  <2>1. "fuelling_money" \notin S1
    OBVIOUS
  <2> HIDE DEF S1
  <2> QED
    BY <1>2, <2>1, CountOne
<1>4. /\ IsFiniteSet(has \cap S3)
      /\ Cardinality(has \cap S3) = n("fuelling_volume") + n("fuelling_money")
                                        + n("attendant_accaunt_id")
  <2>1. "attendant_accaunt_id" \notin S2
    OBVIOUS
  <2> HIDE DEF S2
  <2> QED
    BY <1>3, <2>1, CountOne
<1>5. /\ IsFiniteSet(has \cap S4)
      /\ Cardinality(has \cap S4) = n("fuelling_volume") + n("fuelling_money")
             + n("attendant_accaunt_id") + n("operation_mode.service_modes")
  <2>1. "operation_mode.service_modes" \notin S3
    OBVIOUS
  <2> HIDE DEF S3
  <2> QED
    BY <1>4, <2>1, CountOne
<1>6. Cardinality(has \cap S5) = n("fuelling_volume") + n("fuelling_money")
          + n("attendant_accaunt_id") + n("operation_mode.service_modes") + n("grade_id")
  <2>1. "grade_id" \notin S4
    OBVIOUS
  <2> HIDE DEF S4
  <2> QED
    BY <1>5, <2>1, CountOne
<1>7. S5 = {"fuelling_volume", "fuelling_money", "attendant_accaunt_id",
            "operation_mode.service_modes", "grade_id"}
  OBVIOUS
<1> QED
  BY <1>6, <1>7 DEF fp_status_3_announced

(* One parameter more, or none.                                            *)
LEMMA NextRead ==
    ASSUME NEW T, NEW s \in Seq(T), NEW F \in T, NEW o, o = <<F>> \/ o = << >>,
           NEW n \in Int
    PROVE  /\ s \o o \in Seq(T) /\ Len(s \o o) = Len(s) + Len(o)
           /\ Reads(s, n) \subseteq Reads(s \o o, n)
           /\ Reads(s \o o, n) \subseteq Reads(s, n) \cup F
           /\ o = <<F>> /\ n > Len(s) => F \subseteq Reads(s \o o, n)
<1>1. CASE o = << >>
  <2>1. s \o o = s /\ Len(o) = 0 /\ o # <<F>>
    BY <1>1
  <2> QED
    BY <2>1
<1>2. CASE o = <<F>>
  <2> DEFINE j == s \o <<F>>
  <2>1. /\ Len(s) \in Nat /\ DOMAIN s = 1 .. Len(s) /\ Len(<<F>>) = 1 /\ <<F>>[1] = F
        /\ <<F>> \in Seq(T)
    OBVIOUS
  <2>2. j \in Seq(T) /\ Len(j) = Len(s) + 1
    BY <2>1
  <2>3. /\ \A i \in 1 .. Len(s) : j[i] = s[i]
        /\ j[Len(s) + 1] = F
    BY <2>1
  <2>4. DOMAIN j = 1 .. Len(s) + 1
    BY <2>2
  <2> HIDE DEF j
  <2>5. ASSUME NEW f, f \in Reads(s, n) PROVE f \in Reads(j, n)
    <3>1. PICK i \in DOMAIN s : i <= n /\ f \in s[i]
      BY <2>5 DEF Reads
    <3>2. i \in DOMAIN j /\ f \in j[i]
      BY <2>1, <2>3, <2>4, <3>1
    <3> QED
      BY <3>1, <3>2 DEF Reads
  <2>6. ASSUME NEW f, f \in Reads(j, n) PROVE f \in Reads(s, n) \cup F
    <3>1. PICK i \in DOMAIN j : i <= n /\ f \in j[i]
      BY <2>6 DEF Reads
    <3>2. i \in DOMAIN s \/ i = Len(s) + 1
      BY <2>1, <2>4
    <3>3. CASE i \in DOMAIN s
      <4>1. f \in s[i]
        BY <2>1, <2>3, <3>1, <3>3
      <4> QED
        BY <3>1, <3>3, <4>1 DEF Reads
    <3> QED
      BY <2>3, <3>1, <3>2, <3>3
  <2>7. ASSUME n > Len(s) PROVE F \subseteq Reads(j, n)
    <3>1. Len(s) + 1 \in DOMAIN j /\ Len(s) + 1 <= n
      BY <2>1, <2>4, <2>7
    <3> QED
      BY <2>3, <3>1 DEF Reads
  <2>8. /\ Reads(s, n) \subseteq Reads(j, n) /\ Reads(j, n) \subseteq Reads(s, n) \cup F
        /\ n > Len(s) => F \subseteq Reads(j, n)
    BY <2>5, <2>6, <2>7
  <2>9. s \o o = j /\ Len(o) = 1
    BY <1>2, <2>1 DEF j
  <2> QED
    BY <2>2, <2>8, <2>9
<1> QED
  BY <1>1, <1>2

(* As many parameters are read as it takes to reach all that have a value. *)
LEMMA ParametersRead ==
    ASSUME NEW has, NEW matched \in Matches(has)
    PROVE  LET read == Reads(fp_status_3_parameters(has, matched),
                             fp_status_3_announced(has))
           IN  /\ {"sub_state2", "operation_mode.service_modes", "option.grade_id"}
                      \subseteq read
               /\ has \cap {"fuelling_volume", "fuelling_money", "attendant_accaunt_id"}
                      \subseteq read
               /\ read \subseteq {"sub_state2", "operation_mode.service_modes",
                                  "option.grade_id", "option.id", "fuelling_volume",
                                  "fuelling_money", "attendant_accaunt_id",
                                  "option.nozzle_id", "option.nozzle_tag_reader_id"}
<1> DEFINE n == fp_status_3_announced(has)
           T == {{}, {"sub_state2"}, {"operation_mode.service_modes"}, {"option.grade_id"},
                 {"option.id"}, {"fuelling_volume"}, {"fuelling_money"},
                 {"attendant_accaunt_id"}, {"option.nozzle_id"},
                 {"option.nozzle_tag_reader_id"}}
           s0 == <<{"sub_state2"}, {"operation_mode.service_modes"}, {"option.grade_id"}>>
           o1 == One({"option.id"}, matched)
           o2 == One({"fuelling_volume"}, "fuelling_volume" \in has)
           o3 == One({"fuelling_money"}, "fuelling_money" \in has)
           o4 == One({"attendant_accaunt_id"}, "attendant_accaunt_id" \in has)
           o6 == One({"operation_mode.service_modes"},
                     "operation_mode.service_modes" \in has)
           o7 == One({"option.nozzle_id"}, matched /\ "option.nozzle_id" \in has)
           o8 == One({"option.nozzle_tag_reader_id"},
                     matched /\ "option.nozzle_tag_reader_id" \in has)
           s1 == s0 \o o1
           s2 == s1 \o o2
           s3 == s2 \o o3
           s4 == s3 \o o4
           s5 == s4 \o <<{}>>
           s6 == s5 \o o6
           s7 == s6 \o o7
           s8 == s7 \o o8
           one(x) == IF x \in has THEN 1 ELSE 0
           m == IF matched THEN 1 ELSE 0
<1>1. fp_status_3_parameters(has, matched) = s8
  BY DEF fp_status_3_parameters, One
<1>2. /\ n = 4 + one("fuelling_volume") + one("fuelling_money") + one("attendant_accaunt_id")
               + one("operation_mode.service_modes") + one("grade_id")
      /\ one("grade_id") >= m /\ matched \in BOOLEAN
  <2>1. n = 4 + one("fuelling_volume") + one("fuelling_money") + one("attendant_accaunt_id")
              + one("operation_mode.service_modes") + one("grade_id")
    BY Announced
  <2>2. matched \in BOOLEAN /\ (matched => "grade_id" \in has)
    BY DEF Matches
  <2>3. one("grade_id") >= m
    BY <2>2
  <2> QED
    BY <2>1, <2>2, <2>3
<1>3. /\ n \in Int
      /\ n >= 4 + m + one("fuelling_volume") + one("fuelling_money")
      /\ n >= 4 + m + one("fuelling_volume") /\ n >= 4 + m /\ n >= 3
  BY <1>2
<1>4. s0 \in Seq(T) /\ Len(s0) = 3 /\ DOMAIN s0 = 1 .. 3
  OBVIOUS
<1>5. Reads(s0, n) = {"sub_state2", "operation_mode.service_modes", "option.grade_id"}
  <2>1. s0[1] = {"sub_state2"} /\ s0[2] = {"operation_mode.service_modes"}
        /\ s0[3] = {"option.grade_id"}
    OBVIOUS
  <2>2. \A i \in DOMAIN s0 : i = 1 \/ i = 2 \/ i = 3
    BY <1>4
  <2>3. {j \in DOMAIN s0 : j <= n} = {1, 2, 3}
    BY <1>3, <1>4
  <2> HIDE DEF s0, n
  <2>4. Reads(s0, n) = s0[1] \cup s0[2] \cup s0[3]
    BY <2>3 DEF Reads
  <2> QED
    BY <2>1, <2>4
<1>6. /\ {"option.id"} \in T /\ {"fuelling_volume"} \in T /\ {"fuelling_money"} \in T
      /\ {"attendant_accaunt_id"} \in T /\ {} \in T /\ {"operation_mode.service_modes"} \in T
      /\ {"option.nozzle_id"} \in T /\ {"option.nozzle_tag_reader_id"} \in T
  OBVIOUS
<1>7. /\ Len(<< >>) = 0 /\ \A F : Len(<<F>>) = 1
      /\ \A F : << >> # <<F>>
  OBVIOUS
<1>8. /\ o1 = <<{"option.id"}>> \/ o1 = << >>
      /\ Len(o1) = m
  BY <1>2, <1>7 DEF One
<1>9. /\ o2 = <<{"fuelling_volume"}>> \/ o2 = << >>
      /\ "fuelling_volume" \in has => o2 = <<{"fuelling_volume"}>>
      /\ Len(o2) = one("fuelling_volume")
  BY <1>7 DEF One
<1>10. /\ o3 = <<{"fuelling_money"}>> \/ o3 = << >>
       /\ "fuelling_money" \in has => o3 = <<{"fuelling_money"}>>
       /\ Len(o3) = one("fuelling_money")
  BY <1>7 DEF One
<1>11. /\ o4 = <<{"attendant_accaunt_id"}>> \/ o4 = << >>
       /\ "attendant_accaunt_id" \in has => o4 = <<{"attendant_accaunt_id"}>>
  BY <1>7 DEF One
<1>12. /\ o6 = <<{"operation_mode.service_modes"}>> \/ o6 = << >>
       /\ o7 = <<{"option.nozzle_id"}>> \/ o7 = << >>
       /\ o8 = <<{"option.nozzle_tag_reader_id"}>> \/ o8 = << >>
  BY DEF One
<1> HIDE DEF s0, n, T, o1, o2, o3, o4, o6, o7, o8
<1>21. /\ s1 \in Seq(T)
       /\ Len(s1) = 3 + m
       /\ Reads(s0, n) \subseteq Reads(s1, n)
       /\ Reads(s1, n) \subseteq Reads(s0, n) \cup {"option.id"}
  <2>1. /\ s0 \in Seq(T) /\ {"option.id"} \in T /\ n \in Int
        /\ o1 = <<{"option.id"}>> \/ o1 = << >>
    BY <1>3, <1>6, <1>8, <1>4
  <2>2. /\ s0 \o o1 \in Seq(T) /\ Len(s0 \o o1) = Len(s0) + Len(o1)
        /\ Reads(s0, n) \subseteq Reads(s0 \o o1, n)
        /\ Reads(s0 \o o1, n) \subseteq Reads(s0, n) \cup {"option.id"}
        /\ o1 = <<{"option.id"}>> /\ n > Len(s0) =>
               {"option.id"} \subseteq Reads(s0 \o o1, n)
    BY <2>1, NextRead
  <2> QED
    BY <1>8, <1>4, <2>2
<1> HIDE DEF s1
<1>22. /\ s2 \in Seq(T)
       /\ Len(s2) = 3 + m + one("fuelling_volume")
       /\ Reads(s1, n) \subseteq Reads(s2, n)
       /\ Reads(s2, n) \subseteq Reads(s1, n) \cup {"fuelling_volume"}
       /\ "fuelling_volume" \in has => "fuelling_volume" \in Reads(s2, n)
  <2>1. /\ s1 \in Seq(T) /\ {"fuelling_volume"} \in T /\ n \in Int
        /\ o2 = <<{"fuelling_volume"}>> \/ o2 = << >>
    BY <1>3, <1>6, <1>9, <1>21
  <2>2. /\ s1 \o o2 \in Seq(T) /\ Len(s1 \o o2) = Len(s1) + Len(o2)
        /\ Reads(s1, n) \subseteq Reads(s1 \o o2, n)
        /\ Reads(s1 \o o2, n) \subseteq Reads(s1, n) \cup {"fuelling_volume"}
        /\ o2 = <<{"fuelling_volume"}>> /\ n > Len(s1) =>
               {"fuelling_volume"} \subseteq Reads(s1 \o o2, n)
    BY <2>1, NextRead
  <2>3. n > Len(s1)
    BY <1>3, <1>21
  <2> QED
    BY <1>9, <1>21, <2>2, <2>3
<1> HIDE DEF s2
<1>23. /\ s3 \in Seq(T)
       /\ Len(s3) = 3 + m + one("fuelling_volume") + one("fuelling_money")
       /\ Reads(s2, n) \subseteq Reads(s3, n)
       /\ Reads(s3, n) \subseteq Reads(s2, n) \cup {"fuelling_money"}
       /\ "fuelling_money" \in has => "fuelling_money" \in Reads(s3, n)
  <2>1. /\ s2 \in Seq(T) /\ {"fuelling_money"} \in T /\ n \in Int
        /\ o3 = <<{"fuelling_money"}>> \/ o3 = << >>
    BY <1>3, <1>6, <1>10, <1>22
  <2>2. /\ s2 \o o3 \in Seq(T) /\ Len(s2 \o o3) = Len(s2) + Len(o3)
        /\ Reads(s2, n) \subseteq Reads(s2 \o o3, n)
        /\ Reads(s2 \o o3, n) \subseteq Reads(s2, n) \cup {"fuelling_money"}
        /\ o3 = <<{"fuelling_money"}>> /\ n > Len(s2) =>
               {"fuelling_money"} \subseteq Reads(s2 \o o3, n)
    BY <2>1, NextRead
  <2>3. n > Len(s2)
    BY <1>3, <1>22
  <2> QED
    BY <1>10, <1>22, <2>2, <2>3
<1> HIDE DEF s3
<1>24. /\ s4 \in Seq(T)
       /\ Reads(s3, n) \subseteq Reads(s4, n)
       /\ Reads(s4, n) \subseteq Reads(s3, n) \cup {"attendant_accaunt_id"}
       /\ "attendant_accaunt_id" \in has => "attendant_accaunt_id" \in Reads(s4, n)
  <2>1. /\ s3 \in Seq(T) /\ {"attendant_accaunt_id"} \in T /\ n \in Int
        /\ o4 = <<{"attendant_accaunt_id"}>> \/ o4 = << >>
    BY <1>3, <1>6, <1>11, <1>23
  <2>2. /\ s3 \o o4 \in Seq(T) /\ Len(s3 \o o4) = Len(s3) + Len(o4)
        /\ Reads(s3, n) \subseteq Reads(s3 \o o4, n)
        /\ Reads(s3 \o o4, n) \subseteq Reads(s3, n) \cup {"attendant_accaunt_id"}
        /\ o4 = <<{"attendant_accaunt_id"}>> /\ n > Len(s3) =>
               {"attendant_accaunt_id"} \subseteq Reads(s3 \o o4, n)
    BY <2>1, NextRead
  <2>3. n > Len(s3)
    BY <1>3, <1>23
  <2> QED
    BY <1>11, <1>23, <2>2, <2>3
<1> HIDE DEF s4
<1>25. /\ s5 \in Seq(T)
       /\ Reads(s4, n) \subseteq Reads(s5, n)
       /\ Reads(s5, n) \subseteq Reads(s4, n) \cup {}
  <2>1. /\ s4 \in Seq(T) /\ {} \in T /\ n \in Int
        /\ <<{}>> = <<{}>> \/ <<{}>> = << >>
    BY <1>3, <1>6, <1>24
  <2>2. /\ s4 \o <<{}>> \in Seq(T) /\ Len(s4 \o <<{}>>) = Len(s4) + Len(<<{}>>)
        /\ Reads(s4, n) \subseteq Reads(s4 \o <<{}>>, n)
        /\ Reads(s4 \o <<{}>>, n) \subseteq Reads(s4, n) \cup {}
        /\ <<{}>> = <<{}>> /\ n > Len(s4) => {} \subseteq Reads(s4 \o <<{}>>, n)
    BY <2>1, NextRead
  <2> QED
    BY <2>2
<1> HIDE DEF s5
<1>26. /\ s6 \in Seq(T)
       /\ Reads(s5, n) \subseteq Reads(s6, n)
       /\ Reads(s6, n) \subseteq Reads(s5, n) \cup {"operation_mode.service_modes"}
  <2>1. /\ s5 \in Seq(T) /\ {"operation_mode.service_modes"} \in T /\ n \in Int
        /\ o6 = <<{"operation_mode.service_modes"}>> \/ o6 = << >>
    BY <1>3, <1>6, <1>12, <1>25
  <2>2. /\ s5 \o o6 \in Seq(T) /\ Len(s5 \o o6) = Len(s5) + Len(o6)
        /\ Reads(s5, n) \subseteq Reads(s5 \o o6, n)
        /\ Reads(s5 \o o6, n) \subseteq Reads(s5, n) \cup {"operation_mode.service_modes"}
        /\ o6 = <<{"operation_mode.service_modes"}>> /\ n > Len(s5) =>
               {"operation_mode.service_modes"} \subseteq Reads(s5 \o o6, n)
    BY <2>1, NextRead
  <2> QED
    BY <2>2
<1> HIDE DEF s6
<1>27. /\ s7 \in Seq(T)
       /\ Reads(s6, n) \subseteq Reads(s7, n)
       /\ Reads(s7, n) \subseteq Reads(s6, n) \cup {"option.nozzle_id"}
  <2>1. /\ s6 \in Seq(T) /\ {"option.nozzle_id"} \in T /\ n \in Int
        /\ o7 = <<{"option.nozzle_id"}>> \/ o7 = << >>
    BY <1>3, <1>6, <1>12, <1>26
  <2>2. /\ s6 \o o7 \in Seq(T) /\ Len(s6 \o o7) = Len(s6) + Len(o7)
        /\ Reads(s6, n) \subseteq Reads(s6 \o o7, n)
        /\ Reads(s6 \o o7, n) \subseteq Reads(s6, n) \cup {"option.nozzle_id"}
        /\ o7 = <<{"option.nozzle_id"}>> /\ n > Len(s6) =>
               {"option.nozzle_id"} \subseteq Reads(s6 \o o7, n)
    BY <2>1, NextRead
  <2> QED
    BY <2>2
<1> HIDE DEF s7
<1>28. /\ s8 \in Seq(T)
       /\ Reads(s7, n) \subseteq Reads(s8, n)
       /\ Reads(s8, n) \subseteq Reads(s7, n) \cup {"option.nozzle_tag_reader_id"}
  <2>1. /\ s7 \in Seq(T) /\ {"option.nozzle_tag_reader_id"} \in T /\ n \in Int
        /\ o8 = <<{"option.nozzle_tag_reader_id"}>> \/ o8 = << >>
    BY <1>3, <1>6, <1>12, <1>27
  <2>2. /\ s7 \o o8 \in Seq(T) /\ Len(s7 \o o8) = Len(s7) + Len(o8)
        /\ Reads(s7, n) \subseteq Reads(s7 \o o8, n)
        /\ Reads(s7 \o o8, n) \subseteq Reads(s7, n) \cup {"option.nozzle_tag_reader_id"}
        /\ o8 = <<{"option.nozzle_tag_reader_id"}>> /\ n > Len(s7) =>
               {"option.nozzle_tag_reader_id"} \subseteq Reads(s7 \o o8, n)
    BY <2>1, NextRead
  <2> QED
    BY <2>2
<1> HIDE DEF s8
<1>29. /\ Reads(s0, n) \subseteq Reads(s8, n) /\ Reads(s2, n) \subseteq Reads(s8, n)
       /\ Reads(s3, n) \subseteq Reads(s8, n) /\ Reads(s4, n) \subseteq Reads(s8, n)
       /\ Reads(s8, n) \subseteq
              Reads(s0, n) \cup {"option.id", "fuelling_volume", "fuelling_money",
                                 "attendant_accaunt_id", "operation_mode.service_modes",
                                 "option.nozzle_id", "option.nozzle_tag_reader_id"}
  BY <1>21, <1>22, <1>23, <1>24, <1>25, <1>26, <1>27, <1>28
<1>30. /\ {"sub_state2", "operation_mode.service_modes", "option.grade_id"}
              \subseteq Reads(s8, n)
       /\ has \cap {"fuelling_volume", "fuelling_money", "attendant_accaunt_id"}
              \subseteq Reads(s8, n)
       /\ Reads(s8, n) \subseteq
              {"sub_state2", "operation_mode.service_modes", "option.grade_id", "option.id",
               "fuelling_volume", "fuelling_money", "attendant_accaunt_id",
               "option.nozzle_id", "option.nozzle_tag_reader_id"}
  BY <1>5, <1>22, <1>23, <1>24, <1>29
<1> QED
  BY <1>1, <1>30 DEF n

(* What an answer about a fuelling point is to tell, and a field that has  *)
(* a value: it is told, and nothing else is, but for what is excused.      *)
LEMMA FpAnswersTell ==
    ASSUME kind = "fp", NEW has \in SUBSET Fields[kind], NEW a \in AnswersOfFp(has),
           NEW f \in has \ (LostOf \cup UntoldOf)
    PROVE  f \in a.tells <=> f \in a.names
<1>1. /\ f \notin Texts /\ f # "option.id" /\ f # "preset.grade_id"
      /\ f # "device_sub_address" /\ f # "option.nozzle_id"
      /\ f # "option.nozzle_tag_reader_id" /\ f # "operation_mode_no"
  BY DEF LostOf, UntoldOf, Settings
<1>2. CASE a = Answer(InstalledNames(has), fp_install_data(has))
  <2>1. a.names = InstalledNames(has) /\ a.tells = fp_install_data(has)
    BY <1>2 DEF Answer
  <2>2. f \in InstalledNames(has) <=>
            f \in InstalledOfFp /\ ~("phisical_address_type" \in has /\ f = "phisical_address_port")
    BY DEF InstalledNames
  <2>3. f \in InstalledOfFp <=>
            f \in {"pss_port_no", "interface_type_general", "interface_type_protocol",
                   "pss_ext_protocol_id", "phisical_address_type", "phisical_address",
                   "phisical_address_port", "nominal_normal_speed", "nominal_high_speed",
                   "high_speed_trigger_level", "option.grade_id",
                   "option.tank_connections"} \cup PSSPumpIntDecimalPositions
    BY <1>1 DEF InstalledOfFp, PSSGradeOption, Texts
  <2>4. f \in fp_install_data_options(has)
            <=> f \in {"option.grade_id", "option.tank_connections"}
    BY <1>1 DEF fp_install_data_options
  <2>5. f \in fp_install_data_address("phisical_address_type" \in has) <=>
            \/ f = "phisical_address"
            \/ f = "phisical_address_port" /\ "phisical_address_type" \notin has
    BY <1>1 DEF fp_install_data_address
  <2>6. f \in fp_install_data_rest <=>
            f \in {"nominal_normal_speed", "nominal_high_speed", "high_speed_trigger_level"}
                  \cup PSSPumpIntDecimalPositions
    BY <1>1 DEF fp_install_data_rest, Texts
  <2>7. f \in fp_install_data_head <=>
            f \in {"interface_type_general", "interface_type_protocol", "pss_port_no",
                   "pss_ext_protocol_id", "phisical_address_type"}
    BY DEF fp_install_data_head
  <2>8. f \in fp_install_data(has) <=>
            \/ f \in fp_install_data_head
            \/ f \in fp_install_data_address("phisical_address_type" \in has)
            \/ f \in fp_install_data_options(has) \/ f \in fp_install_data_rest
    BY DEF fp_install_data
  <2> QED
    BY <2>1, <2>2, <2>3, <2>4, <2>5, <2>6, <2>7, <2>8 DEF PSSPumpIntDecimalPositions
<1>3. CASE a \in {Answer(fp_install_data_grade_options, fp_install_data_grade_options),
                  Answer(fp_sup_trans, fp_sup_trans),
                  Answer(fp_fuelling_data, fp_fuelling_data),
                  Answer(fp_info(has), fp_info(has))}
  BY <1>3 DEF Answer
<1>4. CASE a \in {Answer(TotalNames, fp_grade_totals_set(0)),
                  Answer(TotalNames \cup {"option.money_total"}, fp_grade_totals_set(1))}
  BY <1>4 DEF Answer, TotalNames, fp_grade_totals_set
<1>5. CASE a \in {Answer(SaleNames, fp_sup_trans_buffer_status(0)),
                  Answer(SaleNames, fp_sup_trans_buffer_status_mult(0)),
                  Answer(SaleNames \cup {"transaction.grade_id"},
                         fp_sup_trans_buffer_status(3)),
                  Answer(SaleNames \cup {"transaction.grade_id"},
                         fp_sup_trans_buffer_status_mult(3))}
  <2>1. SaleNames = {"transaction.trans_seq_no", "transaction.sm_id",
                     "transaction.trans_lock_id", "transaction.flags",
                     "transaction.money", "transaction.volume"}
    BY DEF SaleNames, PSSTransactions
  <2> QED
    BY <1>5, <2>1 DEF Answer, fp_sup_trans_buffer_status, fp_sup_trans_buffer_status_mult
<1>6. CASE a \in {Answer(StatusNames(has), fp_status_0(has)),
                  Answer(StatusNames(has), fp_status_2(has)),
                  Answer(StatusNames(has) \cup {"grade_id"}, fp_status_1(has))}
  BY <1>6 DEF Answer, StatusNames, StateNames, fp_status_0, fp_status_1, fp_status_2, fp_state
<1> DEFINE names(matched) ==
               StatusNames(has)
               \cup {"grade_id", "sub_state2", "fuelling_volume", "fuelling_money",
                     "attendant_accaunt_id", "operation_mode_no",
                     "operation_mode.service_modes", "option.grade_id"}
               \cup (IF matched THEN {"option.id", "option.nozzle_id",
                                      "option.nozzle_tag_reader_id"} ELSE {})
<1>7. CASE \E matched \in Matches(has) : a = Answer(names(matched), fp_status_3(has, matched))
  <2>1. PICK matched \in Matches(has) : a = Answer(names(matched), fp_status_3(has, matched))
    BY <1>7
  <2> DEFINE given == fp_status_3_parameters(has, matched)
             read == Reads(given, fp_status_3_announced(has))
  <2>2. a.names = names(matched) /\ a.tells = fp_status_3(has, matched)
    BY <2>1 DEF Answer
  <2>3. /\ {"sub_state2", "operation_mode.service_modes", "option.grade_id"} \subseteq read
        /\ has \cap {"fuelling_volume", "fuelling_money", "attendant_accaunt_id"}
               \subseteq read
        /\ read \subseteq {"sub_state2", "operation_mode.service_modes",
                           "option.grade_id", "option.id", "fuelling_volume",
                           "fuelling_money", "attendant_accaunt_id",
                           "option.nozzle_id", "option.nozzle_tag_reader_id"}
    BY ParametersRead
  <2>4. fp_status_3(has, matched) = fp_status_1(has) \cup read
    BY DEF fp_status_3, Reads
  <2>5. f \in fp_status_1(has) <=> f \in StatusNames(has) \cup {"grade_id"}
    BY DEF StatusNames, StateNames, fp_status_1, fp_state
  <2> HIDE DEF read
  <2>6. f \in read <=>
            f \in {"sub_state2", "fuelling_volume", "fuelling_money", "attendant_accaunt_id",
                   "operation_mode.service_modes", "option.grade_id"}
    BY <1>1, <2>3
  <2>7. f \in names(matched) <=>
            f \in StatusNames(has) \cup {"grade_id"}
                  \cup {"sub_state2", "fuelling_volume", "fuelling_money",
                        "attendant_accaunt_id", "operation_mode.service_modes",
                        "option.grade_id"}
    BY <1>1
  <2> QED
    BY <2>2, <2>4, <2>5, <2>6, <2>7
<1> QED
  BY <1>2, <1>3, <1>4, <1>5, <1>6, <1>7 DEF AnswersOfFp

LEMMA AnswersTell ==
    ASSUME kind \in Kinds, NEW has \in SUBSET Fields[kind], NEW a \in Answers(kind, has),
           NEW f \in has \ (LostOf \cup UntoldOf)
    PROVE  f \in a.tells <=> f \in a.names
<1>1. CASE kind = "fp"
  BY <1>1, FpAnswersTell DEF Answers
<1>2. CASE kind \in {"general", "service", "fuelling", "group", "limits"}
  BY <1>2 DEF Answers, Answer, fc_gen_par_set_reply_ex, service_mode_fc_parameters,
     fuelling_mode_fc_parameters, fuelling_mode_group_param, global_fuelling_limits,
     PSSDispenceLimits
<1>3. CASE kind \in {"tg", "pp"}
  BY <1>3 DEF Answers, Answer, tgs_tg_parametars, tg_status, tg_status_1_mult,
     price_pole_status
<1>4. CASE kind = "tank"
  BY <1>4 DEF Answers, Answer, PSSTank, tg_data
<1>5. CASE kind = "status"
  <2>1. f \in PSSFcStatus
    BY <1>5 DEF Fields
  <2> QED
    BY <1>5, <2>1 DEF Answers, Answer, PSSFcStatus, fc_status_reply, fc_price_set_status,
       fc_price_set, fc_operation_mode_status
<1>6. CASE kind = "functions"
  <2>1. f \in PSSGeneralFunctions
    BY <1>6 DEF Fields
  <2> QED
    BY <1>6, <2>1 DEF Answers, Answer, PSSGeneralFunctions, grade_texts, fc_price_set
<1>7. CASE kind \in {"tgsd", "server", "receipts", "terminal"}
  BY <1>7 DEF Answers
<1> QED
  BY <1>1, <1>2, <1>3, <1>4, <1>5, <1>6, <1>7 DEF Kinds, Settings, Devices, Others

-----------------------------------------------------------------------------
(* Whatever points of sale ask and links record, with restarts at any      *)
(* point, an entry holds what was last asked of each of its fields, but    *)
(* for what the code loses and for requests that overlap on one entry      *)
(* (change_*, install_*, set_*_by_id; the writer and the reader of the     *)
(* file).                                                                  *)
THEOREM DataAreAsAsked == Spec => []HeldAsAsked
<1>1. IInv => HeldAsAsked
  <2> SUFFICES ASSUME IInv, NEW i \in 1 .. count
               PROVE  units[i].lapped \/ Agree(units[i].has, units[i].ask, LostOf)
    BY DEF HeldAsAsked
  <2>1. i \in DOMAIN units
    BY Ranges DEF IInv
  <2> QED
    BY <2>1 DEF IInv, Holding, Holds
<1> QED
  BY <1>1, Always, PTL

(* Each answer about an entry, in each of its versions, tells of what the  *)
(* answer is about what was last asked, under the same conditions and but  *)
(* for four fields of a fuelling point (parse_fp_install_data_req,         *)
(* parse_fp_status_req and the answers to the other requests).             *)
THEOREM AnswersAreAsAsked == Spec => []ToldAsAsked
<1>1. IInv => ToldAsAsked
  <2> SUFFICES ASSUME IInv, NEW i \in 1 .. count, ~units[i].lapped,
                      NEW a \in Answers(kind, units[i].has)
               PROVE  Agree(units[i].has \cap a.tells, units[i].ask \cap a.names,
                            LostOf \cup UntoldOf)
    BY DEF ToldAsAsked
  <2> DEFINE has == units[i].has
             ask == units[i].ask
             E == LostOf \cup UntoldOf
  <2>1. i \in DOMAIN units /\ units[i] \in Entry
    BY Ranges DEF IInv
  <2>2. kind \in Kinds /\ setup.fields \subseteq Fields[kind]
    BY SetupTypes DEF IInv, Types
  <2>3. has \in SUBSET Fields[kind]
    BY <2>1, <2>2 DEF Entry
  <2>4. \A f : f \notin LostOf => (f \in has <=> f \in ask)
    <3>1. Agree(has, ask, LostOf)
      BY <2>1 DEF IInv, Holding, Holds
    <3> QED
      BY <3>1 DEF Agree
  <2> HIDE DEF has, ask
  <2>5. \A f \in has \ E : f \in a.tells <=> f \in a.names
    BY <2>2, <2>3, AnswersTell DEF has
  <2> HIDE DEF E
  <2>6. \A f : f \in (has \cap a.tells) \ E <=> f \in (ask \cap a.names) \ E
    BY <2>4, <2>5 DEF E
  <2>7. (has \cap a.tells) \ E = (ask \cap a.names) \ E
    BY <2>6
  <2> QED
    BY <2>7 DEF Agree, has, ask, E
<1> QED
  BY <1>1, Always, PTL

(* With no request under way and no change left unsaved, a restart finds   *)
(* the data as it is, whichever thread saved last (save_pss_data).         *)
THEOREM FileIsUpToDate == Spec => []FileFollows
<1>1. IInv => FileFollows
  BY DEF IInv, Current, FileFollows, Idle, Saving
<1> QED
  BY <1>1, Always, PTL

(* The devices in use are those whose installation was acknowledged, each  *)
(* once, and FcInstallStatus tells them (install_new_*, delete_*,          *)
(* clear_install_data, send_fc_install_status).                            *)
THEOREM InstalledAreListed == Spec => []ListedAsInstalled
<1>1. IInv => ListedAsInstalled
  <2> SUFFICES ASSUME IInv, ~hidden
               PROVE  /\ {units[i].id : i \in 1 .. count} = installed
                      /\ \A i, j \in 1 .. count : units[i].id = units[j].id => i = j
                      /\ send_fc_install_status = IF kind \in Told THEN installed ELSE {}
    BY DEF ListedAsInstalled
  <2>1. /\ {units[i].id : i \in 1 .. count} = installed
        /\ \A i, j \in 1 .. count : units[i].id = units[j].id => i = j
    BY DEF IInv, Listing
  <2>2. CASE kind \in Told
    BY <2>1, <2>2 DEF send_fc_install_status, id_by_index, device_count
  <2>3. CASE kind \notin Told
    <3>1. \A x : x \notin send_fc_install_status
      BY <2>3 DEF send_fc_install_status, id_by_index
    <3>2. send_fc_install_status = {}
      BY <3>1
    <3> QED
      BY <2>1, <2>3, <3>2
  <2> QED
    BY <2>1, <2>2, <2>3
<1> QED
  BY <1>1, Always, PTL
=============================================================================
