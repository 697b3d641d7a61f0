------------------------------- MODULE PssTables -------------------------------
(***************************************************************************)
(* The fields of pss's own data (pss.h) and what every stage of their way  *)
(* does with them: the requests of the points of sale (pss_parse.c), the   *)
(* answers that tell them, and the writer and the reader of the XML file   *)
(* (pss_xml.c).  A repeated unit (a fuelling point's grade option, tank    *)
(* connection, operation mode and transactions, a pole's price position)   *)
(* stands here once.                                                       *)
(***************************************************************************)
EXTENDS Naturals, Sequences, FiniteSets

(* The structures of pss.h.                                                *)
PSSGeneralParams ==
    {"price_increase_delay", "price_decrease_delay", "default_language_code",
     "disable_fp_totals_error", "enable_demo_encription", "currency_code",
     "fc_pump_totals_handling_mode", "fc_shift_no", "vat_rate"}
PSSServiceMode ==
    {"auto_autorize_limit", "max_pre_auth_time", "max_nz_lay_down_time", "zero_trans_to_pos",
     "money_due_in_trans_buffer_status", "min_trans_vol", "min_trans_money",
     "sup_trans_buffer_size", "unsup_trans_buffer_size", "store_at_pre_authorize",
     "vol_in_trans_buffer_status", "authorize_at_mode_selection",
     "mno_consecutive_zero_trans", "auto_clear_trans_delay_time", "pump_light_mode",
     "stop_fp_on_vehicle_tag", "use_vehicle_tag_reading_button",
     "auto_unlock_trans_delay_time"}
PSSFuellingMode ==
    {"fuelling_type", "max_time_to_reach_min_limit", "max_time_without_progress",
     "max_trans_volume", "max_trans_money", "max_fuelling_time",
     "max_preset_vol_overrun_err_limit", "clr_display_delay_time",
     "clr_display_when_cur_tr_disappear", "min_sub_pump_runtime_before_start",
     "max_trans_volume_e", "max_trans_money_e"}
(* The fuelling mode of a grade with one decimal digit and of one with two *)
PSSFuellingModeGroup == {"mode_of_low_grade", "mode_of_high_grade"}
PSSDispenceLimits == {"global_money_limit", "global_volume_limit"}

PSSGradeOption == {"option.id", "option.grade_id", "option.tank_connections",
                   "option.nozzle_id", "option.nozzle_tag_reader_id"}
PSSPumpIntDecimalPositions == {"in_price", "in_volume", "in_money", "in_volume_total",
                               "in_money_total"}
PSSOperationMode == {"operation_mode.type", "operation_mode.service_modes"}
PSSTransactions == {"transaction.trans_seq_no", "transaction.sm_id",
                    "transaction.trans_lock_id", "transaction.flags",
                    "transaction.grade_id", "transaction.money", "transaction.volume",
                    "last_trans_seq_no"}
PSSPresetData == {"preset.pos_id", "preset.sm_id", "preset.fmg_id", "preset.pg_id",
                  "preset.valid_grades", "preset.grade_id", "preset.preset_type",
                  "preset.preset_value"}
InstalledOfFp ==
    {"pss_port_no", "interface_type_general", "interface_type_protocol",
     "pss_ext_protocol_id", "phisical_address_type", "phisical_address",
     "phisical_address_port", "device_sub_address", "config_string",
     "nominal_normal_speed", "nominal_high_speed", "high_speed_trigger_level"}
    \cup PSSGradeOption \cup PSSPumpIntDecimalPositions
RuntimeOfFp ==
    {"server_device_id", "operation_mode_no", "limits.floor_limit_margin", "is_close",
     "sm_id", "main_state", "sub_state", "sub_state2", "locked_id", "grade_id",
     "fuelling_volume", "fuelling_money", "attendant_accaunt_id", "volume_total",
     "money_total", "option.volume_total", "option.money_total"}
    \cup PSSTransactions \cup PSSPresetData
PSSFuellingPoint == InstalledOfFp \cup PSSOperationMode \cup RuntimeOfFp
PSSTankGauge == {"server_device_id", "pss_port_no", "interface_type", "phisical_address",
                 "phisical_sub_address", "tank_id", "tank_height", "first_point", "points",
                 "main_state", "sub_state"}
PSSTankGaugeSubDevice == {"interface_type", "pss_channel_no", "main_address",
                          "sub_address", "phisical_sub_address", "sub_dev_ids"}
PSSPricePole == {"server_device_id", "pss_port_no", "interface_type", "phisical_address",
                 "position.option_no", "position.fc_price_group_id",
                 "position.fc_grade_id", "main_state", "sub_state"}
PSSTank == {"height", "volume", "weight", "density", "temperature", "waterlevel", "online"}
PSSServerDevice == {"device_type", "ip_address", "port", "timeout", "guid", "units"}
PSSFcStatus == {"fc_status_1_flags", "fc_status_2_flags", "fc_service_msg_seq_no",
                "fc_master_reset_date_and_time", "fc_master_reset_code",
                "fc_reset_date_and_time", "fc_reset_code", "fc_price_set_id",
                "fc_price_set_date_and_time", "fc_operation_mode_no",
                "fc_operation_mode_date_and_time"}
PSSGeneralFunctions == {"grade.name", "price.grade_id", "price.price"}
PSSReceipts == {"line.definition", "header.line_ids", "format.line_ids"}
PSSPaymentTerminal == {"server_device_id", "pss_port_no", "interface_type",
                       "phisical_address", "select_options"}

Settings == {"general", "service", "fuelling", "group", "limits"}
Devices == {"fp", "tg", "tgsd", "pp"}
Others == {"server", "tank", "status", "functions", "receipts", "terminal"}
Kinds == Settings \cup Devices \cup Others

Fields == [general |-> PSSGeneralParams, service |-> PSSServiceMode,
           fuelling |-> PSSFuellingMode, group |-> PSSFuellingModeGroup,
           limits |-> PSSDispenceLimits, fp |-> PSSFuellingPoint, tg |-> PSSTankGauge,
           tgsd |-> PSSTankGaugeSubDevice, pp |-> PSSPricePole, tank |-> PSSTank,
           server |-> PSSServerDevice, status |-> PSSFcStatus, functions |-> PSSGeneralFunctions,
           receipts |-> PSSReceipts, terminal |-> PSSPaymentTerminal]

(* Two tables in one (of a kind of both, the first's).                     *)
s ++ t == [k \in DOMAIN s \cup DOMAIN t |-> IF k \in DOMAIN s THEN s[k] ELSE t[k]]

(* parse_pss_ascii keeps a text only when it is shorter than its field.    *)
Texts == {"default_language_code", "currency_code", "fc_shift_no", "option.nozzle_id",
          "config_string"}
-----------------------------------------------------------------------------
(* change_FcParameters: the fields that a request for a parameter set can  *)
(* name, and those among them that it changes.                             *)
change_fc_parameters == PSSGeneralParams
change_service_mode_parameters == PSSServiceMode \ {"auto_unlock_trans_delay_time"}
change_fuelling_mode_parameters == PSSFuellingMode \ {"fuelling_type"}
(* The id of a grade is sent as a decimal number and read as a binary one. *)
change_fuelling_mode_group_parameters == {"mode_of_low_grade"}
(* Mutant: the limit of the volume is read and dropped.                    *)
change_global_fuelling_limits_parameters_NoVolume == {"global_money_limit"}
change_global_fuelling_limits_parameters == {"global_money_limit", "global_volume_limit"}

Named == [general |-> PSSGeneralParams,
          service |-> PSSServiceMode \ {"auto_unlock_trans_delay_time"},
          fuelling |-> PSSFuellingMode, group |-> PSSFuellingModeGroup,
          limits |-> PSSDispenceLimits]
Changes == [general |-> change_fc_parameters, service |-> change_service_mode_parameters,
            fuelling |-> change_fuelling_mode_parameters,
            group |-> change_fuelling_mode_group_parameters,
            limits |-> change_global_fuelling_limits_parameters]

(* The forms of an installation: the fields each carries and, among them,  *)
(* the ones it sets.                                                       *)
fp_v0 == {"interface_type_general", "pss_port_no", "phisical_address", "device_sub_address",
          "option.id", "option.grade_id"}
fp_v1 == fp_v0 \cup {"option.tank_connections"}
fp_v2 == fp_v0 \cup {"option.tank_connections"}
(* Version 3: by a local or by an IP address, and with FpGradeOptions or   *)
(* with FpGradeOptionsPars.                                                *)
fp_address_v3(local) ==
    {"pss_ext_protocol_id", "phisical_address", "device_sub_address"}
    \cup (IF local THEN {"phisical_address_type"} ELSE {"phisical_address_port"})
(* The id of the option only serves to find its place.                     *)
fp_grade_options == {"option.grade_id", "option.tank_connections"}
fp_grade_option_pars == {"option.id", "option.grade_id", "option.tank_connections",
                         "option.nozzle_id", "option.nozzle_tag_reader_id"}
fp_v3 == {"interface_type_general", "pss_port_no", "interface_type_protocol",
          "config_string", "nominal_normal_speed", "nominal_high_speed",
          "high_speed_trigger_level"} \cup PSSPumpIntDecimalPositions
install_tank_gauge == {"interface_type", "pss_port_no", "phisical_address",
                       "phisical_sub_address"}
install_tg_ext_sub_dev == {"interface_type", "pss_channel_no", "main_address",
                           "sub_address", "phisical_sub_address", "sub_dev_ids"}
install_price_pole == {"interface_type", "pss_port_no", "phisical_address",
                       "position.option_no", "position.fc_price_group_id",
                       "position.fc_grade_id"}

Form(carries, sets) == [carries |-> carries, sets |-> sets]
Forms ==
    [fp |-> {Form(f, f) : f \in {fp_v0, fp_v1, fp_v2}}
            \cup {Form(fp_v3 \cup fp_address_v3(local) \cup fp_grade_option_pars,
                       fp_v3 \cup fp_address_v3(local) \cup fp_grade_option_pars) :
                     local \in BOOLEAN}
            \cup {Form(fp_v3 \cup fp_address_v3(TRUE) \cup fp_grade_options \cup {"option.id"},
                       fp_v3 \cup fp_address_v3(TRUE) \cup fp_grade_options)},
     tg |-> {Form(f, f) : f \in {install_tank_gauge, install_tank_gauge \cup {"tank_id"}}},
     tgsd |-> {Form(install_tg_ext_sub_dev, install_tg_ext_sub_dev)},
     pp |-> {Form(install_price_pole, install_price_pole)}]

(* What an installation sets besides: a pole is closed and online.         *)
InstallAdds == [fp |-> {}, tg |-> {}, tgsd |-> {}, pp |-> {"main_state", "sub_state"}]
-----------------------------------------------------------------------------
(* What the answers tell of an entry.                                      *)
fc_gen_par_set_reply_ex == PSSGeneralParams
service_mode_fc_parameters == PSSServiceMode \ {"auto_unlock_trans_delay_time"}
fuelling_mode_fc_parameters == PSSFuellingMode
fuelling_mode_group_param == PSSFuellingModeGroup
(* Mutant: both limits are answered with the volume.                       *)
global_fuelling_limits_Mixed == {"global_volume_limit"}
global_fuelling_limits == {"global_money_limit", "global_volume_limit"}
fp_install_data_head ==
    {"interface_type_general", "interface_type_protocol", "pss_port_no",
     "pss_ext_protocol_id", "phisical_address_type"}
(* A local address is told with its own upper bits as the sub address.     *)
fp_install_data_address(local) ==
    {"phisical_address"} \cup (IF local THEN {} ELSE {"phisical_address_port", "device_sub_address"})
(* FpGradeOptionsPars: "? :" binds weaker than "+", so that one parameter  *)
(* is announced for each option that has any.                              *)
fp_install_data_options(has) ==
    LET pars == has \cap {"option.tank_connections", "option.nozzle_id",
                          "option.nozzle_tag_reader_id"}
        first == IF "option.tank_connections" \in pars THEN {"option.tank_connections"}
                 ELSE IF "option.nozzle_id" \in pars THEN {"option.nozzle_id"}
                 ELSE pars
    IN  {"option.id", "option.grade_id"} \cup first
(* FpGradeOptions.                                                         *)
fp_install_data_grade_options == {"option.id", "option.grade_id", "option.tank_connections"}
fp_install_data_rest == {"config_string", "nominal_normal_speed", "nominal_high_speed",
                         "high_speed_trigger_level"} \cup PSSPumpIntDecimalPositions
fp_install_data(has) ==
    fp_install_data_head \cup fp_install_data_address("phisical_address_type" \in has)
    \cup fp_install_data_options(has) \cup fp_install_data_rest
tgs_tg_parametars == {"first_point", "points", "tank_height"}
tg_status == {"main_state", "sub_state"}
(* All gauges at once: version 0 puts two bytes in front of each gauge's   *)
(* length, so that nothing can be read, version 1 a constant main state.   *)
tg_status_1_mult == {"sub_state"}
price_pole_status == {"main_state", "sub_state"}
tg_data == {"height", "waterlevel", "volume", "temperature", "weight", "density"}

(* The totals, with the money of every grade from version 1 on.            *)
fp_grade_totals_set(version) ==
    {"volume_total", "money_total", "option.id", "option.grade_id", "option.volume_total"}
    \cup (IF version > 0 THEN {"option.money_total"} ELSE {})

(* The unpaid sales, with their grade from version 1 on, of one point and  *)
(* of all.                                                                 *)
fp_sup_trans_buffer_status(version) ==
    {"transaction.trans_seq_no", "transaction.sm_id", "transaction.trans_lock_id",
     "transaction.flags", "transaction.money", "transaction.volume"}
    \cup (IF version > 0 THEN {"transaction.grade_id"} ELSE {})
(* Mutant: the list of all points leaves out who has locked a sale.        *)
fp_sup_trans_buffer_status_mult_NoLock(version) ==
    fp_sup_trans_buffer_status(version) \ {"transaction.trans_lock_id"}
fp_sup_trans_buffer_status_mult(version) ==
    {"transaction.trans_seq_no", "transaction.sm_id", "transaction.trans_lock_id",
     "transaction.flags", "transaction.money", "transaction.volume"}
    \cup (IF version > 0 THEN {"transaction.grade_id"} ELSE {})
fp_sup_trans == {"transaction.volume", "transaction.money"}
fp_fuelling_data == {"fuelling_volume", "fuelling_money"}
(* The grades with their prices, by the first service mode of the first    *)
(* operation mode; without one there are no grades either.                 *)
fp_info(has) == IF "operation_mode.service_modes" \in has THEN {"option.grade_id"} ELSE {}

(* The status of a point: closed hides the state behind it.                *)
fp_state(has) == IF "is_close" \in has THEN {"is_close"} ELSE {"is_close", "main_state"}
fp_status_0(has) == fp_state(has) \cup {"sm_id", "sub_state", "locked_id"}
fp_status_1(has) == fp_state(has) \cup {"sm_id", "sub_state", "locked_id", "grade_id"}
fp_status_2(has) == fp_state(has) \cup {"sm_id", "sub_state", "locked_id"}

(* Version 3 goes on with parameters: those that are always there, those   *)
(* of values above zero, the number of the last operation mode in the      *)
(* place of the one in use, and those of the option of the current grade   *)
(* (matched).  More than it announces are not read.                        *)
One(fields, there) == IF there THEN <<fields>> ELSE <<>>
fp_status_3_parameters(has, matched) ==
    <<{"sub_state2"}, {"operation_mode.service_modes"}, {"option.grade_id"}>>
    \o One({"option.id"}, matched)
    \o One({"fuelling_volume"}, "fuelling_volume" \in has)
    \o One({"fuelling_money"}, "fuelling_money" \in has)
    \o One({"attendant_accaunt_id"}, "attendant_accaunt_id" \in has)
    \o <<{}>>
    \o One({"operation_mode.service_modes"}, "operation_mode.service_modes" \in has)
    \o One({"option.nozzle_id"}, matched /\ "option.nozzle_id" \in has)
    \o One({"option.nozzle_tag_reader_id"}, matched /\ "option.nozzle_tag_reader_id" \in has)
fp_status_3_announced(has) ==
    4 + Cardinality(has \cap {"fuelling_volume", "fuelling_money", "attendant_accaunt_id",
                              "operation_mode.service_modes", "grade_id"})
fp_status_3(has, matched) ==
    LET given == fp_status_3_parameters(has, matched)
        read == {i \in DOMAIN given : i <= fp_status_3_announced(has)}
    IN  fp_status_1(has) \cup UNION {given[i] : i \in read}

(* The option is that of the current grade, or of another one.             *)
Matches(has) == {FALSE} \cup (IF {"grade_id", "option.grade_id"} \subseteq has THEN {TRUE} ELSE {})

fc_status_reply == {"fc_status_1_flags", "fc_status_2_flags", "fc_service_msg_seq_no",
                    "fc_master_reset_date_and_time", "fc_master_reset_code",
                    "fc_reset_date_and_time", "fc_reset_code"}
fc_price_set_status == {"fc_price_set_id", "fc_price_set_date_and_time"}
fc_operation_mode_status == {"fc_operation_mode_no", "fc_operation_mode_date_and_time"}
(* The price set, with its date from version 2 on.                         *)
fc_price_set(version) ==
    {"fc_price_set_id", "price.grade_id", "price.price"}
    \cup (IF version > 0 THEN {"fc_price_set_date_and_time"} ELSE {})
grade_texts == {"grade.name"}

(* The answers about an entry: the fields that each is to tell, and those  *)
(* of them that it tells of one that has the fields has.                   *)
Answer(names, tells) == [names |-> names, tells |-> tells]
StateNames(has) == IF "is_close" \in has THEN {"is_close"} ELSE {"is_close", "main_state"}
StatusNames(has) == StateNames(has) \cup {"sm_id", "sub_state", "locked_id"}
(* The port is that of an IP address; a file may hold one beside a local   *)
(* address.                                                                *)
InstalledNames(has) ==
    IF "phisical_address_type" \in has THEN InstalledOfFp \ {"phisical_address_port"}
    ELSE InstalledOfFp
SaleNames == {f \in PSSTransactions : f \notin {"last_trans_seq_no", "transaction.grade_id"}}
TotalNames == {"volume_total", "money_total", "option.id", "option.grade_id",
               "option.volume_total"}
AnswersOfFp(has) ==
    {Answer(InstalledNames(has), fp_install_data(has)),
     Answer(fp_install_data_grade_options, fp_install_data_grade_options),
     Answer(TotalNames, fp_grade_totals_set(0)),
     Answer(TotalNames \cup {"option.money_total"}, fp_grade_totals_set(1)),
     Answer(fp_sup_trans, fp_sup_trans), Answer(fp_fuelling_data, fp_fuelling_data),
     Answer(fp_info(has), fp_info(has)),
     Answer(SaleNames, fp_sup_trans_buffer_status(0)),
     Answer(SaleNames, fp_sup_trans_buffer_status_mult(0)),
     Answer(SaleNames \cup {"transaction.grade_id"}, fp_sup_trans_buffer_status(3)),
     Answer(SaleNames \cup {"transaction.grade_id"}, fp_sup_trans_buffer_status_mult(3)),
     Answer(StatusNames(has), fp_status_0(has)), Answer(StatusNames(has), fp_status_2(has)),
     Answer(StatusNames(has) \cup {"grade_id"}, fp_status_1(has))}
    \cup {Answer(StatusNames(has)
                 \cup {"grade_id", "sub_state2", "fuelling_volume", "fuelling_money",
                       "attendant_accaunt_id", "operation_mode_no",
                       "operation_mode.service_modes", "option.grade_id"}
                 \cup (IF matched THEN {"option.id", "option.nozzle_id",
                                        "option.nozzle_tag_reader_id"} ELSE {}),
                 fp_status_3(has, matched)) : matched \in Matches(has)}

Answers(kind, has) ==
    CASE kind = "general" -> {Answer(PSSGeneralParams, fc_gen_par_set_reply_ex)}
      [] kind = "service" -> {Answer(service_mode_fc_parameters, service_mode_fc_parameters)}
      [] kind = "fuelling" -> {Answer(PSSFuellingMode, fuelling_mode_fc_parameters)}
      [] kind = "group" -> {Answer(PSSFuellingModeGroup, fuelling_mode_group_param)}
      [] kind = "limits" -> {Answer(PSSDispenceLimits, global_fuelling_limits)}
      [] kind = "fp" -> AnswersOfFp(has)
      [] kind = "tg" -> {Answer(tgs_tg_parametars, tgs_tg_parametars),
                         Answer({"main_state", "sub_state"}, tg_status),
                         Answer({"sub_state"}, tg_status_1_mult)}
      [] kind = "pp" -> {Answer({"main_state", "sub_state"}, price_pole_status)}
      [] kind = "tank" -> {Answer(PSSTank \ {"online"}, tg_data)}
      [] kind = "status" -> {Answer(fc_status_reply, fc_status_reply),
                             Answer(fc_price_set_status, fc_price_set_status),
                             Answer(fc_price_set_status, fc_price_set(2)),
                             Answer(fc_operation_mode_status, fc_operation_mode_status)}
      [] kind = "functions" -> {Answer({"grade.name"}, grade_texts),
                                Answer({"price.grade_id", "price.price"}, fc_price_set(2))}
      [] OTHER -> {}
-----------------------------------------------------------------------------
(* What the writer of the file puts into it.                               *)
add_general_params == PSSGeneralParams
add_service_modes == PSSServiceMode
add_fuelling_modes == PSSFuellingMode
add_fuelling_mode_groups == PSSFuellingModeGroup
add_dispence_limits == PSSDispenceLimits
add_fp_grade_options == {"option.id", "option.grade_id", "option.volume_total",
                         "option.money_total", "option.nozzle_id",
                         "option.nozzle_tag_reader_id"}
add_fp_tank_connections == {"option.tank_connections"}
add_fp_valid_grades == {"preset.valid_grades"}
add_fp_preset_data == PSSPresetData \ {"preset.valid_grades"}
add_fp_transactions == PSSTransactions
add_fp_decimal_positions == PSSPumpIntDecimalPositions
add_fp_operation_modes == {"operation_mode.service_modes"}
add_fp_limits == {"limits.floor_limit_margin"}
add_fuelling_points ==
    {"pss_port_no", "server_device_id", "interface_type_general", "interface_type_protocol",
     "pss_ext_protocol_id", "phisical_address", "phisical_address_type",
     "phisical_address_port", "device_sub_address", "is_close", "sm_id", "main_state",
     "sub_state", "sub_state2", "locked_id", "grade_id", "fuelling_volume",
     "fuelling_money", "attendant_accaunt_id", "operation_mode_no", "volume_total",
     "money_total", "config_string", "nominal_normal_speed", "nominal_high_speed",
     "high_speed_trigger_level"}
add_tank_gauges == {"pss_port_no", "server_device_id", "interface_type", "phisical_address",
                    "phisical_sub_address", "tank_id", "tank_height", "main_state",
                    "sub_state"}
add_tank_gauge_sub_devices == {"interface_type", "pss_channel_no", "main_address",
                               "sub_address", "phisical_sub_address", "sub_dev_ids"}
add_price_position_options == {"position.option_no", "position.fc_price_group_id",
                               "position.fc_grade_id"}
add_price_poles == {"pss_port_no", "server_device_id", "interface_type", "phisical_address",
                    "main_state", "sub_state"}
add_tanks == PSSTank
add_server_devices == {"device_type", "ip_address", "port", "timeout", "guid"}
add_server_device_unts == {"units"}
add_fc_status == PSSFcStatus
add_grades == {"grade.name"}
add_price_groups == {"price.grade_id", "price.price"}
add_receipt_lines == {"line.definition"}
add_receipt_headers == {"header.line_ids"}
add_receipt_formats == {"format.line_ids"}
add_payment_terminals == {"server_device_id", "pss_port_no", "interface_type",
                          "phisical_address", "select_options"}

add_general_functions == [functions |-> add_grades \cup add_price_groups]
add_dispence_control ==
    [service |-> add_service_modes, fuelling |-> add_fuelling_modes,
     group |-> add_fuelling_mode_groups, limits |-> add_dispence_limits]
add_payment_control ==
    [receipts |-> add_receipt_lines \cup add_receipt_headers \cup add_receipt_formats]
add_general_configuration ==
    [general |-> add_general_params] ++ add_general_functions ++ add_dispence_control
    ++ add_payment_control
add_devices ==
    [fp |-> add_fuelling_points \cup add_fp_grade_options \cup add_fp_tank_connections
            \cup add_fp_valid_grades \cup add_fp_preset_data \cup add_fp_transactions
            \cup add_fp_decimal_positions \cup add_fp_operation_modes \cup add_fp_limits,
     tg |-> add_tank_gauges, tgsd |-> add_tank_gauge_sub_devices,
     pp |-> add_price_poles \cup add_price_position_options, tank |-> add_tanks,
     server |-> add_server_devices \cup add_server_device_unts,
     terminal |-> add_payment_terminals]
(* The settings of the log are given by the command line, and not written. *)
add_common == [status |-> add_fc_status]

Saves == add_common ++ add_general_configuration ++ add_devices
-----------------------------------------------------------------------------
(* What the reader of the file takes from it.                              *)
parse_general_params == PSSGeneralParams
parse_service_modes == PSSServiceMode \ {"money_due_in_trans_buffer_status"}
parse_fuelling_modes == PSSFuellingMode
parse_fuelling_mode_groups == PSSFuellingModeGroup
parse_dispense_limits == PSSDispenceLimits
parse_fp_tank_connections == {"option.tank_connections"}
parse_fp_transactions == PSSTransactions
(* Its tags are GradeId, where the writer's are GradeID.                   *)
parse_fp_preset_valid_grades == {}
parse_fp_preset_data == {"preset.pos_id", "preset.fmg_id", "preset.pg_id",
                         "preset.preset_type", "preset.preset_value", "preset.sm_id"}
parse_fp_grade_options == {"option.id", "option.grade_id", "option.nozzle_id",
                           "option.nozzle_tag_reader_id", "option.volume_total",
                           "option.money_total"}
parse_fp_decimal_positions == PSSPumpIntDecimalPositions
parse_fp_operation_modes == {"operation_mode.service_modes"}
parse_fp_limits == {"limits.floor_limit_margin"}
parse_fuelling_point ==
    {"pss_port_no", "server_device_id", "interface_type_general", "interface_type_protocol",
     "pss_ext_protocol_id", "phisical_address", "phisical_address_type",
     "phisical_address_port", "device_sub_address", "is_close", "sm_id", "main_state",
     "sub_state", "sub_state2", "locked_id", "grade_id", "fuelling_volume",
     "fuelling_money", "attendant_accaunt_id", "config_string", "nominal_normal_speed",
     "nominal_high_speed", "high_speed_trigger_level", "operation_mode_no",
     "volume_total", "money_total"}
parse_tank_gauge == {"pss_port_no", "server_device_id", "interface_type",
                     "phisical_address", "tank_height", "main_state", "sub_state",
                     "phisical_sub_address", "tank_id"}
(* Its tags are SubDeviceID, where the writer's are SubDeviceId.           *)
parse_tank_gauge_sub_device == {"interface_type", "pss_channel_no", "main_address",
                                "sub_address", "phisical_sub_address"}
parse_price_position_options == {"position.option_no", "position.fc_price_group_id",
                                 "position.fc_grade_id"}
parse_price_pole == {"pss_port_no", "server_device_id", "interface_type",
                     "phisical_address", "main_state", "sub_state"}
parse_tanks == PSSTank
parse_server_devices == {"device_type", "ip_address", "port", "timeout", "guid"}
parse_server_device_units == {"units"}
parse_fc_status == PSSFcStatus
parse_grades == {"grade.name"}
parse_price_groups == {"price.grade_id", "price.price"}
parse_receipt_lines == {"line.definition"}
parse_receipt_headers == {"header.line_ids"}
parse_receipt_formats == {"format.line_ids"}
parse_pt_select_options == {"select_options"}
parse_payment_terminal == {"pss_port_no", "server_device_id", "interface_type",
                           "phisical_address"}

parse_general_functions == [functions |-> parse_grades \cup parse_price_groups]
parse_dispence_control ==
    [service |-> parse_service_modes, fuelling |-> parse_fuelling_modes,
     group |-> parse_fuelling_mode_groups, limits |-> parse_dispense_limits]
parse_payment_control ==
    [receipts |-> parse_receipt_lines \cup parse_receipt_headers \cup parse_receipt_formats]
parse_general_configuration ==
    [general |-> parse_general_params] ++ parse_general_functions
    ++ parse_dispence_control ++ parse_payment_control
parse_devices ==
    [fp |-> parse_fuelling_point \cup parse_fp_tank_connections \cup parse_fp_transactions
            \cup parse_fp_preset_valid_grades \cup parse_fp_preset_data
            \cup parse_fp_grade_options \cup parse_fp_decimal_positions
            \cup parse_fp_operation_modes \cup parse_fp_limits,
     tg |-> parse_tank_gauge, tgsd |-> parse_tank_gauge_sub_device,
     pp |-> parse_price_pole \cup parse_price_position_options, tank |-> parse_tanks,
     server |-> parse_server_devices \cup parse_server_device_units,
     terminal |-> parse_payment_terminal \cup parse_pt_select_options]
parse_common == [status |-> parse_fc_status]

Loads == parse_common ++ parse_general_configuration ++ parse_devices

(* The field of the file that a field is read from.                        *)
ReadFrom(f) == IF f = "position.fc_grade_id" THEN "position.fc_price_group_id" ELSE f
=============================================================================
