---------------------------- MODULE MCPssSettings ----------------------------
EXTENDS PssSettings

CONSTANTS t1, t2

MCThreads == {t1, t2}
MCIds == {1, 2}

(* Every field of every kind alone, with one thread; with two threads, a   *)
(* pair of fields of each kind that is changed; and the arrays themselves, *)
(* with two ids and a third place.                                         *)
Pair == [general |-> {"vat_rate", "price_increase_delay"},
         service |-> {"max_pre_auth_time", "pump_light_mode"},
         fuelling |-> {"max_trans_volume", "max_trans_money"},
         group |-> PSSFuellingModeGroup, limits |-> PSSDispenceLimits,
         fp |-> {"option.tank_connections", "main_state"},
         tg |-> {"tank_height", "main_state"}, tgsd |-> {"sub_address"},
         pp |-> {"position.option_no", "main_state"}, tank |-> {"height", "online"},
         status |-> {"fc_price_set_id", "fc_operation_mode_no"},
         functions |-> {"price.price"}, receipts |-> {}, terminal |-> {}]

MCSetups ==
    {[kind |-> k, fields |-> {f}, threads |-> {t1}, ids |-> {1}, room |-> 2] :
        <<k, f>> \in {kf \in Kinds \X UNION {Fields[k] : k \in Kinds} : kf[2] \in Fields[kf[1]]}}
    \cup {[kind |-> k, fields |-> Pair[k], threads |-> {t1, t2}, ids |-> {1}, room |-> 2] :
              k \in Kinds \ {"server"}}
    \cup {[kind |-> k, fields |-> {}, threads |-> {t1, t2}, ids |-> {1, 2}, room |-> 3] :
              k \in Devices}
    \cup {[kind |-> "pp", fields |-> {"position.fc_price_group_id", "position.fc_grade_id"},
           threads |-> {t1}, ids |-> {1}, room |-> 2],
          [kind |-> "fp", fields |-> {"option.nozzle_id", "option.tank_connections"},
           threads |-> {t1}, ids |-> {1}, room |-> 2],
          [kind |-> "fp", fields |-> {"phisical_address_type", "phisical_address_port"},
           threads |-> {t1}, ids |-> {1}, room |-> 2],
          [kind |-> "server", fields |-> {"device_type", "units"},
           threads |-> {t1}, ids |-> {1, 2}, room |-> 2],
          [kind |-> "fp", threads |-> {t1}, ids |-> {1}, room |-> 2,
           fields |-> {"grade_id", "option.grade_id", "option.id", "fuelling_volume"}]}
=============================================================================
