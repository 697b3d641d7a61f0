----------------------------- MODULE ConfTables -----------------------------
(***************************************************************************)
(* The fields of the hardware server's configuration and what every stage  *)
(* of its way does with them: the parser of the administration socket,     *)
(* add_*_conf and update_*_conf, the copies that get_device_confs makes,   *)
(* the messages sent back, the XML file, and the parser of pss.            *)
(*                                                                         *)
(* The repeated units of a device (dispensers with their nozzles, tanks,   *)
(* price poles, sensors with their parameters) stand here with one each.   *)
(***************************************************************************)
EXTENDS Tlv

(* The structures of configuration.h.                                      *)
LibLogOptions == {"log.enable", "log.dir", "log.file_size", "log.save_days", "log.trace",
                  "log.system", "log.requests", "log.frames", "log.parsing"}
ConnOptions == {"conn.type", "conn.port", "conn.ip_address", "conn.ip_port", "conn.baudrate",
                "conn.byte_size", "conn.parity", "conn.stop_bits"}
TimeoutOptions == {"timeout.read", "timeout.write"}
DeviceHead == {"name", "port", "enable", "command_timeout", "interval", "module_name",
               "log_dir", "log_enable", "log_trace"}
DeviceSizes == {"file_size", "save_days"}
LibConfig == LibLogOptions \cup ConnOptions \cup TimeoutOptions
DCDecimalPointOptions == {"dp.price", "dp.volume", "dp.amount"}
DCLibConfig == LibConfig \cup DCDecimalPointOptions
               \cup {"counters_enable", "auto_start", "auto_payment", "full_tank_volume"}
               \cup {"disp.num", "disp.addr", "nozzle.num", "nozzle.grade"}
TgsLibConfig == LibConfig \cup {"tank.num", "tank.channel"}
PpcLibConfig == LibConfig \cup {"dp.price", "pole.num", "pole.grade", "pole.symbol_count"}
ScLibConfig == LibConfig \cup {"sensor.num", "sensor.addr", "param.num", "param.type"}
Profile == {"name", "enable", "guid", "access_level"}
CommonConf == {"server_name", "port", "log_dir", "log_enable", "log_trace", "file_size",
               "save_days", "conn_log_dir", "conn_log_enable", "conn_log_trace",
               "conn_log_frames", "conn_log_parsing", "conn_log_file_size",
               "conn_log_save_days", "profiles_enable"}

Devices == {"dc", "tgs", "ppc", "sc"}
Kinds == Devices \cup {"profile", "common"}

Fields == [dc |-> DeviceHead \cup DeviceSizes \cup DCLibConfig,
           tgs |-> DeviceHead \cup DeviceSizes \cup TgsLibConfig,
           ppc |-> DeviceHead \cup DeviceSizes \cup PpcLibConfig,
           sc |-> DeviceHead \cup DeviceSizes \cup ScLibConfig,
           profile |-> Profile,
           common |-> CommonConf]

-----------------------------------------------------------------------------
(* What the parser of the administration socket accepts.                   *)
ParseModuleLogSettingsPack ==
    Bytes({"log.enable", "log.trace", "log.system", "log.requests", "log.frames", "log.parsing"})
    ++ Texts({"log.dir"}) ++ Longs({"log.file_size", "log.save_days"})
ParseModuleConnSettingsPack ==
    Bytes({"conn.type", "conn.byte_size", "conn.stop_bits"}) ++ Words({"conn.ip_port"})
    ++ Texts({"conn.port", "conn.ip_address", "conn.parity"}) ++ Longs({"conn.baudrate"})
ParseModuleTimeoutSettingsPack == Longs({"timeout.read", "timeout.write"})
ParseDCModuleDPSettingsPack == Bytes({"dp.price", "dp.volume", "dp.amount"})
ParsePPModuleDPSettingsPack == Bytes({"dp.price"})

(* The number of a nozzle must have four bytes, of which the first is kept *)
ParseNozzleConfigurationPack == Longs({"nozzle.num"}) ++ Bytes({"nozzle.grade"})
ParseDispencerConfigurationPack ==
    Longs({"disp.num"}) ++ Bytes({"disp.addr"}) ++ ParseNozzleConfigurationPack
ParseTankConfigurationPack == Longs({"tank.num"}) ++ Bytes({"tank.channel"})
ParsePricePoleConfigurationPack == Bytes({"pole.num", "pole.grade", "pole.symbol_count"})
ParseSensorParamConfigurationPack == Bytes({"param.num", "param.type"})
ParseSensorConfigurationPack ==
    Longs({"sensor.num"}) ++ Bytes({"sensor.addr"}) ++ ParseSensorParamConfigurationPack

ParseDcModuleMappingPack == ParseDispencerConfigurationPack
ParseTgsModuleMappingPack == ParseTankConfigurationPack
ParsePpcModuleMappingPack == ParsePricePoleConfigurationPack
ParseScModuleMappingPack == ParseSensorConfigurationPack

ParseModulePacks == ParseModuleLogSettingsPack ++ ParseModuleConnSettingsPack
                    ++ ParseModuleTimeoutSettingsPack
(* The volume of a full tank must have one byte, of which four are read.   *)
ParseDcModuleSettingsPack ==
    ParseModulePacks ++ ParseDCModuleDPSettingsPack ++ ParseDcModuleMappingPack
    ++ Bytes({"counters_enable", "auto_start", "auto_payment", "full_tank_volume"})
ParseTgsModuleSettingsPack == ParseModulePacks ++ ParseTgsModuleMappingPack
ParsePpcModuleSettingsPack ==
    ParseModulePacks ++ ParsePPModuleDPSettingsPack ++ ParsePpcModuleMappingPack
ParseScModuleSettingsPack == ParseModulePacks ++ ParseScModuleMappingPack

(* The four kinds of device have a copy each of the parser of their first  *)
(* fields (HeadPack) and of the rest of the pack.                         *)
DcHeadPack == Texts({"name", "module_name"}) ++ Words({"port"}) ++ Bytes({"enable"})
           ++ Longs({"command_timeout", "interval"})
ParseDcConfPack == DcHeadPack ++ Texts({"log_dir"}) ++ Bytes({"log_enable", "log_trace"})
                ++ Longs({"file_size", "save_days"}) ++ ParseDcModuleSettingsPack
TgsHeadPack == Texts({"name", "module_name"}) ++ Words({"port"}) ++ Bytes({"enable"})
            ++ Longs({"command_timeout", "interval"})
ParseTgsConfPack == TgsHeadPack ++ Texts({"log_dir"}) ++ Bytes({"log_enable", "log_trace"})
                 ++ Longs({"file_size", "save_days"}) ++ ParseTgsModuleSettingsPack
PpcHeadPack == Texts({"name", "module_name"}) ++ Words({"port"}) ++ Bytes({"enable"})
            ++ Longs({"command_timeout", "interval"})
ParsePpcConfPack == PpcHeadPack ++ Texts({"log_dir"}) ++ Bytes({"log_enable", "log_trace"})
                 ++ Longs({"file_size", "save_days"}) ++ ParsePpcModuleSettingsPack
ScHeadPack == Texts({"name", "module_name"}) ++ Words({"port"}) ++ Bytes({"enable"})
           ++ Longs({"command_timeout", "interval"})
ParseScConfPack == ScHeadPack ++ Texts({"log_dir"}) ++ Bytes({"log_enable", "log_trace"})
                ++ Longs({"file_size", "save_days"}) ++ ParseScModuleSettingsPack
ParseClientProfilePack == Texts({"name", "guid"}) ++ Bytes({"enable", "access_level"})
ParseServerCommonSettingsPack ==
    Texts({"server_name", "log_dir", "conn_log_dir"}) ++ Words({"port"})
    ++ Bytes({"profiles_enable", "log_enable", "log_trace", "conn_log_enable",
              "conn_log_trace", "conn_log_frames", "conn_log_parsing"})
    ++ Longs({"file_size", "save_days", "conn_log_file_size", "conn_log_save_days"})

ServerParses == [dc |-> ParseDcConfPack, tgs |-> ParseTgsConfPack, ppc |-> ParsePpcConfPack,
                 sc |-> ParseScConfPack, profile |-> ParseClientProfilePack,
                 common |-> ParseServerCommonSettingsPack]

-----------------------------------------------------------------------------
(* What add_*_conf and update_*_conf copy into the store: neither the      *)
(* sizes of the device's own log nor the parameters of a serial line, nor  *)
(* the TCP port of the device.                                             *)
CopiedConn == {"conn.type", "conn.port", "conn.ip_address"}
CopiedLib == LibLogOptions \cup CopiedConn \cup TimeoutOptions

AddDc == DeviceHead \cup CopiedLib \cup DCDecimalPointOptions
         \cup {"counters_enable", "auto_start", "auto_payment", "full_tank_volume"}
         \cup {"disp.num", "disp.addr", "nozzle.num", "nozzle.grade"}
AddTgs == DeviceHead \cup CopiedLib \cup {"tank.num", "tank.channel"}
AddPpc == DeviceHead \cup CopiedLib
          \cup {"dp.price", "pole.num", "pole.grade", "pole.symbol_count"}
AddSc == DeviceHead \cup CopiedLib
         \cup {"sensor.num", "sensor.addr", "param.num", "param.type"}
AddProfile == {"name", "enable", "guid", "access_level"}
AddCopies == [dc |-> AddDc, tgs |-> AddTgs, ppc |-> AddPpc, sc |-> AddSc,
              profile |-> AddProfile]

UpdateDc == DeviceHead \cup CopiedLib \cup DCDecimalPointOptions
            \cup {"counters_enable", "auto_start", "auto_payment", "full_tank_volume"}
            \cup {"disp.num", "disp.addr", "nozzle.num", "nozzle.grade"}
UpdateTgs == DeviceHead \cup CopiedLib \cup {"tank.num", "tank.channel"}
UpdatePpc == DeviceHead \cup CopiedLib
             \cup {"dp.price", "pole.num", "pole.grade", "pole.symbol_count"}
(* Mutant: the types of the parameters are not copied.                     *)
UpdateSc_NoParamType == DeviceHead \cup CopiedLib
                        \cup {"sensor.num", "sensor.addr", "param.num"}
UpdateSc == DeviceHead \cup CopiedLib
            \cup {"sensor.num", "sensor.addr", "param.num", "param.type"}
UpdateProfile == {"name", "enable", "guid", "access_level"}
UpdateCommon == {"server_name", "port", "log_dir", "log_enable", "log_trace", "conn_log_dir",
                 "conn_log_enable", "conn_log_frames", "conn_log_parsing",
                 "conn_log_trace", "profiles_enable"}
UpdateCopies == [dc |-> UpdateDc, tgs |-> UpdateTgs, ppc |-> UpdatePpc, sc |-> UpdateSc,
                 profile |-> UpdateProfile, common |-> UpdateCommon]

(* What delete_*_conf clears: the fields that an update copies.            *)
DeleteDc == DeviceHead \cup CopiedLib \cup DCDecimalPointOptions
            \cup {"counters_enable", "auto_start", "auto_payment", "full_tank_volume"}
            \cup {"disp.num", "disp.addr", "nozzle.num", "nozzle.grade"}
DeleteTgs == DeviceHead \cup CopiedLib \cup {"tank.num", "tank.channel"}
DeletePpc == DeviceHead \cup CopiedLib
             \cup {"dp.price", "pole.num", "pole.grade", "pole.symbol_count"}
DeleteSc == DeviceHead \cup CopiedLib
            \cup {"sensor.num", "sensor.addr", "param.num", "param.type"}
DeleteClears == [dc |-> DeleteDc, tgs |-> DeleteTgs, ppc |-> DeletePpc, sc |-> DeleteSc]
-----------------------------------------------------------------------------
(* What get_device_confs copies for a reader: for all but the dispenser    *)
(* controllers neither the sizes of the logs nor the serial line.          *)
ConfsOfDc == DeviceHead \cup DeviceSizes \cup DCLibConfig
ReadLib == LibConfig \ {"log.file_size", "log.save_days", "conn.baudrate", "conn.byte_size",
                        "conn.parity", "conn.stop_bits"}
ConfsOfTgs == DeviceHead \cup ReadLib \cup {"tank.num", "tank.channel"}
ConfsOfPpc == DeviceHead \cup ReadLib
              \cup {"dp.price", "pole.num", "pole.grade", "pole.symbol_count"}
ConfsOfSc == DeviceHead \cup ReadLib
             \cup {"sensor.num", "sensor.addr", "param.num", "param.type"}
get_profiles_conf == {"name", "enable", "guid", "access_level"}
get_common_conf == {"server_name", "port", "log_dir", "log_enable", "log_trace", "file_size",
                    "save_days", "conn_log_dir", "conn_log_enable", "conn_log_frames",
                    "conn_log_parsing", "conn_log_trace", "conn_log_file_size",
                    "conn_log_save_days", "profiles_enable"}
Confs == [dc |-> ConfsOfDc, tgs |-> ConfsOfTgs, ppc |-> ConfsOfPpc, sc |-> ConfsOfSc,
          profile |-> get_profiles_conf, common |-> get_common_conf]

(* What the main loop and the thread of a device copy before they start    *)
(* and load its driver.                                                    *)
get_dc_conf == DeviceHead \cup DeviceSizes \cup LibConfig \cup DCDecimalPointOptions
               \cup {"counters_enable", "auto_start", "auto_payment", "full_tank_volume"}
               \cup {"disp.num", "disp.addr", "nozzle.num", "nozzle.grade"}
get_tgs_conf == DeviceHead \cup DeviceSizes \cup LibConfig \cup {"tank.num", "tank.channel"}
get_ppc_conf == DeviceHead \cup DeviceSizes \cup LibConfig
                \cup {"dp.price", "pole.num", "pole.grade", "pole.symbol_count"}
get_sc_conf == DeviceHead \cup DeviceSizes \cup LibConfig
               \cup {"sensor.num", "sensor.addr", "param.num", "param.type"}
ThreadConfs == [dc |-> get_dc_conf, tgs |-> get_tgs_conf, ppc |-> get_ppc_conf,
                sc |-> get_sc_conf]

(* What a client of a device is told of its configuration (the driver      *)
(* gives back what it was started with), and the widths that the clients   *)
(* in pss take its units with.                                             *)
SentDispencers == Longs({"disp.num"}) ++ Bytes({"disp.addr", "nozzle.num", "nozzle.grade"})
send_dc_device_configuration_message ==
    SentDispencers ++ Bytes({"dp.price", "dp.volume", "dp.amount"})
send_tgs_device_configuration_message == Longs({"tank.num"}) ++ Bytes({"tank.channel"})
send_ppc_device_configuration_message ==
    Bytes({"pole.num", "pole.grade", "pole.symbol_count", "dp.price"})
send_sc_device_configuration_message ==
    Longs({"sensor.num"}) ++ Bytes({"sensor.addr", "param.num", "param.type"})
SentByDevice == [dc |-> send_dc_device_configuration_message,
                 tgs |-> send_tgs_device_configuration_message,
                 ppc |-> send_ppc_device_configuration_message,
                 sc |-> send_sc_device_configuration_message]

ParseNozzleConfigurationFrame == Bytes({"nozzle.num", "nozzle.grade"})
ParseDispencerConfigurationFrame ==
    Longs({"disp.num"}) ++ Bytes({"disp.addr"}) ++ ParseNozzleConfigurationFrame
ParseDCConfigurationFrame == ParseDispencerConfigurationFrame
ParseTGSTankConfigurationFrame == Longs({"tank.num"}) ++ Bytes({"tank.channel"})
ParseTGSConfigurationFrame == ParseTGSTankConfigurationFrame
TakenOfDevice == [dc |-> ParseDCConfigurationFrame, tgs |-> ParseTGSConfigurationFrame]

(* The packs sent to an administrator and to pss.                          *)
SentDevice ==
    Texts({"name", "module_name", "log_dir"}) ++ Words({"port"})
    ++ Bytes({"enable", "log_enable", "log_trace"})
    ++ Longs({"command_timeout", "interval", "file_size", "save_days"})
SentLib ==
    Bytes({"log.enable", "log.trace", "log.system", "log.requests", "log.frames",
           "log.parsing", "conn.type", "conn.byte_size", "conn.stop_bits"})
    ++ Texts({"log.dir", "conn.port", "conn.ip_address", "conn.parity"})
    ++ Words({"conn.ip_port"})
    ++ Longs({"log.file_size", "log.save_days", "conn.baudrate", "timeout.read",
              "timeout.write"})
SentDcMapping == Longs({"disp.num"}) ++ Bytes({"disp.addr", "nozzle.num", "nozzle.grade"})
SentDc == SentDevice ++ SentLib ++ SentDcMapping
          ++ Bytes({"dp.price", "dp.volume", "dp.amount", "counters_enable", "auto_start",
                    "auto_payment"})
          ++ Longs({"full_tank_volume"})
SentTgsMapping == Longs({"tank.num"}) ++ Bytes({"tank.channel"})
SentTgs == SentDevice ++ SentLib ++ SentTgsMapping
(* Mutant: the count of symbols is sent as a long.                         *)
SentPpcMapping_LongCount == Bytes({"pole.num", "pole.grade"}) ++ Longs({"pole.symbol_count"})
SentPpcMapping == Bytes({"pole.num", "pole.grade", "pole.symbol_count"})
SentPpc == SentDevice ++ SentLib ++ SentPpcMapping ++ Bytes({"dp.price"})
SentScMapping == Longs({"sensor.num"}) ++ Bytes({"sensor.addr", "param.num", "param.type"})
SentSc == SentDevice ++ SentLib ++ SentScMapping
SentProfile == Texts({"name", "guid"}) ++ Bytes({"enable", "access_level"})
SentCommon ==
    Texts({"server_name", "log_dir", "conn_log_dir"}) ++ Words({"port"})
    ++ Bytes({"profiles_enable", "log_enable", "log_trace", "conn_log_enable",
              "conn_log_trace", "conn_log_frames", "conn_log_parsing"})
    ++ Longs({"file_size", "save_days", "conn_log_file_size", "conn_log_save_days"})
Sent == [dc |-> SentDc, tgs |-> SentTgs, ppc |-> SentPpc, sc |-> SentSc,
         profile |-> SentProfile, common |-> SentCommon]

(* The field whose value is sent as f: the number of a tank also goes out  *)
(* as its channel.                                                         *)
SentFrom(f) == IF f = "tank.channel" THEN "tank.num" ELSE f

-----------------------------------------------------------------------------
(* The XML file: what write_settings puts into it and, for every field,    *)
(* the attribute parse_xml takes it from: "enable" of a module's log comes *)
(* from the node of the device, the others from the field's own node.      *)
SavedHead == DeviceHead \cup DeviceSizes
add_common == CommonConf \ {"profiles_enable"}
add_profiles == Profile \cup {"profiles_enable"}
SaveDc == SavedHead \cup DCLibConfig
SaveTgs == SavedHead \cup TgsLibConfig
SavePpc == SavedHead \cup PpcLibConfig
SaveSc == SavedHead \cup ScLibConfig
Saved == [dc |-> SaveDc, tgs |-> SaveTgs, ppc |-> SavePpc, sc |-> SaveSc,
          profile |-> add_profiles, common |-> add_common \cup {"profiles_enable"}]

LoadCommon == CommonConf \ {"profiles_enable"}
LoadProfiles == Profile \cup {"profiles_enable"}
LoadDcMapping == {"disp.num", "disp.addr", "nozzle.num", "nozzle.grade"}
LoadDc == DeviceHead \cup DeviceSizes \cup LibConfig \cup DCDecimalPointOptions
          \cup {"counters_enable", "auto_start", "auto_payment", "full_tank_volume"}
          \cup LoadDcMapping
LoadTgsMapping == {"tank.num", "tank.channel"}
LoadTgs == DeviceHead \cup DeviceSizes \cup LibConfig \cup LoadTgsMapping
LoadPpcMapping == {"pole.num", "pole.grade", "pole.symbol_count"}
LoadPpc == DeviceHead \cup DeviceSizes \cup LibConfig \cup {"dp.price"} \cup LoadPpcMapping
LoadScMapping == {"sensor.num", "sensor.addr", "param.num", "param.type"}
LoadSc == DeviceHead \cup DeviceSizes \cup LibConfig \cup LoadScMapping
Loads == [dc |-> LoadDc, tgs |-> LoadTgs, ppc |-> LoadPpc, sc |-> LoadSc,
          profile |-> LoadProfiles, common |-> LoadCommon \cup {"profiles_enable"}]

(* The attribute that field f is set from.                                 *)
Attribute(f) == IF f = "log.enable" THEN "enable" ELSE f

-----------------------------------------------------------------------------
(* What pss accepts of the configuration it downloads.                     *)
PssModuleSettingsLogSettings ==
    Bytes({"log.enable", "log.trace", "log.system", "log.requests", "log.frames", "log.parsing"})
    ++ Texts({"log.dir"}) ++ Longs({"log.file_size", "log.save_days"})
PssModuleSettingsConnSettings ==
    Bytes({"conn.type", "conn.byte_size", "conn.stop_bits"}) ++ Words({"conn.ip_port"})
    ++ Texts({"conn.port", "conn.ip_address", "conn.parity"}) ++ Longs({"conn.baudrate"})
PssModuleSettingsTimeoutSettings == Longs({"timeout.read", "timeout.write"})
PssDispencerControllerModuleSettingsDpSettings ==
    Bytes({"dp.price", "dp.volume", "dp.amount"})
PssPricePoleControllerModuleSettingsDpSettings == Bytes({"dp.price"})
PssNozzleFrame == Bytes({"nozzle.num", "nozzle.grade"})
PssDispencerFrame == Longs({"disp.num"}) ++ Bytes({"disp.addr"}) ++ PssNozzleFrame
PssTankFrame == Longs({"tank.num"}) ++ Bytes({"tank.channel"})
PssPricePoleFrame == Bytes({"pole.num", "pole.grade", "pole.symbol_count"})
PssParamFrame == Bytes({"param.num", "param.type"})
PssSensorFrame == Longs({"sensor.num"}) ++ Bytes({"sensor.addr"}) ++ PssParamFrame

PssDispencerControllerMapping == PssDispencerFrame
PssTgsMapping == PssTankFrame
PssPpcMapping == PssPricePoleFrame
PssScMapping == PssSensorFrame

PssModuleSettings == PssModuleSettingsLogSettings ++ PssModuleSettingsConnSettings
                     ++ PssModuleSettingsTimeoutSettings
PssDispencerControllerModuleSettings ==
    PssModuleSettings ++ PssDispencerControllerModuleSettingsDpSettings
    ++ PssDispencerControllerMapping
    ++ Bytes({"counters_enable", "auto_start", "auto_payment"}) ++ Longs({"full_tank_volume"})
PssTgsModuleSettings == PssModuleSettings ++ PssTgsMapping
PssPpcModuleSettings == PssModuleSettings ++ PssPpcMapping
                        ++ PssPricePoleControllerModuleSettingsDpSettings
PssScModuleSettings == PssModuleSettings ++ PssScMapping

PssDcHead == Texts({"name", "module_name"}) ++ Words({"port"}) ++ Bytes({"enable"})
          ++ Longs({"command_timeout", "interval"})
PssDispencerControllerConfig ==
    PssDcHead ++ Texts({"log_dir"}) ++ Bytes({"log_enable", "log_trace"})
    ++ Longs({"file_size", "save_days"}) ++ PssDispencerControllerModuleSettings
PssTgsHead == Texts({"name", "module_name"}) ++ Words({"port"}) ++ Bytes({"enable"})
           ++ Longs({"command_timeout", "interval"})
PssTgsConfig ==
    PssTgsHead ++ Texts({"log_dir"}) ++ Bytes({"log_enable", "log_trace"})
    ++ Longs({"file_size", "save_days"}) ++ PssTgsModuleSettings
PssPpcHead == Texts({"name", "module_name"}) ++ Words({"port"}) ++ Bytes({"enable"})
           ++ Longs({"command_timeout", "interval"})
PssPpcConfig ==
    PssPpcHead ++ Texts({"log_dir"}) ++ Bytes({"log_enable", "log_trace"})
    ++ Longs({"file_size", "save_days"}) ++ PssPpcModuleSettings
PssScHead == Texts({"name", "module_name"}) ++ Words({"port"}) ++ Bytes({"enable"})
          ++ Longs({"command_timeout", "interval"})
PssScConfig ==
    PssScHead ++ Texts({"log_dir"}) ++ Bytes({"log_enable", "log_trace"})
    ++ Longs({"file_size", "save_days"}) ++ PssScModuleSettings
PssParses == [dc |-> PssDispencerControllerConfig, tgs |-> PssTgsConfig,
              ppc |-> PssPpcConfig, sc |-> PssScConfig]
=============================================================================
