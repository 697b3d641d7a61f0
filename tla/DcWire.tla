------------------------------- MODULE DcWire -------------------------------
(***************************************************************************)
(* The messages between pss and a dispenser controller of the hardware     *)
(* server: the fields of each message with their widths, as its sender     *)
(* writes them, and those that the parser at the other end wants.          *)
(***************************************************************************)
EXTENDS Tlv

-----------------------------------------------------------------------------
(* Orders: pss_dc_device.c sends them, dc_device.c reads them.             *)
OrderHead == Texts({"GuidClient"}) ++ Longs({"MessageId", "CommandCode"}) ++ Bytes({"MessageType"})

send_dc_get_status_message == OrderHead
send_suspend_message == OrderHead ++ Longs({"DeviceNumber"})
send_resume_message == OrderHead ++ Longs({"DeviceNumber"})
send_reset_message == OrderHead ++ Longs({"DeviceNumber"})
send_start_message == OrderHead ++ Longs({"DeviceNumber"})
send_volume_preset_message ==
    OrderHead ++ Longs({"DeviceNumber", "Price", "Quantity"}) ++ Bytes({"NozzleNumber"})
send_amount_preset_message ==
    OrderHead ++ Longs({"DeviceNumber", "Price", "Amount"}) ++ Bytes({"NozzleNumber"})

Orders == [GetDeviceStatus |-> send_dc_get_status_message,
           Suspend |-> send_suspend_message, Resume |-> send_resume_message,
           Reset |-> send_reset_message, Start |-> send_start_message,
           SetVolumeDose |-> send_volume_preset_message,
           SetSumDose |-> send_amount_preset_message]

ParseDCRequest ==
    Texts({"GuidClient"}) ++ Longs({"MessageId", "CommandCode", "DeviceNumber"})
    ++ Bytes({"MessageType", "NozzleNumber", "ExtendedFuncIndex"})
    ++ Longs({"Price", "Quantity", "Amount"})

(* What an order must bring; without it the server refuses it, or, for     *)
(* Suspend and Resume, carries it out for every dispenser.                 *)
DoseNeeded == {"DeviceNumber", "NozzleNumber", "Price"}
Needed == [GetDeviceStatus |-> {}, Suspend |-> {"DeviceNumber"}, Resume |-> {"DeviceNumber"},
           Reset |-> {"DeviceNumber"}, Start |-> {"DeviceNumber"},
           SetVolumeDose |-> DoseNeeded \cup {"Quantity"},
           SetSumDose |-> DoseNeeded \cup {"Amount"}]

(* An order with a field of the wrong width, but for the dispenser's       *)
(* number, is refused as a whole; one without a guid, a type or a code is  *)
(* nobody's order.                                                         *)
Understood(order) ==
    LET sent == Orders[order]
        took == Taken(sent, ParseDCRequest)
    IN  /\ DOMAIN sent \cap DOMAIN ParseDCRequest \subseteq took \cup {"DeviceNumber"}
        /\ {"GuidClient", "MessageType", "CommandCode"} \cup Needed[order] \subseteq took

-----------------------------------------------------------------------------
(* Answers and data: dc_device_message_func.c sends them, pss_dc_device.c  *)
(* reads them.                                                             *)
AnswerHead == Longs({"MessageId", "CommandCode"})
              ++ Bytes({"MessageType", "Error", "DeviceStatus", "DeviceError"})
              ++ Texts({"DeviceStatusDescription", "DeviceErrorDescription"})

send_dc_device_command_result_message ==
    AnswerHead ++ Longs({"DeviceNumber"}) ++ Bytes({"DeviceReplyCode"})

(* The data of one dispenser, with the counters of its nozzles.            *)
CountersUnits == Bytes({"NozzleCount", "Nozzle.Number"}) ++ Longs({"Nozzle.Counter"})
\* Mutant: the state is sent as a word.
send_dc_device_data_message_WordState ==
    AnswerHead ++ Bytes({"Count", "PresetOrderType", "ActiveNozzleNum"}) ++ Words({"State"})
    ++ Longs({"Number", "CurrentVolume", "CurrentAmount"}) ++ CountersUnits
send_dc_device_data_message ==
    AnswerHead ++ Bytes({"Count"})
    ++ Longs({"Number", "PresetPrice", "PresetVolume", "PresetAmount", "CurrentPrice",
              "CurrentVolume", "CurrentAmount"})
    ++ Bytes({"State", "OrderType", "PresetOrderType", "IsPay", "PresetNozzleNum",
              "ActiveNozzleNum", "ErrorCode"})
    ++ CountersUnits

ParseNozzleDataFrame == Bytes({"Nozzle.Number"}) ++ Longs({"Nozzle.Counter"})
ParseDispencerCountersFrame == Bytes({"NozzleCount"}) ++ ParseNozzleDataFrame
OrderUnits == Longs({"Number"})
              ++ Bytes({"State", "OrderType", "PresetOrderType", "IsPay", "PresetNozzleNum"})
ValueUnits == Bytes({"ActiveNozzleNum", "ErrorCode"})
              ++ Longs({"PresetPrice", "PresetVolume", "PresetAmount", "CurrentPrice",
                        "CurrentVolume", "CurrentAmount"})
ParseDCDataFrame ==
    Bytes({"Count"}) ++ OrderUnits ++ ValueUnits ++ ParseDispencerCountersFrame
FrameHead == Longs({"MessageId", "DeviceNumber"})
             ++ Bytes({"MessageType", "Error", "DeviceStatus"}) ++ Texts({"DeviceStatusDescription"})
FrameTail == Bytes({"DeviceError", "DeviceReplyCode"}) ++ Texts({"DeviceErrorDescription"})
             ++ Longs({"CommandCode"})
ParseDCFrame == FrameHead ++ FrameTail ++ ParseDCDataFrame

ReplyTaken == Taken(send_dc_device_command_result_message, ParseDCFrame)
DataTaken == Taken(send_dc_device_data_message, ParseDCFrame)
=============================================================================
