-------------------------------- MODULE DartPump --------------------------------
(***************************************************************************)
(* One pump of the dart driver (dart/src): the calls the device thread     *)
(* makes into the driver, the write thread that polls the pump and sends   *)
(* it commands, the read thread that interprets its answers, and the       *)
(* half-duplex serial line between the driver and the pump.                *)
(*                                                                         *)
(* A round is poll, Eot, command, Ack; what the pump has to report it      *)
(* answers to a poll, and the driver confirms it.  Calls only raise flags  *)
(* in the pump's record; the Eot of a poll takes the current command for   *)
(* complete and selects the next one from the flags.                       *)
(*                                                                         *)
(* Every field of the record has a mutex of its own kind (each getter and  *)
(* setter locks driver_mutex), a handler has none: the handlers during     *)
(* which another thread can change the outcome are in two steps here.      *)
(* Block numbers, prices, the suspend, resume and price commands and the   *)
(* other pumps of the line are left out.                                   *)
(***************************************************************************)
EXTENDS Integers

CONSTANTS MaxUartError,      \* MAX_UART_ERROR: write turns without an answer
          NozzleCount,       \* nozzle_count: counters to read
          CountersSettings,  \* what counters_enable may be set to
          AutoStart,         \* auto_start
          MaxOrders,         \* bound: orders
          MaxEvents,         \* bound: stops, resets and moves of the nozzle
          MaxFaults          \* bound: failures of the line, and racing turns

ASSUME DartAssumption ==
  /\ MaxUartError \in Nat \ {0} /\ NozzleCount \in Nat /\ AutoStart \in BOOLEAN
  /\ CountersSettings \subseteq BOOLEAN
  /\ MaxOrders \in Nat /\ MaxEvents \in Nat /\ MaxFaults \in Nat

\* DartDispencerState, as the pump reports it
dds_NotProgrammed   == 0
dds_Reset           == 1
dds_Authorized      == 2
dds_Filling         == 4
dds_FillingComplete == 5
dds_MaxVolReached   == 6
dds_SwitchedOff     == 7

\* DispencerState, as the driver reports it
ds_NotInitialize   == 0
ds_Free            == 2
ds_NozzleOut       == 3
ds_Filling         == 4
ds_Stopped         == 5
ds_Finish          == 6
ds_ConnectionError == 7

Commands == {"Free", "Preset", "Start", "Stop", "Payment", "Reset"}

VARIABLES
  counters_enable,
  disp,     \* dispencers[i]
  reader,   \* where the read thread is in interpret_reply
  api,      \* the call the device thread is in, and the order it was checked for
  line,     \* the frame on the line
  pump,     \* the pump
  orders, events, faults,   \* the bounds' counters
  seen      \* history, for the properties

vars == <<counters_enable, disp, reader, api, line, pump, orders, events, faults, seen>>
bounds == <<orders, events, faults>>

Orders == 0 .. MaxOrders     \* 0: ot_Free

\* Dispencer: preset stands for preset_order_type and the order it belongs to, nozzle for
\* active_nozzle_index > -1, full for a filled volume equal to the preset one
Dispencer ==
  [command : Commands, mode : {"Pooling", "SendCommand"},
   xstate : {"Free", "SendCommand", "ReadyAck", "ReadyNak"},
   orig : 0 .. 7, dstate : 0 .. 7,
   stop : BOOLEAN, reset : BOOLEAN, start : BOOLEAN, isPay : BOOLEAN,
   preset : Orders, order : BOOLEAN, nozzle : BOOLEAN, full : BOOLEAN,
   getCounters : BOOLEAN, counter : 0 .. NozzleCount,
   naks : Nat, errors : 0 .. MaxUartError]

Init ==
  /\ counters_enable \in CountersSettings
  /\ disp = [command |-> "Free", mode |-> "Pooling", xstate |-> "Free",
             orig |-> dds_NotProgrammed, dstate |-> ds_NotInitialize,
             stop |-> FALSE, reset |-> FALSE, start |-> FALSE, isPay |-> FALSE,
             preset |-> 0, order |-> FALSE, nozzle |-> FALSE, full |-> FALSE,
             getCounters |-> TRUE, counter |-> 0, naks |-> 0, errors |-> 0]
  /\ reader = "idle"
  /\ api = [call |-> "none", order |-> 0]
  /\ line = [kind |-> "none"]
  /\ pump \in [state : {dds_Reset, dds_FillingComplete}, nozzle : {FALSE}, order : {0},
               full : {FALSE}, news : {"new"}, alive : {TRUE}]
  /\ orders = 0 /\ events = 0 /\ faults = 0
  /\ seen = [acted |-> FALSE, dropped |-> FALSE, raced |-> FALSE, start |-> 0, ahead |-> 0]

-----------------------------------------------------------------------------
(* The line: one frame at a time, in either direction. *)

Quiet == line.kind = "none"
Clear == line' = [kind |-> "none"]
Put(k) == line' = [kind |-> k]

FromPump == {"ack", "nak", "eot", "data", "garbled"}
Fault == faults < MaxFaults /\ faults' = faults + 1

-----------------------------------------------------------------------------
(* Calls of the device thread.  start and payment look at the record first *)
(* and write it afterwards; a call that is refused changes nothing.        *)

StopCall ==
  /\ api.call = "none"
  /\ events < MaxEvents /\ events' = events + 1
  /\ disp' = [disp EXCEPT !.stop = TRUE]
  /\ seen' = [seen EXCEPT !.ahead = IF disp.stop THEN @ ELSE 0]
  /\ UNCHANGED <<counters_enable, reader, api, line, pump, orders, faults>>

ResetCall ==
  /\ api.call = "none"
  /\ events < MaxEvents /\ events' = events + 1
  /\ disp' = [disp EXCEPT !.reset = TRUE]
  /\ UNCHANGED <<counters_enable, reader, api, line, pump, orders, faults, seen>>

\* An order's volume, unless there is an order.  The command is looked at first, but what
\* may be selected in between, a stop or a reset, would have been selected before the order
\* all the same.
Dose ==
  /\ api.call = "none"
  /\ disp.command = "Free" /\ disp.preset = 0
  /\ orders < MaxOrders /\ orders' = orders + 1
  /\ disp' = [disp EXCEPT !.preset = orders + 1]
  /\ UNCHANGED <<counters_enable, reader, api, line, pump, events, faults, seen>>

Checked(c) ==
  /\ disp.preset # 0
  /\ CASE c = "start" -> disp.orig < dds_Authorized
       [] c = "payment" -> disp.command = "Free"

BeginCall ==
  /\ api.call = "none"
  /\ \E c \in {"start", "payment"} :
        Checked(c) /\ api' = [call |-> c, order |-> disp.preset]
  /\ UNCHANGED <<counters_enable, disp, reader, line, pump, bounds, seen>>

\* the order the call was checked for may be closed, or another one in its place
Overtaken == disp.preset # api.order

SetFlag ==
  /\ api.call # "none"
  /\ disp' = IF api.call = "start" THEN [disp EXCEPT !.start = TRUE]
                                   ELSE [disp EXCEPT !.isPay = TRUE]
  /\ seen' = [seen EXCEPT !.raced = @ \/ Overtaken,
                          !.start = IF api.call = "start" THEN api.order ELSE @]
  /\ api' = [call |-> "none", order |-> 0]
  /\ UNCHANGED <<counters_enable, reader, line, pump, bounds>>

-----------------------------------------------------------------------------
(* The write thread: a turn of this pump every timeout_write. *)

\* no answer yet
Tick ==
  /\ disp.xstate = "SendCommand" /\ disp.errors < MaxUartError
  /\ disp' = [disp EXCEPT !.errors = @ + 1]
  /\ UNCHANGED <<counters_enable, reader, api, line, pump, bounds, seen>>

\* mutant: the time-out leaves the current command
GiveUp_KeepsCommand ==
  /\ disp.xstate = "SendCommand" /\ disp.errors = MaxUartError
  /\ Quiet /\ reader = "idle"
  /\ disp' = [disp EXCEPT !.xstate = "Free", !.mode = "Pooling",
                          !.dstate = ds_ConnectionError, !.getCounters = TRUE,
                          !.counter = 0, !.errors = 0]
  /\ seen' = [seen EXCEPT !.acted = FALSE,
                          !.dropped = @ \/ (seen.acted /\ disp.command \in {"Reset", "Payment"})]
  /\ UNCHANGED <<counters_enable, reader, api, line, pump, bounds>>

\* mutant: the time-out does not tell
GiveUp_Silent ==
  /\ disp.xstate = "SendCommand" /\ disp.errors = MaxUartError
  /\ Quiet /\ reader = "idle"
  /\ disp' = [disp EXCEPT !.xstate = "Free", !.mode = "Pooling", !.command = "Free",
                          !.getCounters = TRUE,
                          !.counter = 0, !.errors = 0]
  /\ seen' = [seen EXCEPT !.acted = FALSE,
                          !.dropped = @ \/ (seen.acted /\ disp.command \in {"Reset", "Payment"})]
  /\ UNCHANGED <<counters_enable, reader, api, line, pump, bounds>>

\* no answer at all: an answer comes within MaxUartError turns or never
GiveUp ==
  /\ disp.xstate = "SendCommand" /\ disp.errors = MaxUartError
  /\ Quiet /\ reader = "idle"
  /\ disp' = [disp EXCEPT !.xstate = "Free", !.mode = "Pooling", !.command = "Free",
                          !.dstate = ds_ConnectionError, !.getCounters = TRUE,
                          !.counter = 0, !.errors = 0]
  /\ seen' = [seen EXCEPT !.acted = FALSE,
                          !.dropped = @ \/ (seen.acted /\ disp.command \in {"Reset", "Payment"})]
  /\ UNCHANGED <<counters_enable, reader, api, line, pump, bounds>>

\* A turn that sends.  That it falls inside a handler of the read thread is rare enough
\* to count as a fault.
Turn(mode, xstate) ==
  /\ disp.mode = mode /\ disp.xstate = xstate /\ Quiet
  /\ IF reader = "idle" THEN UNCHANGED <<faults, seen>>
                        ELSE Fault /\ seen' = [seen EXCEPT !.raced = TRUE]
  /\ UNCHANGED <<counters_enable, reader, api, pump, orders, events>>

Poll ==
  /\ Turn("Pooling", "Free") /\ Put("poll")
  /\ disp' = [disp EXCEPT !.xstate = "SendCommand", !.errors = 0]

SendAck ==
  /\ Turn("Pooling", "ReadyAck") /\ Put("confirm")
  /\ disp' = [disp EXCEPT !.xstate = "Free", !.errors = 0]

\* the exchange state stays: a Nak is sent at every turn until data come
SendNak ==
  /\ Turn("Pooling", "ReadyNak") /\ Put("repeat")
  /\ disp' = [disp EXCEPT !.errors = 0]

CounterDue == counters_enable /\ disp.getCounters /\ disp.counter < NozzleCount

\* a counter is asked for in the place of the current command
SendCounter ==
  /\ Turn("SendCommand", "Free") /\ CounterDue /\ Put("counter")
  /\ disp' = [disp EXCEPT !.counter = @ + 1, !.xstate = "SendCommand",
                          !.naks = 0, !.errors = 0]

SendCommand ==
  /\ Turn("SendCommand", "Free") /\ ~CounterDue
  /\ line' = [kind |-> disp.command, order |-> disp.preset]
  /\ disp' = [disp EXCEPT !.getCounters = FALSE,
                          !.counter = IF disp.getCounters THEN 0 ELSE @,
                          !.xstate = "SendCommand", !.naks = 0, !.errors = 0]

WriteThread ==
  Tick \/ GiveUp \/ Poll \/ SendAck \/ SendNak \/ SendCounter \/ SendCommand

-----------------------------------------------------------------------------
(* The read thread: interpret_reply. *)

Active(d) == IF d.nozzle THEN ds_NozzleOut ELSE ds_Free

InterpretStatus(d) ==
  CASE d.orig = dds_NotProgrammed ->
         IF ~d.getCounters /\ d.dstate \in {ds_NotInitialize, ds_ConnectionError}
           THEN [d EXCEPT !.dstate = Active(d)] ELSE d
    [] d.orig = dds_Reset ->
         IF d.getCounters THEN d ELSE [d EXCEPT !.dstate = Active(d)]
    [] d.orig \in {dds_Authorized, dds_Filling} -> [d EXCEPT !.dstate = ds_Filling]
    [] d.orig = dds_FillingComplete ->
         [d EXCEPT !.dstate = ds_Finish, !.reset = @ \/ d.dstate = ds_NotInitialize]
    [] d.orig = dds_MaxVolReached -> [d EXCEPT !.dstate = ds_Stopped]
    [] d.orig = dds_SwitchedOff -> [d EXCEPT !.dstate = ds_ConnectionError]

\* interpret_data_frame: the report f of the pump
InterpretData(d, f) ==
  [d EXCEPT !.orig = f.status, !.full = f.full, !.nozzle = f.nozzle,
            !.dstate = CASE f.nozzle /\ ~d.nozzle /\ @ = ds_Free -> ds_NozzleOut
                         [] ~f.nozzle /\ d.nozzle /\ @ = ds_NozzleOut -> ds_Free
                         [] ~f.nozzle /\ d.nozzle /\ @ = ds_Filling -> ds_Finish
                         [] OTHER -> @]

\* mutant: the start flag survives the order
Wiped_KeepsStart(d, state) ==
  [d EXCEPT !.dstate = state, !.xstate = "Free", !.nozzle = FALSE, !.full = FALSE,
            !.stop = FALSE, !.reset = FALSE, !.isPay = FALSE,
            !.preset = 0, !.order = FALSE, !.getCounters = @ \/ counters_enable]

\* what safe_disp_clear and safe_disp_reset have in common
Wiped(d, state) ==
  [d EXCEPT !.dstate = state, !.xstate = "Free", !.nozzle = FALSE, !.full = FALSE,
            !.stop = FALSE, !.reset = FALSE, !.start = FALSE, !.isPay = FALSE,
            !.preset = 0, !.order = FALSE, !.getCounters = @ \/ counters_enable]

SetComplete(d) ==
  CASE d.command = "Stop"    -> [d EXCEPT !.stop = FALSE]
    [] d.command = "Reset"   -> Wiped(d, ds_NotInitialize)
    [] d.command = "Payment" -> Wiped(d, ds_Free)
    [] d.command = "Preset"  -> [d EXCEPT !.order = d.preset # 0]
    [] OTHER                 -> d

\* mutant: resets come before stops
Asked_ResetFirst(d) ==
  CASE d.stop /\ ~d.reset         -> "Stop"
    [] d.reset                   -> "Reset"
    [] ~d.stop /\ ~d.reset /\ d.preset # 0 /\ ~d.order -> "Preset"
    [] /\ ~d.stop /\ ~d.reset /\ (d.preset = 0 \/ d.order)
       /\ d.orig < dds_Authorized /\ d.nozzle = (d.preset # 0)
       /\ d.order /\ (AutoStart \/ d.start) -> "Start"
    [] OTHER -> "Free"

\* mutant: a stop is of no use once the pump is authorised
Asked_StopBefore(d) ==
  CASE d.stop /\ d.orig < dds_Authorized -> "Stop"
    [] ~d.stop /\ d.reset        -> "Reset"
    [] ~d.stop /\ ~d.reset /\ d.preset # 0 /\ ~d.order -> "Preset"
    [] /\ ~d.stop /\ ~d.reset /\ (d.preset = 0 \/ d.order)
       /\ d.orig < dds_Authorized /\ d.nozzle = (d.preset # 0)
       /\ d.order /\ (AutoStart \/ d.start) -> "Start"
    [] OTHER -> "Free"

\* the first of the commands the flags ask for
Asked(d) ==
  CASE d.stop                    -> "Stop"
    [] ~d.stop /\ d.reset        -> "Reset"
    [] ~d.stop /\ ~d.reset /\ d.preset # 0 /\ ~d.order -> "Preset"
    [] /\ ~d.stop /\ ~d.reset /\ (d.preset = 0 \/ d.order)
       /\ d.orig < dds_Authorized /\ d.nozzle = (d.preset # 0)
       /\ d.order /\ (AutoStart \/ d.start) -> "Start"
    [] OTHER -> "Free"

\* mutant: a payment is due whatever the pump's state
EndOfFill_AnyState(d) ==
  LET over == d.orig > dds_Filling
      keep == d.order /\ d.full
  IN CASE over /\ d.dstate = ds_Filling ->
            [d EXCEPT !.getCounters = @ \/ counters_enable, !.isPay = @ /\ keep,
                      !.command = IF d.isPay /\ keep THEN "Payment" ELSE @]
       [] d.dstate > ds_Filling /\ d.isPay -> [d EXCEPT !.command = "Payment"]
       [] OTHER -> d

\* the end of a fill: payment, when it has been asked for and the order is filled
EndOfFill(d) ==
  LET over == d.orig > dds_Filling
      keep == d.order /\ d.full
  IN CASE over /\ d.dstate = ds_Filling ->
            [d EXCEPT !.getCounters = @ \/ counters_enable, !.isPay = @ /\ keep,
                      !.command = IF d.isPay /\ keep THEN "Payment" ELSE @]
       [] over /\ d.dstate > ds_Filling /\ d.isPay -> [d EXCEPT !.command = "Payment"]
       [] OTHER -> d

SelectNext(d) ==
  IF Asked(d) # "Free" THEN [d EXCEPT !.command = Asked(d)]
  ELSE InterpretStatus(EndOfFill([d EXCEPT !.command = "Free"]))

\* a frame of kind k is read; any frame is a sign of life
Read(k) ==
  /\ reader = "idle" /\ line.kind = k /\ Clear
  /\ UNCHANGED <<counters_enable, api, pump, bounds, seen>>

Alive == [disp EXCEPT !.errors = 0]

\* the exchange state, then (AckMode) the exchange mode
ReadAck ==
  /\ Read("ack")
  /\ IF disp.mode = "SendCommand"
       THEN disp' = [Alive EXCEPT !.xstate = "Free"] /\ reader' = "ack"
       ELSE disp' = Alive /\ UNCHANGED reader

AckMode ==
  /\ reader = "ack"
  /\ disp' = [disp EXCEPT !.mode = "Pooling"]
  /\ reader' = "idle"
  /\ UNCHANGED <<counters_enable, api, line, pump, bounds, seen>>

ReadNak ==
  /\ Read("nak")
  /\ disp' = IF disp.naks + 1 > MaxUartError /\ disp.mode = "SendCommand"
               THEN [Alive EXCEPT !.naks = @ + 1, !.xstate = "Free", !.mode = "Pooling",
                                  !.preset = IF disp.command = "Preset" THEN 0 ELSE @]
               ELSE [Alive EXCEPT !.naks = @ + 1]
  /\ UNCHANGED reader

ReadData ==
  /\ Read("data")
  /\ disp' = [InterpretData(Alive, line) EXCEPT !.xstate = "ReadyAck", !.mode = "Pooling"]
  /\ UNCHANGED reader

\* a wrong check sum
ReadGarbled ==
  /\ Read("garbled")
  /\ disp' = [Alive EXCEPT !.xstate = "ReadyNak", !.mode = "Pooling"]
  /\ UNCHANGED reader

\* the Eot of a poll: the current command is complete, then (EotNext) the next one
ReadEot ==
  /\ Read("eot")
  /\ IF disp.mode = "Pooling"
       THEN disp' = SetComplete(Alive) /\ reader' = "eot"
       ELSE disp' = [Alive EXCEPT !.mode = "Pooling", !.xstate = "Free"] /\ UNCHANGED reader

EotNext ==
  /\ reader = "eot"
  /\ disp' = [SelectNext(disp) EXCEPT !.mode = "SendCommand", !.xstate = "Free"]
  /\ seen' = [seen EXCEPT !.acted = FALSE, !.ahead = IF disp.stop THEN @ ELSE 0,
                          !.dropped = @ /\ ~(seen.acted /\ disp.command \in {"Reset", "Payment"})]
  /\ reader' = "idle"
  /\ UNCHANGED <<counters_enable, api, line, pump, bounds>>

ReadThread ==
  ReadAck \/ AckMode \/ ReadNak \/ ReadData \/ ReadGarbled \/ ReadEot \/ EotNext

-----------------------------------------------------------------------------
(* The pump: what the driver relies on.  It keeps a report until the       *)
(* driver has confirmed it.                                                *)

Hears(K) ==
  /\ pump.alive /\ line.kind \in K
  /\ UNCHANGED <<counters_enable, disp, reader, api, bounds>>

PumpAnswersPoll ==
  /\ Hears({"poll", "repeat"})
  /\ IF pump.news = "none"
       THEN Put("eot") /\ UNCHANGED pump
       ELSE /\ line' = [kind |-> "data", status |-> pump.state, nozzle |-> pump.nozzle,
                        full |-> pump.full]
            /\ pump' = [pump EXCEPT !.news = "sent"]
  /\ UNCHANGED seen

PumpConfirmed ==
  /\ Hears({"confirm"}) /\ Clear
  /\ pump' = [pump EXCEPT !.news = IF @ = "sent" THEN "none" ELSE @]
  /\ UNCHANGED seen

\* a command takes effect and is acknowledged; whatever it is, the pump reports then
Effect(p, f) ==
  CASE f.kind = "Preset" -> [p EXCEPT !.order = f.order, !.full = FALSE]
    [] f.kind = "Start" /\ p.state = dds_Reset -> [p EXCEPT !.state = dds_Authorized]
    [] f.kind = "Stop" /\ p.state \in {dds_Authorized, dds_Filling} ->
         [p EXCEPT !.state = dds_FillingComplete]
    [] f.kind \in {"Reset", "Payment"} ->
         [p EXCEPT !.state = dds_Reset, !.order = 0, !.full = FALSE]
    [] OTHER -> p

PumpTakes ==
  /\ Hears(Commands \cup {"counter"}) /\ Put("ack")
  /\ pump' = [Effect(pump, line) EXCEPT !.news = "new"]
  /\ seen' = [seen EXCEPT !.acted = @ \/ line.kind = disp.command,
                          !.ahead = IF ~disp.stop \/ line.kind = "Stop" THEN 0
                                    ELSE IF @ < 2 THEN @ + 1 ELSE @]

\* nobody hears the frame
Unheard ==
  /\ ~pump.alive /\ ~Quiet /\ line.kind \notin FromPump
  /\ Clear
  /\ UNCHANGED <<counters_enable, disp, reader, api, pump, bounds, seen>>

Pumping == pump.state = dds_Authorized /\ pump.nozzle

Fill ==
  /\ Pumping
  /\ pump' = [pump EXCEPT !.state = dds_Filling, !.news = "new"]
  /\ UNCHANGED <<counters_enable, disp, reader, api, line, bounds, seen>>

FillUp ==
  /\ pump.state = dds_Filling
  /\ pump' = [pump EXCEPT !.state = dds_MaxVolReached, !.full = TRUE, !.news = "new"]
  /\ UNCHANGED <<counters_enable, disp, reader, api, line, bounds, seen>>

MoveNozzle ==
  /\ events < MaxEvents /\ events' = events + 1
  /\ pump' = [pump EXCEPT !.nozzle = ~@, !.news = "new",
                          !.state = IF pump.nozzle /\ @ \in {dds_Filling, dds_MaxVolReached}
                                      THEN dds_FillingComplete ELSE @]
  /\ UNCHANGED <<counters_enable, disp, reader, api, line, orders, faults, seen>>

-----------------------------------------------------------------------------
(* What goes wrong. *)

Lose ==
  /\ ~Quiet /\ Clear /\ Fault
  /\ UNCHANGED <<counters_enable, disp, reader, api, pump, orders, events, seen>>

Garble ==
  /\ line.kind = "data" /\ Put("garbled") /\ Fault
  /\ UNCHANGED <<counters_enable, disp, reader, api, pump, orders, events, seen>>

\* a command that comes in garbled is not taken
Refuse ==
  /\ pump.alive /\ line.kind \in Commands \cup {"counter"} /\ Put("nak") /\ Fault
  /\ UNCHANGED <<counters_enable, disp, reader, api, pump, orders, events, seen>>

\* the pump is cut off, and comes back as it was
Unplug ==
  /\ pump.alive /\ Fault
  /\ pump' = [pump EXCEPT !.alive = FALSE]
  /\ UNCHANGED <<counters_enable, disp, reader, api, line, orders, events, seen>>

Plug ==
  /\ ~pump.alive
  /\ pump' = [pump EXCEPT !.alive = TRUE]
  /\ UNCHANGED <<counters_enable, disp, reader, api, line, bounds, seen>>

-----------------------------------------------------------------------------
PumpStep == PumpAnswersPoll \/ PumpConfirmed \/ PumpTakes \/ Unheard

Next ==
  \/ StopCall \/ ResetCall \/ Dose \/ BeginCall \/ SetFlag
  \/ Tick \/ GiveUp \/ Poll \/ SendAck \/ SendNak \/ SendCounter \/ SendCommand
  \/ ReadAck \/ AckMode \/ ReadNak \/ ReadData \/ ReadGarbled \/ ReadEot \/ EotNext
  \/ PumpAnswersPoll \/ PumpConfirmed \/ PumpTakes \/ Unheard
  \/ Fill \/ FillUp \/ MoveNozzle
  \/ Lose \/ Garble \/ Refuse \/ Unplug \/ Plug

Spec == Init /\ [][Next]_vars

\* the two threads never stop, calls return, and a pump that is not cut off answers
Fairness ==
  WF_vars(WriteThread) /\ WF_vars(ReadThread) /\ WF_vars(SetFlag) /\ WF_vars(PumpStep)

FairSpec == Spec /\ Fairness

-----------------------------------------------------------------------------
(* Properties. *)

TypeOK ==
  /\ counters_enable \in BOOLEAN
  /\ disp \in Dispencer /\ disp.naks <= MaxUartError
  /\ reader \in {"idle", "ack", "eot"}
  /\ api \in [call : {"none", "start", "payment"}, order : Orders]
  /\ line.kind \in FromPump \cup Commands \cup {"none", "poll", "confirm", "repeat", "counter"}
  /\ pump \in [state : 0 .. 7, nozzle : BOOLEAN, order : Orders, full : BOOLEAN,
               news : {"none", "new", "sent"}, alive : BOOLEAN]
  /\ orders \in Orders /\ events \in 0 .. MaxEvents /\ faults \in 0 .. MaxFaults
  /\ seen \in [acted : BOOLEAN, dropped : BOOLEAN, raced : BOOLEAN, start : Orders, ahead : 0 .. 2]

\* neither thread has come between two steps of another, and the write thread does not ask
\* for counters in the place of commands
Exact == ~counters_enable /\ ~seen.raced

\* A command is taken for complete (set_complete_command: flag cleared, order noted, record
\* wiped) only if the pump has acknowledged it since it became the current one, whatever
\* was lost on the line.
CompletedWasTaken ==
  [][reader = "idle" /\ reader' = "eot" /\ disp.command # "Free" /\ Exact
     => seen.acted]_vars

\* The pump is authorised for the very order the driver holds, and on a start call made for
\* this order: never without a volume, never with the flag of an order closed before.
StartsAsOrdered ==
  [][pump.state = dds_Reset /\ pump.state' = dds_Authorized /\ Exact /\ ~seen.dropped
     => /\ pump.order # 0 /\ pump.order = disp.preset
        /\ AutoStart \/ seen.start = disp.preset]_vars

\* Once a stop is asked for, the pump obeys one command at the most, the one that was
\* already selected, before it gets the stop.
StopOvertakes == Exact => seen.ahead <= 1

\* A payment resets the pump: the driver never sends it while the pump may be delivering.
PaymentAfterFill ==
  line.kind = "Payment" /\ Exact => pump.state \notin {dds_Authorized, dds_Filling}

\* A stop call ends a delivery, if only the pump stays on the line.
StopIsHeard ==
  (disp.stop /\ pump.state \in {dds_Authorized, dds_Filling} /\ Exact)
    ~> (pump.state \notin {dds_Authorized, dds_Filling} \/ ~pump.alive \/ seen.raced)

\* A pump that is cut off is reported so, unless the driver is about to have a garbled
\* report repeated: it sends Naks for ever then, and no time-out applies.
LossIsNoticed ==
  ~pump.alive ~> (pump.alive \/ disp.dstate = ds_ConnectionError \/ disp.xstate = "ReadyNak")

=============================================================================
