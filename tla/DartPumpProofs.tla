---------------------------- MODULE DartPumpProofs ----------------------------
(***************************************************************************)
(* What the dart driver never does to a pump, whatever the line loses, for *)
(* any time-out and any number of orders, calls and failures: complete a   *)
(* command the pump has not taken, authorise it for another order than the *)
(* driver's, pass a stop over, or settle a payment during a delivery.      *)
(***************************************************************************)
EXTENDS DartPump, TLAPS

(* The states a pump is ever in, and so reports.                           *)
Reported == {dds_NotProgrammed, dds_Reset, dds_Authorized, dds_Filling, dds_FillingComplete,
             dds_MaxVolReached}

(* The frames that carry something carry what their kind says.             *)
LineOK == /\ line.kind \in Commands => line.order \in Orders
          /\ line.kind = "data" => /\ line.status \in Reported /\ line.nozzle \in BOOLEAN
                                   /\ line.full \in BOOLEAN

(* A frame that takes part in an exchange of a command is answered by one  *)
(* Nak at most, so that the limit of Naks is never reached.                *)
OneNak == /\ line.kind \in Commands \cup {"counter", "nak"} => disp.naks = 0
          /\ disp.naks <= 1

Types == /\ TypeOK /\ LineOK /\ OneNak
         /\ disp.orig \in Reported /\ pump.state \in Reported
         /\ api.call # "none" => api.order # 0

-----------------------------------------------------------------------------
(* The record of a pump keeps its type.                                    *)
LEMMA StatesOfPump == Reported = {0, 1, 2, 4, 5, 6} /\ Reported \subseteq 0..7
BY DEF Reported, dds_NotProgrammed, dds_Reset, dds_Authorized, dds_Filling,
       dds_FillingComplete, dds_MaxVolReached

(* Record e has d's order and command, and what d knows of the pump.       *)
Same(e, d) == /\ e.command = d.command /\ e.orig = d.orig /\ e.naks = d.naks
              /\ e.preset = d.preset /\ e.order = d.order /\ e.start = d.start
              /\ e.stop = d.stop

LEMMA StatusType ==
    ASSUME NEW d \in Dispencer, d.orig \in Reported
    PROVE  InterpretStatus(d) \in Dispencer /\ Same(InterpretStatus(d), d)
<1>1. ASSUME NEW s \in 0..7
      PROVE  [d EXCEPT !.dstate = s] \in Dispencer /\ Same([d EXCEPT !.dstate = s], d)
  BY DEF Dispencer, Same
<1>2. Active(d) \in 0..7
  BY DEF Active, ds_NozzleOut, ds_Free
<1>3. Same(d, d)
  BY DEF Same
<1>4. CASE d.orig \in {0, 1}
  <2>1. InterpretStatus(d) = d \/ InterpretStatus(d) = [d EXCEPT !.dstate = Active(d)]
    BY <1>4 DEF InterpretStatus, dds_NotProgrammed, dds_Reset, dds_Authorized, dds_Filling,
       dds_FillingComplete, dds_MaxVolReached, dds_SwitchedOff
  <2> QED
    BY <1>1, <1>2, <1>3, <2>1
<1>5. CASE d.orig \in {2, 4, 6}
  <2>1. \E s \in {4, 5} : InterpretStatus(d) = [d EXCEPT !.dstate = s]
    BY <1>5 DEF InterpretStatus, dds_NotProgrammed, dds_Reset, dds_Authorized, dds_Filling,
       dds_FillingComplete, dds_MaxVolReached, dds_SwitchedOff, ds_Filling, ds_Stopped
  <2> QED
    BY <1>1, <2>1
<1>6. CASE d.orig = 5
  <2> DEFINE b == d.reset \/ d.dstate = ds_NotInitialize
  <2>1. InterpretStatus(d) = [d EXCEPT !.dstate = 6, !.reset = b]
    BY <1>6 DEF InterpretStatus, dds_NotProgrammed, dds_Reset, dds_Authorized, dds_Filling,
       dds_FillingComplete, dds_MaxVolReached, dds_SwitchedOff, ds_Finish
  <2>2. b \in BOOLEAN
    OBVIOUS
  <2> HIDE DEF b
  <2> DEFINE shown == [d EXCEPT !.dstate = 6]
  <2>3. shown \in Dispencer /\ Same(shown, d)
    BY <1>1
  <2> HIDE DEF shown
  <2>4. [shown EXCEPT !.reset = b] \in Dispencer
    BY <2>2, <2>3 DEF Dispencer
  <2>5. Same([shown EXCEPT !.reset = b], shown)
    BY <2>3 DEF Dispencer, Same
  <2>6. InterpretStatus(d) = [shown EXCEPT !.reset = b]
    BY <2>1 DEF shown
  <2> QED
    BY <2>3, <2>4, <2>5, <2>6 DEF Same
<1> QED
  BY <1>4, <1>5, <1>6, StatesOfPump

LEMMA WipedType ==
    ASSUME NEW d \in Dispencer, NEW state \in 0..7, counters_enable \in BOOLEAN
    PROVE  /\ Wiped(d, state) \in Dispencer
           /\ Wiped(d, state).orig = d.orig /\ Wiped(d, state).command = d.command
           /\ Wiped(d, state).mode = d.mode /\ Wiped(d, state).naks = d.naks
           /\ Wiped(d, state).xstate = "Free"
           /\ Wiped(d, state).preset = 0 /\ ~Wiped(d, state).order
           /\ ~Wiped(d, state).start /\ ~Wiped(d, state).stop
<1> DEFINE b == d.getCounters \/ counters_enable
<1>1. b \in BOOLEAN
  BY DEF Dispencer
<1>2. Wiped(d, state) = [d EXCEPT !.dstate = state, !.xstate = "Free", !.nozzle = FALSE,
            !.full = FALSE, !.stop = FALSE, !.reset = FALSE, !.start = FALSE, !.isPay = FALSE,
            !.preset = 0, !.order = FALSE, !.getCounters = b]
  BY DEF Wiped
<1>3. 0 \in Orders
  BY DartAssumption DEF Orders
<1> HIDE DEF b
<1> DEFINE some == [d EXCEPT !.dstate = state, !.xstate = "Free", !.nozzle = FALSE,
                             !.full = FALSE, !.stop = FALSE]
           more == [some EXCEPT !.reset = FALSE, !.start = FALSE, !.isPay = FALSE]
           all == [more EXCEPT !.preset = 0, !.order = FALSE, !.getCounters = b]
<1>4. /\ some \in Dispencer /\ some.orig = d.orig /\ some.command = d.command
      /\ some.mode = d.mode /\ some.naks = d.naks /\ some.xstate = "Free" /\ ~some.stop
  BY DEF Dispencer
<1> HIDE DEF some
<1>5. /\ more \in Dispencer /\ more.orig = d.orig /\ more.command = d.command
      /\ more.mode = d.mode /\ more.naks = d.naks /\ more.xstate = "Free" /\ ~more.stop
      /\ ~more.start
  BY <1>4 DEF Dispencer
<1> HIDE DEF more
<1>6. /\ all \in Dispencer /\ all.orig = d.orig /\ all.command = d.command
      /\ all.mode = d.mode /\ all.naks = d.naks /\ all.xstate = "Free" /\ ~all.stop
      /\ ~all.start /\ all.preset = 0 /\ ~all.order
  BY <1>1, <1>3, <1>5 DEF Dispencer
<1> HIDE DEF all
<1>7. Wiped(d, state) = all
  BY <1>2 DEF all, more, some
<1> QED
  BY <1>6, <1>7

(* Completing a command: only a Reset and a payment clear the order.       *)
LEMMA CompleteType ==
    ASSUME NEW d \in Dispencer, counters_enable \in BOOLEAN
    PROVE  LET e == SetComplete(d)
           IN  /\ e \in Dispencer
               /\ e.orig = d.orig /\ e.command = d.command /\ e.mode = d.mode /\ e.naks = d.naks
               /\ e.xstate \in {d.xstate, "Free"}
               /\ e.stop => d.stop
               /\ d.command \in {"Reset", "Payment"} =>
                     e.preset = 0 /\ ~e.order /\ ~e.start
               /\ d.command \notin {"Reset", "Payment"} =>
                     /\ e.preset = d.preset /\ e.start = d.start
                     /\ e.order = IF d.command = "Preset" THEN d.preset # 0 ELSE d.order
<1>1. CASE d.command \in {"Reset", "Payment"}
  <2>1. ds_NotInitialize \in 0..7 /\ ds_Free \in 0..7
    BY DEF ds_NotInitialize, ds_Free
  <2>2. SetComplete(d) = Wiped(d, ds_NotInitialize) \/ SetComplete(d) = Wiped(d, ds_Free)
    BY <1>1 DEF SetComplete
  <2> QED
    BY <1>1, <2>1, <2>2, WipedType
<1>2. CASE d.command = "Preset"
  <2>1. SetComplete(d) = [d EXCEPT !.order = d.preset # 0]
    BY <1>2 DEF SetComplete
  <2>2. (d.preset # 0) \in BOOLEAN
    OBVIOUS
  <2> QED
    BY <1>2, <2>1, <2>2 DEF Dispencer
<1>3. CASE d.command = "Stop"
  <2>1. SetComplete(d) = [d EXCEPT !.stop = FALSE]
    BY <1>3 DEF SetComplete
  <2> QED
    BY <1>3, <2>1 DEF Dispencer
<1>4. CASE d.command \in {"Free", "Start"}
  BY <1>4 DEF SetComplete
<1> QED
  BY <1>1, <1>2, <1>3, <1>4 DEF Dispencer, Commands

(* The next command is the first that the flags ask for; without one it is *)
(* a payment, after a delivery, or none.                                   *)
LEMMA NextType ==
    ASSUME NEW d \in Dispencer, d.orig \in Reported, counters_enable \in BOOLEAN
    PROVE  LET e == SelectNext(d)
           IN  /\ e \in Dispencer
               /\ e.orig = d.orig /\ e.naks = d.naks /\ e.preset = d.preset
               /\ e.order = d.order /\ e.start = d.start /\ e.stop = d.stop
               /\ d.stop => e.command = "Stop"
               /\ e.command = "Preset" => d.preset # 0
               /\ e.command = "Start" => d.order /\ (AutoStart \/ d.start)
               /\ e.command = "Payment" => d.orig > dds_Filling
<1>1. /\ Asked(d) \in {"Free", "Stop", "Reset", "Preset", "Start"}
      /\ d.stop => Asked(d) = "Stop"
      /\ Asked(d) = "Preset" => d.preset # 0
      /\ Asked(d) = "Start" => d.order /\ (AutoStart \/ d.start)
  BY DEF Asked
<1>2. CASE Asked(d) # "Free"
  <2>1. SelectNext(d) = [d EXCEPT !.command = Asked(d)]
    BY <1>2 DEF SelectNext
  <2> QED
    BY <1>1, <1>2, <2>1 DEF Dispencer, Commands
<1>3. CASE Asked(d) = "Free"
  <2> DEFINE free == [d EXCEPT !.command = "Free"]
             over == EndOfFill(free)
  <2>1. free \in Dispencer /\ free.command = "Free" /\ free.orig = d.orig /\ free.naks = d.naks
        /\ free.preset = d.preset /\ free.order = d.order /\ free.start = d.start
        /\ free.stop = d.stop
    BY DEF Dispencer, Commands
  <2> HIDE DEF free
  <2>2. /\ over \in Dispencer /\ over.orig = d.orig /\ over.naks = d.naks
        /\ over.preset = d.preset /\ over.order = d.order /\ over.start = d.start
        /\ over.stop = d.stop
        /\ over.command \in {"Free", "Payment"}
        /\ over.command = "Payment" => d.orig > dds_Filling
    <3>1. /\ free.getCounters \in BOOLEAN /\ free.isPay \in BOOLEAN /\ free.order \in BOOLEAN
          /\ free.full \in BOOLEAN
      BY <2>1 DEF Dispencer
    <3> DEFINE b == free.getCounters \/ counters_enable
               keep == free.order /\ free.full
               c == free.isPay /\ keep
               some == [free EXCEPT !.getCounters = b]
               more == [some EXCEPT !.isPay = c]
    <3>2. CASE free.orig > dds_Filling /\ free.dstate = ds_Filling
      <4>1. over = [free EXCEPT !.getCounters = b, !.isPay = c,
                           !.command = IF c THEN "Payment" ELSE @]
        <5>1. ~(free.dstate > ds_Filling)
          BY <3>2 DEF ds_Filling
        <5>2. EndOfFill(free) =
                [free EXCEPT !.getCounters = @ \/ counters_enable, !.isPay = @ /\ keep,
                             !.command = IF free.isPay /\ keep THEN "Payment" ELSE @]
          BY <3>2, <5>1, Zenon DEF EndOfFill
        <5> QED
          BY <5>2
      <4>2. b \in BOOLEAN /\ c \in BOOLEAN
        BY <3>1
      <4> HIDE DEF b, c
      <4>3. some \in Dispencer /\ Same(some, free)
        BY <2>1, <4>2 DEF Dispencer, Same
      <4>4. over = [more EXCEPT !.command = IF c THEN "Payment" ELSE @]
        BY <4>1
      <4> HIDE DEF some, over
      <4>5. more \in Dispencer /\ Same(more, some)
        BY <4>2, <4>3 DEF Dispencer, Same
      <4> HIDE DEF more
      <4>6. more.command = "Free"
        BY <2>1, <4>3, <4>5 DEF Same
      <4>7. over = more \/ over = [more EXCEPT !.command = "Payment"]
        <5>1. CASE c
          BY <4>4, <5>1
        <5>2. CASE ~c
          BY <4>4, <4>5, <5>2 DEF Dispencer
        <5> QED
          BY <5>1, <5>2
      <4>8. /\ over \in Dispencer /\ over.orig = more.orig /\ over.naks = more.naks
            /\ over.preset = more.preset /\ over.command \in {"Free", "Payment"}
        BY <4>5, <4>6, <4>7 DEF Dispencer, Commands
      <4>9. over.order = more.order /\ over.start = more.start /\ over.stop = more.stop
        BY <4>5, <4>7 DEF Dispencer
      <4> QED
        BY <2>1, <3>2, <4>3, <4>5, <4>8, <4>9 DEF Same
    <3>3. CASE ~(free.orig > dds_Filling /\ free.dstate = ds_Filling)
      <4>1. over = free \/ (over = [free EXCEPT !.command = "Payment"] /\ free.orig > dds_Filling)
        BY <3>3 DEF EndOfFill
      <4> HIDE DEF over
      <4> QED
        BY <2>1, <4>1 DEF Dispencer, Commands
    <3> QED
      BY <3>2, <3>3
  <2>3. SelectNext(d) = InterpretStatus(over)
    BY <1>3 DEF SelectNext, free, over
  <2> HIDE DEF over
  <2>4. SelectNext(d) \in Dispencer /\ Same(SelectNext(d), over)
    BY <2>2, <2>3, StatusType
  <2>5. ~d.stop
    BY <1>1, <1>3
  <2> QED
    BY <2>2, <2>4, <2>5 DEF Same
<1> QED
  BY <1>2, <1>3

(* The report of a pump changes what is reported and how it is shown.      *)
LEMMA DataType ==
    ASSUME NEW d \in Dispencer, NEW f, f.status \in 0..7, f.nozzle \in BOOLEAN,
           f.full \in BOOLEAN
    PROVE  LET e == InterpretData(d, f)
           IN  /\ e \in Dispencer /\ e.orig = f.status
               /\ e.command = d.command /\ e.naks = d.naks /\ e.preset = d.preset
               /\ e.order = d.order /\ e.start = d.start /\ e.stop = d.stop
<1> DEFINE s == CASE f.nozzle /\ ~d.nozzle /\ d.dstate = ds_Free -> ds_NozzleOut
                  [] ~f.nozzle /\ d.nozzle /\ d.dstate = ds_NozzleOut -> ds_Free
                  [] ~f.nozzle /\ d.nozzle /\ d.dstate = ds_Filling -> ds_Finish
                  [] OTHER -> d.dstate
<1>1. d.dstate \in 0..7
  BY DEF Dispencer
<1>2. s \in 0..7
  BY <1>1 DEF ds_NozzleOut, ds_Free, ds_Finish
<1>3. InterpretData(d, f) = [d EXCEPT !.orig = f.status, !.full = f.full, !.nozzle = f.nozzle,
                                      !.dstate = s]
  BY DEF InterpretData, Dispencer
<1> HIDE DEF s
<1>4. f.status \in 0..7
  OBVIOUS
<1>5. InterpretData(d, f) \in Dispencer
  BY <1>2, <1>3, <1>4 DEF Dispencer
<1>6. InterpretData(d, f).orig = f.status
  BY <1>3 DEF Dispencer
<1>7. Same([InterpretData(d, f) EXCEPT !.orig = d.orig], d)
  BY <1>3 DEF Dispencer, Same
<1> QED
  BY <1>3, <1>5, <1>6 DEF Dispencer

(* A sign of life, and a move of the exchange, leave the rest alone.       *)
LEMMA LifeType ==
    ASSUME NEW d \in Dispencer
    PROVE  LET e == [d EXCEPT !.errors = 0]
           IN  e \in Dispencer /\ Same(e, d) /\ e.mode = d.mode /\ e.xstate = d.xstate
BY DartAssumption DEF Dispencer, Same

LEMMA ExchangeType ==
    ASSUME NEW d \in Dispencer, NEW x \in {"Free", "SendCommand", "ReadyAck", "ReadyNak"}
    PROVE  LET e == [d EXCEPT !.xstate = x]
           IN  e \in Dispencer /\ Same(e, d) /\ e.mode = d.mode /\ e.xstate = x
BY DEF Dispencer, Same

LEMMA ModeType ==
    ASSUME NEW d \in Dispencer, NEW m \in {"Pooling", "SendCommand"}
    PROVE  LET e == [d EXCEPT !.mode = m]
           IN  e \in Dispencer /\ Same(e, d) /\ e.mode = m /\ e.xstate = d.xstate
BY DEF Dispencer, Same

LEMMA ShownType ==
    ASSUME NEW d \in Dispencer, NEW s \in 0..7
    PROVE  LET e == [d EXCEPT !.dstate = s]
           IN  e \in Dispencer /\ Same(e, d) /\ e.mode = d.mode /\ e.xstate = d.xstate
BY DEF Dispencer, Same

(* The counters to read are nothing to the exchange.                       *)
LEMMA CountersType ==
    ASSUME NEW d \in Dispencer, NEW b \in BOOLEAN, NEW k \in 0..NozzleCount
    PROVE  LET e == [d EXCEPT !.getCounters = b, !.counter = k]
           IN  e \in Dispencer /\ Same(e, d) /\ e.mode = d.mode /\ e.xstate = d.xstate
BY DEF Dispencer, Same

(* The Naks of a command.                                                  *)
LEMMA NaksType ==
    ASSUME NEW d \in Dispencer, NEW k \in Nat
    PROVE  LET e == [d EXCEPT !.naks = k]
           IN  /\ e \in Dispencer /\ e.naks = k /\ e.mode = d.mode /\ e.xstate = d.xstate
               /\ e.command = d.command /\ e.orig = d.orig /\ e.preset = d.preset
               /\ e.order = d.order /\ e.start = d.start /\ e.stop = d.stop
BY DEF Dispencer

(* What the pump, the history and the bounds are.                          *)
Pump == [state : 0 .. 7, nozzle : BOOLEAN, order : Orders, full : BOOLEAN,
         news : {"none", "new", "sent"}, alive : BOOLEAN]
Seen == [acted : BOOLEAN, dropped : BOOLEAN, raced : BOOLEAN, start : Orders, ahead : 0 .. 2]

LEMMA PumpType ==
    ASSUME NEW p \in Pump
    PROVE  /\ \A s \in 0..7 : [p EXCEPT !.state = s] \in Pump
           /\ \A b \in BOOLEAN : [p EXCEPT !.full = b] \in Pump /\ [p EXCEPT !.nozzle = b] \in Pump
           /\ [p EXCEPT !.news = "new"] \in Pump
BY DEF Pump

LEMMA EffectType ==
    ASSUME NEW p \in Pump, NEW f, f.kind \in Commands => f.order \in Orders
    PROVE  LET e == Effect(p, f)
           IN  /\ e \in Pump /\ e.nozzle = p.nozzle /\ e.news = p.news
               /\ e.state \in {p.state, dds_Reset, dds_Authorized, dds_FillingComplete}
<1>1. dds_Reset \in 0..7 /\ dds_Authorized \in 0..7 /\ dds_FillingComplete \in 0..7
  BY DEF dds_Reset, dds_Authorized, dds_FillingComplete
<1>2. 0 \in Orders
  BY DartAssumption DEF Orders
<1>3. CASE f.kind = "Preset"
  <2>1. f.order \in Orders
    BY <1>3 DEF Commands
  <2>2. Effect(p, f) = [p EXCEPT !.order = f.order, !.full = FALSE]
    BY <1>3 DEF Effect
  <2> QED
    BY <2>1, <2>2 DEF Pump
<1>4. CASE f.kind = "Start"
  <2>1. Effect(p, f) = p \/ Effect(p, f) = [p EXCEPT !.state = dds_Authorized]
    BY <1>4 DEF Effect
  <2> QED
    BY <1>1, <2>1 DEF Pump
<1>5. CASE f.kind = "Stop"
  <2>1. Effect(p, f) = p \/ Effect(p, f) = [p EXCEPT !.state = dds_FillingComplete]
    BY <1>5 DEF Effect
  <2> QED
    BY <1>1, <2>1 DEF Pump
<1>6. CASE f.kind \in {"Reset", "Payment"}
  <2>1. Effect(p, f) = [p EXCEPT !.state = dds_Reset, !.order = 0, !.full = FALSE]
    BY <1>6 DEF Effect
  <2> HIDE DEF Effect
  <2> QED
    BY <1>1, <1>2, <2>1 DEF Pump
<1>7. CASE f.kind \notin {"Preset", "Start", "Stop", "Reset", "Payment"}
  BY <1>7 DEF Effect
<1> QED
  BY <1>3, <1>4, <1>5, <1>6, <1>7

-----------------------------------------------------------------------------
(* The invariant.                                                          *)
Delivering == pump.state \in {dds_Authorized, dds_Filling}

(* Which frame may be on the line, where the driver is in an exchange, and *)
(* that a command counts as obeyed before the driver hears of it.          *)
Exchange ==
  /\ line.kind # "counter"
  /\ line.kind \in Commands \cup {"ack", "nak"} =>
        reader = "idle" /\ disp.mode = "SendCommand" /\ disp.xstate = "SendCommand"
  /\ line.kind \in Commands => line.kind = disp.command
  /\ line.kind \in {"poll", "repeat", "eot", "data", "garbled"} =>
        /\ reader = "idle" /\ disp.mode = "Pooling"
        /\ disp.xstate \in {"SendCommand", "ReadyNak"}
  /\ line.kind = "confirm" =>
        reader = "idle" /\ disp.mode = "Pooling" /\ disp.xstate = "Free"
  /\ reader = "ack" => disp.mode = "SendCommand" /\ disp.xstate = "Free"
  /\ reader = "eot" => disp.mode = "Pooling"
  /\ disp.mode = "SendCommand" => disp.xstate \in {"Free", "SendCommand"}
  /\ (line.kind = "ack" \/ reader # "idle" \/ disp.mode = "Pooling")
       /\ disp.command # "Free" => seen.acted

(* What the driver knows of the pump's state, while the pump has nothing   *)
(* new to report; a payment is settled when there is no delivery.          *)
Reports ==
  /\ pump.news = "none" => disp.orig = pump.state
  /\ line.kind = "data" =>
        pump.news # "none" /\ (pump.news = "sent" => line.status = pump.state)
  /\ pump.news = "sent" /\ (disp.xstate = "ReadyAck" \/ line.kind = "confirm") =>
        disp.orig = pump.state
  /\ (line.kind = "eot" \/ reader = "eot") /\ disp.orig > dds_Filling => ~Delivering
  /\ disp.command = "Payment" => ~Delivering

(* After one command a stop that is asked for is the next.                 *)
Stops ==
  /\ seen.ahead <= 1
  /\ disp.stop /\ seen.ahead = 1 =>
       /\ line.kind \in Commands => line.kind = "Stop"
       /\ reader = "idle" /\ disp.mode = "SendCommand" /\ disp.xstate = "Free" =>
            disp.command = "Stop"

Ending == disp.command \in {"Reset", "Payment"}

(* The order the driver holds, the one its flags are for, and the one the  *)
(* pump has got.                                                           *)
Held ==
  /\ disp.start => seen.start = disp.preset /\ disp.preset # 0
  /\ disp.order => disp.preset # 0
  /\ line.kind = "Preset" => line.order = disp.preset
  /\ disp.command = "Preset" => disp.preset # 0
  /\ disp.command = "Preset" /\ seen.acted => pump.order = disp.preset
  /\ disp.order /\ ~seen.dropped => pump.order = disp.preset \/ (seen.acted /\ Ending)
  /\ disp.command = "Start" => disp.order /\ (AutoStart \/ disp.start)
  /\ reader = "eot" /\ Ending => disp.preset = 0 /\ ~disp.order /\ ~disp.start

Control == Exchange /\ Reports /\ Stops /\ Held

IInv == Types /\ (Exact => Control)

(* A stop that is new has let no command pass; one that is repeated        *)
(* changes nothing.                                                        *)
LEMMA StopCallStep ==
    ASSUME IInv, StopCall
    PROVE  IInv'
<1>1. /\ disp' \in Dispencer /\ disp'.command = disp.command
      /\ disp'.orig = disp.orig /\ disp'.naks = disp.naks /\ disp'.preset = disp.preset
      /\ disp'.order = disp.order /\ disp'.start = disp.start /\ disp'.stop = TRUE
      /\ disp'.mode = disp.mode /\ disp'.xstate = disp.xstate
  BY DartAssumption DEF StopCall, bounds, IInv, Types, TypeOK, Dispencer, Same, Commands,
         Orders
<1>2. Types'
  <2>1. LineOK' /\ OneNak'
    BY <1>1, DartAssumption DEF StopCall, bounds, IInv, Types, TypeOK, LineOK, OneNak,
         Commands
  <2>2. TypeOK'
    BY <1>1, <2>1, DartAssumption DEF StopCall, bounds, IInv, Types, TypeOK, OneNak,
         Commands, FromPump, Orders
  <2> QED
    BY <1>1, <2>1, <2>2 DEF StopCall, bounds, IInv, Types, TypeOK, LineOK, Reported
<1>3. SUFFICES ASSUME Exact' PROVE Control'
  BY <1>2 DEF IInv
<1>4. Exact
  BY <1>3 DEF StopCall, bounds, IInv, Types, TypeOK, Exact
<1>5. Types /\ Control
  BY <1>4 DEF IInv
<1>6. Exchange'
  BY <1>1, <1>3, <1>4, <1>5 DEF StopCall, bounds, Control, Exchange, Types, TypeOK, Commands
<1>7. Reports'
  BY <1>1, <1>3, <1>4, <1>5 DEF StopCall, bounds, Control, Exchange, Reports, Delivering,
         Types, TypeOK, Commands
<1>8. Stops'
  BY <1>1, <1>3, <1>4, <1>5 DEF StopCall, bounds, Control, Exchange, Stops, Types, TypeOK,
         Commands
<1>9. Held'
  BY <1>1, <1>3, <1>4, <1>5 DEF StopCall, bounds, Control, Exchange, Held, Ending, Types,
         TypeOK, Commands
<1> QED
  BY <1>6, <1>7, <1>8, <1>9 DEF Control

(* The reset flag is not looked at before the next selection.              *)
LEMMA ResetCallStep ==
    ASSUME IInv, ResetCall
    PROVE  IInv'
<1>1. /\ disp' \in Dispencer /\ Same(disp', disp)
      /\ disp'.mode = disp.mode /\ disp'.xstate = disp.xstate
  BY DartAssumption DEF ResetCall, bounds, IInv, Types, TypeOK, Dispencer, Same, Commands,
         Orders
<1>2. Types'
  <2>1. LineOK' /\ OneNak'
    BY <1>1, DartAssumption DEF ResetCall, bounds, IInv, Types, TypeOK, LineOK, OneNak,
         Commands, Same
  <2>2. TypeOK'
    BY <1>1, <2>1, DartAssumption DEF ResetCall, bounds, IInv, Types, TypeOK, OneNak,
         Commands, FromPump, Orders, Same
  <2> QED
    BY <1>1, <2>1, <2>2 DEF ResetCall, bounds, IInv, Types, TypeOK, LineOK, Reported, Same
<1>3. SUFFICES ASSUME Exact' PROVE Control'
  BY <1>2 DEF IInv
<1>4. Exact
  BY <1>3 DEF ResetCall, bounds, IInv, Types, TypeOK, Exact
<1>5. Types /\ Control
  BY <1>4 DEF IInv
<1>6. Exchange'
  BY <1>1, <1>3, <1>4, <1>5 DEF ResetCall, bounds, Control, Exchange, Types, TypeOK,
         Commands, Same
<1>7. Reports'
  BY <1>1, <1>3, <1>4, <1>5 DEF ResetCall, bounds, Control, Exchange, Reports, Delivering,
         Types, TypeOK, Commands, Same
<1>8. Stops'
  BY <1>1, <1>3, <1>4, <1>5 DEF ResetCall, bounds, Control, Exchange, Stops, Types, TypeOK,
         Commands, Same
<1>9. Held'
  BY <1>1, <1>3, <1>4, <1>5 DEF ResetCall, bounds, Control, Exchange, Held, Ending, Types,
         TypeOK, Commands, Same
<1> QED
  BY <1>6, <1>7, <1>8, <1>9 DEF Control

(* A new order comes when no command is current, so no flag can be for     *)
(* another one.                                                            *)
LEMMA DoseStep ==
    ASSUME IInv, Dose
    PROVE  IInv'
<1>1. /\ disp' \in Dispencer /\ disp'.command = disp.command
      /\ disp'.orig = disp.orig /\ disp'.naks = disp.naks /\ disp'.preset = orders + 1
      /\ disp'.order = disp.order /\ disp'.start = disp.start /\ disp'.stop = disp.stop
      /\ disp'.mode = disp.mode /\ disp'.xstate = disp.xstate
  BY DartAssumption DEF Dose, Orders, IInv, Types, TypeOK, Dispencer, Same, Commands, Orders
<1>2. Types'
  <2>1. LineOK' /\ OneNak'
    BY <1>1, DartAssumption DEF Dose, Orders, IInv, Types, TypeOK, LineOK, OneNak, Commands
  <2>2. TypeOK'
    BY <1>1, <2>1, DartAssumption DEF Dose, Orders, IInv, Types, TypeOK, OneNak, Commands,
         FromPump
  <2> QED
    BY <1>1, <2>1, <2>2 DEF Dose, Orders, IInv, Types, TypeOK, LineOK, Reported
<1>3. SUFFICES ASSUME Exact' PROVE Control'
  BY <1>2 DEF IInv
<1>4. Exact
  BY <1>3 DEF Dose, Orders, IInv, Types, TypeOK, Exact
<1>5. Types /\ Control
  BY <1>4 DEF IInv
<1>6. Exchange'
  BY <1>1, <1>3, <1>4, <1>5 DEF Dose, Orders, Control, Exchange, Types, TypeOK, Commands
<1>7. Reports'
  BY <1>1, <1>3, <1>4, <1>5 DEF Dose, Orders, Control, Exchange, Reports, Delivering, Types,
         TypeOK, Commands
<1>8. Stops'
  BY <1>1, <1>3, <1>4, <1>5 DEF Dose, Orders, Control, Exchange, Stops, Types, TypeOK,
         Commands
<1>9. Held'
  BY <1>1, <1>3, <1>4, <1>5 DEF Dose, Orders, Control, Exchange, Held, Ending, Types,
         TypeOK, Commands
<1> QED
  BY <1>6, <1>7, <1>8, <1>9 DEF Control

(* The call remembers the order it was checked for, which is one.          *)
LEMMA BeginCallStep ==
    ASSUME IInv, BeginCall
    PROVE  IInv'
<1>1. disp' = disp
  BY DEF BeginCall, Checked
<1>2. Types'
  <2>1. LineOK' /\ OneNak'
    BY <1>1, DartAssumption DEF BeginCall, Checked, bounds, IInv, Types, TypeOK, LineOK,
         OneNak, Commands, Dispencer
  <2>2. TypeOK'
    BY <1>1, <2>1, DartAssumption DEF BeginCall, Checked, bounds, IInv, Types, TypeOK,
         OneNak, Commands, FromPump, Orders, Dispencer
  <2> QED
    BY <1>1, <2>1, <2>2 DEF BeginCall, Checked, bounds, IInv, Types, TypeOK, LineOK,
         Reported
<1>3. SUFFICES ASSUME Exact' PROVE Control'
  BY <1>2 DEF IInv
<1>4. Exact
  BY <1>3 DEF BeginCall, Checked, bounds, IInv, Types, TypeOK, Exact
<1>5. Types /\ Control
  BY <1>4 DEF IInv
<1>6. Exchange'
  BY <1>1, <1>3, <1>4, <1>5 DEF BeginCall, Checked, bounds, Control, Exchange, Types,
         TypeOK, Commands
<1>7. Reports'
  BY <1>1, <1>3, <1>4, <1>5 DEF BeginCall, Checked, bounds, Control, Exchange, Reports,
         Delivering, Types, TypeOK, Commands
<1>8. Stops'
  BY <1>1, <1>3, <1>4, <1>5 DEF BeginCall, Checked, bounds, Control, Exchange, Stops, Types,
         TypeOK, Commands
<1>9. Held'
  BY <1>1, <1>3, <1>4, <1>5 DEF BeginCall, Checked, bounds, Control, Exchange, Held, Ending,
         Types, TypeOK, Commands
<1> QED
  BY <1>6, <1>7, <1>8, <1>9 DEF Control

(* A start flag is for the order of its call; when another order is there  *)
(* by now the call has been overtaken, and nothing more is claimed.        *)
LEMMA SetFlagStep ==
    ASSUME IInv, SetFlag
    PROVE  IInv'
<1>1. /\ disp' \in Dispencer /\ disp'.command = disp.command /\ disp'.mode = disp.mode
      /\ disp'.xstate = disp.xstate /\ disp'.orig = disp.orig /\ disp'.naks = disp.naks
      /\ disp'.preset = disp.preset /\ disp'.order = disp.order /\ disp'.stop = disp.stop
      /\ api.call = "start" => disp'.start
      /\ api.call # "start" => disp'.start = disp.start
  <2>1. disp \in Dispencer
    BY DEF IInv, Types, TypeOK
  <2>2. CASE api.call = "start"
    BY <2>1, <2>2 DEF SetFlag, Dispencer
  <2>3. CASE api.call # "start"
    BY <2>1, <2>3 DEF SetFlag, Dispencer
  <2> QED
    BY <2>2, <2>3
<1>2. /\ seen' \in Seen /\ seen'.acted = seen.acted /\ seen'.dropped = seen.dropped
      /\ seen'.ahead = seen.ahead /\ (~seen'.raced => ~seen.raced /\ disp.preset = api.order)
      /\ seen'.start = IF api.call = "start" THEN api.order ELSE seen.start
  <2>1. seen \in Seen /\ api.order \in Orders
    BY DEF IInv, Types, TypeOK, Seen
  <2>2. (seen.raced \/ Overtaken) \in BOOLEAN
    OBVIOUS
  <2>3. (IF api.call = "start" THEN api.order ELSE seen.start) \in Orders
    BY <2>1 DEF Seen
  <2> QED
    BY <2>1, <2>2, <2>3 DEF SetFlag, Seen, Overtaken
<1>3. Types'
  <2>1. LineOK' /\ OneNak' /\ api'.call = "none"
    BY <1>1 DEF SetFlag, IInv, Types, LineOK, OneNak
  <2>2. TypeOK'
    BY <1>1, <1>2, DartAssumption DEF SetFlag, bounds, IInv, Types, TypeOK, Seen, Orders
  <2> QED
    BY <1>1, <2>1, <2>2 DEF SetFlag, IInv, Types
<1>4. SUFFICES ASSUME Exact' PROVE Control'
  BY <1>3 DEF IInv
<1>5. Exact
  BY <1>2, <1>4 DEF SetFlag, Exact
<1>6. Types /\ Control
  BY <1>5 DEF IInv
<1>7. Exchange'
  BY <1>1, <1>2, <1>6 DEF SetFlag, Control, Exchange
<1>8. Reports'
  BY <1>1, <1>6 DEF SetFlag, Control, Reports, Delivering
<1>9. Stops'
  BY <1>1, <1>2, <1>6 DEF SetFlag, Control, Stops
<1>10. Held'
  <2>1. disp.preset = api.order /\ api.order # 0
    BY <1>2, <1>4, <1>6 DEF Exact, Types, SetFlag
  <2> QED
    BY <1>1, <1>2, <1>6, <2>1 DEF SetFlag, Control, Held, Ending
<1> QED
  BY <1>7, <1>8, <1>9, <1>10 DEF Control

(* A write turn without an answer only counts.                             *)
LEMMA TickStep ==
    ASSUME IInv, Tick
    PROVE  IInv'
<1>1. /\ disp' \in Dispencer /\ Same(disp', disp)
      /\ disp'.mode = disp.mode /\ disp'.xstate = disp.xstate
  BY DartAssumption DEF Tick, bounds, IInv, Types, TypeOK, Dispencer, Same, Commands, Orders
<1>2. Types'
  <2>1. LineOK' /\ OneNak'
    BY <1>1, DartAssumption DEF Tick, bounds, IInv, Types, TypeOK, LineOK, OneNak, Commands,
         Same
  <2>2. TypeOK'
    BY <1>1, <2>1, DartAssumption DEF Tick, bounds, IInv, Types, TypeOK, OneNak, Commands,
         FromPump, Orders, Same
  <2> QED
    BY <1>1, <2>1, <2>2 DEF Tick, bounds, IInv, Types, TypeOK, LineOK, Reported, Same
<1>3. SUFFICES ASSUME Exact' PROVE Control'
  BY <1>2 DEF IInv
<1>4. Exact
  BY <1>3 DEF Tick, bounds, IInv, Types, TypeOK, Exact
<1>5. Types /\ Control
  BY <1>4 DEF IInv
<1>6. Exchange'
  BY <1>1, <1>3, <1>4, <1>5 DEF Tick, bounds, Control, Exchange, Types, TypeOK, Commands,
         Same
<1>7. Reports'
  BY <1>1, <1>3, <1>4, <1>5 DEF Tick, bounds, Control, Exchange, Reports, Delivering, Types,
         TypeOK, Commands, Same
<1>8. Stops'
  BY <1>1, <1>3, <1>4, <1>5 DEF Tick, bounds, Control, Exchange, Stops, Types, TypeOK,
         Commands, Same
<1>9. Held'
  BY <1>1, <1>3, <1>4, <1>5 DEF Tick, bounds, Control, Exchange, Held, Ending, Types,
         TypeOK, Commands, Same
<1> QED
  BY <1>6, <1>7, <1>8, <1>9 DEF Control

(* The time-out drops the current command with the exchange; one that has  *)
(* ended an order without the driver knowing counts as dropped.            *)
LEMMA GiveUpStep ==
    ASSUME IInv, GiveUp
    PROVE  IInv'
<1>1. /\ disp' \in Dispencer /\ disp'.command = "Free"
      /\ disp'.orig = disp.orig /\ disp'.naks = disp.naks /\ disp'.preset = disp.preset
      /\ disp'.order = disp.order /\ disp'.start = disp.start /\ disp'.stop = disp.stop
      /\ disp'.mode = "Pooling" /\ disp'.xstate = "Free"
  <2> DEFINE a == [disp EXCEPT !.xstate = "Free"]
             b == [a EXCEPT !.mode = "Pooling"]
             c == [b EXCEPT !.command = "Free"]
             d == [c EXCEPT !.dstate = ds_ConnectionError]
             e == [d EXCEPT !.getCounters = TRUE, !.counter = 0]
  <2>1. disp \in Dispencer /\ ds_ConnectionError \in 0..7 /\ TRUE \in BOOLEAN
        /\ 0 \in 0..NozzleCount
    BY DartAssumption DEF IInv, Types, TypeOK, ds_ConnectionError
  <2>2. a \in Dispencer /\ Same(a, disp) /\ a.xstate = "Free"
    BY <2>1, ExchangeType
  <2>3. disp' = [e EXCEPT !.errors = 0]
    BY DEF GiveUp
  <2> HIDE DEF a
  <2>4. b \in Dispencer /\ Same(b, a) /\ b.mode = "Pooling" /\ b.xstate = "Free"
    BY <2>2, ModeType
  <2> HIDE DEF b
  <2>5. /\ c \in Dispencer /\ c.command = "Free" /\ c.orig = b.orig /\ c.naks = b.naks
        /\ c.preset = b.preset /\ c.order = b.order /\ c.start = b.start /\ c.stop = b.stop
        /\ c.mode = b.mode /\ c.xstate = b.xstate
    BY <2>4 DEF Dispencer, Commands
  <2> HIDE DEF c
  <2>6. d \in Dispencer /\ Same(d, c) /\ d.mode = c.mode /\ d.xstate = c.xstate
    BY <2>1, <2>5, ShownType
  <2> HIDE DEF d
  <2>7. e \in Dispencer /\ Same(e, d) /\ e.mode = d.mode /\ e.xstate = d.xstate
    BY <2>1, <2>6, CountersType
  <2> HIDE DEF e
  <2>8. disp' \in Dispencer /\ Same(disp', e) /\ disp'.mode = e.mode /\ disp'.xstate = e.xstate
    BY <2>3, <2>7, LifeType
  <2> QED
    BY <2>2, <2>4, <2>5, <2>6, <2>7, <2>8 DEF Same
<1>2. Types'
  <2>0. pump \in Pump /\ seen \in Seen
    BY DEF IInv, Types, TypeOK, Pump, Seen
  <2>1. LineOK' /\ OneNak'
    BY <1>1, DartAssumption DEF GiveUp, Quiet, ds_ConnectionError, bounds, IInv, Types,
         TypeOK, LineOK, OneNak, Commands
  <2>2. pump' \in Pump /\ seen' \in Seen
    BY <2>0 DEF GiveUp, Quiet, ds_ConnectionError, bounds, Pump, Seen
  <2>3. faults' \in 0 .. MaxFaults /\ events' \in 0 .. MaxEvents
    BY DartAssumption DEF GiveUp, Quiet, ds_ConnectionError, bounds, IInv, Types, TypeOK
  <2>4. TypeOK'
    BY <1>1, <2>1, <2>2, <2>3, DartAssumption DEF GiveUp, Quiet, ds_ConnectionError, bounds,
         IInv, Types, TypeOK, Pump, Seen, OneNak, Commands, FromPump
  <2> QED
    BY <1>1, <2>1, <2>4 DEF GiveUp, Quiet, ds_ConnectionError, bounds, IInv, Types, TypeOK,
         LineOK, Reported
<1>3. SUFFICES ASSUME Exact' PROVE Control'
  BY <1>2 DEF IInv
<1>4. Exact
  BY <1>3 DEF GiveUp, Quiet, ds_ConnectionError, bounds, IInv, Types, TypeOK, Exact
<1>5. Types /\ Control
  BY <1>4 DEF IInv
<1>6. Exchange'
  BY <1>1, <1>3, <1>4, <1>5 DEF GiveUp, Quiet, ds_ConnectionError, bounds, Control,
         Exchange, Types, TypeOK, Commands
<1>7. Reports'
  BY <1>1, <1>3, <1>4, <1>5 DEF GiveUp, Quiet, ds_ConnectionError, bounds, Control,
         Exchange, Reports, Delivering, Types, TypeOK, Commands
<1>8. Stops'
  BY <1>1, <1>3, <1>4, <1>5 DEF GiveUp, Quiet, ds_ConnectionError, bounds, Control,
         Exchange, Stops, Types, TypeOK, Commands
<1>9. Held'
  BY <1>1, <1>3, <1>4, <1>5 DEF GiveUp, Quiet, ds_ConnectionError, bounds, Control,
         Exchange, Held, Ending, Types, TypeOK, Commands
<1> QED
  BY <1>6, <1>7, <1>8, <1>9 DEF Control

(* A poll goes out when nothing is on the line and no handler is running.  *)
LEMMA PollStep ==
    ASSUME IInv, Poll
    PROVE  IInv'
<1>1. /\ disp' \in Dispencer /\ disp'.command = disp.command
      /\ disp'.orig = disp.orig /\ disp'.naks = disp.naks /\ disp'.preset = disp.preset
      /\ disp'.order = disp.order /\ disp'.start = disp.start /\ disp'.stop = disp.stop
      /\ disp'.mode = disp.mode /\ disp'.xstate = "SendCommand"
  <2> DEFINE a == [disp EXCEPT !.xstate = "SendCommand"]
  <2>1. disp \in Dispencer
    BY DEF IInv, Types, TypeOK
  <2>2. a \in Dispencer /\ Same(a, disp) /\ a.mode = disp.mode /\ a.xstate = "SendCommand"
    BY <2>1, ExchangeType
  <2>3. disp' = [a EXCEPT !.errors = 0]
    BY DEF Poll
  <2> HIDE DEF a
  <2> QED
    BY <2>2, <2>3, LifeType DEF Same
<1>2. Types'
  <2>0. pump \in Pump /\ seen \in Seen
    BY DEF IInv, Types, TypeOK, Pump, Seen
  <2>1. LineOK' /\ OneNak'
    BY <1>1, DartAssumption DEF Poll, Turn, Put, Quiet, Fault, bounds, IInv, Types, TypeOK,
         LineOK, OneNak, Commands
  <2>2. pump' \in Pump /\ seen' \in Seen
    BY <2>0 DEF Poll, Turn, Put, Quiet, Fault, bounds, Pump, Seen
  <2>3. faults' \in 0 .. MaxFaults /\ events' \in 0 .. MaxEvents
    BY DartAssumption DEF Poll, Turn, Put, Quiet, Fault, bounds, IInv, Types, TypeOK
  <2>4. TypeOK'
    BY <1>1, <2>1, <2>2, <2>3, DartAssumption DEF Poll, Turn, Put, Quiet, Fault, bounds,
         IInv, Types, TypeOK, Pump, Seen, OneNak, Commands, FromPump
  <2> QED
    BY <1>1, <2>1, <2>4 DEF Poll, Turn, Put, Quiet, Fault, bounds, IInv, Types, TypeOK,
         LineOK, Reported
<1>3. SUFFICES ASSUME Exact' PROVE Control'
  BY <1>2 DEF IInv
<1>4. Exact
  BY <1>3 DEF Poll, Turn, Put, Quiet, Fault, bounds, IInv, Types, TypeOK, Exact
<1>5. Types /\ Control /\ reader = "idle"
  BY <1>3, <1>4 DEF IInv, Types, TypeOK, Exact, Turn, Poll
<1>6. Exchange'
  BY <1>1, <1>3, <1>4, <1>5 DEF Poll, Turn, Put, Quiet, Fault, bounds, Control, Exchange,
         Types, TypeOK, Commands, Exact
<1>7. Reports'
  BY <1>1, <1>3, <1>4, <1>5 DEF Poll, Turn, Put, Quiet, Fault, bounds, Control, Exchange,
         Reports, Delivering, Types, TypeOK, Commands, Exact
<1>8. Stops'
  BY <1>1, <1>3, <1>4, <1>5 DEF Poll, Turn, Put, Quiet, Fault, bounds, Control, Exchange,
         Stops, Types, TypeOK, Commands, Exact
<1>9. Held'
  BY <1>1, <1>3, <1>4, <1>5 DEF Poll, Turn, Put, Quiet, Fault, bounds, Control, Exchange,
         Held, Ending, Types, TypeOK, Commands, Exact
<1> QED
  BY <1>6, <1>7, <1>8, <1>9 DEF Control

(* A report is confirmed, and if the pump has nothing newer the driver     *)
(* knows its state.                                                        *)
LEMMA SendAckStep ==
    ASSUME IInv, SendAck
    PROVE  IInv'
<1>1. /\ disp' \in Dispencer /\ disp'.command = disp.command
      /\ disp'.orig = disp.orig /\ disp'.naks = disp.naks /\ disp'.preset = disp.preset
      /\ disp'.order = disp.order /\ disp'.start = disp.start /\ disp'.stop = disp.stop
      /\ disp'.mode = disp.mode /\ disp'.xstate = "Free"
  <2> DEFINE a == [disp EXCEPT !.xstate = "Free"]
  <2>1. disp \in Dispencer
    BY DEF IInv, Types, TypeOK
  <2>2. a \in Dispencer /\ Same(a, disp) /\ a.mode = disp.mode /\ a.xstate = "Free"
    BY <2>1, ExchangeType
  <2>3. disp' = [a EXCEPT !.errors = 0]
    BY DEF SendAck
  <2> HIDE DEF a
  <2> QED
    BY <2>2, <2>3, LifeType DEF Same
<1>2. Types'
  <2>0. pump \in Pump /\ seen \in Seen
    BY DEF IInv, Types, TypeOK, Pump, Seen
  <2>1. LineOK' /\ OneNak'
    BY <1>1, DartAssumption DEF SendAck, Turn, Put, Quiet, Fault, bounds, IInv, Types,
         TypeOK, LineOK, OneNak, Commands
  <2>2. pump' \in Pump /\ seen' \in Seen
    BY <2>0 DEF SendAck, Turn, Put, Quiet, Fault, bounds, Pump, Seen
  <2>3. faults' \in 0 .. MaxFaults /\ events' \in 0 .. MaxEvents
    BY DartAssumption DEF SendAck, Turn, Put, Quiet, Fault, bounds, IInv, Types, TypeOK
  <2>4. TypeOK'
    BY <1>1, <2>1, <2>2, <2>3, DartAssumption DEF SendAck, Turn, Put, Quiet, Fault, bounds,
         IInv, Types, TypeOK, Pump, Seen, OneNak, Commands, FromPump
  <2> QED
    BY <1>1, <2>1, <2>4 DEF SendAck, Turn, Put, Quiet, Fault, bounds, IInv, Types, TypeOK,
         LineOK, Reported
<1>3. SUFFICES ASSUME Exact' PROVE Control'
  BY <1>2 DEF IInv
<1>4. Exact
  BY <1>3 DEF SendAck, Turn, Put, Quiet, Fault, bounds, IInv, Types, TypeOK, Exact
<1>5. Types /\ Control /\ reader = "idle"
  BY <1>3, <1>4 DEF IInv, Types, TypeOK, Exact, Turn, SendAck
<1>6. Exchange'
  BY <1>1, <1>3, <1>4, <1>5 DEF SendAck, Turn, Put, Quiet, Fault, bounds, Control, Exchange,
         Types, TypeOK, Commands, Exact
<1>7. Reports'
  BY <1>1, <1>3, <1>4, <1>5 DEF SendAck, Turn, Put, Quiet, Fault, bounds, Control, Exchange,
         Reports, Delivering, Types, TypeOK, Commands, Exact
<1>8. Stops'
  BY <1>1, <1>3, <1>4, <1>5 DEF SendAck, Turn, Put, Quiet, Fault, bounds, Control, Exchange,
         Stops, Types, TypeOK, Commands, Exact
<1>9. Held'
  BY <1>1, <1>3, <1>4, <1>5 DEF SendAck, Turn, Put, Quiet, Fault, bounds, Control, Exchange,
         Held, Ending, Types, TypeOK, Commands, Exact
<1> QED
  BY <1>6, <1>7, <1>8, <1>9 DEF Control

(* A Nak repeats the poll.                                                 *)
LEMMA SendNakStep ==
    ASSUME IInv, SendNak
    PROVE  IInv'
<1>1. /\ disp' \in Dispencer /\ Same(disp', disp)
      /\ disp'.mode = disp.mode /\ disp'.xstate = disp.xstate
  BY DartAssumption DEF SendNak, Turn, Put, Quiet, Fault, bounds, IInv, Types, TypeOK,
         Dispencer, Same, Commands, Orders
<1>2. Types'
  <2>0. pump \in Pump /\ seen \in Seen
    BY DEF IInv, Types, TypeOK, Pump, Seen
  <2>1. LineOK' /\ OneNak'
    BY <1>1, DartAssumption DEF SendNak, Turn, Put, Quiet, Fault, bounds, IInv, Types,
         TypeOK, LineOK, OneNak, Commands, Same
  <2>2. pump' \in Pump /\ seen' \in Seen
    BY <2>0 DEF SendNak, Turn, Put, Quiet, Fault, bounds, Pump, Seen
  <2>3. faults' \in 0 .. MaxFaults /\ events' \in 0 .. MaxEvents
    BY DartAssumption DEF SendNak, Turn, Put, Quiet, Fault, bounds, IInv, Types, TypeOK
  <2>4. TypeOK'
    BY <1>1, <2>1, <2>2, <2>3, DartAssumption DEF SendNak, Turn, Put, Quiet, Fault, bounds,
         IInv, Types, TypeOK, Pump, Seen, OneNak, Commands, FromPump, Same
  <2> QED
    BY <1>1, <2>1, <2>4 DEF SendNak, Turn, Put, Quiet, Fault, bounds, IInv, Types, TypeOK,
         LineOK, Reported, Same
<1>3. SUFFICES ASSUME Exact' PROVE Control'
  BY <1>2 DEF IInv
<1>4. Exact
  BY <1>3 DEF SendNak, Turn, Put, Quiet, Fault, bounds, IInv, Types, TypeOK, Exact
<1>5. Types /\ Control /\ reader = "idle"
  BY <1>3, <1>4 DEF IInv, Types, TypeOK, Exact, Turn, SendNak
<1>6. Exchange'
  BY <1>1, <1>3, <1>4, <1>5 DEF SendNak, Turn, Put, Quiet, Fault, bounds, Control, Exchange,
         Types, TypeOK, Commands, Same, Exact
<1>7. Reports'
  BY <1>1, <1>3, <1>4, <1>5 DEF SendNak, Turn, Put, Quiet, Fault, bounds, Control, Exchange,
         Reports, Delivering, Types, TypeOK, Commands, Same, Exact
<1>8. Stops'
  BY <1>1, <1>3, <1>4, <1>5 DEF SendNak, Turn, Put, Quiet, Fault, bounds, Control, Exchange,
         Stops, Types, TypeOK, Commands, Same, Exact
<1>9. Held'
  BY <1>1, <1>3, <1>4, <1>5 DEF SendNak, Turn, Put, Quiet, Fault, bounds, Control, Exchange,
         Held, Ending, Types, TypeOK, Commands, Same, Exact
<1> QED
  BY <1>6, <1>7, <1>8, <1>9 DEF Control

(* Without counters to read this turn does not take place.                 *)
LEMMA SendCounterStep ==
    ASSUME IInv, SendCounter
    PROVE  IInv'
<1>1. /\ disp' \in Dispencer /\ disp'.command = disp.command
      /\ disp'.orig = disp.orig /\ disp'.naks = 0 /\ disp'.preset = disp.preset
      /\ disp'.order = disp.order /\ disp'.start = disp.start /\ disp'.stop = disp.stop
      /\ disp'.mode = disp.mode /\ disp'.xstate = "SendCommand"
  <2> DEFINE a == [disp EXCEPT !.counter = @ + 1]
             b == [a EXCEPT !.xstate = "SendCommand"]
             c == [b EXCEPT !.naks = 0]
  <2>1. disp \in Dispencer
    BY DEF IInv, Types, TypeOK
  <2>2. a \in Dispencer /\ Same(a, disp) /\ a.mode = disp.mode
    BY <2>1, DartAssumption DEF SendCounter, CounterDue, Dispencer, Same
  <2>3. disp' = [c EXCEPT !.errors = 0]
    BY DEF SendCounter
  <2> HIDE DEF a
  <2>4. b \in Dispencer /\ Same(b, a) /\ b.mode = a.mode /\ b.xstate = "SendCommand"
    BY <2>2, ExchangeType
  <2> HIDE DEF b
  <2>5. /\ c \in Dispencer /\ c.naks = 0 /\ c.mode = b.mode /\ c.xstate = b.xstate
        /\ c.command = b.command /\ c.orig = b.orig /\ c.preset = b.preset
        /\ c.order = b.order /\ c.start = b.start /\ c.stop = b.stop
    BY <2>4, NaksType
  <2> HIDE DEF c
  <2>6. disp' \in Dispencer /\ Same(disp', c) /\ disp'.mode = c.mode /\ disp'.xstate = c.xstate
    BY <2>3, <2>5, LifeType
  <2> QED
    BY <2>2, <2>4, <2>5, <2>6 DEF Same
<1>2. Types'
  <2>0. pump \in Pump /\ seen \in Seen
    BY DEF IInv, Types, TypeOK, Pump, Seen
  <2>1. LineOK' /\ OneNak'
    BY <1>1, DartAssumption DEF SendCounter, Turn, Put, Quiet, Fault, CounterDue, bounds,
         IInv, Types, TypeOK, LineOK, OneNak, Commands
  <2>2. pump' \in Pump /\ seen' \in Seen
    BY <2>0 DEF SendCounter, Turn, Put, Quiet, Fault, CounterDue, bounds, Pump, Seen
  <2>3. faults' \in 0 .. MaxFaults /\ events' \in 0 .. MaxEvents
    BY DartAssumption DEF SendCounter, Turn, Put, Quiet, Fault, CounterDue, bounds, IInv,
         Types, TypeOK
  <2>4. TypeOK'
    BY <1>1, <2>1, <2>2, <2>3, DartAssumption DEF SendCounter, Turn, Put, Quiet, Fault,
         CounterDue, bounds, IInv, Types, TypeOK, Pump, Seen, OneNak, Commands, FromPump
  <2> QED
    BY <1>1, <2>1, <2>4 DEF SendCounter, Turn, Put, Quiet, Fault, CounterDue, bounds, IInv,
         Types, TypeOK, LineOK, Reported
<1>3. SUFFICES ASSUME Exact' PROVE Control'
  BY <1>2 DEF IInv
<1>4. Exact
  BY <1>3 DEF SendCounter, Turn, Put, Quiet, Fault, CounterDue, bounds, IInv, Types, TypeOK,
         Exact
<1>5. Types /\ Control /\ reader = "idle"
  BY <1>3, <1>4 DEF IInv, Types, TypeOK, Exact, Turn, SendCounter
<1>6. Exchange'
  BY <1>1, <1>3, <1>4, <1>5 DEF SendCounter, Turn, Put, Quiet, Fault, CounterDue, bounds,
         Control, Exchange, Types, TypeOK, Commands, Exact
<1>7. Reports'
  BY <1>1, <1>3, <1>4, <1>5 DEF SendCounter, Turn, Put, Quiet, Fault, CounterDue, bounds,
         Control, Exchange, Reports, Delivering, Types, TypeOK, Commands, Exact
<1>8. Stops'
  BY <1>1, <1>3, <1>4, <1>5 DEF SendCounter, Turn, Put, Quiet, Fault, CounterDue, bounds,
         Control, Exchange, Stops, Types, TypeOK, Commands, Exact
<1>9. Held'
  BY <1>1, <1>3, <1>4, <1>5 DEF SendCounter, Turn, Put, Quiet, Fault, CounterDue, bounds,
         Control, Exchange, Held, Ending, Types, TypeOK, Commands, Exact
<1> QED
  BY <1>6, <1>7, <1>8, <1>9 DEF Control

(* The command goes out with the order that is held; a stop goes out       *)
(* itself.                                                                 *)
LEMMA SendCommandStep ==
    ASSUME IInv, SendCommand
    PROVE  IInv'
<1>1. /\ disp' \in Dispencer /\ disp'.command = disp.command
      /\ disp'.orig = disp.orig /\ disp'.naks = 0 /\ disp'.preset = disp.preset
      /\ disp'.order = disp.order /\ disp'.start = disp.start /\ disp'.stop = disp.stop
      /\ disp'.mode = disp.mode /\ disp'.xstate = "SendCommand"
  <2> DEFINE a == [disp EXCEPT !.getCounters = FALSE,
                                  !.counter = IF disp.getCounters THEN 0 ELSE @]
             b == [a EXCEPT !.xstate = "SendCommand"]
             c == [b EXCEPT !.naks = 0]
  <2>1. disp \in Dispencer
    BY DEF IInv, Types, TypeOK
  <2>2. a \in Dispencer /\ Same(a, disp) /\ a.mode = disp.mode
    <3>1. (IF disp.getCounters THEN 0 ELSE disp.counter) \in 0..NozzleCount
      BY <2>1, DartAssumption DEF Dispencer
    <3> QED
      BY <2>1, <3>1, CountersType
  <2>3. disp' = [c EXCEPT !.errors = 0]
    BY DEF SendCommand
  <2> HIDE DEF a
  <2>4. b \in Dispencer /\ Same(b, a) /\ b.mode = a.mode /\ b.xstate = "SendCommand"
    BY <2>2, ExchangeType
  <2> HIDE DEF b
  <2>5. /\ c \in Dispencer /\ c.naks = 0 /\ c.mode = b.mode /\ c.xstate = b.xstate
        /\ c.command = b.command /\ c.orig = b.orig /\ c.preset = b.preset
        /\ c.order = b.order /\ c.start = b.start /\ c.stop = b.stop
    BY <2>4, NaksType
  <2> HIDE DEF c
  <2>6. disp' \in Dispencer /\ Same(disp', c) /\ disp'.mode = c.mode /\ disp'.xstate = c.xstate
    BY <2>3, <2>5, LifeType
  <2> QED
    BY <2>2, <2>4, <2>5, <2>6 DEF Same
<1>2. Types'
  <2>0. pump \in Pump /\ seen \in Seen
    BY DEF IInv, Types, TypeOK, Pump, Seen
  <2>1. LineOK' /\ OneNak'
    BY <1>1, DartAssumption DEF SendCommand, Turn, Quiet, Fault, CounterDue, bounds, IInv,
         Types, TypeOK, LineOK, OneNak, Commands, Dispencer
  <2>2. pump' \in Pump /\ seen' \in Seen
    BY <2>0 DEF SendCommand, Turn, Quiet, Fault, CounterDue, bounds, Pump, Seen
  <2>3. faults' \in 0 .. MaxFaults /\ events' \in 0 .. MaxEvents
    BY DartAssumption DEF SendCommand, Turn, Quiet, Fault, CounterDue, bounds, IInv, Types,
         TypeOK
  <2>4. TypeOK'
    BY <1>1, <2>1, <2>2, <2>3, DartAssumption DEF SendCommand, Turn, Quiet, Fault,
         CounterDue, bounds, IInv, Types, TypeOK, Pump, Seen, OneNak, Commands, FromPump,
         Dispencer
  <2> QED
    BY <1>1, <2>1, <2>4 DEF SendCommand, Turn, Quiet, Fault, CounterDue, bounds, IInv,
         Types, TypeOK, LineOK, Reported
<1>3. SUFFICES ASSUME Exact' PROVE Control'
  BY <1>2 DEF IInv
<1>4. Exact
  BY <1>3 DEF SendCommand, Turn, Quiet, Fault, CounterDue, bounds, IInv, Types, TypeOK,
         Exact
<1>5. /\ Types /\ Control /\ reader = "idle" /\ disp.command \in Commands
      /\ line'.kind = disp.command /\ line'.order = disp.preset
  BY <1>3, <1>4 DEF IInv, Types, TypeOK, Dispencer, Exact, Turn, SendCommand
<1>6. Exchange'
  BY <1>1, <1>3, <1>4, <1>5 DEF SendCommand, Turn, Quiet, Fault, CounterDue, bounds,
         Control, Exchange, Types, TypeOK, Commands, Exact
<1>7. Reports'
  BY <1>1, <1>3, <1>4, <1>5 DEF SendCommand, Turn, Quiet, Fault, CounterDue, bounds,
         Control, Exchange, Reports, Delivering, Types, TypeOK, Commands, Exact
<1>8. Stops'
  BY <1>1, <1>3, <1>4, <1>5 DEF SendCommand, Turn, Quiet, Fault, CounterDue, bounds,
         Control, Exchange, Stops, Types, TypeOK, Commands, Exact
<1>9. Held'
  BY <1>1, <1>3, <1>4, <1>5 DEF SendCommand, Turn, Quiet, Fault, CounterDue, bounds,
         Control, Exchange, Held, Ending, Types, TypeOK, Commands, Exact
<1> QED
  BY <1>6, <1>7, <1>8, <1>9 DEF Control

(* An Ack comes only for the current command, which the pump has obeyed.   *)
LEMMA ReadAckStep ==
    ASSUME IInv, ReadAck
    PROVE  IInv'
<1>1. /\ disp' \in Dispencer /\ Same(disp', disp) /\ disp'.mode = disp.mode
      /\ disp.mode = "SendCommand" => disp'.xstate = "Free" /\ reader' = "ack"
      /\ disp.mode # "SendCommand" => reader' = reader
  <2>1. Alive \in Dispencer /\ Same(Alive, disp) /\ Alive.mode = disp.mode
    BY LifeType DEF IInv, Types, TypeOK, Alive
  <2> HIDE DEF Alive
  <2>2. CASE disp.mode = "SendCommand"
    <3>1. disp' = [Alive EXCEPT !.xstate = "Free"] /\ reader' = "ack"
      BY <2>2 DEF ReadAck
    <3> QED
      BY <2>1, <2>2, <3>1, ExchangeType DEF Same
  <2>3. CASE disp.mode # "SendCommand"
    BY <2>1, <2>3 DEF ReadAck
  <2> QED
    BY <2>2, <2>3
<1>2. Types'
  <2>1. LineOK' /\ OneNak'
    BY <1>1 DEF ReadAck, Read, Clear, IInv, Types, LineOK, OneNak, Commands, Same
  <2>2. TypeOK'
    BY <1>1, <2>1, DartAssumption DEF ReadAck, Read, Clear, bounds, IInv, Types, TypeOK,
         OneNak, Same
  <2> QED
    BY <1>1, <2>1, <2>2 DEF ReadAck, Read, IInv, Types, Same
<1>3. SUFFICES ASSUME Exact' PROVE Control'
  BY <1>2 DEF IInv
<1>4. Exact
  BY <1>3 DEF ReadAck, Read, Exact
<1>5. Types /\ Control
  BY <1>4 DEF IInv
<1>6. /\ disp.mode = "SendCommand" /\ disp'.xstate = "Free" /\ reader' = "ack"
      /\ line'.kind = "none"
      /\ disp.command # "Free" => seen.acted
      /\ UNCHANGED <<pump, seen>>
  BY <1>1, <1>5 DEF ReadAck, Read, Clear, Control, Exchange
<1>7. Exchange'
  BY <1>1, <1>6 DEF Exchange, Same, Commands
<1>8. Reports'
  BY <1>1, <1>5, <1>6 DEF Control, Reports, Delivering, Same
<1>9. Stops'
  BY <1>1, <1>5, <1>6 DEF Control, Stops, Same, Commands
<1>10. Held'
  BY <1>1, <1>5, <1>6 DEF Control, Held, Ending, Same
<1> QED
  BY <1>7, <1>8, <1>9, <1>10 DEF Control

(* The handler of the Ack leaves the exchange.                             *)
LEMMA AckModeStep ==
    ASSUME IInv, AckMode
    PROVE  IInv'
<1>1. /\ disp' \in Dispencer /\ disp'.command = disp.command
      /\ disp'.orig = disp.orig /\ disp'.naks = disp.naks /\ disp'.preset = disp.preset
      /\ disp'.order = disp.order /\ disp'.start = disp.start /\ disp'.stop = disp.stop
      /\ disp'.mode = "Pooling" /\ disp'.xstate = disp.xstate
  BY DartAssumption DEF AckMode, bounds, IInv, Types, TypeOK, Dispencer, Same, Commands,
         Orders
<1>2. Types'
  <2>1. LineOK' /\ OneNak'
    BY <1>1, DartAssumption DEF AckMode, bounds, IInv, Types, TypeOK, LineOK, OneNak,
         Commands
  <2>2. TypeOK'
    BY <1>1, <2>1, DartAssumption DEF AckMode, bounds, IInv, Types, TypeOK, OneNak,
         Commands, FromPump, Orders
  <2> QED
    BY <1>1, <2>1, <2>2 DEF AckMode, bounds, IInv, Types, TypeOK, LineOK, Reported
<1>3. SUFFICES ASSUME Exact' PROVE Control'
  BY <1>2 DEF IInv
<1>4. Exact
  BY <1>3 DEF AckMode, bounds, IInv, Types, TypeOK, Exact
<1>5. Types /\ Control
  BY <1>4 DEF IInv
<1>6. Exchange'
  BY <1>1, <1>3, <1>4, <1>5 DEF AckMode, bounds, Control, Exchange, Types, TypeOK, Commands
<1>7. Reports'
  BY <1>1, <1>3, <1>4, <1>5 DEF AckMode, bounds, Control, Exchange, Reports, Delivering,
         Types, TypeOK, Commands
<1>8. Stops'
  BY <1>1, <1>3, <1>4, <1>5 DEF AckMode, bounds, Control, Exchange, Stops, Types, TypeOK,
         Commands
<1>9. Held'
  BY <1>1, <1>3, <1>4, <1>5 DEF AckMode, bounds, Control, Exchange, Held, Ending, Types,
         TypeOK, Commands
<1> QED
  BY <1>6, <1>7, <1>8, <1>9 DEF Control

(* A Nak is the first of this exchange: the limit of Naks is not reached.  *)
LEMMA ReadNakStep ==
    ASSUME IInv, ReadNak
    PROVE  IInv'
<1>1. /\ disp' \in Dispencer /\ disp'.command = disp.command
      /\ disp'.orig = disp.orig /\ disp'.naks = disp.naks + 1 /\ disp'.preset = disp.preset
      /\ disp'.order = disp.order /\ disp'.start = disp.start /\ disp'.stop = disp.stop
      /\ disp'.mode = disp.mode /\ disp'.xstate = disp.xstate
  <2>1. /\ Alive \in Dispencer /\ Same(Alive, disp) /\ Alive.mode = disp.mode
        /\ Alive.xstate = disp.xstate /\ disp.naks = 0
    BY LifeType DEF IInv, Types, TypeOK, OneNak, ReadNak, Read, Alive
  <2>2. disp' = [Alive EXCEPT !.naks = Alive.naks + 1]
    BY <2>1, DartAssumption DEF ReadNak
  <2>3. Alive.naks = 0
    BY <2>1 DEF Same
  <2> HIDE DEF Alive
  <2> QED
    BY <2>1, <2>2, <2>3, NaksType DEF Same
<1>2. Types'
  <2>1. LineOK' /\ OneNak'
    BY <1>1, DartAssumption DEF ReadNak, Read, Clear, Alive, bounds, IInv, Types, TypeOK,
         LineOK, OneNak, Commands
  <2>2. TypeOK'
    BY <1>1, <2>1, DartAssumption DEF ReadNak, Read, Clear, Alive, bounds, IInv, Types,
         TypeOK, OneNak, Commands, FromPump, Orders
  <2> QED
    BY <1>1, <2>1, <2>2 DEF ReadNak, Read, Clear, Alive, bounds, IInv, Types, TypeOK,
         LineOK, Reported
<1>3. SUFFICES ASSUME Exact' PROVE Control'
  BY <1>2 DEF IInv
<1>4. Exact
  BY <1>3 DEF ReadNak, Read, Clear, Alive, bounds, IInv, Types, TypeOK, Exact
<1>5. Types /\ Control
  BY <1>4 DEF IInv
<1>6. Exchange'
  BY <1>1, <1>3, <1>4, <1>5 DEF ReadNak, Read, Clear, Alive, bounds, Control, Exchange,
         Types, TypeOK, Commands
<1>7. Reports'
  BY <1>1, <1>3, <1>4, <1>5 DEF ReadNak, Read, Clear, Alive, bounds, Control, Exchange,
         Reports, Delivering, Types, TypeOK, Commands
<1>8. Stops'
  BY <1>1, <1>3, <1>4, <1>5 DEF ReadNak, Read, Clear, Alive, bounds, Control, Exchange,
         Stops, Types, TypeOK, Commands
<1>9. Held'
  BY <1>1, <1>3, <1>4, <1>5 DEF ReadNak, Read, Clear, Alive, bounds, Control, Exchange,
         Held, Ending, Types, TypeOK, Commands
<1> QED
  BY <1>6, <1>7, <1>8, <1>9 DEF Control

(* A report the pump has not renewed since is the pump's state.            *)
LEMMA ReadDataStep ==
    ASSUME IInv, ReadData
    PROVE  IInv'
<1>1. /\ disp' \in Dispencer /\ disp'.command = disp.command
      /\ disp'.orig = line.status /\ disp'.naks = disp.naks /\ disp'.preset = disp.preset
      /\ disp'.order = disp.order /\ disp'.start = disp.start /\ disp'.stop = disp.stop
      /\ disp'.mode = "Pooling" /\ disp'.xstate = "ReadyAck"
  <2> DEFINE a == InterpretData(Alive, line)
             b == [a EXCEPT !.xstate = "ReadyAck"]
  <2>1. /\ Alive \in Dispencer /\ Same(Alive, disp)
        /\ line.status \in 0..7 /\ line.nozzle \in BOOLEAN /\ line.full \in BOOLEAN
    BY LifeType, StatesOfPump DEF IInv, Types, TypeOK, LineOK, ReadData, Read, Alive
  <2>2. disp' = [b EXCEPT !.mode = "Pooling"]
    BY DEF ReadData
  <2>3. /\ a \in Dispencer /\ a.orig = line.status /\ a.command = disp.command
        /\ a.naks = disp.naks /\ a.preset = disp.preset /\ a.order = disp.order
        /\ a.start = disp.start /\ a.stop = disp.stop
    BY <2>1, DataType DEF Same
  <2> HIDE DEF a
  <2>4. b \in Dispencer /\ Same(b, a) /\ b.xstate = "ReadyAck"
    BY <2>3, ExchangeType
  <2> HIDE DEF b
  <2>5. disp' \in Dispencer /\ Same(disp', b) /\ disp'.mode = "Pooling" /\ disp'.xstate = b.xstate
    BY <2>2, <2>4, ModeType
  <2> QED
    BY <2>3, <2>4, <2>5 DEF Same
<1>2. Types'
  <2>1. LineOK' /\ OneNak'
    BY <1>1, DartAssumption DEF ReadData, Read, Clear, Alive, bounds, IInv, Types, TypeOK,
         LineOK, OneNak, Commands
  <2>2. TypeOK'
    BY <1>1, <2>1, DartAssumption DEF ReadData, Read, Clear, Alive, bounds, IInv, Types,
         TypeOK, OneNak, Commands, FromPump, Orders
  <2> QED
    BY <1>1, <2>1, <2>2 DEF ReadData, Read, Clear, Alive, bounds, IInv, Types, TypeOK,
         LineOK, Reported
<1>3. SUFFICES ASSUME Exact' PROVE Control'
  BY <1>2 DEF IInv
<1>4. Exact
  BY <1>3 DEF ReadData, Read, Clear, Alive, bounds, IInv, Types, TypeOK, Exact
<1>5. Types /\ Control
  BY <1>4 DEF IInv
<1>6. Exchange'
  BY <1>1, <1>3, <1>4, <1>5 DEF ReadData, Read, Clear, Alive, bounds, Control, Exchange,
         Types, TypeOK, Commands
<1>7. Reports'
  BY <1>1, <1>3, <1>4, <1>5 DEF ReadData, Read, Clear, Alive, bounds, Control, Exchange,
         Reports, Delivering, Types, TypeOK, Commands, Reported, dds_NotProgrammed,
         dds_Reset, dds_Authorized, dds_Filling, dds_FillingComplete, dds_MaxVolReached
<1>8. Stops'
  BY <1>1, <1>3, <1>4, <1>5 DEF ReadData, Read, Clear, Alive, bounds, Control, Exchange,
         Stops, Types, TypeOK, Commands
<1>9. Held'
  BY <1>1, <1>3, <1>4, <1>5 DEF ReadData, Read, Clear, Alive, bounds, Control, Exchange,
         Held, Ending, Types, TypeOK, Commands
<1> QED
  BY <1>6, <1>7, <1>8, <1>9 DEF Control

(* A garbled report will be asked for again.                               *)
LEMMA ReadGarbledStep ==
    ASSUME IInv, ReadGarbled
    PROVE  IInv'
<1>1. /\ disp' \in Dispencer /\ disp'.command = disp.command
      /\ disp'.orig = disp.orig /\ disp'.naks = disp.naks /\ disp'.preset = disp.preset
      /\ disp'.order = disp.order /\ disp'.start = disp.start /\ disp'.stop = disp.stop
      /\ disp'.mode = "Pooling" /\ disp'.xstate = "ReadyNak"
  <2> DEFINE a == [Alive EXCEPT !.xstate = "ReadyNak"]
  <2>1. Alive \in Dispencer /\ Same(Alive, disp)
    BY LifeType DEF IInv, Types, TypeOK, Alive
  <2>2. disp' = [a EXCEPT !.mode = "Pooling"]
    BY DEF ReadGarbled
  <2>3. a \in Dispencer /\ Same(a, Alive) /\ a.xstate = "ReadyNak"
    BY <2>1, ExchangeType
  <2> HIDE DEF a
  <2>4. disp' \in Dispencer /\ Same(disp', a) /\ disp'.mode = "Pooling" /\ disp'.xstate = a.xstate
    BY <2>2, <2>3, ModeType
  <2> QED
    BY <2>1, <2>3, <2>4 DEF Same
<1>2. Types'
  <2>1. LineOK' /\ OneNak'
    BY <1>1, DartAssumption DEF ReadGarbled, Read, Clear, Alive, bounds, IInv, Types,
         TypeOK, LineOK, OneNak, Commands
  <2>2. TypeOK'
    BY <1>1, <2>1, DartAssumption DEF ReadGarbled, Read, Clear, Alive, bounds, IInv, Types,
         TypeOK, OneNak, Commands, FromPump, Orders
  <2> QED
    BY <1>1, <2>1, <2>2 DEF ReadGarbled, Read, Clear, Alive, bounds, IInv, Types, TypeOK,
         LineOK, Reported
<1>3. SUFFICES ASSUME Exact' PROVE Control'
  BY <1>2 DEF IInv
<1>4. Exact
  BY <1>3 DEF ReadGarbled, Read, Clear, Alive, bounds, IInv, Types, TypeOK, Exact
<1>5. Types /\ Control
  BY <1>4 DEF IInv
<1>6. Exchange'
  BY <1>1, <1>3, <1>4, <1>5 DEF ReadGarbled, Read, Clear, Alive, bounds, Control, Exchange,
         Types, TypeOK, Commands
<1>7. Reports'
  BY <1>1, <1>3, <1>4, <1>5 DEF ReadGarbled, Read, Clear, Alive, bounds, Control, Exchange,
         Reports, Delivering, Types, TypeOK, Commands
<1>8. Stops'
  BY <1>1, <1>3, <1>4, <1>5 DEF ReadGarbled, Read, Clear, Alive, bounds, Control, Exchange,
         Stops, Types, TypeOK, Commands
<1>9. Held'
  BY <1>1, <1>3, <1>4, <1>5 DEF ReadGarbled, Read, Clear, Alive, bounds, Control, Exchange,
         Held, Ending, Types, TypeOK, Commands
<1> QED
  BY <1>6, <1>7, <1>8, <1>9 DEF Control

(* An Eot completes the current command; only a Reset or a payment clears  *)
(* the order.                                                              *)
LEMMA ReadEotStep ==
    ASSUME IInv, ReadEot
    PROVE  IInv'
<1> DEFINE Ends == disp.command \in {"Reset", "Payment"}
<1>1. /\ disp' \in Dispencer /\ disp'.orig = disp.orig /\ disp'.naks = disp.naks
      /\ disp'.mode = "Pooling"
      /\ disp.mode = "Pooling" =>
           /\ reader' = "eot" /\ disp'.command = disp.command
           /\ disp'.xstate \in {disp.xstate, "Free"} /\ (disp'.stop => disp.stop)
           /\ Ends => disp'.preset = 0 /\ ~disp'.order /\ ~disp'.start
           /\ ~Ends =>
                /\ disp'.preset = disp.preset /\ disp'.start = disp.start
                /\ disp'.order =
                     IF disp.command = "Preset" THEN disp.preset # 0 ELSE disp.order
      /\ disp.mode # "Pooling" => reader' = reader
  <2>1. /\ Alive \in Dispencer /\ Same(Alive, disp) /\ Alive.mode = disp.mode
        /\ Alive.xstate = disp.xstate /\ counters_enable \in BOOLEAN
    BY LifeType DEF IInv, Types, TypeOK, Alive
  <2> HIDE DEF Alive
  <2>2. CASE disp.mode = "Pooling"
    <3>1. disp' = SetComplete(Alive) /\ reader' = "eot"
      BY <2>2 DEF ReadEot
    <3> QED
      BY <2>1, <2>2, <3>1, CompleteType DEF Same
  <2>3. CASE disp.mode # "Pooling"
    <3> DEFINE a == [Alive EXCEPT !.mode = "Pooling"]
    <3>1. a \in Dispencer /\ Same(a, Alive) /\ a.mode = "Pooling"
      BY <2>1, ModeType
    <3>2. disp' = [a EXCEPT !.xstate = "Free"] /\ reader' = reader
      BY <2>3 DEF ReadEot
    <3> HIDE DEF a
    <3>3. disp' \in Dispencer /\ Same(disp', a) /\ disp'.mode = a.mode
      BY <3>1, <3>2, ExchangeType
    <3> QED
      BY <2>1, <2>3, <3>1, <3>2, <3>3 DEF Same
  <2> QED
    BY <2>2, <2>3
<1>2. Types'
  <2>1. LineOK' /\ OneNak'
    BY <1>1 DEF ReadEot, Read, Clear, IInv, Types, LineOK, OneNak, Commands
  <2>2. TypeOK'
    BY <1>1, <2>1, DartAssumption DEF ReadEot, Read, Clear, bounds, IInv, Types, TypeOK,
         OneNak
  <2> QED
    BY <1>1, <2>1, <2>2 DEF ReadEot, Read, IInv, Types
<1>3. SUFFICES ASSUME Exact' PROVE Control'
  BY <1>2 DEF IInv
<1>4. Exact
  BY <1>3 DEF ReadEot, Read, Exact
<1>5. Types /\ Control
  BY <1>4 DEF IInv
<1>6. /\ disp.mode = "Pooling" /\ line'.kind = "none" /\ reader' = "eot"
      /\ disp.command # "Free" => seen.acted
      /\ UNCHANGED <<pump, seen>>
  BY <1>1, <1>5 DEF ReadEot, Read, Clear, Control, Exchange
<1>7. Exchange'
  BY <1>1, <1>6 DEF Exchange, Commands
<1>8. Reports'
  <2>1. disp.orig > dds_Filling => ~Delivering
    BY <1>5 DEF ReadEot, Read, Control, Reports
  <2>2. disp'.xstate # "ReadyAck"
    BY <1>1, <1>5, <1>6 DEF ReadEot, Read, Control, Exchange
  <2> QED
    BY <1>1, <1>5, <1>6, <2>1, <2>2 DEF Control, Reports, Delivering
<1>9. Stops'
  BY <1>1, <1>5, <1>6 DEF Control, Stops, Commands
<1>10. Held'
  <2>1. CASE Ends
    BY <1>1, <1>6, <2>1 DEF Held, Ending
  <2>2. CASE ~Ends
    BY <1>1, <1>5, <1>6, <2>2 DEF Control, Held, Ending
  <2> QED
    BY <2>1, <2>2
<1> QED
  BY <1>7, <1>8, <1>9, <1>10 DEF Control

(* The next command suits the flags: a stop first, a payment only when the *)
(* pump reports the end of the delivery and has nothing newer to report.   *)
LEMMA EotNextStep ==
    ASSUME IInv, EotNext
    PROVE  IInv'
<1>1. /\ disp' \in Dispencer /\ disp'.orig = disp.orig /\ disp'.naks = disp.naks
      /\ disp'.preset = disp.preset /\ disp'.order = disp.order
      /\ disp'.start = disp.start /\ disp'.stop = disp.stop
      /\ disp'.mode = "SendCommand" /\ disp'.xstate = "Free"
      /\ disp.stop => disp'.command = "Stop"
      /\ disp'.command = "Preset" => disp.preset # 0
      /\ disp'.command = "Start" => disp.order /\ (AutoStart \/ disp.start)
      /\ disp'.command = "Payment" => disp.orig > dds_Filling
  <2> DEFINE a == SelectNext(disp)
             b == [a EXCEPT !.mode = "SendCommand"]
  <2>1. disp \in Dispencer /\ disp.orig \in Reported /\ counters_enable \in BOOLEAN
    BY DEF IInv, Types, TypeOK
  <2>2. /\ a \in Dispencer /\ a.orig = disp.orig /\ a.naks = disp.naks
        /\ a.preset = disp.preset /\ a.order = disp.order /\ a.start = disp.start
        /\ a.stop = disp.stop /\ (disp.stop => a.command = "Stop")
        /\ a.command = "Preset" => disp.preset # 0
        /\ a.command = "Start" => disp.order /\ (AutoStart \/ disp.start)
        /\ a.command = "Payment" => disp.orig > dds_Filling
    BY <2>1, NextType
  <2>3. disp' = [b EXCEPT !.xstate = "Free"]
    BY DEF EotNext
  <2> HIDE DEF a
  <2>4. b \in Dispencer /\ Same(b, a) /\ b.mode = "SendCommand"
    BY <2>2, ModeType
  <2> HIDE DEF b
  <2>5. disp' \in Dispencer /\ Same(disp', b) /\ disp'.mode = b.mode /\ disp'.xstate = "Free"
    BY <2>3, <2>4, ExchangeType
  <2> QED
    BY <2>2, <2>4, <2>5 DEF Same
<1>2. /\ seen' \in Seen /\ ~seen'.acted /\ seen'.raced = seen.raced /\ seen'.start = seen.start
      /\ seen'.ahead = IF disp.stop THEN seen.ahead ELSE 0
      /\ ~seen'.dropped => ~seen.dropped \/ (seen.acted /\ Ending)
  <2>1. seen \in Seen
    BY DEF IInv, Types, TypeOK, Seen
  <2> DEFINE a == IF disp.stop THEN seen.ahead ELSE 0
             d == seen.dropped /\ ~(seen.acted /\ disp.command \in {"Reset", "Payment"})
  <2>2. a \in 0..2 /\ d \in BOOLEAN
    BY <2>1 DEF Seen
  <2>3. seen' = [seen EXCEPT !.acted = FALSE, !.ahead = a, !.dropped = d]
    BY DEF EotNext
  <2>4. ~d => ~seen.dropped \/ (seen.acted /\ Ending)
    BY DEF Ending
  <2> HIDE DEF a, d
  <2>5. /\ seen' \in Seen /\ seen'.acted = FALSE /\ seen'.raced = seen.raced
        /\ seen'.start = seen.start /\ seen'.ahead = a /\ seen'.dropped = d
    BY <2>1, <2>2, <2>3 DEF Seen
  <2> QED
    BY <2>4, <2>5 DEF a
<1>3. Types'
  <2>1. LineOK' /\ OneNak'
    BY <1>1 DEF EotNext, IInv, Types, LineOK, OneNak
  <2>2. TypeOK'
    BY <1>1, <1>2, DartAssumption DEF EotNext, bounds, IInv, Types, TypeOK, Seen
  <2> QED
    BY <1>1, <2>1, <2>2 DEF EotNext, IInv, Types
<1>4. SUFFICES ASSUME Exact' PROVE Control'
  BY <1>3 DEF IInv
<1>5. Exact
  BY <1>2, <1>4 DEF EotNext, Exact
<1>6. Types /\ Control
  BY <1>5 DEF IInv
<1>7. line.kind = "none"
  BY <1>6 DEF EotNext, Control, Exchange, Types, TypeOK, FromPump
<1>8. Exchange'
  BY <1>1, <1>7 DEF EotNext, Exchange, Commands
<1>9. Reports'
  BY <1>1, <1>6, <1>7 DEF EotNext, Control, Reports, Delivering
<1>10. Stops'
  BY <1>1, <1>2, <1>6, <1>7 DEF EotNext, Control, Stops, Commands
<1>11. Held'
  BY <1>1, <1>2, <1>6, <1>7 DEF EotNext, Control, Held, Ending
<1> QED
  BY <1>8, <1>9, <1>10, <1>11 DEF Control

(* A pump without news is in the state the driver knows.                   *)
LEMMA PumpAnswersPollStep ==
    ASSUME IInv, PumpAnswersPoll
    PROVE  IInv'
<1>1. disp' = disp
  BY DEF PumpAnswersPoll, Hears, Put
<1>2. Types'
  <2>1. LineOK' /\ OneNak'
    BY <1>1, DartAssumption DEF PumpAnswersPoll, Hears, Put, bounds, IInv, Types, TypeOK,
         LineOK, OneNak, Commands
  <2>2. TypeOK'
    BY <1>1, <2>1, DartAssumption DEF PumpAnswersPoll, Hears, Put, bounds, IInv, Types,
         TypeOK, OneNak, Commands, FromPump, Orders
  <2> QED
    BY <1>1, <2>1, <2>2 DEF PumpAnswersPoll, Hears, Put, bounds, IInv, Types, TypeOK,
         LineOK, Reported
<1>3. SUFFICES ASSUME Exact' PROVE Control'
  BY <1>2 DEF IInv
<1>4. Exact
  BY <1>3 DEF PumpAnswersPoll, Hears, Put, bounds, IInv, Types, TypeOK, Exact
<1>5. Types /\ Control
  BY <1>4 DEF IInv
<1>6. Exchange'
  BY <1>1, <1>3, <1>4, <1>5 DEF PumpAnswersPoll, Hears, Put, bounds, Control, Exchange,
         Types, TypeOK, Commands
<1>7. Reports'
  BY <1>1, <1>3, <1>4, <1>5 DEF PumpAnswersPoll, Hears, Put, bounds, Control, Exchange,
         Reports, Delivering, Types, TypeOK, Commands, Reported, dds_NotProgrammed,
         dds_Reset, dds_Authorized, dds_Filling, dds_FillingComplete, dds_MaxVolReached
<1>8. Stops'
  BY <1>1, <1>3, <1>4, <1>5 DEF PumpAnswersPoll, Hears, Put, bounds, Control, Exchange,
         Stops, Types, TypeOK, Commands
<1>9. Held'
  BY <1>1, <1>3, <1>4, <1>5 DEF PumpAnswersPoll, Hears, Put, bounds, Control, Exchange,
         Held, Ending, Types, TypeOK, Commands
<1> QED
  BY <1>6, <1>7, <1>8, <1>9 DEF Control

(* What was sent and confirmed is what the driver has read.                *)
LEMMA PumpConfirmedStep ==
    ASSUME IInv, PumpConfirmed
    PROVE  IInv'
<1>1. disp' = disp
  BY DEF PumpConfirmed, Hears, Clear
<1>2. Types'
  <2>1. LineOK' /\ OneNak'
    BY <1>1, DartAssumption DEF PumpConfirmed, Hears, Clear, bounds, IInv, Types, TypeOK,
         LineOK, OneNak, Commands
  <2>2. TypeOK'
    BY <1>1, <2>1, DartAssumption DEF PumpConfirmed, Hears, Clear, bounds, IInv, Types,
         TypeOK, OneNak, Commands, FromPump, Orders
  <2> QED
    BY <1>1, <2>1, <2>2 DEF PumpConfirmed, Hears, Clear, bounds, IInv, Types, TypeOK,
         LineOK, Reported
<1>3. SUFFICES ASSUME Exact' PROVE Control'
  BY <1>2 DEF IInv
<1>4. Exact
  BY <1>3 DEF PumpConfirmed, Hears, Clear, bounds, IInv, Types, TypeOK, Exact
<1>5. Types /\ Control
  BY <1>4 DEF IInv
<1>6. Exchange'
  BY <1>1, <1>3, <1>4, <1>5 DEF PumpConfirmed, Hears, Clear, bounds, Control, Exchange,
         Types, TypeOK, Commands
<1>7. Reports'
  BY <1>1, <1>3, <1>4, <1>5 DEF PumpConfirmed, Hears, Clear, bounds, Control, Exchange,
         Reports, Delivering, Types, TypeOK, Commands
<1>8. Stops'
  BY <1>1, <1>3, <1>4, <1>5 DEF PumpConfirmed, Hears, Clear, bounds, Control, Exchange,
         Stops, Types, TypeOK, Commands
<1>9. Held'
  BY <1>1, <1>3, <1>4, <1>5 DEF PumpConfirmed, Hears, Clear, bounds, Control, Exchange,
         Held, Ending, Types, TypeOK, Commands
<1> QED
  BY <1>6, <1>7, <1>8, <1>9 DEF Control

(* The pump obeys the current command, and then has something to report.   *)
LEMMA PumpTakesStep ==
    ASSUME IInv, PumpTakes
    PROVE  IInv'
<1>1. disp' = disp
  BY DEF PumpTakes, Hears, Put
<1>2. Types'
  <2>0. pump \in Pump /\ seen \in Seen
    BY DEF IInv, Types, TypeOK, Pump, Seen
  <2>1. LineOK' /\ OneNak'
    BY <1>1, DartAssumption DEF PumpTakes, Hears, Put, bounds, Effect, IInv, Types, TypeOK,
         LineOK, OneNak, Commands
  <2>2. pump' \in Pump /\ seen' \in Seen
    <3>1. Effect(pump, line) \in Pump
      BY <2>0, EffectType DEF IInv, Types, LineOK
    <3>2. pump' = [Effect(pump, line) EXCEPT !.news = "new"]
      BY DEF PumpTakes
    <3>3. pump' \in Pump
      BY <3>1, <3>2, PumpType
    <3>4. /\ (seen.acted \/ line.kind = disp.command) \in BOOLEAN
          /\ (IF ~disp.stop \/ line.kind = "Stop" THEN 0
              ELSE IF seen.ahead < 2 THEN seen.ahead + 1 ELSE seen.ahead) \in 0..2
      BY <2>0 DEF Seen
    <3> QED
      BY <2>0, <3>3, <3>4 DEF PumpTakes, Seen
  <2>3. faults' \in 0 .. MaxFaults /\ events' \in 0 .. MaxEvents
    BY DartAssumption DEF PumpTakes, Hears, Put, bounds, Effect, IInv, Types, TypeOK
  <2>4. TypeOK'
    BY <1>1, <2>1, <2>2, <2>3, DartAssumption DEF PumpTakes, Hears, Put, bounds, Effect,
         IInv, Types, TypeOK, Pump, Seen, OneNak, Commands, FromPump
  <2> QED
    BY <1>1, <2>1, <2>4 DEF PumpTakes, Hears, Put, bounds, Effect, IInv, Types, TypeOK,
         LineOK, Reported, dds_NotProgrammed, dds_Reset, dds_Authorized, dds_Filling,
         dds_FillingComplete, dds_MaxVolReached
<1>3. SUFFICES ASSUME Exact' PROVE Control'
  BY <1>2 DEF IInv
<1>4. Exact
  BY <1>3 DEF PumpTakes, Hears, Put, bounds, Effect, IInv, Types, TypeOK, Exact
<1>5. Types /\ Control
  BY <1>4 DEF IInv
<1>6. Exchange'
  BY <1>1, <1>3, <1>4, <1>5 DEF PumpTakes, Hears, Put, bounds, Effect, Control, Exchange,
         Types, TypeOK, Commands
<1>7. Reports'
  BY <1>1, <1>3, <1>4, <1>5 DEF PumpTakes, Hears, Put, bounds, Effect, Control, Exchange,
         Reports, Delivering, Types, TypeOK, Commands, Reported, dds_NotProgrammed,
         dds_Reset, dds_Authorized, dds_Filling, dds_FillingComplete, dds_MaxVolReached
<1>8. Stops'
  BY <1>1, <1>3, <1>4, <1>5 DEF PumpTakes, Hears, Put, bounds, Effect, Control, Exchange,
         Stops, Types, TypeOK, Commands
<1>9. Held'
  BY <1>1, <1>3, <1>4, <1>5 DEF PumpTakes, Hears, Put, bounds, Effect, Control, Exchange,
         Held, Ending, Types, TypeOK, Commands
<1> QED
  BY <1>6, <1>7, <1>8, <1>9 DEF Control

(* A frame nobody hears is gone.                                           *)
LEMMA UnheardStep ==
    ASSUME IInv, Unheard
    PROVE  IInv'
<1>1. disp' = disp
  BY DEF Unheard, Clear, Quiet, FromPump
<1>2. Types'
  <2>1. LineOK' /\ OneNak'
    BY <1>1, DartAssumption DEF Unheard, Clear, Quiet, FromPump, bounds, IInv, Types,
         TypeOK, LineOK, OneNak, Commands
  <2>2. TypeOK'
    BY <1>1, <2>1, DartAssumption DEF Unheard, Clear, Quiet, FromPump, bounds, IInv, Types,
         TypeOK, OneNak, Commands, Orders
  <2> QED
    BY <1>1, <2>1, <2>2 DEF Unheard, Clear, Quiet, FromPump, bounds, IInv, Types, TypeOK,
         LineOK, Reported
<1>3. SUFFICES ASSUME Exact' PROVE Control'
  BY <1>2 DEF IInv
<1>4. Exact
  BY <1>3 DEF Unheard, Clear, Quiet, FromPump, bounds, IInv, Types, TypeOK, Exact
<1>5. Types /\ Control
  BY <1>4 DEF IInv
<1>6. Exchange'
  BY <1>1, <1>3, <1>4, <1>5 DEF Unheard, Clear, Quiet, FromPump, bounds, Control, Exchange,
         Types, TypeOK, Commands
<1>7. Reports'
  BY <1>1, <1>3, <1>4, <1>5 DEF Unheard, Clear, Quiet, FromPump, bounds, Control, Exchange,
         Reports, Delivering, Types, TypeOK, Commands
<1>8. Stops'
  BY <1>1, <1>3, <1>4, <1>5 DEF Unheard, Clear, Quiet, FromPump, bounds, Control, Exchange,
         Stops, Types, TypeOK, Commands
<1>9. Held'
  BY <1>1, <1>3, <1>4, <1>5 DEF Unheard, Clear, Quiet, FromPump, bounds, Control, Exchange,
         Held, Ending, Types, TypeOK, Commands
<1> QED
  BY <1>6, <1>7, <1>8, <1>9 DEF Control

(* A delivery begins only after an authorisation, and is reported.         *)
LEMMA FillStep ==
    ASSUME IInv, Fill
    PROVE  IInv'
<1>1. disp' = disp
  BY DEF Fill, Pumping
<1>2. Types'
  <2>0. pump \in Pump /\ seen \in Seen
    BY DEF IInv, Types, TypeOK, Pump, Seen
  <2>1. LineOK' /\ OneNak'
    BY <1>1, DartAssumption DEF Fill, Pumping, bounds, IInv, Types, TypeOK, LineOK, OneNak,
         Commands
  <2>2. pump' \in Pump /\ seen' \in Seen
    <3> DEFINE a == [pump EXCEPT !.state = dds_Filling]
    <3>1. dds_Filling \in 0..7
      BY DEF dds_Filling
    <3>2. a \in Pump
      BY <2>0, <3>1, PumpType
    <3>3. pump' = [a EXCEPT !.news = "new"] /\ seen' = seen
      BY DEF Fill
    <3> HIDE DEF a
    <3> QED
      BY <2>0, <3>2, <3>3, PumpType
  <2>3. faults' \in 0 .. MaxFaults /\ events' \in 0 .. MaxEvents
    BY DartAssumption DEF Fill, Pumping, bounds, IInv, Types, TypeOK
  <2>4. TypeOK'
    BY <1>1, <2>1, <2>2, <2>3, DartAssumption DEF Fill, Pumping, bounds, IInv, Types,
         TypeOK, Pump, Seen, OneNak, Commands, FromPump
  <2> QED
    BY <1>1, <2>1, <2>4 DEF Fill, Pumping, bounds, IInv, Types, TypeOK, LineOK, Reported,
         dds_NotProgrammed, dds_Reset, dds_Authorized, dds_Filling, dds_FillingComplete,
         dds_MaxVolReached
<1>3. SUFFICES ASSUME Exact' PROVE Control'
  BY <1>2 DEF IInv
<1>4. Exact
  BY <1>3 DEF Fill, Pumping, bounds, IInv, Types, TypeOK, Exact
<1>5. Types /\ Control
  BY <1>4 DEF IInv
<1>6. Exchange'
  BY <1>1, <1>3, <1>4, <1>5 DEF Fill, Pumping, bounds, Control, Exchange, Types, TypeOK,
         Commands
<1>7. Reports'
  BY <1>1, <1>3, <1>4, <1>5 DEF Fill, Pumping, bounds, Control, Exchange, Reports,
         Delivering, Types, TypeOK, Commands, Reported, dds_NotProgrammed, dds_Reset,
         dds_Authorized, dds_Filling, dds_FillingComplete, dds_MaxVolReached
<1>8. Stops'
  BY <1>1, <1>3, <1>4, <1>5 DEF Fill, Pumping, bounds, Control, Exchange, Stops, Types,
         TypeOK, Commands
<1>9. Held'
  BY <1>1, <1>3, <1>4, <1>5 DEF Fill, Pumping, bounds, Control, Exchange, Held, Ending,
         Types, TypeOK, Commands
<1> QED
  BY <1>6, <1>7, <1>8, <1>9 DEF Control

LEMMA FillUpStep ==
    ASSUME IInv, FillUp
    PROVE  IInv'
<1>1. disp' = disp
  BY DEF FillUp
<1>2. Types'
  <2>0. pump \in Pump /\ seen \in Seen
    BY DEF IInv, Types, TypeOK, Pump, Seen
  <2>1. LineOK' /\ OneNak'
    BY <1>1, DartAssumption DEF FillUp, bounds, IInv, Types, TypeOK, LineOK, OneNak,
         Commands
  <2>2. pump' \in Pump /\ seen' \in Seen
    <3> DEFINE a == [pump EXCEPT !.state = dds_MaxVolReached]
               b == [a EXCEPT !.full = TRUE]
    <3>1. dds_MaxVolReached \in 0..7 /\ TRUE \in BOOLEAN
      BY DEF dds_MaxVolReached
    <3>2. a \in Pump
      BY <2>0, <3>1, PumpType
    <3>3. pump' = [b EXCEPT !.news = "new"] /\ seen' = seen
      BY DEF FillUp
    <3> HIDE DEF a
    <3>4. b \in Pump
      BY <3>1, <3>2, PumpType
    <3> HIDE DEF b
    <3> QED
      BY <2>0, <3>3, <3>4, PumpType
  <2>3. faults' \in 0 .. MaxFaults /\ events' \in 0 .. MaxEvents
    BY DartAssumption DEF FillUp, bounds, IInv, Types, TypeOK
  <2>4. TypeOK'
    BY <1>1, <2>1, <2>2, <2>3, DartAssumption DEF FillUp, bounds, IInv, Types, TypeOK, Pump,
         Seen, OneNak, Commands, FromPump
  <2> QED
    BY <1>1, <2>1, <2>4 DEF FillUp, bounds, IInv, Types, TypeOK, LineOK, Reported,
         dds_NotProgrammed, dds_Reset, dds_Authorized, dds_Filling, dds_FillingComplete,
         dds_MaxVolReached
<1>3. SUFFICES ASSUME Exact' PROVE Control'
  BY <1>2 DEF IInv
<1>4. Exact
  BY <1>3 DEF FillUp, bounds, IInv, Types, TypeOK, Exact
<1>5. Types /\ Control
  BY <1>4 DEF IInv
<1>6. Exchange'
  BY <1>1, <1>3, <1>4, <1>5 DEF FillUp, bounds, Control, Exchange, Types, TypeOK, Commands
<1>7. Reports'
  BY <1>1, <1>3, <1>4, <1>5 DEF FillUp, bounds, Control, Exchange, Reports, Delivering,
         Types, TypeOK, Commands, Reported, dds_NotProgrammed, dds_Reset, dds_Authorized,
         dds_Filling, dds_FillingComplete, dds_MaxVolReached
<1>8. Stops'
  BY <1>1, <1>3, <1>4, <1>5 DEF FillUp, bounds, Control, Exchange, Stops, Types, TypeOK,
         Commands
<1>9. Held'
  BY <1>1, <1>3, <1>4, <1>5 DEF FillUp, bounds, Control, Exchange, Held, Ending, Types,
         TypeOK, Commands
<1> QED
  BY <1>6, <1>7, <1>8, <1>9 DEF Control

(* A nozzle put back ends the delivery.                                    *)
LEMMA MoveNozzleStep ==
    ASSUME IInv, MoveNozzle
    PROVE  IInv'
<1>1. disp' = disp
  BY DEF MoveNozzle
<1>2. Types'
  <2>0. pump \in Pump /\ seen \in Seen
    BY DEF IInv, Types, TypeOK, Pump, Seen
  <2>1. LineOK' /\ OneNak'
    BY <1>1, DartAssumption DEF MoveNozzle, bounds, IInv, Types, TypeOK, LineOK, OneNak,
         Commands
  <2>2. pump' \in Pump /\ seen' \in Seen
    <3> DEFINE n == ~pump.nozzle
               s == IF pump.nozzle /\ pump.state \in {dds_Filling, dds_MaxVolReached}
                      THEN dds_FillingComplete ELSE pump.state
               a == [pump EXCEPT !.nozzle = n]
               b == [a EXCEPT !.news = "new"]
    <3>1. n \in BOOLEAN /\ s \in 0..7
      BY <2>0 DEF Pump, dds_FillingComplete
    <3>2. pump' = [b EXCEPT !.state = s] /\ seen' = seen
      BY <2>0 DEF MoveNozzle, Pump
    <3> HIDE DEF n, s
    <3>3. a \in Pump
      BY <2>0, <3>1, PumpType
    <3> HIDE DEF a
    <3>4. b \in Pump
      BY <3>3, PumpType
    <3> HIDE DEF b
    <3> QED
      BY <2>0, <3>1, <3>2, <3>4, PumpType
  <2>3. faults' \in 0 .. MaxFaults /\ events' \in 0 .. MaxEvents
    BY DartAssumption DEF MoveNozzle, bounds, IInv, Types, TypeOK
  <2>4. TypeOK'
    BY <1>1, <2>1, <2>2, <2>3, DartAssumption DEF MoveNozzle, bounds, IInv, Types, TypeOK,
         Pump, Seen, OneNak, Commands, FromPump
  <2> QED
    BY <1>1, <2>1, <2>4 DEF MoveNozzle, bounds, IInv, Types, TypeOK, LineOK, Reported,
         dds_NotProgrammed, dds_Reset, dds_Authorized, dds_Filling, dds_FillingComplete,
         dds_MaxVolReached
<1>3. SUFFICES ASSUME Exact' PROVE Control'
  BY <1>2 DEF IInv
<1>4. Exact
  BY <1>3 DEF MoveNozzle, bounds, IInv, Types, TypeOK, Exact
<1>5. Types /\ Control
  BY <1>4 DEF IInv
<1>6. Exchange'
  BY <1>1, <1>3, <1>4, <1>5 DEF MoveNozzle, bounds, Control, Exchange, Types, TypeOK,
         Commands
<1>7. Reports'
  BY <1>1, <1>3, <1>4, <1>5 DEF MoveNozzle, bounds, Control, Exchange, Reports, Delivering,
         Types, TypeOK, Commands, Reported, dds_NotProgrammed, dds_Reset, dds_Authorized,
         dds_Filling, dds_FillingComplete, dds_MaxVolReached
<1>8. Stops'
  BY <1>1, <1>3, <1>4, <1>5 DEF MoveNozzle, bounds, Control, Exchange, Stops, Types, TypeOK,
         Commands
<1>9. Held'
  BY <1>1, <1>3, <1>4, <1>5 DEF MoveNozzle, bounds, Control, Exchange, Held, Ending, Types,
         TypeOK, Commands
<1> QED
  BY <1>6, <1>7, <1>8, <1>9 DEF Control

(* A lost frame leaves either side where it waits.                         *)
LEMMA LoseStep ==
    ASSUME IInv, Lose
    PROVE  IInv'
<1>1. disp' = disp
  BY DEF Lose, Clear, Fault, Quiet
<1>2. Types'
  <2>1. LineOK' /\ OneNak'
    BY <1>1, DartAssumption DEF Lose, Clear, Fault, Quiet, bounds, IInv, Types, TypeOK,
         LineOK, OneNak, Commands
  <2>2. TypeOK'
    BY <1>1, <2>1, DartAssumption DEF Lose, Clear, Fault, Quiet, bounds, IInv, Types,
         TypeOK, OneNak, Commands, FromPump, Orders
  <2> QED
    BY <1>1, <2>1, <2>2 DEF Lose, Clear, Fault, Quiet, bounds, IInv, Types, TypeOK, LineOK,
         Reported
<1>3. SUFFICES ASSUME Exact' PROVE Control'
  BY <1>2 DEF IInv
<1>4. Exact
  BY <1>3 DEF Lose, Clear, Fault, Quiet, bounds, IInv, Types, TypeOK, Exact
<1>5. Types /\ Control
  BY <1>4 DEF IInv
<1>6. Exchange'
  BY <1>1, <1>3, <1>4, <1>5 DEF Lose, Clear, Fault, Quiet, bounds, Control, Exchange, Types,
         TypeOK, Commands
<1>7. Reports'
  BY <1>1, <1>3, <1>4, <1>5 DEF Lose, Clear, Fault, Quiet, bounds, Control, Exchange,
         Reports, Delivering, Types, TypeOK, Commands
<1>8. Stops'
  BY <1>1, <1>3, <1>4, <1>5 DEF Lose, Clear, Fault, Quiet, bounds, Control, Exchange, Stops,
         Types, TypeOK, Commands
<1>9. Held'
  BY <1>1, <1>3, <1>4, <1>5 DEF Lose, Clear, Fault, Quiet, bounds, Control, Exchange, Held,
         Ending, Types, TypeOK, Commands
<1> QED
  BY <1>6, <1>7, <1>8, <1>9 DEF Control

LEMMA GarbleStep ==
    ASSUME IInv, Garble
    PROVE  IInv'
<1>1. disp' = disp
  BY DEF Garble, Put, Fault
<1>2. Types'
  <2>1. LineOK' /\ OneNak'
    BY <1>1, DartAssumption DEF Garble, Put, Fault, bounds, IInv, Types, TypeOK, LineOK,
         OneNak, Commands
  <2>2. TypeOK'
    BY <1>1, <2>1, DartAssumption DEF Garble, Put, Fault, bounds, IInv, Types, TypeOK,
         OneNak, Commands, FromPump, Orders
  <2> QED
    BY <1>1, <2>1, <2>2 DEF Garble, Put, Fault, bounds, IInv, Types, TypeOK, LineOK,
         Reported
<1>3. SUFFICES ASSUME Exact' PROVE Control'
  BY <1>2 DEF IInv
<1>4. Exact
  BY <1>3 DEF Garble, Put, Fault, bounds, IInv, Types, TypeOK, Exact
<1>5. Types /\ Control
  BY <1>4 DEF IInv
<1>6. Exchange'
  BY <1>1, <1>3, <1>4, <1>5 DEF Garble, Put, Fault, bounds, Control, Exchange, Types,
         TypeOK, Commands
<1>7. Reports'
  BY <1>1, <1>3, <1>4, <1>5 DEF Garble, Put, Fault, bounds, Control, Exchange, Reports,
         Delivering, Types, TypeOK, Commands
<1>8. Stops'
  BY <1>1, <1>3, <1>4, <1>5 DEF Garble, Put, Fault, bounds, Control, Exchange, Stops, Types,
         TypeOK, Commands
<1>9. Held'
  BY <1>1, <1>3, <1>4, <1>5 DEF Garble, Put, Fault, bounds, Control, Exchange, Held, Ending,
         Types, TypeOK, Commands
<1> QED
  BY <1>6, <1>7, <1>8, <1>9 DEF Control

LEMMA RefuseStep ==
    ASSUME IInv, Refuse
    PROVE  IInv'
<1>1. disp' = disp
  BY DEF Refuse, Put, Fault
<1>2. Types'
  <2>1. LineOK' /\ OneNak'
    BY <1>1, DartAssumption DEF Refuse, Put, Fault, bounds, IInv, Types, TypeOK, LineOK,
         OneNak, Commands
  <2>2. TypeOK'
    BY <1>1, <2>1, DartAssumption DEF Refuse, Put, Fault, bounds, IInv, Types, TypeOK,
         OneNak, Commands, FromPump, Orders
  <2> QED
    BY <1>1, <2>1, <2>2 DEF Refuse, Put, Fault, bounds, IInv, Types, TypeOK, LineOK,
         Reported
<1>3. SUFFICES ASSUME Exact' PROVE Control'
  BY <1>2 DEF IInv
<1>4. Exact
  BY <1>3 DEF Refuse, Put, Fault, bounds, IInv, Types, TypeOK, Exact
<1>5. Types /\ Control
  BY <1>4 DEF IInv
<1>6. Exchange'
  BY <1>1, <1>3, <1>4, <1>5 DEF Refuse, Put, Fault, bounds, Control, Exchange, Types,
         TypeOK, Commands
<1>7. Reports'
  BY <1>1, <1>3, <1>4, <1>5 DEF Refuse, Put, Fault, bounds, Control, Exchange, Reports,
         Delivering, Types, TypeOK, Commands
<1>8. Stops'
  BY <1>1, <1>3, <1>4, <1>5 DEF Refuse, Put, Fault, bounds, Control, Exchange, Stops, Types,
         TypeOK, Commands
<1>9. Held'
  BY <1>1, <1>3, <1>4, <1>5 DEF Refuse, Put, Fault, bounds, Control, Exchange, Held, Ending,
         Types, TypeOK, Commands
<1> QED
  BY <1>6, <1>7, <1>8, <1>9 DEF Control

LEMMA UnplugStep ==
    ASSUME IInv, Unplug
    PROVE  IInv'
<1>1. disp' = disp
  BY DEF Unplug, Fault
<1>2. Types'
  <2>0. pump \in Pump /\ seen \in Seen
    BY DEF IInv, Types, TypeOK, Pump, Seen
  <2>1. LineOK' /\ OneNak'
    BY <1>1, DartAssumption DEF Unplug, Fault, bounds, IInv, Types, TypeOK, LineOK, OneNak,
         Commands
  <2>2. pump' \in Pump /\ seen' \in Seen
    BY <2>0 DEF Unplug, Fault, bounds, Pump, Seen
  <2>3. faults' \in 0 .. MaxFaults /\ events' \in 0 .. MaxEvents
    BY DartAssumption DEF Unplug, Fault, bounds, IInv, Types, TypeOK
  <2>4. TypeOK'
    BY <1>1, <2>1, <2>2, <2>3, DartAssumption DEF Unplug, Fault, bounds, IInv, Types,
         TypeOK, Pump, Seen, OneNak, Commands, FromPump
  <2> QED
    BY <1>1, <2>1, <2>4 DEF Unplug, Fault, bounds, IInv, Types, TypeOK, LineOK, Reported
<1>3. SUFFICES ASSUME Exact' PROVE Control'
  BY <1>2 DEF IInv
<1>4. Exact
  BY <1>3 DEF Unplug, Fault, bounds, IInv, Types, TypeOK, Exact
<1>5. Types /\ Control
  BY <1>4 DEF IInv
<1>6. Exchange'
  BY <1>1, <1>3, <1>4, <1>5 DEF Unplug, Fault, bounds, Control, Exchange, Types, TypeOK,
         Commands
<1>7. Reports'
  BY <1>1, <1>3, <1>4, <1>5 DEF Unplug, Fault, bounds, Control, Exchange, Reports,
         Delivering, Types, TypeOK, Commands
<1>8. Stops'
  BY <1>1, <1>3, <1>4, <1>5 DEF Unplug, Fault, bounds, Control, Exchange, Stops, Types,
         TypeOK, Commands
<1>9. Held'
  BY <1>1, <1>3, <1>4, <1>5 DEF Unplug, Fault, bounds, Control, Exchange, Held, Ending,
         Types, TypeOK, Commands
<1> QED
  BY <1>6, <1>7, <1>8, <1>9 DEF Control

LEMMA PlugStep ==
    ASSUME IInv, Plug
    PROVE  IInv'
<1>1. disp' = disp
  BY DEF Plug
<1>2. Types'
  <2>0. pump \in Pump /\ seen \in Seen
    BY DEF IInv, Types, TypeOK, Pump, Seen
  <2>1. LineOK' /\ OneNak'
    BY <1>1, DartAssumption DEF Plug, bounds, IInv, Types, TypeOK, LineOK, OneNak, Commands
  <2>2. pump' \in Pump /\ seen' \in Seen
    BY <2>0 DEF Plug, bounds, Pump, Seen
  <2>3. faults' \in 0 .. MaxFaults /\ events' \in 0 .. MaxEvents
    BY DartAssumption DEF Plug, bounds, IInv, Types, TypeOK
  <2>4. TypeOK'
    BY <1>1, <2>1, <2>2, <2>3, DartAssumption DEF Plug, bounds, IInv, Types, TypeOK, Pump,
         Seen, OneNak, Commands, FromPump
  <2> QED
    BY <1>1, <2>1, <2>4 DEF Plug, bounds, IInv, Types, TypeOK, LineOK, Reported
<1>3. SUFFICES ASSUME Exact' PROVE Control'
  BY <1>2 DEF IInv
<1>4. Exact
  BY <1>3 DEF Plug, bounds, IInv, Types, TypeOK, Exact
<1>5. Types /\ Control
  BY <1>4 DEF IInv
<1>6. Exchange'
  BY <1>1, <1>3, <1>4, <1>5 DEF Plug, bounds, Control, Exchange, Types, TypeOK, Commands
<1>7. Reports'
  BY <1>1, <1>3, <1>4, <1>5 DEF Plug, bounds, Control, Exchange, Reports, Delivering, Types,
         TypeOK, Commands
<1>8. Stops'
  BY <1>1, <1>3, <1>4, <1>5 DEF Plug, bounds, Control, Exchange, Stops, Types, TypeOK,
         Commands
<1>9. Held'
  BY <1>1, <1>3, <1>4, <1>5 DEF Plug, bounds, Control, Exchange, Held, Ending, Types,
         TypeOK, Commands
<1> QED
  BY <1>6, <1>7, <1>8, <1>9 DEF Control

-----------------------------------------------------------------------------
(* The invariant holds of every state.                                     *)
LEMMA InitInv == Init => IInv
<1> SUFFICES ASSUME Init PROVE IInv
  OBVIOUS
<1>1. disp \in Dispencer /\ disp.orig = 0 /\ disp.naks = 0 /\ disp.command = "Free"
      /\ disp.xstate = "Free" /\ disp.mode = "Pooling" /\ disp.preset = 0
      /\ ~disp.order /\ ~disp.start /\ ~disp.stop
  BY DartAssumption DEF Init, Dispencer, Commands, Orders, dds_NotProgrammed, ds_NotInitialize
<1>2. /\ pump \in Pump /\ pump.state \in {dds_Reset, dds_FillingComplete} /\ pump.news = "new"
      /\ seen \in Seen /\ ~seen.acted /\ ~seen.dropped /\ seen.ahead = 0
  <2>1. 0 \in Orders /\ dds_Reset \in 0..7 /\ dds_FillingComplete \in 0..7
    BY DartAssumption DEF Orders, dds_Reset, dds_FillingComplete
  <2>2. pump \in Pump /\ pump.state \in {dds_Reset, dds_FillingComplete} /\ pump.news = "new"
    BY <2>1 DEF Init, Pump
  <2>3. seen \in Seen /\ ~seen.acted /\ ~seen.dropped /\ seen.ahead = 0
    BY <2>1 DEF Init, Seen
  <2> QED
    BY <2>2, <2>3
<1>3. Types
  <2>1. TypeOK
    BY <1>1, <1>2, DartAssumption DEF Init, TypeOK, Pump, Seen, Orders
  <2> QED
    BY <1>1, <1>2, <2>1, StatesOfPump DEF Init, Types, LineOK, OneNak, Commands, Reported
<1>4. Exchange /\ Held
  BY <1>1, <1>2 DEF Init, Exchange, Held, Ending, Commands
<1>5. Reports /\ Stops
  BY <1>1, <1>2 DEF Init, Reports, Stops, dds_Filling, Commands
<1> QED
  BY <1>3, <1>4, <1>5 DEF IInv, Control

LEMMA NextInv == IInv /\ [Next]_vars => IInv'
<1> SUFFICES ASSUME IInv, [Next]_vars PROVE IInv'
  OBVIOUS
<1>1. CASE UNCHANGED vars
  BY <1>1 DEF vars, bounds, IInv, Types, TypeOK, LineOK, OneNak, Exact, Control, Exchange,
     Reports, Delivering, Stops, Held, Ending
<1>2. CASE Next
  BY <1>2, StopCallStep, ResetCallStep, DoseStep, BeginCallStep, SetFlagStep, TickStep,
     GiveUpStep, PollStep, SendAckStep, SendNakStep, SendCounterStep, SendCommandStep,
     ReadAckStep, AckModeStep, ReadNakStep, ReadDataStep, ReadGarbledStep, ReadEotStep,
     EotNextStep, PumpAnswersPollStep, PumpConfirmedStep, PumpTakesStep, UnheardStep,
     FillStep, FillUpStep, MoveNozzleStep, LoseStep, GarbleStep, RefuseStep, UnplugStep,
     PlugStep DEF Next
<1> QED
  BY <1>1, <1>2

LEMMA InvAlways == Spec => []IInv
<1> QED
  BY InitInv, NextInv, PTL DEF Spec

(* The record of the pump, the frame on the line and the pump itself keep  *)
(* their types: no counter of Naks or of write turns passes its limit.     *)
THEOREM TypeCorrect == Spec => []TypeOK
<1>1. IInv => TypeOK
  BY DEF IInv, Types
<1> QED
  BY <1>1, InvAlways, PTL

(* Invariant: the driver lets one command at the most pass a stop it has   *)
(* been asked for (select_next_command looks at the stop first).           *)
THEOREM StopsGoFirst == Spec => []StopOvertakes
<1>1. IInv => StopOvertakes
  BY DEF IInv, Control, Stops, StopOvertakes
<1> QED
  BY <1>1, InvAlways, PTL

(* Invariant: a payment on the line finds the pump at rest: what the       *)
(* driver knows of the pump's state when it selects the payment is still   *)
(* true, or the pump could not have begun to deliver.                      *)
THEOREM PaymentsFindNoFill == Spec => []PaymentAfterFill
<1>1. IInv => PaymentAfterFill
  <2> SUFFICES ASSUME IInv, line.kind = "Payment", Exact PROVE ~Delivering
    BY DEF PaymentAfterFill, Delivering
  <2> QED
    BY DEF IInv, Control, Exchange, Reports, Commands
<1> QED
  BY <1>1, InvAlways, PTL

(* Action property: set_complete_command takes a command for complete only *)
(* if the pump has obeyed it, whatever has been lost.                      *)
THEOREM CompletesWhatWasTaken == Spec => CompletedWasTaken
<1> DEFINE Step == reader = "idle" /\ reader' = "eot" /\ disp.command # "Free" /\ Exact
                     => seen.acted
<1>1. IInv /\ [Next]_vars => [Step]_vars
  <2> SUFFICES ASSUME IInv, Next, reader = "idle", reader' = "eot",
                      disp.command # "Free", Exact
               PROVE  seen.acted
    BY DEF vars
  <2>1. ReadEot
    BY DEF Next, StopCall, ResetCall, Dose, BeginCall, SetFlag, Tick, GiveUp, Poll,
       SendAck, SendNak, SendCounter, SendCommand, ReadAck, AckMode, ReadNak, ReadData,
       ReadGarbled, ReadEot, EotNext, PumpAnswersPoll, PumpConfirmed, PumpTakes,
       Unheard, Fill, FillUp, MoveNozzle, Lose, Garble, Refuse, Unplug, Plug, Turn,
       Read, Hears, bounds
  <2>2. disp.mode = "Pooling"
    BY <2>1 DEF ReadEot, Read, IInv, Control, Exchange
  <2> QED
    BY <2>2 DEF IInv, Control, Exchange
<1> QED
  BY <1>1, InvAlways, PTL DEF Spec, CompletedWasTaken

(* Action property: a pump is authorised for the order the driver holds,   *)
(* and on a call of start made for this very order.                        *)
THEOREM StartsWhatWasOrdered == Spec => StartsAsOrdered
<1> DEFINE Step == pump.state = dds_Reset /\ pump.state' = dds_Authorized /\ Exact
                      /\ ~seen.dropped
                     => /\ pump.order # 0 /\ pump.order = disp.preset
                        /\ AutoStart \/ seen.start = disp.preset
<1>1. IInv /\ [Next]_vars => [Step]_vars
  <2> SUFFICES ASSUME IInv, Next, pump.state = dds_Reset, pump.state' = dds_Authorized, Exact,
                      ~seen.dropped
               PROVE  /\ pump.order # 0 /\ pump.order = disp.preset
                      /\ AutoStart \/ seen.start = disp.preset
    BY DEF vars
  <2>1. pump \in Pump
    BY DEF IInv, Types, TypeOK, Pump
  <2>2. pump'.state # pump.state
    BY DEF dds_Reset, dds_Authorized
  <2>3. PumpTakes
    <3>1. ~Fill /\ ~FillUp
      BY DEF Fill, FillUp, Pumping, dds_Reset, dds_Authorized, dds_Filling
    <3>2. ~MoveNozzle
      <4>1. SUFFICES ASSUME MoveNozzle PROVE pump'.state = pump.state
        BY <2>2
      <4>2. pump.state \notin {dds_Filling, dds_MaxVolReached}
        BY DEF dds_Reset, dds_Filling, dds_MaxVolReached
      <4> DEFINE n == ~pump.nozzle
      <4>3. pump' = [pump EXCEPT !.nozzle = n, !.news = "new", !.state = pump.state]
        BY <2>1, <4>1, <4>2 DEF MoveNozzle, Pump
      <4> HIDE DEF n
      <4> QED
        BY <2>1, <4>3 DEF Pump
    <3>3. ~PumpAnswersPoll /\ ~PumpConfirmed /\ ~Unplug /\ ~Plug
      BY <2>1, <2>2 DEF PumpAnswersPoll, PumpConfirmed, Unplug, Plug, Pump
    <3>4. pump' # pump
      BY <2>2
    <3> QED
      BY <3>1, <3>2, <3>3, <3>4 DEF Next, StopCall, ResetCall, Dose, BeginCall, SetFlag,
         Tick, GiveUp, Poll, SendAck, SendNak, SendCounter, SendCommand, ReadAck,
         AckMode, ReadNak, ReadData, ReadGarbled, ReadEot, EotNext, Unheard, Lose,
         Garble, Refuse, Turn, Read, bounds
  <2>4. line.kind = "Start"
    <3>1. Effect(pump, line) \in Pump /\ pump'.state = Effect(pump, line).state
      <4>1. Effect(pump, line) \in Pump
        BY <2>1, EffectType DEF IInv, Types, LineOK
      <4>2. pump' = [Effect(pump, line) EXCEPT !.news = "new"]
        BY <2>3 DEF PumpTakes
      <4> HIDE DEF Effect
      <4> QED
        BY <4>1, <4>2 DEF Pump
    <3> QED
      BY <2>1, <2>2, <3>1 DEF Effect, Pump, dds_Reset, dds_Authorized, dds_Filling,
         dds_FillingComplete
  <2>5. disp.command = "Start"
    BY <2>4 DEF IInv, Control, Exchange, Commands
  <2> QED
    BY <2>5 DEF IInv, Control, Held, Ending
<1> QED
  BY <1>1, InvAlways, PTL DEF Spec, StartsAsOrdered

=============================================================================
