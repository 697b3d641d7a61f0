---------------------------- MODULE PssForecourt ----------------------------
(***************************************************************************)
(* The forecourt of pss: the table of fuelling points and the commands     *)
(* that points of sale give them.  Every point of sale that is connected   *)
(* (a client) has two threads: its reader ("pos") carries out its          *)
(* requests, and its dispenser controller thread ("dev") reads the frames  *)
(* of its own link to the hardware server.  All of them share the table;   *)
(* each access holds pss_data_mutex, but a handler works on a COPY of the  *)
(* record between its two accesses.  The command slot of a client's link   *)
(* holds the command under way; its fields are set one by one, each under  *)
(* the mutex of the client.                                                *)
(***************************************************************************)
EXTENDS DcWire, Sequences, FiniteSets

CONSTANTS Clients,      \* points of sale with a session (pss_clients[] in use)
          Points,       \* installed fuelling points
          NoPoint,      \* what a thread that handles no point is about
          Doses,        \* preset values a point of sale may ask for (0: none)
          SeqLimit,     \* numbers of sales run below it (10000)
          ByteMod,      \* what fits the byte a clear keeps of the number (256)
          MaxFrames,    \* bound: frames under way on a link, each way
          Plans         \* bound: how often what happens, see PlansAssumption

\* A plan bounds a behaviour: the kinds and the number of requests, how often
\* the nozzle is lifted or hung, the fills, the commands found too old, and the
\* links that are closed by the network; askers says who makes requests, links
\* whose link is there at first, and stored how many sales the saved file has for every point.
PlansAssumption ==
    Plans \subseteq [links : SUBSET Clients, askers : SUBSET Clients,
                     kinds : SUBSET {"authorize", "reset", "clear", "open", "close", "estop", "cancel"},
                     requests : Nat, lifts : Nat, sales : Nat, timeouts : Nat, drops : Nat,
                     stored : Nat]

ASSUME ConstantsAssumption ==
    /\ NoPoint \notin Points
    /\ {SeqLimit, ByteMod} \subseteq Nat \ {0} /\ MaxFrames \in Nat
    /\ PlansAssumption

Threads == Clients \X {"pos", "dev"}
Pos(c) == <<c, "pos">>
Dev(c) == <<c, "dev">>

\* The order of PSSFpMainState, as far as the dispensers of this program use it.
MainStates == <<"Unconfigured", "Idle", "Calling", "PreAuthorized", "Starting",
                "Fuelling", "FuellingPaused", "Unavailable">>
NotYetAuthorized == {"Unconfigured", "Idle", "Calling"}

NoRequest == 0
NoRecord == [kind |-> "none"]

VARIABLES
    fp,       \* pss_data.devices.fuelling_points, by point
    slot,     \* the current command of each client's link
    thr,      \* where each thread is and the copies it holds
    up,       \* requests on their way to the hardware server, by client
    down,     \* frames on their way to pss, by client
    unsent,   \* points whose change the hardware server has not pushed, by client
    pump,     \* the dispensers themselves, and the sale each shows
    stored,   \* the socket that pss_clients keeps for the link is the open one
    asked,    \* what each point of sale asked and what it was told
    left,     \* what is left of the bounds
    seen      \* what has happened that the properties excuse

vars == <<fp, slot, thr, up, down, unsent, pump, stored, asked, left, seen>>

Idle == [pc |-> "idle", cmd |-> "none", by |-> NoRequest, f |-> NoPoint,
         copy |-> NoRecord, own |-> NoRecord, msg |-> NoRecord]
FreeSlot == [code |-> "None", pss |-> "none", old |-> TRUE, by |-> NoRequest]

\* A point as load_pss_data finds it, with n sales that no one has cleared: they
\* are the fills before the first one here.
Loaded(n) ==
    [main |-> "Idle", preset |-> FALSE, dose |-> 0, grade |-> FALSE, stopped |-> FALSE,
     closed |-> FALSE, total |-> n, sup |-> [i \in 1..n |-> [no |-> i % SeqLimit, sale |-> i]],
     last |-> n % SeqLimit]

Init ==
    /\ left \in Plans
    /\ fp = [f \in Points |-> Loaded(left.stored)]
    /\ slot = [c \in Clients |-> FreeSlot]
    /\ thr = [t \in Threads |-> Idle]
    /\ up = [c \in Clients |-> <<>>] /\ down = [c \in Clients |-> <<>>]
    /\ unsent = [c \in Clients |-> {}]
    /\ pump = [f \in Points |-> [state |-> "Free", dose |-> 0, sale |-> left.stored, by |-> <<>>]]
    /\ stored = [c \in Clients |-> c \in left.links]
    /\ asked = [c \in Clients |-> <<>>]
    /\ seen = [overwritten |-> {}, reused |-> {}, timedOut |-> {}, stale |-> {},
               forced |-> {}, renewed |-> {}]

-----------------------------------------------------------------------------
(* The table and the slot.                                                 *)

\* Every other thread that holds a copy of f holds an old one from now on.
Holders(f, t) == {u \in Threads \ {t} : thr[u].f = f
                    /\ (thr[u].copy # NoRecord \/ thr[u].own # NoRecord)}

\* update_fp and set_fuelling_point_by_id: the whole record is replaced.
WriteBack(f, t, rec) ==
    /\ fp' = [fp EXCEPT ![f] = rec]
    /\ seen' = [seen EXCEPT
            !.stale = (@ \ {t}) \cup Holders(f, t),
            !.overwritten = IF t \in seen.stale THEN @ \cup {f} ELSE @]

\* The setters that change some fields of the record in place.
InPlace(f, t, rec) ==
    /\ fp' = [fp EXCEPT ![f] = rec]
    /\ seen' = [seen EXCEPT !.stale = @ \cup Holders(f, t)]

\* A reset that forgets the sales too.
ResetParams_All(f) == [fp[f] EXCEPT !.preset = FALSE, !.dose = 0, !.stopped = FALSE, !.sup = <<>>]

\* reset_fp_param
ResetParams(f) == [fp[f] EXCEPT !.preset = FALSE, !.dose = 0, !.stopped = FALSE]

\* The loop that begins one sale too late.
Without_Late(sup, n) ==
    LET hits == {i \in 1..Len(sup) : sup[i].no = n}
    IN  IF hits = {} THEN sup ELSE SubSeq(sup, 1, Len(sup) - 1)

\* delete_fp_sup_trans: count shrinks while the loop that moves the later sales
\* down runs up to it, so with three or more sales behind the first match the
\* last ones fall off.
Without(sup, n) ==
    LET hits == {i \in 1..Len(sup) : sup[i].no = n}
        j == CHOOSE i \in hits : \A k \in hits : i <= k
        moves == (Len(sup) - j + 2) \div 2
    IN  IF hits = {} THEN sup
        ELSE SubSeq(sup, 1, j - 1) \o SubSeq(sup, j + 1, Len(sup) - moves + 1)

\* The sale that ParseDispencerDataFrame appends.
NextNo(n) == IF n + 1 >= SeqLimit THEN 0 ELSE n + 1
WithSale(rec, sale) ==
    [rec EXCEPT !.last = NextNo(rec.last),
                !.sup = Append(@, [no |-> NextNo(rec.last), sale |-> sale]),
                !.main = "Unavailable"]

Spends(bound) == left[bound] > 0 /\ left' = [left EXCEPT ![bound] = @ - 1]

\* The answers a point of sale reads: an acknowledgement, or pssc_Rejected.
Told(c, by, ans) ==
    IF by = NoRequest THEN asked
    ELSE [asked EXCEPT ![c][by].told = Append(@, ans)]

Done(t) == thr' = [thr EXCEPT ![t] = Idle]
Goto(t, pc) == thr' = [thr EXCEPT ![t].pc = pc]

\* What follows a call of authorize_fp or reset_fp: the reader is done, the
\* thread of the link still stores its own copy.
Return(t) == IF t[2] = "dev" THEN [thr[t] EXCEPT !.pc = "store", !.copy = NoRecord]
             ELSE Idle
Returns(t) == thr' = [thr EXCEPT ![t] = Return(t)]

-----------------------------------------------------------------------------
(* authorize_fp and reset_fp, run by either thread of a client.            *)

\* get_client_device_index_by_id: only a link whose stored socket is open.
Linked(t) == stored[t[1]]
SlotFree(t) == slot[t[1]].code = "None"

\* A message leaves on the socket that the table of clients keeps, or is lost.
Sends(c, msg) ==
    IF stored[c] THEN Len(up[c]) < MaxFrames /\ up' = [up EXCEPT ![c] = Append(@, msg)]
    ELSE UNCHANGED up
Code(t) == IF thr[t].copy # NoRecord THEN "SetDose" ELSE "Reset"

\* A refusal that does not return.
Authorize_Goes(t) ==
    /\ thr[t].pc = "authorize"
    /\ LET copy == [thr[t].copy EXCEPT !.main = "PreAuthorized"]
       IN  IF Linked(t)
           THEN /\ thr' = [thr EXCEPT ![t].copy = copy, ![t].pc = "code"]
                /\ asked' = IF SlotFree(t) THEN asked ELSE Told(t[1], thr[t].by, "rejected")
           ELSE /\ Goto(t, "update")
                /\ asked' = Told(t[1], thr[t].by, "rejected")
    /\ UNCHANGED <<fp, slot, up, down, unsent, pump, stored, left, seen>>

\* authorize_fp: no price, limit, nozzle or valid grade is found for the copy.
Unauthorized(t) ==
    /\ thr[t].pc = "authorize"
    /\ Returns(t)
    /\ asked' = Told(t[1], thr[t].by, "rejected")
    /\ seen' = IF t[2] = "dev" THEN seen ELSE [seen EXCEPT !.stale = @ \ {t}]
    /\ UNCHANGED <<fp, slot, up, down, unsent, pump, stored, left>>

\* They are found: the dispenser is looked up, then the preset and the slot are
\* tested.  Whatever the outcome, a point with a dispenser is PreAuthorized in
\* the copy.
Authorize(t) ==
    /\ thr[t].pc = "authorize"
    /\ LET ok == thr[t].copy.dose > 0 /\ SlotFree(t)
           copy == [thr[t].copy EXCEPT !.main = "PreAuthorized"]
       IN  IF Linked(t)
           THEN /\ thr' = [thr EXCEPT ![t].copy = copy, ![t].pc = IF ok THEN "code" ELSE "update"]
                /\ asked' = IF ok THEN asked ELSE Told(t[1], thr[t].by, "rejected")
           ELSE /\ Goto(t, "update")
                /\ asked' = Told(t[1], thr[t].by, "rejected")
    /\ UNCHANGED <<fp, slot, up, down, unsent, pump, stored, left, seen>>

\* reset_fp: without the dispenser's link nobody is told anything.
Reset(t) ==
    /\ thr[t].pc = "reset"
    /\ IF Linked(t) /\ SlotFree(t)
       THEN Goto(t, "code") /\ UNCHANGED asked
       ELSE /\ Returns(t)
            /\ asked' = IF Linked(t) THEN Told(t[1], thr[t].by, "rejected") ELSE asked
    /\ UNCHANGED <<fp, slot, up, down, unsent, pump, stored, left, seen>>

\* set_current_command: the test and this are two holds of the mutex.
SetCode(t) ==
    /\ thr[t].pc = "code"
    /\ slot' = [slot EXCEPT ![t[1]].code = Code(t), ![t[1]].by = thr[t].by]
    /\ seen' = IF SlotFree(t) THEN seen ELSE [seen EXCEPT !.reused = @ \cup {t[1]}]
    /\ Goto(t, "name")
    /\ UNCHANGED <<fp, up, down, unsent, pump, stored, asked, left>>

\* set_pss_command (with its subcode and mode)
SetName(t) ==
    /\ thr[t].pc = "name"
    /\ slot' = [slot EXCEPT ![t[1]].pss = thr[t].cmd]
    /\ Goto(t, "send")
    /\ UNCHANGED <<fp, up, down, unsent, pump, stored, asked, left, seen>>

\* set_current_command_sent_time, then the message to the hardware server.
Send(t) ==
    LET c == t[1] IN
    /\ thr[t].pc = "send"
    /\ slot' = [slot EXCEPT ![c].old = FALSE]
    /\ Sends(c, [code |-> Code(t), f |-> thr[t].f, by |-> thr[t].by,
                 dose |-> IF thr[t].copy # NoRecord THEN thr[t].copy.dose ELSE 0])
    /\ Goto(t, IF thr[t].copy # NoRecord THEN "update" ELSE "params")
    /\ UNCHANGED <<fp, down, unsent, pump, stored, asked, left, seen>>

Params(t) ==
    /\ thr[t].pc = "params"
    /\ InPlace(thr[t].f, t, ResetParams(thr[t].f))
    /\ Returns(t)
    /\ UNCHANGED <<slot, up, down, unsent, pump, stored, asked, left>>

\* update_fp: the end of authorize_fp and of open_fp.
Update(t) ==
    /\ thr[t].pc = "update"
    /\ WriteBack(thr[t].f, t, thr[t].copy)
    /\ Returns(t)
    /\ asked' = IF thr[t].cmd = "open" THEN Told(t[1], thr[t].by, "ack") ELSE asked
    /\ UNCHANGED <<slot, up, down, unsent, pump, stored, left>>

Procedures(t) == Unauthorized(t) \/ Authorize(t) \/ Reset(t) \/ SetCode(t) \/ SetName(t) \/ Send(t)
                 \/ Params(t) \/ Update(t)
-----------------------------------------------------------------------------
(* The reader of a point of sale: interpret_command.                       *)

\* A request arrives; requests are carried out one after the other.
Asks(c, kind) ==
    /\ thr[Pos(c)].pc = "idle" /\ c \in left.askers /\ kind \in left.kinds
    /\ Spends("requests")
    /\ asked' = [asked EXCEPT ![c] = Append(@, [told |-> <<>>, done |-> kind = "open"])]

Start(c, pc, kind, f, copy) ==
    thr' = [thr EXCEPT ![Pos(c)] = [Idle EXCEPT !.pc = pc, !.cmd = kind, !.f = f,
                !.by = Len(asked[c]) + 1, !.copy = copy]]

Answered(c, kind, ans) ==
    /\ thr[Pos(c)].pc = "idle" /\ c \in left.askers /\ kind \in left.kinds
    /\ Spends("requests")
    /\ asked' = [asked EXCEPT ![c] = Append(@, [told |-> <<ans>>, done |-> ans = "ack"])]
    /\ UNCHANGED thr

\* parse_authorize_fp: a point that has a preset is refused.  Otherwise the copy
\* gets the preset; with the nozzle hung (no grade) it is only written back and
\* nothing is answered.  A reset that the dispenser refuses clears the preset too.
AskAuthorize(c) ==
    \E f \in Points, d \in Doses :
        LET copy == [fp[f] EXCEPT !.preset = TRUE, !.dose = d, !.stopped = FALSE] IN
        /\ \/ /\ fp[f].preset
              /\ Answered(c, "authorize", "rejected")
              /\ UNCHANGED seen
           \/ /\ ~fp[f].preset
              /\ Asks(c, "authorize")
              /\ Start(c, IF copy.grade THEN "authorize" ELSE "update", "authorize", f, copy)
              /\ seen' = IF fp[f].main \in {"Idle", "Calling"} THEN seen
                         ELSE [seen EXCEPT !.renewed = @ \cup {f}]
        /\ UNCHANGED <<fp, slot, up, down, unsent, pump, stored>>

\* parse_reset_fp
AskReset(c) ==
    \E f \in Points :
        /\ Asks(c, "reset") /\ Start(c, "reset", "reset", f, NoRecord)
        /\ UNCHANGED <<fp, slot, up, down, unsent, pump, stored, seen>>

\* parse_clr_fp_sup_trans: the number is kept in one byte; the sale is deleted
\* before the dispenser is reset, and whether or not that is refused.
AskClear(c) ==
    \E f \in Points : \E n \in {fp[f].sup[i].no : i \in 1..Len(fp[f].sup)} :
        /\ Asks(c, "clear")
        /\ thr' = [thr EXCEPT ![Pos(c)] = [Idle EXCEPT !.pc = "reset", !.cmd = "clear",
                    !.f = f, !.by = Len(asked[c]) + 1, !.msg = [kind |-> "clear", no |-> n]]]
        /\ InPlace(f, Pos(c), [fp[f] EXCEPT !.sup = Without(@, n % ByteMod)])
        /\ UNCHANGED <<slot, up, down, unsent, pump, stored>>

\* parse_open_fp: a copy is read, opened and written back.
AskOpen(c) ==
    \E f \in Points :
        /\ Asks(c, "open")
        /\ Start(c, "update", "open", f, [fp[f] EXCEPT !.closed = FALSE])
        /\ UNCHANGED <<fp, slot, up, down, unsent, pump, stored, seen>>

\* parse_close_fp
AskClose(c) ==
    \E f \in Points :
        /\ Answered(c, "close", "ack")
        /\ InPlace(f, Pos(c), [fp[f] EXCEPT !.closed = TRUE])
        /\ UNCHANGED <<slot, up, down, unsent, pump, stored>>

\* suspend_fp and resume_fp: sent past the slot, and acknowledged at once.
Passes(c, code, f, rec) ==
    IF stored[c]
    THEN /\ Sends(c, [code |-> code, f |-> f, by |-> NoRequest, dose |-> 0])
         /\ fp' = [fp EXCEPT ![f] = rec]
         /\ seen' = [seen EXCEPT !.stale = @ \cup Holders(f, Pos(c)), !.forced = @ \cup {f}]
    ELSE UNCHANGED <<up, fp, seen>>

\* parse_estop_fp
AskStop(c) ==
    \E f \in Points :
        /\ Answered(c, "estop", "ack")
        /\ Passes(c, "Suspend", f, [fp[f] EXCEPT !.main = "FuellingPaused", !.stopped = TRUE])
        /\ UNCHANGED <<slot, down, unsent, pump, stored>>

\* parse_cancel_estop_fp: the point is Fuelling whatever the dispenser does.
AskResume(c) ==
    \E f \in Points :
        /\ Answered(c, "cancel", "ack")
        /\ Passes(c, "Resume", f, [fp[f] EXCEPT !.main = "Fuelling", !.stopped = FALSE])
        /\ UNCHANGED <<slot, down, unsent, pump, stored>>

Requests(c) == AskAuthorize(c) \/ AskReset(c) \/ AskClear(c) \/ AskOpen(c)
               \/ AskClose(c) \/ AskStop(c) \/ AskResume(c)

-----------------------------------------------------------------------------
(* The thread of the link: dc_device_func and ParseDCFrame.                *)

\* A sale for every frame with the state Finish.
Seen_EveryFinish(rec, frame) ==
    IF frame.state = "Finish" THEN WithSale(rec, frame.sale)
    ELSE IF frame.state = "Filling" THEN [rec EXCEPT !.main = "Fuelling"] ELSE rec

\* ParseDispencerDataFrame: what the state of the dispenser makes of the copy
\* of the record, and the call it makes on the way.
Seen(rec, frame) ==
    LET s == frame.state IN
    CASE s = "NotInitialize" -> [rec EXCEPT !.main = "Unconfigured", !.stopped = FALSE]
      [] s = "Free" /\ frame.order = "free" -> [rec EXCEPT !.main = "Idle", !.preset = FALSE, !.stopped = FALSE]
      [] s = "Free" /\ frame.order # "free" -> [rec EXCEPT !.stopped = FALSE]
      [] s = "NozzleOut" /\ rec.main = "Calling" /\ rec.preset ->
            [rec EXCEPT !.main = "PreAuthorized", !.stopped = FALSE]
      [] s = "NozzleOut" /\ ~(rec.main = "Calling" /\ rec.preset) /\ rec.main \in NotYetAuthorized ->
            [rec EXCEPT !.main = "Calling", !.stopped = FALSE]
      [] s = "Filling" /\ rec.main \notin {"Fuelling", "FuellingPaused"} -> [rec EXCEPT !.main = "Fuelling"]
      [] s = "Stopped" -> [rec EXCEPT !.main = "FuellingPaused"]
      [] s = "Finish" /\ rec.main = "Fuelling" -> WithSale(rec, frame.sale)
      [] OTHER -> IF s = "NozzleOut" THEN [rec EXCEPT !.stopped = FALSE] ELSE rec

Calls(rec, frame) ==
    CASE frame.state = "NozzleOut" /\ rec.main = "Calling" /\ rec.preset -> "authorize"
      [] frame.state = "Finish" /\ Seen(rec, frame).main \in
                {"FuellingPaused", "Unconfigured", "Unavailable"} -> "reset"
      [] OTHER -> "store"

\* What a frame says when the fields that the parser does not take keep the zero
\* they are initialised with.
Heard(frame) ==
    [frame EXCEPT !.state = IF "State" \in DataTaken THEN @ ELSE "NotInitialize",
                  !.order = IF "PresetOrderType" \in DataTaken THEN @ ELSE "free",
                  !.sale = IF {"CurrentVolume", "CurrentAmount"} \subseteq DataTaken THEN @ ELSE 0,
                  !.nozzle = @ /\ "ActiveNozzleNum" \in DataTaken,
                  !.counter = IF "Nozzle.Counter" \in DataTaken THEN @ ELSE 0]

\* The record with the total of the counters.
Counted(rec, frame) ==
    [rec EXCEPT !.total = IF "Nozzle.Number" \in DataTaken THEN frame.counter ELSE @]

\* The copy that authorize_fp gets has no grade when the nozzle was hung in the
\* frame before: then it is only written back.
Data(c) ==
    /\ thr[Dev(c)].pc = "idle" /\ down[c] # <<>> /\ Head(down[c]).kind = "data"
    /\ LET frame == Heard(Head(down[c]))
           rec == Counted(fp[frame.f], frame)
           does == Calls(rec, frame)
       IN  thr' = IF "Number" \notin DataTaken THEN thr
                  ELSE [thr EXCEPT ![Dev(c)] = [Idle EXCEPT
                            !.f = frame.f,
                            !.own = [Seen(rec, frame) EXCEPT !.grade = frame.nozzle],
                            !.copy = IF does = "authorize" THEN rec ELSE NoRecord,
                            !.pc = IF does = "authorize" /\ ~rec.grade THEN "update" ELSE does]]
    /\ down' = [down EXCEPT ![c] = Tail(@)]
    /\ UNCHANGED <<fp, slot, up, unsent, pump, stored, asked, left, seen>>

\* set_fuelling_point_by_id, then save_pss_data
Store(c) ==
    /\ thr[Dev(c)].pc = "store"
    /\ WriteBack(thr[Dev(c)].f, Dev(c), thr[Dev(c)].own)
    /\ Done(Dev(c))
    /\ UNCHANGED <<slot, up, down, unsent, pump, stored, asked, left>>

\* The request that an answer to the command in the slot names: none until
\* set_pss_command, or once it is forgotten.
Named(s) == IF s.pss = "none" THEN NoRequest ELSE s.by

\* An answer is taken for the command under way when its code is the same.
Acknowledges(s) == \/ s.code = "SetDose" /\ s.pss = "authorize"
                   \/ s.code = "Reset" /\ s.pss \in {"reset", "clear"}

\* What an answer says, as far as its fields are taken.
Replied(frame) ==
    [frame EXCEPT !.code = IF {"MessageType", "CommandCode"} \subseteq ReplyTaken THEN @ ELSE "unknown",
                  !.ok = "DeviceReplyCode" \in ReplyTaken => @]

\* An answer that is an acknowledgement whatever it says.
Reply_Blind(c) ==
    /\ thr[Dev(c)].pc = "idle" /\ down[c] # <<>> /\ Head(down[c]).kind = "reply"
    /\ LET frame == Replied(Head(down[c]))
           match == frame.code = slot[c].code
       IN  /\ asked' = IF match THEN Told(c, Named(slot[c]), "ack") ELSE asked
           /\ slot' = IF match THEN [slot EXCEPT ![c].code = "None", ![c].by = NoRequest] ELSE slot
           /\ thr' = [thr EXCEPT ![Dev(c)] = [Idle EXCEPT !.msg = frame, !.f = frame.f,
                          !.pc = IF match THEN "forget" ELSE "start"]]
    /\ down' = [down EXCEPT ![c] = Tail(@)]
    /\ UNCHANGED <<fp, up, unsent, pump, stored, left, seen>>

Reply(c) ==
    /\ thr[Dev(c)].pc = "idle" /\ down[c] # <<>> /\ Head(down[c]).kind = "reply"
    /\ LET frame == Replied(Head(down[c]))
           match == frame.code = slot[c].code
       IN  /\ asked' = IF ~match THEN asked
                       ELSE IF ~frame.ok THEN Told(c, Named(slot[c]), "rejected")
                       ELSE IF Acknowledges(slot[c]) THEN Told(c, Named(slot[c]), "ack") ELSE asked
           /\ slot' = IF match THEN [slot EXCEPT ![c].code = "None", ![c].by = NoRequest] ELSE slot
           /\ thr' = [thr EXCEPT ![Dev(c)] = [Idle EXCEPT !.msg = frame, !.f = frame.f,
                          !.pc = IF match THEN "forget" ELSE "start"]]
    /\ down' = [down EXCEPT ![c] = Tail(@)]
    /\ UNCHANGED <<fp, up, unsent, pump, stored, left, seen>>

\* A time-out that leaves the command in the slot.
Timeout_Keeps(c) ==
    /\ thr[Dev(c)].pc = "idle" /\ slot[c].code # "None" /\ Spends("timeouts")
    /\ asked' = Told(c, Named(slot[c]), "rejected")
    /\ seen' = [seen EXCEPT !.timedOut = @ \cup {c}]
    /\ UNCHANGED <<fp, slot, thr, up, down, unsent, pump, stored>>

\* The loop finds the command older than EXEC_COMMAND_TIMEOUT (between two
\* frames only: recv waits without a limit), or its time not yet set.
Timeout(c) ==
    /\ thr[Dev(c)].pc = "idle" /\ slot[c].code # "None"
    /\ \/ slot[c].old /\ UNCHANGED left
       \/ Spends("timeouts")
    /\ asked' = Told(c, Named(slot[c]), "rejected")
    /\ seen' = [seen EXCEPT !.timedOut = @ \cup {c}]
    /\ slot' = [slot EXCEPT ![c].code = "None", ![c].by = NoRequest]
    /\ thr' = [thr EXCEPT ![Dev(c)] = [Idle EXCEPT !.pc = "forget"]]
    /\ UNCHANGED <<fp, up, down, unsent, pump, stored>>

\* The other fields of the slot follow, one by one.
Forget(c) ==
    /\ thr[Dev(c)].pc = "forget"
    /\ slot' = [slot EXCEPT ![c].pss = "none"]
    /\ seen' = IF SlotFree(Dev(c)) THEN seen ELSE [seen EXCEPT !.reused = @ \cup {c}]
    /\ Goto(Dev(c), "reset time")
    /\ UNCHANGED <<fp, up, down, unsent, pump, stored, asked, left>>

ForgetTime(c) ==
    /\ thr[Dev(c)].pc = "reset time"
    /\ slot' = [slot EXCEPT ![c].old = TRUE]
    /\ seen' = IF SlotFree(Dev(c)) THEN seen ELSE [seen EXCEPT !.reused = @ \cup {c}]
    /\ IF thr[Dev(c)].msg = NoRecord THEN Done(Dev(c)) ELSE Goto(Dev(c), "start")
    /\ UNCHANGED <<fp, up, down, unsent, pump, stored, asked, left>>

\* A preset that was accepted starts the dispenser when the point is
\* PreAuthorized, whichever command the answer was for.
StartFill(c) ==
    LET frame == thr[Dev(c)].msg IN
    /\ thr[Dev(c)].pc = "start"
    /\ IF /\ frame.code = "SetDose" /\ frame.ok /\ "DeviceNumber" \in ReplyTaken
          /\ fp[frame.f].main = "PreAuthorized"
       THEN /\ Sends(c, [code |-> "Start", f |-> frame.f, by |-> NoRequest, dose |-> 0])
            /\ InPlace(frame.f, Dev(c), [fp[frame.f] EXCEPT !.main = "Starting"])
       ELSE UNCHANGED <<fp, seen, up>>
    /\ Done(Dev(c))
    /\ UNCHANGED <<slot, down, unsent, pump, stored, asked, left>>

\* The link is closed and connected again (reconnect_to_server_device): its
\* points are Unavailable with every flag cleared, and the new socket stays in
\* the thread: the table of clients keeps -1.
Reconnect(c) ==
    /\ thr[Dev(c)].pc = "idle" /\ stored[c]
    /\ Spends("drops")
    /\ stored' = [stored EXCEPT ![c] = FALSE]
    /\ up' = [up EXCEPT ![c] = <<>>] /\ down' = [down EXCEPT ![c] = <<>>]
    /\ unsent' = [unsent EXCEPT ![c] = {}]
    /\ fp' = [f \in Points |-> [fp[f] EXCEPT !.main = "Unavailable", !.preset = FALSE, !.stopped = FALSE]]
    /\ seen' = [seen EXCEPT !.stale = @ \cup UNION {Holders(f, Dev(c)) : f \in Points}]
    /\ UNCHANGED <<slot, thr, pump, asked>>

DeviceThread(c) == Data(c) \/ Store(c) \/ Reply(c) \/ Timeout(c) \/ Forget(c)
                   \/ ForgetTime(c) \/ StartFill(c) \/ Reconnect(c)

-----------------------------------------------------------------------------
(* Outside pss: the hardware server, the dispensers and the customers.     *)

\* The orders that reach the hardware server as they were meant.
Carried == {o \in DOMAIN Orders : Understood(o)}

\* Every link that is there (a link that was connected again is never logged
\* in) hears of a change, at some later time, as it is then.
Changes(f, p) ==
    /\ pump' = [pump EXCEPT ![f] = p]
    /\ unsent' = [c \in Clients |-> IF stored[c] /\ "GetDeviceStatus" \in Carried
                                     THEN unsent[c] \cup {f} ELSE {}]

\* What a dispenser makes of a command it accepts.
Executed(p, m, who) ==
    CASE m.code = "SetDose" -> [p EXCEPT !.dose = m.dose, !.by = who]
      [] m.code = "Reset" -> [p EXCEPT !.dose = 0, !.state = IF @ = "Finish" THEN "Free" ELSE @]
      [] m.code = "Start" -> [p EXCEPT !.state = "Filling"]
      [] m.code = "Suspend" -> [p EXCEPT !.state = "Stopped"]
      [] m.code = "Resume" -> [p EXCEPT !.state = "Filling"]

Accepts(p, code) ==
    CASE code = "SetDose" -> p.state \in {"Free", "NozzleOut"}
      [] code = "Reset" -> p.state \in {"Free", "NozzleOut", "Finish"}
      [] code = "Start" -> p.state = "NozzleOut" /\ p.dose > 0
      [] code = "Suspend" -> p.state = "Filling"
      [] code = "Resume" -> p.state = "Stopped"

\* The hardware server carries out the requests of a link in their order and
\* answers each with its command code; the refusal of one that it does not
\* understand names no command, and pss forgets it.
OrdersOf(code) == IF code = "SetDose" THEN {"SetVolumeDose", "SetSumDose"} ELSE {code}
Serve(c) ==
    /\ up[c] # <<>> /\ Len(down[c]) < MaxFrames
    /\ LET m == Head(up[c])
           known == OrdersOf(m.code) \subseteq Carried
           ok == known /\ Accepts(pump[m.f], m.code)
       IN  /\ IF ok THEN Changes(m.f, Executed(pump[m.f], m, <<c, m.by>>)) ELSE UNCHANGED <<pump, unsent>>
           /\ asked' = IF ok /\ m.by # NoRequest THEN [asked EXCEPT ![c][m.by].done = TRUE] ELSE asked
           /\ down' = IF ~known THEN down
                      ELSE [down EXCEPT ![c] = Append(@, [kind |-> "reply", code |-> m.code,
                                                          ok |-> ok, f |-> m.f])]
    /\ up' = [up EXCEPT ![c] = Tail(@)]
    /\ UNCHANGED <<fp, slot, thr, stored, left, seen>>

Push(c) ==
    \E f \in unsent[c] :
        /\ Len(down[c]) < MaxFrames
        /\ down' = [down EXCEPT ![c] = Append(@, [kind |-> "data", f |-> f,
                        state |-> pump[f].state, sale |-> pump[f].sale, counter |-> pump[f].sale,
                        nozzle |-> pump[f].state \in {"NozzleOut", "Filling", "Stopped"},
                        order |-> IF pump[f].dose = 0 THEN "free" ELSE "set"])]
        /\ unsent' = [unsent EXCEPT ![c] = @ \ {f}]
        /\ UNCHANGED <<fp, slot, thr, up, pump, stored, asked, left, seen>>

\* Customers are slower than the pushes: they see a dispenser change first.
Pushed(f) == \A c \in Clients : f \notin unsent[c]

Nozzle(f) ==
    /\ Pushed(f)
    /\ \/ pump[f].state = "Free" /\ Changes(f, [pump[f] EXCEPT !.state = "NozzleOut"])
       \/ pump[f].state = "NozzleOut" /\ Changes(f, [pump[f] EXCEPT !.state = "Free"])
    /\ Spends("lifts")
    /\ UNCHANGED <<fp, slot, thr, up, down, stored, asked, seen>>

\* The data of a dispenser are pushed again when some other part of them changes.
Repeat(f) ==
    /\ pump[f].state = "Finish" /\ Pushed(f)
    /\ Changes(f, pump[f]) /\ Spends("lifts")
    /\ UNCHANGED <<fp, slot, thr, up, down, stored, asked, seen>>

Filled(f) ==
    /\ pump[f].state \in {"Filling", "Stopped"} /\ Pushed(f)
    /\ Changes(f, [pump[f] EXCEPT !.state = "Finish", !.dose = 0, !.sale = @ + 1])
    /\ Spends("sales")
    /\ UNCHANGED <<fp, slot, thr, up, down, stored, asked, seen>>

-----------------------------------------------------------------------------
Next == \/ \E t \in Threads : Procedures(t)
        \/ \E c \in Clients : Requests(c) \/ DeviceThread(c) \/ Serve(c) \/ Push(c)
        \/ \E f \in Points : Nozzle(f) \/ Repeat(f) \/ Filled(f)

Spec == Init /\ [][Next]_vars

-----------------------------------------------------------------------------
(* Properties.                                                             *)

\* Points, slots and threads hold the values the program gives them.
TypeOK ==
    /\ fp \in [Points -> [main : {MainStates[i] : i \in DOMAIN MainStates},
            preset : BOOLEAN, dose : Doses \cup {0}, grade : BOOLEAN, stopped : BOOLEAN,
            closed : BOOLEAN, total : Nat, last : 0..SeqLimit - 1,
            sup : Seq([no : 0..SeqLimit - 1, sale : Nat])]]
    /\ slot \in [Clients -> [code : {"None", "SetDose", "Reset"}, old : BOOLEAN,
            pss : {"none", "authorize", "reset", "clear"}, by : Nat]]
    /\ \A t \in Threads : thr[t].f \in Points \cup {NoPoint}
    /\ \A c \in Clients : Len(up[c]) <= MaxFrames /\ Len(down[c]) <= MaxFrames

Sales(f) == {fp[f].sup[i].sale : i \in 1..Len(fp[f].sup)}
Answers(c, i) == {asked[c][i].told[k] : k \in 1..Len(asked[c][i].told)}
Linking == {c \in Clients : stored[c]}

\* A point of sale hears of a request at most once: the refusals of authorize_fp
\* and reset_fp, the answers of the hardware server and the time-out of the loop
\* exclude each other.
OneAnswer == \A c \in Clients : \A i \in 1..Len(asked[c]) : Len(asked[c][i].told) <= 1

\* An acknowledged request was carried out by the dispenser (or, for close_fp,
\* open_fp and the emergency stops, by pss), as long as the link has had no
\* time-out and its slot was never set and cleared by two threads at once.
TruthfulAck ==
    \A c \in Clients \ (seen.timedOut \cup seen.reused) : \A i \in 1..Len(asked[c]) :
        "ack" \in Answers(c, i) => asked[c][i].done

\* A dispenser starts to fill a dose only when the point of sale that asked for
\* it was not told that it is rejected; again but for time-outs, after which the
\* answer that comes late still starts it, and reused slots.
NoFuelAfterRejection ==
    [][\A f \in Points : pump[f].state = "NozzleOut" /\ pump[f].state' = "Filling" =>
        LET who == pump[f].by
        IN  \/ who[2] = NoRequest \/ who[1] \in seen.timedOut \cup seen.reused
            \/ "rejected" \notin Answers(who[1], who[2])]_vars

\* With one link to the dispensers from the start every fill is recorded as one
\* sale at most: the frames that repeat the state Finish add none, unless
\* cancel_estop made the point Fuelling again.  A second link that lags behind
\* records the fill once more.
LoneLink == \A c, d \in left.links : c = d
RecordedOnce ==
    LoneLink => \A f \in Points \ seen.forced : \A i, j \in 1..Len(fp[f].sup) :
        fp[f].sup[i].sale = fp[f].sup[j].sale => i = j

Clears(c, f) == thr[Pos(c)].msg.kind = "clear" /\ thr[Pos(c)].f = f

\* A sale leaves the table when a point of sale clears one, and otherwise only
\* when a thread writes back a copy that it took before the sale was added.
SalesStay ==
    [][\A f \in Points :
         \/ Sales(f) \subseteq Sales(f)'
         \/ \E c \in Clients : ~Clears(c, f) /\ (Clears(c, f))'
         \/ \E t \in seen.stale : thr[t].f = f /\ thr[t].pc' # thr[t].pc]_vars

\* A clear takes the sale with the number asked for, when the number fits the byte it is
\* kept in and no other sale has it, and no sale besides when that is one of the last two
\* of the list.
ClearTakesItsSale ==
    [][\A f \in Points, c \in Clients : ~Clears(c, f) /\ (Clears(c, f))' =>
         \A i \in 1..Len(fp[f].sup) :
            /\ fp[f].sup[i].no = thr[Pos(c)].msg.no' /\ fp[f].sup[i].no < ByteMod
            /\ \A k \in 1..Len(fp[f].sup) : fp[f].sup[k].no = fp[f].sup[i].no => k = i
            => /\ \A k \in 1..Len(fp[f].sup') : fp[f].sup[k].no' # fp[f].sup[i].no
               /\ i + 1 >= Len(fp[f].sup) => Len(fp[f].sup) - Len(fp[f].sup') = 1]_vars

Quiet == /\ \A t \in Threads : thr[t].pc = "idle"
         /\ \A c \in Clients : up[c] = <<>> /\ down[c] = <<>> /\ unsent[c] = {}

\* The states of a point that fit a state of its dispenser.
Fits == [Free |-> {"Idle", "PreAuthorized", "Starting"},
         NozzleOut |-> {"Calling", "PreAuthorized", "Starting"},
         Filling |-> {"Fuelling"}, Stopped |-> {"FuellingPaused"},
         Finish |-> {"Unavailable", "FuellingPaused"}]

\* Once everything under way has arrived, the totals of the table are the counters of the
\* dispensers of the one link there is, but for overwritten records.
TotalsAgree ==
    Quiet /\ LoneLink =>
        \A c \in Linking, f \in Points \ seen.overwritten : fp[f].total = pump[f].sale

\* The states agree as well, if no command was found too old and the slot was
\* never set and cleared by two threads at once.  The emergency stops set the
\* state without asking the dispenser, authorize_fp when a reset has cleared the
\* preset of a point at work; a point that was given its dose late, with the
\* nozzle hung again, stays Calling.
StatesAgree ==
    Quiet /\ LoneLink =>
        \A c \in Linking \ (seen.timedOut \cup seen.reused) :
        \A f \in Points \ (seen.overwritten \cup seen.forced \cup seen.renewed) :
            \/ fp[f].main \in Fits[pump[f].state]
            \/ fp[f].main = "Calling" /\ pump[f].state = "Free" /\ pump[f].dose > 0

\* The table agrees with the dispensers once everything has arrived.
Agrees == TotalsAgree /\ StatesAgree

=============================================================================
