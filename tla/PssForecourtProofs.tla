------------------------- MODULE PssForecourtProofs -------------------------
(***************************************************************************)
(* The forecourt of pss, for any number of points of sale and fuelling     *)
(* points, and any number of requests, fills, time-outs and lost links.    *)
(* What a client's two threads do with a request is followed through its   *)
(* slot, its link and the dispenser; what the copies of a record know of   *)
(* the sales is followed through every thread that holds one.              *)
(***************************************************************************)
EXTENDS PssForecourt, SequenceTheorems, WellFoundedInduction, TLAPS

-----------------------------------------------------------------------------
(* The values the variables take.                                          *)

Mains == {"Unconfigured", "Idle", "Calling", "PreAuthorized", "Starting", "Fuelling",
          "FuellingPaused", "Unavailable"}
Sale == [no : 0 .. SeqLimit - 1, sale : Nat]
Record == [main : Mains, preset : BOOLEAN, dose : Doses \cup {0}, grade : BOOLEAN,
           stopped : BOOLEAN, closed : BOOLEAN, total : Nat, last : 0 .. SeqLimit - 1,
           sup : Seq(Sale)]

Commands == {"SetDose", "Reset"}
Codes == Commands \cup {"Start", "Suspend", "Resume"}
Message == [code : Codes, f : Points, by : Nat, dose : Doses \cup {0}]

PumpStates == {"NotInitialize", "Free", "NozzleOut", "Filling", "Stopped", "Finish"}
ReplyFrame == [kind : {"reply"}, code : Codes, ok : BOOLEAN, f : Points]
DataFrame == [kind : {"data"}, f : Points, state : PumpStates, sale : Nat, counter : Nat,
              nozzle : BOOLEAN, order : {"free", "set"}]
Frame == ReplyFrame \cup DataFrame

Working == {"authorize", "reset", "code", "name", "send", "params", "update", "store"}
Places == Working \cup {"idle", "forget", "reset time", "start"}
Cmds == {"none", "authorize", "reset", "clear"}
ClearNote == [kind : {"clear"}, no : Nat]
Thread == [pc : Places, cmd : Cmds \cup {"open"}, by : Nat, f : Points \cup {NoPoint},
           copy : Record \cup {NoRecord}, own : Record \cup {NoRecord},
           msg : ReplyFrame \cup ClearNote \cup {NoRecord}]

\* What record p of thread t holds at the place where the thread is.
Proper(t, p) ==
    /\ p.pc = "idle" => p = Idle
    /\ p.pc \in Working \cup {"start"} => p.f \in Points
    /\ p.pc \notin Working => p.copy = NoRecord /\ p.own = NoRecord
    /\ p.pc \in {"authorize", "update"} => p.copy \in Record
    /\ t[2] = "pos" => /\ p.own = NoRecord
                       /\ p.pc \notin {"store", "forget", "reset time", "start"}
                       /\ p.cmd = "open" => p.pc = "update"
    /\ t[2] = "dev" => /\ p.by = NoRequest /\ p.cmd = "none"
                       /\ p.pc \in Working => p.own \in Record
                       /\ p.msg # NoRecord => p.msg \in ReplyFrame /\ p.f \in Points
                       /\ p.pc = "start" => p.msg \in ReplyFrame

\* A request has one answer at most.
Request == [told : {<<>>, <<"ack">>, <<"rejected">>}, done : BOOLEAN]

Slot == [code : Commands \cup {"None"}, old : BOOLEAN, pss : Cmds, by : Nat]

Dispenser == [state : PumpStates, dose : Doses \cup {0}, sale : Nat,
              by : {<<>>} \cup (Clients \X Nat)]

Tables ==
    /\ fp \in [Points -> Record]
    /\ slot \in [Clients -> Slot]
    /\ pump \in [Points -> Dispenser]
    /\ \A f \in Points : pump[f].by = <<>> => pump[f].dose = 0
    /\ seen \in [overwritten : SUBSET Points, reused : SUBSET Clients,
                 timedOut : SUBSET Clients, stale : SUBSET Threads, forced : SUBSET Points,
                 renewed : SUBSET Points]
    /\ asked \in [Clients -> Seq(Request)]
    /\ unsent \in [Clients -> SUBSET Points]

Wires ==
    /\ up \in [Clients -> Seq(Message)] /\ down \in [Clients -> Seq(Frame)]
    /\ \A c \in Clients : Len(up[c]) <= MaxFrames /\ Len(down[c]) <= MaxFrames
    /\ \A c \in Clients : \A j \in 1 .. Len(up[c]) :
         up[c][j].by # NoRequest => up[c][j].code \in Commands

Placed ==
    /\ thr \in [Threads -> Thread]
    /\ \A t \in Threads : Proper(t, thr[t])

Types == Tables /\ Wires /\ Placed

-----------------------------------------------------------------------------
(* Operators of the model.                                                 *)

LEMMA MainsAre == {MainStates[i] : i \in DOMAIN MainStates} = Mains
  BY DEF MainStates, Mains

LEMMA ThreadsAre ==
  /\ \A c \in Clients : /\ Pos(c) \in Threads /\ Pos(c)[1] = c /\ Pos(c)[2] = "pos"
                        /\ Dev(c) \in Threads /\ Dev(c)[1] = c /\ Dev(c)[2] = "dev"
  /\ \A t \in Threads : /\ t[1] \in Clients /\ t[2] \in {"pos", "dev"}
                        /\ t[2] = "pos" => t = Pos(t[1])
                        /\ t[2] = "dev" => t = Dev(t[1])
  BY DEF Threads, Pos, Dev

\* pss takes the fields of an answer that say what it answers, and how.
LEMMA AnswerRead == {"MessageType", "CommandCode", "DeviceReplyCode", "DeviceNumber"} \subseteq ReplyTaken
<1>1. ASSUME NEW x \in {"MessageType", "CommandCode", "DeviceReplyCode", "DeviceNumber"}
      PROVE  /\ x \in DOMAIN send_dc_device_command_result_message
             /\ send_dc_device_command_result_message[x] =
                  IF x \in {"MessageType", "DeviceReplyCode"} THEN 1 ELSE 4
  BY DEF send_dc_device_command_result_message, AnswerHead, Longs, Bytes, Texts, ++
<1>2. ASSUME NEW x \in {"MessageType", "CommandCode", "DeviceReplyCode", "DeviceNumber"}
      PROVE  /\ x \in DOMAIN ParseDCFrame
             /\ ParseDCFrame[x] = IF x \in {"MessageType", "DeviceReplyCode"} THEN 1 ELSE 4
  <2>1. /\ x \in DOMAIN (FrameHead ++ FrameTail)
        /\ (FrameHead ++ FrameTail)[x] = IF x \in {"MessageType", "DeviceReplyCode"} THEN 1 ELSE 4
    BY DEF FrameHead, FrameTail, Longs, Bytes, Texts, ++
  <2> QED
    BY <2>1 DEF ParseDCFrame, ++
<1> QED
  BY <1>1, <1>2 DEF ReplyTaken, Taken

LEMMA RepliedSame == \A m \in ReplyFrame : Replied(m) = m
  BY AnswerRead DEF ReplyFrame, Replied

LEMMA HeardType == \A m \in DataFrame : Heard(m) \in DataFrame /\ Heard(m).f = m.f
<1> TAKE m \in DataFrame
<1> DEFINE st == IF "State" \in DataTaken THEN m.state ELSE "NotInitialize"
           or == IF "PresetOrderType" \in DataTaken THEN m.order ELSE "free"
           sa == IF {"CurrentVolume", "CurrentAmount"} \subseteq DataTaken THEN m.sale ELSE 0
           no == m.nozzle /\ "ActiveNozzleNum" \in DataTaken
           co == IF "Nozzle.Counter" \in DataTaken THEN m.counter ELSE 0
<1>1. Heard(m) = [m EXCEPT !.state = st, !.order = or, !.sale = sa, !.nozzle = no,
                           !.counter = co]
  BY Zenon DEF Heard
<1>2. st \in PumpStates /\ or \in {"free", "set"} /\ sa \in Nat /\ no \in BOOLEAN /\ co \in Nat
  BY DEF DataFrame, PumpStates
<1> HIDE DEF st, or, sa, no, co
<1> QED
  BY <1>1, <1>2 DEF DataFrame

LEMMA RecordIsOne == \A r \in Record : r # NoRecord
<1> TAKE r \in Record
<1>1. "main" \in DOMAIN r /\ "main" \notin DOMAIN NoRecord
  BY DEF Record, NoRecord
<1> QED
  BY <1>1

LEMMA IdleType == Idle \in Thread /\ \A t \in Threads : Proper(t, Idle)
  BY DEF Idle, Thread, Places, Working, Cmds, Proper, NoRequest

\* The sales of a list.
SalesOf(sup) == {sup[i].sale : i \in 1 .. Len(sup)}

LEMMA WithSaleType ==
  ASSUME NEW rec \in Record, NEW sale \in Nat
  PROVE  /\ WithSale(rec, sale) \in Record
         /\ SalesOf(rec.sup) \subseteq SalesOf(WithSale(rec, sale).sup)
         /\ WithSale(rec, sale).sup = Append(rec.sup, [no |-> NextNo(rec.last), sale |-> sale])
         /\ WithSale(rec, sale).main = "Unavailable" /\ WithSale(rec, sale).total = rec.total
<1> DEFINE n == NextNo(rec.last)
           more == Append(rec.sup, [no |-> n, sale |-> sale])
<1>1. n \in 0 .. SeqLimit - 1
  BY ConstantsAssumption DEF NextNo, Record
<1>2. /\ more \in Seq(Sale) /\ Len(more) = Len(rec.sup) + 1 /\ Len(rec.sup) \in Nat
      /\ \A i \in 1 .. Len(rec.sup) : more[i] = rec.sup[i]
  BY <1>1 DEF Record, Sale
<1>3. WithSale(rec, sale) = [rec EXCEPT !.last = n, !.sup = more, !.main = "Unavailable"]
  BY DEF WithSale
<1> HIDE DEF n, more
<1>4. /\ WithSale(rec, sale) \in Record /\ WithSale(rec, sale).sup = more
      /\ WithSale(rec, sale).main = "Unavailable" /\ WithSale(rec, sale).total = rec.total
  <2> DEFINE some == [rec EXCEPT !.last = n, !.sup = more]
  <2>1. some \in Record /\ some.sup = more /\ some.total = rec.total
    BY <1>1, <1>2 DEF Record
  <2>2. WithSale(rec, sale) = [some EXCEPT !.main = "Unavailable"]
    BY <1>3
  <2> HIDE DEF some
  <2> QED
    BY <2>1, <2>2 DEF Record, Mains
<1>5. SalesOf(rec.sup) \subseteq SalesOf(WithSale(rec, sale).sup)
  BY <1>2, <1>4 DEF SalesOf
<1> QED
  BY <1>4, <1>5 DEF more, n

LEMMA SeenType ==
  ASSUME NEW rec \in Record, NEW m \in DataFrame
  PROVE  /\ Seen(rec, m) \in Record /\ SalesOf(rec.sup) \subseteq SalesOf(Seen(rec, m).sup)
         /\ Seen(rec, m).total = rec.total
         /\ \/ /\ Seen(rec, m).sup = rec.sup
               /\ Seen(rec, m).main = "Fuelling" => rec.main = "Fuelling" \/ m.state = "Filling"
            \/ m.state = "Finish" /\ rec.main = "Fuelling" /\ Seen(rec, m) = WithSale(rec, m.sale)
<1> DEFINE s == m.state
           A == s = "NotInitialize"
           B == s = "Free" /\ m.order = "free"
           C == s = "Free" /\ m.order # "free"
           D == s = "NozzleOut" /\ rec.main = "Calling" /\ rec.preset
           E == s = "NozzleOut" /\ ~(rec.main = "Calling" /\ rec.preset)
                /\ rec.main \in NotYetAuthorized
           F == s = "Filling" /\ rec.main \notin {"Fuelling", "FuellingPaused"}
           G == s = "Stopped"
           H == s = "Finish" /\ rec.main = "Fuelling"
<1>1. Seen(rec, m) =
        CASE A -> [rec EXCEPT !.main = "Unconfigured", !.stopped = FALSE]
          [] B -> [rec EXCEPT !.main = "Idle", !.preset = FALSE, !.stopped = FALSE]
          [] C -> [rec EXCEPT !.stopped = FALSE]
          [] D -> [rec EXCEPT !.main = "PreAuthorized", !.stopped = FALSE]
          [] E -> [rec EXCEPT !.main = "Calling", !.stopped = FALSE]
          [] F -> [rec EXCEPT !.main = "Fuelling"]
          [] G -> [rec EXCEPT !.main = "FuellingPaused"]
          [] H -> WithSale(rec, m.sale)
          [] OTHER -> IF s = "NozzleOut" THEN [rec EXCEPT !.stopped = FALSE] ELSE rec
  BY Zenon DEF Seen
<1>2. /\ A => ~B /\ ~C /\ ~D /\ ~E /\ ~F /\ ~G /\ ~H
      /\ B => ~C /\ ~D /\ ~E /\ ~F /\ ~G /\ ~H
      /\ C => ~D /\ ~E /\ ~F /\ ~G /\ ~H
      /\ D => ~E /\ ~F /\ ~G /\ ~H
      /\ E => ~F /\ ~G /\ ~H
      /\ F => ~G /\ ~H
      /\ G => ~H
  OBVIOUS
<1> HIDE DEF A, B, C, D, E, F, G, H
<1>3. \/ \E mn \in Mains, st \in BOOLEAN, pr \in BOOLEAN :
           /\ Seen(rec, m) = [rec EXCEPT !.main = mn, !.preset = pr, !.stopped = st]
           /\ mn = "Fuelling" => rec.main = "Fuelling" \/ m.state = "Filling"
      \/ m.state = "Finish" /\ rec.main = "Fuelling" /\ Seen(rec, m) = WithSale(rec, m.sale)
  <2> DEFINE Is(mn, pr, st) ==
               /\ Seen(rec, m) = [rec EXCEPT !.main = mn, !.preset = pr, !.stopped = st]
               /\ mn = "Fuelling" => rec.main = "Fuelling" \/ m.state = "Filling"
  <2>0. rec.main \in Mains /\ rec.preset \in BOOLEAN /\ rec.stopped \in BOOLEAN
    BY DEF Record
  <2>1. CASE A
    <3>1. Seen(rec, m) = [rec EXCEPT !.main = "Unconfigured", !.stopped = FALSE]
      BY <1>1, <1>2, <2>1, Zenon
    <3>2. Is("Unconfigured", rec.preset, FALSE)
      BY <3>1 DEF Record
    <3> QED
      BY <2>0, <3>2 DEF Mains
  <2>2. CASE B
    <3>1. Seen(rec, m) = [rec EXCEPT !.main = "Idle", !.preset = FALSE, !.stopped = FALSE]
      BY <1>1, <1>2, <2>2, Zenon
    <3> QED
      BY <3>1 DEF Mains
  <2>3. CASE C
    <3>1. Seen(rec, m) = [rec EXCEPT !.stopped = FALSE]
      BY <1>1, <1>2, <2>3, Zenon
    <3>2. Is(rec.main, rec.preset, FALSE)
      BY <3>1 DEF Record
    <3> QED
      BY <2>0, <3>2
  <2>4. CASE D
    <3>1. Seen(rec, m) = [rec EXCEPT !.main = "PreAuthorized", !.stopped = FALSE]
      BY <1>1, <1>2, <2>4, Zenon
    <3>2. Is("PreAuthorized", rec.preset, FALSE)
      BY <3>1 DEF Record
    <3> QED
      BY <2>0, <3>2 DEF Mains
  <2>5. CASE E
    <3>1. Seen(rec, m) = [rec EXCEPT !.main = "Calling", !.stopped = FALSE]
      BY <1>1, <1>2, <2>5, Zenon
    <3>2. Is("Calling", rec.preset, FALSE)
      BY <3>1 DEF Record
    <3> QED
      BY <2>0, <3>2 DEF Mains
  <2>6. CASE F
    <3>1. Seen(rec, m) = [rec EXCEPT !.main = "Fuelling"]
      BY <1>1, <1>2, <2>6, Zenon
    <3>2. Is("Fuelling", rec.preset, rec.stopped)
      BY <2>6, <3>1 DEF Record, F
    <3> QED
      BY <2>0, <3>2 DEF Mains
  <2>7. CASE G
    <3>1. Seen(rec, m) = [rec EXCEPT !.main = "FuellingPaused"]
      BY <1>1, <1>2, <2>7, Zenon
    <3>2. Is("FuellingPaused", rec.preset, rec.stopped)
      BY <3>1 DEF Record
    <3> QED
      BY <2>0, <3>2 DEF Mains
  <2>8. CASE H
    <3>1. Seen(rec, m) = WithSale(rec, m.sale)
      BY <1>1, <1>2, <2>8, Zenon
    <3> QED
      BY <2>8, <3>1 DEF H
  <2>9. CASE ~A /\ ~B /\ ~C /\ ~D /\ ~E /\ ~F /\ ~G /\ ~H
    <3>1. Seen(rec, m) = IF s = "NozzleOut" THEN [rec EXCEPT !.stopped = FALSE] ELSE rec
      BY <1>1, <2>9, Zenon
    <3>2. Is(rec.main, rec.preset, FALSE) \/ Is(rec.main, rec.preset, rec.stopped)
      BY <3>1 DEF Record
    <3> QED
      BY <2>0, <3>2
  <2> QED
    BY <2>1, <2>2, <2>3, <2>4, <2>5, <2>6, <2>7, <2>8, <2>9
<1>4. CASE m.state = "Finish" /\ rec.main = "Fuelling" /\ Seen(rec, m) = WithSale(rec, m.sale)
  BY <1>4, WithSaleType DEF DataFrame
<1>5. CASE \E mn \in Mains, st \in BOOLEAN, pr \in BOOLEAN :
             /\ Seen(rec, m) = [rec EXCEPT !.main = mn, !.preset = pr, !.stopped = st]
             /\ mn = "Fuelling" => rec.main = "Fuelling" \/ m.state = "Filling"
  <2>1. PICK mn \in Mains, st \in BOOLEAN, pr \in BOOLEAN :
          /\ Seen(rec, m) = [rec EXCEPT !.main = mn, !.preset = pr, !.stopped = st]
          /\ mn = "Fuelling" => rec.main = "Fuelling" \/ m.state = "Filling"
    BY <1>5
  <2>2. /\ Seen(rec, m) \in Record /\ Seen(rec, m).sup = rec.sup /\ Seen(rec, m).main = mn
        /\ Seen(rec, m).total = rec.total
    <3> PICK new : new = [rec EXCEPT !.main = mn, !.preset = pr, !.stopped = st]
      OBVIOUS
    <3>1. new \in Record /\ new.sup = rec.sup /\ new.main = mn /\ new.total = rec.total
      BY DEF Record
    <3> QED
      BY <2>1, <3>1
  <2> QED
    BY <2>1, <2>2
<1> QED
  BY <1>3, <1>4, <1>5, Zenon

LEMMA CountedType ==
  ASSUME NEW rec \in Record, NEW m \in DataFrame
  PROVE  Counted(rec, m) \in Record /\ Counted(rec, m).sup = rec.sup
  BY DEF Counted, Record, DataFrame

LEMMA CallsType ==
  ASSUME NEW rec, NEW m
  PROVE  Calls(rec, m) \in {"authorize", "reset", "store"}
<1> DEFINE A == m.state = "NozzleOut" /\ rec.main = "Calling" /\ rec.preset
           B == m.state = "Finish" /\ Seen(rec, m).main \in
                  {"FuellingPaused", "Unconfigured", "Unavailable"}
<1>1. Calls(rec, m) = CASE A -> "authorize" [] B -> "reset" [] OTHER -> "store"
  BY Zenon DEF Calls
<1>2. ~(A /\ B)
  OBVIOUS
<1> HIDE DEF A, B
<1> QED
  BY <1>1, <1>2

\* List w is drawn from list sup, none of its sales twice.
Drawn(w, sup) ==
    \E at \in [1 .. Len(w) -> 1 .. Len(sup)] :
        /\ \A k \in 1 .. Len(w) : w[k] = sup[at[k]]
        /\ \A k, l \in 1 .. Len(w) : at[k] = at[l] => k = l

\* A clear leaves sales of the list only; the first with the number goes, and no other
\* when it is one of the last two.
LEMMA WithoutType ==
  ASSUME NEW sup \in Seq(Sale), NEW n \in Nat
  PROVE  /\ Without(sup, n) \in Seq(Sale)
         /\ \A i \in 1 .. Len(sup) :
              /\ sup[i].no = n
              /\ \A k \in 1 .. Len(sup) : sup[k].no = n => k = i
              => /\ \A k \in 1 .. Len(Without(sup, n)) : Without(sup, n)[k].no # n
                 /\ i + 1 >= Len(sup) => Len(sup) - Len(Without(sup, n)) = 1
         /\ Drawn(Without(sup, n), sup)
<1> DEFINE hits == {i \in 1 .. Len(sup) : sup[i].no = n}
           j == CHOOSE i \in hits : \A k \in hits : i <= k
           moves == (Len(sup) - j + 2) \div 2
           head == SubSeq(sup, 1, j - 1)
           rest == SubSeq(sup, j + 1, Len(sup) - moves + 1)
<1>1. CASE hits = {}
  <2>1. Without(sup, n) = sup
    BY <1>1 DEF Without
  <2>2. Drawn(sup, sup)
    <3> SUFFICES \E at \in [1 .. Len(sup) -> 1 .. Len(sup)] :
                   /\ \A k \in 1 .. Len(sup) : sup[k] = sup[at[k]]
                   /\ \A k, l \in 1 .. Len(sup) : at[k] = at[l] => k = l
      BY DEF Drawn
    <3> WITNESS [k \in 1 .. Len(sup) |-> k] \in [1 .. Len(sup) -> 1 .. Len(sup)]
    <3> QED
      OBVIOUS
  <2> QED
    BY <1>1, <2>1, <2>2
<1>2. CASE hits # {}
  <2>1. Without(sup, n) = head \o rest
    BY <1>2 DEF Without
  <2>2. \E i \in hits : \A k \in hits : i <= k
    <3> DEFINE R == OpToRel(<, Nat)
    <3>1. hits \subseteq Nat
      OBVIOUS
    <3>2. \E i \in hits : \A k \in hits : <<k, i>> \notin R
      BY <1>2, <3>1, NatLessThanWellFounded, WFMin
    <3>3. \A k, i \in Nat : k < i => <<k, i>> \in R
      BY DEF OpToRel
    <3> HIDE DEF hits, R
    <3>4. PICK i \in hits : \A k \in hits : <<k, i>> \notin R
      BY <3>2
    <3>5. ASSUME NEW k \in hits PROVE i <= k
      <4>1. k \in Nat /\ i \in Nat /\ ~(k < i)
        BY <3>1, <3>3, <3>4
      <4> QED
        BY <4>1
    <3> QED
      BY <3>5
  <2>3. j \in hits
    BY <2>2
  <2> HIDE DEF j
  <2>4. /\ j \in 1 .. Len(sup) /\ sup[j].no = n /\ Len(sup) \in Nat /\ moves \in 1 .. Len(sup)
        /\ j + 1 >= Len(sup) => moves = 1
    BY <2>3
  <2> HIDE DEF moves, hits
  <2>5. /\ head \in Seq(Sale) /\ Len(head) = j - 1
        /\ \A k \in 1 .. j - 1 : head[k] = sup[k]
    BY <2>4
  <2>6. /\ rest \in Seq(Sale)
        /\ \A k \in 1 .. Len(rest) : k + j \in 1 .. Len(sup) /\ rest[k] = sup[k + j]
        /\ j + 1 >= Len(sup) => Len(rest) = Len(sup) - j
    BY <2>4
  <2> HIDE DEF head, rest
  <2>7. /\ head \o rest \in Seq(Sale) /\ Len(head \o rest) = Len(head) + Len(rest)
        /\ \A k \in 1 .. Len(head) + Len(rest) :
             (head \o rest)[k] = IF k <= Len(head) THEN head[k] ELSE rest[k - Len(head)]
    BY <2>5, <2>6, ConcatProperties
  <2>8. ASSUME NEW k \in 1 .. Len(head \o rest)
        PROVE  \E m \in 1 .. Len(sup) : m # j /\ (head \o rest)[k] = sup[m]
    <3>1. CASE k <= Len(head)
      BY <2>4, <2>5, <2>6, <2>7, <3>1
    <3>2. CASE k > Len(head)
      <4>1. k - Len(head) \in 1 .. Len(rest)
        BY <2>5, <2>6, <2>7, <3>2
      <4>2. (head \o rest)[k] = sup[k - Len(head) + j] /\ k - Len(head) + j \in 1 .. Len(sup)
        BY <2>6, <2>7, <3>2, <4>1
      <4>3. k - Len(head) + j # j
        BY <2>4, <2>5, <4>1
      <4> QED
        BY <4>2, <4>3
    <3>3. k \in Nat /\ Len(head) \in Nat
      BY <2>4, <2>5
    <3> QED
      BY <3>1, <3>2, <3>3
  <2>9. Without(sup, n) \in Seq(Sale)
    BY <2>1, <2>7
  <2>10. ASSUME NEW i \in 1 .. Len(sup), sup[i].no = n,
                \A k \in 1 .. Len(sup) : sup[k].no = n => k = i
         PROVE  /\ \A k \in 1 .. Len(Without(sup, n)) : Without(sup, n)[k].no # n
                /\ i + 1 >= Len(sup) => Len(sup) - Len(Without(sup, n)) = 1
    <3>1. i = j
      BY <2>4, <2>10
    <3>2. i + 1 >= Len(sup) => Len(sup) - Len(Without(sup, n)) = 1
      BY <2>1, <2>4, <2>5, <2>6, <2>7, <3>1
    <3>3. ASSUME NEW k \in 1 .. Len(Without(sup, n)) PROVE Without(sup, n)[k].no # n
      BY <2>1, <2>8, <2>10, <3>1, <3>3
    <3> QED
      BY <3>2, <3>3
  <2>11. Drawn(Without(sup, n), sup)
    <3> DEFINE at == [k \in 1 .. Len(head) + Len(rest) |->
                        IF k <= Len(head) THEN k ELSE k - Len(head) + j]
    <3>1. Len(head) \in Nat /\ Len(rest) \in Nat /\ Len(head) = j - 1
      BY <2>5, <2>6
    <3>2. ASSUME NEW k \in 1 .. Len(head) + Len(rest)
          PROVE  at[k] \in 1 .. Len(sup) /\ (head \o rest)[k] = sup[at[k]]
      <4>1. CASE k <= Len(head)
        BY <2>4, <2>5, <2>7, <3>1, <4>1
      <4>2. CASE ~(k <= Len(head))
        <5>1. k - Len(head) \in 1 .. Len(rest) /\ at[k] = k - Len(head) + j
          BY <3>1, <4>2
        <5> QED
          BY <2>6, <2>7, <4>2, <5>1
      <4> QED
        BY <4>1, <4>2
    <3>3. ASSUME NEW k \in 1 .. Len(head) + Len(rest), NEW l \in 1 .. Len(head) + Len(rest),
                 at[k] = at[l]
          PROVE  k = l
      BY <2>4, <3>1, <3>3
    <3>4. at \in [1 .. Len(head) + Len(rest) -> 1 .. Len(sup)]
      BY <3>2
    <3>5. \A k, l \in 1 .. Len(head) + Len(rest) : at[k] = at[l] => k = l
      BY <3>3
    <3> HIDE DEF at
    <3>6. /\ Len(Without(sup, n)) = Len(head) + Len(rest)
          /\ at \in [1 .. Len(Without(sup, n)) -> 1 .. Len(sup)]
          /\ \A k \in 1 .. Len(Without(sup, n)) : Without(sup, n)[k] = sup[at[k]]
          /\ \A k, l \in 1 .. Len(Without(sup, n)) : at[k] = at[l] => k = l
      BY <2>1, <2>7, <3>2, <3>4, <3>5
    <3> QED
      BY <3>6 DEF Drawn
  <2> QED
    BY <2>9, <2>10, <2>11, Zenon
<1> QED
  BY <1>1, <1>2

\* The fields of the slot that are set apart from its command.
LEMMA SlotIs ==
  ASSUME slot \in [Clients -> Slot], NEW c \in Clients, NEW n \in Cmds, NEW o \in BOOLEAN,
         \/ slot' = [slot EXCEPT ![c].pss = n]
         \/ slot' = [slot EXCEPT ![c].old = o]
  PROVE  /\ slot' \in [Clients -> Slot]
         /\ \A d \in Clients : /\ slot'[d].code = slot[d].code /\ slot'[d].by = slot[d].by
                               /\ d # c => slot'[d] = slot[d]
<1>1. /\ [slot[c] EXCEPT !.pss = n] \in Slot /\ [slot[c] EXCEPT !.old = o] \in Slot
      /\ [slot[c] EXCEPT !.pss = n].code = slot[c].code /\ [slot[c] EXCEPT !.pss = n].by = slot[c].by
      /\ [slot[c] EXCEPT !.old = o].code = slot[c].code /\ [slot[c] EXCEPT !.old = o].by = slot[c].by
  <2>1. slot[c] \in Slot
    OBVIOUS
  <2> QED
    BY <2>1 DEF Slot
<1>2. PICK s \in Slot : slot' = [slot EXCEPT ![c] = s] /\ s.code = slot[c].code /\ s.by = slot[c].by
  BY <1>1
<1> QED
  BY <1>2

-----------------------------------------------------------------------------
(* What the steps make of the requests and of the link.                    *)

\* The requests after: that of number by, if any, has become req.
Becomes(new, c, by, req) ==
    /\ new \in [Clients -> Seq(Request)]
    /\ \A d \in Clients \ {c} : new[d] = asked[d]
    /\ Len(new[c]) = Len(asked[c])
    /\ \A i \in 1 .. Len(asked[c]) : new[c][i] = IF i = by THEN req ELSE asked[c][i]

LEMMA BecomesIs ==
  ASSUME asked \in [Clients -> Seq(Request)], NEW c \in Clients,
         NEW by \in 1 .. Len(asked[c]), NEW req \in Request
  PROVE  Becomes([asked EXCEPT ![c] = [asked[c] EXCEPT ![by] = req]], c, by, req)
<1> DEFINE s == [asked[c] EXCEPT ![by] = req]
<1>1. /\ s \in Seq(Request) /\ Len(s) = Len(asked[c])
      /\ \A i \in 1 .. Len(asked[c]) : s[i] = IF i = by THEN req ELSE asked[c][i]
  <2>1. asked[c] \in Seq(Request)
    OBVIOUS
  <2> QED
    BY <2>1, ExceptSeq
<1> HIDE DEF s
<1> QED
  BY <1>1 DEF Becomes

LEMMA ToldIs ==
  ASSUME asked \in [Clients -> Seq(Request)], NEW c \in Clients,
         NEW by \in 0 .. Len(asked[c]), NEW ans \in {"ack", "rejected"},
         by # NoRequest => asked[c][by].told = <<>>
  PROVE  Becomes(Told(c, by, ans), c, by, [told |-> <<ans>>, done |-> asked[c][by].done])
<1>1. CASE by = NoRequest
  BY <1>1 DEF Told, Becomes, NoRequest
<1>2. CASE by # NoRequest
  <2> DEFINE req == [told |-> <<ans>>, done |-> asked[c][by].done]
  <2>1. by \in 1 .. Len(asked[c]) /\ asked[c] \in Seq(Request)
    BY <1>2 DEF NoRequest
  <2>2. asked[c][by] \in Request
    BY <2>1
  <2>3. <<ans>> \in {<<"ack">>, <<"rejected">>} /\ Append(asked[c][by].told, ans) = <<ans>>
    <3>1. Append(<<>>, ans) = <<ans>>
      OBVIOUS
    <3>2. asked[c][by].told = <<>>
      BY <1>2
    <3> QED
      BY <3>1, <3>2
  <2>4. req \in Request /\ [asked[c][by] EXCEPT !.told = <<ans>>] = req
    BY <2>2, <2>3 DEF Request
  <2>5. Told(c, by, ans)
          = [asked EXCEPT ![c] = [asked[c] EXCEPT ![by] =
               [asked[c][by] EXCEPT !.told = Append(asked[c][by].told, ans)]]]
    BY <1>2 DEF Told
  <2> HIDE DEF req
  <2>6. Told(c, by, ans) = [asked EXCEPT ![c] = [asked[c] EXCEPT ![by] = req]]
    BY <2>3, <2>4, <2>5
  <2>7. Becomes([asked EXCEPT ![c] = [asked[c] EXCEPT ![by] = req]], c, by, req)
    BY <2>1, <2>4, BecomesIs
  <2>8. Becomes(Told(c, by, ans), c, by, req)
    BY <2>6, <2>7, Zenon
  <2> QED
    BY <2>8 DEF req
<1> QED
  BY <1>1, <1>2

LEMMA DoneIs ==
  ASSUME asked \in [Clients -> Seq(Request)], NEW c \in Clients,
         NEW by \in 1 .. Len(asked[c])
  PROVE  Becomes([asked EXCEPT ![c][by].done = TRUE], c, by,
                 [told |-> asked[c][by].told, done |-> TRUE])
<1> DEFINE req == [told |-> asked[c][by].told, done |-> TRUE]
<1>1. asked[c] \in Seq(Request) /\ asked[c][by] \in Request
  OBVIOUS
<1>2. req \in Request
  BY <1>1 DEF Request
<1>5. [asked[c][by] EXCEPT !.done = TRUE] = req
  <2>1. PICK r, S, b : r = asked[c][by] /\ S = {<<>>, <<"ack">>, <<"rejected">>} /\ b = TRUE
    OBVIOUS
  <2>2. r \in [told : S, done : BOOLEAN]
    BY <1>1, <2>1 DEF Request
  <2>3. [r EXCEPT !.done = b] = [told |-> r.told, done |-> b]
    BY <2>2
  <2> QED
    BY <2>1, <2>3, Zenon
<1>3. [asked EXCEPT ![c][by].done = TRUE]
        = [asked EXCEPT ![c] = [asked[c] EXCEPT ![by] = [asked[c][by] EXCEPT !.done = TRUE]]]
  OBVIOUS
<1> HIDE DEF req
<1>6. Becomes([asked EXCEPT ![c][by].done = TRUE], c, by, req)
  BY <1>1, <1>2, <1>3, <1>5, BecomesIs
<1> QED
  BY <1>6 DEF req

\* A request more.
Grows(new, c, req) ==
    /\ new \in [Clients -> Seq(Request)]
    /\ \A d \in Clients \ {c} : new[d] = asked[d]
    /\ Len(new[c]) = Len(asked[c]) + 1
    /\ \A i \in 1 .. Len(asked[c]) : new[c][i] = asked[c][i]
    /\ new[c][Len(asked[c]) + 1] = req

LEMMA GrowsIs ==
  ASSUME asked \in [Clients -> Seq(Request)], NEW c \in Clients, NEW req \in Request
  PROVE  Grows([asked EXCEPT ![c] = Append(@, req)], c, req)
<1>1. asked[c] \in Seq(Request)
  OBVIOUS
<1>2. /\ Append(asked[c], req) \in Seq(Request)
      /\ Len(Append(asked[c], req)) = Len(asked[c]) + 1
      /\ \A i \in 1 .. Len(asked[c]) : Append(asked[c], req)[i] = asked[c][i]
      /\ Append(asked[c], req)[Len(asked[c]) + 1] = req
  BY <1>1
<1> QED
  BY <1>2 DEF Grows

\* The messages under way after: those before, and perhaps msg behind them.
LEMMA SendsIs ==
  ASSUME Wires, NEW c \in Clients, NEW msg \in Message, Sends(c, msg),
         msg.by # NoRequest => msg.code \in Commands
  PROVE  /\ up' \in [Clients -> Seq(Message)]
         /\ \A d \in Clients : Len(up'[d]) <= MaxFrames
         /\ \A d \in Clients : \A j \in 1 .. Len(up'[d]) :
              up'[d][j].by # NoRequest => up'[d][j].code \in Commands
         /\ \A d \in Clients \ {c} : up'[d] = up[d]
         /\ \A j \in 1 .. Len(up'[c]) :
              \/ j \in 1 .. Len(up[c]) /\ up'[c][j] = up[c][j]
              \/ j = Len(up[c]) + 1 /\ up'[c][j] = msg
<1>1. CASE ~stored[c]
  BY <1>1 DEF Sends, Wires
<1>2. CASE stored[c]
  <2>1. up[c] \in Seq(Message) /\ Len(up[c]) < MaxFrames /\ up' = [up EXCEPT ![c] = Append(@, msg)]
    BY <1>2 DEF Sends, Wires
  <2> DEFINE s == Append(up[c], msg)
  <2>2. /\ s \in Seq(Message) /\ Len(s) = Len(up[c]) + 1
        /\ \A j \in 1 .. Len(up[c]) : s[j] = up[c][j]
        /\ s[Len(up[c]) + 1] = msg
    BY <2>1
  <2>3. \A j \in 1 .. Len(s) : j \in 1 .. Len(up[c]) \/ j = Len(up[c]) + 1
    BY <2>1, <2>2
  <2> HIDE DEF s
  <2>4. up' = [up EXCEPT ![c] = s]
    BY <2>1 DEF s
  <2>5. Len(up[c]) + 1 <= MaxFrames
    BY <2>1, ConstantsAssumption
  <2> QED
    BY <2>2, <2>3, <2>4, <2>5 DEF Wires
<1> QED
  BY <1>1, <1>2

-----------------------------------------------------------------------------
(* The invariant.                                                          *)

\* The reader at place p still has to answer its request.
Owes(p) == p.pc \in {"authorize", "reset", "code"} \/ (p.pc = "update" /\ p.cmd = "open")

\* A request that is not answered yet is with the reader or in the slot, and not with both.
Book(c) ==
    LET p == thr[Pos(c)] IN
    /\ p.pc # "idle" => p.by \in 1 .. Len(asked[c])
    /\ Owes(p) => asked[c][p.by].told = <<>> /\ slot[c].by # p.by
    /\ slot[c].by # NoRequest => /\ slot[c].by \in 1 .. Len(asked[c])
                                 /\ asked[c][slot[c].by].told = <<>>
    /\ \A j \in 1 .. Len(up[c]) : up[c][j].by \in 0 .. Len(asked[c])

\* What the point of sale was told is what became of its request.
Honest(c) ==
    /\ \A i \in 1 .. Len(asked[c]) :
         /\ asked[c][i].told = <<"ack">> => asked[c][i].done
         /\ asked[c][i].told = <<"rejected">> => ~asked[c][i].done
    /\ LET p == thr[Pos(c)] IN
       /\ p.pc \in {"authorize", "reset", "code", "name", "send"} => ~asked[c][p.by].done
       /\ p.pc = "update" /\ p.cmd = "open" => asked[c][p.by].done
    /\ \A f \in Points : pump[f].by # <<>> /\ pump[f].by[1] = c /\ pump[f].by[2] # NoRequest =>
         /\ pump[f].by[2] \in 1 .. Len(asked[c])
         /\ asked[c][pump[f].by[2]].done

Answer(m) == m.kind = "reply" /\ m.code \in Commands
Sending(p) == p.pc \in {"name", "send"}

NoOrder(c) == \A j \in 1 .. Len(up[c]) : up[c][j].code \notin Commands
NoAnswer(c) == \A j \in 1 .. Len(down[c]) : ~Answer(down[c][j])

\* The command in the slot is with one thread, or on its way to the hardware server, or its
\* answer is on the way back.
OneOrder(c) ==
    \A j \in 1 .. Len(up[c]) : up[c][j].code \in Commands =>
      /\ up[c][j].code = slot[c].code /\ up[c][j].by = slot[c].by
      /\ slot[c].by # NoRequest => ~asked[c][slot[c].by].done
      /\ \A k \in 1 .. Len(up[c]) : up[c][k].code \in Commands => k = j
      /\ NoAnswer(c)
OneReply(c) ==
    \A j \in 1 .. Len(down[c]) : Answer(down[c][j]) =>
      /\ down[c][j].code = slot[c].code
      /\ slot[c].by # NoRequest => asked[c][slot[c].by].done = down[c][j].ok
      /\ \A k \in 1 .. Len(down[c]) : Answer(down[c][k]) => k = j
OneSender(c) ==
    /\ \A t \in {Pos(c), Dev(c)} : Sending(thr[t]) =>
         /\ slot[c].code = Code(t) /\ slot[c].by = thr[t].by
         /\ NoOrder(c) /\ NoAnswer(c)
    /\ ~(Sending(thr[Pos(c)]) /\ Sending(thr[Dev(c)]))

Excused(c) == c \in seen.timedOut \cup seen.reused
Truth(c) == Honest(c) /\ OneOrder(c) /\ OneReply(c) /\ OneSender(c)
Client(c) == Book(c) /\ (~Excused(c) => Truth(c))

\* The copies of thread t have the sales of its point, unless the record was changed since
\* they were taken; its own has those of the one it passes on.
Knows(t) ==
    LET p == thr[t] IN
    /\ p.copy # NoRecord /\ p.own # NoRecord => SalesOf(p.copy.sup) \subseteq SalesOf(p.own.sup)
    /\ t \notin seen.stale =>
         /\ p.copy # NoRecord => Sales(p.f) \subseteq SalesOf(p.copy.sup)
         /\ p.own # NoRecord => Sales(p.f) \subseteq SalesOf(p.own.sup)
Copies == \A t \in Threads : Knows(t)

IInv == Types /\ Copies /\ \A c \in Clients : Client(c)

-----------------------------------------------------------------------------
(* What a step leaves alone.                                               *)

LEMMA Moved ==
  ASSUME Placed, NEW t \in Threads, NEW p \in Thread, Proper(t, p), thr' = [thr EXCEPT ![t] = p]
  PROVE  Placed' /\ thr'[t] = p /\ \A u \in Threads \ {t} : thr'[u] = thr[u]
  BY DEF Placed

LEMMA OtherClients ==
  ASSUME NEW c \in Clients, Client(c),
         UNCHANGED <<asked[c], slot[c], thr[Pos(c)], thr[Dev(c)], up[c], down[c]>>,
         seen.timedOut \subseteq seen.timedOut', seen.reused \subseteq seen.reused',
         \A f \in Points : pump'[f].by = pump[f].by \/ (pump'[f].by # <<>> /\ pump'[f].by[1] # c)
  PROVE  Client(c)'
<1>1. Book(c)'
  BY DEF Client, Book, Owes
<1>2. ASSUME ~Excused(c)' PROVE Truth(c)'
  <2>1. Truth(c)
    BY <1>2 DEF Client, Excused
  <2>2. Honest(c)'
    BY <2>1 DEF Truth, Honest
  <2>3. OneOrder(c)' /\ OneReply(c)' /\ OneSender(c)'
    BY <2>1 DEF Truth, OneOrder, OneReply, OneSender, NoOrder, NoAnswer, Answer, Sending, Code
  <2> QED
    BY <2>2, <2>3 DEF Truth
<1> QED
  BY <1>1, <1>2 DEF Client

\* A step of thread t that may change the sales of point f.
LEMMA CopiesStep ==
  ASSUME Copies, Placed, fp \in [Points -> Record], fp' \in [Points -> Record],
         NEW t \in Threads, NEW f \in Points, Knows(t)',
         \A u \in Threads \ {t} : thr'[u] = thr[u],
         \A g \in Points \ {f} : fp'[g] = fp[g],
         (seen.stale \ {t}) \cup Holders(f, t) \subseteq seen'.stale
  PROVE  Copies'
<1> SUFFICES ASSUME NEW u \in Threads \ {t} PROVE Knows(u)'
  BY DEF Copies
<1>1. Knows(u) /\ thr'[u] = thr[u]
  BY DEF Copies
<1>2. CASE thr[u].copy = NoRecord /\ thr[u].own = NoRecord
  BY <1>1, <1>2 DEF Knows
<1>3. CASE thr[u].f = f /\ (thr[u].copy # NoRecord \/ thr[u].own # NoRecord)
  <2>1. u \in seen'.stale
    BY <1>3 DEF Holders
  <2> QED
    BY <1>1, <2>1 DEF Knows
<1>4. CASE thr[u].f # f /\ (thr[u].copy # NoRecord \/ thr[u].own # NoRecord)
  <2>0. thr[u].f \in Points \ {f}
    BY <1>4 DEF Placed, Proper
  <2>1. Sales(thr[u].f)' = Sales(thr[u].f)
    BY <1>1, <2>0 DEF Sales
  <2> QED
    BY <1>1, <2>1 DEF Knows
<1> QED
  BY <1>2, <1>3, <1>4

LEMMA CopiesKept ==
  ASSUME Copies, UNCHANGED fp, NEW t \in Threads, Knows(t)',
         \A u \in Threads \ {t} : thr'[u] = thr[u],
         seen.stale \ {t} \subseteq seen'.stale
  PROVE  Copies'
<1> SUFFICES ASSUME NEW u \in Threads \ {t} PROVE Knows(u)'
  BY DEF Copies
<1>1. Knows(u) /\ thr'[u] = thr[u] /\ (u \in seen.stale => u \in seen'.stale)
  BY DEF Copies
<1>2. Sales(thr[u].f)' = Sales(thr[u].f)
  BY <1>1 DEF Sales
<1> QED
  BY <1>1, <1>2 DEF Knows

\* A thread that goes on with what it holds.
LEMMA GotoIs ==
  ASSUME Placed, NEW t \in Threads, NEW pc \in Working \ {"store", "authorize"}, Goto(t, pc),
         thr[t].pc \in Working, pc = "update" => thr[t].copy \in Record,
         thr[t].cmd = "open" => pc = "update"
  PROVE  /\ Placed' /\ \A u \in Threads \ {t} : thr'[u] = thr[u]
         /\ thr'[t].pc = pc /\ thr'[t].cmd = thr[t].cmd /\ thr'[t].by = thr[t].by
         /\ thr'[t].f = thr[t].f /\ thr'[t].copy = thr[t].copy /\ thr'[t].own = thr[t].own
<1> DEFINE p == [thr[t] EXCEPT !.pc = pc]
<1>1. thr[t] \in Thread /\ Proper(t, thr[t]) /\ thr' = [thr EXCEPT ![t] = p]
  BY DEF Placed, Goto
<1>2. /\ p \in Thread /\ p.pc = pc /\ p.cmd = thr[t].cmd /\ p.by = thr[t].by
      /\ p.f = thr[t].f /\ p.copy = thr[t].copy /\ p.own = thr[t].own /\ p.msg = thr[t].msg
  BY <1>1 DEF Thread, Places
<1> HIDE DEF p
<1>3. Proper(t, p)
  BY <1>1, <1>2 DEF Proper, Working
<1> QED
  BY <1>1, <1>2, <1>3, Moved

\* The end of authorize_fp and reset_fp.
LEMMA ReturnIs ==
  ASSUME Placed, NEW t \in Threads, Returns(t), thr[t].pc \in Working
  PROVE  /\ Placed' /\ \A u \in Threads \ {t} : thr'[u] = thr[u]
         /\ t[2] = "pos" => thr'[t] = Idle
         /\ t[2] = "dev" => /\ thr'[t].pc = "store" /\ thr'[t].f = thr[t].f
                            /\ thr'[t].copy = NoRecord /\ thr'[t].own = thr[t].own
                            /\ thr[t].own \in Record /\ thr'[t].by = NoRequest
<1> DEFINE p == Return(t)
<1>1. thr[t] \in Thread /\ Proper(t, thr[t]) /\ thr' = [thr EXCEPT ![t] = p]
  BY DEF Placed, Returns
<1>2. t[2] \in {"pos", "dev"}
  BY ThreadsAre
<1>3. CASE t[2] = "pos"
  <2>1. p = Idle
    BY <1>3 DEF Return
  <2> QED
    BY <1>1, <1>3, <2>1, IdleType, Moved
<1>4. CASE t[2] = "dev"
  <2>1. p = [thr[t] EXCEPT !.pc = "store", !.copy = NoRecord]
    BY <1>4 DEF Return
  <2>2. /\ p \in Thread /\ p.pc = "store" /\ p.cmd = thr[t].cmd /\ p.by = thr[t].by
        /\ p.f = thr[t].f /\ p.copy = NoRecord /\ p.own = thr[t].own /\ p.msg = thr[t].msg
    BY <1>1, <2>1 DEF Thread, Places, Working
  <2> HIDE DEF p
  <2>3. Proper(t, p) /\ thr[t].own \in Record /\ thr[t].by = NoRequest
    BY <1>1, <1>4, <2>2 DEF Proper, Working
  <2> QED
    BY <1>1, <1>4, <2>2, <2>3, Moved
<1> QED
  BY <1>2, <1>3, <1>4

\* What thread t knows when its copies are dropped, or kept while the sales stay.
LEMMA KnowsNothing ==
  ASSUME NEW t \in Threads, thr'[t].copy = NoRecord, thr'[t].own = NoRecord
  PROVE  Knows(t)'
  BY DEF Knows

LEMMA KnowsSame ==
  ASSUME NEW t \in Threads, Knows(t), UNCHANGED fp, thr'[t].f = thr[t].f,
         \/ thr'[t].copy = NoRecord \/ thr'[t].copy = thr[t].copy
         \/ thr[t].copy # NoRecord /\ thr'[t].copy.sup = thr[t].copy.sup,
         thr'[t].own = NoRecord \/ thr'[t].own = thr[t].own,
         t \in seen.stale => t \in seen'.stale
  PROVE  Knows(t)'
<1>1. Sales(thr[t].f)' = Sales(thr[t].f)
  BY DEF Sales
<1> QED
  BY <1>1 DEF Knows

LEMMA CopiesStay ==
  ASSUME Copies, UNCHANGED <<fp, thr>>, seen.stale \subseteq seen'.stale
  PROVE  Copies'
<1> SUFFICES ASSUME NEW t \in Threads PROVE Knows(t)'
  BY DEF Copies
<1>1. Knows(t)
  BY DEF Copies
<1> QED
  BY <1>1, KnowsSame

-----------------------------------------------------------------------------
(* The clients, when thread t of client c has moved.                       *)

\* All but the requests of client c and what thread t is about is as it was.
Stays(t, c) ==
    /\ t \in Threads /\ c \in Clients /\ c = t[1]
    /\ \A u \in Threads \ {t} : thr'[u] = thr[u]
    /\ \A d \in Clients \ {c} : /\ asked'[d] = asked[d] /\ slot'[d] = slot[d]
                                /\ up'[d] = up[d] /\ down'[d] = down[d]
    /\ seen.timedOut \subseteq seen'.timedOut /\ seen.reused \subseteq seen'.reused
    /\ \A f \in Points : pump'[f].by = pump[f].by

LEMMA StaysOthers ==
  ASSUME IInv, NEW t, NEW c, Stays(t, c), Client(c)'
  PROVE  \A d \in Clients : Client(d)'
<1> SUFFICES ASSUME NEW d \in Clients \ {c} PROVE Client(d)'
  OBVIOUS
<1>1. Pos(d) \in Threads \ {t} /\ Dev(d) \in Threads \ {t}
  BY ThreadsAre DEF Stays
<1>2. /\ asked'[d] = asked[d] /\ slot'[d] = slot[d] /\ thr'[Pos(d)] = thr[Pos(d)]
      /\ thr'[Dev(d)] = thr[Dev(d)] /\ up'[d] = up[d] /\ down'[d] = down[d]
      /\ seen.timedOut \subseteq seen'.timedOut /\ seen.reused \subseteq seen'.reused
      /\ \A f \in Points : pump'[f].by = pump[f].by
  BY <1>1 DEF Stays
<1> QED
  BY <1>2, OtherClients DEF IInv

\* Thread t goes on: it owes and sends nothing it did not owe or send before, and on the
\* link there are no more commands, nor answers to them, than were there.
LEMMA Moves ==
  ASSUME IInv, NEW t, NEW c, Stays(t, c), NEW r \in {0, 1}, NEW s \in {0, 1},
         asked'[c] = asked[c],
         slot'[c].code = slot[c].code, slot'[c].by = slot[c].by,
         \A j \in 1 .. Len(up'[c]) :
           \/ j + r \in 1 .. Len(up[c]) /\ up'[c][j] = up[c][j + r]
           \/ up'[c][j].by = NoRequest /\ up'[c][j].code \notin Commands,
         \A j \in 1 .. Len(down'[c]) :
           \/ j + s \in 1 .. Len(down[c]) /\ down'[c][j] = down[c][j + s]
           \/ ~Answer(down'[c][j]),
         thr'[t].by = thr[t].by \/ (t = Pos(c) /\ thr'[t].pc = "idle"),
         t = Pos(c) =>
           /\ thr'[t].pc # "idle" => thr[t].pc # "idle"
           /\ Owes(thr'[t]) => Owes(thr[t])
           /\ thr'[t].pc \in {"authorize", "reset", "code", "name", "send"} =>
                thr[t].pc \in {"authorize", "reset", "code", "name", "send"}
           /\ thr'[t].pc = "update" /\ thr'[t].cmd = "open" =>
                thr[t].pc = "update" /\ thr[t].cmd = "open",
         Sending(thr'[t]) => Sending(thr[t]) /\ Code(t)' = Code(t)
  PROVE  \A d \in Clients : Client(d)'
<1>1. /\ c \in Clients /\ t \in {Pos(c), Dev(c)} /\ Pos(c) # Dev(c)
      /\ \A u \in {Pos(c), Dev(c)} \ {t} : thr'[u] = thr[u]
      /\ seen.timedOut \subseteq seen'.timedOut /\ seen.reused \subseteq seen'.reused
      /\ \A f \in Points : pump'[f].by = pump[f].by
  BY ThreadsAre DEF Stays
<1>2. Client(c) /\ Len(down[c]) \in Nat /\ Len(up[c]) \in Nat
  BY <1>1 DEF IInv, Types, Wires
<1>3. Book(c)'
  <2>1. /\ thr'[Pos(c)].pc # "idle" => /\ thr[Pos(c)].pc # "idle"
                                      /\ thr'[Pos(c)].by = thr[Pos(c)].by
        /\ Owes(thr'[Pos(c)]) => Owes(thr[Pos(c)]) /\ thr'[Pos(c)].pc # "idle"
    BY <1>1 DEF Owes
  <2>2. \A j \in 1 .. Len(up'[c]) : up'[c][j].by \in 0 .. Len(asked'[c])
    <3>1. Len(asked[c]) \in Nat
      BY <1>1 DEF IInv, Types, Tables
    <3>2. \A j \in 1 .. Len(up[c]) : up[c][j].by \in 0 .. Len(asked[c])
      BY <1>2 DEF Client, Book
    <3> QED
      BY <3>1, <3>2 DEF NoRequest
  <2> QED
    BY <1>2, <2>1, <2>2 DEF Client, Book
<1>4. ASSUME ~Excused(c)' PROVE Truth(c)'
  <2>1. Truth(c)
    BY <1>1, <1>2, <1>4 DEF Client, Excused
  <2>2. Honest(c)'
    BY <1>1, <1>2, <2>1 DEF Truth, Honest
  <2>3. NoAnswer(c) => NoAnswer(c)'
    BY DEF NoAnswer
  <2>4. NoOrder(c) => NoOrder(c)'
    BY DEF NoOrder
  <2>5. OneOrder(c)'
    <3>1. ASSUME NEW j \in 1 .. Len(up'[c]), up'[c][j].code \in Commands
          PROVE  j + r \in 1 .. Len(up[c]) /\ up'[c][j] = up[c][j + r] /\ up[c][j + r].code \in Commands
      BY <3>1
    <3>2. ASSUME NEW j \in 1 .. Len(up'[c]), NEW k \in 1 .. Len(up'[c]),
                 up'[c][j].code \in Commands, up'[c][k].code \in Commands
          PROVE  k = j
      <4>1. j + r = k + r
        BY <2>1, <3>1, <3>2 DEF Truth, OneOrder
      <4> QED
        BY <4>1
    <3>3. ASSUME NEW j \in 1 .. Len(up'[c]), up'[c][j].code \in Commands
          PROVE  /\ up'[c][j].code = slot[c].code /\ up'[c][j].by = slot[c].by
                 /\ slot[c].by # NoRequest => ~asked[c][slot[c].by].done
                 /\ NoAnswer(c)
      BY <2>1, <3>1, <3>3 DEF Truth, OneOrder
    <3> QED
      BY <2>3, <3>2, <3>3 DEF OneOrder
  <2>6. OneReply(c)'
    <3>1. ASSUME NEW j \in 1 .. Len(down'[c]), Answer(down'[c][j])
          PROVE  j + s \in 1 .. Len(down[c]) /\ down'[c][j] = down[c][j + s] /\ Answer(down[c][j + s])
      BY <3>1
    <3>2. ASSUME NEW j \in 1 .. Len(down'[c]), NEW k \in 1 .. Len(down'[c]),
                 Answer(down'[c][j]), Answer(down'[c][k])
          PROVE  k = j
      <4>1. j + s = k + s
        BY <2>1, <3>1, <3>2 DEF Truth, OneReply
      <4> QED
        BY <4>1
    <3>3. ASSUME NEW j \in 1 .. Len(down'[c]), Answer(down'[c][j])
          PROVE  /\ down'[c][j].code = slot[c].code
                 /\ slot[c].by # NoRequest => asked[c][slot[c].by].done = down'[c][j].ok
      BY <2>1, <3>1, <3>3 DEF Truth, OneReply
    <3> QED
      BY <3>2, <3>3 DEF OneReply, Answer
  <2>7. OneSender(c)'
    <3>1. ASSUME NEW u \in {Pos(c), Dev(c)}, Sending(thr'[u])
          PROVE  Sending(thr[u]) /\ Code(u)' = Code(u) /\ thr'[u].by = thr[u].by
      BY <1>1, <3>1 DEF Sending, Code
    <3> QED
      BY <2>1, <2>3, <2>4, <3>1 DEF Truth, OneSender
  <2> QED
    BY <2>2, <2>5, <2>6, <2>7 DEF Truth
<1>5. Client(c)'
  BY <1>3, <1>4 DEF Client
<1> QED
  BY <1>5, StaysOthers

\* The same when the requests and the link stay as they are.
LEMMA GoesOn ==
  ASSUME IInv, NEW t \in Threads, UNCHANGED <<asked, up, down, pump>>,
         \A d \in Clients : /\ slot'[d].code = slot[d].code /\ slot'[d].by = slot[d].by
                            /\ d # t[1] => slot'[d] = slot[d],
         \A u \in Threads \ {t} : thr'[u] = thr[u],
         seen.timedOut \subseteq seen'.timedOut, seen.reused \subseteq seen'.reused,
         thr'[t].by = thr[t].by \/ (t[2] = "pos" /\ thr'[t].pc = "idle"),
         t[2] = "pos" =>
           /\ thr'[t].pc # "idle" => thr[t].pc # "idle"
           /\ Owes(thr'[t]) => Owes(thr[t])
           /\ thr'[t].pc \in {"authorize", "reset", "code", "name", "send"} =>
                thr[t].pc \in {"authorize", "reset", "code", "name", "send"}
           /\ thr'[t].pc = "update" /\ thr'[t].cmd = "open" =>
                thr[t].pc = "update" /\ thr[t].cmd = "open",
         Sending(thr'[t]) => Sending(thr[t]) /\ Code(t)' = Code(t)
  PROVE  \A d \in Clients : Client(d)'
<1>1. Stays(t, t[1]) /\ (t = Pos(t[1]) <=> t[2] = "pos")
  BY ThreadsAre DEF Stays
<1>2. t[1] \in Clients /\ Len(down[t[1]]) \in Nat /\ Len(up[t[1]]) \in Nat
  BY ThreadsAre DEF IInv, Types, Wires
<1>3. /\ \A j \in 1 .. Len(down'[t[1]]) :
           j + 0 \in 1 .. Len(down[t[1]]) /\ down'[t[1]][j] = down[t[1]][j + 0]
      /\ \A j \in 1 .. Len(up'[t[1]]) :
           j + 0 \in 1 .. Len(up[t[1]]) /\ up'[t[1]][j] = up[t[1]][j + 0]
  BY <1>2
<1> QED
  BY <1>1, <1>2, <1>3, Moves

\* Thread t answers the request it has in hand, if any, and owes and sends nothing after.
LEMMA Tells ==
  ASSUME IInv, NEW t \in Threads, NEW c, c = t[1], NEW ans \in {"ack", "rejected"},
         asked' = Told(c, thr[t].by, ans), UNCHANGED <<slot, up, down>>,
         \A u \in Threads \ {t} : thr'[u] = thr[u],
         seen.timedOut \subseteq seen'.timedOut, seen.reused \subseteq seen'.reused,
         \A f \in Points : pump'[f].by = pump[f].by,
         t = Pos(c) => /\ Owes(thr[t])
                       /\ \/ thr'[t].pc = "idle"
                          \/ /\ thr'[t].pc = "update" /\ thr'[t].cmd # "open"
                             /\ thr'[t].by = thr[t].by,
         ~Sending(thr'[t]),
         ans = "ack" <=> thr[t].pc = "update"
  PROVE  asked' \in [Clients -> Seq(Request)] /\ \A d \in Clients : Client(d)'
<1> DEFINE by == thr[t].by
           done == asked[c][by].done
           req == [told |-> <<ans>>, done |-> done]
<1>1. /\ c \in Clients /\ t \in {Pos(c), Dev(c)} /\ Pos(c) # Dev(c)
      /\ t = Dev(c) => thr[t].by = NoRequest
      /\ \A u \in {Pos(c), Dev(c)} \ {t} : thr'[u] = thr[u]
  <2>1. /\ c \in Clients /\ t \in {Pos(c), Dev(c)} /\ Pos(c) # Dev(c)
        /\ Pos(c) \in Threads /\ Dev(c) \in Threads /\ Dev(c)[2] = "dev"
    BY ThreadsAre
  <2>2. t = Dev(c) => thr[t].by = NoRequest
    BY <2>1 DEF IInv, Types, Placed, Proper
  <2> QED
    BY <2>1, <2>2
<1>2. Client(c) /\ Book(c) /\ Len(asked[c]) \in Nat /\ asked \in [Clients -> Seq(Request)]
  BY <1>1 DEF IInv, Types, Tables, Client
<1>3. t = Pos(c) => thr[t].pc # "idle"
  BY DEF Owes
<1>4. /\ by \in 0 .. Len(asked[c])
      /\ by # NoRequest => /\ t = Pos(c) /\ by \in 1 .. Len(asked[c])
                           /\ asked[c][by].told = <<>> /\ slot[c].by # by
  BY <1>1, <1>2, <1>3 DEF Book, NoRequest
<1>5. Becomes(asked', c, by, req)
  BY <1>1, <1>2, <1>4, ToldIs
<1>6. Stays(t, c)
  BY <1>1, <1>5 DEF Stays, Becomes
<1>7. /\ Len(asked'[c]) = Len(asked[c])
      /\ \A i \in 1 .. Len(asked[c]) : asked'[c][i] = IF i = by THEN req ELSE asked[c][i]
  BY <1>5 DEF Becomes
<1> HIDE DEF by, req
<1>8. ~Owes(thr'[Pos(c)]) \/ (t = Dev(c) /\ thr'[Pos(c)] = thr[Pos(c)])
  BY <1>1 DEF Owes
<1>9. Book(c)'
  <2>1. thr'[Pos(c)].pc # "idle" => thr'[Pos(c)].by \in 1 .. Len(asked'[c])
    BY <1>1, <1>2, <1>3, <1>7 DEF Book
  <2>2. Owes(thr'[Pos(c)]) => /\ asked'[c][thr'[Pos(c)].by].told = <<>>
                              /\ slot'[c].by # thr'[Pos(c)].by
    BY <1>1, <1>2, <1>4, <1>7, <1>8 DEF Book, NoRequest, Owes
  <2>3. slot'[c].by # NoRequest => /\ slot'[c].by \in 1 .. Len(asked'[c])
                                   /\ asked'[c][slot'[c].by].told = <<>>
    BY <1>2, <1>4, <1>7 DEF Book, NoRequest
  <2>4. \A j \in 1 .. Len(up'[c]) : up'[c][j].by \in 0 .. Len(asked'[c])
    BY <1>2, <1>7 DEF Book
  <2> QED
    BY <2>1, <2>2, <2>3, <2>4 DEF Book
<1>10. ASSUME ~Excused(c)' PROVE Truth(c)'
  <2>1. Truth(c)
    BY <1>2, <1>10 DEF Client, Excused
  <2>2. \A i \in 1 .. Len(asked[c]) : asked'[c][i].done = asked[c][i].done
    BY <1>7 DEF req, by
  <2>3. by # NoRequest /\ ans = "rejected" => ~asked[c][by].done
    <3>1. ~(Owes(thr[Pos(c)]) /\ thr[Pos(c)].pc # "update" /\ asked[c][thr[Pos(c)].by].done)
      BY <2>1 DEF Truth, Honest, Owes
    <3> QED
      BY <1>4, <3>1 DEF by
  <2>4. by # NoRequest /\ ans = "ack" => asked[c][by].done
    <3>1. Owes(thr[Pos(c)]) /\ thr[Pos(c)].pc = "update" => asked[c][thr[Pos(c)].by].done
      BY <2>1 DEF Truth, Honest, Owes
    <3> QED
      BY <1>4, <3>1 DEF by
  <2>5. Honest(c)'
    <3>1. ASSUME NEW i \in 1 .. Len(asked'[c])
          PROVE  /\ asked'[c][i].told = <<"ack">> => asked'[c][i].done
                 /\ asked'[c][i].told = <<"rejected">> => ~asked'[c][i].done
      <4>1. i \in 1 .. Len(asked[c])
        BY <1>7, <3>1
      <4>2. CASE i # by
        BY <1>7, <2>1, <4>1, <4>2 DEF Truth, Honest
      <4>3. CASE i = by
        <5>1. by # NoRequest /\ asked'[c][i].told = <<ans>>
          BY <1>7, <4>1, <4>3 DEF req, NoRequest
        <5>2. <<"ack">> # <<"rejected">>
          OBVIOUS
        <5> QED
          BY <2>2, <2>3, <2>4, <4>1, <4>3, <5>1, <5>2
      <4> QED
        BY <4>2, <4>3
    <3>2. LET p == thr'[Pos(c)] IN
          /\ p.pc \in {"authorize", "reset", "code", "name", "send"} => ~asked'[c][p.by].done
          /\ p.pc = "update" /\ p.cmd = "open" => asked'[c][p.by].done
      <4>1. CASE t = Pos(c)
        BY <1>8, <4>1 DEF Owes, Sending
      <4>2. CASE thr'[Pos(c)] = thr[Pos(c)]
        <5>1. thr[Pos(c)].pc # "idle" => thr[Pos(c)].by \in 1 .. Len(asked[c])
          BY <1>2 DEF Book
        <5> QED
          BY <2>1, <2>2, <4>2, <5>1 DEF Truth, Honest
      <4> QED
        BY <1>1, <4>1, <4>2
    <3>3. ASSUME NEW f \in Points, pump'[f].by # <<>>, pump'[f].by[1] = c,
                 pump'[f].by[2] # NoRequest
          PROVE  /\ pump'[f].by[2] \in 1 .. Len(asked'[c])
                 /\ asked'[c][pump'[f].by[2]].done
      <4>1. pump'[f].by = pump[f].by
        OBVIOUS
      <4>2. pump[f].by[2] \in 1 .. Len(asked[c]) /\ asked[c][pump[f].by[2]].done
        BY <2>1, <3>3, <4>1 DEF Truth, Honest
      <4> QED
        BY <1>7, <2>2, <4>1, <4>2
    <3> QED
      BY <3>1, <3>2, <3>3, Zenon DEF Honest
  <2>6. slot[c].by # NoRequest => asked'[c][slot[c].by].done = asked[c][slot[c].by].done
    BY <1>2, <2>2 DEF Book
  <2>7. (NoAnswer(c) <=> NoAnswer(c)') /\ (NoOrder(c) <=> NoOrder(c)')
    BY DEF NoAnswer, NoOrder
  <2>8. OneOrder(c)' /\ OneReply(c)'
    BY <2>1, <2>6, <2>7 DEF Truth, OneOrder, OneReply
  <2>9. OneSender(c)'
    <3>1. ASSUME NEW u \in {Pos(c), Dev(c)}, Sending(thr'[u])
          PROVE  Sending(thr[u]) /\ Code(u)' = Code(u) /\ thr'[u].by = thr[u].by
      BY <1>1, <3>1 DEF Code
    <3> QED
      BY <2>1, <2>7, <3>1 DEF Truth, OneSender
  <2> QED
    BY <2>5, <2>8, <2>9 DEF Truth
<1>11. Client(c)'
  BY <1>9, <1>10 DEF Client
<1> QED
  BY <1>5, <1>6, <1>11, StaysOthers DEF Becomes

-----------------------------------------------------------------------------
(* authorize_fp and reset_fp.                                              *)

LEMMA UnauthorizedStep ==
  ASSUME IInv, NEW t \in Threads, Unauthorized(t)
  PROVE  IInv'
<1>1. /\ thr[t].pc = "authorize" /\ Returns(t) /\ asked' = Told(t[1], thr[t].by, "rejected")
      /\ UNCHANGED <<fp, slot, up, down, unsent, pump, stored, left>>
      /\ seen' = IF t[2] = "dev" THEN seen ELSE [seen EXCEPT !.stale = @ \ {t}]
  BY DEF Unauthorized
<1>2. /\ t[2] \in {"pos", "dev"} /\ (t[2] = "dev" => t # Pos(t[1])) /\ Knows(t) /\ Types
  BY ThreadsAre DEF IInv, Copies
<1>3. /\ Placed' /\ \A u \in Threads \ {t} : thr'[u] = thr[u]
      /\ t[2] = "pos" => thr'[t] = Idle
      /\ t[2] = "dev" => /\ thr'[t].pc = "store" /\ thr'[t].f = thr[t].f
                         /\ thr'[t].copy = NoRecord /\ thr'[t].own = thr[t].own
  BY <1>1, <1>2, ReturnIs DEF Types, Working
<1>4. /\ seen.timedOut = seen'.timedOut /\ seen.reused = seen'.reused
      /\ seen.stale \ {t} \subseteq seen'.stale /\ seen'.stale \subseteq seen.stale
      /\ t[2] = "dev" => seen' = seen
      /\ seen' \in [overwritten : SUBSET Points, reused : SUBSET Clients,
                    timedOut : SUBSET Clients, stale : SUBSET Threads, forced : SUBSET Points,
                    renewed : SUBSET Points]
  BY <1>1, <1>2 DEF Types, Tables
<1>5. asked' \in [Clients -> Seq(Request)] /\ \A d \in Clients : Client(d)'
  BY <1>1, <1>2, <1>3, <1>4, Tells DEF Owes, Sending, Idle
<1>6. Types'
  BY <1>1, <1>2, <1>3, <1>4, <1>5 DEF Types, Tables, Wires
<1>7. Copies'
  <2>1. Knows(t)'
    BY <1>1, <1>2, <1>3, <1>4, KnowsNothing, KnowsSame DEF Idle
  <2> QED
    BY <1>1, <1>2, <1>3, <1>4, <2>1, CopiesKept DEF IInv, Types
<1> QED
  BY <1>5, <1>6, <1>7 DEF IInv

LEMMA AuthorizeStep ==
  ASSUME IInv, NEW t \in Threads, Authorize(t)
  PROVE  IInv'
<1> DEFINE Turned(pc, cp) ==
              /\ thr' = [thr EXCEPT ![t] = [thr[t] EXCEPT !.copy = cp, !.pc = pc]]
              /\ \/ pc = "code" /\ asked' = asked
                 \/ pc = "update" /\ asked' = Told(t[1], thr[t].by, "rejected")
<1>1. /\ thr[t].pc = "authorize" /\ UNCHANGED <<fp, slot, up, down, unsent, pump, stored, left, seen>>
      /\ Types /\ Placed /\ Knows(t) /\ thr[t] \in Thread /\ Proper(t, thr[t])
  BY DEF Authorize, IInv, Types, Placed, Copies
<1>2. thr[t].copy \in Record /\ thr[t].f \in Points /\ thr[t].copy # NoRecord
  BY <1>1, RecordIsOne DEF Proper, Working
<1>3. thr[t].cmd # "open" /\ t[2] \in {"pos", "dev"}
  <2>1. t[2] \in {"pos", "dev"}
    BY ThreadsAre
  <2> QED
    BY <1>1, <2>1 DEF Proper
<1>4. \E pc \in {"code", "update"}, cp \in Record : Turned(pc, cp) /\ cp.sup = thr[t].copy.sup
  <2> DEFINE cp == [thr[t].copy EXCEPT !.main = "PreAuthorized"]
  <2>1. cp \in Record /\ cp.sup = thr[t].copy.sup
    BY <1>2 DEF Record, Mains
  <2>2. [thr[t] EXCEPT !.copy = thr[t].copy, !.pc = "update"] = [thr[t] EXCEPT !.pc = "update"]
    BY <1>1 DEF Thread
  <2> HIDE DEF cp
  <2>3. CASE ~Linked(t)
    <3>1. Turned("update", thr[t].copy)
      BY <2>2, <2>3 DEF Authorize, Goto
    <3> QED
      BY <1>2, <3>1
  <2>4. CASE Linked(t)
    <3>1. \/ Turned("code", cp)
          \/ Turned("update", cp)
      BY <2>4 DEF Authorize, cp
    <3> QED
      BY <2>1, <3>1
  <2> QED
    BY <2>3, <2>4, Zenon
<1>5. PICK pc \in {"code", "update"}, cp \in Record : Turned(pc, cp) /\ cp.sup = thr[t].copy.sup
  BY <1>4
<1> DEFINE p == [thr[t] EXCEPT !.copy = cp, !.pc = pc]
<1>6. /\ p \in Thread /\ p.pc = pc /\ p.cmd = thr[t].cmd /\ p.by = thr[t].by /\ p.f = thr[t].f
      /\ p.copy = cp /\ p.own = thr[t].own /\ p.msg = thr[t].msg
  BY <1>1 DEF Thread, Places, Working
<1>7. thr' = [thr EXCEPT ![t] = p]
  BY <1>5
<1> HIDE DEF p
<1>8. Proper(t, p)
  BY <1>1, <1>3, <1>6 DEF Proper, Working
<1>9. Placed' /\ thr'[t] = p /\ \A u \in Threads \ {t} : thr'[u] = thr[u]
  BY <1>1, <1>6, <1>7, <1>8, Moved
<1>10. asked' \in [Clients -> Seq(Request)] /\ \A d \in Clients : Client(d)'
  <2>1. CASE pc = "code"
    <3>1. asked' = asked /\ asked \in [Clients -> Seq(Request)]
      BY <1>1, <1>5, <2>1 DEF Types, Tables
    <3> QED
      BY <1>1, <1>6, <1>9, <2>1, <3>1, GoesOn DEF Owes, Sending
  <2>2. CASE pc = "update"
    BY <1>1, <1>3, <1>5, <1>6, <1>9, <2>2, Tells DEF Owes, Sending
  <2> QED
    BY <2>1, <2>2
<1>11. Types'
  BY <1>1, <1>9, <1>10 DEF Types, Tables, Wires
<1>12. Copies'
  <2>1. Knows(t)'
    BY <1>1, <1>2, <1>5, <1>6, <1>9, KnowsSame
  <2> QED
    BY <1>1, <1>9, <2>1, CopiesKept DEF IInv
<1> QED
  BY <1>10, <1>11, <1>12 DEF IInv

LEMMA ResetStep ==
  ASSUME IInv, NEW t \in Threads, Reset(t)
  PROVE  IInv'
<1>1. /\ thr[t].pc = "reset" /\ UNCHANGED <<fp, slot, up, down, unsent, pump, stored, left, seen>>
      /\ Types /\ Placed /\ Knows(t) /\ Proper(t, thr[t])
  BY DEF Reset, IInv, Types, Placed, Copies
<1>2. t[2] \in {"pos", "dev"} /\ (t[2] = "dev" => thr[t].by = NoRequest /\ t # Pos(t[1]))
  BY <1>1, ThreadsAre DEF Proper
<1>3. CASE Goto(t, "code") /\ asked' = asked
  <2>1. /\ Placed' /\ \A u \in Threads \ {t} : thr'[u] = thr[u]
        /\ thr'[t].pc = "code" /\ thr'[t].cmd = thr[t].cmd /\ thr'[t].by = thr[t].by
        /\ thr'[t].f = thr[t].f /\ thr'[t].copy = thr[t].copy /\ thr'[t].own = thr[t].own
    <3>1. thr[t].cmd # "open"
      BY <1>1, <1>2 DEF Proper
    <3> QED
      BY <1>1, <1>3, <3>1, GotoIs DEF Working
  <2>2. Types'
    BY <1>1, <1>3, <2>1 DEF Types, Tables, Wires
  <2>3. Copies'
    BY <1>1, <2>1, KnowsSame, CopiesKept DEF IInv
  <2>4. \A d \in Clients : Client(d)'
    BY <1>1, <1>3, <2>1, GoesOn DEF Owes, Sending
  <2> QED
    BY <2>2, <2>3, <2>4 DEF IInv
<1>4. CASE Returns(t) /\ asked' \in {asked, Told(t[1], thr[t].by, "rejected")}
  <2>1. /\ Placed' /\ \A u \in Threads \ {t} : thr'[u] = thr[u]
        /\ t[2] = "pos" => thr'[t] = Idle
        /\ t[2] = "dev" => /\ thr'[t].pc = "store" /\ thr'[t].f = thr[t].f
                           /\ thr'[t].copy = NoRecord /\ thr'[t].own = thr[t].own
                           /\ thr'[t].by = NoRequest
    BY <1>1, <1>2, <1>4, ReturnIs DEF Working
  <2>2. asked' \in [Clients -> Seq(Request)] /\ \A d \in Clients : Client(d)'
    <3>1. CASE asked' = asked
      <4>1. asked \in [Clients -> Seq(Request)]
        BY <1>1 DEF Types, Tables
      <4> QED
        BY <1>1, <1>2, <2>1, <3>1, <4>1, GoesOn DEF Owes, Sending, Idle
    <3>2. CASE asked' = Told(t[1], thr[t].by, "rejected")
      BY <1>1, <1>2, <2>1, <3>2, Tells DEF Owes, Sending, Idle
    <3> QED
      BY <1>4, <3>1, <3>2
  <2>3. Types'
    BY <1>1, <2>1, <2>2 DEF Types, Tables, Wires
  <2>4. Copies'
    <3>1. Knows(t)'
      BY <1>1, <1>2, <2>1, KnowsNothing, KnowsSame DEF Idle
    <3> QED
      BY <1>1, <2>1, <3>1, CopiesKept DEF IInv
  <2> QED
    BY <2>2, <2>3, <2>4 DEF IInv
<1> QED
  BY <1>3, <1>4 DEF Reset

\* The name of the command is set while its thread is sending it.
LEMMA SetNameStep ==
  ASSUME IInv, NEW t \in Threads, SetName(t)
  PROVE  IInv'
<1>1. /\ thr[t].pc = "name" /\ Goto(t, "send")
      /\ slot' = [slot EXCEPT ![t[1]].pss = thr[t].cmd]
      /\ UNCHANGED <<fp, up, down, unsent, pump, stored, asked, left, seen>>
      /\ Types /\ Placed /\ Knows(t) /\ Proper(t, thr[t]) /\ thr[t] \in Thread
  BY DEF SetName, IInv, Types, Placed, Copies
<1>2. thr[t].cmd # "open" /\ thr[t].cmd \in Cmds /\ t[1] \in Clients
  BY <1>1, ThreadsAre DEF Proper, Thread
<1>3. /\ Placed' /\ \A u \in Threads \ {t} : thr'[u] = thr[u]
      /\ thr'[t].pc = "send" /\ thr'[t].cmd = thr[t].cmd /\ thr'[t].by = thr[t].by
      /\ thr'[t].f = thr[t].f /\ thr'[t].copy = thr[t].copy /\ thr'[t].own = thr[t].own
  BY <1>1, <1>2, GotoIs DEF Working
<1>4. /\ slot' \in [Clients -> Slot]
      /\ \A d \in Clients : /\ slot'[d].code = slot[d].code /\ slot'[d].by = slot[d].by
                            /\ d # t[1] => slot'[d] = slot[d]
  BY <1>1, <1>2, SlotIs DEF Types, Tables
<1>5. Types'
  BY <1>1, <1>3, <1>4 DEF Types, Tables, Wires
<1>6. Copies'
  BY <1>1, <1>3, KnowsSame, CopiesKept DEF IInv
<1>7. \A d \in Clients : Client(d)'
  BY <1>1, <1>3, <1>4, GoesOn DEF Owes, Sending, Code
<1> QED
  BY <1>5, <1>6, <1>7 DEF IInv

-----------------------------------------------------------------------------
(* The steps that change the table.                                        *)

LEMMA WriteBackIs ==
  ASSUME Tables, NEW t \in Threads, NEW f \in Points, NEW rec \in Record, WriteBack(f, t, rec)
  PROVE  /\ fp' \in [Points -> Record] /\ fp'[f] = rec
         /\ \A g \in Points \ {f} : fp'[g] = fp[g]
         /\ seen' \in [overwritten : SUBSET Points, reused : SUBSET Clients,
                       timedOut : SUBSET Clients, stale : SUBSET Threads, forced : SUBSET Points,
                       renewed : SUBSET Points]
         /\ seen'.timedOut = seen.timedOut /\ seen'.reused = seen.reused
         /\ (seen.stale \ {t}) \cup Holders(f, t) \subseteq seen'.stale
<1>1. Holders(f, t) \subseteq Threads
  BY DEF Holders
<1> DEFINE st == (seen.stale \ {t}) \cup Holders(f, t)
           ov == IF t \in seen.stale THEN seen.overwritten \cup {f} ELSE seen.overwritten
<1>2. st \subseteq Threads /\ ov \subseteq Points
  BY <1>1 DEF Tables
<1>3. fp' = [fp EXCEPT ![f] = rec] /\ seen' = [seen EXCEPT !.stale = st, !.overwritten = ov]
  BY DEF WriteBack
<1> HIDE DEF st, ov
<1>4. /\ seen' \in [overwritten : SUBSET Points, reused : SUBSET Clients,
                    timedOut : SUBSET Clients, stale : SUBSET Threads, forced : SUBSET Points,
                    renewed : SUBSET Points]
      /\ seen'.timedOut = seen.timedOut /\ seen'.reused = seen.reused /\ seen'.stale = st
  BY <1>2, <1>3 DEF Tables
<1> QED
  BY <1>3, <1>4 DEF Tables, st

LEMMA InPlaceIs ==
  ASSUME Tables, NEW t \in Threads, NEW f \in Points, NEW rec \in Record, InPlace(f, t, rec)
  PROVE  /\ fp' \in [Points -> Record] /\ fp'[f] = rec
         /\ \A g \in Points \ {f} : fp'[g] = fp[g]
         /\ seen' \in [overwritten : SUBSET Points, reused : SUBSET Clients,
                       timedOut : SUBSET Clients, stale : SUBSET Threads, forced : SUBSET Points,
                       renewed : SUBSET Points]
         /\ seen'.timedOut = seen.timedOut /\ seen'.reused = seen.reused
         /\ seen.stale \cup Holders(f, t) \subseteq seen'.stale
<1>1. Holders(f, t) \subseteq Threads
  BY DEF Holders
<1> DEFINE st == seen.stale \cup Holders(f, t)
<1>2. st \subseteq Threads
  BY <1>1 DEF Tables
<1>3. fp' = [fp EXCEPT ![f] = rec] /\ seen' = [seen EXCEPT !.stale = st]
  BY DEF InPlace
<1> HIDE DEF st
<1>4. /\ seen' \in [overwritten : SUBSET Points, reused : SUBSET Clients,
                    timedOut : SUBSET Clients, stale : SUBSET Threads, forced : SUBSET Points,
                    renewed : SUBSET Points]
      /\ seen'.timedOut = seen.timedOut /\ seen'.reused = seen.reused /\ seen'.stale = st
  BY <1>2, <1>3 DEF Tables
<1> QED
  BY <1>3, <1>4 DEF Tables, st

LEMMA ResetParamsType ==
  ASSUME Tables, NEW f \in Points
  PROVE  ResetParams(f) \in Record /\ ResetParams(f).sup = fp[f].sup
<1>1. \A r \in Record : LET new == [r EXCEPT !.preset = FALSE, !.dose = 0, !.stopped = FALSE]
                        IN  new \in Record /\ new.sup = r.sup
  BY DEF Record
<1> QED
  BY <1>1 DEF ResetParams, Tables

LEMMA ParamsStep ==
  ASSUME IInv, NEW t \in Threads, Params(t)
  PROVE  IInv'
<1> PICK f : f = thr[t].f
  OBVIOUS
<1>1. /\ thr[t].pc = "params" /\ Returns(t) /\ InPlace(f, t, ResetParams(f))
      /\ UNCHANGED <<slot, up, down, unsent, pump, stored, asked, left>>
      /\ Types /\ Tables /\ Placed /\ Knows(t) /\ Proper(t, thr[t])
  BY DEF Params, IInv, Types, Placed, Copies
<1>2. /\ t[2] \in {"pos", "dev"} /\ (t[2] = "dev" => thr[t].by = NoRequest) /\ f \in Points
  BY <1>1, ThreadsAre DEF Proper, Working
<1>3. /\ Placed' /\ \A u \in Threads \ {t} : thr'[u] = thr[u]
      /\ t[2] = "pos" => thr'[t] = Idle
      /\ t[2] = "dev" => /\ thr'[t].pc = "store" /\ thr'[t].f = thr[t].f
                         /\ thr'[t].copy = NoRecord /\ thr'[t].own = thr[t].own
                         /\ thr'[t].by = NoRequest
  BY <1>1, <1>2, ReturnIs DEF Working
<1>4. ResetParams(f) \in Record /\ ResetParams(f).sup = fp[f].sup
  BY <1>1, <1>2, ResetParamsType
<1>5. /\ fp' \in [Points -> Record] /\ fp'[f] = ResetParams(f)
      /\ \A g \in Points \ {f} : fp'[g] = fp[g]
      /\ seen' \in [overwritten : SUBSET Points, reused : SUBSET Clients,
                    timedOut : SUBSET Clients, stale : SUBSET Threads, forced : SUBSET Points,
                    renewed : SUBSET Points]
      /\ seen'.timedOut = seen.timedOut /\ seen'.reused = seen.reused
      /\ seen.stale \cup Holders(f, t) \subseteq seen'.stale
  BY <1>1, <1>2, <1>4, InPlaceIs
<1>6. Types'
  BY <1>1, <1>3, <1>5 DEF Types, Tables, Wires
<1>7. Copies'
  <2>1. Knows(t)'
    <3>1. CASE t[2] = "pos"
      BY <1>3, <3>1, KnowsNothing DEF Idle
    <3>2. CASE t[2] = "dev"
      <4>1. Sales(f)' = Sales(f)
        BY <1>4, <1>5 DEF Sales
      <4> QED
        BY <1>1, <1>3, <1>5, <3>2, <4>1 DEF Knows
    <3> QED
      BY <1>2, <3>1, <3>2
  <2> QED
    BY <1>1, <1>2, <1>3, <1>5, <2>1, CopiesStep DEF IInv, Tables
<1>8. \A d \in Clients : Client(d)'
  BY <1>1, <1>2, <1>3, <1>5, GoesOn DEF Owes, Sending, Idle
<1> QED
  BY <1>6, <1>7, <1>8 DEF IInv

LEMMA UpdateStep ==
  ASSUME IInv, NEW t \in Threads, Update(t)
  PROVE  IInv'
<1> PICK f : f = thr[t].f
  OBVIOUS
<1>1. /\ thr[t].pc = "update" /\ Returns(t) /\ WriteBack(f, t, thr[t].copy)
      /\ UNCHANGED <<slot, up, down, unsent, pump, stored, left>>
      /\ asked' = IF thr[t].cmd = "open" THEN Told(t[1], thr[t].by, "ack") ELSE asked
      /\ Types /\ Tables /\ Placed /\ Knows(t) /\ Proper(t, thr[t])
  BY DEF Update, IInv, Types, Placed, Copies
<1>2. /\ t[2] \in {"pos", "dev"} /\ f \in Points /\ thr[t].copy \in Record
      /\ t[2] = "dev" => thr[t].by = NoRequest /\ thr[t].cmd = "none" /\ t # Pos(t[1])
      /\ t[1] \in Clients
  BY <1>1, ThreadsAre DEF Proper, Working
<1>3. /\ Placed' /\ \A u \in Threads \ {t} : thr'[u] = thr[u]
      /\ t[2] = "pos" => thr'[t] = Idle
      /\ t[2] = "dev" => /\ thr'[t].pc = "store" /\ thr'[t].f = thr[t].f
                         /\ thr'[t].copy = NoRecord /\ thr'[t].own = thr[t].own
                         /\ thr[t].own \in Record /\ thr'[t].by = NoRequest
  BY <1>1, <1>2, ReturnIs DEF Working
<1>4. /\ fp' \in [Points -> Record] /\ fp'[f] = thr[t].copy
      /\ \A g \in Points \ {f} : fp'[g] = fp[g]
      /\ seen' \in [overwritten : SUBSET Points, reused : SUBSET Clients,
                    timedOut : SUBSET Clients, stale : SUBSET Threads, forced : SUBSET Points,
                    renewed : SUBSET Points]
      /\ seen'.timedOut = seen.timedOut /\ seen'.reused = seen.reused
      /\ (seen.stale \ {t}) \cup Holders(f, t) \subseteq seen'.stale
  BY <1>1, <1>2, WriteBackIs
<1>5. asked' \in [Clients -> Seq(Request)] /\ \A d \in Clients : Client(d)'
  <2>1. CASE thr[t].cmd = "open"
    BY <1>1, <1>2, <1>3, <1>4, <2>1, Tells DEF Owes, Sending, Idle
  <2>2. CASE thr[t].cmd # "open"
    <3>1. asked' = asked /\ asked \in [Clients -> Seq(Request)]
      BY <1>1, <2>2 DEF Tables
    <3> QED
      BY <1>1, <1>2, <1>3, <1>4, <3>1, GoesOn DEF Owes, Sending, Idle
  <2> QED
    BY <2>1, <2>2
<1>6. Types'
  BY <1>1, <1>3, <1>4, <1>5 DEF Types, Tables, Wires
<1>7. Copies'
  <2>1. Knows(t)'
    <3>1. CASE t[2] = "pos"
      BY <1>3, <3>1, KnowsNothing DEF Idle
    <3>2. CASE t[2] = "dev"
      <4>1. Sales(f)' = SalesOf(thr[t].copy.sup)
        BY <1>4 DEF Sales, SalesOf
      <4>2. SalesOf(thr[t].copy.sup) \subseteq SalesOf(thr[t].own.sup)
        BY <1>1, <1>2, <1>3, <3>2, RecordIsOne DEF Knows
      <4> QED
        BY <1>3, <3>2, <4>1, <4>2 DEF Knows
    <3> QED
      BY <1>2, <3>1, <3>2
  <2> QED
    BY <1>1, <1>2, <1>3, <1>4, <2>1, CopiesStep DEF IInv, Tables
<1> QED
  BY <1>5, <1>6, <1>7 DEF IInv

-----------------------------------------------------------------------------
(* The command in the slot.                                                *)

LEMMA SetCodeStep ==
  ASSUME IInv, NEW t \in Threads, SetCode(t)
  PROVE  IInv'
<1> PICK c : c = t[1]
  OBVIOUS
<1>1. /\ thr[t].pc = "code" /\ Goto(t, "name")
      /\ slot' = [slot EXCEPT ![c].code = Code(t), ![c].by = thr[t].by]
      /\ seen' = IF slot[c].code = "None" THEN seen ELSE [seen EXCEPT !.reused = @ \cup {c}]
      /\ UNCHANGED <<fp, up, down, unsent, pump, stored, asked, left>>
      /\ Types /\ Tables /\ Placed /\ Knows(t) /\ Proper(t, thr[t]) /\ thr[t] \in Thread
  BY DEF SetCode, SlotFree, IInv, Types, Placed, Copies
<1>2. /\ t \in {Pos(c), Dev(c)} /\ Pos(c) # Dev(c) /\ c \in Clients
      /\ {Pos(c), Dev(c)} \subseteq Threads
      /\ t = Dev(c) => thr[t].by = NoRequest
      /\ thr[t].cmd # "open" /\ thr[t].by \in Nat
  <2>1. /\ c \in Clients /\ t \in {Pos(c), Dev(c)} /\ Pos(c) # Dev(c) /\ t[2] \in {"pos", "dev"}
        /\ Pos(c) \in Threads /\ Dev(c) \in Threads /\ Dev(c)[2] = "dev"
    BY ThreadsAre
  <2>2. (t = Dev(c) => thr[t].by = NoRequest) /\ thr[t].cmd # "open" /\ thr[t].by \in Nat
    BY <1>1, <2>1 DEF Proper, Thread
  <2> QED
    BY <2>1, <2>2
<1>3. /\ Placed' /\ \A u \in Threads \ {t} : thr'[u] = thr[u]
      /\ thr'[t].pc = "name" /\ thr'[t].cmd = thr[t].cmd /\ thr'[t].by = thr[t].by
      /\ thr'[t].f = thr[t].f /\ thr'[t].copy = thr[t].copy /\ thr'[t].own = thr[t].own
  BY <1>1, <1>2, GotoIs DEF Working
<1>4. Code(t) \in Commands /\ Code(t)' = Code(t)
  BY <1>3 DEF Code, Commands
<1>5. /\ slot' \in [Clients -> Slot] /\ slot'[c].code = Code(t) /\ slot'[c].by = thr[t].by
      /\ \A d \in Clients \ {c} : slot'[d] = slot[d]
  <2> DEFINE s == [slot[c] EXCEPT !.code = Code(t), !.by = thr[t].by]
  <2>1. slot[c] \in Slot /\ slot \in [Clients -> Slot] /\ Code(t) \in Commands \cup {"None"}
    BY <1>1, <1>2, <1>4 DEF Tables
  <2>2. slot' = [slot EXCEPT ![c] = s]
    BY <1>1
  <2>3. s \in Slot /\ s.code = Code(t) /\ s.by = thr[t].by
    <3> PICK r, code, by : r = slot[c] /\ code = Code(t) /\ by = thr[t].by
      OBVIOUS
    <3>1. r \in Slot /\ code \in Commands \cup {"None"} /\ by \in Nat
      BY <1>2, <2>1
    <3>2. s = [r EXCEPT !.code = code, !.by = by]
      OBVIOUS
    <3> HIDE DEF s
    <3>3. s \in Slot /\ s.code = code /\ s.by = by
      BY <3>1, <3>2 DEF Slot
    <3> QED
      BY <3>3
  <2> HIDE DEF s
  <2> QED
    BY <1>2, <2>1, <2>2, <2>3
<1>6. /\ seen' \in [overwritten : SUBSET Points, reused : SUBSET Clients,
                    timedOut : SUBSET Clients, stale : SUBSET Threads, forced : SUBSET Points,
                    renewed : SUBSET Points]
      /\ seen'.timedOut = seen.timedOut /\ seen.reused \subseteq seen'.reused
      /\ seen'.stale = seen.stale
      /\ slot[c].code # "None" => c \in seen'.reused
  BY <1>1, <1>2 DEF Tables
<1>7. Types'
  BY <1>1, <1>3, <1>5, <1>6 DEF Types, Tables, Wires
<1>8. Copies'
  BY <1>1, <1>3, <1>6, KnowsSame, CopiesKept DEF IInv
<1>9. Client(c)
  BY <1>2 DEF IInv
<1>10. Book(c)'
  <2>1. Book(c)
    BY <1>9 DEF Client
  <2>2. CASE t = Pos(c)
    <3>1. thr[t].by \in 1 .. Len(asked[c]) /\ asked[c][thr[t].by].told = <<>>
      BY <1>1, <2>1, <2>2 DEF Book, Owes
    <3>2. thr'[Pos(c)].pc = "name" /\ thr'[Pos(c)].by = thr[t].by /\ ~Owes(thr'[Pos(c)])
      BY <1>3, <2>2 DEF Owes
    <3>3. \A j \in 1 .. Len(up'[c]) : up'[c][j].by \in 0 .. Len(asked'[c])
      BY <1>1, <2>1 DEF Book
    <3> QED
      BY <1>1, <1>5, <3>1, <3>2, <3>3 DEF Book
  <2>3. CASE t = Dev(c)
    <3>1. thr'[Pos(c)] = thr[Pos(c)] /\ slot'[c].by = NoRequest
      BY <1>2, <1>3, <1>5, <2>3
    <3>2. Owes(thr[Pos(c)]) => thr[Pos(c)].by # NoRequest
      BY <2>1 DEF Book, Owes, NoRequest
    <3> QED
      BY <1>1, <2>1, <3>1, <3>2 DEF Book
  <2> QED
    BY <1>2, <2>2, <2>3
<1>11. ASSUME ~Excused(c)' PROVE Truth(c)'
  <2>1. Truth(c) /\ slot[c].code = "None"
    BY <1>6, <1>9, <1>11 DEF Client, Excused
  <2>2. NoOrder(c) /\ NoAnswer(c)
    <3>1. NoOrder(c)
      BY <2>1 DEF Truth, OneOrder, NoOrder, Commands
    <3>2. NoAnswer(c)
      BY <2>1 DEF Truth, OneReply, NoAnswer, Answer, Commands
    <3> QED
      BY <3>1, <3>2
  <2>3. \A u \in {Pos(c), Dev(c)} : ~Sending(thr[u])
    <3>1. ASSUME NEW u \in {Pos(c), Dev(c)}, Sending(thr[u]) PROVE slot[c].code = Code(u)
      BY <2>1, <3>1 DEF Truth, OneSender
    <3>2. \A u : Code(u) # "None"
      BY DEF Code
    <3> QED
      BY <2>1, <3>1, <3>2
  <2>4. Honest(c)'
    <3>1. thr'[Pos(c)] = thr[Pos(c)] \/ /\ thr'[Pos(c)].pc = "name" /\ thr[Pos(c)].pc = "code"
                                        /\ thr'[Pos(c)].by = thr[Pos(c)].by
      BY <1>1, <1>2, <1>3
    <3> QED
      BY <1>1, <2>1, <3>1 DEF Truth, Honest
  <2>5. NoOrder(c)' /\ NoAnswer(c)'
    BY <1>1, <2>2 DEF NoOrder, NoAnswer
  <2>6. OneSender(c)'
    <3>1. \A u \in {Pos(c), Dev(c)} : Sending(thr'[u]) => u = t
      BY <1>2, <1>3, <2>3
    <3> QED
      BY <1>2, <1>3, <1>4, <1>5, <2>5, <3>1 DEF OneSender
  <2>7. OneOrder(c)' /\ OneReply(c)'
    BY <2>5 DEF OneOrder, OneReply, NoOrder, NoAnswer
  <2> QED
    BY <2>4, <2>6, <2>7 DEF Truth
<1>12. Stays(t, c)
  BY <1>1, <1>2, <1>3, <1>5, <1>6 DEF Stays
<1>13. \A d \in Clients : Client(d)'
  BY <1>10, <1>11, <1>12, StaysOthers DEF Client
<1> QED
  BY <1>7, <1>8, <1>13 DEF IInv

LEMMA SendStep ==
  ASSUME IInv, NEW t \in Threads, Send(t)
  PROVE  IInv'
<1> PICK c : c = t[1]
  OBVIOUS
<1> DEFINE msg == [code |-> Code(t), f |-> thr[t].f, by |-> thr[t].by,
                   dose |-> IF thr[t].copy # NoRecord THEN thr[t].copy.dose ELSE 0]
           pc == IF thr[t].copy # NoRecord THEN "update" ELSE "params"
<1>1. /\ thr[t].pc = "send" /\ Goto(t, pc) /\ Sends(c, msg)
      /\ slot' = [slot EXCEPT ![c].old = FALSE]
      /\ UNCHANGED <<fp, down, unsent, pump, stored, asked, left, seen>>
      /\ Types /\ Tables /\ Wires /\ Placed /\ Knows(t) /\ Proper(t, thr[t]) /\ thr[t] \in Thread
  BY DEF Send, IInv, Types, Placed, Copies
<1>2. /\ t \in {Pos(c), Dev(c)} /\ Pos(c) # Dev(c) /\ c \in Clients
      /\ t = Dev(c) => thr[t].by = NoRequest
      /\ thr[t].cmd # "open" /\ thr[t].by \in Nat /\ thr[t].f \in Points
      /\ thr[t].copy # NoRecord => thr[t].copy \in Record
  <2>1. /\ c \in Clients /\ t \in {Pos(c), Dev(c)} /\ Pos(c) # Dev(c) /\ t[2] \in {"pos", "dev"}
        /\ Pos(c) \in Threads /\ Dev(c) \in Threads /\ Dev(c)[2] = "dev"
    BY ThreadsAre
  <2>2. /\ t = Dev(c) => thr[t].by = NoRequest
        /\ thr[t].cmd # "open" /\ thr[t].by \in Nat /\ thr[t].f \in Points
        /\ thr[t].copy # NoRecord => thr[t].copy \in Record
    BY <1>1, <2>1 DEF Proper, Thread, Working
  <2> QED
    BY <2>1, <2>2
<1>3. /\ msg \in Message /\ msg.code = Code(t) /\ msg.by = thr[t].by /\ Code(t) \in Commands
  <2>1. Code(t) \in Commands
    BY DEF Code, Commands
  <2>2. (IF thr[t].copy # NoRecord THEN thr[t].copy.dose ELSE 0) \in Doses \cup {0}
    BY <1>2 DEF Record
  <2> QED
    BY <1>2, <2>1, <2>2 DEF Message, Codes
<1>4. pc \in {"update", "params"} /\ (pc = "update" => thr[t].copy \in Record)
  BY <1>2
<1> HIDE DEF msg, pc
<1>5. /\ Placed' /\ \A u \in Threads \ {t} : thr'[u] = thr[u]
      /\ thr'[t].pc = pc /\ thr'[t].cmd = thr[t].cmd /\ thr'[t].by = thr[t].by
      /\ thr'[t].f = thr[t].f /\ thr'[t].copy = thr[t].copy /\ thr'[t].own = thr[t].own
  BY <1>1, <1>2, <1>4, GotoIs DEF Working
<1>6. /\ up' \in [Clients -> Seq(Message)]
      /\ \A d \in Clients : Len(up'[d]) <= MaxFrames
      /\ \A d \in Clients : \A j \in 1 .. Len(up'[d]) :
           up'[d][j].by # NoRequest => up'[d][j].code \in Commands
      /\ \A d \in Clients \ {c} : up'[d] = up[d]
      /\ \A j \in 1 .. Len(up'[c]) :
           \/ j \in 1 .. Len(up[c]) /\ up'[c][j] = up[c][j]
           \/ j = Len(up[c]) + 1 /\ up'[c][j] = msg
  BY <1>1, <1>2, <1>3, SendsIs
<1>7. /\ slot' \in [Clients -> Slot]
      /\ \A d \in Clients : /\ slot'[d].code = slot[d].code /\ slot'[d].by = slot[d].by
                            /\ d # c => slot'[d] = slot[d]
  <2>1. "none" \in Cmds /\ FALSE \in BOOLEAN
    BY DEF Cmds
  <2> QED
    BY <1>1, <1>2, <2>1, SlotIs DEF Tables
<1>8. Types'
  BY <1>1, <1>5, <1>6, <1>7 DEF Types, Tables, Wires
<1>9. Copies'
  BY <1>1, <1>5, KnowsSame, CopiesKept DEF IInv
<1>10. Client(c)
  BY <1>2 DEF IInv
<1>11. Book(c)'
  <2>1. Book(c) /\ Len(asked[c]) \in Nat
    BY <1>1, <1>2, <1>10 DEF Client, Tables
  <2>2. thr[t].by \in 0 .. Len(asked[c])
    BY <1>1, <1>2, <2>1 DEF Book, NoRequest
  <2>3. thr'[Pos(c)] = thr[Pos(c)] \/ /\ thr'[Pos(c)].pc # "idle" /\ thr[Pos(c)].pc # "idle"
                                      /\ thr'[Pos(c)].by = thr[Pos(c)].by /\ ~Owes(thr'[Pos(c)])
    <3>1. CASE t = Pos(c)
      BY <1>1, <1>2, <1>4, <1>5, <3>1 DEF Owes
    <3>2. CASE t = Dev(c)
      BY <1>2, <1>5, <3>2, ThreadsAre
    <3> QED
      BY <1>2, <3>1, <3>2
  <2>4. \A j \in 1 .. Len(up'[c]) : up'[c][j].by \in 0 .. Len(asked[c])
    BY <1>3, <1>6, <2>1, <2>2 DEF Book
  <2> QED
    BY <1>1, <1>2, <1>7, <2>1, <2>3, <2>4 DEF Book
<1>12. ASSUME ~Excused(c)' PROVE Truth(c)'
  <2>1. Truth(c)
    BY <1>1, <1>10, <1>12 DEF Client, Excused
  <2>2. /\ slot[c].code = Code(t) /\ slot[c].by = thr[t].by /\ NoOrder(c) /\ NoAnswer(c)
        /\ \A u \in {Pos(c), Dev(c)} \ {t} : ~Sending(thr[u])
    BY <1>1, <1>2, <2>1 DEF Truth, OneSender, Sending
  <2>3. \A u \in {Pos(c), Dev(c)} : ~Sending(thr'[u])
    BY <1>2, <1>4, <1>5, <2>2, ThreadsAre DEF Sending
  <2>4. Honest(c)'
    <3>1. thr'[Pos(c)] = thr[Pos(c)] \/ (thr'[Pos(c)].pc \in {"update", "params"}
                                          /\ thr'[Pos(c)].cmd # "open")
      BY <1>2, <1>4, <1>5, ThreadsAre
    <3> QED
      BY <1>1, <2>1, <3>1 DEF Truth, Honest
  <2>5. slot[c].by # NoRequest => ~asked[c][slot[c].by].done
    <3>1. thr[Pos(c)].pc = "send" => ~asked[c][thr[Pos(c)].by].done
      BY <2>1 DEF Truth, Honest
    <3>2. CASE t = Pos(c)
      BY <1>1, <2>2, <3>1, <3>2
    <3>3. CASE t = Dev(c)
      BY <1>2, <2>2, <3>3
    <3> QED
      BY <1>2, <3>2, <3>3
  <2>6. \A j \in 1 .. Len(up'[c]) : up'[c][j].code \in Commands =>
          j = Len(up[c]) + 1 /\ up'[c][j].code = Code(t) /\ up'[c][j].by = thr[t].by
    BY <1>3, <1>6, <2>2 DEF NoOrder
  <2>7. NoAnswer(c)'
    BY <1>1, <2>2 DEF NoAnswer
  <2>8. OneOrder(c)'
    BY <1>1, <1>2, <1>7, <2>2, <2>5, <2>6, <2>7 DEF OneOrder
  <2>9. OneReply(c)' /\ OneSender(c)'
    BY <2>3, <2>7 DEF OneReply, OneSender, NoAnswer
  <2> QED
    BY <2>4, <2>8, <2>9 DEF Truth
<1>13. Stays(t, c)
  BY <1>1, <1>2, <1>5, <1>6, <1>7 DEF Stays
<1>14. \A d \in Clients : Client(d)'
  BY <1>11, <1>12, <1>13, StaysOthers DEF Client
<1> QED
  BY <1>8, <1>9, <1>14 DEF IInv

-----------------------------------------------------------------------------
(* The requests of a point of sale.                                        *)

\* The reader of client c has taken request req: it has answered it, or is about it.
LEMMA Asking ==
  ASSUME IInv, NEW c \in Clients, NEW req \in Request, Grows(asked', c, req),
         thr[Pos(c)].pc = "idle", UNCHANGED <<slot, down, pump>>,
         \A d \in Clients \ {c} : up'[d] = up[d],
         \A j \in 1 .. Len(up'[c]) :
           \/ j \in 1 .. Len(up[c]) /\ up'[c][j] = up[c][j]
           \/ up'[c][j].by = NoRequest /\ up'[c][j].code \notin Commands,
         seen'.timedOut = seen.timedOut, seen'.reused = seen.reused,
         \A u \in Threads \ {Pos(c)} : thr'[u] = thr[u],
         req.told = <<"ack">> => req.done, req.told = <<"rejected">> => ~req.done,
         \/ thr'[Pos(c)].pc = "idle"
         \/ /\ thr'[Pos(c)].pc \in {"authorize", "reset", "update"}
            /\ thr'[Pos(c)].by = Len(asked[c]) + 1 /\ req.told = <<>>
            /\ thr'[Pos(c)].pc \in {"authorize", "reset"} => ~req.done
            /\ thr'[Pos(c)].pc = "update" /\ thr'[Pos(c)].cmd = "open" => req.done
  PROVE  \A d \in Clients : Client(d)'
<1>1. /\ Client(c) /\ Book(c) /\ Len(asked[c]) \in Nat
      /\ Pos(c) \in Threads /\ Pos(c)[1] = c /\ Pos(c) # Dev(c) /\ Dev(c) \in Threads
  BY ThreadsAre DEF IInv, Types, Tables, Client
<1>2. /\ Len(asked'[c]) = Len(asked[c]) + 1
      /\ \A i \in 1 .. Len(asked[c]) : i \in 1 .. Len(asked'[c]) /\ asked'[c][i] = asked[c][i]
      /\ Len(asked[c]) + 1 \in 1 .. Len(asked'[c])
      /\ \A i \in 1 .. Len(asked'[c]) : i \in 1 .. Len(asked[c]) \/ i = Len(asked[c]) + 1
      /\ asked'[c][Len(asked[c]) + 1] = req
  <2>1. /\ Len(asked'[c]) = Len(asked[c]) + 1
        /\ \A i \in 1 .. Len(asked[c]) : asked'[c][i] = asked[c][i]
        /\ asked'[c][Len(asked[c]) + 1] = req
    BY DEF Grows
  <2> QED
    BY <1>1, <2>1
<1>3. slot[c].by # NoRequest => /\ slot[c].by \in 1 .. Len(asked[c])
                                /\ asked[c][slot[c].by].told = <<>>
  BY <1>1 DEF Book
<1>4. Book(c)'
  <2>1. slot[c].by # Len(asked[c]) + 1
    BY <1>1, <1>3 DEF NoRequest
  <2>2. \A j \in 1 .. Len(up'[c]) : up'[c][j].by \in 0 .. Len(asked'[c])
    <3>1. \A j \in 1 .. Len(up[c]) : up[c][j].by \in 0 .. Len(asked[c])
      BY <1>1 DEF Book
    <3> QED
      BY <1>1, <1>2, <3>1 DEF NoRequest
  <2>3. thr'[Pos(c)].pc # "idle" => thr'[Pos(c)].by \in 1 .. Len(asked'[c])
    BY <1>2
  <2>4. Owes(thr'[Pos(c)]) => /\ asked'[c][thr'[Pos(c)].by].told = <<>>
                              /\ slot'[c].by # thr'[Pos(c)].by
    BY <1>2, <2>1 DEF Owes
  <2> QED
    BY <1>2, <1>3, <2>2, <2>3, <2>4 DEF Book
<1>5. ASSUME ~Excused(c)' PROVE Truth(c)'
  <2>1. Truth(c)
    BY <1>1, <1>5 DEF Client, Excused
  <2>2. Honest(c)'
    <3>1. \A i \in 1 .. Len(asked'[c]) :
            /\ asked'[c][i].told = <<"ack">> => asked'[c][i].done
            /\ asked'[c][i].told = <<"rejected">> => ~asked'[c][i].done
      BY <1>2, <2>1 DEF Truth, Honest
    <3>2. LET p == thr'[Pos(c)] IN
          /\ p.pc \in {"authorize", "reset", "code", "name", "send"} => ~asked'[c][p.by].done
          /\ p.pc = "update" /\ p.cmd = "open" => asked'[c][p.by].done
      BY <1>2
    <3>3. ASSUME NEW f \in Points, pump'[f].by # <<>>, pump'[f].by[1] = c,
                 pump'[f].by[2] # NoRequest
          PROVE  pump'[f].by[2] \in 1 .. Len(asked'[c]) /\ asked'[c][pump'[f].by[2]].done
      <4>1. pump[f].by[2] \in 1 .. Len(asked[c]) /\ asked[c][pump[f].by[2]].done
        BY <2>1, <3>3 DEF Truth, Honest
      <4> QED
        BY <1>2, <4>1
    <3> QED
      BY <3>1, <3>2, <3>3 DEF Honest
  <2>3. slot[c].by # NoRequest => asked'[c][slot[c].by].done = asked[c][slot[c].by].done
    BY <1>2, <1>3
  <2>4. NoAnswer(c) => NoAnswer(c)'
    BY DEF NoAnswer
  <2>5. NoOrder(c) => NoOrder(c)'
    BY DEF NoOrder
  <2>6. OneOrder(c)'
    BY <2>1, <2>3, <2>4 DEF Truth, OneOrder
  <2>7. OneReply(c)'
    BY <2>1, <2>3 DEF Truth, OneReply
  <2>8. OneSender(c)'
    <3>1. ~Sending(thr'[Pos(c)]) /\ thr'[Dev(c)] = thr[Dev(c)]
      BY <1>1 DEF Sending
    <3> QED
      BY <2>1, <2>4, <2>5, <3>1 DEF Truth, OneSender, Code
  <2> QED
    BY <2>2, <2>6, <2>7, <2>8 DEF Truth
<1>6. Client(c)'
  BY <1>4, <1>5 DEF Client
<1>7. Stays(Pos(c), c)
  <2>1. \A d \in Clients \ {c} : asked'[d] = asked[d]
    BY DEF Grows
  <2>2. seen.timedOut \subseteq seen'.timedOut /\ seen.reused \subseteq seen'.reused
    OBVIOUS
  <2> QED
    BY <1>1, <2>1, <2>2 DEF Stays
<1> QED
  BY <1>6, <1>7, StaysOthers

\* The reader of client c sets out on request number by.
SetsOut(c, pc, kind, f, by, copy, msg) ==
    thr' = [thr EXCEPT ![Pos(c)] = [Idle EXCEPT !.pc = pc, !.cmd = kind, !.f = f, !.by = by,
                                                !.copy = copy, !.msg = msg]]

LEMMA StartIs ==
  ASSUME NEW c, NEW pc, NEW kind, NEW f, NEW copy, Start(c, pc, kind, f, copy)
  PROVE  SetsOut(c, pc, kind, f, Len(asked[c]) + 1, copy, NoRecord)
<1> PICK by : by = Len(asked[c]) + 1
  OBVIOUS
<1> DEFINE p == [Idle EXCEPT !.pc = pc, !.cmd = kind, !.f = f, !.by = by, !.copy = copy]
<1>1. /\ p \in [pc : {pc}, cmd : {kind}, by : {by}, f : {f}, copy : {copy}, own : {NoRecord},
               msg : {NoRecord}]
  BY DEF Idle
<1>2. thr' = [thr EXCEPT ![Pos(c)] = p]
  BY DEF Start
<1> HIDE DEF p
<1>3. [p EXCEPT !.msg = NoRecord] = p
  BY <1>1
<1>4. thr' = [thr EXCEPT ![Pos(c)] = [p EXCEPT !.msg = NoRecord]]
  BY <1>2, <1>3
<1> QED
  BY <1>4 DEF SetsOut, p

\* A request that is answered at once.
LEMMA AnsweredIs ==
  ASSUME IInv, NEW c \in Clients, NEW kind, NEW ans \in {"ack", "rejected"},
         Answered(c, kind, ans), UNCHANGED <<slot, down, unsent, pump>>, Wires',
         \A d \in Clients \ {c} : up'[d] = up[d],
         \A j \in 1 .. Len(up'[c]) :
           \/ j \in 1 .. Len(up[c]) /\ up'[c][j] = up[c][j]
           \/ up'[c][j].by = NoRequest /\ up'[c][j].code \notin Commands,
         fp' \in [Points -> Record],
         seen' \in [overwritten : SUBSET Points, reused : SUBSET Clients,
                   timedOut : SUBSET Clients, stale : SUBSET Threads, forced : SUBSET Points,
                   renewed : SUBSET Points],
         seen'.timedOut = seen.timedOut, seen'.reused = seen.reused
  PROVE  Types' /\ thr' = thr /\ \A d \in Clients : Client(d)'
<1> PICK req : req = [told |-> <<ans>>, done |-> ans = "ack"]
  OBVIOUS
<1>1. thr[Pos(c)].pc = "idle" /\ thr' = thr /\ asked' = [asked EXCEPT ![c] = Append(@, req)]
  BY DEF Answered
<1>2. /\ req \in Request
      /\ req.told = <<"ack">> => req.done
      /\ req.told = <<"rejected">> => ~req.done
  <2>1. <<"ack">> # <<"rejected">>
    OBVIOUS
  <2> QED
    BY <2>1 DEF Request
<1>3. Tables /\ Wires /\ Placed
  BY DEF IInv, Types
<1>4. Grows(asked', c, req)
  BY <1>1, <1>2, <1>3, GrowsIs DEF Tables
<1>5. \A d \in Clients : Client(d)'
  BY <1>1, <1>2, <1>4, Asking
<1>6. Types'
  BY <1>1, <1>3, <1>4 DEF Types, Tables, Placed, Grows
<1> QED
  BY <1>1, <1>5, <1>6

\* A request that the reader sets out on.
Fit(pc, kind, copy, msg) ==
    /\ pc \in {"authorize", "reset", "update"} /\ kind \in Cmds \cup {"open"}
    /\ copy \in Record \cup {NoRecord} /\ msg \in ClearNote \cup {NoRecord}
    /\ pc # "reset" => copy \in Record
    /\ kind = "open" => pc = "update"

LEMMA AsksIs ==
  ASSUME IInv, NEW c \in Clients, NEW f \in Points, NEW kind, NEW pc, NEW copy, NEW msg,
         Fit(pc, kind, copy, msg), Asks(c, kind), SetsOut(c, pc, kind, f, Len(asked[c]) + 1, copy, msg),
         UNCHANGED <<slot, up, down, unsent, pump>>, fp' \in [Points -> Record],
         seen' \in [overwritten : SUBSET Points, reused : SUBSET Clients,
                   timedOut : SUBSET Clients, stale : SUBSET Threads, forced : SUBSET Points,
                   renewed : SUBSET Points],
         seen'.timedOut = seen.timedOut, seen'.reused = seen.reused
  PROVE  /\ Types' /\ \A d \in Clients : Client(d)'
         /\ \A u \in Threads \ {Pos(c)} : thr'[u] = thr[u]
         /\ thr'[Pos(c)].f = f /\ thr'[Pos(c)].copy = copy /\ thr'[Pos(c)].own = NoRecord
<1> PICK by : by = Len(asked[c]) + 1
  OBVIOUS
<1> PICK b \in BOOLEAN : b = (kind = "open")
  OBVIOUS
<1> PICK req : req = [told |-> <<>>, done |-> b]
  OBVIOUS
<1>1. thr[Pos(c)].pc = "idle" /\ asked' = [asked EXCEPT ![c] = Append(@, req)]
  BY DEF Asks
<1>2. Tables /\ Wires /\ Placed
  BY DEF IInv, Types
<1>3. /\ req \in Request /\ req.told = <<>> /\ (req.done <=> kind = "open")
      /\ <<>> # <<"ack">> /\ <<>> # <<"rejected">>
  BY DEF Request
<1>4. Grows(asked', c, req)
  BY <1>1, <1>2, <1>3, GrowsIs DEF Tables
<1>5. /\ Placed' /\ \A u \in Threads \ {Pos(c)} : thr'[u] = thr[u]
      /\ thr'[Pos(c)].pc = pc /\ thr'[Pos(c)].cmd = kind /\ thr'[Pos(c)].f = f
      /\ thr'[Pos(c)].by = by /\ thr'[Pos(c)].copy = copy /\ thr'[Pos(c)].own = NoRecord
  <2> DEFINE p == [Idle EXCEPT !.pc = pc, !.cmd = kind, !.f = f, !.by = by, !.copy = copy,
                               !.msg = msg]
  <2>1. /\ p \in Thread /\ p.pc = pc /\ p.cmd = kind /\ p.by = by
        /\ p.f = f /\ p.copy = copy /\ p.own = NoRecord /\ p.msg = msg
    <3>1. by \in Nat
      BY <1>2 DEF Tables
    <3>2. pc \in Places /\ f \in Points \cup {NoPoint} /\ NoRecord \in Record \cup {NoRecord}
          /\ msg \in ReplyFrame \cup ClearNote \cup {NoRecord}
          /\ copy \in Record \cup {NoRecord} /\ kind \in Cmds \cup {"open"}
      BY DEF Places, Working, Fit
    <3> QED
      BY <3>1, <3>2 DEF Idle, Thread
  <2>2. thr' = [thr EXCEPT ![Pos(c)] = p]
    BY DEF SetsOut
  <2> HIDE DEF p
  <2>3. Pos(c) \in Threads /\ Pos(c)[2] = "pos"
    BY ThreadsAre
  <2>4. Proper(Pos(c), p)
    BY <2>1, <2>3 DEF Proper, Working, Fit
  <2> QED
    BY <1>2, <2>1, <2>2, <2>3, <2>4, Moved
<1>6. /\ \A d \in Clients \ {c} : up'[d] = up[d]
      /\ \A j \in 1 .. Len(up'[c]) : j \in 1 .. Len(up[c]) /\ up'[c][j] = up[c][j]
  OBVIOUS
<1>7. \A d \in Clients : Client(d)'
  <2>1. /\ pc \in {"authorize", "reset", "update"}
        /\ kind = "open" => pc = "update"
    BY DEF Fit
  <2> QED
    BY <1>1, <1>3, <1>4, <1>5, <1>6, <2>1, Asking
<1>8. Types'
  BY <1>2, <1>4, <1>5 DEF Types, Tables, Wires, Grows
<1> QED
  BY <1>5, <1>7, <1>8

LEMMA AskAuthorizeStep ==
  ASSUME IInv, NEW c \in Clients, AskAuthorize(c)
  PROVE  IInv'
<1> PICK f \in Points, d \in Doses :
      /\ \/ Answered(c, "authorize", "rejected")
         \/ /\ Asks(c, "authorize")
            /\ \E pc \in {"authorize", "update"} :
                 Start(c, pc, "authorize", f,
                       [fp[f] EXCEPT !.preset = TRUE, !.dose = d, !.stopped = FALSE])
      /\ UNCHANGED <<fp, slot, up, down, unsent, pump, stored>>
      /\ seen' \in {seen, [seen EXCEPT !.renewed = @ \cup {f}]}
  BY DEF AskAuthorize
<1> DEFINE copy == [fp[f] EXCEPT !.preset = TRUE, !.dose = d, !.stopped = FALSE]
<1>1. /\ Types /\ Tables /\ Wires /\ Wires' /\ Copies
      /\ UNCHANGED <<fp, slot, up, down, unsent, pump, stored>>
      /\ \A j \in 1 .. Len(up'[c]) : j \in 1 .. Len(up[c]) /\ up'[c][j] = up[c][j]
  BY DEF IInv, Types, Wires
<1>0. /\ seen'.timedOut = seen.timedOut /\ seen'.reused = seen.reused /\ seen'.stale = seen.stale
      /\ seen' \in [overwritten : SUBSET Points, reused : SUBSET Clients,
                    timedOut : SUBSET Clients, stale : SUBSET Threads, forced : SUBSET Points,
                    renewed : SUBSET Points]
  <2> PICK re : re = seen.renewed \cup {f}
    OBVIOUS
  <2>1. re \in SUBSET Points /\ seen' \in {seen, [seen EXCEPT !.renewed = re]}
    BY <1>1 DEF Tables
  <2> QED
    BY <1>1, <2>1 DEF Tables
<1>2. copy \in Record /\ copy.sup = fp[f].sup
  <2> PICK r, a, b : r = fp[f] /\ a = TRUE /\ b = FALSE
    OBVIOUS
  <2>1. r \in Record /\ a \in BOOLEAN /\ b \in BOOLEAN
    BY <1>1 DEF Tables
  <2>2. copy = [r EXCEPT !.preset = a, !.dose = d, !.stopped = b]
    OBVIOUS
  <2> HIDE DEF copy
  <2>3. copy \in Record /\ copy.sup = r.sup
    BY <2>1, <2>2 DEF Record
  <2> QED
    BY <2>3
<1>3. CASE Answered(c, "authorize", "rejected")
  <2>1. Types' /\ thr' = thr /\ \A e \in Clients : Client(e)'
    BY <1>0, <1>1, <1>3, AnsweredIs DEF Tables
  <2>2. Copies'
    BY <1>0, <1>1, <2>1, CopiesStay
  <2> QED
    BY <2>1, <2>2 DEF IInv
<1>4. CASE Asks(c, "authorize") /\ \E pc \in {"authorize", "update"} : Start(c, pc, "authorize", f, copy)
  <2> HIDE DEF copy
  <2>1. PICK pc \in {"authorize", "update"} :
          SetsOut(c, pc, "authorize", f, Len(asked[c]) + 1, copy, NoRecord)
    BY <1>4, StartIs
  <2>2. /\ Types' /\ \A e \in Clients : Client(e)'
        /\ \A u \in Threads \ {Pos(c)} : thr'[u] = thr[u]
        /\ thr'[Pos(c)].f = f /\ thr'[Pos(c)].copy = copy /\ thr'[Pos(c)].own = NoRecord
    <3>1. /\ fp' \in [Points -> Record] /\ seen'.timedOut = seen.timedOut /\ seen'.reused = seen.reused
          /\ seen' \in [overwritten : SUBSET Points, reused : SUBSET Clients,
                        timedOut : SUBSET Clients, stale : SUBSET Threads, forced : SUBSET Points,
                        renewed : SUBSET Points]
          /\ UNCHANGED <<slot, up, down, unsent, pump>>
      BY <1>0, <1>1 DEF Tables
    <3>2. Fit(pc, "authorize", copy, NoRecord) /\ Asks(c, "authorize")
      BY <1>2, <1>4 DEF Fit, Cmds
    <3> QED
      BY <1>2, <2>1, <3>1, <3>2, AsksIs
  <2>3. Copies'
    <3>1. Sales(f)' = SalesOf(copy.sup)
      BY <1>1, <1>2 DEF Sales, SalesOf
    <3>2. Knows(Pos(c))'
      BY <2>2, <3>1 DEF Knows
    <3> QED
      BY <1>0, <1>1, <2>2, <3>2, CopiesKept, ThreadsAre
  <2> QED
    BY <2>2, <2>3 DEF IInv
<1> QED
  BY <1>3, <1>4

LEMMA AskResetStep ==
  ASSUME IInv, NEW c \in Clients, AskReset(c)
  PROVE  IInv'
<1> PICK f \in Points : /\ Asks(c, "reset") /\ Start(c, "reset", "reset", f, NoRecord)
                        /\ UNCHANGED <<fp, slot, up, down, unsent, pump, stored, seen>>
  BY DEF AskReset
<1>1. /\ Tables /\ Copies /\ fp' \in [Points -> Record]
      /\ seen' \in [overwritten : SUBSET Points, reused : SUBSET Clients,
                    timedOut : SUBSET Clients, stale : SUBSET Threads, forced : SUBSET Points,
                    renewed : SUBSET Points]
      /\ seen'.timedOut = seen.timedOut /\ seen'.reused = seen.reused
  BY DEF IInv, Types, Tables
<1>2. SetsOut(c, "reset", "reset", f, Len(asked[c]) + 1, NoRecord, NoRecord)
  BY StartIs
<1>3. Fit("reset", "reset", NoRecord, NoRecord)
  BY DEF Fit, Cmds
<1>4. /\ Types' /\ \A d \in Clients : Client(d)'
      /\ \A u \in Threads \ {Pos(c)} : thr'[u] = thr[u]
      /\ thr'[Pos(c)].copy = NoRecord /\ thr'[Pos(c)].own = NoRecord
  BY <1>1, <1>2, <1>3, AsksIs
<1>5. Copies'
  BY <1>1, <1>4, KnowsNothing, CopiesKept, ThreadsAre
<1> QED
  BY <1>4, <1>5 DEF IInv

LEMMA AskOpenStep ==
  ASSUME IInv, NEW c \in Clients, AskOpen(c)
  PROVE  IInv'
<1> PICK f \in Points :
      /\ Asks(c, "open") /\ Start(c, "update", "open", f, [fp[f] EXCEPT !.closed = FALSE])
      /\ UNCHANGED <<fp, slot, up, down, unsent, pump, stored, seen>>
  BY DEF AskOpen
<1> DEFINE copy == [fp[f] EXCEPT !.closed = FALSE]
<1>1. /\ Tables /\ Copies /\ fp' \in [Points -> Record]
      /\ seen' \in [overwritten : SUBSET Points, reused : SUBSET Clients,
                    timedOut : SUBSET Clients, stale : SUBSET Threads, forced : SUBSET Points,
                    renewed : SUBSET Points]
      /\ seen'.timedOut = seen.timedOut /\ seen'.reused = seen.reused
  BY DEF IInv, Types, Tables
<1>2. copy \in Record /\ copy.sup = fp[f].sup
  <2> PICK r, b : r = fp[f] /\ b = FALSE
    OBVIOUS
  <2>1. r \in Record /\ b \in BOOLEAN
    BY <1>1 DEF Tables
  <2>2. copy = [r EXCEPT !.closed = b]
    OBVIOUS
  <2> HIDE DEF copy
  <2>3. copy \in Record /\ copy.sup = r.sup
    BY <2>1, <2>2 DEF Record
  <2> QED
    BY <2>3
<1>3. SetsOut(c, "update", "open", f, Len(asked[c]) + 1, copy, NoRecord)
  BY StartIs
<1> HIDE DEF copy
<1>4. Fit("update", "open", copy, NoRecord)
  BY <1>2 DEF Fit
<1>5. /\ Types' /\ \A d \in Clients : Client(d)'
      /\ \A u \in Threads \ {Pos(c)} : thr'[u] = thr[u]
      /\ thr'[Pos(c)].f = f /\ thr'[Pos(c)].copy = copy /\ thr'[Pos(c)].own = NoRecord
  BY <1>1, <1>2, <1>3, <1>4, AsksIs
<1>6. Copies'
  <2>1. Sales(f)' = SalesOf(copy.sup)
    BY <1>2 DEF Sales, SalesOf
  <2>2. Knows(Pos(c))'
    BY <1>5, <2>1 DEF Knows
  <2> QED
    BY <1>1, <1>5, <2>2, CopiesKept, ThreadsAre
<1> QED
  BY <1>5, <1>6 DEF IInv

LEMMA AskClearStep ==
  ASSUME IInv, NEW c \in Clients, AskClear(c)
  PROVE  IInv'
<1> PICK f \in Points : \E n \in {fp[f].sup[i].no : i \in 1 .. Len(fp[f].sup)} :
      /\ Asks(c, "clear")
      /\ thr' = [thr EXCEPT ![Pos(c)] = [Idle EXCEPT !.pc = "reset", !.cmd = "clear",
                  !.f = f, !.by = Len(asked[c]) + 1, !.msg = [kind |-> "clear", no |-> n]]]
      /\ InPlace(f, Pos(c), [fp[f] EXCEPT !.sup = Without(@, n % ByteMod)])
      /\ UNCHANGED <<slot, up, down, unsent, pump, stored>>
  BY DEF AskClear
<1> PICK n \in {fp[f].sup[i].no : i \in 1 .. Len(fp[f].sup)} :
      /\ Asks(c, "clear")
      /\ thr' = [thr EXCEPT ![Pos(c)] = [Idle EXCEPT !.pc = "reset", !.cmd = "clear",
                  !.f = f, !.by = Len(asked[c]) + 1, !.msg = [kind |-> "clear", no |-> n]]]
      /\ InPlace(f, Pos(c), [fp[f] EXCEPT !.sup = Without(@, n % ByteMod)])
      /\ UNCHANGED <<slot, up, down, unsent, pump, stored>>
  OBVIOUS
<1> PICK msg : msg = [kind |-> "clear", no |-> n]
  OBVIOUS
<1> DEFINE rec == [fp[f] EXCEPT !.sup = Without(fp[f].sup, n % ByteMod)]
<1>1. Tables /\ Copies /\ Placed /\ Pos(c) \in Threads
  BY ThreadsAre DEF IInv, Types
<1>2. n \in Nat /\ n % ByteMod \in Nat /\ fp[f].sup \in Seq(Sale)
  <2>1. fp[f].sup \in Seq(Sale)
    BY <1>1 DEF Tables, Record
  <2>2. n \in Nat
    <3>1. PICK i \in 1 .. Len(fp[f].sup) : n = fp[f].sup[i].no
      OBVIOUS
    <3>2. fp[f].sup[i] \in Sale
      BY <2>1
    <3>3. fp[f].sup[i].no \in 0 .. SeqLimit - 1
      BY <3>2 DEF Sale
    <3> QED
      BY <3>1, <3>3
  <2> QED
    BY <2>1, <2>2, ConstantsAssumption
<1>3. rec \in Record
  <2> PICK r, s : r = fp[f] /\ s = Without(fp[f].sup, n % ByteMod)
    OBVIOUS
  <2>1. r \in Record /\ s \in Seq(Sale)
    BY <1>1, <1>2, WithoutType DEF Tables
  <2>2. rec = [r EXCEPT !.sup = s]
    OBVIOUS
  <2> HIDE DEF rec
  <2> QED
    BY <2>1, <2>2 DEF Record
<1>4. InPlace(f, Pos(c), rec)
  OBVIOUS
<1> HIDE DEF rec
<1>5. /\ fp' \in [Points -> Record]
      /\ \A g \in Points \ {f} : fp'[g] = fp[g]
      /\ seen' \in [overwritten : SUBSET Points, reused : SUBSET Clients,
                    timedOut : SUBSET Clients, stale : SUBSET Threads, forced : SUBSET Points,
                    renewed : SUBSET Points]
      /\ seen'.timedOut = seen.timedOut /\ seen'.reused = seen.reused
      /\ seen.stale \cup Holders(f, Pos(c)) \subseteq seen'.stale
  BY <1>1, <1>3, <1>4, InPlaceIs
<1>6. SetsOut(c, "reset", "clear", f, Len(asked[c]) + 1, NoRecord, msg)
  <2> PICK by : by = Len(asked[c]) + 1
    OBVIOUS
  <2> DEFINE p == [Idle EXCEPT !.pc = "reset", !.cmd = "clear", !.f = f, !.by = by]
  <2>1. p \in [pc : {"reset"}, cmd : {"clear"}, by : {by}, f : {f}, copy : {NoRecord},
               own : {NoRecord}, msg : {NoRecord}]
    BY DEF Idle
  <2>2. thr' = [thr EXCEPT ![Pos(c)] = [p EXCEPT !.msg = msg]]
    OBVIOUS
  <2> HIDE DEF p
  <2>3. [p EXCEPT !.copy = NoRecord] = p
    BY <2>1
  <2>4. thr' = [thr EXCEPT ![Pos(c)] = [[p EXCEPT !.copy = NoRecord] EXCEPT !.msg = msg]]
    BY <2>2, <2>3
  <2> QED
    BY <2>4 DEF SetsOut, p
<1>7. Fit("reset", "clear", NoRecord, msg)
  BY <1>2 DEF Fit, Cmds, ClearNote
<1>8. /\ Types' /\ \A d \in Clients : Client(d)'
      /\ \A u \in Threads \ {Pos(c)} : thr'[u] = thr[u]
      /\ thr'[Pos(c)].copy = NoRecord /\ thr'[Pos(c)].own = NoRecord
  BY <1>5, <1>6, <1>7, AsksIs
<1>9. Copies'
  <2>1. Knows(Pos(c))'
    BY <1>1, <1>8, KnowsNothing
  <2> QED
    BY <1>1, <1>5, <1>8, <2>1, CopiesStep DEF Tables
<1> QED
  BY <1>8, <1>9 DEF IInv

LEMMA AskCloseStep ==
  ASSUME IInv, NEW c \in Clients, AskClose(c)
  PROVE  IInv'
<1> PICK f \in Points :
      /\ Answered(c, "close", "ack")
      /\ InPlace(f, Pos(c), [fp[f] EXCEPT !.closed = TRUE])
      /\ UNCHANGED <<slot, up, down, unsent, pump, stored>>
  BY DEF AskClose
<1> DEFINE rec == [fp[f] EXCEPT !.closed = TRUE]
<1>1. Tables /\ Copies /\ Placed /\ Pos(c) \in Threads /\ Wires /\ Wires'
  BY ThreadsAre DEF IInv, Types, Wires
<1>2. rec \in Record /\ rec.sup = fp[f].sup
  <2> PICK r, b : r = fp[f] /\ b = TRUE
    OBVIOUS
  <2>1. r \in Record /\ b \in BOOLEAN
    BY <1>1 DEF Tables
  <2>2. rec = [r EXCEPT !.closed = b]
    OBVIOUS
  <2> HIDE DEF rec
  <2>3. rec \in Record /\ rec.sup = r.sup
    BY <2>1, <2>2 DEF Record
  <2> QED
    BY <2>3
<1>3. InPlace(f, Pos(c), rec)
  OBVIOUS
<1> HIDE DEF rec
<1>4. /\ fp' \in [Points -> Record]
      /\ \A g \in Points \ {f} : fp'[g] = fp[g]
      /\ seen' \in [overwritten : SUBSET Points, reused : SUBSET Clients,
                    timedOut : SUBSET Clients, stale : SUBSET Threads, forced : SUBSET Points,
                    renewed : SUBSET Points]
      /\ seen'.timedOut = seen.timedOut /\ seen'.reused = seen.reused
      /\ seen.stale \cup Holders(f, Pos(c)) \subseteq seen'.stale
  BY <1>1, <1>2, <1>3, InPlaceIs
<1>5. Types' /\ thr' = thr /\ \A d \in Clients : Client(d)'
  BY <1>1, <1>4, AnsweredIs
<1>6. Copies'
  <2>1. Knows(Pos(c))'
    <3>1. thr[Pos(c)] = Idle
      BY <1>1 DEF Answered, Placed, Proper
    <3> QED
      BY <1>1, <1>5, <3>1, KnowsNothing DEF Idle
  <2> QED
    BY <1>1, <1>4, <1>5, <2>1, CopiesStep DEF Tables
<1> QED
  BY <1>5, <1>6 DEF IInv

\* The emergency stop of a point, and its end.
LEMMA PassesStep ==
  ASSUME IInv, NEW c \in Clients, NEW kind, NEW code \in {"Suspend", "Resume"},
         NEW f \in Points, NEW rec \in Record,
         Answered(c, kind, "ack"), Passes(c, code, f, rec),
         UNCHANGED <<slot, down, unsent, pump, stored>>
  PROVE  IInv'
<1>1. Tables /\ Copies /\ Placed /\ Pos(c) \in Threads /\ Wires
  BY ThreadsAre DEF IInv, Types
<1>2. Knows(Pos(c))' /\ thr' = thr
  <2>1. thr' = thr /\ thr[Pos(c)] = Idle
    BY <1>1 DEF Answered, Placed, Proper
  <2> QED
    BY <1>1, <2>1, KnowsNothing DEF Idle
<1>3. CASE ~stored[c]
  <2>1. UNCHANGED <<up, fp, seen>>
    BY <1>3 DEF Passes
  <2>2. /\ Wires' /\ fp' \in [Points -> Record]
        /\ seen' \in [overwritten : SUBSET Points, reused : SUBSET Clients,
                      timedOut : SUBSET Clients, stale : SUBSET Threads, forced : SUBSET Points,
                      renewed : SUBSET Points]
    BY <1>1, <2>1 DEF Tables, Wires
  <2>3. Types' /\ \A d \in Clients : Client(d)'
    BY <2>1, <2>2, AnsweredIs
  <2>4. Copies'
    BY <1>1, <1>2, <2>1, CopiesStay
  <2> QED
    BY <2>3, <2>4 DEF IInv
<1>4. CASE stored[c]
  <2> PICK msg : msg = [code |-> code, f |-> f, by |-> NoRequest, dose |-> 0]
    OBVIOUS
  <2>1. /\ Sends(c, msg) /\ fp' = [fp EXCEPT ![f] = rec]
        /\ seen' = [seen EXCEPT !.stale = @ \cup Holders(f, Pos(c)), !.forced = @ \cup {f}]
    BY <1>4 DEF Passes
  <2>2. msg \in Message /\ msg.by = NoRequest /\ msg.code \notin Commands
    BY DEF Message, Codes, Commands, NoRequest
  <2>3. /\ up' \in [Clients -> Seq(Message)]
        /\ \A d \in Clients : Len(up'[d]) <= MaxFrames
        /\ \A d \in Clients : \A j \in 1 .. Len(up'[d]) :
             up'[d][j].by # NoRequest => up'[d][j].code \in Commands
        /\ \A d \in Clients \ {c} : up'[d] = up[d]
        /\ \A j \in 1 .. Len(up'[c]) :
             \/ j \in 1 .. Len(up[c]) /\ up'[c][j] = up[c][j]
             \/ up'[c][j].by = NoRequest /\ up'[c][j].code \notin Commands
    BY <1>1, <2>1, <2>2, SendsIs
  <2>4. Wires'
    BY <1>1, <2>3 DEF Wires
  <2>5. /\ fp' \in [Points -> Record]
        /\ \A g \in Points \ {f} : fp'[g] = fp[g]
    BY <1>1, <2>1 DEF Tables
  <2>6. /\ seen' \in [overwritten : SUBSET Points, reused : SUBSET Clients,
                      timedOut : SUBSET Clients, stale : SUBSET Threads, forced : SUBSET Points,
                      renewed : SUBSET Points]
        /\ seen'.timedOut = seen.timedOut /\ seen'.reused = seen.reused
        /\ seen.stale \cup Holders(f, Pos(c)) \subseteq seen'.stale
    <3> PICK st, fo : st = seen.stale \cup Holders(f, Pos(c)) /\ fo = seen.forced \cup {f}
      OBVIOUS
    <3>1. st \subseteq Threads /\ fo \subseteq Points
      BY <1>1 DEF Tables, Holders
    <3>2. seen' = [seen EXCEPT !.stale = st, !.forced = fo]
      BY <2>1
    <3>3. /\ seen' \in [overwritten : SUBSET Points, reused : SUBSET Clients,
                        timedOut : SUBSET Clients, stale : SUBSET Threads, forced : SUBSET Points,
                        renewed : SUBSET Points]
          /\ seen'.timedOut = seen.timedOut /\ seen'.reused = seen.reused /\ seen'.stale = st
      BY <1>1, <3>1, <3>2 DEF Tables
    <3> QED
      BY <3>3
  <2>7. Types' /\ \A d \in Clients : Client(d)'
    BY <2>3, <2>4, <2>5, <2>6, AnsweredIs
  <2>8. Copies'
    BY <1>1, <1>2, <2>5, <2>6, CopiesStep DEF Tables
  <2> QED
    BY <2>7, <2>8 DEF IInv
<1> QED
  BY <1>3, <1>4

LEMMA AskStopStep ==
  ASSUME IInv, NEW c \in Clients, AskStop(c) \/ AskResume(c)
  PROVE  IInv'
<1>1. ASSUME NEW f \in Points, NEW mn \in Mains, NEW b \in BOOLEAN
      PROVE  [fp[f] EXCEPT !.main = mn, !.stopped = b] \in Record
  <2>1. fp[f] \in Record
    BY DEF IInv, Types, Tables
  <2> QED
    BY <2>1 DEF Record
<1>2. CASE AskStop(c)
  <2> PICK f \in Points :
        /\ Answered(c, "estop", "ack")
        /\ Passes(c, "Suspend", f, [fp[f] EXCEPT !.main = "FuellingPaused", !.stopped = TRUE])
        /\ UNCHANGED <<slot, down, unsent, pump, stored>>
    BY <1>2 DEF AskStop
  <2>1. [fp[f] EXCEPT !.main = "FuellingPaused", !.stopped = TRUE] \in Record
    BY <1>1 DEF Mains
  <2> QED
    BY <2>1, PassesStep
<1>3. CASE AskResume(c)
  <2> PICK f \in Points :
        /\ Answered(c, "cancel", "ack")
        /\ Passes(c, "Resume", f, [fp[f] EXCEPT !.main = "Fuelling", !.stopped = FALSE])
        /\ UNCHANGED <<slot, down, unsent, pump, stored>>
    BY <1>3 DEF AskResume
  <2>1. [fp[f] EXCEPT !.main = "Fuelling", !.stopped = FALSE] \in Record
    BY <1>1 DEF Mains
  <2> QED
    BY <2>1, PassesStep
<1> QED
  BY <1>2, <1>3

-----------------------------------------------------------------------------
(* The thread of the link.                                                 *)

\* The first frame is taken from the link of client c.
LEMMA TakenIs ==
  ASSUME Wires, NEW c \in Clients, down[c] # <<>>, down' = [down EXCEPT ![c] = Tail(@)],
         UNCHANGED up
  PROVE  /\ Wires' /\ \A d \in Clients \ {c} : down'[d] = down[d]
         /\ 1 \in 1 .. Len(down[c]) /\ Head(down[c]) = down[c][1] /\ Head(down[c]) \in Frame
         /\ \A j \in 1 .. Len(down'[c]) :
              j + 1 \in 1 .. Len(down[c]) /\ down'[c][j] = down[c][j + 1] /\ j + 1 # 1
<1> PICK q : q = down[c]
  OBVIOUS
<1>1. q \in Seq(Frame) /\ q # <<>> /\ Len(q) <= MaxFrames
  BY DEF Wires
<1>2. /\ Tail(q) \in Seq(Frame) /\ Len(Tail(q)) = Len(q) - 1 /\ Len(q) \in Nat \ {0}
      /\ Head(q) = q[1] /\ Head(q) \in Frame
      /\ \A j \in 1 .. Len(q) - 1 : Tail(q)[j] = q[j + 1]
  BY <1>1
<1>3. down' = [down EXCEPT ![c] = Tail(q)] /\ down \in [Clients -> Seq(Frame)]
  BY DEF Wires
<1>4. /\ down' \in [Clients -> Seq(Frame)] /\ down'[c] = Tail(q)
      /\ \A d \in Clients \ {c} : down'[d] = down[d]
  BY <1>2, <1>3
<1>5. Len(Tail(q)) <= MaxFrames
  BY <1>1, <1>2, ConstantsAssumption
<1>6. Wires'
  BY <1>4, <1>5 DEF Wires
<1>7. \A j \in 1 .. Len(Tail(q)) : j + 1 \in 1 .. Len(q) /\ Tail(q)[j] = q[j + 1] /\ j + 1 # 1
  BY <1>2
<1> QED
  BY <1>2, <1>4, <1>6, <1>7

\* The thread of the link is done with what it was about.
LEMMA DoneIsIdle ==
  ASSUME Placed, NEW c \in Clients, Done(Dev(c))
  PROVE  /\ Placed' /\ thr'[Dev(c)] = Idle
         /\ \A u \in Threads \ {Dev(c)} : thr'[u] = thr[u]
  BY Moved, IdleType, ThreadsAre DEF Done

LEMMA DataStep ==
  ASSUME IInv, NEW c \in Clients, Data(c)
  PROVE  IInv'
<1> PICK t : t = Dev(c)
  OBVIOUS
<1>0. PICK m, rec, does, own :
      /\ m = Heard(Head(down[c])) /\ rec = Counted(fp[m.f], m) /\ does = Calls(rec, m)
      /\ own = [Seen(rec, m) EXCEPT !.grade = m.nozzle]
  OBVIOUS
<1> DEFINE p == [Idle EXCEPT !.f = m.f, !.own = own,
                   !.copy = IF does = "authorize" THEN rec ELSE NoRecord,
                   !.pc = IF does = "authorize" /\ ~rec.grade THEN "update" ELSE does]
<1>1. /\ thr[t].pc = "idle" /\ down[c] # <<>> /\ Head(down[c]).kind = "data"
      /\ thr' = IF "Number" \notin DataTaken THEN thr ELSE [thr EXCEPT ![t] = p]
      /\ down' = [down EXCEPT ![c] = Tail(@)]
      /\ UNCHANGED <<fp, slot, up, unsent, pump, stored, asked, left, seen>>
  BY <1>0 DEF Data
<1>2. /\ Types /\ Tables /\ Wires /\ Placed /\ Copies
      /\ t \in Threads /\ t[1] = c /\ t[2] = "dev" /\ t # Pos(c) /\ thr[t] = Idle
  <2>1. /\ Types /\ Tables /\ Wires /\ Placed /\ Copies
        /\ t \in Threads /\ t[1] = c /\ t[2] = "dev" /\ Pos(c)[2] = "pos"
    BY ThreadsAre DEF IInv, Types
  <2> QED
    BY <1>1, <2>1 DEF Placed, Proper
<1>3. /\ Wires' /\ \A d \in Clients \ {c} : down'[d] = down[d]
      /\ Head(down[c]) \in Frame
      /\ \A j \in 1 .. Len(down'[c]) :
           j + 1 \in 1 .. Len(down[c]) /\ down'[c][j] = down[c][j + 1]
  BY <1>1, <1>2, TakenIs
<1>4. /\ m \in DataFrame /\ m.f \in Points /\ m.nozzle \in BOOLEAN
  <2>1. Head(down[c]) \in DataFrame
    BY <1>1, <1>3 DEF Frame, ReplyFrame
  <2>2. m \in DataFrame
    BY <1>0, <2>1, HeardType
  <2> QED
    BY <2>2 DEF DataFrame
<1>5. /\ rec \in Record /\ rec.sup = fp[m.f].sup /\ does \in {"authorize", "reset", "store"}
      /\ own \in Record /\ SalesOf(rec.sup) \subseteq SalesOf(own.sup)
  <2>1. rec \in Record /\ rec.sup = fp[m.f].sup
    BY <1>0, <1>2, <1>4, CountedType DEF Tables
  <2>2. PICK r : r = Seen(rec, m) /\ own = [r EXCEPT !.grade = m.nozzle]
    BY <1>0
  <2>3. r \in Record /\ SalesOf(rec.sup) \subseteq SalesOf(r.sup)
    BY <1>4, <2>1, <2>2, SeenType
  <2>4. own \in Record /\ own.sup = r.sup
    BY <1>4, <2>2, <2>3 DEF Record
  <2>5. does \in {"authorize", "reset", "store"}
    BY <1>0, CallsType
  <2> QED
    BY <2>1, <2>3, <2>4, <2>5
<1>6. /\ p \in Thread /\ p.by = NoRequest /\ p.cmd = "none" /\ p.f = m.f /\ p.own = own
      /\ p.copy \in {rec, NoRecord} /\ p.msg = NoRecord
      /\ p.pc \in {"authorize", "reset", "store", "update"}
      /\ p.pc \in {"authorize", "update"} => p.copy = rec
  <2> PICK cp, pc : /\ cp = IF does = "authorize" THEN rec ELSE NoRecord
                    /\ pc = IF does = "authorize" /\ ~rec.grade THEN "update" ELSE does
    OBVIOUS
  <2>1. /\ cp \in {rec, NoRecord} /\ pc \in {"authorize", "reset", "store", "update"}
        /\ pc \in {"authorize", "update"} => cp = rec
    BY <1>5
  <2>2. pc \in Places
    BY <2>1 DEF Places, Working
  <2>3. p = [Idle EXCEPT !.f = m.f, !.own = own, !.copy = cp, !.pc = pc]
    OBVIOUS
  <2> HIDE DEF p
  <2>4. p = [pc |-> pc, cmd |-> "none", by |-> NoRequest, f |-> m.f, copy |-> cp, own |-> own,
             msg |-> NoRecord]
    BY <2>3 DEF Idle
  <2>5. "none" \in Cmds \cup {"open"} /\ NoRequest \in Nat
    BY DEF Cmds, NoRequest
  <2>6. p \in Thread
    BY <1>4, <1>5, <2>1, <2>2, <2>4, <2>5 DEF Thread
  <2> QED
    BY <2>1, <2>4, <2>6
<1> HIDE DEF p
<1>7. Proper(t, p)
  BY <1>2, <1>4, <1>5, <1>6 DEF Proper, Working
<1>8. /\ Placed' /\ \A u \in Threads \ {t} : thr'[u] = thr[u]
      /\ thr'[t] \in {thr[t], p}
  BY <1>1, <1>2, <1>6, <1>7, Moved DEF Placed
<1>9. Types'
  BY <1>1, <1>2, <1>3, <1>8 DEF Types, Tables
<1>10. \A d \in Clients : Client(d)'
  <2>1. Stays(t, c)
    BY <1>1, <1>2, <1>3, <1>8 DEF Stays
  <2>2. thr'[t].by = thr[t].by /\ ~Sending(thr'[t])
    BY <1>2, <1>6, <1>8 DEF Idle, Sending
  <2>3. \A j \in 1 .. Len(up'[c]) : j + 0 \in 1 .. Len(up[c]) /\ up'[c][j] = up[c][j + 0]
    BY <1>1, <1>2 DEF Wires
  <2> QED
    BY <1>1, <1>2, <1>3, <2>1, <2>2, <2>3, Moves
<1>11. Copies'
  <2>1. Sales(m.f)' = SalesOf(rec.sup)
    BY <1>1, <1>5 DEF Sales, SalesOf
  <2>3. CASE thr'[t] = p
    <3>1. Knows(t)'
      BY <1>5, <1>6, <2>1, <2>3 DEF Knows
    <3> QED
      BY <1>1, <1>2, <1>8, <3>1, CopiesKept
  <2>2. CASE thr'[t] = thr[t]
    <3>1. Knows(t)'
      BY <1>2, <2>2, KnowsNothing DEF Idle
    <3> QED
      BY <1>1, <1>2, <1>8, <3>1, CopiesKept
  <2> QED
    BY <1>8, <2>2, <2>3
<1> QED
  BY <1>9, <1>10, <1>11 DEF IInv

LEMMA StoreStep ==
  ASSUME IInv, NEW c \in Clients, Store(c)
  PROVE  IInv'
<1> PICK t, f, own : t = Dev(c) /\ f = thr[t].f /\ own = thr[t].own
  OBVIOUS
<1>1. /\ thr[t].pc = "store" /\ WriteBack(f, t, own) /\ Done(Dev(c))
      /\ UNCHANGED <<slot, up, down, unsent, pump, stored, asked, left>>
  BY DEF Store
<1>2. /\ Types /\ Tables /\ Placed /\ Copies /\ t \in Threads /\ t[2] = "dev"
      /\ Proper(t, thr[t])
  BY ThreadsAre DEF IInv, Types, Placed
<1>3. f \in Points /\ own \in Record /\ thr[t].by = NoRequest
  BY <1>1, <1>2 DEF Proper, Working
<1>4. /\ fp' \in [Points -> Record]
      /\ \A g \in Points \ {f} : fp'[g] = fp[g]
      /\ seen' \in [overwritten : SUBSET Points, reused : SUBSET Clients,
                    timedOut : SUBSET Clients, stale : SUBSET Threads, forced : SUBSET Points,
                    renewed : SUBSET Points]
      /\ seen'.timedOut = seen.timedOut /\ seen'.reused = seen.reused
      /\ (seen.stale \ {t}) \cup Holders(f, t) \subseteq seen'.stale
  BY <1>1, <1>2, <1>3, WriteBackIs
<1>5. Placed' /\ thr'[t] = Idle /\ \A u \in Threads \ {t} : thr'[u] = thr[u]
  BY <1>1, <1>2, DoneIsIdle
<1>6. Types'
  BY <1>1, <1>2, <1>4, <1>5 DEF Types, Tables, Wires
<1>7. Copies'
  <2>1. Knows(t)'
    BY <1>2, <1>5, KnowsNothing DEF Idle
  <2> QED
    BY <1>2, <1>3, <1>4, <1>5, <2>1, CopiesStep DEF Tables
<1>8. \A d \in Clients : Client(d)'
  <2>1. thr'[t].by = thr[t].by /\ ~Sending(thr'[t])
    BY <1>3, <1>5 DEF Idle, Sending
  <2> QED
    BY <1>1, <1>2, <1>4, <1>5, <2>1, GoesOn
<1> QED
  BY <1>6, <1>7, <1>8 DEF IInv

\* The slot is cleared, and its request is told ans, or nothing.
Cleared(c, ans) ==
    /\ asked' \in {asked, Told(c, Named(slot[c]), ans)}
    /\ slot' = [slot EXCEPT ![c].code = "None", ![c].by = NoRequest]

LEMMA ClearedIs ==
  ASSUME IInv, NEW c \in Clients, NEW ans \in {"ack", "rejected"}, Cleared(c, ans),
         thr'[Pos(c)] = thr[Pos(c)], UNCHANGED up
  PROVE  /\ asked' \in [Clients -> Seq(Request)] /\ slot' \in [Clients -> Slot] /\ Book(c)'
         /\ slot'[c].code = "None" /\ slot'[c].by = NoRequest
         /\ \A d \in Clients \ {c} : slot'[d] = slot[d] /\ asked'[d] = asked[d]
         /\ Len(asked'[c]) = Len(asked[c])
         /\ \A i \in 1 .. Len(asked[c]) :
              /\ asked'[c][i].done = asked[c][i].done
              /\ \/ asked'[c][i].told = asked[c][i].told
                 \/ asked'[c][i].told = <<ans>> /\ i = slot[c].by /\ i # NoRequest
<1> PICK by : by = Named(slot[c])
  OBVIOUS
<1> PICK req : req = [told |-> <<ans>>, done |-> asked[c][by].done]
  OBVIOUS
<1>1. /\ asked \in [Clients -> Seq(Request)] /\ slot \in [Clients -> Slot] /\ slot[c] \in Slot
      /\ Book(c)
  BY DEF IInv, Types, Tables, Client
<1>2. /\ slot[c].by # NoRequest => /\ slot[c].by \in 1 .. Len(asked[c])
                                   /\ asked[c][slot[c].by].told = <<>>
      /\ by \in {NoRequest, slot[c].by}
      /\ Len(asked[c]) \in Nat
  BY <1>1 DEF Book, Named
<1>3. by \in 0 .. Len(asked[c]) /\ (by # NoRequest => asked[c][by].told = <<>>)
  BY <1>2 DEF NoRequest
<1>4. Becomes(Told(c, by, ans), c, by, req)
  BY <1>1, <1>3, ToldIs
<1>5. /\ slot' \in [Clients -> Slot] /\ slot'[c].code = "None" /\ slot'[c].by = NoRequest
      /\ \A d \in Clients \ {c} : slot'[d] = slot[d]
  <2> PICK r, code, n : r = slot[c] /\ code = "None" /\ n = NoRequest
    OBVIOUS
  <2> DEFINE s == [r EXCEPT !.code = code, !.by = n]
  <2>1. code \in Commands \cup {"None"} /\ n \in Nat
    BY DEF NoRequest
  <2>2. slot' = [slot EXCEPT ![c] = s]
    BY DEF Cleared
  <2>3. s \in Slot /\ s.code = code /\ s.by = n
    BY <1>1, <2>1 DEF Slot
  <2> HIDE DEF s
  <2> QED
    BY <1>1, <2>2, <2>3
<1>6. /\ asked' \in [Clients -> Seq(Request)]
      /\ \A d \in Clients \ {c} : asked'[d] = asked[d]
      /\ Len(asked'[c]) = Len(asked[c])
      /\ \A i \in 1 .. Len(asked[c]) :
           \/ asked'[c][i] = asked[c][i]
           \/ i = by /\ asked'[c][i] = req
  <2>1. asked' = asked \/ asked' = Told(c, by, ans)
    BY DEF Cleared
  <2> QED
    BY <1>1, <1>4, <2>1 DEF Becomes
<1>7. \A i \in 1 .. Len(asked[c]) :
        /\ asked'[c][i].done = asked[c][i].done
        /\ \/ asked'[c][i].told = asked[c][i].told
           \/ asked'[c][i].told = <<ans>> /\ i = slot[c].by /\ i # NoRequest
  BY <1>2, <1>6 DEF NoRequest
<1>8. Book(c)'
  <2>1. thr'[Pos(c)].pc # "idle" => thr'[Pos(c)].by \in 1 .. Len(asked'[c])
    BY <1>1, <1>6 DEF Book
  <2>2. Owes(thr'[Pos(c)]) => /\ asked'[c][thr'[Pos(c)].by].told = <<>>
                              /\ slot'[c].by # thr'[Pos(c)].by
    <3>1. Owes(thr[Pos(c)]) => /\ thr[Pos(c)].by \in 1 .. Len(asked[c])
                               /\ asked[c][thr[Pos(c)].by].told = <<>>
                               /\ thr[Pos(c)].by # slot[c].by
      BY <1>1 DEF Book, Owes
    <3> QED
      BY <1>5, <1>7, <3>1 DEF NoRequest
  <2>3. \A j \in 1 .. Len(up'[c]) : up'[c][j].by \in 0 .. Len(asked'[c])
    BY <1>1, <1>6 DEF Book
  <2> QED
    BY <1>5, <2>1, <2>2, <2>3 DEF Book
<1> QED
  BY <1>5, <1>6, <1>7, <1>8

LEMMA TimeoutStep ==
  ASSUME IInv, NEW c \in Clients, Timeout(c)
  PROVE  IInv'
<1> PICK t : t = Dev(c)
  OBVIOUS
<1> DEFINE p == [Idle EXCEPT !.pc = "forget"]
<1>1. /\ thr[t].pc = "idle"
      /\ asked' = Told(c, Named(slot[c]), "rejected")
      /\ seen' = [seen EXCEPT !.timedOut = @ \cup {c}]
      /\ slot' = [slot EXCEPT ![c].code = "None", ![c].by = NoRequest]
      /\ thr' = [thr EXCEPT ![t] = p]
      /\ UNCHANGED <<fp, up, down, unsent, pump, stored>>
  BY DEF Timeout
<1>2. /\ Types /\ Tables /\ Placed /\ Copies
      /\ t \in Threads /\ t[1] = c /\ t[2] = "dev" /\ Pos(c) \in Threads \ {t}
  BY ThreadsAre DEF IInv, Types
<1>3. /\ p \in Thread /\ Proper(t, p) /\ p.copy = NoRecord /\ p.own = NoRecord
  BY <1>2 DEF Idle, Thread, Places, Working, Cmds, Proper, NoRequest
<1> HIDE DEF p
<1>4. Placed' /\ thr'[t] = p /\ \A u \in Threads \ {t} : thr'[u] = thr[u]
  BY <1>1, <1>2, <1>3, Moved
<1>5. /\ asked' \in [Clients -> Seq(Request)] /\ slot' \in [Clients -> Slot] /\ Book(c)'
      /\ \A d \in Clients \ {c} : slot'[d] = slot[d] /\ asked'[d] = asked[d]
  BY <1>1, <1>2, <1>4, ClearedIs DEF Cleared
<1>6. /\ seen' \in [overwritten : SUBSET Points, reused : SUBSET Clients,
                    timedOut : SUBSET Clients, stale : SUBSET Threads, forced : SUBSET Points,
                    renewed : SUBSET Points]
      /\ seen'.timedOut = seen.timedOut \cup {c} /\ seen'.reused = seen.reused
      /\ seen'.stale = seen.stale
  BY <1>1, <1>2 DEF Tables
<1>7. Types'
  BY <1>1, <1>2, <1>4, <1>5, <1>6 DEF Types, Tables, Wires
<1>8. Copies'
  BY <1>1, <1>2, <1>3, <1>4, <1>6, KnowsNothing, CopiesKept
<1>9. \A d \in Clients : Client(d)'
  <2>1. Client(c)'
    BY <1>5, <1>6 DEF Client, Excused
  <2>2. Stays(t, c)
    BY <1>1, <1>2, <1>4, <1>5, <1>6 DEF Stays
  <2> QED
    BY <2>1, <2>2, StaysOthers
<1> QED
  BY <1>7, <1>8, <1>9 DEF IInv

LEMMA ReplyStep ==
  ASSUME IInv, NEW c \in Clients, Reply(c)
  PROVE  IInv'
<1> PICK t : t = Dev(c)
  OBVIOUS
<1>0. PICK m : m = Replied(Head(down[c]))
  OBVIOUS
<1>1. /\ thr[t].pc = "idle" /\ down[c] # <<>> /\ Head(down[c]).kind = "reply"
      /\ down' = [down EXCEPT ![c] = Tail(@)]
      /\ UNCHANGED <<fp, up, unsent, pump, stored, left, seen>>
      /\ asked' = IF m.code # slot[c].code THEN asked
                  ELSE IF ~m.ok THEN Told(c, Named(slot[c]), "rejected")
                  ELSE IF Acknowledges(slot[c]) THEN Told(c, Named(slot[c]), "ack") ELSE asked
      /\ slot' = IF m.code = slot[c].code
                 THEN [slot EXCEPT ![c].code = "None", ![c].by = NoRequest] ELSE slot
  BY <1>0 DEF Reply
<1>2. /\ Types /\ Tables /\ Wires /\ Placed /\ Copies /\ Client(c)
      /\ t \in Threads /\ t[1] = c /\ t[2] = "dev" /\ Pos(c) \in Threads \ {t} /\ thr[t] = Idle
  <2>1. /\ Types /\ Tables /\ Wires /\ Placed /\ Copies /\ Client(c)
        /\ t \in Threads /\ t[1] = c /\ t[2] = "dev" /\ Pos(c) \in Threads \ {t}
    BY ThreadsAre DEF IInv, Types
  <2> QED
    BY <1>1, <2>1 DEF Placed, Proper
<1>3. /\ Wires' /\ \A d \in Clients \ {c} : down'[d] = down[d]
      /\ 1 \in 1 .. Len(down[c]) /\ Head(down[c]) = down[c][1] /\ Head(down[c]) \in Frame
      /\ \A j \in 1 .. Len(down'[c]) :
           j + 1 \in 1 .. Len(down[c]) /\ down'[c][j] = down[c][j + 1] /\ j + 1 # 1
  BY <1>1, <1>2, TakenIs
<1>4. m \in ReplyFrame /\ m = down[c][1] /\ m.kind = "reply" /\ m.f \in Points /\ m.code \in Codes
  <2>1. Head(down[c]) \in ReplyFrame
    BY <1>1, <1>3 DEF Frame, DataFrame
  <2>2. m = Head(down[c])
    BY <1>0, <2>1, RepliedSame
  <2> QED
    BY <1>3, <2>1, <2>2 DEF ReplyFrame
<1>5. PICK p \in Thread :
        /\ thr' = [thr EXCEPT ![t] = p] /\ p.pc \in {"forget", "start"} /\ p.by = NoRequest
        /\ p.copy = NoRecord /\ p.own = NoRecord /\ Proper(t, p)
  <2> PICK pc : pc = IF m.code = slot[c].code THEN "forget" ELSE "start"
    OBVIOUS
  <2> DEFINE p == [Idle EXCEPT !.msg = m, !.f = m.f, !.pc = pc]
  <2>1. thr' = [thr EXCEPT ![t] = p]
    BY <1>0 DEF Reply
  <2>2. pc \in {"forget", "start"}
    OBVIOUS
  <2>3. /\ p \in Thread /\ p.pc = pc /\ p.by = NoRequest /\ p.cmd = "none" /\ p.f = m.f
        /\ p.copy = NoRecord /\ p.own = NoRecord /\ p.msg = m
    BY <1>4, <2>2 DEF Idle, Thread, Places, Working, Cmds, NoRequest
  <2> HIDE DEF p
  <2>4. Proper(t, p)
    BY <1>2, <1>4, <2>2, <2>3 DEF Proper, Working
  <2> QED
    BY <2>1, <2>2, <2>3, <2>4
<1>6. Placed' /\ thr'[t] = p /\ \A u \in Threads \ {t} : thr'[u] = thr[u]
  BY <1>2, <1>5, Moved
<1>7. Copies'
  BY <1>1, <1>2, <1>5, <1>6, KnowsNothing, CopiesKept
<1>8. CASE m.code # slot[c].code
  <2>1. asked' = asked /\ slot' = slot
    BY <1>1, <1>8
  <2>2. Types'
    BY <1>1, <1>2, <1>3, <1>6, <2>1 DEF Types, Tables
  <2>3. Stays(t, c)
    BY <1>1, <1>2, <1>3, <1>6, <2>1 DEF Stays
  <2>4. thr'[t].by = thr[t].by /\ ~Sending(thr'[t]) /\ t # Pos(c)
    BY <1>2, <1>5, <1>6 DEF Idle, Sending
  <2>5. \A j \in 1 .. Len(up'[c]) : j + 0 \in 1 .. Len(up[c]) /\ up'[c][j] = up[c][j + 0]
    BY <1>1, <1>2 DEF Wires
  <2>6. \A d \in Clients : Client(d)'
    BY <1>2, <1>3, <2>1, <2>3, <2>4, <2>5, Moves
  <2> QED
    BY <1>7, <2>2, <2>6 DEF IInv
<1>9. CASE m.code = slot[c].code
  <2>1. PICK ans \in {"ack", "rejected"} :
          /\ asked' \in {asked, Told(c, Named(slot[c]), ans)}
          /\ ans = IF m.ok THEN "ack" ELSE "rejected"
    BY <1>1, <1>9
  <2>2. /\ asked' \in [Clients -> Seq(Request)] /\ slot' \in [Clients -> Slot] /\ Book(c)'
        /\ slot'[c].code = "None" /\ slot'[c].by = NoRequest
        /\ \A d \in Clients \ {c} : slot'[d] = slot[d] /\ asked'[d] = asked[d]
        /\ Len(asked'[c]) = Len(asked[c])
        /\ \A i \in 1 .. Len(asked[c]) :
             /\ asked'[c][i].done = asked[c][i].done
             /\ \/ asked'[c][i].told = asked[c][i].told
                \/ asked'[c][i].told = <<ans>> /\ i = slot[c].by /\ i # NoRequest
    <3>1. thr'[Pos(c)] = thr[Pos(c)] /\ up' = up
      BY <1>1, <1>2, <1>6
    <3>2. Cleared(c, ans)
      BY <1>1, <1>9, <2>1 DEF Cleared
    <3> QED
      BY <3>1, <3>2, ClearedIs
  <2>3. Types'
    BY <1>1, <1>2, <1>3, <1>6, <2>2 DEF Types, Tables
  <2>4. Stays(t, c)
    BY <1>1, <1>2, <1>3, <1>6, <2>2 DEF Stays
  <2>5. ASSUME ~Excused(c)' PROVE Truth(c)'
    <3>1. Truth(c) /\ Book(c)
      BY <1>1, <1>2, <2>5 DEF Client, Excused
    <3>2. Answer(m)
      <4>1. slot[c].code \in Commands \cup {"None"}
        BY <1>2 DEF Tables, Slot
      <4> QED
        BY <1>4, <1>9, <4>1 DEF Answer, Codes, Commands
    <3>3. /\ slot[c].by # NoRequest => asked[c][slot[c].by].done = m.ok
          /\ \A k \in 1 .. Len(down[c]) : Answer(down[c][k]) => k = 1
      BY <1>3, <1>4, <3>1, <3>2 DEF Truth, OneReply
    <3>4. ~NoAnswer(c)
      BY <1>3, <1>4, <3>2 DEF NoAnswer
    <3>5. NoOrder(c) /\ \A u \in {Pos(c), Dev(c)} : ~Sending(thr[u])
      BY <3>1, <3>4 DEF Truth, OneOrder, OneSender, NoOrder
    <3>6. NoAnswer(c)'
      BY <1>3, <3>3 DEF NoAnswer
    <3>7. NoOrder(c)'
      BY <1>1, <3>5 DEF NoOrder
    <3>8. \A u \in {Pos(c), Dev(c)} : ~Sending(thr'[u])
      BY <1>2, <1>5, <1>6, <3>5 DEF Sending
    <3>9. Honest(c)'
      <4>1. ASSUME NEW i \in 1 .. Len(asked'[c])
            PROVE  /\ asked'[c][i].told = <<"ack">> => asked'[c][i].done
                   /\ asked'[c][i].told = <<"rejected">> => ~asked'[c][i].done
        <5>1. i \in 1 .. Len(asked[c]) /\ asked'[c][i].done = asked[c][i].done
          BY <2>2, <4>1
        <5>2. CASE asked'[c][i].told = asked[c][i].told
          BY <3>1, <5>1, <5>2 DEF Truth, Honest
        <5>3. CASE asked'[c][i].told = <<ans>> /\ i = slot[c].by /\ i # NoRequest
          <6>1. <<"ack">> # <<"rejected">> /\ asked[c][i].done = m.ok
            BY <3>3, <5>3
          <6> QED
            BY <2>1, <5>1, <5>3, <6>1
        <5> QED
          BY <2>2, <5>1, <5>2, <5>3
      <4>2. LET q == thr'[Pos(c)] IN
            /\ q.pc \in {"authorize", "reset", "code", "name", "send"} => ~asked'[c][q.by].done
            /\ q.pc = "update" /\ q.cmd = "open" => asked'[c][q.by].done
        <5>1. thr'[Pos(c)] = thr[Pos(c)]
          BY <1>2, <1>6
        <5>2. thr[Pos(c)].pc # "idle" => thr[Pos(c)].by \in 1 .. Len(asked[c])
          BY <3>1 DEF Book
        <5> QED
          BY <2>2, <3>1, <5>1, <5>2 DEF Truth, Honest
      <4>3. ASSUME NEW f \in Points, pump'[f].by # <<>>, pump'[f].by[1] = c,
                   pump'[f].by[2] # NoRequest
            PROVE  /\ pump'[f].by[2] \in 1 .. Len(asked'[c])
                   /\ asked'[c][pump'[f].by[2]].done
        <5>1. pump'[f] = pump[f]
          BY <1>1
        <5>2. pump[f].by[2] \in 1 .. Len(asked[c]) /\ asked[c][pump[f].by[2]].done
          BY <3>1, <4>3, <5>1 DEF Truth, Honest
        <5> QED
          BY <2>2, <5>1, <5>2
      <4> QED
        BY <4>1, <4>2, <4>3 DEF Honest
    <3>10. OneOrder(c)' /\ OneReply(c)' /\ OneSender(c)'
      BY <3>6, <3>7, <3>8 DEF OneOrder, OneReply, OneSender, NoOrder, NoAnswer
    <3> QED
      BY <3>9, <3>10 DEF Truth
  <2>6. \A d \in Clients : Client(d)'
    BY <2>2, <2>4, <2>5, StaysOthers DEF Client
  <2> QED
    BY <1>7, <2>3, <2>6 DEF IInv
<1> QED
  BY <1>8, <1>9

LEMMA ForgetStep ==
  ASSUME IInv, NEW c \in Clients, Forget(c) \/ ForgetTime(c)
  PROVE  IInv'
<1> PICK t : t = Dev(c)
  OBVIOUS
<1>1. /\ thr[t].pc \in {"forget", "reset time"}
      /\ \/ slot' = [slot EXCEPT ![c].pss = "none"]
         \/ slot' = [slot EXCEPT ![c].old = TRUE]
      /\ seen' \in {seen, [seen EXCEPT !.reused = @ \cup {c}]}
      /\ \/ Done(t) \/ Goto(t, "reset time")
         \/ Goto(t, "start") /\ thr[t].msg # NoRecord
      /\ UNCHANGED <<fp, up, down, unsent, pump, stored, asked, left>>
  BY DEF Forget, ForgetTime
<1>2. /\ Types /\ Tables /\ Placed /\ Copies
      /\ t \in Threads /\ t[1] = c /\ t[2] = "dev"
      /\ thr[t] \in Thread /\ Proper(t, thr[t])
  BY ThreadsAre DEF IInv, Types, Placed
<1>3. /\ slot' \in [Clients -> Slot]
      /\ \A d \in Clients : /\ slot'[d].code = slot[d].code /\ slot'[d].by = slot[d].by
                            /\ d # c => slot'[d] = slot[d]
  <2> PICK n, o : n = "none" /\ o = TRUE
    OBVIOUS
  <2>1. n \in Cmds /\ o \in BOOLEAN
    BY DEF Cmds
  <2>2. \/ slot' = [slot EXCEPT ![c].pss = n]
        \/ slot' = [slot EXCEPT ![c].old = o]
    BY <1>1
  <2> QED
    BY <1>2, <2>1, <2>2, SlotIs DEF Tables
<1>4. /\ seen' \in [overwritten : SUBSET Points, reused : SUBSET Clients,
                    timedOut : SUBSET Clients, stale : SUBSET Threads, forced : SUBSET Points,
                    renewed : SUBSET Points]
      /\ seen'.timedOut = seen.timedOut /\ seen.reused \subseteq seen'.reused
      /\ seen'.stale = seen.stale
  <2>1. CASE seen' = seen
    BY <1>2, <2>1 DEF Tables
  <2>2. CASE seen' = [seen EXCEPT !.reused = @ \cup {c}]
    <3> PICK re : re = seen.reused \cup {c}
      OBVIOUS
    <3>1. re \subseteq Clients /\ seen.reused \subseteq re /\ seen' = [seen EXCEPT !.reused = re]
      BY <1>2, <2>2 DEF Tables
    <3> QED
      BY <1>2, <3>1 DEF Tables
  <2> QED
    BY <1>1, <2>1, <2>2
<1>5. thr[t].copy = NoRecord /\ thr[t].own = NoRecord /\ thr[t].by = NoRequest /\ thr[t].cmd = "none"
  BY <1>1, <1>2 DEF Proper, Working
<1>6. PICK p \in Thread :
        /\ thr' = [thr EXCEPT ![t] = p] /\ p.pc \in {"idle", "reset time", "start"}
        /\ p.copy = NoRecord /\ p.own = NoRecord /\ p.by = NoRequest /\ Proper(t, p)
  <2>1. CASE Done(t)
    BY <1>2, <2>1, IdleType DEF Done, Idle
  <2>2. ASSUME NEW pc \in {"reset time", "start"}, Goto(t, pc),
               pc = "start" => thr[t].msg # NoRecord
        PROVE  \E p \in Thread :
                 /\ thr' = [thr EXCEPT ![t] = p] /\ p.pc \in {"idle", "reset time", "start"}
                 /\ p.copy = NoRecord /\ p.own = NoRecord /\ p.by = NoRequest /\ Proper(t, p)
    <3> DEFINE p == [thr[t] EXCEPT !.pc = pc]
    <3>1. thr' = [thr EXCEPT ![t] = p]
      BY <2>2 DEF Goto
    <3>2. /\ p \in Thread /\ p.pc = pc /\ p.cmd = thr[t].cmd /\ p.by = thr[t].by
          /\ p.f = thr[t].f /\ p.copy = thr[t].copy /\ p.own = thr[t].own /\ p.msg = thr[t].msg
      BY <1>2 DEF Thread, Places, Working
    <3> HIDE DEF p
    <3>3. Proper(t, p)
      BY <1>1, <1>2, <1>5, <2>2, <3>2 DEF Proper, Working
    <3> QED
      BY <1>5, <3>1, <3>2, <3>3
  <2> QED
    BY <1>1, <2>1, <2>2
<1>7. Placed' /\ thr'[t] = p /\ \A u \in Threads \ {t} : thr'[u] = thr[u]
  BY <1>2, <1>6, Moved
<1>8. Types'
  BY <1>1, <1>2, <1>3, <1>4, <1>7 DEF Types, Tables, Wires
<1>9. Copies'
  BY <1>1, <1>2, <1>4, <1>6, <1>7, KnowsNothing, CopiesKept
<1>10. \A d \in Clients : Client(d)'
  <2>1. thr'[t].by = thr[t].by /\ ~Sending(thr'[t])
    BY <1>5, <1>6, <1>7 DEF Sending
  <2> QED
    BY <1>1, <1>2, <1>3, <1>4, <1>7, <2>1, GoesOn
<1> QED
  BY <1>8, <1>9, <1>10 DEF IInv

LEMMA StartFillStep ==
  ASSUME IInv, NEW c \in Clients, StartFill(c)
  PROVE  IInv'
<1> PICK t, m : t = Dev(c) /\ m = thr[Dev(c)].msg
  OBVIOUS
<1>1. /\ thr[t].pc = "start" /\ Done(Dev(c))
      /\ \/ /\ Sends(c, [code |-> "Start", f |-> m.f, by |-> NoRequest, dose |-> 0])
            /\ InPlace(m.f, t, [fp[m.f] EXCEPT !.main = "Starting"])
         \/ UNCHANGED <<fp, seen, up>>
      /\ UNCHANGED <<slot, down, unsent, pump, stored, asked, left>>
  BY DEF StartFill
<1>2. /\ Types /\ Tables /\ Wires /\ Placed /\ Copies
      /\ t \in Threads /\ t[1] = c /\ t[2] = "dev" /\ t # Pos(c) /\ Proper(t, thr[t])
  <2>1. /\ Types /\ Tables /\ Wires /\ Placed /\ Copies
        /\ t \in Threads /\ t[1] = c /\ t[2] = "dev" /\ Pos(c)[2] = "pos"
    BY ThreadsAre DEF IInv, Types
  <2> QED
    BY <2>1 DEF Placed
<1>3. m.f \in Points /\ thr[t].by = NoRequest
  BY <1>1, <1>2 DEF Proper, ReplyFrame
<1>4. Placed' /\ thr'[t] = Idle /\ \A u \in Threads \ {t} : thr'[u] = thr[u]
  BY <1>1, <1>2, DoneIsIdle
<1>5. Knows(t)' /\ thr'[t].by = thr[t].by /\ ~Sending(thr'[t])
  BY <1>2, <1>3, <1>4, KnowsNothing DEF Idle, Sending
<1>6. \A j \in 1 .. Len(down'[c]) : j + 0 \in 1 .. Len(down[c]) /\ down'[c][j] = down[c][j + 0]
  BY <1>1, <1>2 DEF Wires
<1>7. CASE UNCHANGED <<fp, seen, up>>
  <2>1. Types'
    BY <1>1, <1>2, <1>4, <1>7 DEF Types, Tables, Wires
  <2>2. Copies'
    BY <1>2, <1>4, <1>5, <1>7, CopiesKept
  <2>3. \A d \in Clients : Client(d)'
    BY <1>1, <1>2, <1>4, <1>5, <1>7, GoesOn
  <2> QED
    BY <2>1, <2>2, <2>3 DEF IInv
<1>8. CASE /\ Sends(c, [code |-> "Start", f |-> m.f, by |-> NoRequest, dose |-> 0])
           /\ InPlace(m.f, t, [fp[m.f] EXCEPT !.main = "Starting"])
  <2> PICK msg : msg = [code |-> "Start", f |-> m.f, by |-> NoRequest, dose |-> 0]
    OBVIOUS
  <2>1. msg \in Message /\ msg.by = NoRequest /\ msg.code \notin Commands
    BY <1>3 DEF Message, Codes, Commands, NoRequest
  <2>2. /\ up' \in [Clients -> Seq(Message)]
        /\ \A d \in Clients : Len(up'[d]) <= MaxFrames
        /\ \A d \in Clients : \A j \in 1 .. Len(up'[d]) :
             up'[d][j].by # NoRequest => up'[d][j].code \in Commands
        /\ \A d \in Clients \ {c} : up'[d] = up[d]
        /\ \A j \in 1 .. Len(up'[c]) :
             \/ j \in 1 .. Len(up[c]) /\ up'[c][j] = up[c][j]
             \/ up'[c][j].by = NoRequest /\ up'[c][j].code \notin Commands
    BY <1>2, <1>8, <2>1, SendsIs
  <2>3. Wires'
    BY <1>1, <1>2, <2>2 DEF Wires
  <2>4. [fp[m.f] EXCEPT !.main = "Starting"] \in Record
    <3> PICK r, mn : r = fp[m.f] /\ mn = "Starting"
      OBVIOUS
    <3>1. r \in Record /\ mn \in Mains
      BY <1>2, <1>3 DEF Tables, Mains
    <3>2. [r EXCEPT !.main = mn] \in Record
      BY <3>1 DEF Record
    <3> QED
      BY <3>2
  <2>5. /\ fp' \in [Points -> Record]
        /\ \A g \in Points \ {m.f} : fp'[g] = fp[g]
        /\ seen' \in [overwritten : SUBSET Points, reused : SUBSET Clients,
                      timedOut : SUBSET Clients, stale : SUBSET Threads, forced : SUBSET Points,
                      renewed : SUBSET Points]
        /\ seen'.timedOut = seen.timedOut /\ seen'.reused = seen.reused
        /\ seen.stale \cup Holders(m.f, t) \subseteq seen'.stale
    BY <1>2, <1>3, <1>8, <2>4, InPlaceIs
  <2>6. Types'
    BY <1>1, <1>2, <1>4, <2>3, <2>5 DEF Types, Tables
  <2>7. Copies'
    BY <1>2, <1>3, <1>4, <1>5, <2>5, CopiesStep DEF Tables
  <2>8. \A d \in Clients : Client(d)'
    <3>1. Stays(t, c)
      BY <1>1, <1>2, <1>4, <2>2, <2>5 DEF Stays
    <3>2. \A j \in 1 .. Len(up'[c]) :
            \/ j + 0 \in 1 .. Len(up[c]) /\ up'[c][j] = up[c][j + 0]
            \/ up'[c][j].by = NoRequest /\ up'[c][j].code \notin Commands
      BY <1>2, <2>2 DEF Wires
    <3> QED
      BY <1>1, <1>2, <1>5, <1>6, <3>1, <3>2, Moves
  <2> QED
    BY <2>6, <2>7, <2>8 DEF IInv
<1> QED
  BY <1>1, <1>7, <1>8

LEMMA ReconnectStep ==
  ASSUME IInv, NEW c \in Clients, Reconnect(c)
  PROVE  IInv'
<1> PICK t : t = Dev(c)
  OBVIOUS
<1>0. PICK un, no : un = "Unavailable" /\ no = FALSE
  OBVIOUS
<1>1. /\ thr[t].pc = "idle"
      /\ up' = [up EXCEPT ![c] = <<>>] /\ down' = [down EXCEPT ![c] = <<>>]
      /\ unsent' = [unsent EXCEPT ![c] = {}]
      /\ fp' = [f \in Points |-> [fp[f] EXCEPT !.main = un, !.preset = no, !.stopped = no]]
      /\ seen' = [seen EXCEPT !.stale = @ \cup UNION {Holders(f, t) : f \in Points}]
      /\ UNCHANGED <<slot, thr, pump, asked>>
  BY <1>0, Zenon DEF Reconnect
<1>2. /\ Types /\ Tables /\ Wires /\ Placed /\ Copies
      /\ t \in Threads /\ t[1] = c /\ t[2] = "dev" /\ t # Pos(c) /\ thr[t] = Idle
  <2>1. /\ Types /\ Tables /\ Wires /\ Placed /\ Copies
        /\ t \in Threads /\ t[1] = c /\ t[2] = "dev" /\ Pos(c)[2] = "pos"
    BY ThreadsAre DEF IInv, Types
  <2> QED
    BY <1>1, <2>1 DEF Placed, Proper
<1>3. fp' \in [Points -> Record]
  <2>1. ASSUME NEW r \in Record PROVE [r EXCEPT !.main = un, !.preset = no, !.stopped = no] \in Record
    <3>1. un \in Mains /\ no \in BOOLEAN
      BY <1>0 DEF Mains
    <3> QED
      BY <3>1 DEF Record
  <2>2. ASSUME NEW f \in Points
        PROVE  [fp[f] EXCEPT !.main = un, !.preset = no, !.stopped = no] \in Record
    <3>1. fp[f] \in Record
      BY <1>2 DEF Tables
    <3> QED
      BY <2>1, <3>1
  <2> QED
    BY <1>1, <2>2
<1>4. /\ seen' \in [overwritten : SUBSET Points, reused : SUBSET Clients,
                    timedOut : SUBSET Clients, stale : SUBSET Threads, forced : SUBSET Points,
                    renewed : SUBSET Points]
      /\ seen'.timedOut = seen.timedOut /\ seen'.reused = seen.reused
      /\ \A f \in Points : Holders(f, t) \subseteq seen'.stale
      /\ seen.stale \subseteq seen'.stale
  <2> PICK st : st = seen.stale \cup UNION {Holders(f, t) : f \in Points}
    OBVIOUS
  <2>1. st \subseteq Threads
    BY <1>2 DEF Tables, Holders
  <2>2. seen' = [seen EXCEPT !.stale = st]
    BY <1>1
  <2>3. /\ seen' \in [overwritten : SUBSET Points, reused : SUBSET Clients,
                      timedOut : SUBSET Clients, stale : SUBSET Threads, forced : SUBSET Points,
                      renewed : SUBSET Points]
        /\ seen'.timedOut = seen.timedOut /\ seen'.reused = seen.reused /\ seen'.stale = st
    BY <1>2, <2>1, <2>2 DEF Tables
  <2>4. \A f \in Points : Holders(f, t) \subseteq st
    OBVIOUS
  <2> QED
    BY <2>3, <2>4
<1>5. /\ Wires' /\ up'[c] = <<>> /\ down'[c] = <<>>
      /\ \A d \in Clients \ {c} : up'[d] = up[d] /\ down'[d] = down[d]
  <2>1. <<>> \in Seq(Message) /\ <<>> \in Seq(Frame) /\ Len(<<>>) = 0
    OBVIOUS
  <2>2. /\ up' \in [Clients -> Seq(Message)] /\ down' \in [Clients -> Seq(Frame)]
        /\ up'[c] = <<>> /\ down'[c] = <<>>
        /\ \A d \in Clients \ {c} : up'[d] = up[d] /\ down'[d] = down[d]
    BY <1>1, <1>2, <2>1 DEF Wires
  <2>3. ASSUME NEW d \in Clients
        PROVE  /\ Len(up'[d]) <= MaxFrames /\ Len(down'[d]) <= MaxFrames
               /\ \A j \in 1 .. Len(up'[d]) : up'[d][j].by # NoRequest => up'[d][j].code \in Commands
    <3>1. CASE d = c
      BY <2>1, <2>2, <3>1, ConstantsAssumption
    <3>2. CASE d # c
      <4>1. up'[d] = up[d] /\ down'[d] = down[d]
        BY <2>2, <3>2
      <4> QED
        BY <1>2, <4>1 DEF Wires
    <3> QED
      BY <3>1, <3>2
  <2> QED
    BY <2>2, <2>3 DEF Wires
<1>6. Types'
  BY <1>1, <1>2, <1>3, <1>4, <1>5 DEF Types, Tables, Placed
<1>7. Copies'
  <2> SUFFICES ASSUME NEW u \in Threads PROVE Knows(u)'
    BY DEF Copies
  <2>1. Knows(u) /\ thr' = thr
    BY <1>1, <1>2 DEF Copies
  <2>2. CASE thr[u].copy = NoRecord /\ thr[u].own = NoRecord
    BY <2>1, <2>2 DEF Knows
  <2>3. CASE thr[u].copy # NoRecord \/ thr[u].own # NoRecord
    <3>1. thr[u].f \in Points /\ u # t
      <4>1. Proper(u, thr[u]) /\ Idle.copy = NoRecord /\ Idle.own = NoRecord
        BY <1>2 DEF Placed, Idle
      <4> QED
        BY <1>2, <2>3, <4>1 DEF Proper
    <3>2. u \in Holders(thr[u].f, t)
      BY <2>3, <3>1 DEF Holders
    <3>3. u \in seen'.stale
      BY <1>4, <3>1, <3>2
    <3> QED
      BY <2>1, <3>3 DEF Knows
  <2> QED
    BY <2>2, <2>3
<1>8. \A d \in Clients : Client(d)'
  <2>1. Stays(t, c)
    BY <1>1, <1>2, <1>4, <1>5 DEF Stays
  <2>2. /\ \A j \in 1 .. Len(up'[c]) : j + 0 \in 1 .. Len(up[c]) /\ up'[c][j] = up[c][j + 0]
        /\ \A j \in 1 .. Len(down'[c]) : j + 0 \in 1 .. Len(down[c]) /\ down'[c][j] = down[c][j + 0]
    BY <1>5
  <2>3. ~Sending(thr'[t]) /\ thr'[t].by = thr[t].by
    BY <1>1, <1>2 DEF Sending, Idle
  <2> QED
    BY <1>1, <1>2, <2>1, <2>2, <2>3, Moves, Zenon
<1> QED
  BY <1>6, <1>7, <1>8 DEF IInv

-----------------------------------------------------------------------------
(* The hardware server, the dispensers and the customers.                  *)

LEMMA ServedIs ==
  ASSUME Wires, NEW c \in Clients, up[c] # <<>>, up' = [up EXCEPT ![c] = Tail(@)]
  PROVE  /\ up' \in [Clients -> Seq(Message)]
         /\ \A d \in Clients : Len(up'[d]) <= MaxFrames
         /\ \A d \in Clients : \A j \in 1 .. Len(up'[d]) :
              up'[d][j].by # NoRequest => up'[d][j].code \in Commands
         /\ \A d \in Clients \ {c} : up'[d] = up[d]
         /\ 1 \in 1 .. Len(up[c]) /\ Head(up[c]) = up[c][1] /\ Head(up[c]) \in Message
         /\ \A j \in 1 .. Len(up'[c]) :
              j + 1 \in 1 .. Len(up[c]) /\ up'[c][j] = up[c][j + 1] /\ j + 1 # 1
<1> PICK q : q = up[c]
  OBVIOUS
<1>1. q \in Seq(Message) /\ q # <<>> /\ Len(q) <= MaxFrames
  BY DEF Wires
<1>2. /\ Tail(q) \in Seq(Message) /\ Len(Tail(q)) = Len(q) - 1 /\ Len(q) \in Nat \ {0}
      /\ Head(q) = q[1] /\ Head(q) \in Message
      /\ \A j \in 1 .. Len(q) - 1 : Tail(q)[j] = q[j + 1]
  BY <1>1
<1>3. up' = [up EXCEPT ![c] = Tail(q)] /\ up \in [Clients -> Seq(Message)]
  BY DEF Wires
<1>4. /\ up' \in [Clients -> Seq(Message)] /\ up'[c] = Tail(q)
      /\ \A d \in Clients \ {c} : up'[d] = up[d]
  BY <1>2, <1>3
<1>5. Len(Tail(q)) <= MaxFrames
  BY <1>1, <1>2, ConstantsAssumption
<1>6. \A j \in 1 .. Len(Tail(q)) : j + 1 \in 1 .. Len(q) /\ Tail(q)[j] = q[j + 1] /\ j + 1 # 1
  BY <1>2
<1>7. ASSUME NEW d \in Clients
      PROVE  /\ Len(up'[d]) <= MaxFrames
             /\ \A j \in 1 .. Len(up'[d]) : up'[d][j].by # NoRequest => up'[d][j].code \in Commands
  <2>1. CASE d = c
    BY <1>4, <1>5, <1>6, <2>1 DEF Wires
  <2>2. CASE d # c
    BY <1>4, <2>2 DEF Wires
  <2> QED
    BY <2>1, <2>2
<1> QED
  BY <1>2, <1>4, <1>6, <1>7

\* Frame m is on its way on the link of c.
Sent(c, m) == Len(down[c]) < MaxFrames /\ down' = [down EXCEPT ![c] = Append(@, m)]

LEMMA AppendedIs ==
  ASSUME Wires, NEW c \in Clients, NEW m \in Frame, Sent(c, m)
  PROVE  /\ down' \in [Clients -> Seq(Frame)]
         /\ \A d \in Clients : Len(down'[d]) <= MaxFrames
         /\ \A d \in Clients \ {c} : down'[d] = down[d]
         /\ \A j \in 1 .. Len(down'[c]) :
              \/ j \in 1 .. Len(down[c]) /\ down'[c][j] = down[c][j]
              \/ j = Len(down[c]) + 1 /\ down'[c][j] = m
<1> PICK q : q = down[c]
  OBVIOUS
<1>1. q \in Seq(Frame) /\ Len(q) < MaxFrames
  BY DEF Wires, Sent
<1>2. /\ Append(q, m) \in Seq(Frame) /\ Len(Append(q, m)) = Len(q) + 1 /\ Len(q) \in Nat
      /\ \A j \in 1 .. Len(q) : Append(q, m)[j] = q[j]
      /\ Append(q, m)[Len(q) + 1] = m
  BY <1>1
<1>3. down' = [down EXCEPT ![c] = Append(q, m)] /\ down \in [Clients -> Seq(Frame)]
  BY DEF Wires, Sent
<1>4. /\ down' \in [Clients -> Seq(Frame)] /\ down'[c] = Append(q, m)
      /\ \A d \in Clients \ {c} : down'[d] = down[d]
  BY <1>2, <1>3
<1>5. Len(Append(q, m)) <= MaxFrames
  BY <1>1, <1>2, ConstantsAssumption
<1>6. \A j \in 1 .. Len(Append(q, m)) :
        \/ j \in 1 .. Len(q) /\ Append(q, m)[j] = q[j]
        \/ j = Len(q) + 1 /\ Append(q, m)[j] = m
  BY <1>2
<1>7. \A d \in Clients : Len(down'[d]) <= MaxFrames
  BY <1>4, <1>5 DEF Wires
<1> QED
  BY <1>4, <1>6, <1>7

LEMMA ExecutedIs ==
  ASSUME NEW p \in Dispenser, NEW m \in Message, NEW who \in Clients \X Nat,
         p.by = <<>> => p.dose = 0
  PROVE  LET q == Executed(p, m, who)
         IN  /\ q \in Dispenser /\ (q.by = <<>> => q.dose = 0)
             /\ q.by = p.by \/ (m.code = "SetDose" /\ q.by = who)
<1> PICK q : q = Executed(p, m, who)
  OBVIOUS
<1>1. m.code \in {"SetDose", "Reset", "Start", "Suspend", "Resume"} /\ m.dose \in Doses \cup {0}
  BY DEF Message, Codes, Commands
<1>2. CASE m.code = "SetDose"
  <2>1. q = [p EXCEPT !.dose = m.dose, !.by = who]
    BY <1>2 DEF Executed
  <2>2. who # <<>>
    OBVIOUS
  <2>3. q \in Dispenser /\ q.by = who
    BY <1>1, <2>1 DEF Dispenser
  <2> QED
    BY <1>2, <2>2, <2>3
<1>3. CASE m.code = "Reset"
  <2> PICK st : st = IF p.state = "Finish" THEN "Free" ELSE p.state
    OBVIOUS
  <2>1. st \in PumpStates
    BY DEF Dispenser, PumpStates
  <2>2. q = [p EXCEPT !.dose = 0, !.state = st]
    BY <1>3 DEF Executed
  <2>3. q \in Dispenser /\ q.by = p.by /\ q.dose = 0
    BY <2>1, <2>2 DEF Dispenser
  <2> QED
    BY <2>3
<1>4. CASE m.code \in {"Start", "Suspend", "Resume"}
  <2>1. PICK st \in {"Filling", "Stopped"} : q = [p EXCEPT !.state = st]
    <3>1. CASE m.code = "Start"
      BY <3>1 DEF Executed
    <3>2. CASE m.code = "Suspend"
      BY <3>2 DEF Executed
    <3>3. CASE m.code = "Resume"
      BY <3>3 DEF Executed
    <3> QED
      BY <1>4, <3>1, <3>2, <3>3
  <2>2. st \in PumpStates
    BY DEF PumpStates
  <2>3. q \in Dispenser /\ q.by = p.by /\ q.dose = p.dose
    BY <2>1, <2>2 DEF Dispenser
  <2> QED
    BY <2>3
<1> QED
  BY <1>1, <1>2, <1>3, <1>4

\* The dispensers and what is pushed of them.
LEMMA ChangesIs ==
  ASSUME Tables, NEW f \in Points, NEW p \in Dispenser, p.by = <<>> => p.dose = 0, Changes(f, p)
  PROVE  /\ pump' \in [Points -> Dispenser] /\ unsent' \in [Clients -> SUBSET Points]
         /\ \A g \in Points : pump'[g].by = <<>> => pump'[g].dose = 0
         /\ pump'[f] = p /\ \A g \in Points \ {f} : pump'[g] = pump[g]
<1>1. pump' = [pump EXCEPT ![f] = p]
  BY DEF Changes
<1>2. unsent' \in [Clients -> SUBSET Points]
  BY DEF Changes, Tables
<1> QED
  BY <1>1, <1>2 DEF Tables

LEMMA PushStep ==
  ASSUME IInv, NEW c \in Clients, Push(c)
  PROVE  IInv'
<1> PICK t : t = Dev(c)
  OBVIOUS
<1>1. PICK f \in unsent[c] :
        /\ Len(down[c]) < MaxFrames
        /\ down' = [down EXCEPT ![c] = Append(@, [kind |-> "data", f |-> f,
                        state |-> pump[f].state, sale |-> pump[f].sale, counter |-> pump[f].sale,
                        nozzle |-> pump[f].state \in {"NozzleOut", "Filling", "Stopped"},
                        order |-> IF pump[f].dose = 0 THEN "free" ELSE "set"])]
        /\ unsent' = [unsent EXCEPT ![c] = @ \ {f}]
        /\ UNCHANGED <<fp, slot, thr, up, pump, stored, asked, left, seen>>
  BY DEF Push
<1>2. /\ Types /\ Tables /\ Wires /\ Placed /\ Copies
      /\ t \in Threads /\ t[1] = c /\ t[2] = "dev" /\ t # Pos(c)
  BY ThreadsAre DEF IInv, Types
<1>3. PICK m \in DataFrame : down' = [down EXCEPT ![c] = Append(@, m)]
  <2> PICK no, or : /\ no = (pump[f].state \in {"NozzleOut", "Filling", "Stopped"})
                    /\ or = IF pump[f].dose = 0 THEN "free" ELSE "set"
    OBVIOUS
  <2>1. no \in BOOLEAN /\ or \in {"free", "set"}
    OBVIOUS
  <2>2. f \in Points /\ pump[f] \in Dispenser
    BY <1>2 DEF Tables
  <2>3. pump[f].state \in PumpStates /\ pump[f].sale \in Nat
    BY <2>2 DEF Dispenser
  <2> DEFINE m == [kind |-> "data", f |-> f, state |-> pump[f].state, sale |-> pump[f].sale,
                   counter |-> pump[f].sale, nozzle |-> no, order |-> or]
  <2>4. m \in DataFrame
    BY <2>1, <2>2, <2>3 DEF DataFrame
  <2>5. down' = [down EXCEPT ![c] = Append(@, m)]
    BY <1>1
  <2> QED
    BY <2>4, <2>5
<1>4. /\ down' \in [Clients -> Seq(Frame)]
      /\ \A d \in Clients : Len(down'[d]) <= MaxFrames
      /\ \A d \in Clients \ {c} : down'[d] = down[d]
      /\ \A j \in 1 .. Len(down'[c]) :
           \/ j \in 1 .. Len(down[c]) /\ down'[c][j] = down[c][j]
           \/ j = Len(down[c]) + 1 /\ down'[c][j] = m
  <2>1. m \in Frame /\ Sent(c, m)
    BY <1>1, <1>3 DEF Frame, Sent
  <2> QED
    BY <1>2, <2>1, AppendedIs
<1>5. Types'
  <2>1. Wires'
    BY <1>1, <1>2, <1>4 DEF Wires
  <2>2. unsent' \in [Clients -> SUBSET Points]
    BY <1>1, <1>2 DEF Tables
  <2> QED
    BY <1>1, <1>2, <2>1, <2>2 DEF Types, Tables, Placed
<1>6. Copies'
  BY <1>1, <1>2, CopiesStay
<1>7. \A d \in Clients : Client(d)'
  <2>1. Stays(t, c)
    BY <1>1, <1>2, <1>4 DEF Stays
  <2>2. \A j \in 1 .. Len(up'[c]) : j + 0 \in 1 .. Len(up[c]) /\ up'[c][j] = up[c][j + 0]
    BY <1>1, <1>2 DEF Wires
  <2>3. ~Answer(m) /\ Len(down[c]) \in Nat
    BY <1>2 DEF Answer, DataFrame, Wires
  <2>4. \A j \in 1 .. Len(down'[c]) :
          \/ j + 0 \in 1 .. Len(down[c]) /\ down'[c][j] = down[c][j + 0]
          \/ ~Answer(down'[c][j])
    BY <1>4, <2>3
  <2>5. thr'[t] = thr[t] /\ Code(t)' = Code(t)
    BY <1>1 DEF Code
  <2> QED
    BY <1>1, <1>2, <2>1, <2>2, <2>4, <2>5, Moves
<1> QED
  BY <1>5, <1>6, <1>7 DEF IInv

LEMMA CustomerStep ==
  ASSUME IInv, NEW f \in Points, Nozzle(f) \/ Repeat(f) \/ Filled(f)
  PROVE  IInv'
<1>1. /\ Types /\ Tables /\ Wires /\ Placed /\ Copies /\ pump[f] \in Dispenser
      /\ pump[f].by = <<>> => pump[f].dose = 0
  BY DEF IInv, Types, Tables
<1>2. UNCHANGED <<fp, slot, thr, up, down, stored, asked, seen>>
  BY DEF Nozzle, Repeat, Filled
<1>3. PICK p \in Dispenser : /\ Changes(f, p) /\ p.by = pump[f].by
                             /\ p.by = <<>> => p.dose = 0
  <2>1. CASE Nozzle(f)
    <3>1. PICK st \in {"NozzleOut", "Free"} : Changes(f, [pump[f] EXCEPT !.state = st])
      BY <2>1 DEF Nozzle
    <3>2. st \in PumpStates
      BY DEF PumpStates
    <3>3. /\ [pump[f] EXCEPT !.state = st] \in Dispenser
          /\ [pump[f] EXCEPT !.state = st].by = pump[f].by
          /\ [pump[f] EXCEPT !.state = st].dose = pump[f].dose
      BY <1>1, <3>2 DEF Dispenser
    <3> QED
      BY <1>1, <3>1, <3>3
  <2>2. CASE Repeat(f)
    BY <1>1, <2>2 DEF Repeat
  <2>3. CASE Filled(f)
    <3> PICK st, sa, no : st = "Finish" /\ sa = pump[f].sale + 1 /\ no = 0
      OBVIOUS
    <3> DEFINE p == [pump[f] EXCEPT !.state = st, !.dose = no, !.sale = sa]
    <3>1. st \in PumpStates /\ sa \in Nat /\ no \in Doses \cup {0}
      BY <1>1 DEF PumpStates, Dispenser
    <3>2. Changes(f, p)
      BY <2>3 DEF Filled
    <3>3. p \in Dispenser /\ p.by = pump[f].by /\ p.dose = 0
      BY <1>1, <3>1 DEF Dispenser
    <3> HIDE DEF p
    <3> QED
      BY <3>2, <3>3
  <2> QED
    BY <2>1, <2>2, <2>3
<1>4. /\ pump' \in [Points -> Dispenser] /\ unsent' \in [Clients -> SUBSET Points]
      /\ \A g \in Points : pump'[g].by = <<>> => pump'[g].dose = 0
      /\ pump'[f] = p /\ \A g \in Points \ {f} : pump'[g] = pump[g]
  BY <1>1, <1>3, ChangesIs
<1>5. Types'
  BY <1>1, <1>2, <1>4 DEF Types, Tables, Wires, Placed
<1>6. Copies'
  BY <1>1, <1>2, CopiesStay
<1>7. ASSUME NEW d \in Clients PROVE Client(d)'
  <2>1. \A g \in Points : pump'[g].by = pump[g].by
    BY <1>3, <1>4
  <2> QED
    BY <1>2, <2>1, OtherClients DEF IInv
<1> QED
  BY <1>5, <1>6, <1>7 DEF IInv

LEMMA ServeStep ==
  ASSUME IInv, NEW c \in Clients, Serve(c)
  PROVE  IInv'
<1>0. PICK t, m, who : t = Dev(c) /\ m = Head(up[c]) /\ who = <<c, m.by>>
  OBVIOUS
<1>1. /\ Types /\ Tables /\ Wires /\ Placed /\ Copies /\ Client(c) /\ Book(c)
      /\ t \in Threads /\ t[1] = c /\ t[2] = "dev" /\ t # Pos(c)
      /\ asked \in [Clients -> Seq(Request)] /\ Len(asked[c]) \in Nat /\ Len(down[c]) \in Nat
  BY <1>0, ThreadsAre DEF IInv, Types, Tables, Wires, Client
<1>2. /\ up[c] # <<>> /\ Len(down[c]) < MaxFrames /\ up' = [up EXCEPT ![c] = Tail(@)]
      /\ UNCHANGED <<fp, slot, thr, stored, left, seen>>
  BY DEF Serve
<1>3. PICK known \in BOOLEAN, ok \in BOOLEAN :
        /\ ok => known
        /\ IF ok THEN Changes(m.f, Executed(pump[m.f], m, who)) ELSE UNCHANGED <<pump, unsent>>
        /\ asked' = IF ok /\ m.by # NoRequest THEN [asked EXCEPT ![c][m.by].done = TRUE] ELSE asked
        /\ down' = IF ~known THEN down
                   ELSE [down EXCEPT ![c] = Append(@, [kind |-> "reply", code |-> m.code,
                                                       ok |-> ok, f |-> m.f])]
  <2> PICK known, ok : /\ known = (OrdersOf(m.code) \subseteq Carried)
                       /\ ok = (known /\ Accepts(pump[m.f], m.code))
    OBVIOUS
  <2>1. known \in BOOLEAN /\ ok \in BOOLEAN /\ (ok => known)
    OBVIOUS
  <2> QED
    BY <1>0, <2>1, Zenon DEF Serve
<1>4. /\ up' \in [Clients -> Seq(Message)]
      /\ \A d \in Clients : Len(up'[d]) <= MaxFrames
      /\ \A d \in Clients : \A j \in 1 .. Len(up'[d]) :
           up'[d][j].by # NoRequest => up'[d][j].code \in Commands
      /\ \A d \in Clients \ {c} : up'[d] = up[d]
      /\ 1 \in 1 .. Len(up[c]) /\ m = up[c][1] /\ m \in Message
      /\ \A j \in 1 .. Len(up'[c]) :
           j + 1 \in 1 .. Len(up[c]) /\ up'[c][j] = up[c][j + 1] /\ j + 1 # 1
  BY <1>0, <1>1, <1>2, ServedIs
<1>5. /\ m.f \in Points /\ m.code \in Codes /\ m.by \in 0 .. Len(asked[c])
      /\ who \in Clients \X Nat /\ who # <<>> /\ who[1] = c /\ who[2] = m.by
      /\ m.by # NoRequest => m.code \in Commands /\ m.by \in 1 .. Len(asked[c])
  BY <1>0, <1>1, <1>4 DEF Book, Message, Wires, NoRequest
<1>6. PICK frame : frame = [kind |-> "reply", code |-> m.code, ok |-> ok, f |-> m.f]
  OBVIOUS
<1>7. frame \in ReplyFrame /\ frame \in Frame /\ frame.ok = ok /\ frame.code = m.code
      /\ (Answer(frame) <=> m.code \in Commands)
  BY <1>5, <1>6 DEF ReplyFrame, Frame, Answer
<1>8. /\ down' \in [Clients -> Seq(Frame)]
      /\ \A d \in Clients : Len(down'[d]) <= MaxFrames
      /\ \A d \in Clients \ {c} : down'[d] = down[d]
      /\ \A j \in 1 .. Len(down'[c]) :
           \/ j \in 1 .. Len(down[c]) /\ down'[c][j] = down[c][j]
           \/ j = Len(down[c]) + 1 /\ down'[c][j] = frame
  <2>1. CASE ~known
    BY <1>1, <1>3, <2>1 DEF Wires
  <2>2. CASE known
    <3>1. down' = [down EXCEPT ![c] = Append(@, frame)]
      BY <1>3, <1>6, <2>2
    <3>2. frame \in Frame /\ Wires /\ Sent(c, frame)
      BY <1>1, <1>2, <1>7, <3>1 DEF Sent
    <3> QED
      BY <3>2, AppendedIs
  <2> QED
    BY <2>1, <2>2
<1>9. /\ pump' \in [Points -> Dispenser] /\ unsent' \in [Clients -> SUBSET Points]
      /\ \A g \in Points : pump'[g].by = <<>> => pump'[g].dose = 0
      /\ \A g \in Points : \/ pump'[g].by = pump[g].by
                           \/ ok /\ m.code = "SetDose" /\ pump'[g].by = who
  <2>1. CASE ~ok
    BY <1>1, <1>3, <2>1 DEF Tables
  <2>2. CASE ok
    <3> PICK q : q = Executed(pump[m.f], m, who)
      OBVIOUS
    <3>1. pump[m.f] \in Dispenser /\ (pump[m.f].by = <<>> => pump[m.f].dose = 0)
      BY <1>1, <1>5 DEF Tables
    <3>2. /\ q \in Dispenser /\ (q.by = <<>> => q.dose = 0)
          /\ q.by = pump[m.f].by \/ (m.code = "SetDose" /\ q.by = who)
      BY <1>4, <1>5, <3>1, ExecutedIs
    <3>3. Changes(m.f, q)
      BY <1>3, <2>2
    <3>4. /\ pump' \in [Points -> Dispenser] /\ unsent' \in [Clients -> SUBSET Points]
          /\ \A g \in Points : pump'[g].by = <<>> => pump'[g].dose = 0
          /\ pump'[m.f] = q /\ \A g \in Points \ {m.f} : pump'[g] = pump[g]
      BY <1>1, <1>5, <3>2, <3>3, ChangesIs, Zenon
    <3> QED
      BY <2>2, <3>2, <3>4, Zenon
  <2> QED
    BY <2>1, <2>2
<1>10.
      /\ asked' \in [Clients -> Seq(Request)]
      /\ \A d \in Clients \ {c} : asked'[d] = asked[d]
      /\ Len(asked'[c]) = Len(asked[c])
      /\ ~ok \/ m.by = NoRequest => asked'[c] = asked[c]
      /\ ok /\ m.by # NoRequest => asked'[c][m.by].done = TRUE
      /\ \A i \in 1 .. Len(asked[c]) :
           /\ asked'[c][i].told = asked[c][i].told
           /\ asked[c][i].done => asked'[c][i].done
           /\ i # m.by => asked'[c][i].done = asked[c][i].done
  <2>1. CASE ~ok \/ m.by = NoRequest
    BY <1>1, <1>3, <2>1
  <2>2. CASE ok /\ m.by # NoRequest
    <3> PICK req : req = [told |-> asked[c][m.by].told, done |-> TRUE]
      OBVIOUS
    <3>1. asked' = [asked EXCEPT ![c][m.by].done = TRUE]
      BY <1>3, <2>2
    <3>2. Becomes(asked', c, m.by, req)
      BY <1>1, <1>5, <2>2, <3>1, DoneIs
    <3> QED
      BY <1>5, <2>2, <3>2 DEF Becomes
  <2> QED
    BY <2>1, <2>2
<1>11. Types'
  BY <1>1, <1>2, <1>4, <1>8, <1>9, <1>10 DEF Types, Tables, Wires, Placed
<1>12. Copies'
  BY <1>1, <1>2, CopiesStay
<1>13. CASE m.code \notin Commands
  <2>1. m.by = NoRequest /\ ~Answer(frame) /\ m.code # "SetDose"
    BY <1>5, <1>7, <1>13 DEF Commands
  <2>2. Stays(t, c) /\ asked'[c] = asked[c]
    BY <1>1, <1>2, <1>4, <1>8, <1>9, <1>10, <2>1 DEF Stays
  <2>3. \A j \in 1 .. Len(down'[c]) :
          \/ j + 0 \in 1 .. Len(down[c]) /\ down'[c][j] = down[c][j + 0]
          \/ ~Answer(down'[c][j])
    BY <1>8, <2>1
  <2>4. thr'[t] = thr[t] /\ slot'[c] = slot[c] /\ Code(t)' = Code(t)
    BY <1>2 DEF Code
  <2>5. \A d \in Clients : Client(d)'
    BY <1>1, <1>4, <2>2, <2>3, <2>4, Moves
  <2> QED
    BY <1>11, <1>12, <2>5 DEF IInv
<1>14. CASE m.code \in Commands
  <2>1. Book(c)'
    <3> PICK p : p = thr[Pos(c)]
      OBVIOUS
    <3>1. /\ thr'[Pos(c)] = p /\ slot' = slot
          /\ p.pc # "idle" => p.by \in 1 .. Len(asked'[c])
          /\ Owes(p) => asked[c][p.by].told = <<>> /\ slot[c].by # p.by
      BY <1>1, <1>2, <1>10 DEF Book
    <3>2. Owes(p) => asked'[c][p.by].told = <<>>
      BY <1>10, <3>1 DEF Owes
    <3>3. slot[c].by # NoRequest => /\ slot[c].by \in 1 .. Len(asked'[c])
                                    /\ asked'[c][slot[c].by].told = <<>>
      BY <1>1, <1>10 DEF Book
    <3>4. \A j \in 1 .. Len(up'[c]) : up'[c][j].by \in 0 .. Len(asked'[c])
      <4>1. \A j \in 1 .. Len(up[c]) : up[c][j].by \in 0 .. Len(asked'[c])
        BY <1>1, <1>10 DEF Book
      <4> QED
        BY <1>4, <4>1
    <3> QED
      BY <3>1, <3>2, <3>3, <3>4 DEF Book
  <2>2. ASSUME ~Excused(c)' PROVE Truth(c)'
    <3>1. Truth(c)
      BY <1>1, <1>2, <2>2 DEF Client, Excused
    <3>2. /\ m.code = slot[c].code /\ m.by = slot[c].by
          /\ slot[c].by # NoRequest => ~asked[c][slot[c].by].done
          /\ \A k \in 1 .. Len(up[c]) : up[c][k].code \in Commands => k = 1
          /\ NoAnswer(c)
      BY <1>4, <1>14, <3>1 DEF Truth, OneOrder
    <3>3. ~Sending(thr[Pos(c)]) /\ ~Sending(thr[t])
      BY <1>0, <1>1, <1>4, <1>14, <3>1 DEF Truth, OneSender, NoOrder
    <3>4. m.by # NoRequest => asked[c][m.by].told = <<>>
      BY <1>1, <3>2 DEF Book
    <3>5. Honest(c)'
      <4>1. ASSUME NEW i \in 1 .. Len(asked'[c])
            PROVE  /\ asked'[c][i].told = <<"ack">> => asked'[c][i].done
                   /\ asked'[c][i].told = <<"rejected">> => ~asked'[c][i].done
        <5>1. <<"rejected">> # <<>>
          OBVIOUS
        <5>2. i = m.by => asked'[c][i].told = <<>>
          BY <1>10, <3>4, <4>1 DEF NoRequest
        <5>3. /\ asked[c][i].told = <<"ack">> => asked[c][i].done
              /\ asked[c][i].told = <<"rejected">> => ~asked[c][i].done
          BY <1>10, <3>1, <4>1 DEF Truth, Honest
        <5> QED
          BY <1>10, <4>1, <5>1, <5>2, <5>3
      <4>2. LET p == thr'[Pos(c)] IN
            /\ p.pc \in {"authorize", "reset", "code", "name", "send"} => ~asked'[c][p.by].done
            /\ p.pc = "update" /\ p.cmd = "open" => asked'[c][p.by].done
        <5> PICK p : p = thr[Pos(c)]
          OBVIOUS
        <5>1. thr'[Pos(c)] = p /\ (p.pc # "idle" => p.by \in 1 .. Len(asked[c]))
          BY <1>1, <1>2 DEF Book
        <5>2. p.pc \in {"authorize", "reset", "code"} => p.by # m.by
          BY <1>1, <3>2 DEF Book, Owes
        <5>3. p.pc \notin {"name", "send"}
          BY <3>3 DEF Sending
        <5>4. /\ p.pc \in {"authorize", "reset", "code"} => ~asked[c][p.by].done
              /\ p.pc = "update" /\ p.cmd = "open" => asked[c][p.by].done
          BY <3>1 DEF Truth, Honest
        <5> QED
          BY <1>10, <5>1, <5>2, <5>3, <5>4
      <4>3. ASSUME NEW f \in Points, pump'[f].by # <<>>, pump'[f].by[1] = c,
                   pump'[f].by[2] # NoRequest
            PROVE  /\ pump'[f].by[2] \in 1 .. Len(asked'[c])
                   /\ asked'[c][pump'[f].by[2]].done
        <5>1. CASE pump'[f].by = pump[f].by
          BY <1>10, <3>1, <4>3, <5>1 DEF Truth, Honest
        <5>2. CASE ok /\ pump'[f].by = who
          BY <1>5, <1>10, <4>3, <5>2
        <5> QED
          BY <1>9, <5>1, <5>2
      <4> QED
        BY <4>1, <4>2, <4>3 DEF Honest
    <3>6. NoOrder(c)'
      BY <1>4, <3>2 DEF NoOrder
    <3>7. OneReply(c)'
      <4>1. ASSUME NEW j \in 1 .. Len(down'[c]), Answer(down'[c][j])
            PROVE  j = Len(down[c]) + 1 /\ down'[c][j] = frame
        BY <1>8, <3>2, <4>1 DEF NoAnswer
      <4>2. slot[c].by # NoRequest => asked'[c][slot[c].by].done = ok
        <5>1. CASE ok
          BY <1>10, <3>2, <5>1
        <5>2. CASE ~ok
          <6>1. slot[c].by # NoRequest => asked[c][slot[c].by] \in Request
            BY <1>1 DEF Book
          <6>2. slot[c].by # NoRequest => asked[c][slot[c].by].done = FALSE
            BY <3>2, <6>1 DEF Request
          <6> QED
            BY <1>10, <5>2, <6>2
        <5> QED
          BY <5>1, <5>2
      <4> QED
        BY <1>2, <1>7, <3>2, <4>1, <4>2 DEF OneReply, Answer
    <3>8. OneOrder(c)'
      BY <3>6 DEF OneOrder, NoOrder
    <3>9. OneSender(c)'
      BY <1>0, <1>1, <1>2, <3>3 DEF OneSender, Sending
    <3> QED
      BY <3>5, <3>7, <3>8, <3>9 DEF Truth
  <2>3. Client(c)'
    BY <2>1, <2>2 DEF Client
  <2>4. ASSUME NEW d \in Clients \ {c} PROVE Client(d)'
    <3>1. \A g \in Points : \/ pump'[g].by = pump[g].by
                            \/ pump'[g].by # <<>> /\ pump'[g].by[1] # d
      BY <1>5, <1>9
    <3>2. /\ asked'[d] = asked[d] /\ up'[d] = up[d] /\ down'[d] = down[d]
          /\ slot'[d] = slot[d] /\ thr' = thr /\ seen' = seen
      BY <1>2, <1>4, <1>8, <1>10
    <3> QED
      BY <3>1, <3>2, OtherClients DEF IInv
  <2> QED
    BY <1>11, <1>12, <2>3, <2>4 DEF IInv
<1> QED
  BY <1>13, <1>14

-----------------------------------------------------------------------------
(* The theorems.                                                           *)

\* A point as load_pss_data finds it.
LEMMA LoadedType ==
  ASSUME NEW n \in Nat
  PROVE  Loaded(n) \in Record
<1> DEFINE sup == [i \in 1 .. n |-> [no |-> i % SeqLimit, sale |-> i]]
           last == n % SeqLimit
<1>1. \A i \in Nat : i % SeqLimit \in 0 .. SeqLimit - 1
  BY ConstantsAssumption
<1>2. \A i \in 1 .. n : [no |-> i % SeqLimit, sale |-> i] \in Sale
  BY <1>1 DEF Sale
<1>3. sup \in Seq(Sale) /\ last \in 0 .. SeqLimit - 1
  BY <1>1, <1>2
<1>4. Loaded(n) = [main |-> "Idle", preset |-> FALSE, dose |-> 0, grade |-> FALSE,
                   stopped |-> FALSE, closed |-> FALSE, total |-> n, sup |-> sup, last |-> last]
  BY DEF Loaded
<1> HIDE DEF sup, last
<1> QED
  BY <1>3, <1>4 DEF Record, Mains

LEMMA InitOK ==
  ASSUME Init
  PROVE  IInv
<1>1. /\ left \in Plans /\ left.stored \in Nat
      /\ slot = [c \in Clients |-> FreeSlot] /\ thr = [t \in Threads |-> Idle]
      /\ up = [c \in Clients |-> <<>>] /\ down = [c \in Clients |-> <<>>]
      /\ asked = [c \in Clients |-> <<>>]
      /\ \A f \in Points : pump[f].by = <<>>
  BY ConstantsAssumption DEF Init, PlansAssumption
<1>2. Tables
  <2>1. fp \in [Points -> Record]
    BY <1>1, LoadedType DEF Init
  <2>2. FreeSlot \in Slot
    BY DEF FreeSlot, Slot, Cmds, NoRequest
  <2>3. [state |-> "Free", dose |-> 0, sale |-> left.stored, by |-> <<>>] \in Dispenser
    BY <1>1 DEF Dispenser, PumpStates
  <2>4. \A f \in Points : pump[f] \in Dispenser /\ pump[f].dose = 0
    BY <2>3 DEF Init
  <2>5. pump \in [Points -> Dispenser]
    BY <2>3 DEF Init
  <2>6. seen \in [overwritten : SUBSET Points, reused : SUBSET Clients,
                  timedOut : SUBSET Clients, stale : SUBSET Threads, forced : SUBSET Points,
                  renewed : SUBSET Points]
    BY DEF Init
  <2>7. <<>> \in Seq(Request)
    OBVIOUS
  <2>8. unsent \in [Clients -> SUBSET Points]
    BY DEF Init
  <2> QED
    BY <1>1, <2>1, <2>2, <2>4, <2>5, <2>6, <2>7, <2>8 DEF Tables
<1>3. Wires
  <2>1. <<>> \in Seq(Message) /\ <<>> \in Seq(Frame) /\ Len(<<>>) = 0
    OBVIOUS
  <2> QED
    BY <1>1, <2>1, ConstantsAssumption DEF Wires
<1>4. Placed
  BY <1>1, IdleType DEF Placed
<1>5. Copies
  BY <1>1 DEF Copies, Knows, Idle
<1>6. ASSUME NEW c \in Clients PROVE Client(c)
  <2>1. /\ thr[Pos(c)] = Idle /\ thr[Dev(c)] = Idle /\ asked[c] = <<>> /\ up[c] = <<>>
        /\ down[c] = <<>> /\ slot[c].by = NoRequest
    BY <1>1, ThreadsAre DEF FreeSlot
  <2>2. Book(c)
    BY <2>1 DEF Book, Owes, Idle
  <2>3. Honest(c)
    BY <1>1, <2>1 DEF Honest, Idle
  <2>4. OneOrder(c) /\ OneReply(c) /\ OneSender(c)
    BY <2>1 DEF OneOrder, OneReply, OneSender, Sending, Idle
  <2> QED
    BY <2>2, <2>3, <2>4 DEF Client, Truth
<1> QED
  BY <1>2, <1>3, <1>4, <1>5, <1>6 DEF IInv, Types

LEMMA StutterOK ==
  ASSUME IInv, UNCHANGED vars
  PROVE  IInv'
<1>1. Types' /\ Copies'
  BY CopiesStay DEF IInv, vars, Types, Tables, Wires, Placed
<1>2. ASSUME NEW c \in Clients PROVE Client(c)'
  BY OtherClients DEF IInv, vars
<1> QED
  BY <1>1, <1>2 DEF IInv

LEMMA NextOK ==
  ASSUME IInv, Next
  PROVE  IInv'
<1>1. CASE \E t \in Threads : Procedures(t)
  BY <1>1, UnauthorizedStep, AuthorizeStep, ResetStep, SetCodeStep, SetNameStep, SendStep,
     ParamsStep, UpdateStep DEF Procedures
<1>2. CASE \E c \in Clients : Requests(c)
  BY <1>2, AskAuthorizeStep, AskResetStep, AskOpenStep, AskClearStep, AskCloseStep, AskStopStep
     DEF Requests
<1>3. CASE \E c \in Clients : DeviceThread(c)
  BY <1>3, DataStep, StoreStep, ReplyStep, TimeoutStep, ForgetStep, StartFillStep, ReconnectStep
     DEF DeviceThread
<1>4. CASE \E c \in Clients : Serve(c) \/ Push(c)
  BY <1>4, ServeStep, PushStep
<1>5. CASE \E f \in Points : Nozzle(f) \/ Repeat(f) \/ Filled(f)
  BY <1>5, CustomerStep
<1> QED
  BY <1>1, <1>2, <1>3, <1>4, <1>5 DEF Next

LEMMA Always == Spec => []IInv
<1>1. Init => IInv
  BY InitOK
<1>2. IInv /\ [Next]_vars => IInv'
  BY NextOK, StutterOK
<1> QED
  BY <1>1, <1>2, PTL DEF Spec

\* Points, slots and threads keep the values the program gives them.
THEOREM TypeCorrect == Spec => []TypeOK
<1>1. ASSUME Types PROVE TypeOK
  <2>1. fp \in [Points -> [main : {MainStates[i] : i \in DOMAIN MainStates},
            preset : BOOLEAN, dose : Doses \cup {0}, grade : BOOLEAN, stopped : BOOLEAN,
            closed : BOOLEAN, total : Nat, last : 0..SeqLimit - 1,
            sup : Seq([no : 0..SeqLimit - 1, sale : Nat])]]
    BY <1>1, MainsAre DEF Types, Tables, Record, Sale
  <2>2. slot \in [Clients -> [code : {"None", "SetDose", "Reset"}, old : BOOLEAN,
            pss : {"none", "authorize", "reset", "clear"}, by : Nat]]
    <3>1. Commands \cup {"None"} = {"None", "SetDose", "Reset"}
      BY DEF Commands
    <3> QED
      BY <1>1, <3>1 DEF Types, Tables, Slot, Cmds
  <2>3. \A t \in Threads : thr[t].f \in Points \cup {NoPoint}
    BY <1>1 DEF Types, Placed, Thread
  <2>4. \A c \in Clients : Len(up[c]) <= MaxFrames /\ Len(down[c]) <= MaxFrames
    BY <1>1 DEF Types, Wires
  <2> QED
    BY <2>1, <2>2, <2>3, <2>4 DEF TypeOK
<1>2. IInv => TypeOK
  BY <1>1 DEF IInv
<1> QED
  BY <1>2, Always, PTL

\* A point of sale hears of a request at most once: a request that is not answered yet is
\* with its reader or in the slot of its link, never with both, and leaves them when it is
\* answered.
THEOREM HeardOnce == Spec => []OneAnswer
<1>1. ASSUME Types PROVE OneAnswer
  <2> SUFFICES ASSUME NEW c \in Clients, NEW i \in 1 .. Len(asked[c])
               PROVE  Len(asked[c][i].told) <= 1
    BY DEF OneAnswer
  <2>1. asked[c] \in Seq(Request)
    BY <1>1 DEF Types, Tables
  <2>2. asked[c][i] \in Request
    BY <2>1
  <2>3. ASSUME NEW told \in {<<>>, <<"ack">>, <<"rejected">>} PROVE Len(told) <= 1
    <3>1. CASE told = <<>>
      BY <3>1
    <3>2. CASE told = <<"ack">>
      BY <3>2
    <3>3. CASE told = <<"rejected">>
      BY <3>3
    <3> QED
      BY <3>1, <3>2, <3>3
  <2> QED
    BY <2>2, <2>3 DEF Request
<1>2. IInv => OneAnswer
  BY <1>1 DEF IInv
<1> QED
  BY <1>2, Always, PTL

LEMMA ToldAre ==
  ASSUME Types, NEW c \in Clients, NEW i \in 1 .. Len(asked[c])
  PROVE  /\ "ack" \in Answers(c, i) => asked[c][i].told = <<"ack">>
         /\ "rejected" \in Answers(c, i) => asked[c][i].told = <<"rejected">>
<1>1. asked[c] \in Seq(Request)
  BY DEF Types, Tables
<1>2. asked[c][i] \in Request
  BY <1>1
<1>3. ASSUME NEW s, s \in {<<>>, <<"ack">>, <<"rejected">>}
      PROVE  /\ "ack" \in {s[k] : k \in 1 .. Len(s)} => s = <<"ack">>
             /\ "rejected" \in {s[k] : k \in 1 .. Len(s)} => s = <<"rejected">>
  BY <1>3
<1> QED
  BY <1>2, <1>3 DEF Answers, Request

\* An acknowledged request was carried out, as long as the link of the client has had no
\* time-out and its slot was never set and cleared by two threads at once.
THEOREM AcknowledgedWasDone == Spec => []TruthfulAck
<1>1. ASSUME IInv, NEW c \in Clients \ (seen.timedOut \cup seen.reused),
             NEW i \in 1 .. Len(asked[c]), "ack" \in Answers(c, i)
      PROVE  asked[c][i].done
  <2>1. asked[c][i].told = <<"ack">>
    BY <1>1, ToldAre DEF IInv
  <2>2. Honest(c)
    BY <1>1 DEF IInv, Client, Excused, Truth
  <2> QED
    BY <2>1, <2>2 DEF Honest
<1>2. IInv => TruthfulAck
  BY <1>1 DEF TruthfulAck
<1> QED
  BY <1>2, Always, PTL

\* A dispenser starts to fill only when the hardware server carries out a start of it, for
\* which it must hold a dose; the dose is then one that some client's message has set.
LEMMA StartsOnOrder ==
  ASSUME IInv, Next, NEW f \in Points, pump[f].state = "NozzleOut", pump'[f].state = "Filling"
  PROVE  pump[f].by \in Clients \X Nat
<1>1. /\ Tables /\ Wires /\ pump \in [Points -> Dispenser] /\ pump[f] \in Dispenser
      /\ pump[f].by = <<>> => pump[f].dose = 0
  BY DEF IInv, Types, Tables
<1>2. pump' # pump
  OBVIOUS
<1>3. /\ \A t \in Threads : ~Procedures(t)
      /\ \A c \in Clients : ~Requests(c) /\ ~DeviceThread(c) /\ ~Push(c)
  <2>1. ASSUME NEW t \in Threads, Procedures(t) PROVE FALSE
    BY <1>2, <2>1, Zenon DEF Procedures, Unauthorized, Authorize, Reset, SetCode, SetName, Send,
       Params, Update
  <2>2. ASSUME NEW c \in Clients, Requests(c) PROVE FALSE
    BY <1>2, <2>2, Zenon DEF Requests, AskAuthorize, AskReset, AskOpen, AskClear, AskClose, AskStop,
       AskResume
  <2>3. ASSUME NEW c \in Clients, DeviceThread(c) PROVE FALSE
    BY <1>2, <2>3, Zenon DEF DeviceThread, Data, Store, Reply, Timeout, Forget, ForgetTime, StartFill,
       Reconnect
  <2>4. ASSUME NEW c \in Clients, Push(c) PROVE FALSE
    BY <1>2, <2>4 DEF Push
  <2> QED
    BY <2>1, <2>2, <2>3, <2>4
<1>4. ASSUME NEW g \in Points, NEW p \in Dispenser, Changes(g, p), f = g => p.state # "Filling"
      PROVE  FALSE
  BY <1>1, <1>4 DEF Changes
<1>5. ASSUME NEW g \in Points, Nozzle(g) \/ Repeat(g) \/ Filled(g) PROVE FALSE
  <2>1. pump[g] \in Dispenser
    BY <1>1
  <2>2. ASSUME NEW st \in {"NozzleOut", "Free"}, Changes(g, [pump[g] EXCEPT !.state = st])
        PROVE  FALSE
    <3> PICK p : p = [pump[g] EXCEPT !.state = st]
      OBVIOUS
    <3>1. p \in Dispenser /\ p.state = st
      BY <2>1 DEF Dispenser, PumpStates
    <3> QED
      BY <1>4, <2>2, <3>1
  <2>3. CASE Nozzle(g)
    BY <2>2, <2>3 DEF Nozzle
  <2>4. CASE Repeat(g)
    BY <1>4, <2>1, <2>4 DEF Repeat
  <2>5. CASE Filled(g)
    <3> PICK st, sa, no : st = "Finish" /\ sa = pump[g].sale + 1 /\ no = 0
      OBVIOUS
    <3> DEFINE p == [pump[g] EXCEPT !.state = st, !.dose = no, !.sale = sa]
    <3>1. st \in PumpStates /\ sa \in Nat /\ no \in Doses \cup {0}
      BY <2>1 DEF PumpStates, Dispenser
    <3>2. Changes(g, p)
      BY <2>5 DEF Filled
    <3>3. p \in Dispenser /\ p.state = "Finish"
      BY <2>1, <3>1 DEF Dispenser
    <3> HIDE DEF p
    <3> QED
      BY <1>4, <3>2, <3>3
  <2> QED
    BY <1>5, <2>3, <2>4, <2>5
<1>6. PICK c \in Clients : Serve(c)
  BY <1>3, <1>5 DEF Next
<1> PICK m, who : m = Head(up[c]) /\ who = <<c, m.by>>
  OBVIOUS
<1>7. up[c] # <<>> /\ m \in Message /\ m.f \in Points /\ m.code \in Codes /\ who \in Clients \X Nat
  <2>1. up[c] \in Seq(Message) /\ up[c] # <<>>
    BY <1>1, <1>6 DEF Wires, Serve
  <2>2. m \in Message
    BY <2>1
  <2> QED
    BY <2>1, <2>2 DEF Message
<1> PICK q : q = Executed(pump[m.f], m, who)
  OBVIOUS
<1>8. Accepts(pump[m.f], m.code) /\ Changes(m.f, q)
  BY <1>2, <1>6, Zenon DEF Serve
<1>9. m.f = f /\ q.state = "Filling"
  BY <1>1, <1>7, <1>8 DEF Changes
<1>10. m.code \in {"SetDose", "Reset", "Start", "Suspend", "Resume"}
  BY <1>7 DEF Codes, Commands
<1>11. m.code = "Start"
  <2>1. m.code # "Resume" /\ m.code # "Suspend"
    BY <1>8, <1>9 DEF Accepts
  <2>2. m.code # "SetDose"
    <3>1. SUFFICES ASSUME m.code = "SetDose" PROVE FALSE
      OBVIOUS
    <3>2. q = [pump[f] EXCEPT !.dose = m.dose, !.by = who]
      BY <1>9, <3>1 DEF Executed
    <3> QED
      BY <1>1, <1>9, <3>2 DEF Dispenser
  <2>3. m.code # "Reset"
    <3>1. SUFFICES ASSUME m.code = "Reset" PROVE FALSE
      OBVIOUS
    <3> PICK st : st = IF pump[f].state = "Finish" THEN "Free" ELSE pump[f].state
      BY Zenon
    <3>2. q = [pump[f] EXCEPT !.dose = 0, !.state = st]
      BY <1>9, <3>1 DEF Executed
    <3>3. q.state = st /\ st = "NozzleOut"
      BY <1>1, <3>2 DEF Dispenser
    <3> QED
      BY <1>9, <3>3
  <2> QED
    BY <1>10, <2>1, <2>2, <2>3
<1>12. pump[f].dose > 0
  BY <1>8, <1>9, <1>11 DEF Accepts
<1>13. pump[f].by # <<>>
  BY <1>1, <1>12
<1> QED
  BY <1>1, <1>13 DEF Dispenser

\* Action property: a dispenser never starts to fill the dose of a request that its point of
\* sale was told is rejected, but after a time-out or in a slot that two threads used at once.
THEOREM RejectedStaysDry == Spec => NoFuelAfterRejection
<1> DEFINE Step == \A f \in Points : pump[f].state = "NozzleOut" /\ pump[f].state' = "Filling" =>
        LET who == pump[f].by
        IN  \/ who[2] = NoRequest \/ who[1] \in seen.timedOut \cup seen.reused
            \/ "rejected" \notin Answers(who[1], who[2])
<1>1. IInv /\ [Next]_vars => [Step]_vars
  <2> SUFFICES ASSUME IInv, Next, NEW f \in Points, pump[f].state = "NozzleOut",
                      pump'[f].state = "Filling", pump[f].by[2] # NoRequest,
                      pump[f].by[1] \notin seen.timedOut \cup seen.reused,
                      "rejected" \in Answers(pump[f].by[1], pump[f].by[2])
               PROVE  FALSE
    BY DEF vars
  <2> PICK c, i : c = pump[f].by[1] /\ i = pump[f].by[2]
    OBVIOUS
  <2>1. pump[f].by \in Clients \X Nat
    BY StartsOnOrder
  <2>2. c \in Clients /\ pump[f].by # <<>>
    BY <2>1
  <2>3. Honest(c)
    <3>1. Client(c) /\ ~Excused(c)
      <4>1. \A d \in Clients : Client(d)
        BY DEF IInv
      <4> QED
        BY <2>2, <4>1, Zenon DEF Excused
    <3> QED
      BY <3>1, Zenon DEF Client, Truth
  <2>4. i \in 1 .. Len(asked[c]) /\ asked[c][i].done
    BY <2>2, <2>3, Zenon DEF Honest
  <2>5. asked[c][i].told = <<"rejected">>
    BY <2>2, <2>4, ToldAre DEF IInv
  <2>6. ~asked[c][i].done
    BY <2>3, <2>4, <2>5, Zenon DEF Honest
  <2> QED
    BY <2>4, <2>6
<1> QED
  BY <1>1, Always, PTL DEF Spec, NoFuelAfterRejection

\* A step keeps the sales of a point, or writes a copy back that is older than one of them.
SalesKept(f) == Sales(f) \subseteq Sales(f)'
Misled(t, f) == t \in seen.stale /\ thr[t].f = f /\ thr'[t].pc # thr[t].pc

LEMMA SameSales ==
  ASSUME NEW f \in Points, fp'[f].sup = fp[f].sup
  PROVE  SalesKept(f)
  BY DEF SalesKept, Sales

LEMMA ProceduresKeep ==
  ASSUME IInv, NEW t \in Threads, Procedures(t), NEW f \in Points
  PROVE  SalesKept(f) \/ Misled(t, f)
<1>1. /\ Types /\ Tables /\ Placed /\ Knows(t) /\ Proper(t, thr[t]) /\ t[2] \in {"pos", "dev"}
  BY ThreadsAre DEF IInv, Types, Placed, Copies
<1>2. CASE Unauthorized(t) \/ Authorize(t) \/ Reset(t) \/ SetCode(t) \/ SetName(t) \/ Send(t)
  <2>1. fp' = fp
    BY <1>2, Zenon DEF Unauthorized, Authorize, Reset, SetCode, SetName, Send
  <2> QED
    BY <2>1, SameSales
<1> PICK g : g = thr[t].f
  OBVIOUS
<1>3. CASE Params(t)
  <2>1. thr[t].pc = "params" /\ InPlace(g, t, ResetParams(g))
    BY <1>3 DEF Params
  <2>2. g \in Points
    BY <1>1, <2>1 DEF Proper, Working
  <2>3. ResetParams(g) \in Record /\ ResetParams(g).sup = fp[g].sup
    BY <1>1, <2>2, ResetParamsType
  <2>4. fp'[g] = ResetParams(g) /\ \A h \in Points \ {g} : fp'[h] = fp[h]
    BY <1>1, <2>1, <2>2, <2>3, InPlaceIs
  <2> QED
    BY <2>3, <2>4, SameSales
<1>4. CASE Update(t)
  <2> PICK copy : copy = thr[t].copy
    OBVIOUS
  <2>1. thr[t].pc = "update" /\ WriteBack(g, t, copy) /\ Returns(t)
    BY <1>4 DEF Update
  <2>2. g \in Points /\ copy \in Record /\ copy # NoRecord
    BY <1>1, <2>1, RecordIsOne DEF Proper, Working
  <2>3. fp'[g] = copy /\ \A h \in Points \ {g} : fp'[h] = fp[h]
    BY <1>1, <2>1, <2>2, WriteBackIs
  <2>4. thr'[t].pc # thr[t].pc
    <3>1. thr[t].pc \in Working
      BY <2>1 DEF Working
    <3>2. /\ t[2] = "pos" => thr'[t] = Idle
          /\ t[2] = "dev" => thr'[t].pc = "store"
      BY <1>1, <2>1, <3>1, ReturnIs
    <3> QED
      BY <1>1, <2>1, <3>2 DEF Idle
  <2>5. CASE f # g
    BY <2>3, <2>5, SameSales
  <2>6. CASE f = g /\ t \in seen.stale
    BY <2>4, <2>6 DEF Misled
  <2>7. CASE f = g /\ t \notin seen.stale
    <3>1. Sales(g) \subseteq SalesOf(copy.sup)
      BY <1>1, <2>2, <2>7 DEF Knows
    <3>2. Sales(g)' = SalesOf(copy.sup)
      BY <2>3 DEF Sales, SalesOf
    <3> QED
      BY <2>7, <3>1, <3>2 DEF SalesKept
  <2> QED
    BY <2>5, <2>6, <2>7
<1> QED
  BY <1>2, <1>3, <1>4 DEF Procedures

\* A request may change the state of a point, and only a clear its sales.
LEMMA RequestsKeep ==
  ASSUME IInv, NEW c \in Clients, Requests(c), ~AskClear(c), NEW f \in Points
  PROVE  SalesKept(f)
<1>1. Tables /\ Pos(c) \in Threads
  BY ThreadsAre DEF IInv, Types
<1>2. CASE AskAuthorize(c) \/ AskReset(c) \/ AskOpen(c)
  <2>1. fp' = fp
    BY <1>2, Zenon DEF AskAuthorize, AskReset, AskOpen
  <2> QED
    BY <2>1, SameSales
<1>3. CASE AskClose(c)
  <2> PICK b : b = TRUE
    OBVIOUS
  <2>1. PICK g \in Points : fp' = [fp EXCEPT ![g] = [fp[g] EXCEPT !.closed = b]]
    BY <1>3 DEF AskClose, InPlace
  <2> PICK r : r = fp[g]
    OBVIOUS
  <2>2. r \in Record
    BY <1>1 DEF Tables
  <2>3. [r EXCEPT !.closed = b].sup = r.sup
    BY <2>2 DEF Record
  <2>4. fp'[f].sup = fp[f].sup
    BY <1>1, <2>1, <2>3 DEF Tables
  <2> QED
    BY <2>4, SameSales
<1>4. CASE AskStop(c) \/ AskResume(c)
  <2>1. PICK g \in Points, mn \in {"FuellingPaused", "Fuelling"}, b \in BOOLEAN :
          fp' \in {fp, [fp EXCEPT ![g] = [fp[g] EXCEPT !.main = mn, !.stopped = b]]}
    BY <1>4 DEF AskStop, AskResume, Passes
  <2> PICK r : r = fp[g]
    OBVIOUS
  <2>2. r \in Record
    BY <1>1 DEF Tables
  <2>3. [r EXCEPT !.main = mn, !.stopped = b].sup = r.sup
    BY <2>2 DEF Record
  <2>4. fp'[f].sup = fp[f].sup
    BY <1>1, <2>1, <2>3 DEF Tables
  <2> QED
    BY <2>4, SameSales
<1> QED
  BY <1>2, <1>3, <1>4 DEF Requests

LEMMA DeviceKeeps ==
  ASSUME IInv, NEW c \in Clients, DeviceThread(c), NEW f \in Points
  PROVE  SalesKept(f) \/ Misled(Dev(c), f)
<1> PICK t : t = Dev(c)
  OBVIOUS
<1>1. /\ Types /\ Tables /\ Placed /\ t \in Threads /\ t[2] = "dev" /\ Knows(t)
      /\ Proper(t, thr[t])
  BY ThreadsAre DEF IInv, Types, Placed, Copies
<1>2. CASE Data(c) \/ Reply(c) \/ Timeout(c) \/ Forget(c) \/ ForgetTime(c)
  <2>1. fp' = fp
    BY <1>2, Zenon DEF Data, Reply, Timeout, Forget, ForgetTime
  <2> QED
    BY <2>1, SameSales
<1>3. CASE Store(c)
  <2> PICK own, g : own = thr[t].own /\ g = thr[t].f
    OBVIOUS
  <2>1. thr[t].pc = "store" /\ WriteBack(g, t, own) /\ Done(Dev(c))
    BY <1>3 DEF Store
  <2>2. g \in Points /\ own \in Record /\ own # NoRecord
    BY <1>1, <2>1, RecordIsOne DEF Proper, Working
  <2>3. fp'[g] = own /\ \A h \in Points \ {g} : fp'[h] = fp[h]
    BY <1>1, <2>1, <2>2, WriteBackIs
  <2>4. thr'[t].pc # thr[t].pc
    BY <1>1, <2>1, DoneIsIdle DEF Idle
  <2>5. CASE f # g
    BY <2>3, <2>5, SameSales
  <2>6. CASE f = g /\ t \in seen.stale
    BY <2>4, <2>6 DEF Misled
  <2>7. CASE f = g /\ t \notin seen.stale
    <3>1. Sales(g) \subseteq SalesOf(own.sup)
      BY <1>1, <2>2, <2>7 DEF Knows
    <3>2. Sales(g)' = SalesOf(own.sup)
      BY <2>3 DEF Sales, SalesOf
    <3> QED
      BY <2>7, <3>1, <3>2 DEF SalesKept
  <2> QED
    BY <2>5, <2>6, <2>7
<1>4. CASE StartFill(c)
  <2> PICK g, mn : g = thr[t].msg.f /\ mn = "Starting"
    OBVIOUS
  <2>1. thr[t].pc = "start" /\ fp' \in {fp, [fp EXCEPT ![g] = [fp[g] EXCEPT !.main = mn]]}
    BY <1>4 DEF StartFill, InPlace
  <2>2. g \in Points
    BY <1>1, <2>1 DEF Proper, ReplyFrame
  <2> PICK r : r = fp[g]
    OBVIOUS
  <2>3. r \in Record
    BY <1>1, <2>2 DEF Tables
  <2>4. [r EXCEPT !.main = mn].sup = r.sup
    BY <2>3 DEF Record
  <2>5. fp'[f].sup = fp[f].sup
    BY <1>1, <2>1, <2>2, <2>4 DEF Tables
  <2> QED
    BY <2>5, SameSales
<1>5. CASE Reconnect(c)
  <2> PICK r, mn, b : r = fp[f] /\ mn = "Unavailable" /\ b = FALSE
    OBVIOUS
  <2>1. r \in Record
    BY <1>1 DEF Tables
  <2>2. fp'[f] = [r EXCEPT !.main = mn, !.preset = b, !.stopped = b]
    BY <1>5 DEF Reconnect
  <2>3. fp'[f].sup = fp[f].sup
    BY <2>1, <2>2 DEF Record
  <2> QED
    BY <2>3, SameSales
<1> QED
  BY <1>2, <1>3, <1>4, <1>5 DEF DeviceThread

\* What a clear does.
LEMMA ClearIs ==
  ASSUME IInv, NEW c \in Clients, AskClear(c)
  PROVE  \E g \in Points, n \in Nat :
           /\ fp'[g].sup = Without(fp[g].sup, n % ByteMod) /\ fp[g].sup \in Seq(Sale)
           /\ \A h \in Points \ {g} : fp'[h] = fp[h]
           /\ thr[Pos(c)] = Idle
           /\ thr'[Pos(c)].f = g /\ thr'[Pos(c)].msg = [kind |-> "clear", no |-> n]
           /\ \A d \in Clients \ {c} : thr'[Pos(d)] = thr[Pos(d)]
<1>1. PICK g \in Points : \E n \in {fp[g].sup[i].no : i \in 1 .. Len(fp[g].sup)} :
      /\ Asks(c, "clear")
      /\ thr' = [thr EXCEPT ![Pos(c)] = [Idle EXCEPT !.pc = "reset", !.cmd = "clear",
                  !.f = g, !.by = Len(asked[c]) + 1, !.msg = [kind |-> "clear", no |-> n]]]
      /\ InPlace(g, Pos(c), [fp[g] EXCEPT !.sup = Without(@, n % ByteMod)])
  BY DEF AskClear
<1>2. PICK n \in {fp[g].sup[i].no : i \in 1 .. Len(fp[g].sup)} :
      /\ Asks(c, "clear")
      /\ thr' = [thr EXCEPT ![Pos(c)] = [Idle EXCEPT !.pc = "reset", !.cmd = "clear",
                  !.f = g, !.by = Len(asked[c]) + 1, !.msg = [kind |-> "clear", no |-> n]]]
      /\ InPlace(g, Pos(c), [fp[g] EXCEPT !.sup = Without(@, n % ByteMod)])
  BY <1>1
<1>3. /\ Tables /\ Placed /\ Pos(c) \in Threads
      /\ \A d \in Clients \ {c} : Pos(d) \in Threads \ {Pos(c)}
  BY ThreadsAre DEF IInv, Types
<1>4. n \in Nat /\ n % ByteMod \in Nat /\ fp[g] \in Record /\ fp[g].sup \in Seq(Sale)
  <2>1. fp[g] \in Record /\ fp[g].sup \in Seq(Sale)
    BY <1>3 DEF Tables, Record
  <2>2. n \in Nat
    <3>1. PICK i \in 1 .. Len(fp[g].sup) : n = fp[g].sup[i].no
      OBVIOUS
    <3>2. fp[g].sup[i] \in Sale
      BY <2>1
    <3>3. fp[g].sup[i].no \in 0 .. SeqLimit - 1
      BY <3>2 DEF Sale
    <3> QED
      BY <3>1, <3>3
  <2> QED
    BY <2>1, <2>2, ConstantsAssumption
<1>5. fp'[g].sup = Without(fp[g].sup, n % ByteMod) /\ \A h \in Points \ {g} : fp'[h] = fp[h]
  <2> PICK r, s, rec : /\ r = fp[g] /\ s = Without(fp[g].sup, n % ByteMod)
                       /\ rec = [r EXCEPT !.sup = s]
    OBVIOUS
  <2>1. r \in Record /\ s \in Seq(Sale)
    BY <1>4, WithoutType
  <2>2. rec \in Record /\ rec.sup = s
    BY <2>1 DEF Record
  <2>3. InPlace(g, Pos(c), rec)
    BY <1>2
  <2>4. fp'[g] = rec /\ \A h \in Points \ {g} : fp'[h] = fp[h]
    BY <1>3, <2>2, <2>3, InPlaceIs
  <2> QED
    BY <2>2, <2>4
<1>6. thr[Pos(c)] = Idle
  BY <1>2, <1>3 DEF Asks, Placed, Proper
<1>7. /\ thr'[Pos(c)].f = g /\ thr'[Pos(c)].msg = [kind |-> "clear", no |-> n]
      /\ \A d \in Clients \ {c} : thr'[Pos(d)] = thr[Pos(d)]
  <2> PICK by, note : by = Len(asked[c]) + 1 /\ note = [kind |-> "clear", no |-> n]
    OBVIOUS
  <2> PICK p : p = [Idle EXCEPT !.pc = "reset", !.cmd = "clear", !.f = g, !.by = by,
                                !.msg = note]
    OBVIOUS
  <2>1. p.f = g /\ p.msg = note
    BY DEF Idle
  <2>2. thr' = [thr EXCEPT ![Pos(c)] = p] /\ thr \in [Threads -> Thread]
    BY <1>2, <1>3 DEF Placed
  <2>3. thr'[Pos(c)] = p /\ \A d \in Clients \ {c} : thr'[Pos(d)] = thr[Pos(d)]
    BY <1>3, <2>2
  <2> QED
    BY <2>1, <2>3
<1> QED
  BY <1>4, <1>5, <1>6, <1>7

\* Action property: a sale leaves the table when a point of sale clears one, and otherwise
\* only when a thread writes back a copy that it took before the sale was added.
THEOREM SalesAreKept == Spec => SalesStay
<1> DEFINE Step == \A f \in Points :
         \/ Sales(f) \subseteq Sales(f)'
         \/ \E c \in Clients : ~Clears(c, f) /\ (Clears(c, f))'
         \/ \E t \in seen.stale : thr[t].f = f /\ thr[t].pc' # thr[t].pc
<1>1. ASSUME IInv, [Next]_vars PROVE Step
  <2> SUFFICES ASSUME NEW f \in Points, ~SalesKept(f), \A t \in Threads : ~Misled(t, f)
               PROVE  \E c \in Clients : ~Clears(c, f) /\ (Clears(c, f))'
    <3>1. seen.stale \subseteq Threads
      BY <1>1 DEF IInv, Types, Tables
    <3> QED
      BY <3>1 DEF SalesKept, Misled
  <2>1. CASE UNCHANGED vars
    <3>1. fp' = fp
      BY <2>1 DEF vars
    <3> QED
      BY <3>1, SameSales
  <2>2. CASE Next
    <3>1. \A t \in Threads : ~Procedures(t)
      BY <1>1, ProceduresKeep
    <3>2. \A c \in Clients : ~DeviceThread(c) /\ (Requests(c) => AskClear(c))
      BY <1>1, DeviceKeeps, RequestsKeep, ThreadsAre
    <3>3. fp' # fp
      BY SameSales
    <3>4. PICK c \in Clients : AskClear(c)
      BY <2>2, <3>1, <3>2, <3>3, Zenon DEF Next, Serve, Push, Nozzle, Repeat, Filled
    <3>5. PICK g \in Points, n \in Nat :
            /\ \A h \in Points \ {g} : fp'[h] = fp[h]
            /\ thr[Pos(c)] = Idle
            /\ thr'[Pos(c)].f = g /\ thr'[Pos(c)].msg = [kind |-> "clear", no |-> n]
      BY <1>1, <3>4, ClearIs
    <3>6. f = g
      BY <3>5, SameSales
    <3>7. ~Clears(c, f) /\ (Clears(c, f))'
      BY <3>5, <3>6 DEF Clears, Idle, NoRecord
    <3> QED
      BY <3>7
  <2> QED
    BY <1>1, <2>1, <2>2
<1>2. IInv /\ [Next]_vars => [Step]_vars
  BY <1>1
<1> QED
  BY <1>2, Always, PTL DEF Spec, SalesStay

\* The note of a clear that its reader keeps: only a clear makes one.
NoteKept(c) ==
    \/ thr'[Pos(c)] = thr[Pos(c)]
    \/ thr'[Pos(c)].msg = thr[Pos(c)].msg /\ thr'[Pos(c)].f = thr[Pos(c)].f
    \/ thr'[Pos(c)].msg = NoRecord

\* Thread t alone moves, to p.
LEMMA NotesStay ==
  ASSUME Placed, NEW t \in Threads, NEW p, thr' = [thr EXCEPT ![t] = p], NEW c \in Clients,
         t = Pos(c) => p.msg = NoRecord \/ (p.msg = thr[t].msg /\ p.f = thr[t].f)
  PROVE  NoteKept(c)
  BY ThreadsAre DEF Placed, NoteKept

LEMMA NotesKept ==
  ASSUME IInv, [Next]_vars, NEW c \in Clients, ~AskClear(c)
  PROVE  NoteKept(c)
<1>1. Placed /\ \A t \in Threads : thr[t] \in Thread
  BY DEF IInv, Types, Placed
<1>2. \A d \in Clients : Pos(d) \in Threads /\ Dev(d) \in Threads /\ Dev(d) # Pos(c)
  BY ThreadsAre
<1>3. ASSUME thr' = thr PROVE NoteKept(c)
  BY <1>3 DEF NoteKept
<1>4. ASSUME NEW t \in Threads, NEW pc, Goto(t, pc) PROVE NoteKept(c)
  <2> PICK r : r = thr[t]
    OBVIOUS
  <2> PICK p : p = [r EXCEPT !.pc = pc]
    OBVIOUS
  <2>1. p.msg = r.msg /\ p.f = r.f
    BY <1>1 DEF Thread
  <2>2. thr' = [thr EXCEPT ![t] = p]
    BY <1>4 DEF Goto
  <2> QED
    BY <1>1, <2>1, <2>2, NotesStay
<1>5. ASSUME NEW t \in Threads, Returns(t) PROVE NoteKept(c)
  <2> PICK p : p = Return(t)
    OBVIOUS
  <2>1. t = Pos(c) => p = Idle
    BY ThreadsAre DEF Return
  <2>2. Idle.msg = NoRecord
    BY DEF Idle
  <2>3. thr' = [thr EXCEPT ![t] = p]
    BY <1>5 DEF Returns
  <2> QED
    BY <1>1, <2>1, <2>2, <2>3, NotesStay
<1>6. ASSUME NEW d \in Clients, NEW p, thr' = [thr EXCEPT ![Dev(d)] = p] PROVE NoteKept(c)
  BY <1>1, <1>2, <1>6, NotesStay
<1>7. ASSUME NEW t \in Threads, Procedures(t) PROVE NoteKept(c)
  <2>1. CASE Authorize(t)
    <3>1. CASE \E cp, pc : thr' = [thr EXCEPT ![t].copy = cp, ![t].pc = pc]
      <4>1. PICK cp, pc : thr' = [thr EXCEPT ![t].copy = cp, ![t].pc = pc]
        BY <3>1
      <4> PICK r : r = thr[t]
        OBVIOUS
      <4> PICK p : p = [r EXCEPT !.copy = cp, !.pc = pc]
        OBVIOUS
      <4>2. p.msg = r.msg /\ p.f = r.f
        BY <1>1 DEF Thread
      <4>3. thr' = [thr EXCEPT ![t] = p]
        BY <4>1
      <4> QED
        BY <1>1, <4>2, <4>3, NotesStay
    <3>2. CASE Goto(t, "update")
      BY <1>4, <3>2
    <3> QED
      BY <2>1, <3>1, <3>2 DEF Authorize
  <2>2. CASE Unauthorized(t) \/ Params(t) \/ Update(t)
    BY <1>5, <2>2 DEF Unauthorized, Params, Update
  <2>3. CASE Reset(t) \/ SetCode(t) \/ SetName(t) \/ Send(t)
    <3>1. Returns(t) \/ Goto(t, "code") \/ Goto(t, "name") \/ Goto(t, "send")
          \/ Goto(t, "update") \/ Goto(t, "params")
      BY <2>3, Zenon DEF Reset, SetCode, SetName, Send
    <3> QED
      BY <1>4, <1>5, <3>1
  <2> QED
    BY <1>7, <2>1, <2>2, <2>3 DEF Procedures
<1>8. ASSUME NEW d \in Clients, Requests(d) PROVE NoteKept(c)
  <2>1. CASE AskAuthorize(d) \/ AskReset(d) \/ AskOpen(d)
    <3>1. CASE thr' = thr
      BY <1>3, <3>1
    <3>2. CASE \E pc, kind, f, copy : Start(d, pc, kind, f, copy)
      <4>1. PICK pc, kind, f, copy : Start(d, pc, kind, f, copy)
        BY <3>2
      <4> PICK by : by = Len(asked[d]) + 1
        OBVIOUS
      <4> PICK p : p = [Idle EXCEPT !.pc = pc, !.cmd = kind, !.f = f, !.by = by, !.copy = copy]
        OBVIOUS
      <4>2. p.msg = NoRecord
        BY DEF Idle
      <4>3. thr' = [thr EXCEPT ![Pos(d)] = p]
        BY <4>1 DEF Start
      <4> QED
        BY <1>1, <1>2, <4>2, <4>3, NotesStay
    <3> QED
      BY <2>1, <3>1, <3>2 DEF AskAuthorize, AskReset, AskOpen, Answered
  <2>2. CASE AskClose(d) \/ AskStop(d) \/ AskResume(d)
    <3>1. thr' = thr
      BY <2>2, Zenon DEF AskClose, AskStop, AskResume, Answered
    <3> QED
      BY <1>3, <3>1
  <2>3. CASE AskClear(d)
    BY <2>3, ClearIs DEF NoteKept
  <2> QED
    BY <1>8, <2>1, <2>2, <2>3 DEF Requests
<1>9. ASSUME NEW d \in Clients, DeviceThread(d) PROVE NoteKept(c)
  <2>1. CASE Data(d) \/ Reply(d) \/ Timeout(d) \/ Store(d)
    <3>1. thr' = thr \/ \E p : thr' = [thr EXCEPT ![Dev(d)] = p]
      BY <2>1 DEF Data, Reply, Timeout, Store, Done
    <3> QED
      BY <1>3, <1>6, <3>1
  <2>2. CASE Forget(d) \/ ForgetTime(d) \/ StartFill(d)
    <3>1. Goto(Dev(d), "reset time") \/ Goto(Dev(d), "start") \/ Done(Dev(d))
      BY <2>2, Zenon DEF Forget, ForgetTime, StartFill
    <3> QED
      BY <1>2, <1>4, <1>6, <3>1 DEF Done
  <2>3. CASE Reconnect(d)
    BY <1>3, <2>3 DEF Reconnect
  <2> QED
    BY <1>9, <2>1, <2>2, <2>3 DEF DeviceThread
<1>10. ASSUME NEW d \in Clients, Serve(d) \/ Push(d) PROVE NoteKept(c)
  BY <1>3, <1>10, Zenon DEF Serve, Push
<1>11. ASSUME NEW f \in Points, Nozzle(f) \/ Repeat(f) \/ Filled(f) PROVE NoteKept(c)
  BY <1>3, <1>11, Zenon DEF Nozzle, Repeat, Filled
<1>12. ASSUME UNCHANGED vars PROVE NoteKept(c)
  BY <1>3, <1>12 DEF vars
<1> QED
  BY <1>7, <1>8, <1>9, <1>10, <1>11, <1>12, Zenon DEF Next

\* A number that fits a byte is kept as it is.
LEMMA Remainder ==
  ASSUME NEW b \in Nat \ {0}, NEW m \in Nat, m < b
  PROVE  m % b = m
<1> DEFINE q == m \div b
           r == m % b
<1>1. q \in Int /\ r \in 0 .. b - 1 /\ m = b * q + r
  OBVIOUS
<1> HIDE DEF q, r
<1>2. ~(q >= 1) /\ ~(q <= -1)
  <2>1. q >= 1 => b * q >= b
    BY <1>1
  <2>2. q <= -1 => b * q <= -b
    BY <1>1
  <2> QED
    BY <1>1, <2>1, <2>2
<1>3. q = 0
  BY <1>1, <1>2
<1>4. r = m
  BY <1>1, <1>3
<1> QED
  BY <1>4 DEF r

\* Action property: a clear takes the sale with the number asked for, when the number fits a
\* byte and no other sale has it, and no sale besides when that is one of the last two.
THEOREM ClearIsExact == Spec => ClearTakesItsSale
<1> DEFINE Step == \A f \in Points, c \in Clients : ~Clears(c, f) /\ (Clears(c, f))' =>
         \A i \in 1..Len(fp[f].sup) :
            /\ fp[f].sup[i].no = thr[Pos(c)].msg.no' /\ fp[f].sup[i].no < ByteMod
            /\ \A k \in 1..Len(fp[f].sup) : fp[f].sup[k].no = fp[f].sup[i].no => k = i
            => /\ \A k \in 1..Len(fp[f].sup') : fp[f].sup[k].no' # fp[f].sup[i].no
               /\ i + 1 >= Len(fp[f].sup) => Len(fp[f].sup) - Len(fp[f].sup') = 1
<1>1. ASSUME IInv, [Next]_vars PROVE Step
  <2> SUFFICES ASSUME NEW f \in Points, NEW c \in Clients, ~Clears(c, f), Clears(c, f)',
                      NEW i \in 1 .. Len(fp[f].sup), fp[f].sup[i].no = thr'[Pos(c)].msg.no,
                      fp[f].sup[i].no < ByteMod,
                      \A k \in 1 .. Len(fp[f].sup) : fp[f].sup[k].no = fp[f].sup[i].no => k = i
               PROVE  /\ \A k \in 1 .. Len(fp'[f].sup) : fp'[f].sup[k].no # fp[f].sup[i].no
                      /\ i + 1 >= Len(fp[f].sup) => Len(fp[f].sup) - Len(fp'[f].sup) = 1
    OBVIOUS
  <2>1. AskClear(c)
    <3>1. SUFFICES ASSUME ~AskClear(c) PROVE FALSE
      OBVIOUS
    <3>2. NoteKept(c)
      BY <1>1, <3>1, NotesKept
    <3> QED
      BY <3>2 DEF NoteKept, Clears, NoRecord
  <2>2. PICK g \in Points, n \in Nat :
          /\ fp'[g].sup = Without(fp[g].sup, n % ByteMod) /\ fp[g].sup \in Seq(Sale)
          /\ thr'[Pos(c)].f = g /\ thr'[Pos(c)].msg = [kind |-> "clear", no |-> n]
    BY <1>1, <2>1, ClearIs
  <2>3. g = f /\ n = fp[f].sup[i].no
    BY <2>2 DEF Clears
  <2>4. n % ByteMod = n
    <3>1. n \in Nat /\ ByteMod \in Nat \ {0} /\ n < ByteMod
      BY <2>3, ConstantsAssumption
    <3> QED
      BY <3>1, Remainder
  <2> PICK sup, sup2 : sup = fp[f].sup /\ sup2 = fp'[f].sup
    OBVIOUS
  <2>5. sup \in Seq(Sale) /\ sup2 = Without(sup, n) /\ i \in 1 .. Len(sup) /\ sup[i].no = n
        /\ \A k \in 1 .. Len(sup) : sup[k].no = n => k = i
    BY <2>2, <2>3, <2>4
  <2>6. /\ \A k \in 1 .. Len(sup2) : sup2[k].no # n
        /\ i + 1 >= Len(sup) => Len(sup) - Len(sup2) = 1
    <3>1. \A s \in Seq(Sale) : \A j \in 1 .. Len(s) :
            s[j].no = n /\ (\A k \in 1 .. Len(s) : s[k].no = n => k = j)
            => /\ \A k \in 1 .. Len(Without(s, n)) : Without(s, n)[k].no # n
               /\ j + 1 >= Len(s) => Len(s) - Len(Without(s, n)) = 1
      BY WithoutType
    <3> QED
      BY <2>5, <3>1
  <2> QED
    BY <2>3, <2>6
<1>2. IInv /\ [Next]_vars => [Step]_vars
  BY <1>1
<1> QED
  BY <1>2, Always, PTL DEF Spec, ClearTakesItsSale

-----------------------------------------------------------------------------
(* Every fill is recorded once.                                            *)

\* Frame m is about point f.
Of(m, f) == m.kind = "data" /\ m.f = f

\* What n says of a dispenser is not older than what m says: it has not filled less, and
\* when it is found at the end of a fill that m did not show, it has filled more.
Upto(m, n) ==
    /\ m.sale <= n.sale
    /\ m.state # "Finish" /\ n.state = "Finish" => m.sale < n.sale

\* The frames about f come in the order in which they were true.
Stream(c, f) ==
    LET q == down[c] IN
    /\ \A j \in 1 .. Len(q) : Of(q[j], f) => Upto(q[j], pump[f])
    /\ \A j, k \in 1 .. Len(q) : j < k /\ Of(q[j], f) /\ Of(q[k], f) => Upto(q[j], q[k])

\* A client whose link was not there at first hears nothing.
Dark(c) ==
    c \notin left.links =>
        /\ ~stored[c] /\ unsent[c] = {}
        /\ \A j \in 1 .. Len(down[c]) : down[c][j].kind # "data"

Flow == /\ "links" \in DOMAIN left /\ stored \in [Clients -> BOOLEAN]
        /\ \A c \in Clients : Dark(c) /\ \A f \in Points : Stream(c, f)

Distinct(sup) == \A i, j \in 1 .. Len(sup) : sup[i].sale = sup[j].sale => i = j

\* Fill x of f is none that is still to be heard of ...
Before(x, f) ==
    /\ x <= pump[f].sale
    /\ \A c \in Clients : \A j \in 1 .. Len(down[c]) : Of(down[c][j], f) => x <= down[c][j].sale

\* ... and none whose end is.
Ahead(x, f) ==
    /\ pump[f].state = "Finish" => x < pump[f].sale
    /\ \A c \in Clients : \A j \in 1 .. Len(down[c]) :
         Of(down[c][j], f) /\ down[c][j].state = "Finish" => x < down[c][j].sale

Good(r, f) ==
    /\ Distinct(r.sup)
    /\ \A x \in SalesOf(r.sup) : Before(x, f) /\ (r.main = "Fuelling" => Ahead(x, f))

\* The record of f and every copy of it, however old.
Held(f) ==
    ({fp[f]} \cup UNION {{thr[t].copy, thr[t].own} : t \in {u \in Threads : thr[u].f = f}})
        \ {NoRecord}

Heirs(f) == LoneLink /\ f \notin seen.forced => \A r \in Held(f) : Good(r, f)

FInv == IInv /\ Flow /\ \A f \in Points : Heirs(f)

LEMMA UptoChain ==
  ASSUME NEW m, NEW n, NEW o, m.sale \in Nat, n.sale \in Nat, o.sale \in Nat, Upto(m, n), Upto(n, o)
  PROVE  Upto(m, o)
  BY DEF Upto

LEMMA UptoSame ==
  ASSUME NEW m, m.sale \in Nat
  PROVE  Upto(m, m)
  BY DEF Upto

\* The plan keeps its links.
LEMMA LinksKept ==
  ASSUME "links" \in DOMAIN left, [Next]_vars
  PROVE  "links" \in DOMAIN left' /\ left'.links = left.links
<1>1. ASSUME NEW b \in {"requests", "timeouts", "drops", "lifts", "sales"}, Spends(b)
      PROVE  "links" \in DOMAIN left' /\ left'.links = left.links
  <2> PICK n : n = left[b] - 1
    OBVIOUS
  <2>1. left' = [left EXCEPT ![b] = n] /\ b # "links"
    BY <1>1 DEF Spends
  <2> QED
    BY <2>1
<1>2. CASE UNCHANGED left
  BY <1>2
<1>3. ASSUME NEW t \in Threads, Procedures(t) PROVE UNCHANGED left
  BY <1>3, Zenon DEF Procedures, Unauthorized, Authorize, Reset, SetCode, SetName, Send, Params,
                     Update
<1>4. ASSUME NEW c \in Clients, Requests(c) PROVE Spends("requests")
  BY <1>4, Zenon DEF Requests, AskAuthorize, AskReset, AskClear, AskOpen, AskClose, AskStop,
                     AskResume, Asks, Answered
<1>5. ASSUME NEW c \in Clients, DeviceThread(c)
      PROVE  UNCHANGED left \/ Spends("timeouts") \/ Spends("drops")
  BY <1>5, Zenon DEF DeviceThread, Data, Store, Reply, Timeout, Forget, ForgetTime, StartFill,
                     Reconnect
<1>6. ASSUME NEW c \in Clients, Serve(c) \/ Push(c) PROVE UNCHANGED left
  BY <1>6, Zenon DEF Serve, Push
<1>7. ASSUME NEW f \in Points, Nozzle(f) \/ Repeat(f) \/ Filled(f)
      PROVE  Spends("lifts") \/ Spends("sales")
  BY <1>7, Zenon DEF Nozzle, Repeat, Filled
<1>8. ASSUME UNCHANGED vars PROVE UNCHANGED left
  BY <1>8 DEF vars
<1> QED
  BY <1>1, <1>2, <1>3, <1>4, <1>5, <1>6, <1>7, <1>8, Zenon DEF Next

\* The frames about dispensers on the link of c after: those before, but perhaps for the first,
\* and perhaps one more, about a point of which there was something to tell.
Flows(c) ==
    \E r \in {0, 1} : \A j \in 1 .. Len(down'[c]) : down'[c][j].kind = "data" =>
        \/ j + r \in 1 .. Len(down[c]) /\ down'[c][j] = down[c][j + r]
        \/ LET f == down'[c][j].f
           IN  /\ j = Len(down'[c]) /\ f \in unsent[c] /\ pump'[f] = pump[f]
               /\ down'[c][j].state = pump[f].state /\ down'[c][j].sale = pump[f].sale

\* What a step makes of the links and of the dispensers.
Streams ==
    /\ \A f \in Points : Upto(pump[f], pump'[f])
    /\ \A c \in Clients : /\ Flows(c) /\ (stored'[c] => stored[c])
                          /\ stored[c] \/ unsent'[c] \subseteq unsent[c]

LEMMA FlowsSame ==
  ASSUME Wires, NEW c \in Clients, down'[c] = down[c]
  PROVE  Flows(c)
<1>1. Len(down[c]) \in Nat
  BY DEF Wires
<1>2. \A j \in 1 .. Len(down'[c]) : j + 0 \in 1 .. Len(down[c]) /\ down'[c][j] = down[c][j + 0]
  BY <1>1
<1> QED
  BY <1>2 DEF Flows

LEMMA StreamsSame ==
  ASSUME Types, UNCHANGED <<down, pump, unsent, stored>>
  PROVE  Streams
<1>1. \A f \in Points : Upto(pump[f], pump'[f])
  <2>1. \A f \in Points : pump[f].sale \in Nat
    BY DEF Types, Tables, Dispenser
  <2> QED
    BY <2>1, UptoSame
<1> QED
  BY <1>1, FlowsSame DEF Types, Streams

LEMMA ChangesStream ==
  ASSUME Types, NEW f \in Points, NEW p \in Dispenser, Changes(f, p), Upto(pump[f], p)
  PROVE  /\ \A g \in Points : Upto(pump[g], pump'[g])
         /\ \A c \in Clients : stored[c] \/ unsent'[c] \subseteq unsent[c]
<1>1. \A g \in Points : Upto(pump[g], pump'[g])
  <2>1. \A g \in Points : pump[g].sale \in Nat
    BY DEF Types, Tables, Dispenser
  <2>2. pump' = [pump EXCEPT ![f] = p] /\ pump \in [Points -> Dispenser]
    BY DEF Changes, Types, Tables
  <2> QED
    BY <2>1, <2>2, UptoSame
<1>2. \A c \in Clients : stored[c] \/ unsent'[c] \subseteq unsent[c]
  BY DEF Changes
<1> QED
  BY <1>1, <1>2

LEMMA ExecutedUpto ==
  ASSUME NEW p \in Dispenser, NEW m \in Message, NEW who \in Clients \X Nat
  PROVE  Upto(p, Executed(p, m, who))
<1> PICK q : q = Executed(p, m, who)
  OBVIOUS
<1>0. p.sale \in Nat
  BY DEF Dispenser
<1>1. m.code \in {"SetDose", "Reset", "Start", "Suspend", "Resume"}
  BY DEF Message, Codes, Commands
<1>2. CASE m.code = "SetDose"
  <2>1. q = [p EXCEPT !.dose = m.dose, !.by = who]
    BY <1>2 DEF Executed
  <2>2. q.sale = p.sale /\ q.state = p.state
    BY <2>1 DEF Dispenser
  <2> QED
    BY <1>0, <2>2 DEF Upto
<1>3. CASE m.code = "Reset"
  <2> PICK st : st = IF p.state = "Finish" THEN "Free" ELSE p.state
    OBVIOUS
  <2>2. q = [p EXCEPT !.dose = 0, !.state = st]
    BY <1>3 DEF Executed
  <2>3. q.sale = p.sale /\ q.state = st
    BY <2>2 DEF Dispenser
  <2> QED
    BY <1>0, <2>3 DEF Upto
<1>4. CASE m.code \in {"Start", "Suspend", "Resume"}
  <2>1. PICK st \in {"Filling", "Stopped"} : q = [p EXCEPT !.state = st]
    <3>1. CASE m.code = "Start"
      BY <3>1 DEF Executed
    <3>2. CASE m.code = "Suspend"
      BY <3>2 DEF Executed
    <3>3. CASE m.code = "Resume"
      BY <3>3 DEF Executed
    <3> QED
      BY <1>4, <3>1, <3>2, <3>3
  <2>3. q.sale = p.sale /\ q.state = st
    BY <2>1 DEF Dispenser
  <2> QED
    BY <1>0, <2>3 DEF Upto
<1> QED
  BY <1>1, <1>2, <1>3, <1>4

\* A request that is served answers at most, and changes its dispenser at most.
LEMMA ServeStreams ==
  ASSUME IInv, NEW c \in Clients, Serve(c)
  PROVE  Streams
<1>0. PICK m, who : m = Head(up[c]) /\ who = <<c, m.by>>
  OBVIOUS
<1>1. /\ Types /\ Tables /\ Wires /\ Len(down[c]) \in Nat
  BY DEF IInv, Types, Wires
<1>2. /\ up[c] # <<>> /\ Len(down[c]) < MaxFrames /\ up' = [up EXCEPT ![c] = Tail(@)]
      /\ UNCHANGED <<fp, slot, thr, stored, left, seen>>
  BY DEF Serve
<1>3. PICK ok \in BOOLEAN :
        /\ IF ok THEN Changes(m.f, Executed(pump[m.f], m, who)) ELSE UNCHANGED <<pump, unsent>>
        /\ \/ down' = down
           \/ down' = [down EXCEPT ![c] = Append(@, [kind |-> "reply", code |-> m.code,
                                                     ok |-> ok, f |-> m.f])]
  <2> PICK ok : ok = (OrdersOf(m.code) \subseteq Carried /\ Accepts(pump[m.f], m.code))
    OBVIOUS
  <2> QED
    BY <1>0, Zenon DEF Serve
<1>4. m \in Message /\ m.f \in Points /\ m.code \in Codes /\ who \in Clients \X Nat
  <2>1. m \in Message
    BY <1>0, <1>1, <1>2, ServedIs
  <2> QED
    BY <1>0, <2>1 DEF Message
<1>5. ASSUME NEW d \in Clients PROVE Flows(d)
  <2>1. CASE down'[d] = down[d]
    BY <1>1, <2>1, FlowsSame
  <2>2. CASE down'[d] # down[d]
    <3> PICK frame : frame = [kind |-> "reply", code |-> m.code, ok |-> ok, f |-> m.f]
      OBVIOUS
    <3>1. down' = [down EXCEPT ![c] = Append(@, frame)]
      BY <1>3, <2>2
    <3>2. frame \in Frame /\ frame.kind = "reply"
      BY <1>4 DEF ReplyFrame, Frame
    <3>3. Sent(c, frame)
      BY <1>2, <3>1 DEF Sent
    <3>4. /\ \A e \in Clients \ {c} : down'[e] = down[e]
          /\ \A j \in 1 .. Len(down'[c]) :
               \/ j \in 1 .. Len(down[c]) /\ down'[c][j] = down[c][j]
               \/ j = Len(down[c]) + 1 /\ down'[c][j] = frame
      BY <1>1, <3>2, <3>3, AppendedIs
    <3>5. d = c
      BY <2>2, <3>4
    <3>6. \A j \in 1 .. Len(down'[c]) : down'[c][j].kind = "data" =>
            j + 0 \in 1 .. Len(down[c]) /\ down'[c][j] = down[c][j + 0]
      BY <3>2, <3>4
    <3> QED
      BY <3>5, <3>6 DEF Flows
  <2> QED
    BY <2>1, <2>2
<1>6. CASE ~ok
  <2>1. pump' = pump /\ unsent' = unsent
    BY <1>3, <1>6
  <2>2. \A f \in Points : pump[f].sale \in Nat
    BY <1>1 DEF Tables, Dispenser
  <2>3. \A f \in Points : Upto(pump[f], pump'[f])
    BY <2>1, <2>2, UptoSame
  <2> QED
    BY <1>2, <1>5, <2>1, <2>3 DEF Streams
<1>7. CASE ok
  <2> PICK q : q = Executed(pump[m.f], m, who)
    OBVIOUS
  <2>1. pump[m.f] \in Dispenser /\ (pump[m.f].by = <<>> => pump[m.f].dose = 0)
    BY <1>1, <1>4 DEF Tables
  <2>2. q \in Dispenser /\ Upto(pump[m.f], q)
    BY <1>4, <2>1, ExecutedIs, ExecutedUpto
  <2>3. Changes(m.f, q)
    BY <1>3, <1>7
  <2>4. /\ \A g \in Points : Upto(pump[g], pump'[g])
        /\ \A d \in Clients : stored[d] \/ unsent'[d] \subseteq unsent[d]
    BY <1>1, <1>4, <2>2, <2>3, ChangesStream
  <2> QED
    BY <1>2, <1>5, <2>4 DEF Streams
<1> QED
  BY <1>6, <1>7

LEMMA PushStreams ==
  ASSUME IInv, NEW c \in Clients, Push(c)
  PROVE  Streams
<1>1. PICK f \in unsent[c] :
        /\ Len(down[c]) < MaxFrames
        /\ down' = [down EXCEPT ![c] = Append(@, [kind |-> "data", f |-> f,
                        state |-> pump[f].state, sale |-> pump[f].sale, counter |-> pump[f].sale,
                        nozzle |-> pump[f].state \in {"NozzleOut", "Filling", "Stopped"},
                        order |-> IF pump[f].dose = 0 THEN "free" ELSE "set"])]
        /\ unsent' = [unsent EXCEPT ![c] = @ \ {f}]
        /\ UNCHANGED <<pump, stored>>
  BY DEF Push
<1>2. Types /\ Tables /\ Wires /\ Len(down[c]) \in Nat
  BY DEF IInv, Types, Wires
<1>3. PICK m \in DataFrame : /\ down' = [down EXCEPT ![c] = Append(@, m)]
                             /\ m.f = f /\ m.state = pump[f].state /\ m.sale = pump[f].sale
  <2> PICK no, or : /\ no = (pump[f].state \in {"NozzleOut", "Filling", "Stopped"})
                    /\ or = IF pump[f].dose = 0 THEN "free" ELSE "set"
    OBVIOUS
  <2>1. no \in BOOLEAN /\ or \in {"free", "set"}
    OBVIOUS
  <2>2. f \in Points /\ pump[f] \in Dispenser
    BY <1>2 DEF Tables
  <2>3. pump[f].state \in PumpStates /\ pump[f].sale \in Nat
    BY <2>2 DEF Dispenser
  <2> DEFINE m == [kind |-> "data", f |-> f, state |-> pump[f].state, sale |-> pump[f].sale,
                   counter |-> pump[f].sale, nozzle |-> no, order |-> or]
  <2>4. m \in DataFrame /\ m.f = f /\ m.state = pump[f].state /\ m.sale = pump[f].sale
    BY <2>1, <2>2, <2>3 DEF DataFrame
  <2>5. down' = [down EXCEPT ![c] = Append(@, m)]
    BY <1>1
  <2> QED
    BY <2>4, <2>5
<1>4. /\ \A d \in Clients \ {c} : down'[d] = down[d]
      /\ \A j \in 1 .. Len(down'[c]) :
           \/ j \in 1 .. Len(down[c]) /\ down'[c][j] = down[c][j]
           \/ j = Len(down[c]) + 1 /\ down'[c][j] = m
  <2>1. m \in Frame /\ Sent(c, m)
    BY <1>1, <1>3 DEF Frame, Sent
  <2> QED
    BY <1>2, <2>1, AppendedIs
<1>5. Len(down'[c]) = Len(down[c]) + 1
  <2> PICK q : q = down[c]
    OBVIOUS
  <2>1. q \in Seq(Frame) /\ m \in Frame /\ down'[c] = Append(q, m)
    BY <1>2, <1>3 DEF Wires, Frame
  <2> QED
    BY <2>1
<1>6. ASSUME NEW d \in Clients PROVE Flows(d)
  <2>1. CASE d # c
    BY <1>2, <1>4, <2>1, FlowsSame
  <2>2. CASE d = c
    <3>1. ASSUME NEW j \in 1 .. Len(down'[c])
          PROVE  \/ j + 0 \in 1 .. Len(down[c]) /\ down'[c][j] = down[c][j + 0]
                 \/ LET g == down'[c][j].f
                    IN  /\ j = Len(down'[c]) /\ g \in unsent[c] /\ pump'[g] = pump[g]
                        /\ down'[c][j].state = pump[g].state /\ down'[c][j].sale = pump[g].sale
      BY <1>1, <1>2, <1>3, <1>4, <1>5
    <3> QED
      BY <2>2, <3>1 DEF Flows
  <2> QED
    BY <2>1, <2>2
<1>7. \A g \in Points : Upto(pump[g], pump'[g])
  <2>1. \A g \in Points : pump[g].sale \in Nat
    BY <1>2 DEF Tables, Dispenser
  <2> QED
    BY <1>1, <2>1, UptoSame
<1>8. \A d \in Clients : unsent'[d] \subseteq unsent[d] /\ (stored'[d] => stored[d])
  BY <1>1, <1>2 DEF Tables
<1> QED
  BY <1>6, <1>7, <1>8 DEF Streams

LEMMA TakenStreams ==
  ASSUME IInv, NEW c \in Clients, Data(c) \/ Reply(c)
  PROVE  Streams
<1>1. /\ down[c] # <<>> /\ down' = [down EXCEPT ![c] = Tail(@)]
      /\ UNCHANGED <<up, pump, unsent, stored>>
  BY DEF Data, Reply
<1>2. Types /\ Tables /\ Wires
  BY DEF IInv, Types
<1>3. /\ \A d \in Clients \ {c} : down'[d] = down[d]
      /\ \A j \in 1 .. Len(down'[c]) :
           j + 1 \in 1 .. Len(down[c]) /\ down'[c][j] = down[c][j + 1]
  BY <1>1, <1>2, TakenIs
<1>4. Flows(c)
  BY <1>3 DEF Flows
<1>5. \A d \in Clients : Flows(d)
  BY <1>2, <1>3, <1>4, FlowsSame
<1>6. \A g \in Points : Upto(pump[g], pump'[g])
  <2>1. \A g \in Points : pump[g].sale \in Nat
    BY <1>2 DEF Tables, Dispenser
  <2> QED
    BY <1>1, <2>1, UptoSame
<1> QED
  BY <1>1, <1>5, <1>6 DEF Streams

LEMMA ReconnectStreams ==
  ASSUME IInv, stored \in [Clients -> BOOLEAN], NEW c \in Clients, Reconnect(c)
  PROVE  Streams
<1>1. /\ stored' = [stored EXCEPT ![c] = FALSE] /\ down' = [down EXCEPT ![c] = <<>>]
      /\ unsent' = [unsent EXCEPT ![c] = {}] /\ UNCHANGED pump
  BY DEF Reconnect
<1>2. Types /\ Tables /\ Wires
  BY DEF IInv, Types
<1>3. down'[c] = <<>> /\ \A d \in Clients \ {c} : down'[d] = down[d]
  BY <1>1, <1>2 DEF Wires
<1>4. Flows(c)
  <2>1. Len(down'[c]) = 0
    BY <1>3
  <2> QED
    BY <2>1 DEF Flows
<1>5. \A d \in Clients : Flows(d)
  BY <1>2, <1>3, <1>4, FlowsSame
<1>6. \A g \in Points : Upto(pump[g], pump'[g])
  <2>1. \A g \in Points : pump[g].sale \in Nat
    BY <1>2 DEF Tables, Dispenser
  <2> QED
    BY <1>1, <2>1, UptoSame
<1>7. \A d \in Clients : (stored'[d] => stored[d]) /\ unsent'[d] \subseteq unsent[d]
  BY <1>1, <1>2 DEF Tables
<1> QED
  BY <1>5, <1>6, <1>7 DEF Streams

LEMMA CustomerStreams ==
  ASSUME IInv, NEW f \in Points, Nozzle(f) \/ Repeat(f) \/ Filled(f)
  PROVE  Streams
<1>1. /\ Types /\ Tables /\ Wires /\ pump[f] \in Dispenser /\ pump[f].sale \in Nat
  BY DEF IInv, Types, Tables, Dispenser
<1>2. UNCHANGED <<down, stored>>
  BY DEF Nozzle, Repeat, Filled
<1>3. PICK p \in Dispenser : Changes(f, p) /\ Upto(pump[f], p)
  <2>1. CASE Nozzle(f)
    <3>1. PICK st \in {"NozzleOut", "Free"} : Changes(f, [pump[f] EXCEPT !.state = st])
      BY <2>1 DEF Nozzle
    <3>2. st \in PumpStates /\ st # "Finish"
      BY DEF PumpStates
    <3> PICK p : p = [pump[f] EXCEPT !.state = st]
      OBVIOUS
    <3>3. p \in Dispenser /\ p.sale = pump[f].sale /\ p.state = st
      BY <1>1, <3>2 DEF Dispenser
    <3>4. Upto(pump[f], p)
      BY <1>1, <3>2, <3>3 DEF Upto
    <3> QED
      BY <3>1, <3>3, <3>4
  <2>2. CASE Repeat(f)
    BY <1>1, <2>2, UptoSame DEF Repeat
  <2>3. CASE Filled(f)
    <3> PICK st, sa, no : st = "Finish" /\ sa = pump[f].sale + 1 /\ no = 0
      OBVIOUS
    <3> PICK p : p = [pump[f] EXCEPT !.state = st, !.dose = no, !.sale = sa]
      OBVIOUS
    <3>1. st \in PumpStates /\ sa \in Nat /\ no \in Doses \cup {0}
      BY <1>1 DEF PumpStates
    <3>2. Changes(f, p)
      BY <2>3 DEF Filled
    <3>3. p \in Dispenser /\ p.sale = pump[f].sale + 1
      BY <1>1, <3>1 DEF Dispenser
    <3>4. Upto(pump[f], p)
      BY <1>1, <3>3 DEF Upto
    <3> QED
      BY <3>2, <3>3, <3>4
  <2> QED
    BY <2>1, <2>2, <2>3
<1>4. /\ \A g \in Points : Upto(pump[g], pump'[g])
      /\ \A c \in Clients : stored[c] \/ unsent'[c] \subseteq unsent[c]
  BY <1>1, <1>3, ChangesStream
<1>5. \A d \in Clients : Flows(d)
  BY <1>1, <1>2, FlowsSame
<1> QED
  BY <1>2, <1>4, <1>5 DEF Streams

LEMMA NextStreams ==
  ASSUME IInv, stored \in [Clients -> BOOLEAN], [Next]_vars
  PROVE  Streams
<1>0. Types
  BY DEF IInv
<1>1. CASE UNCHANGED <<down, pump, unsent, stored>>
  BY <1>0, <1>1, StreamsSame
<1>2. ASSUME NEW t \in Threads, Procedures(t) PROVE UNCHANGED <<down, pump, unsent, stored>>
  BY <1>2, Zenon DEF Procedures, Unauthorized, Authorize, Reset, SetCode, SetName, Send, Params,
                     Update
<1>3. ASSUME NEW c \in Clients, Requests(c) PROVE UNCHANGED <<down, pump, unsent, stored>>
  BY <1>3, Zenon DEF Requests, AskAuthorize, AskReset, AskClear, AskOpen, AskClose, AskStop,
                     AskResume
<1>4. ASSUME NEW c \in Clients, Store(c) \/ Timeout(c) \/ Forget(c) \/ ForgetTime(c) \/ StartFill(c)
      PROVE  UNCHANGED <<down, pump, unsent, stored>>
  BY <1>4, Zenon DEF Store, Timeout, Forget, ForgetTime, StartFill
<1>5. ASSUME UNCHANGED vars PROVE UNCHANGED <<down, pump, unsent, stored>>
  BY <1>5 DEF vars
<1>6. ASSUME NEW c \in Clients, DeviceThread(c) PROVE Streams
  BY <1>1, <1>4, <1>6, TakenStreams, ReconnectStreams DEF DeviceThread
<1> QED
  BY <1>1, <1>2, <1>3, <1>5, <1>6, ServeStreams, PushStreams, CustomerStreams, Zenon DEF Next

LEMMA StoredKept ==
  ASSUME stored \in [Clients -> BOOLEAN], [Next]_vars
  PROVE  stored' \in [Clients -> BOOLEAN]
<1>1. CASE UNCHANGED stored
  BY <1>1
<1>2. ASSUME NEW t \in Threads, Procedures(t) PROVE UNCHANGED stored
  BY <1>2, Zenon DEF Procedures, Unauthorized, Authorize, Reset, SetCode, SetName, Send, Params,
                     Update
<1>3. ASSUME NEW c \in Clients, Requests(c) PROVE UNCHANGED stored
  BY <1>3, Zenon DEF Requests, AskAuthorize, AskReset, AskClear, AskOpen, AskClose, AskStop,
                     AskResume
<1>4. ASSUME NEW c \in Clients, DeviceThread(c), ~Reconnect(c) PROVE UNCHANGED stored
  BY <1>4, Zenon DEF DeviceThread, Data, Store, Reply, Timeout, Forget, ForgetTime, StartFill
<1>5. ASSUME NEW c \in Clients, Reconnect(c) PROVE stored' \in [Clients -> BOOLEAN]
  BY <1>5 DEF Reconnect
<1>6. ASSUME NEW c \in Clients, Serve(c) \/ Push(c) PROVE UNCHANGED stored
  BY <1>6, Zenon DEF Serve, Push
<1>7. ASSUME NEW f \in Points, Nozzle(f) \/ Repeat(f) \/ Filled(f) PROVE UNCHANGED stored
  BY <1>7, Zenon DEF Nozzle, Repeat, Filled
<1>8. ASSUME UNCHANGED vars PROVE UNCHANGED stored
  BY <1>8 DEF vars
<1> QED
  BY <1>1, <1>2, <1>3, <1>4, <1>5, <1>6, <1>7, <1>8, Zenon DEF Next

\* What frames and dispensers are counted with.
LEMMA SalesAreNat ==
  ASSUME NEW ps \in [Points -> Dispenser], NEW ds \in [Clients -> Seq(Frame)]
  PROVE  /\ \A f \in Points : ps[f].sale \in Nat
         /\ \A c \in Clients : /\ Len(ds[c]) \in Nat
              /\ \A j \in 1 .. Len(ds[c]) : ds[c][j].kind = "data" =>
                   ds[c][j] \in DataFrame /\ ds[c][j].f \in Points /\ ds[c][j].sale \in Nat
<1>1. \A f \in Points : ps[f].sale \in Nat
  BY DEF Dispenser
<1>2. ASSUME NEW c \in Clients
      PROVE  /\ Len(ds[c]) \in Nat
             /\ \A j \in 1 .. Len(ds[c]) : ds[c][j].kind = "data" => ds[c][j] \in DataFrame
  <2>1. ds[c] \in Seq(Frame)
    OBVIOUS
  <2>2. \A j \in 1 .. Len(ds[c]) : ds[c][j] \in Frame
    BY <2>1
  <2> QED
    BY <2>1, <2>2 DEF Frame, ReplyFrame
<1>3. \A m \in DataFrame : m.f \in Points /\ m.sale \in Nat
  BY DEF DataFrame
<1> QED
  BY <1>1, <1>2, <1>3

LEMMA DarkKept ==
  ASSUME IInv, IInv', Flow, Streams, left'.links = left.links, NEW c \in Clients
  PROVE  Dark(c)'
<1> SUFFICES ASSUME c \notin left.links
             PROVE  /\ ~stored'[c] /\ unsent'[c] = {}
                    /\ \A j \in 1 .. Len(down'[c]) : down'[c][j].kind # "data"
  BY DEF Dark
<1>1. /\ ~stored[c] /\ unsent[c] = {}
      /\ \A j \in 1 .. Len(down[c]) : down[c][j].kind # "data"
  BY DEF Flow, Dark
<1>2. ~stored'[c] /\ unsent'[c] = {}
  BY <1>1 DEF Streams
<1>3. \A j \in 1 .. Len(down'[c]) : down'[c][j].kind # "data"
  BY <1>1 DEF Streams, Flows
<1> QED
  BY <1>2, <1>3

LEMMA StreamKept ==
  ASSUME IInv, IInv', Flow, Streams, NEW c \in Clients, NEW f \in Points
  PROVE  Stream(c, f)'
<1> PICK p, q, p1, q1 : p = pump[f] /\ q = down[c] /\ p1 = pump'[f] /\ q1 = down'[c]
  OBVIOUS
<1>1. /\ p.sale \in Nat /\ p1.sale \in Nat /\ Len(q) \in Nat /\ Len(q1) \in Nat
      /\ \A j \in 1 .. Len(q) : Of(q[j], f) => q[j].sale \in Nat
      /\ \A j \in 1 .. Len(q1) : Of(q1[j], f) => q1[j].sale \in Nat
  <2>1. /\ pump \in [Points -> Dispenser] /\ down \in [Clients -> Seq(Frame)]
        /\ pump' \in [Points -> Dispenser] /\ down' \in [Clients -> Seq(Frame)]
    BY DEF IInv, Types, Tables, Wires
  <2>2. /\ p.sale \in Nat /\ Len(q) \in Nat
        /\ \A j \in 1 .. Len(q) : Of(q[j], f) => q[j].sale \in Nat
    BY <2>1, SalesAreNat DEF Of
  <2>3. /\ \A g \in Points : pump'[g].sale \in Nat
        /\ \A d \in Clients : /\ Len(down'[d]) \in Nat
             /\ \A j \in 1 .. Len(down'[d]) : down'[d][j].kind = "data" =>
                  down'[d][j] \in DataFrame /\ down'[d][j].f \in Points /\ down'[d][j].sale \in Nat
    BY <2>1, SalesAreNat
  <2> QED
    BY <2>2, <2>3 DEF Of
<1>2. /\ \A j \in 1 .. Len(q) : Of(q[j], f) => Upto(q[j], p)
      /\ \A j, k \in 1 .. Len(q) : j < k /\ Of(q[j], f) /\ Of(q[k], f) => Upto(q[j], q[k])
  BY DEF Flow, Stream
<1>3. Upto(p, p1)
  BY DEF Streams
<1>4. PICK r \in {0, 1} : \A j \in 1 .. Len(q1) : Of(q1[j], f) =>
        \/ j + r \in 1 .. Len(q) /\ q1[j] = q[j + r]
        \/ j = Len(q1) /\ p1 = p /\ q1[j].state = p.state /\ q1[j].sale = p.sale
  BY DEF Streams, Flows, Of
<1>5. ASSUME NEW j \in 1 .. Len(q1), Of(q1[j], f), j + r \in 1 .. Len(q), q1[j] = q[j + r]
      PROVE  Upto(q1[j], p)
  BY <1>2, <1>5
<1>6. ASSUME NEW j \in 1 .. Len(q1), Of(q1[j], f) PROVE Upto(q1[j], p1)
  <2>1. CASE j + r \in 1 .. Len(q) /\ q1[j] = q[j + r]
    BY <1>1, <1>3, <1>5, <1>6, <2>1, UptoChain
  <2>2. CASE p1 = p /\ q1[j].state = p.state /\ q1[j].sale = p.sale
    BY <1>1, <2>2 DEF Upto
  <2> QED
    BY <1>4, <1>6, <2>1, <2>2
<1>7. ASSUME NEW j \in 1 .. Len(q1), NEW k \in 1 .. Len(q1), j < k, Of(q1[j], f), Of(q1[k], f)
      PROVE  Upto(q1[j], q1[k])
  <2>1. j + r \in 1 .. Len(q) /\ q1[j] = q[j + r]
    BY <1>1, <1>4, <1>7
  <2>2. CASE k + r \in 1 .. Len(q) /\ q1[k] = q[k + r]
    <3>1. j + r < k + r
      BY <1>7
    <3> QED
      BY <1>2, <1>7, <2>1, <2>2, <3>1
  <2>3. CASE q1[k].state = p.state /\ q1[k].sale = p.sale
    <3>1. Upto(q1[j], p)
      BY <1>5, <1>7, <2>1
    <3> QED
      BY <2>3, <3>1 DEF Upto
  <2> QED
    BY <1>4, <1>7, <2>2, <2>3
<1> QED
  BY <1>6, <1>7 DEF Stream

LEMMA FlowKept ==
  ASSUME IInv, IInv', Flow, [Next]_vars
  PROVE  Flow' /\ Streams
<1>1. Streams
  BY NextStreams DEF Flow
<1>2. "links" \in DOMAIN left' /\ left'.links = left.links /\ stored' \in [Clients -> BOOLEAN]
  BY LinksKept, StoredKept DEF Flow
<1> QED
  BY <1>1, <1>2, DarkKept, StreamKept DEF Flow

\* What is still to be heard of is behind what was.
LEMMA BeforeKept ==
  ASSUME IInv, IInv', Streams, NEW f \in Points, NEW x \in Nat, Before(x, f)
  PROVE  Before(x, f)' /\ (Ahead(x, f) => Ahead(x, f)')
<1>1. /\ pump[f].sale \in Nat /\ pump'[f].sale \in Nat
      /\ Upto(pump[f], pump'[f])
  <2>1. /\ pump \in [Points -> Dispenser] /\ down \in [Clients -> Seq(Frame)]
        /\ pump' \in [Points -> Dispenser]
    BY DEF IInv, Types, Tables, Wires
  <2>2. pump[f].sale \in Nat
    BY <2>1, SalesAreNat
  <2>3. \A g \in Points : pump'[g].sale \in Nat
    BY <2>1, SalesAreNat
  <2> QED
    BY <2>2, <2>3 DEF Streams
<1>2. x <= pump[f].sale
  BY DEF Before
<1>3. ASSUME NEW c \in Clients, NEW j \in 1 .. Len(down'[c]), Of(down'[c][j], f)
      PROVE  \/ \E i \in 1 .. Len(down[c]) : down'[c][j] = down[c][i]
             \/ down'[c][j].state = pump[f].state /\ down'[c][j].sale = pump[f].sale
  BY <1>3 DEF Streams, Flows, Of
<1>4. x <= pump'[f].sale
  BY <1>1, <1>2 DEF Upto
<1>5. ASSUME NEW c \in Clients, NEW j \in 1 .. Len(down'[c]), Of(down'[c][j], f)
      PROVE  x <= down'[c][j].sale
  <2>1. \A i \in 1 .. Len(down[c]) : Of(down[c][i], f) => x <= down[c][i].sale
    BY DEF Before
  <2> QED
    BY <1>2, <1>3, <1>5, <2>1
<1>6. Before(x, f)'
  BY <1>4, <1>5 DEF Before
<1>7. ASSUME Ahead(x, f) PROVE Ahead(x, f)'
  <2>1. ASSUME pump'[f].state = "Finish" PROVE x < pump'[f].sale
    <3>1. CASE pump[f].state = "Finish"
      BY <1>1, <1>7, <3>1 DEF Ahead, Upto
    <3>2. CASE pump[f].state # "Finish"
      BY <1>1, <1>2, <2>1, <3>2 DEF Upto
    <3> QED
      BY <3>1, <3>2
  <2>2. ASSUME NEW c \in Clients, NEW j \in 1 .. Len(down'[c]), Of(down'[c][j], f),
               down'[c][j].state = "Finish"
        PROVE  x < down'[c][j].sale
    <3>1. \A i \in 1 .. Len(down[c]) :
            Of(down[c][i], f) /\ down[c][i].state = "Finish" => x < down[c][i].sale
      BY <1>7 DEF Ahead
    <3>2. pump[f].state = "Finish" => x < pump[f].sale
      BY <1>7 DEF Ahead
    <3> QED
      BY <1>3, <2>2, <3>1, <3>2
  <2> QED
    BY <2>1, <2>2 DEF Ahead
<1> QED
  BY <1>6, <1>7

\* Record r has no sale that s has not, and is not Fuelling when s is not.
Tame(r, s) ==
    /\ Distinct(s.sup) => Distinct(r.sup)
    /\ SalesOf(r.sup) \subseteq SalesOf(s.sup)
    /\ r.main = "Fuelling" => s.main = "Fuelling"

\* Record r comes from one that was held of f before.
Descends(r, f) == \E s \in Held(f) : Tame(r, s)
Derives(f) == \A r \in Held(f)' : Descends(r, f)

LEMMA TameSame ==
  ASSUME NEW r, NEW s, r.sup = s.sup, r.main = s.main \/ r.main # "Fuelling"
  PROVE  Tame(r, s)
  BY DEF Tame

LEMMA HeldAre ==
  ASSUME IInv
  PROVE  /\ \A f \in Points : fp[f] \in Held(f) /\ fp[f] \in Record
         /\ \A t \in Threads : {thr[t].copy, thr[t].own} \ {NoRecord} \subseteq Held(thr[t].f)
<1>1. \A f \in Points : fp[f] \in Record /\ fp[f] # NoRecord
  BY RecordIsOne DEF IInv, Types, Tables
<1> QED
  BY <1>1 DEF Held

LEMMA DescendsSelf ==
  ASSUME NEW f \in Points, NEW s \in Held(f), NEW r, r.sup = s.sup,
         r.main = s.main \/ r.main # "Fuelling"
  PROVE  Descends(r, f)
  BY TameSame DEF Descends

\* Thread t alone moves, to p.
LEMMA HeldMoves ==
  ASSUME IInv, NEW t \in Threads, NEW p, thr' = [thr EXCEPT ![t] = p], NEW f \in Points,
         Descends(fp'[f], f),
         p.f = f => \A r \in {p.copy, p.own} \ {NoRecord} : Descends(r, f)
  PROVE  Derives(f)
<1>1. thr'[t] = p /\ \A u \in Threads \ {t} : thr'[u] = thr[u]
  BY DEF IInv, Types, Placed
<1> SUFFICES ASSUME NEW r \in Held(f)' PROVE Descends(r, f)
  BY DEF Derives
<1>2. CASE r = fp'[f]
  BY <1>2
<1>3. CASE r # fp'[f]
  <2>1. PICK u \in Threads : /\ thr'[u].f = f /\ r # NoRecord
                             /\ r = thr'[u].copy \/ r = thr'[u].own
    BY <1>3 DEF Held
  <2>2. CASE u = t
    BY <1>1, <2>1, <2>2
  <2>3. CASE u # t
    <3>1. r \in Held(f)
      BY <1>1, <2>1, <2>3, HeldAre
    <3> QED
      BY <3>1, DescendsSelf
  <2> QED
    BY <2>2, <2>3
<1> QED
  BY <1>2, <1>3

\* What it holds then it held before.
Carries(t, p) ==
    \A r \in {p.copy, p.own} \ {NoRecord} : p.f = thr[t].f /\ r \in {thr[t].copy, thr[t].own}

LEMMA HeldCarried ==
  ASSUME IInv, NEW t \in Threads, NEW p, thr' = [thr EXCEPT ![t] = p], Carries(t, p),
         NEW f \in Points, Descends(fp'[f], f)
  PROVE  Derives(f)
<1>1. ASSUME p.f = f, NEW r \in {p.copy, p.own} \ {NoRecord} PROVE Descends(r, f)
  <2>1. r \in Held(f)
    BY <1>1, HeldAre DEF Carries
  <2> QED
    BY <2>1, DescendsSelf
<1> QED
  BY <1>1, HeldMoves

LEMMA HeldSame ==
  ASSUME IInv, UNCHANGED thr, NEW f \in Points, Descends(fp'[f], f)
  PROVE  Derives(f)
<1> SUFFICES ASSUME NEW r \in Held(f)' PROVE Descends(r, f)
  BY DEF Derives
<1>1. CASE r = fp'[f]
  BY <1>1
<1>2. CASE r # fp'[f]
  <2>1. r \in Held(f)
    BY <1>2, HeldAre DEF Held
  <2> QED
    BY <2>1, DescendsSelf
<1> QED
  BY <1>1, <1>2

\* How a thread goes on with what it holds, and how it drops it.
LEMMA GotoCarries ==
  ASSUME IInv, NEW t \in Threads, NEW pc, Goto(t, pc)
  PROVE  \E p : thr' = [thr EXCEPT ![t] = p] /\ Carries(t, p)
<1> PICK r : r = thr[t]
  OBVIOUS
<1> PICK p : p = [r EXCEPT !.pc = pc]
  OBVIOUS
<1>1. r \in Thread
  BY DEF IInv, Types, Placed
<1>2. p.f = r.f /\ p.copy = r.copy /\ p.own = r.own
  BY <1>1 DEF Thread
<1>3. thr' = [thr EXCEPT ![t] = p]
  BY DEF Goto
<1> QED
  BY <1>2, <1>3 DEF Carries

LEMMA IdleCarries ==
  ASSUME NEW t \in Threads
  PROVE  Carries(t, Idle)
  BY DEF Carries, Idle

LEMMA ReturnsCarries ==
  ASSUME IInv, NEW t \in Threads, Returns(t)
  PROVE  \E p : thr' = [thr EXCEPT ![t] = p] /\ Carries(t, p)
<1> PICK r, p, pc : r = thr[t] /\ p = Return(t) /\ pc = "store"
  OBVIOUS
<1>1. r \in Thread
  BY DEF IInv, Types, Placed
<1>2. CASE t[2] = "dev"
  <2>1. p = [r EXCEPT !.pc = pc, !.copy = NoRecord]
    BY <1>2 DEF Return
  <2>2. p.f = r.f /\ p.copy = NoRecord /\ p.own = r.own
    BY <1>1, <2>1 DEF Thread
  <2> QED
    BY <2>2 DEF Carries, Returns
<1>3. CASE t[2] # "dev"
  <2>1. p = Idle
    BY <1>3 DEF Return
  <2> QED
    BY <2>1, IdleCarries DEF Returns
<1> QED
  BY <1>2, <1>3

LEMMA ProceduresHold ==
  ASSUME IInv, NEW t \in Threads, Procedures(t), NEW f \in Points
  PROVE  Derives(f)
<1>1. /\ Types /\ Tables /\ Placed /\ Proper(t, thr[t]) /\ thr[t] \in Thread
  BY DEF IInv, Types, Placed
<1>2. UNCHANGED fp => Descends(fp'[f], f)
  BY HeldAre, DescendsSelf
<1>3. CASE Unauthorized(t) \/ Reset(t) \/ SetCode(t) \/ SetName(t) \/ Send(t)
  <2>1. UNCHANGED fp
    BY <1>3, Zenon DEF Unauthorized, Reset, SetCode, SetName, Send
  <2>2. Returns(t) \/ \E pc : Goto(t, pc)
    BY <1>3, Zenon DEF Unauthorized, Reset, SetCode, SetName, Send
  <2> QED
    BY <1>2, <2>1, <2>2, GotoCarries, ReturnsCarries, HeldCarried
<1>4. CASE Authorize(t)
  <2>1. UNCHANGED fp /\ thr[t].pc = "authorize"
    BY <1>4 DEF Authorize
  <2>2. CASE \E pc : Goto(t, pc)
    BY <1>2, <2>1, <2>2, GotoCarries, HeldCarried
  <2>3. CASE ~\E pc : Goto(t, pc)
    <3> PICK r, cp : r = thr[t] /\ cp = thr[t].copy
      OBVIOUS
    <3> PICK new, mn : new = [cp EXCEPT !.main = mn] /\ mn = "PreAuthorized"
      OBVIOUS
    <3>1. cp \in Record /\ cp # NoRecord
      BY <1>1, <2>1, RecordIsOne DEF Proper
    <3>2. new.sup = cp.sup /\ new.main # "Fuelling"
      BY <3>1 DEF Record
    <3>3. PICK pc : thr' = [thr EXCEPT ![t].copy = new, ![t].pc = pc]
      BY <1>4, <2>3 DEF Authorize
    <3> PICK p : p = [r EXCEPT !.copy = new, !.pc = pc]
      OBVIOUS
    <3>4. p.f = r.f /\ p.copy = new /\ p.own = r.own
      BY <1>1 DEF Thread
    <3>5. thr' = [thr EXCEPT ![t] = p]
      BY <3>3
    <3>6. ASSUME p.f = f, NEW x \in {p.copy, p.own} \ {NoRecord} PROVE Descends(x, f)
      <4>1. CASE x = new
        <5>1. cp \in Held(f)
          BY <3>1, <3>4, <3>6, HeldAre
        <5> QED
          BY <3>2, <4>1, <5>1, DescendsSelf
      <4>2. CASE x = r.own
        <5>1. x \in Held(f)
          BY <3>4, <3>6, <4>2, HeldAre
        <5> QED
          BY <5>1, DescendsSelf
      <4> QED
        BY <3>4, <3>6, <4>1, <4>2
    <3> QED
      BY <1>2, <2>1, <3>5, <3>6, HeldMoves
  <2> QED
    BY <2>2, <2>3
<1> PICK g : g = thr[t].f
  OBVIOUS
<1>5. CASE Params(t)
  <2>1. thr[t].pc = "params" /\ InPlace(g, t, ResetParams(g)) /\ Returns(t)
    BY <1>5 DEF Params
  <2>2. g \in Points
    BY <1>1, <2>1 DEF Proper, Working
  <2>3. /\ ResetParams(g) \in Record /\ ResetParams(g).sup = fp[g].sup
        /\ ResetParams(g).main = fp[g].main
    <3>1. \A r \in Record : [r EXCEPT !.preset = FALSE, !.dose = 0, !.stopped = FALSE].main = r.main
      BY DEF Record
    <3>2. ResetParams(g).main = fp[g].main
      BY <1>1, <2>2, <3>1 DEF ResetParams, Tables
    <3> QED
      BY <1>1, <2>2, <3>2, ResetParamsType
  <2>4. fp'[g] = ResetParams(g) /\ \A h \in Points \ {g} : fp'[h] = fp[h]
    BY <1>1, <2>1, <2>2, <2>3, InPlaceIs
  <2>5. Descends(fp'[f], f)
    BY <2>3, <2>4, HeldAre, DescendsSelf
  <2> QED
    BY <2>1, <2>5, ReturnsCarries, HeldCarried
<1>6. CASE Update(t)
  <2> PICK copy : copy = thr[t].copy
    OBVIOUS
  <2>1. thr[t].pc = "update" /\ WriteBack(g, t, copy) /\ Returns(t)
    BY <1>6 DEF Update
  <2>2. g \in Points /\ copy \in Record /\ copy # NoRecord
    BY <1>1, <2>1, RecordIsOne DEF Proper, Working
  <2>3. fp'[g] = copy /\ \A h \in Points \ {g} : fp'[h] = fp[h]
    BY <1>1, <2>1, <2>2, WriteBackIs
  <2>4. copy \in Held(g)
    BY <2>2, HeldAre
  <2>5. Descends(fp'[f], f)
    BY <2>3, <2>4, HeldAre, DescendsSelf
  <2> QED
    BY <2>1, <2>5, ReturnsCarries, HeldCarried
<1> QED
  BY <1>3, <1>4, <1>5, <1>6 DEF Procedures

\* The reader of c begins with record r, which is held of point g, or with none.
LEMMA StartsHeld ==
  ASSUME IInv, NEW c \in Clients, NEW pc, NEW kind, NEW g, NEW r, Start(c, pc, kind, g, r),
         NEW f \in Points, Descends(fp'[f], f), g = f /\ r # NoRecord => Descends(r, f)
  PROVE  Derives(f)
<1> PICK by : by = Len(asked[c]) + 1
  OBVIOUS
<1> PICK p : p = [Idle EXCEPT !.pc = pc, !.cmd = kind, !.f = g, !.by = by, !.copy = r]
  OBVIOUS
<1>1. p.f = g /\ p.copy = r /\ p.own = NoRecord
  BY DEF Idle
<1>2. thr' = [thr EXCEPT ![Pos(c)] = p] /\ Pos(c) \in Threads
  BY ThreadsAre DEF Start
<1> QED
  BY <1>1, <1>2, HeldMoves

LEMMA RequestsHold ==
  ASSUME IInv, NEW c \in Clients, Requests(c), NEW f \in Points \ seen'.forced
  PROVE  Derives(f)
<1>1. /\ Types /\ Tables /\ Placed /\ Pos(c) \in Threads
      /\ \A g \in Points : fp[g] \in Record
  BY ThreadsAre DEF IInv, Types, Tables
<1>2. UNCHANGED fp => Descends(fp'[f], f)
  BY HeldAre, DescendsSelf
<1>3. CASE AskAuthorize(c)
  <2>0. PICK g \in Points, d \in Doses : \E pc :
          \/ Answered(c, "authorize", "rejected")
          \/ Start(c, pc, "authorize", g, [fp[g] EXCEPT !.preset = TRUE, !.dose = d, !.stopped = FALSE])
    BY <1>3 DEF AskAuthorize
  <2>1. PICK pc :
          \/ Answered(c, "authorize", "rejected")
          \/ Start(c, pc, "authorize", g, [fp[g] EXCEPT !.preset = TRUE, !.dose = d, !.stopped = FALSE])
    BY <2>0
  <2>2. UNCHANGED fp
    BY <1>3 DEF AskAuthorize
  <2>3. CASE UNCHANGED thr
    BY <1>2, <2>2, <2>3, HeldSame
  <2>4. CASE ~UNCHANGED thr
    <3> PICK r, new : /\ r = fp[g]
                      /\ new = [r EXCEPT !.preset = TRUE, !.dose = d, !.stopped = FALSE]
      OBVIOUS
    <3>1. new.sup = r.sup /\ new.main = r.main
      BY <1>1 DEF Record
    <3>2. Start(c, pc, "authorize", g, new)
      BY <2>1, <2>4 DEF Answered
    <3>3. Descends(new, g)
      BY <3>1, HeldAre, DescendsSelf
    <3> QED
      BY <1>2, <2>2, <3>2, <3>3, StartsHeld
  <2> QED
    BY <2>3, <2>4
<1>4. CASE AskReset(c)
  <2>1. PICK g \in Points : Start(c, "reset", "reset", g, NoRecord)
    BY <1>4 DEF AskReset
  <2>2. UNCHANGED fp
    BY <1>4 DEF AskReset
  <2> QED
    BY <1>2, <2>1, <2>2, StartsHeld
<1>5. CASE AskOpen(c)
  <2>1. PICK g \in Points : Start(c, "update", "open", g, [fp[g] EXCEPT !.closed = FALSE])
    BY <1>5 DEF AskOpen
  <2>2. UNCHANGED fp
    BY <1>5 DEF AskOpen
  <2> PICK r, new : r = fp[g] /\ new = [r EXCEPT !.closed = FALSE]
    OBVIOUS
  <2>3. new.sup = r.sup /\ new.main = r.main
    BY <1>1 DEF Record
  <2>4. Descends(new, g)
    BY <2>3, HeldAre, DescendsSelf
  <2> QED
    BY <1>2, <2>1, <2>2, <2>4, StartsHeld
<1>6. CASE AskClear(c)
  <2>1. PICK g \in Points : \E n \in {fp[g].sup[i].no : i \in 1 .. Len(fp[g].sup)} :
          /\ thr' = [thr EXCEPT ![Pos(c)] = [Idle EXCEPT !.pc = "reset", !.cmd = "clear",
                      !.f = g, !.by = Len(asked[c]) + 1, !.msg = [kind |-> "clear", no |-> n]]]
          /\ InPlace(g, Pos(c), [fp[g] EXCEPT !.sup = Without(@, n % ByteMod)])
    BY <1>6 DEF AskClear
  <2>2. PICK n \in {fp[g].sup[i].no : i \in 1 .. Len(fp[g].sup)} :
          /\ thr' = [thr EXCEPT ![Pos(c)] = [Idle EXCEPT !.pc = "reset", !.cmd = "clear",
                      !.f = g, !.by = Len(asked[c]) + 1, !.msg = [kind |-> "clear", no |-> n]]]
          /\ InPlace(g, Pos(c), [fp[g] EXCEPT !.sup = Without(@, n % ByteMod)])
    BY <2>1
  <2> PICK r, b, s, new : /\ r = fp[g] /\ b = n % ByteMod /\ s = Without(r.sup, b)
                          /\ new = [r EXCEPT !.sup = s]
    OBVIOUS
  <2>3. r \in Record /\ r.sup \in Seq(Sale) /\ b \in Nat
    <3>1. r \in Record /\ r.sup \in Seq(Sale)
      BY <1>1 DEF Record
    <3>2. PICK i \in 1 .. Len(r.sup) : n = r.sup[i].no
      OBVIOUS
    <3>3. r.sup[i] \in Sale
      BY <3>1
    <3>4. n \in Nat
      BY <3>2, <3>3 DEF Sale
    <3> QED
      BY <3>1, <3>4, ConstantsAssumption
  <2>4. s \in Seq(Sale) /\ Drawn(s, r.sup)
    BY <2>3, WithoutType
  <2>5. SalesOf(s) \subseteq SalesOf(r.sup) /\ (Distinct(r.sup) => Distinct(s))
    <3>0. PICK at \in [1 .. Len(s) -> 1 .. Len(r.sup)] :
            /\ \A k \in 1 .. Len(s) : s[k] = r.sup[at[k]]
            /\ \A k, l \in 1 .. Len(s) : at[k] = at[l] => k = l
      BY <2>4 DEF Drawn
    <3>1. \A k \in 1 .. Len(s) : at[k] \in 1 .. Len(r.sup) /\ s[k] = r.sup[at[k]]
      BY <3>0
    <3>2. SalesOf(s) \subseteq SalesOf(r.sup)
      BY <3>1 DEF SalesOf
    <3>3. ASSUME Distinct(r.sup), NEW k \in 1 .. Len(s), NEW l \in 1 .. Len(s),
                 s[k].sale = s[l].sale
          PROVE  k = l
      <4>1. at[k] = at[l]
        BY <3>1, <3>3 DEF Distinct
      <4> QED
        BY <3>0, <3>3, <4>1
    <3> QED
      BY <3>2, <3>3 DEF Distinct
  <2>6. new \in Record /\ new.sup = s /\ new.main = r.main
    BY <2>3, <2>4 DEF Record
  <2>7. Tame(new, r)
    BY <2>5, <2>6 DEF Tame
  <2>8. fp'[g] = new /\ \A h \in Points \ {g} : fp'[h] = fp[h]
    BY <1>1, <2>2, <2>6, InPlaceIs
  <2>9. Descends(new, g)
    BY <2>7, HeldAre DEF Descends
  <2>10. Descends(fp'[f], f)
    BY <2>8, <2>9, HeldAre, DescendsSelf
  <2> PICK by, note : by = Len(asked[c]) + 1 /\ note = [kind |-> "clear", no |-> n]
    OBVIOUS
  <2> PICK p : p = [Idle EXCEPT !.pc = "reset", !.cmd = "clear", !.f = g, !.by = by, !.msg = note]
    OBVIOUS
  <2>11. p.copy = NoRecord /\ p.own = NoRecord
    BY DEF Idle
  <2>12. thr' = [thr EXCEPT ![Pos(c)] = p]
    BY <2>2
  <2> QED
    BY <1>1, <2>10, <2>11, <2>12, HeldMoves
<1>7. CASE AskClose(c)
  <2>1. UNCHANGED thr
    BY <1>7 DEF AskClose, Answered
  <2>2. PICK g \in Points : fp' = [fp EXCEPT ![g] = [fp[g] EXCEPT !.closed = TRUE]]
    BY <1>7 DEF AskClose, InPlace
  <2> PICK r, new : r = fp[g] /\ new = [r EXCEPT !.closed = TRUE]
    OBVIOUS
  <2>3. new.sup = r.sup /\ new.main = r.main
    BY <1>1 DEF Record
  <2>4. fp'[g] = new /\ \A h \in Points \ {g} : fp'[h] = fp[h]
    BY <1>1, <2>2 DEF Tables
  <2>5. Descends(fp'[f], f)
    BY <2>3, <2>4, HeldAre, DescendsSelf
  <2> QED
    BY <2>1, <2>5, HeldSame
<1>8. CASE AskStop(c) \/ AskResume(c)
  <2>1. UNCHANGED thr
    BY <1>8 DEF AskStop, AskResume, Answered
  <2>2a. PICK g \in Points : \E code, r : Passes(c, code, g, r)
    BY <1>8 DEF AskStop, AskResume
  <2>2. PICK code, r : Passes(c, code, g, r)
    BY <2>2a
  <2>3. CASE UNCHANGED fp
    BY <1>2, <2>1, <2>3, HeldSame
  <2>4. CASE ~UNCHANGED fp
    <3> PICK st : st = seen.stale \cup Holders(g, Pos(c))
      OBVIOUS
    <3>1. /\ fp' = [fp EXCEPT ![g] = r]
          /\ seen' = [seen EXCEPT !.stale = st, !.forced = @ \cup {g}]
      BY <2>2, <2>4 DEF Passes
    <3>2. g \in seen'.forced
      BY <1>1, <3>1 DEF Tables
    <3>3. fp'[f] = fp[f]
      BY <1>1, <3>1, <3>2 DEF Tables
    <3>4. Descends(fp'[f], f)
      BY <3>3, HeldAre, DescendsSelf
    <3> QED
      BY <2>1, <3>4, HeldSame
  <2> QED
    BY <2>3, <2>4
<1> QED
  BY <1>3, <1>4, <1>5, <1>6, <1>7, <1>8 DEF Requests

LEMMA DeviceHolds ==
  ASSUME IInv, NEW c \in Clients, DeviceThread(c), ~Data(c), NEW f \in Points
  PROVE  Derives(f)
<1> PICK t : t = Dev(c)
  OBVIOUS
<1>1. /\ Types /\ Tables /\ Placed /\ t \in Threads /\ Proper(t, thr[t]) /\ t[2] = "dev"
      /\ \A g \in Points : fp[g] \in Record
  BY ThreadsAre DEF IInv, Types, Placed, Tables
<1>2. UNCHANGED fp => Descends(fp'[f], f)
  BY HeldAre, DescendsSelf
<1>3. CASE Store(c)
  <2> PICK own, g : own = thr[t].own /\ g = thr[t].f
    OBVIOUS
  <2>1. thr[t].pc = "store" /\ WriteBack(g, t, own) /\ Done(t)
    BY <1>3 DEF Store
  <2>2. g \in Points /\ own \in Record /\ own # NoRecord
    BY <1>1, <2>1, RecordIsOne DEF Proper, Working
  <2>3. fp'[g] = own /\ \A h \in Points \ {g} : fp'[h] = fp[h]
    BY <1>1, <2>1, <2>2, WriteBackIs
  <2>4. own \in Held(g)
    BY <1>1, <2>2, HeldAre
  <2>5. Descends(fp'[f], f)
    BY <2>3, <2>4, HeldAre, DescendsSelf
  <2> QED
    BY <1>1, <2>1, <2>5, IdleCarries, HeldCarried DEF Done
<1>4. CASE Reply(c)
  <2>1. UNCHANGED fp
    BY <1>4 DEF Reply
  <2> PICK m : m = Replied(Head(down[c]))
    OBVIOUS
  <2>2. PICK pc : thr' = [thr EXCEPT ![t] = [Idle EXCEPT !.msg = m, !.f = m.f, !.pc = pc]]
    BY <1>4 DEF Reply
  <2> PICK p : p = [Idle EXCEPT !.msg = m, !.f = m.f, !.pc = pc]
    OBVIOUS
  <2>3. p.copy = NoRecord /\ p.own = NoRecord
    BY DEF Idle
  <2>4. Carries(t, p)
    BY <2>3 DEF Carries
  <2> QED
    BY <1>1, <1>2, <2>1, <2>2, <2>4, HeldCarried
<1>5. CASE Timeout(c)
  <2>1. UNCHANGED fp /\ thr' = [thr EXCEPT ![t] = [Idle EXCEPT !.pc = "forget"]]
    BY <1>5 DEF Timeout
  <2>2. Carries(t, [Idle EXCEPT !.pc = "forget"])
    BY DEF Carries, Idle
  <2> QED
    BY <1>1, <1>2, <2>1, <2>2, HeldCarried
<1>6. CASE Forget(c) \/ ForgetTime(c)
  <2>1. UNCHANGED fp
    BY <1>6, Zenon DEF Forget, ForgetTime
  <2>2. Done(t) \/ \E pc : Goto(t, pc)
    BY <1>6, Zenon DEF Forget, ForgetTime
  <2> QED
    BY <1>1, <1>2, <2>1, <2>2, GotoCarries, IdleCarries, HeldCarried DEF Done
<1>7. CASE StartFill(c)
  <2> PICK g, mn : g = thr[t].msg.f /\ mn = "Starting"
    OBVIOUS
  <2>1. /\ thr[t].pc = "start" /\ Done(t)
        /\ fp' \in {fp, [fp EXCEPT ![g] = [fp[g] EXCEPT !.main = mn]]}
    BY <1>7 DEF StartFill, InPlace
  <2>2. g \in Points
    BY <1>1, <2>1 DEF Proper, ReplyFrame
  <2> PICK r, new : r = fp[g] /\ new = [r EXCEPT !.main = mn]
    OBVIOUS
  <2>3. new.sup = r.sup /\ new.main # "Fuelling"
    BY <1>1, <2>2 DEF Record
  <2>4. CASE fp' = fp
    BY <1>1, <1>2, <2>1, <2>4, IdleCarries, HeldCarried DEF Done
  <2>5. CASE fp' = [fp EXCEPT ![g] = new]
    <3>1. fp'[g] = new /\ \A h \in Points \ {g} : fp'[h] = fp[h]
      BY <1>1, <2>2, <2>5 DEF Tables
    <3>2. Descends(new, g) /\ Descends(fp[f], f)
      BY <2>2, <2>3, HeldAre, DescendsSelf
    <3>3. Descends(fp'[f], f)
      BY <3>1, <3>2
    <3> QED
      BY <1>1, <2>1, <3>3, IdleCarries, HeldCarried DEF Done
  <2> QED
    BY <2>1, <2>4, <2>5
<1>8. CASE Reconnect(c)
  <2> PICK r, mn, b : r = fp[f] /\ mn = "Unavailable" /\ b = FALSE
    OBVIOUS
  <2> PICK new : new = [r EXCEPT !.main = mn, !.preset = b, !.stopped = b]
    OBVIOUS
  <2>1. fp'[f] = new /\ UNCHANGED thr
    BY <1>8 DEF Reconnect
  <2>2. new.sup = r.sup /\ new.main # "Fuelling"
    BY <1>1 DEF Record
  <2>3. Descends(fp'[f], f)
    BY <2>1, <2>2, HeldAre, DescendsSelf
  <2> QED
    BY <2>1, <2>3, HeldSame
<1> QED
  BY <1>3, <1>4, <1>5, <1>6, <1>7, <1>8 DEF DeviceThread

\* pss takes the fields of the data that say which dispenser has filled how much, and how it is.
LEMMA DataRead ==
  {"Number", "State", "PresetOrderType", "CurrentVolume", "CurrentAmount", "ActiveNozzleNum",
   "Nozzle.Number", "Nozzle.Counter"} \subseteq DataTaken
<1> DEFINE N == {"Number", "State", "PresetOrderType", "CurrentVolume", "CurrentAmount",
                 "ActiveNozzleNum", "Nozzle.Number", "Nozzle.Counter"}
           Width(x) == IF x \in {"State", "PresetOrderType", "ActiveNozzleNum", "Nozzle.Number"}
                       THEN 1 ELSE 4
<1>1. ASSUME NEW x \in N
      PROVE  x \in DOMAIN send_dc_device_data_message /\ send_dc_device_data_message[x] = Width(x)
  <2> DEFINE head == AnswerHead ++ Bytes({"Count"})
             longs == Longs({"Number", "PresetPrice", "PresetVolume", "PresetAmount",
                             "CurrentPrice", "CurrentVolume", "CurrentAmount"})
             bytes == Bytes({"State", "OrderType", "PresetOrderType", "IsPay", "PresetNozzleNum",
                             "ActiveNozzleNum", "ErrorCode"})
  <2>1. x \notin DOMAIN head
    BY DEF AnswerHead, Longs, Bytes, Texts, ++
  <2>2. /\ x \in DOMAIN longs <=> x \in {"Number", "CurrentVolume", "CurrentAmount"}
        /\ x \in DOMAIN longs => longs[x] = 4
        /\ x \in DOMAIN bytes <=> x \in {"State", "PresetOrderType", "ActiveNozzleNum"}
        /\ x \in DOMAIN bytes => bytes[x] = 1
    BY DEF Longs, Bytes
  <2>3. /\ x \in DOMAIN CountersUnits <=> x \in {"Nozzle.Number", "Nozzle.Counter"}
        /\ x \in DOMAIN CountersUnits => CountersUnits[x] = Width(x)
    BY DEF CountersUnits, Longs, Bytes, ++
  <2>4. send_dc_device_data_message = head ++ longs ++ bytes ++ CountersUnits
    BY DEF send_dc_device_data_message
  <2> HIDE DEF head, longs, bytes
  <2> QED
    BY <2>1, <2>2, <2>3, <2>4 DEF ++
<1>2. ASSUME NEW x \in N
      PROVE  x \in DOMAIN ParseDCFrame /\ ParseDCFrame[x] = Width(x)
  <2>1. x \notin DOMAIN FrameHead /\ x \notin DOMAIN FrameTail
    BY DEF FrameHead, FrameTail, Longs, Bytes, Texts, ++
  <2>2. /\ x \in DOMAIN OrderUnits <=> x \in {"Number", "State", "PresetOrderType"}
        /\ x \in DOMAIN OrderUnits => OrderUnits[x] = Width(x)
    BY DEF OrderUnits, Longs, Bytes, ++
  <2>3. /\ x \in DOMAIN ValueUnits <=> x \in {"CurrentVolume", "CurrentAmount", "ActiveNozzleNum"}
        /\ x \in DOMAIN ValueUnits => ValueUnits[x] = Width(x)
    BY DEF ValueUnits, Longs, Bytes, ++
  <2>4. /\ x \in DOMAIN ParseDispencerCountersFrame <=> x \in {"Nozzle.Number", "Nozzle.Counter"}
        /\ x \in DOMAIN ParseDispencerCountersFrame => ParseDispencerCountersFrame[x] = Width(x)
    BY DEF ParseDispencerCountersFrame, ParseNozzleDataFrame, Longs, Bytes, ++
  <2>5. x \notin DOMAIN Bytes({"Count"})
    BY DEF Bytes
  <2>6. x \in DOMAIN ParseDCDataFrame /\ ParseDCDataFrame[x] = Width(x)
    BY <2>2, <2>3, <2>4, <2>5 DEF ParseDCDataFrame, ++
  <2> QED
    BY <2>1, <2>6 DEF ParseDCFrame, ++
<1> QED
  BY <1>1, <1>2 DEF DataTaken, Taken

LEMMA HeardSame == \A m \in DataFrame : Heard(m) = m
<1> TAKE m \in DataFrame
<1> DEFINE st == IF "State" \in DataTaken THEN m.state ELSE "NotInitialize"
           or == IF "PresetOrderType" \in DataTaken THEN m.order ELSE "free"
           sa == IF {"CurrentVolume", "CurrentAmount"} \subseteq DataTaken THEN m.sale ELSE 0
           no == m.nozzle /\ "ActiveNozzleNum" \in DataTaken
           co == IF "Nozzle.Counter" \in DataTaken THEN m.counter ELSE 0
<1>1. Heard(m) = [m EXCEPT !.state = st, !.order = or, !.sale = sa, !.nozzle = no,
                           !.counter = co]
  BY Zenon DEF Heard
<1>2. st = m.state /\ or = m.order /\ sa = m.sale /\ no = m.nozzle /\ co = m.counter
  BY DataRead DEF DataFrame
<1> HIDE DEF st, or, sa, no, co
<1>3. Heard(m) = [m EXCEPT !.state = m.state, !.order = m.order, !.sale = m.sale,
                           !.nozzle = m.nozzle, !.counter = m.counter]
  BY <1>1, <1>2
<1> QED
  BY <1>3 DEF DataFrame

\* Record own is what frame m makes of record rec: a sale more at the end of a fill, and
\* Fuelling only when it was or is.
Follows(own, rec, m) ==
    \/ /\ own.sup = rec.sup
       /\ own.main = "Fuelling" => rec.main = "Fuelling" \/ m.state = "Filling"
    \/ /\ m.state = "Finish" /\ rec.main = "Fuelling" /\ own.main = "Unavailable"
       /\ own.sup = Append(rec.sup, [no |-> NextNo(rec.last), sale |-> m.sale])

\* The thread of the link of c makes own of the record rec, with the total that the first
\* frame, m, brings; it keeps both, or own only.
Hears(c, m, rec, own) ==
    /\ down[c] # <<>> /\ m = down[c][1] /\ m.kind = "data"
    /\ down' = [down EXCEPT ![c] = Tail(@)]
    /\ m \in DataFrame /\ m.f \in Points /\ rec \in Record /\ own \in Record
    /\ rec.sup = fp[m.f].sup /\ rec.main = fp[m.f].main
    /\ rec.total = m.counter /\ own.total = m.counter /\ Follows(own, rec, m)
    /\ \E p \in Thread : /\ thr' = [thr EXCEPT ![Dev(c)] = p] /\ p.f = m.f /\ p.own = own
                         /\ p.copy \in {rec, NoRecord}
    /\ thr[Dev(c)] = Idle
    /\ UNCHANGED <<fp, slot, up, unsent, pump, stored, asked, left, seen>>

LEMMA HearerType ==
  ASSUME NEW pc \in Places, NEW f \in Points, NEW own \in Record,
         NEW copy \in Record \cup {NoRecord}
  PROVE  [pc |-> pc, cmd |-> "none", by |-> NoRequest, f |-> f, copy |-> copy, own |-> own,
          msg |-> NoRecord] \in Thread
<1>1. "none" \in Cmds \cup {"open"} /\ NoRequest \in Nat
  BY DEF Cmds, NoRequest
<1> QED
  BY <1>1 DEF Thread

LEMMA DataIs ==
  ASSUME IInv, NEW c \in Clients, Data(c)
  PROVE  \E m, rec, own : Hears(c, m, rec, own)
<1> PICK t : t = Dev(c)
  OBVIOUS
<1>0. PICK m, rec, does, own :
      /\ m = Heard(Head(down[c])) /\ rec = Counted(fp[m.f], m) /\ does = Calls(rec, m)
      /\ own = [Seen(rec, m) EXCEPT !.grade = m.nozzle]
  OBVIOUS
<1> PICK cp, pc : /\ cp = IF does = "authorize" THEN rec ELSE NoRecord
                  /\ pc = IF does = "authorize" /\ ~rec.grade THEN "update" ELSE does
  OBVIOUS
<1> PICK p : p = [Idle EXCEPT !.f = m.f, !.own = own, !.copy = cp, !.pc = pc]
  OBVIOUS
<1>1. /\ thr[t].pc = "idle" /\ down[c] # <<>> /\ Head(down[c]).kind = "data"
      /\ thr' = IF "Number" \notin DataTaken THEN thr ELSE [thr EXCEPT ![t] = p]
      /\ down' = [down EXCEPT ![c] = Tail(@)]
      /\ UNCHANGED <<fp, slot, up, unsent, pump, stored, asked, left, seen>>
  BY <1>0, Zenon DEF Data
<1>2. /\ Types /\ Tables /\ Wires /\ t \in Threads /\ thr[t] = Idle
  <2>1. /\ Types /\ Tables /\ Wires /\ Placed /\ t \in Threads
    BY ThreadsAre DEF IInv, Types
  <2> QED
    BY <1>1, <2>1 DEF Placed, Proper
<1>3. Head(down[c]) \in Frame /\ Head(down[c]) = down[c][1]
  BY <1>1, <1>2, TakenIs
<1>4. /\ m \in DataFrame /\ m = down[c][1] /\ m.kind = "data" /\ m.f \in Points
      /\ m.nozzle \in BOOLEAN /\ m.counter \in Nat
  <2>1. Head(down[c]) \in DataFrame
    BY <1>1, <1>3 DEF Frame, ReplyFrame
  <2>2. m = Head(down[c])
    BY <1>0, <2>1, HeardSame
  <2> QED
    BY <1>3, <2>1, <2>2 DEF DataFrame
<1>5. /\ rec \in Record /\ rec.sup = fp[m.f].sup /\ rec.main = fp[m.f].main
      /\ rec.total = m.counter
  <2> PICK r : r = fp[m.f]
    OBVIOUS
  <2>1. r \in Record
    BY <1>2, <1>4 DEF Tables
  <2>2. rec = [r EXCEPT !.total = m.counter]
    BY <1>0, DataRead, Zenon DEF Counted
  <2> QED
    BY <1>4, <2>1, <2>2 DEF Record
<1>6. own \in Record /\ own.total = m.counter /\ Follows(own, rec, m)
  <2> PICK r : r = Seen(rec, m)
    OBVIOUS
  <2>1. /\ r \in Record /\ r.total = rec.total
        /\ \/ /\ r.sup = rec.sup
              /\ r.main = "Fuelling" => rec.main = "Fuelling" \/ m.state = "Filling"
           \/ m.state = "Finish" /\ rec.main = "Fuelling" /\ r = WithSale(rec, m.sale)
    BY <1>4, <1>5, SeenType
  <2>2. own = [r EXCEPT !.grade = m.nozzle]
    BY <1>0, Zenon
  <2>3. /\ own \in Record /\ own.total = r.total /\ own.sup = r.sup /\ own.main = r.main
    BY <1>4, <2>1, <2>2 DEF Record
  <2>4. m.sale \in Nat
    BY <1>4 DEF DataFrame
  <2>5. /\ WithSale(rec, m.sale).main = "Unavailable"
        /\ WithSale(rec, m.sale).sup = Append(rec.sup, [no |-> NextNo(rec.last), sale |-> m.sale])
    BY <1>5, <2>4, WithSaleType
  <2> QED
    BY <1>5, <2>1, <2>3, <2>5 DEF Follows
<1>7. p \in Thread /\ p.f = m.f /\ p.own = own /\ p.copy \in {rec, NoRecord}
  <2>1. does \in {"authorize", "reset", "store"}
    BY <1>0, CallsType
  <2>2. cp \in {rec, NoRecord} /\ pc \in {"authorize", "reset", "store", "update"}
    BY <2>1
  <2>3. pc \in Places
    BY <2>2 DEF Places, Working
  <2>4. p = [pc |-> pc, cmd |-> "none", by |-> NoRequest, f |-> m.f, copy |-> cp, own |-> own,
             msg |-> NoRecord]
    BY DEF Idle
  <2>5. cp \in Record \cup {NoRecord}
    BY <1>5, <2>2
  <2> PICK g : g = m.f
    OBVIOUS
  <2>6. /\ g \in Points /\ own \in Record
        /\ p = [pc |-> pc, cmd |-> "none", by |-> NoRequest, f |-> g, copy |-> cp, own |-> own,
                msg |-> NoRecord]
    BY <1>4, <1>6, <2>4
  <2>7. p \in Thread
    <3>1. [pc |-> pc, cmd |-> "none", by |-> NoRequest, f |-> g, copy |-> cp, own |-> own,
           msg |-> NoRecord] \in Thread
      BY <2>3, <2>5, <2>6, HearerType, Zenon
    <3> QED
      BY <2>6, <3>1, Zenon
  <2> QED
    BY <2>2, <2>4, <2>7
<1>8. thr' = [thr EXCEPT ![t] = p]
  BY <1>1, DataRead
<1>9. \E x \in Thread : /\ thr' = [thr EXCEPT ![Dev(c)] = x] /\ x.f = m.f /\ x.own = own
                        /\ x.copy \in {rec, NoRecord}
  BY <1>7, <1>8
<1>10. Hears(c, m, rec, own)
  BY <1>1, <1>2, <1>4, <1>5, <1>6, <1>9 DEF Hears
<1> QED
  BY <1>10

LEMMA HeldType ==
  ASSUME IInv, NEW f \in Points
  PROVE  \A r \in Held(f) : r \in Record
<1>1. fp[f] \in Record
  BY DEF IInv, Types, Tables
<1>2. \A t \in Threads : thr[t].copy \in Record \cup {NoRecord} /\ thr[t].own \in Record \cup {NoRecord}
  BY DEF IInv, Types, Placed, Thread
<1> QED
  BY <1>1, <1>2 DEF Held

LEMMA GoodKept ==
  ASSUME IInv, IInv', Streams, NEW f \in Points, NEW s \in Record, Good(s, f), NEW r, Tame(r, s)
  PROVE  Good(r, f)'
<1>1. \A x \in SalesOf(s.sup) : x \in Nat
  <2>1. s.sup \in Seq(Sale)
    BY DEF Record
  <2>2. \A i \in 1 .. Len(s.sup) : s.sup[i] \in Sale
    BY <2>1
  <2> QED
    BY <2>2 DEF SalesOf, Sale
<1>2. Distinct(r.sup)
  BY DEF Good, Tame
<1>3. ASSUME NEW x \in SalesOf(r.sup)
      PROVE  Before(x, f)' /\ (r.main = "Fuelling" => Ahead(x, f)')
  <2>1. x \in SalesOf(s.sup) /\ x \in Nat /\ (r.main = "Fuelling" => s.main = "Fuelling")
    BY <1>1 DEF Tame
  <2>2. Before(x, f) /\ (s.main = "Fuelling" => Ahead(x, f))
    BY <2>1 DEF Good
  <2> QED
    BY <2>1, <2>2, BeforeKept
<1> QED
  BY <1>2, <1>3 DEF Good

\* With one link, what a frame makes of a record is as good.
LEMMA HearsGood ==
  ASSUME IInv, IInv', Flow, Streams, LoneLink, NEW c \in Clients, NEW m, NEW rec, NEW own,
         Hears(c, m, rec, own), Good(fp[m.f], m.f)
  PROVE  Good(own, m.f)'
<1> PICK f : f = m.f
  OBVIOUS
<1>1. /\ down[c] # <<>> /\ m = down[c][1] /\ m.kind = "data" /\ UNCHANGED <<up, pump>>
      /\ down' = [down EXCEPT ![c] = Tail(@)]
      /\ m \in DataFrame /\ f \in Points /\ rec \in Record /\ own \in Record
      /\ rec.sup = fp[f].sup /\ rec.main = fp[f].main /\ Follows(own, rec, m)
  BY DEF Hears
<1>2. Wires /\ pump[f].sale \in Nat /\ m.sale \in Nat
  BY <1>1 DEF IInv, Types, Tables, Dispenser, DataFrame
<1>3. /\ 1 \in 1 .. Len(down[c]) /\ Of(down[c][1], f)
      /\ \A d \in Clients \ {c} : down'[d] = down[d]
      /\ \A j \in 1 .. Len(down'[c]) :
           j + 1 \in 1 .. Len(down[c]) /\ down'[c][j] = down[c][j + 1] /\ 1 < j + 1
  <2>1. /\ 1 \in 1 .. Len(down[c]) /\ \A d \in Clients \ {c} : down'[d] = down[d]
        /\ \A j \in 1 .. Len(down'[c]) :
             j + 1 \in 1 .. Len(down[c]) /\ down'[c][j] = down[c][j + 1] /\ j + 1 # 1
    BY <1>1, <1>2, TakenIs
  <2>2. Of(down[c][1], f)
    <3>1. Of(m, f)
      BY <1>1 DEF Of
    <3> QED
      BY <1>1, <3>1
  <2>3. \A k : k \in 1 .. Len(down[c]) /\ k # 1 => 1 < k
    OBVIOUS
  <2> QED
    BY <2>1, <2>2, <2>3
<1>4. Upto(m, pump[f])
  BY <1>1, <1>3 DEF Flow, Stream
<1>5. ASSUME NEW d \in Clients, NEW j \in 1 .. Len(down'[d]), Of(down'[d][j], f)
      PROVE  Upto(m, down'[d][j]) /\ down'[d][j].sale \in Nat
  <2>1. c \in left.links /\ (d \in left.links => d = c)
    BY <1>1, <1>3 DEF Flow, Dark, LoneLink
  <2>2. d = c
    <3>1. d # c => down'[d] = down[d] /\ d \notin left.links
      BY <1>3, <2>1
    <3>2. d \notin left.links => \A i \in 1 .. Len(down[d]) : down[d][i].kind # "data"
      BY DEF Flow, Dark
    <3> QED
      BY <1>5, <3>1, <3>2 DEF Of
  <2>3. \A i, k \in 1 .. Len(down[c]) : i < k /\ Of(down[c][i], f) /\ Of(down[c][k], f)
          => Upto(down[c][i], down[c][k])
    BY <1>1 DEF Flow, Stream
  <2>4. Upto(m, down'[d][j])
    <3> PICK k : k = j + 1
      OBVIOUS
    <3>1. /\ 1 \in 1 .. Len(down[c]) /\ k \in 1 .. Len(down[c]) /\ 1 < k /\ down[c][1] = m
          /\ down'[d][j] = down[c][k] /\ Of(down[c][1], f) /\ Of(down[c][k], f)
      BY <1>1, <1>3, <1>5, <2>2
    <3> QED
      BY <2>3, <3>1
  <2>5. down'[d][j].sale \in Nat
    <3>1. pump' \in [Points -> Dispenser] /\ down' \in [Clients -> Seq(Frame)]
      BY DEF IInv, Types, Tables, Wires
    <3>2. \A e \in Clients : \A i \in 1 .. Len(down'[e]) : down'[e][i].kind = "data" =>
             down'[e][i].sale \in Nat
      BY <3>1, SalesAreNat
    <3> QED
      BY <1>5, <3>2 DEF Of
  <2> QED
    BY <2>4, <2>5
<1>6. ASSUME NEW x \in SalesOf(rec.sup)
      PROVE  /\ x \in Nat /\ x <= m.sale /\ Before(x, f)'
             /\ rec.main = "Fuelling" => Ahead(x, f)' /\ (m.state = "Finish" => x < m.sale)
  <2>1. x \in Nat
    <3>1. rec.sup \in Seq(Sale)
      BY <1>1 DEF Record
    <3>2. \A i \in 1 .. Len(rec.sup) : rec.sup[i] \in Sale
      BY <3>1
    <3> QED
      BY <3>2 DEF SalesOf, Sale
  <2>2. Before(x, f) /\ (rec.main = "Fuelling" => Ahead(x, f))
    BY <1>1 DEF Good
  <2>3. x <= m.sale
    BY <1>1, <1>3, <2>2 DEF Before
  <2>4. rec.main = "Fuelling" /\ m.state = "Finish" => x < m.sale
    BY <1>1, <1>3, <2>2 DEF Ahead
  <2> QED
    BY <1>1, <2>1, <2>2, <2>3, <2>4, BeforeKept
<1>7. Before(m.sale, f)'
  BY <1>1, <1>2, <1>4, <1>5 DEF Before, Upto
<1>8. ASSUME NEW x \in Nat, x <= m.sale, m.state # "Finish" PROVE Ahead(x, f)'
  <2>1. pump'[f].state = "Finish" => x < pump'[f].sale
    BY <1>1, <1>2, <1>4, <1>8 DEF Upto
  <2>2. ASSUME NEW d \in Clients, NEW j \in 1 .. Len(down'[d]), Of(down'[d][j], f),
               down'[d][j].state = "Finish"
        PROVE  x < down'[d][j].sale
    BY <1>2, <1>5, <1>8, <2>2 DEF Upto
  <2> QED
    BY <2>1, <2>2 DEF Ahead
<1>9. Distinct(rec.sup)
  BY <1>1 DEF Good
<1>10. CASE /\ own.sup = rec.sup
            /\ own.main = "Fuelling" => rec.main = "Fuelling" \/ m.state = "Filling"
  <2>1. ASSUME NEW x \in SalesOf(own.sup)
        PROVE  Before(x, f)' /\ (own.main = "Fuelling" => Ahead(x, f)')
    BY <1>6, <1>8, <1>10
  <2> QED
    BY <1>9, <1>10, <2>1 DEF Good
<1>11. CASE /\ m.state = "Finish" /\ rec.main = "Fuelling" /\ own.main = "Unavailable"
            /\ own.sup = Append(rec.sup, [no |-> NextNo(rec.last), sale |-> m.sale])
  <2> PICK n, new, old : n = Len(rec.sup) /\ new = [no |-> NextNo(rec.last), sale |-> m.sale]
                         /\ old = rec.sup
    OBVIOUS
  <2>1. old \in Seq(Sale)
    BY <1>1 DEF Record
  <2>2. /\ n \in Nat /\ Len(own.sup) = n + 1 /\ own.sup[n + 1].sale = m.sale
        /\ \A i \in 1 .. n : own.sup[i] = rec.sup[i]
    <3>1. own.sup = Append(old, new) /\ n = Len(old) /\ new.sale = m.sale
      BY <1>11
    <3> QED
      BY <2>1, <3>1
  <2>3. \A i \in 1 .. n : own.sup[i].sale \in SalesOf(rec.sup)
    BY <2>2 DEF SalesOf
  <2>4. \A x \in SalesOf(own.sup) : x \in SalesOf(rec.sup) \/ x = m.sale
    <3>1. \A i \in 1 .. n + 1 : i \in 1 .. n \/ i = n + 1
      BY <2>2
    <3> QED
      BY <2>2, <2>3, <3>1 DEF SalesOf
  <2>5. ASSUME NEW i \in 1 .. n + 1, NEW k \in 1 .. n + 1, own.sup[i].sale = own.sup[k].sale
        PROVE  i = k
    <3>1. \A l \in 1 .. n : own.sup[l].sale < m.sale /\ own.sup[l].sale \in Nat
      BY <1>6, <1>11, <2>3
    <3>2. CASE i \in 1 .. n /\ k \in 1 .. n
      BY <1>9, <2>2, <2>5, <3>2 DEF Distinct
    <3>3. CASE i = n + 1 /\ k \in 1 .. n
      BY <1>2, <2>2, <2>5, <3>1, <3>3
    <3>4. CASE i \in 1 .. n /\ k = n + 1
      BY <1>2, <2>2, <2>5, <3>1, <3>4
    <3> QED
      BY <2>2, <3>2, <3>3, <3>4
  <2>6. Distinct(own.sup)
    BY <2>2, <2>5 DEF Distinct
  <2>7. \A x \in SalesOf(own.sup) : Before(x, f)'
    BY <1>6, <1>7, <2>4
  <2> QED
    BY <1>11, <2>6, <2>7 DEF Good
<1> QED
  BY <1>1, <1>10, <1>11 DEF Follows

\* What has happened is not forgotten, but for a thread that drops its old copy.
Marks ==
    /\ seen.forced \subseteq seen'.forced /\ seen.overwritten \subseteq seen'.overwritten
    /\ seen.renewed \subseteq seen'.renewed /\ seen.timedOut \subseteq seen'.timedOut
    /\ seen.reused \subseteq seen'.reused
    /\ \A t \in seen.stale : \/ t \in seen'.stale
                             \/ /\ thr'[t].copy = NoRecord
                                /\ thr'[t].own = NoRecord \/ thr[t].f \in seen'.overwritten

LEMMA MarksKept ==
  ASSUME IInv, [Next]_vars
  PROVE  Marks
<1>0. seen \in [overwritten : SUBSET Points, reused : SUBSET Clients,
                timedOut : SUBSET Clients, stale : SUBSET Threads, forced : SUBSET Points,
                renewed : SUBSET Points]
  BY DEF IInv, Types, Tables
<1>1. ASSUME NEW e \in {"reused", "timedOut", "renewed"}, NEW v, seen' = [seen EXCEPT ![e] = v],
             seen[e] \subseteq v
      PROVE  Marks
  <2>1. /\ seen'.forced = seen.forced /\ seen'.overwritten = seen.overwritten
        /\ seen'.stale = seen.stale
        /\ \A o \in {"reused", "timedOut", "renewed"} : seen'[o] = IF o = e THEN v ELSE seen[o]
    BY <1>0, <1>1
  <2>2. \A o \in {"reused", "timedOut", "renewed"} : seen[o] \subseteq seen'[o]
    BY <1>1, <2>1
  <2>3. /\ seen["reused"] \subseteq seen'["reused"] /\ seen["timedOut"] \subseteq seen'["timedOut"]
        /\ seen["renewed"] \subseteq seen'["renewed"]
    BY <2>2, Zenon
  <2> QED
    BY <2>1, <2>3 DEF Marks
<1>3. ASSUME NEW v, NEW w, seen' = [seen EXCEPT !.stale = v, !.forced = w],
             seen.forced \subseteq w, seen.stale \subseteq v
      PROVE  Marks
  <2>1. /\ seen'.forced = w /\ seen'.overwritten = seen.overwritten /\ seen'.stale = v
        /\ \A o \in {"reused", "timedOut", "renewed"} : seen'[o] = seen[o]
    BY <1>0, <1>3
  <2> QED
    BY <1>3, <2>1 DEF Marks
<1>4. ASSUME NEW v, seen' = [seen EXCEPT !.stale = v],
             \A t \in seen.stale : t \in v \/ (thr'[t].copy = NoRecord /\ thr'[t].own = NoRecord)
      PROVE  Marks
  <2>1. /\ seen'.forced = seen.forced /\ seen'.overwritten = seen.overwritten /\ seen'.stale = v
        /\ \A o \in {"reused", "timedOut", "renewed"} : seen'[o] = seen[o]
    BY <1>0, <1>4
  <2> QED
    BY <1>4, <2>1 DEF Marks
<1>5. ASSUME NEW g, NEW t, NEW r, InPlace(g, t, r) PROVE Marks
  <2> PICK v : v = seen.stale \cup Holders(g, t)
    OBVIOUS
  <2>1. seen' = [seen EXCEPT !.stale = v]
    BY <1>5 DEF InPlace
  <2> QED
    BY <1>4, <2>1
<1>6. ASSUME NEW t \in Threads, Returns(t), thr[t].pc \in Working
      PROVE  thr'[t].copy = NoRecord /\ (t[2] = "pos" => thr'[t].own = NoRecord)
  <2>1. t[2] \in {"pos", "dev"} /\ Placed
    BY ThreadsAre DEF IInv, Types
  <2> QED
    BY <1>6, <2>1, ReturnIs DEF Idle
<1>7. ASSUME NEW t, NEW r, WriteBack(thr[t].f, t, r), thr'[t].copy = NoRecord PROVE Marks
  <2> PICK g : g = thr[t].f
    OBVIOUS
  <2> PICK v, w : /\ v = (seen.stale \ {t}) \cup Holders(g, t)
                  /\ w = IF t \in seen.stale THEN seen.overwritten \cup {g} ELSE seen.overwritten
    OBVIOUS
  <2>1. seen' = [seen EXCEPT !.stale = v, !.overwritten = w]
    BY <1>7 DEF WriteBack
  <2>2. seen.overwritten \subseteq w
    OBVIOUS
  <2>3. ASSUME NEW u \in seen.stale
        PROVE  \/ u \in v
               \/ /\ thr'[u].copy = NoRecord
                  /\ thr'[u].own = NoRecord \/ thr[u].f \in w
    <3>1. u # t => u \in v
      OBVIOUS
    <3>2. u = t => thr[u].f \in w
      BY <2>3
    <3> QED
      BY <1>7, <3>1, <3>2
  <2>4. /\ seen'.forced = seen.forced /\ seen'.overwritten = w /\ seen'.stale = v
        /\ seen'.reused = seen.reused /\ seen'.timedOut = seen.timedOut
        /\ seen'.renewed = seen.renewed
    BY <1>0, <2>1
  <2> QED
    BY <2>2, <2>3, <2>4 DEF Marks
<1>8. UNCHANGED seen => Marks
  BY DEF Marks
<1>9. ASSUME NEW t \in Threads, Procedures(t) PROVE Marks
  <2>1. CASE Authorize(t) \/ Reset(t) \/ SetName(t) \/ Send(t)
    BY <1>8, <2>1, Zenon DEF Authorize, Reset, SetName, Send
  <2>2. CASE Unauthorized(t)
    <3> PICK v : v = seen.stale \ {t}
      OBVIOUS
    <3>1. UNCHANGED seen \/ (seen' = [seen EXCEPT !.stale = v] /\ t[2] = "pos")
      BY <1>9, <2>2, ThreadsAre DEF Unauthorized
    <3>2. thr'[t].copy = NoRecord /\ (t[2] = "pos" => thr'[t].own = NoRecord)
      BY <1>6, <1>9, <2>2 DEF Unauthorized, Working
    <3> QED
      BY <1>8, <1>4, <3>1, <3>2
  <2>3. CASE SetCode(t)
    <3> PICK v : v = seen.reused \cup {t[1]}
      OBVIOUS
    <3>1. UNCHANGED seen \/ seen' = [seen EXCEPT !["reused"] = v]
      BY <2>3 DEF SetCode
    <3> QED
      BY <1>1, <1>8, <3>1
  <2>4. CASE Params(t) \/ Update(t)
    <3>1. \/ InPlace(thr[t].f, t, ResetParams(thr[t].f))
          \/ WriteBack(thr[t].f, t, thr[t].copy)
      BY <2>4 DEF Params, Update
    <3>2. thr'[t].copy = NoRecord
      BY <1>6, <2>4 DEF Params, Update, Working
    <3> QED
      BY <1>5, <1>7, <3>1, <3>2
  <2> QED
    BY <1>9, <2>1, <2>2, <2>3, <2>4, Zenon DEF Procedures
<1>10. ASSUME NEW c \in Clients, Requests(c) PROVE Marks
  <2>1. ASSUME NEW code, NEW g, NEW r, Passes(c, code, g, r) PROVE Marks
    <3> PICK v, w : v = seen.stale \cup Holders(g, Pos(c)) /\ w = seen.forced \cup {g}
      OBVIOUS
    <3>1. UNCHANGED seen \/ seen' = [seen EXCEPT !.stale = v, !.forced = w]
      BY <2>1 DEF Passes
    <3>2. seen.forced \subseteq w /\ seen.stale \subseteq v
      OBVIOUS
    <3> QED
      BY <1>3, <1>8, <3>1, <3>2
  <2>2. CASE AskReset(c) \/ AskOpen(c)
    BY <1>8, <2>2, Zenon DEF AskReset, AskOpen
  <2>3. CASE AskAuthorize(c)
    <3>1. PICK g : \/ UNCHANGED seen
                   \/ seen' = [seen EXCEPT !["renewed"] = seen.renewed \cup {g}]
      BY <2>3 DEF AskAuthorize
    <3> PICK v : v = seen.renewed \cup {g}
      OBVIOUS
    <3>2. UNCHANGED seen \/ seen' = [seen EXCEPT !["renewed"] = v]
      BY <3>1
    <3> QED
      BY <1>1, <1>8, <3>2
  <2>4. CASE AskClear(c) \/ AskClose(c)
    <3>1. \E g, r : InPlace(g, Pos(c), r)
      BY <2>4, Zenon DEF AskClear, AskClose
    <3> QED
      BY <1>5, <3>1
  <2>5. CASE AskStop(c) \/ AskResume(c)
    <3>1. \E code, g, r : Passes(c, code, g, r)
      BY <2>5, Zenon DEF AskStop, AskResume
    <3> QED
      BY <2>1, <3>1
  <2> QED
    BY <1>10, <2>2, <2>3, <2>4, <2>5, Zenon DEF Requests
<1>11. ASSUME NEW c \in Clients, DeviceThread(c) PROVE Marks
  <2> PICK out, re, st : /\ out = seen.timedOut \cup {c} /\ re = seen.reused \cup {c}
                         /\ st = seen.stale \cup UNION {Holders(f, Dev(c)) : f \in Points}
    OBVIOUS
  <2>1. CASE Data(c) \/ Reply(c)
    BY <1>8, <2>1, Zenon DEF Data, Reply
  <2>2. CASE Timeout(c) \/ Forget(c) \/ ForgetTime(c) \/ Reconnect(c)
    <3>1. \/ UNCHANGED seen \/ seen' = [seen EXCEPT !["timedOut"] = out]
          \/ seen' = [seen EXCEPT !["reused"] = re] \/ seen' = [seen EXCEPT !.stale = st]
      BY <2>2 DEF Timeout, Forget, ForgetTime, Reconnect
    <3> QED
      BY <1>1, <1>8, <1>4, <3>1
  <2>3. CASE Store(c)
    <3>1. WriteBack(thr[Dev(c)].f, Dev(c), thr[Dev(c)].own)
      BY <2>3 DEF Store
    <3>2. Dev(c) \in Threads /\ thr'[Dev(c)] = Idle
      BY <2>3, ThreadsAre DEF Store, Done, IInv, Types, Placed
    <3> QED
      BY <1>7, <3>1, <3>2 DEF Idle
  <2>4. CASE StartFill(c)
    <3>1. UNCHANGED seen \/ \E g, r : InPlace(g, Dev(c), r)
      BY <2>4, Zenon DEF StartFill
    <3> QED
      BY <1>5, <1>8, <3>1
  <2> QED
    BY <1>11, <2>1, <2>2, <2>3, <2>4, Zenon DEF DeviceThread
<1>12. ASSUME NEW c \in Clients, Serve(c) \/ Push(c) PROVE UNCHANGED seen
  BY <1>12, Zenon DEF Serve, Push
<1>13. ASSUME NEW f \in Points, Nozzle(f) \/ Repeat(f) \/ Filled(f) PROVE UNCHANGED seen
  BY <1>13, Zenon DEF Nozzle, Repeat, Filled
<1>14. ASSUME UNCHANGED vars PROVE UNCHANGED seen
  BY <1>14 DEF vars
<1> QED
  BY <1>9, <1>10, <1>11, <1>12, <1>13, <1>14, <1>8, Zenon DEF Next

\* The records of f that are held after a step come from those before, but for what the
\* thread of a link makes of a frame.
LEMMA StepsHold ==
  ASSUME IInv, [Next]_vars, \A c \in Clients : ~Data(c), NEW f \in Points \ seen'.forced
  PROVE  Derives(f)
<1>1. UNCHANGED <<thr, fp>> => Derives(f)
  BY HeldAre, HeldSame, DescendsSelf
<1>2. ASSUME NEW c \in Clients, Serve(c) \/ Push(c) PROVE UNCHANGED <<thr, fp>>
  BY <1>2, Zenon DEF Serve, Push
<1>3. ASSUME NEW g \in Points, Nozzle(g) \/ Repeat(g) \/ Filled(g) PROVE UNCHANGED <<thr, fp>>
  BY <1>3, Zenon DEF Nozzle, Repeat, Filled
<1>4. ASSUME UNCHANGED vars PROVE UNCHANGED <<thr, fp>>
  BY <1>4 DEF vars
<1>5. ASSUME NEW t \in Threads, Procedures(t) PROVE Derives(f)
  BY <1>5, ProceduresHold
<1>6. ASSUME NEW c \in Clients, Requests(c) PROVE Derives(f)
  BY <1>6, RequestsHold
<1>7. ASSUME NEW c \in Clients, DeviceThread(c) PROVE Derives(f)
  BY <1>7, DeviceHolds
<1> QED
  BY <1>1, <1>2, <1>3, <1>4, <1>5, <1>6, <1>7, Zenon DEF Next

LEMMA HeirsKept ==
  ASSUME FInv, IInv', [Next]_vars, NEW f \in Points
  PROVE  Heirs(f)'
<1>1. Streams /\ Flow' /\ left'.links = left.links
  BY FlowKept, LinksKept DEF FInv, Flow
<1>2. seen.forced \subseteq seen'.forced
  BY MarksKept DEF FInv, Marks
<1> SUFFICES ASSUME LoneLink', f \notin seen'.forced, NEW r \in Held(f)'
             PROVE  Good(r, f)'
  BY DEF Heirs
<1>3. LoneLink /\ \A s \in Held(f) : s \in Record /\ Good(s, f)
  BY <1>1, <1>2, HeldType DEF LoneLink, FInv, Heirs
<1>4. \A s : Descends(s, f) => Good(s, f)'
  BY <1>1, <1>3, GoodKept DEF FInv, Descends
<1>5. CASE \A c \in Clients : ~Data(c)
  BY <1>4, <1>5, StepsHold DEF FInv, Derives
<1>6. ASSUME NEW c \in Clients, Data(c) PROVE Good(r, f)'
  <2>1. PICK m, rec, own : Hears(c, m, rec, own)
    BY <1>6, DataIs DEF FInv
  <2>2. /\ UNCHANGED fp /\ m.f \in Points /\ rec.sup = fp[m.f].sup /\ rec.main = fp[m.f].main
        /\ fp[f] \in Held(f) /\ Dev(c) \in Threads
    BY <2>1, HeldAre, ThreadsAre DEF Hears, FInv
  <2>3. PICK p : /\ thr' = [thr EXCEPT ![Dev(c)] = p] /\ p.f = m.f /\ p.own = own
                 /\ p.copy \in {rec, NoRecord}
    BY <2>1 DEF Hears
  <2>4. thr'[Dev(c)] = p /\ \A u \in Threads \ {Dev(c)} : thr'[u] = thr[u]
    BY <2>2, <2>3 DEF FInv, IInv, Types, Placed
  <2>5. m.f = f => Descends(rec, f)
    BY <2>2, DescendsSelf
  <2>6. m.f = f => Good(own, f)'
    BY <1>1, <1>3, <2>1, <2>2, HearsGood DEF FInv
  <2>7. CASE r = fp'[f]
    BY <1>4, <2>2, <2>7, DescendsSelf
  <2>8. CASE r # fp'[f]
    <3>1. PICK u \in Threads : /\ thr'[u].f = f /\ r # NoRecord
                               /\ r = thr'[u].copy \/ r = thr'[u].own
      BY <2>8 DEF Held
    <3>2. CASE u = Dev(c)
      BY <1>4, <2>3, <2>4, <2>5, <2>6, <3>1, <3>2
    <3>3. CASE u # Dev(c)
      <4>1. r \in Held(f)
        BY <2>4, <3>1, <3>3, HeldAre DEF FInv
      <4> QED
        BY <1>4, <4>1, DescendsSelf
    <3> QED
      BY <3>2, <3>3
  <2> QED
    BY <2>7, <2>8
<1> QED
  BY <1>5, <1>6

LEMMA LoadedGood ==
  ASSUME NEW n \in Nat, NEW f \in Points, pump[f].sale = n,
         \A c \in Clients : Len(down[c]) = 0
  PROVE  Good(Loaded(n), f)
<1> DEFINE sup == [i \in 1 .. n |-> [no |-> i % SeqLimit, sale |-> i]]
           last == n % SeqLimit
<1>1. Len(sup) = n /\ \A i \in 1 .. n : sup[i].sale = i
  <2>1. sup \in Seq([no : {i % SeqLimit : i \in 1 .. n}, sale : 1 .. n])
    OBVIOUS
  <2>2. DOMAIN sup = 1 .. n
    OBVIOUS
  <2>3. \A i \in 1 .. n : sup[i].sale = i
    OBVIOUS
  <2> HIDE DEF sup
  <2>4. Len(sup) = n
    BY <2>1, <2>2
  <2> QED
    BY <2>3, <2>4
<1>2. Loaded(n) = [main |-> "Idle", preset |-> FALSE, dose |-> 0, grade |-> FALSE,
                   stopped |-> FALSE, closed |-> FALSE, total |-> n, sup |-> sup, last |-> last]
  BY DEF Loaded
<1> HIDE DEF sup, last
<1> PICK r : r = Loaded(n)
  OBVIOUS
<1>3. r.sup = sup /\ r.main = "Idle"
  BY <1>2
<1>4. Distinct(r.sup) /\ \A x \in SalesOf(r.sup) : x \in 1 .. n
  BY <1>1, <1>3 DEF Distinct, SalesOf
<1>5. \A x \in 1 .. n : Before(x, f)
  BY DEF Before
<1> QED
  BY <1>3, <1>4, <1>5 DEF Good

LEMMA InitFlows ==
  ASSUME Init
  PROVE  Flow /\ \A f \in Points : Heirs(f)
<1>1. /\ "links" \in DOMAIN left /\ left.stored \in Nat
      /\ fp = [f \in Points |-> Loaded(left.stored)]
      /\ thr = [t \in Threads |-> Idle] /\ down = [c \in Clients |-> <<>>]
      /\ unsent = [c \in Clients |-> {}] /\ stored = [c \in Clients |-> c \in left.links]
      /\ \A f \in Points : pump[f].sale = left.stored
  BY ConstantsAssumption DEF Init, PlansAssumption
<1>2. \A c \in Clients : down[c] = <<>> /\ Len(down[c]) = 0 /\ 1 .. Len(down[c]) = {}
  BY <1>1
<1>3. \A c \in Clients : Dark(c) /\ \A f \in Points : Stream(c, f)
  BY <1>1, <1>2 DEF Dark, Stream
<1>4. stored \in [Clients -> BOOLEAN]
  BY <1>1
<1>5. ASSUME NEW f \in Points PROVE Heirs(f)
  <2>1. fp[f] = Loaded(left.stored) /\ \A t \in Threads : thr[t].copy = NoRecord /\ thr[t].own = NoRecord
    BY <1>1 DEF Idle
  <2>2. Held(f) \subseteq {fp[f]}
    BY <2>1 DEF Held
  <2>3. Good(fp[f], f)
    BY <1>1, <1>2, <2>1, LoadedGood
  <2> QED
    BY <2>2, <2>3 DEF Heirs
<1> QED
  BY <1>1, <1>3, <1>4, <1>5 DEF Flow

LEMMA FlowAlways == Spec => []FInv
<1>1. Init => FInv
  BY InitOK, InitFlows DEF FInv
<1>2. FInv /\ [Next]_vars => FInv'
  <2> SUFFICES ASSUME FInv, [Next]_vars PROVE FInv'
    OBVIOUS
  <2>1. IInv'
    BY NextOK, StutterOK DEF FInv
  <2>2. Flow'
    BY <2>1, FlowKept DEF FInv
  <2>3. \A f \in Points : Heirs(f)'
    BY <2>1, HeirsKept
  <2> QED
    BY <2>1, <2>2, <2>3 DEF FInv
<1> QED
  BY <1>1, <1>2, PTL DEF Spec

\* With one link to the dispensers every fill is recorded as one sale at most, unless an
\* emergency stop made the point Fuelling again: the frames of the link arrive in the order
\* in which they were true, and no record that any thread holds is Fuelling once it has the
\* sale of the fill.
THEOREM FillsRecordedOnce == Spec => []RecordedOnce
<1>1. FInv => RecordedOnce
  <2> SUFFICES ASSUME FInv, LoneLink, NEW f \in Points \ seen.forced PROVE Distinct(fp[f].sup)
    BY DEF RecordedOnce, Distinct
  <2>1. Good(fp[f], f)
    BY HeldAre DEF FInv, Heirs
  <2> QED
    BY <2>1 DEF Good
<1> QED
  BY <1>1, FlowAlways, PTL

-----------------------------------------------------------------------------
(* The totals agree with the dispensers.                                   *)

\* What the thread of the link of c is about to store of f, or else the record.
Latest(c, f) ==
    IF thr[Dev(c)].f = f /\ thr[Dev(c)].own # NoRecord THEN thr[Dev(c)].own ELSE fp[f]

\* The last frame about f has its counter.
LastSays(c, f) ==
    \E j \in 1 .. Len(down[c]) :
        /\ Of(down[c][j], f) /\ down[c][j].counter = pump[f].sale
        /\ \A k \in 1 .. Len(down[c]) : j < k => ~Of(down[c][k], f)

\* The counter of f is still to be pushed, or it is in the last frame about f, or there is
\* no frame about f and it is the total.
Newest(c, f) ==
    \/ f \in unsent[c]
    \/ LastSays(c, f)
    \/ /\ \A j \in 1 .. Len(down[c]) : ~Of(down[c][j], f)
       /\ Latest(c, f).total = pump[f].sale

\* A copy has the total that the thread itself is to store, or else the total of the record,
\* unless that was changed since.
Counts(t) ==
    LET p == thr[t] IN
    p.copy # NoRecord /\ t \notin seen.stale =>
        p.copy.total = IF p.own # NoRecord THEN p.own.total ELSE fp[p.f].total

\* Only a client whose link was there at first makes something of a frame.
LitOwn(c) == thr[Dev(c)].own # NoRecord => c \in left.links

Totals == /\ \A t \in Threads : Counts(t)
          /\ \A c \in Clients : LitOwn(c)
News == LoneLink => \A c \in Linking, f \in Points \ seen.overwritten : Newest(c, f)

\* What a step makes of the totals: of all but the frames.
Keeps ==
    /\ Totals' /\ seen.overwritten \subseteq seen'.overwritten
    /\ LoneLink => \A c \in Linking, f \in Points \ seen'.overwritten :
                      Latest(c, f).total' = Latest(c, f).total

\* Thread t goes on with what it holds, or takes a copy.
Steady(t) ==
    LET p == thr[t]
        q == thr'[t]
    IN  /\ q.own = p.own /\ (q.own # NoRecord => q.f = p.f)
        /\ q.copy # NoRecord =>
             \/ p.copy # NoRecord /\ q.f = p.f /\ q.copy.total = p.copy.total
             \/ q.own = NoRecord /\ q.f \in Points /\ q.copy.total = fp[q.f].total

SameTotals == \A f \in Points : fp'[f].total = fp[f].total
Steadies == SameTotals /\ \A t \in Threads : Steady(t)

LEMMA SteadyKeeps ==
  ASSUME IInv, Totals, Steadies, Marks, left'.links = left.links
  PROVE  Keeps
<1>1. Placed
  BY DEF IInv, Types
<1>2. ASSUME NEW t \in Threads PROVE Counts(t)'
  <2> PICK p, q : p = thr[t] /\ q = thr'[t]
    OBVIOUS
  <2>1. SUFFICES ASSUME q.copy # NoRecord, t \notin seen'.stale
                 PROVE  q.copy.total = IF q.own # NoRecord THEN q.own.total ELSE fp'[q.f].total
    BY DEF Counts
  <2>2. /\ q.own = p.own /\ (q.own # NoRecord => q.f = p.f) /\ t \notin seen.stale
        /\ \/ p.copy # NoRecord /\ q.f = p.f /\ q.copy.total = p.copy.total
           \/ q.own = NoRecord /\ q.f \in Points /\ q.copy.total = fp[q.f].total
    BY <2>1 DEF Steadies, Steady, Marks
  <2>3. p.copy # NoRecord => p.f \in Points
    BY <1>1 DEF Placed, Proper
  <2>4. p.copy # NoRecord =>
          p.copy.total = IF p.own # NoRecord THEN p.own.total ELSE fp[p.f].total
    BY <2>2 DEF Totals, Counts
  <2> QED
    BY <2>2, <2>3, <2>4 DEF Steadies, SameTotals
<1>3. ASSUME NEW c \in Clients
      PROVE  /\ LitOwn(c)'
             /\ \A f \in Points : Latest(c, f).total' = Latest(c, f).total
  <2> PICK p, q : p = thr[Dev(c)] /\ q = thr'[Dev(c)]
    OBVIOUS
  <2>1. q.own = p.own /\ (q.own # NoRecord => q.f = p.f)
    BY ThreadsAre DEF Steadies, Steady
  <2>2. LitOwn(c)'
    BY <2>1 DEF Totals, LitOwn
  <2>3. ASSUME NEW f \in Points PROVE Latest(c, f).total' = Latest(c, f).total
    <3>1. CASE p.f = f /\ p.own # NoRecord
      BY <2>1, <3>1 DEF Latest
    <3>2. CASE ~(p.f = f /\ p.own # NoRecord)
      <4>1. Latest(c, f) = fp[f] /\ Latest(c, f)' = fp'[f]
        BY <2>1, <3>2 DEF Latest
      <4> QED
        BY <4>1 DEF Steadies, SameTotals
    <3> QED
      BY <3>1, <3>2
  <2> QED
    BY <2>2, <2>3
<1> QED
  BY <1>2, <1>3 DEF Keeps, Totals, Marks, Linking

\* How a thread stays steady.
LEMMA MovesSteady ==
  ASSUME IInv, NEW t \in Threads, NEW q, thr' = [thr EXCEPT ![t] = q], q.own = thr[t].own,
         q.own # NoRecord => q.f = thr[t].f,
         q.copy # NoRecord =>
             \/ thr[t].copy # NoRecord /\ q.f = thr[t].f /\ q.copy.total = thr[t].copy.total
             \/ q.own = NoRecord /\ q.f \in Points /\ q.copy.total = fp[q.f].total
  PROVE  \A u \in Threads : Steady(u)
<1>1. thr'[t] = q /\ \A u \in Threads \ {t} : thr'[u] = thr[u]
  BY DEF IInv, Types, Placed
<1> QED
  BY <1>1 DEF Steady

LEMMA GotoSteady ==
  ASSUME IInv, NEW t \in Threads, NEW pc, Goto(t, pc)
  PROVE  \A u \in Threads : Steady(u)
<1> PICK r : r = thr[t]
  OBVIOUS
<1> PICK p : p = [r EXCEPT !.pc = pc]
  OBVIOUS
<1>1. r \in Thread
  BY DEF IInv, Types, Placed
<1>2. p.f = r.f /\ p.copy = r.copy /\ p.own = r.own
  BY <1>1 DEF Thread
<1>3. thr' = [thr EXCEPT ![t] = p]
  BY DEF Goto
<1> QED
  BY <1>2, <1>3, MovesSteady

LEMMA ReturnsSteady ==
  ASSUME IInv, NEW t \in Threads, thr[t].pc \in Working, Returns(t)
  PROVE  \A u \in Threads : Steady(u)
<1>1. Placed /\ t[2] \in {"pos", "dev"}
  BY ThreadsAre DEF IInv, Types
<1>2. \A u \in Threads \ {t} : thr'[u] = thr[u]
  BY <1>1, ReturnIs
<1>3. Steady(t)
  <2>1. CASE t[2] = "pos"
    <3>1. thr'[t] = Idle /\ thr[t].own = NoRecord
      BY <1>1, <2>1, ReturnIs DEF Placed, Proper
    <3> QED
      BY <3>1 DEF Steady, Idle
  <2>2. CASE t[2] = "dev"
    <3>1. thr'[t].f = thr[t].f /\ thr'[t].copy = NoRecord /\ thr'[t].own = thr[t].own
      BY <1>1, <2>2, ReturnIs
    <3> QED
      BY <3>1 DEF Steady
  <2> QED
    BY <1>1, <2>1, <2>2
<1> QED
  BY <1>2, <1>3 DEF Steady

LEMMA DoneSteady ==
  ASSUME IInv, NEW t \in Threads, thr[t].own = NoRecord, Done(t)
  PROVE  \A u \in Threads : Steady(u)
  BY MovesSteady DEF Done, Idle

LEMMA ProceduresSteady ==
  ASSUME IInv, NEW t \in Threads, Procedures(t), ~Update(t)
  PROVE  Steadies
<1>1. /\ Types /\ Tables /\ Placed /\ Proper(t, thr[t]) /\ thr[t] \in Thread
  BY DEF IInv, Types, Placed
<1>2. UNCHANGED fp => SameTotals
  BY DEF SameTotals
<1>3. CASE Unauthorized(t) \/ Reset(t) \/ SetCode(t) \/ SetName(t) \/ Send(t)
  <2>1. UNCHANGED fp
    BY <1>3, Zenon DEF Unauthorized, Reset, SetCode, SetName, Send
  <2>2. (Returns(t) /\ thr[t].pc \in {"authorize", "reset"}) \/ \E pc : Goto(t, pc)
    BY <1>3 DEF Unauthorized, Reset, SetCode, SetName, Send
  <2> QED
    BY <1>2, <2>1, <2>2, GotoSteady, ReturnsSteady DEF Steadies, Working
<1>4. CASE Authorize(t)
  <2>1. UNCHANGED fp /\ thr[t].pc = "authorize"
    BY <1>4 DEF Authorize
  <2>2. CASE \E pc : Goto(t, pc)
    BY <1>2, <2>1, <2>2, GotoSteady DEF Steadies
  <2>3. CASE ~\E pc : Goto(t, pc)
    <3> PICK r, cp : r = thr[t] /\ cp = thr[t].copy
      OBVIOUS
    <3> PICK new, mn : new = [cp EXCEPT !.main = mn] /\ mn = "PreAuthorized"
      OBVIOUS
    <3>1. cp \in Record /\ cp # NoRecord
      BY <1>1, <2>1, RecordIsOne DEF Proper
    <3>2. new.total = cp.total
      BY <3>1 DEF Record
    <3>3. PICK pc : thr' = [thr EXCEPT ![t].copy = new, ![t].pc = pc]
      BY <1>4, <2>3 DEF Authorize
    <3> PICK p : p = [r EXCEPT !.copy = new, !.pc = pc]
      OBVIOUS
    <3>4. p.f = r.f /\ p.copy = new /\ p.own = r.own
      BY <1>1 DEF Thread
    <3>5. thr' = [thr EXCEPT ![t] = p]
      BY <3>3
    <3>6. \A u \in Threads : Steady(u)
      BY <3>1, <3>2, <3>4, <3>5, MovesSteady
    <3> QED
      BY <1>2, <2>1, <3>6 DEF Steadies
  <2> QED
    BY <2>2, <2>3
<1>5. CASE Params(t)
  <2> PICK g : g = thr[t].f
    OBVIOUS
  <2>1. /\ thr[t].pc = "params" /\ InPlace(g, t, ResetParams(g)) /\ Returns(t)
    BY <1>5 DEF Params
  <2>2. g \in Points
    BY <1>1, <2>1 DEF Proper, Working
  <2>3. ResetParams(g) \in Record /\ ResetParams(g).total = fp[g].total
    <3>1. \A r \in Record : [r EXCEPT !.preset = FALSE, !.dose = 0, !.stopped = FALSE].total = r.total
      BY DEF Record
    <3>2. ResetParams(g).total = fp[g].total
      BY <1>1, <2>2, <3>1 DEF ResetParams, Tables
    <3> QED
      BY <1>1, <2>2, <3>2, ResetParamsType
  <2>4. fp'[g] = ResetParams(g) /\ \A h \in Points \ {g} : fp'[h] = fp[h]
    BY <1>1, <2>1, <2>2, <2>3, InPlaceIs
  <2>5. SameTotals
    BY <2>3, <2>4 DEF SameTotals
  <2> QED
    BY <2>1, <2>5, ReturnsSteady DEF Steadies, Working
<1> QED
  BY <1>3, <1>4, <1>5 DEF Procedures

LEMMA StartsSteady ==
  ASSUME IInv, NEW c \in Clients, NEW pc, NEW kind, NEW g \in Points, NEW r,
         Start(c, pc, kind, g, r), thr[Pos(c)].pc = "idle", r # NoRecord => r.total = fp[g].total
  PROVE  \A u \in Threads : Steady(u)
<1> PICK by : by = Len(asked[c]) + 1
  OBVIOUS
<1> PICK p : p = [Idle EXCEPT !.pc = pc, !.cmd = kind, !.f = g, !.by = by, !.copy = r]
  OBVIOUS
<1>1. p.f = g /\ p.copy = r /\ p.own = NoRecord
  BY DEF Idle
<1>2. thr' = [thr EXCEPT ![Pos(c)] = p] /\ Pos(c) \in Threads /\ Pos(c)[2] = "pos"
  BY ThreadsAre DEF Start
<1>3. thr[Pos(c)].own = NoRecord
  BY <1>2 DEF IInv, Types, Placed, Proper, Idle
<1> QED
  BY <1>1, <1>2, <1>3, MovesSteady

\* A record that is changed in place keeps its total.
LEMMA PlacedTotals ==
  ASSUME IInv, NEW g \in Points, NEW new, fp' = [fp EXCEPT ![g] = new], new.total = fp[g].total
  PROVE  SameTotals
<1>1. fp'[g] = new /\ \A h \in Points \ {g} : fp'[h] = fp[h]
  BY DEF IInv, Types, Tables
<1> QED
  BY <1>1 DEF SameTotals

LEMMA RequestsSteady ==
  ASSUME IInv, NEW c \in Clients, Requests(c)
  PROVE  Steadies
<1>1. /\ Types /\ Tables /\ Placed /\ Pos(c) \in Threads /\ Pos(c)[2] = "pos"
      /\ \A g \in Points : fp[g] \in Record
  BY ThreadsAre DEF IInv, Types, Tables
<1>2. UNCHANGED fp => SameTotals
  BY DEF SameTotals
<1>3. UNCHANGED thr => \A u \in Threads : Steady(u)
  BY DEF Steady
<1>4. CASE AskAuthorize(c)
  <2>1a. PICK g \in Points, d \in Doses : \E pc :
          \/ Answered(c, "authorize", "rejected")
          \/ /\ Start(c, pc, "authorize", g, [fp[g] EXCEPT !.preset = TRUE, !.dose = d, !.stopped = FALSE])
             /\ thr[Pos(c)].pc = "idle"
    BY <1>4 DEF AskAuthorize, Asks
  <2>1. PICK pc :
          \/ Answered(c, "authorize", "rejected")
          \/ /\ Start(c, pc, "authorize", g, [fp[g] EXCEPT !.preset = TRUE, !.dose = d, !.stopped = FALSE])
             /\ thr[Pos(c)].pc = "idle"
    BY <2>1a
  <2>2. UNCHANGED fp
    BY <1>4 DEF AskAuthorize
  <2>3. CASE UNCHANGED thr
    BY <1>2, <1>3, <2>2, <2>3 DEF Steadies
  <2>4. CASE ~UNCHANGED thr
    <3> PICK r, new : /\ r = fp[g]
                      /\ new = [r EXCEPT !.preset = TRUE, !.dose = d, !.stopped = FALSE]
      OBVIOUS
    <3>1. new.total = r.total
      BY <1>1 DEF Record
    <3>2. Start(c, pc, "authorize", g, new) /\ thr[Pos(c)].pc = "idle"
      BY <2>1, <2>4 DEF Answered
    <3>3. \A u \in Threads : Steady(u)
      BY <3>1, <3>2, StartsSteady
    <3> QED
      BY <1>2, <2>2, <3>3 DEF Steadies
  <2> QED
    BY <2>3, <2>4
<1>5. CASE AskReset(c)
  <2>1. PICK g \in Points : Start(c, "reset", "reset", g, NoRecord) /\ thr[Pos(c)].pc = "idle"
    BY <1>5 DEF AskReset, Asks
  <2>2. UNCHANGED fp
    BY <1>5 DEF AskReset
  <2> QED
    BY <1>2, <2>1, <2>2, StartsSteady DEF Steadies
<1>6. CASE AskOpen(c)
  <2>1. PICK g \in Points : /\ Start(c, "update", "open", g, [fp[g] EXCEPT !.closed = FALSE])
                            /\ thr[Pos(c)].pc = "idle"
    BY <1>6 DEF AskOpen, Asks
  <2>2. UNCHANGED fp
    BY <1>6 DEF AskOpen
  <2> PICK r, new : r = fp[g] /\ new = [r EXCEPT !.closed = FALSE]
    OBVIOUS
  <2>3. new.total = r.total
    BY <1>1 DEF Record
  <2>4. \A u \in Threads : Steady(u)
    BY <2>1, <2>3, StartsSteady
  <2> QED
    BY <1>2, <2>2, <2>4 DEF Steadies
<1>7. CASE AskClear(c)
  <2>1a. PICK g \in Points : \E n :
          /\ thr' = [thr EXCEPT ![Pos(c)] = [Idle EXCEPT !.pc = "reset", !.cmd = "clear",
                      !.f = g, !.by = Len(asked[c]) + 1, !.msg = [kind |-> "clear", no |-> n]]]
          /\ InPlace(g, Pos(c), [fp[g] EXCEPT !.sup = Without(@, n % ByteMod)])
    BY <1>7 DEF AskClear
  <2>1. PICK n :
          /\ thr' = [thr EXCEPT ![Pos(c)] = [Idle EXCEPT !.pc = "reset", !.cmd = "clear",
                      !.f = g, !.by = Len(asked[c]) + 1, !.msg = [kind |-> "clear", no |-> n]]]
          /\ InPlace(g, Pos(c), [fp[g] EXCEPT !.sup = Without(@, n % ByteMod)])
    BY <2>1a
  <2> PICK r, s, new : /\ r = fp[g] /\ s = Without(r.sup, n % ByteMod)
                       /\ new = [r EXCEPT !.sup = s]
    OBVIOUS
  <2>2. new.total = r.total
    BY <1>1 DEF Record
  <2>3. SameTotals
    BY <2>1, <2>2, PlacedTotals DEF InPlace
  <2> PICK by, note : by = Len(asked[c]) + 1 /\ note = [kind |-> "clear", no |-> n]
    OBVIOUS
  <2> PICK p : p = [Idle EXCEPT !.pc = "reset", !.cmd = "clear", !.f = g, !.by = by, !.msg = note]
    OBVIOUS
  <2>4. p.copy = NoRecord /\ p.own = NoRecord
    BY DEF Idle
  <2>5. thr' = [thr EXCEPT ![Pos(c)] = p]
    BY <2>1
  <2>6. thr[Pos(c)].own = NoRecord
    BY <1>1 DEF Placed, Proper
  <2>7. \A u \in Threads : Steady(u)
    BY <1>1, <2>4, <2>5, <2>6, MovesSteady
  <2> QED
    BY <2>3, <2>7 DEF Steadies
<1>8. CASE AskClose(c)
  <2>1. UNCHANGED thr
    BY <1>8 DEF AskClose, Answered
  <2>2. PICK g \in Points : fp' = [fp EXCEPT ![g] = [fp[g] EXCEPT !.closed = TRUE]]
    BY <1>8 DEF AskClose, InPlace
  <2> PICK r, new : r = fp[g] /\ new = [r EXCEPT !.closed = TRUE]
    OBVIOUS
  <2>3. new.total = r.total
    BY <1>1 DEF Record
  <2> QED
    BY <1>3, <2>1, <2>2, <2>3, PlacedTotals DEF Steadies
<1>9. CASE AskStop(c) \/ AskResume(c)
  <2>1. UNCHANGED thr
    BY <1>9 DEF AskStop, AskResume, Answered
  <2>2. PICK g \in Points : \E code, mn, b : Passes(c, code, g, [fp[g] EXCEPT !.main = mn, !.stopped = b])
    BY <1>9 DEF AskStop, AskResume
  <2>3. PICK code, mn, b : Passes(c, code, g, [fp[g] EXCEPT !.main = mn, !.stopped = b])
    BY <2>2
  <2> PICK r, new : r = fp[g] /\ new = [r EXCEPT !.main = mn, !.stopped = b]
    OBVIOUS
  <2>4. new.total = r.total
    BY <1>1 DEF Record
  <2>5. UNCHANGED fp \/ fp' = [fp EXCEPT ![g] = new]
    BY <2>3 DEF Passes
  <2> QED
    BY <1>2, <1>3, <2>1, <2>4, <2>5, PlacedTotals DEF Steadies
<1> QED
  BY <1>4, <1>5, <1>6, <1>7, <1>8, <1>9 DEF Requests

LEMMA DeviceSteady ==
  ASSUME IInv, NEW c \in Clients, DeviceThread(c), ~Data(c), ~Store(c)
  PROVE  Steadies
<1> PICK t : t = Dev(c)
  OBVIOUS
<1>1. /\ Types /\ Tables /\ Placed /\ t \in Threads /\ Proper(t, thr[t]) /\ t[2] = "dev"
      /\ \A g \in Points : fp[g] \in Record
  BY ThreadsAre DEF IInv, Types, Placed, Tables
<1>2. UNCHANGED fp => SameTotals
  BY DEF SameTotals
<1>3. thr[t].pc \notin Working => thr[t].own = NoRecord
  BY <1>1 DEF Proper
<1>4. CASE Reply(c)
  <2>1. UNCHANGED fp /\ thr[t].own = NoRecord
    BY <1>3, <1>4 DEF Reply, Working
  <2> PICK m : m = Replied(Head(down[c]))
    OBVIOUS
  <2>2. PICK pc : thr' = [thr EXCEPT ![t] = [Idle EXCEPT !.msg = m, !.f = m.f, !.pc = pc]]
    BY <1>4 DEF Reply
  <2> PICK p : p = [Idle EXCEPT !.msg = m, !.f = m.f, !.pc = pc]
    OBVIOUS
  <2>3. p.copy = NoRecord /\ p.own = NoRecord
    BY DEF Idle
  <2>4. \A u \in Threads : Steady(u)
    BY <1>1, <2>1, <2>2, <2>3, MovesSteady
  <2> QED
    BY <1>2, <2>1, <2>4 DEF Steadies
<1>5. CASE Timeout(c)
  <2>1. UNCHANGED fp /\ thr' = [thr EXCEPT ![t] = [Idle EXCEPT !.pc = "forget"]]
        /\ thr[t].own = NoRecord
    BY <1>3, <1>5 DEF Timeout, Working
  <2> PICK p : p = [Idle EXCEPT !.pc = "forget"]
    OBVIOUS
  <2>2. p.copy = NoRecord /\ p.own = NoRecord
    BY DEF Idle
  <2>3. \A u \in Threads : Steady(u)
    BY <1>1, <2>1, <2>2, MovesSteady
  <2> QED
    BY <1>2, <2>1, <2>3 DEF Steadies
<1>6. CASE Forget(c) \/ ForgetTime(c)
  <2>1. UNCHANGED fp /\ thr[t].own = NoRecord
    BY <1>3, <1>6 DEF Forget, ForgetTime, Working
  <2>2. Done(t) \/ \E pc : Goto(t, pc)
    BY <1>6, Zenon DEF Forget, ForgetTime
  <2> QED
    BY <1>1, <1>2, <2>1, <2>2, GotoSteady, DoneSteady DEF Steadies
<1>7. CASE StartFill(c)
  <2> PICK g, mn : g = thr[t].msg.f /\ mn = "Starting"
    OBVIOUS
  <2>1. /\ thr[t].pc = "start" /\ Done(t)
        /\ fp' \in {fp, [fp EXCEPT ![g] = [fp[g] EXCEPT !.main = mn]]}
    BY <1>7 DEF StartFill, InPlace
  <2>2. g \in Points /\ thr[t].own = NoRecord
    BY <1>1, <1>3, <2>1 DEF Proper, ReplyFrame, Working
  <2> PICK r, new : r = fp[g] /\ new = [r EXCEPT !.main = mn]
    OBVIOUS
  <2>3. new.total = r.total
    BY <1>1, <2>2 DEF Record
  <2>4. SameTotals
    BY <1>2, <2>1, <2>2, <2>3, PlacedTotals
  <2> QED
    BY <1>1, <2>1, <2>2, <2>4, DoneSteady DEF Steadies
<1>8. CASE Reconnect(c)
  <2>1. UNCHANGED thr
    BY <1>8 DEF Reconnect
  <2>2. ASSUME NEW f \in Points PROVE fp'[f].total = fp[f].total
    <3> PICK r, mn, b : r = fp[f] /\ mn = "Unavailable" /\ b = FALSE
      OBVIOUS
    <3> PICK new : new = [r EXCEPT !.main = mn, !.preset = b, !.stopped = b]
      OBVIOUS
    <3>1. fp'[f] = new
      BY <1>8 DEF Reconnect
    <3> QED
      BY <1>1, <3>1 DEF Record
  <2> QED
    BY <2>1, <2>2 DEF Steadies, SameTotals, Steady
<1> QED
  BY <1>4, <1>5, <1>6, <1>7, <1>8 DEF DeviceThread

\* The total that comes with a copy is that of the record, or the copy was overtaken.
LEMMA UpdateKeeps ==
  ASSUME IInv, Flow, Totals, Marks, left'.links = left.links, NEW t \in Threads, Update(t)
  PROVE  Keeps
<1> PICK g, copy, own : g = thr[t].f /\ copy = thr[t].copy /\ own = thr[t].own
  OBVIOUS
<1>1. /\ Types /\ Tables /\ Placed /\ Proper(t, thr[t]) /\ t[2] \in {"pos", "dev"}
      /\ t[1] \in Clients /\ (t[2] = "dev" => t = Dev(t[1]))
  BY ThreadsAre DEF IInv, Types, Placed
<1>2. thr[t].pc = "update" /\ WriteBack(g, t, copy) /\ Returns(t)
  BY DEF Update
<1>3. g \in Points /\ copy \in Record /\ copy # NoRecord
  BY <1>1, <1>2, RecordIsOne DEF Proper, Working
<1>4. fp'[g] = copy /\ \A h \in Points \ {g} : fp'[h] = fp[h]
  BY <1>1, <1>2, <1>3, WriteBackIs
<1>5. /\ Holders(g, t) \subseteq seen'.stale
      /\ t \in seen.stale => g \in seen'.overwritten
  <2> PICK st, ov : /\ st = (seen.stale \ {t}) \cup Holders(g, t)
                    /\ ov = IF t \in seen.stale THEN seen.overwritten \cup {g} ELSE seen.overwritten
    OBVIOUS
  <2>1. seen' = [seen EXCEPT !.stale = st, !.overwritten = ov]
    BY <1>2 DEF WriteBack
  <2>2. seen'.stale = st /\ seen'.overwritten = ov
    BY <1>1, <2>1 DEF Tables
  <2> QED
    BY <2>2
<1>6. /\ \A u \in Threads \ {t} : thr'[u] = thr[u]
      /\ t[2] = "pos" => thr'[t] = Idle /\ own = NoRecord
      /\ t[2] = "dev" => /\ thr'[t].f = g /\ thr'[t].copy = NoRecord /\ thr'[t].own = own
                         /\ own # NoRecord
  <2>1. thr[t].pc \in Working
    BY <1>2 DEF Working
  <2>2. t[2] = "pos" => own = NoRecord
    BY <1>1 DEF Proper
  <2> QED
    BY <1>1, <1>2, <2>1, <2>2, ReturnIs, RecordIsOne
<1>7. ASSUME NEW u \in Threads PROVE Counts(u)'
  <2> SUFFICES ASSUME thr'[u].copy # NoRecord, u \notin seen'.stale
               PROVE  thr'[u].copy.total =
                        IF thr'[u].own # NoRecord THEN thr'[u].own.total ELSE fp'[thr'[u].f].total
    BY DEF Counts
  <2>1. u # t
    BY <1>1, <1>6 DEF Idle
  <2>2. thr[u].copy # NoRecord /\ u \notin seen.stale /\ thr'[u] = thr[u]
    BY <1>6, <2>1 DEF Marks
  <2>3. thr[u].f \in Points \ {g}
    BY <1>1, <1>5, <2>1, <2>2 DEF Placed, Proper, Holders
  <2> QED
    BY <1>4, <2>2, <2>3 DEF Totals, Counts
<1>8. ASSUME NEW c \in Clients PROVE LitOwn(c)'
  <2>1. thr'[Dev(c)].own # NoRecord => thr[Dev(c)].own # NoRecord
    BY <1>1, <1>6, ThreadsAre DEF Idle
  <2> QED
    BY <2>1 DEF Totals, LitOwn
<1>9. ASSUME LoneLink, NEW c \in Linking, NEW f \in Points \ seen'.overwritten
      PROVE  Latest(c, f).total' = Latest(c, f).total
  <2>1. c \in Clients /\ c \in left.links /\ Dev(c) \in Threads /\ Dev(c)[2] = "dev"
    BY ThreadsAre DEF Linking, Flow, Dark
  <2>2. CASE t[2] = "pos"
    <3>1. thr'[Dev(c)] = thr[Dev(c)]
      BY <1>6, <2>1, <2>2
    <3>2. fp'[f].total = fp[f].total
      <4>1. f = g => copy.total = fp[g].total
        <5>1. f = g => t \notin seen.stale
          BY <1>5
        <5>2. own = NoRecord
          BY <1>6, <2>2
        <5> QED
          BY <1>3, <5>1, <5>2 DEF Totals, Counts
      <4> QED
        BY <1>4, <4>1
    <3> QED
      BY <3>1, <3>2 DEF Latest
  <2>3. CASE t[2] = "dev"
    <3>1. t = Dev(c)
      BY <1>1, <1>6, <1>9, <2>1, <2>3 DEF Totals, LitOwn, LoneLink
    <3>2. thr'[Dev(c)].f = g /\ thr'[Dev(c)].own = thr[Dev(c)].own /\ thr[Dev(c)].f = g
          /\ thr[Dev(c)].own # NoRecord
      BY <1>6, <2>3, <3>1
    <3> QED
      BY <1>4, <3>2 DEF Latest
  <2> QED
    BY <1>1, <2>2, <2>3
<1> QED
  BY <1>7, <1>8, <1>9 DEF Keeps, Totals, Marks

LEMMA StoreKeeps ==
  ASSUME IInv, Flow, Totals, Marks, left'.links = left.links, NEW d \in Clients, Store(d)
  PROVE  Keeps
<1> PICK t, g, own : t = Dev(d) /\ g = thr[t].f /\ own = thr[t].own
  OBVIOUS
<1>1. /\ Types /\ Tables /\ Placed /\ t \in Threads /\ Proper(t, thr[t]) /\ t[2] = "dev"
  BY ThreadsAre DEF IInv, Types, Placed
<1>2. thr[t].pc = "store" /\ WriteBack(g, t, own) /\ Done(t)
  BY DEF Store
<1>3. g \in Points /\ own \in Record /\ own # NoRecord
  BY <1>1, <1>2, RecordIsOne DEF Proper, Working
<1>4. fp'[g] = own /\ \A h \in Points \ {g} : fp'[h] = fp[h]
  BY <1>1, <1>2, <1>3, WriteBackIs
<1>5. Holders(g, t) \subseteq seen'.stale
  BY <1>1, <1>2, <1>3, WriteBackIs
<1>6. thr'[t] = Idle /\ \A u \in Threads \ {t} : thr'[u] = thr[u]
  BY <1>1, <1>2 DEF Done, Placed
<1>7. ASSUME NEW u \in Threads PROVE Counts(u)'
  <2> SUFFICES ASSUME thr'[u].copy # NoRecord, u \notin seen'.stale
               PROVE  thr'[u].copy.total =
                        IF thr'[u].own # NoRecord THEN thr'[u].own.total ELSE fp'[thr'[u].f].total
    BY DEF Counts
  <2>1. u # t
    BY <1>6 DEF Idle
  <2>2. thr[u].copy # NoRecord /\ u \notin seen.stale /\ thr'[u] = thr[u]
    BY <1>6, <2>1 DEF Marks
  <2>3. thr[u].f \in Points \ {g}
    BY <1>1, <1>5, <2>1, <2>2 DEF Placed, Proper, Holders
  <2> QED
    BY <1>4, <2>2, <2>3 DEF Totals, Counts
<1>8. ASSUME NEW c \in Clients PROVE LitOwn(c)'
  <2>1. thr'[Dev(c)].own # NoRecord => thr[Dev(c)].own # NoRecord
    BY <1>6, ThreadsAre DEF Idle
  <2> QED
    BY <2>1 DEF Totals, LitOwn
<1>9. ASSUME LoneLink, NEW c \in Linking, NEW f \in Points
      PROVE  Latest(c, f).total' = Latest(c, f).total
  <2>1. c \in Clients /\ c \in left.links /\ d \in left.links
    BY <1>3 DEF Linking, Flow, Dark, Totals, LitOwn
  <2>2. t = Dev(c)
    BY <1>9, <2>1 DEF LoneLink
  <2>3. thr[Dev(c)].f = g /\ thr[Dev(c)].own = own /\ thr'[Dev(c)].own = NoRecord
    BY <1>6, <2>2 DEF Idle
  <2>4. Latest(c, f)' = fp'[f]
    BY <2>3 DEF Latest
  <2>5. Latest(c, f) = IF f = g THEN own ELSE fp[f]
    BY <1>3, <2>3 DEF Latest
  <2> QED
    BY <1>4, <2>4, <2>5
<1> QED
  BY <1>7, <1>8, <1>9 DEF Keeps, Totals, Marks

LEMMA KeptTotals ==
  ASSUME IInv, Flow, Totals, [Next]_vars, \A c \in Clients : ~Data(c)
  PROVE  Keeps
<1>1. Marks /\ left'.links = left.links
  BY MarksKept, LinksKept DEF Flow
<1>2. UNCHANGED <<thr, fp>> => Steadies
  BY DEF Steadies, SameTotals, Steady
<1>3. Steadies => Keeps
  BY <1>1, SteadyKeeps
<1>4. ASSUME NEW c \in Clients, Serve(c) \/ Push(c) PROVE UNCHANGED <<thr, fp>>
  BY <1>4, Zenon DEF Serve, Push
<1>5. ASSUME NEW g \in Points, Nozzle(g) \/ Repeat(g) \/ Filled(g) PROVE UNCHANGED <<thr, fp>>
  BY <1>5, Zenon DEF Nozzle, Repeat, Filled
<1>6. ASSUME UNCHANGED vars PROVE UNCHANGED <<thr, fp>>
  BY <1>6 DEF vars
<1>7. ASSUME NEW t \in Threads, Procedures(t) PROVE Keeps
  BY <1>1, <1>3, <1>7, ProceduresSteady, UpdateKeeps
<1>8. ASSUME NEW c \in Clients, Requests(c) PROVE Keeps
  BY <1>3, <1>8, RequestsSteady
<1>9. ASSUME NEW c \in Clients, DeviceThread(c) PROVE Keeps
  BY <1>1, <1>3, <1>9, DeviceSteady, StoreKeeps
<1> QED
  BY <1>2, <1>3, <1>4, <1>5, <1>6, <1>7, <1>8, <1>9, Zenon DEF Next

\* The data of a dispenser that changed are to be pushed: the order that asks for them is
\* understood.
LEMMA StatusCarried == "GetDeviceStatus" \in Carried
<1> DEFINE N == {"GuidClient", "MessageId", "CommandCode", "MessageType"}
           Width(x) == IF x = "GuidClient" THEN 0 ELSE IF x = "MessageType" THEN 1 ELSE 4
<1>1. DOMAIN OrderHead = N
  BY DEF OrderHead, Longs, Bytes, Texts, ++
<1>2. ASSUME NEW x \in N PROVE x \in DOMAIN ParseDCRequest /\ ParseDCRequest[x] = OrderHead[x]
  BY DEF OrderHead, ParseDCRequest, Longs, Bytes, Texts, ++
<1>3. Taken(OrderHead, ParseDCRequest) = N
  BY <1>1, <1>2 DEF Taken
<1>4. /\ "GetDeviceStatus" \in DOMAIN Orders /\ Orders["GetDeviceStatus"] = OrderHead
      /\ Needed["GetDeviceStatus"] = {}
  BY DEF Orders, Needed, send_dc_get_status_message
<1>5. Understood("GetDeviceStatus")
  BY <1>1, <1>3, <1>4 DEF Understood
<1> QED
  BY <1>4, <1>5 DEF Carried

\* What a step makes of the news of f on the link of c: more to push, a last frame that says
\* it, or nothing.
SameFrames(c, f) ==
    \E r \in {0, 1} :
        /\ \A j \in 1 .. Len(down'[c]) : Of(down'[c][j], f) =>
             j + r \in 1 .. Len(down[c]) /\ down'[c][j] = down[c][j + r]
        /\ \A j \in 1 .. Len(down[c]) : Of(down[c][j], f) =>
             j - r \in 1 .. Len(down'[c]) /\ down'[c][j - r] = down[c][j]
SamePump(c, f) == pump'[f].sale = pump[f].sale /\ (f \in unsent[c] => f \in unsent'[c])
Brings(c, f) == f \in unsent'[c] \/ LastSays(c, f)' \/ (SamePump(c, f) /\ SameFrames(c, f))

LEMMA BringsKept ==
  ASSUME Types, Types', NEW c \in Clients, NEW f \in Points, Newest(c, f), Brings(c, f),
         Latest(c, f).total' = Latest(c, f).total
  PROVE  Newest(c, f)'
<1> SUFFICES ASSUME f \notin unsent'[c], ~LastSays(c, f)'
             PROVE  /\ \A j \in 1 .. Len(down'[c]) : ~Of(down'[c][j], f)
                    /\ Latest(c, f).total' = pump'[f].sale
  BY DEF Newest, LastSays, Of
<1>1. SamePump(c, f) /\ SameFrames(c, f)
  BY DEF Brings
<1> PICK p, q : p = down[c] /\ q = down'[c]
  OBVIOUS
<1>2. Len(p) \in Nat /\ Len(q) \in Nat
  BY DEF Types, Wires
<1>3. PICK r \in {0, 1} :
        /\ \A j \in 1 .. Len(q) : Of(q[j], f) => j + r \in 1 .. Len(p) /\ q[j] = p[j + r]
        /\ \A j \in 1 .. Len(p) : Of(p[j], f) => j - r \in 1 .. Len(q) /\ q[j - r] = p[j]
  BY <1>1 DEF SameFrames
<1>4. CASE LastSays(c, f)
  <2>1. PICK j \in 1 .. Len(p) : /\ Of(p[j], f) /\ p[j].counter = pump[f].sale
                                 /\ \A k \in 1 .. Len(p) : j < k => ~Of(p[k], f)
    BY <1>4 DEF LastSays
  <2> PICK i : i = j - r
    OBVIOUS
  <2>2. i \in 1 .. Len(q) /\ q[i] = p[j]
    BY <1>3, <2>1
  <2>3. ASSUME NEW k \in 1 .. Len(q), i < k, Of(q[k], f) PROVE FALSE
    <3>1. k + r \in 1 .. Len(p) /\ q[k] = p[k + r]
      BY <1>3, <2>3
    <3>2. j < k + r
      BY <1>2, <2>3
    <3> QED
      BY <2>1, <2>3, <3>1, <3>2
  <2>4. Of(q[i], f) /\ q[i].counter = pump'[f].sale
    BY <1>1, <2>1, <2>2 DEF SamePump
  <2>5. LastSays(c, f)'
    BY <2>2, <2>3, <2>4 DEF LastSays, Of
  <2> QED
    BY <2>5
<1>5. CASE /\ \A j \in 1 .. Len(p) : ~Of(p[j], f)
           /\ Latest(c, f).total = pump[f].sale
  <2>1. \A j \in 1 .. Len(q) : ~Of(q[j], f)
    BY <1>3, <1>5
  <2> QED
    BY <1>1, <1>5, <2>1 DEF SamePump
<1> QED
  BY <1>1, <1>4, <1>5 DEF Newest, SamePump

LEMMA FramesKept ==
  ASSUME Types, NEW c \in Clients, down'[c] = down[c]
  PROVE  \A f \in Points : SameFrames(c, f)
<1>1. Len(down[c]) \in Nat
  BY DEF Types, Wires
<1>2. \A j \in 1 .. Len(down[c]) : j + 0 = j /\ j - 0 = j
  BY <1>1
<1> QED
  BY <1>2 DEF SameFrames

\* Every dispenser that is changed is to be pushed to every link that is there.
LEMMA ChangesBring ==
  ASSUME Types, NEW g \in Points, NEW p, Changes(g, p), NEW c \in Clients, stored[c],
         NEW f \in Points
  PROVE  f \in unsent'[c] \/ SamePump(c, f)
<1>1. unsent'[c] = unsent[c] \cup {g}
  BY StatusCarried DEF Changes
<1>2. \A h \in Points \ {g} : pump'[h] = pump[h]
  BY DEF Changes, Types, Tables
<1> QED
  BY <1>1, <1>2 DEF SamePump

\* A frame more.
LEMMA AppendedFrames ==
  ASSUME Types, NEW c \in Clients, NEW m \in Frame, Sent(c, m)
  PROVE  /\ \A d \in Clients \ {c} : down'[d] = down[d]
         /\ Len(down[c]) \in Nat /\ Len(down'[c]) = Len(down[c]) + 1
         /\ down'[c][Len(down[c]) + 1] = m
         /\ \A j \in 1 .. Len(down[c]) : down'[c][j] = down[c][j]
<1> PICK q : q = down[c]
  OBVIOUS
<1>1. q \in Seq(Frame) /\ down' = [down EXCEPT ![c] = Append(q, m)] /\ down \in [Clients -> Seq(Frame)]
  BY DEF Types, Wires, Sent
<1>2. /\ Len(Append(q, m)) = Len(q) + 1 /\ Len(q) \in Nat
      /\ \A j \in 1 .. Len(q) : Append(q, m)[j] = q[j]
      /\ Append(q, m)[Len(q) + 1] = m
  BY <1>1
<1>3. down'[c] = Append(q, m) /\ \A d \in Clients \ {c} : down'[d] = down[d]
  BY <1>1
<1> QED
  BY <1>2, <1>3

LEMMA AnotherFrame ==
  ASSUME Types, NEW c \in Clients, NEW m \in Frame, Sent(c, m), NEW f \in Points, ~Of(m, f),
         NEW d \in Clients
  PROVE  SameFrames(d, f)
<1>1. CASE d # c
  BY <1>1, AppendedFrames, FramesKept
<1>2. CASE d = c
  <2> PICK n : n = Len(down[c])
    OBVIOUS
  <2>1. /\ n \in Nat /\ Len(down'[c]) = n + 1 /\ ~Of(down'[c][n + 1], f)
        /\ \A j \in 1 .. n : down'[c][j] = down[c][j]
    BY AppendedFrames
  <2>2. \A j \in 1 .. n + 1 : j \in 1 .. n \/ j = n + 1
    BY <2>1
  <2>3. \A j \in 1 .. n : j + 0 = j /\ j - 0 = j /\ j \in 1 .. n + 1
    BY <2>1
  <2> QED
    BY <1>2, <2>1, <2>2, <2>3 DEF SameFrames
<1> QED
  BY <1>1, <1>2

LEMMA ServeBrings ==
  ASSUME IInv, NEW c \in Clients, Serve(c), NEW d \in Clients, stored[d], NEW f \in Points
  PROVE  Brings(d, f)
<1> PICK m, who : m = Head(up[c]) /\ who = <<c, m.by>>
  OBVIOUS
<1>1. /\ Types /\ Tables /\ Wires
  BY DEF IInv, Types
<1>2. up[c] # <<>> /\ Len(down[c]) < MaxFrames /\ up' = [up EXCEPT ![c] = Tail(@)]
  BY DEF Serve
<1>3. PICK ok \in BOOLEAN :
        /\ IF ok THEN Changes(m.f, Executed(pump[m.f], m, who)) ELSE UNCHANGED <<pump, unsent>>
        /\ \/ down' = down
           \/ down' = [down EXCEPT ![c] = Append(@, [kind |-> "reply", code |-> m.code,
                                                     ok |-> ok, f |-> m.f])]
  <2> PICK ok : ok = (OrdersOf(m.code) \subseteq Carried /\ Accepts(pump[m.f], m.code))
    OBVIOUS
  <2> QED
    BY Zenon DEF Serve
<1>4. m \in Message /\ m.f \in Points /\ m.code \in Codes
  <2>1. m \in Message
    BY <1>1, <1>2, ServedIs
  <2> QED
    BY <2>1 DEF Message
<1>5. SameFrames(d, f)
  <2>1. CASE down' = down
    BY <1>1, <2>1, FramesKept
  <2>2. CASE down' # down
    <3> PICK frame : frame = [kind |-> "reply", code |-> m.code, ok |-> ok, f |-> m.f]
      OBVIOUS
    <3>1. frame \in Frame /\ ~Of(frame, f)
      BY <1>4 DEF ReplyFrame, Frame, Of
    <3>2. Sent(c, frame)
      BY <1>2, <1>3, <2>2 DEF Sent
    <3> QED
      BY <1>1, <3>1, <3>2, AnotherFrame
  <2> QED
    BY <2>1, <2>2
<1>6. f \in unsent'[d] \/ SamePump(d, f)
  <2>1. CASE ok
    BY <1>1, <1>3, <1>4, <2>1, ChangesBring
  <2>2. CASE ~ok
    BY <1>3, <2>2 DEF SamePump
  <2> QED
    BY <2>1, <2>2
<1> QED
  BY <1>5, <1>6 DEF Brings

LEMMA PushBrings ==
  ASSUME IInv, NEW c \in Clients, Push(c), NEW d \in Clients, NEW f \in Points
  PROVE  Brings(d, f)
<1>1. PICK g \in unsent[c] :
        /\ Len(down[c]) < MaxFrames
        /\ down' = [down EXCEPT ![c] = Append(@, [kind |-> "data", f |-> g,
                        state |-> pump[g].state, sale |-> pump[g].sale, counter |-> pump[g].sale,
                        nozzle |-> pump[g].state \in {"NozzleOut", "Filling", "Stopped"},
                        order |-> IF pump[g].dose = 0 THEN "free" ELSE "set"])]
        /\ unsent' = [unsent EXCEPT ![c] = @ \ {g}]
        /\ UNCHANGED <<pump, stored>>
  BY DEF Push
<1>2. Types /\ Tables /\ Wires /\ g \in Points
  BY DEF IInv, Types, Tables
<1>3. PICK m \in Frame : Sent(c, m) /\ m.kind = "data" /\ m.f = g /\ m.counter = pump[g].sale
  <2> PICK no, or : /\ no = (pump[g].state \in {"NozzleOut", "Filling", "Stopped"})
                    /\ or = IF pump[g].dose = 0 THEN "free" ELSE "set"
    OBVIOUS
  <2>1. no \in BOOLEAN /\ or \in {"free", "set"}
    OBVIOUS
  <2>2. pump[g].state \in PumpStates /\ pump[g].sale \in Nat
    BY <1>2 DEF Tables, Dispenser
  <2> DEFINE m == [kind |-> "data", f |-> g, state |-> pump[g].state, sale |-> pump[g].sale,
                   counter |-> pump[g].sale, nozzle |-> no, order |-> or]
  <2>3. m \in DataFrame /\ m.kind = "data" /\ m.f = g /\ m.counter = pump[g].sale
    BY <1>2, <2>1, <2>2 DEF DataFrame
  <2>4. Sent(c, m)
    BY <1>1 DEF Sent
  <2> QED
    BY <2>3, <2>4 DEF Frame
<1>4. CASE f = g /\ d = c
  <2> PICK n : n = Len(down[c])
    OBVIOUS
  <2>1. n \in Nat /\ Len(down'[c]) = n + 1 /\ down'[c][n + 1] = m
    BY <1>2, <1>3, AppendedFrames
  <2>2. /\ n + 1 \in 1 .. Len(down'[c]) /\ \A k \in 1 .. Len(down'[c]) : ~(n + 1 < k)
        /\ Of(down'[c][n + 1], f) /\ down'[c][n + 1].counter = pump'[f].sale
    BY <1>1, <1>3, <1>4, <2>1 DEF Of
  <2>3. LastSays(c, f)'
    BY <2>2 DEF LastSays, Of
  <2> QED
    BY <1>4, <2>3 DEF Brings
<1>5. CASE f # g \/ d # c
  <2>1. SamePump(d, f)
    BY <1>1, <1>2, <1>5 DEF SamePump, Tables
  <2>2. SameFrames(d, f)
    <3>1. CASE d # c
      BY <1>2, <1>3, <3>1, AppendedFrames, FramesKept
    <3>2. CASE f # g
      BY <1>2, <1>3, <3>2, AnotherFrame DEF Of
    <3> QED
      BY <1>5, <3>1, <3>2
  <2> QED
    BY <2>1, <2>2 DEF Brings
<1> QED
  BY <1>4, <1>5

LEMMA ReplyBrings ==
  ASSUME IInv, NEW c \in Clients, Reply(c), NEW d \in Clients, NEW f \in Points
  PROVE  Brings(d, f)
<1>1. /\ down[c] # <<>> /\ Head(down[c]).kind = "reply" /\ down' = [down EXCEPT ![c] = Tail(@)]
      /\ UNCHANGED <<up, pump, unsent>>
  BY DEF Reply
<1>2. Types /\ Wires
  BY DEF IInv, Types
<1>3. SamePump(d, f)
  BY <1>1 DEF SamePump
<1>4. SameFrames(d, f)
  <2>1. \A e \in Clients \ {c} : down'[e] = down[e]
    BY <1>1, <1>2, TakenIs
  <2>2. CASE d # c
    BY <1>2, <2>1, <2>2, FramesKept
  <2>3. CASE d = c
    <3> PICK q : q = down[c]
      OBVIOUS
    <3>1. q \in Seq(Frame) /\ q # <<>> /\ down'[c] = Tail(q)
      BY <1>1, <1>2 DEF Wires
    <3>2. /\ Len(Tail(q)) = Len(q) - 1 /\ Len(q) \in Nat \ {0} /\ Head(q) = q[1]
          /\ \A j \in 1 .. Len(q) - 1 : Tail(q)[j] = q[j + 1]
      BY <3>1
    <3>3. ~Of(q[1], f)
      BY <1>1, <3>2 DEF Of
    <3>4. \A j \in 1 .. Len(Tail(q)) : j + 1 \in 1 .. Len(q) /\ Tail(q)[j] = q[j + 1]
      BY <3>2
    <3>5. \A j \in 1 .. Len(q) : Of(q[j], f) =>
            j - 1 \in 1 .. Len(Tail(q)) /\ Tail(q)[j - 1] = q[j]
      <4> TAKE j \in 1 .. Len(q)
      <4> HAVE Of(q[j], f)
      <4>1. j # 1
        BY <3>3
      <4>2. j - 1 \in 1 .. Len(q) - 1 /\ (j - 1) + 1 = j
        BY <3>2, <4>1
      <4> QED
        BY <3>2, <4>2
    <3> QED
      BY <2>3, <3>1, <3>4, <3>5 DEF SameFrames
  <2> QED
    BY <2>2, <2>3
<1> QED
  BY <1>3, <1>4 DEF Brings

LEMMA CustomerBrings ==
  ASSUME IInv, NEW g \in Points, Nozzle(g) \/ Repeat(g) \/ Filled(g), NEW c \in Clients, stored[c],
         NEW f \in Points
  PROVE  Brings(c, f)
<1>1. UNCHANGED down /\ \E p : Changes(g, p)
  BY DEF Nozzle, Repeat, Filled
<1>2. Types
  BY DEF IInv
<1> QED
  BY <1>1, <1>2, ChangesBring, FramesKept DEF Brings

LEMMA LinkBrings ==
  ASSUME IInv, [Next]_vars, NEW c \in Clients, stored[c], stored'[c], stored \in [Clients -> BOOLEAN],
         \A d \in Clients : ~Data(d), NEW f \in Points
  PROVE  Brings(c, f)
<1>0. Types
  BY DEF IInv
<1>1. UNCHANGED <<down, pump, unsent>> => Brings(c, f)
  BY <1>0, FramesKept DEF Brings, SamePump
<1>2. ASSUME NEW t \in Threads, Procedures(t) PROVE UNCHANGED <<down, pump, unsent>>
  BY <1>2, Zenon DEF Procedures, Unauthorized, Authorize, Reset, SetCode, SetName, Send, Params,
                     Update
<1>3. ASSUME NEW d \in Clients, Requests(d) PROVE UNCHANGED <<down, pump, unsent>>
  BY <1>3, Zenon DEF Requests, AskAuthorize, AskReset, AskClear, AskOpen, AskClose, AskStop,
                     AskResume
<1>4. ASSUME NEW d \in Clients, Store(d) \/ Timeout(d) \/ Forget(d) \/ ForgetTime(d) \/ StartFill(d)
      PROVE  UNCHANGED <<down, pump, unsent>>
  BY <1>4, Zenon DEF Store, Timeout, Forget, ForgetTime, StartFill
<1>5. ASSUME NEW d \in Clients, Reconnect(d) PROVE Brings(c, f)
  <2>1. /\ stored' = [stored EXCEPT ![d] = FALSE] /\ down' = [down EXCEPT ![d] = <<>>]
        /\ unsent' = [unsent EXCEPT ![d] = {}] /\ UNCHANGED pump
    BY <1>5 DEF Reconnect
  <2>2. d # c
    BY <2>1
  <2>3. down'[c] = down[c] /\ unsent'[c] = unsent[c]
    BY <1>0, <2>1, <2>2 DEF Types, Wires, Tables
  <2> QED
    BY <1>0, <2>1, <2>3, FramesKept DEF Brings, SamePump
<1>6. ASSUME NEW d \in Clients, DeviceThread(d) PROVE Brings(c, f)
  BY <1>1, <1>4, <1>5, <1>6, ReplyBrings DEF DeviceThread
<1>7. ASSUME UNCHANGED vars PROVE UNCHANGED <<down, pump, unsent>>
  BY <1>7 DEF vars
<1>8. ASSUME NEW d \in Clients, Serve(d) \/ Push(d) PROVE Brings(c, f)
  BY <1>8, ServeBrings, PushBrings
<1>9. ASSUME NEW g \in Points, Nozzle(g) \/ Repeat(g) \/ Filled(g) PROVE Brings(c, f)
  BY <1>9, CustomerBrings
<1> QED
  BY <1>1, <1>2, <1>3, <1>6, <1>7, <1>8, <1>9, Zenon DEF Next

LEMMA DataKeepsNews ==
  ASSUME IInv, Flow, Totals, News, NEW c \in Clients, Data(c)
  PROVE  Totals' /\ (stored' = stored /\ News')
<1>1. PICK m, rec, own : Hears(c, m, rec, own)
  BY DataIs
<1>2. /\ down[c] # <<>> /\ m = down[c][1] /\ m.kind = "data" /\ m.f \in Points
      /\ down' = [down EXCEPT ![c] = Tail(@)] /\ own \in Record /\ own # NoRecord
      /\ rec.total = m.counter /\ own.total = m.counter /\ thr[Dev(c)] = Idle
      /\ UNCHANGED <<fp, unsent, pump, stored, left, seen>>
  BY <1>1, RecordIsOne DEF Hears
<1>3. PICK p : /\ thr' = [thr EXCEPT ![Dev(c)] = p] /\ p.f = m.f /\ p.own = own
               /\ p.copy \in {rec, NoRecord}
  BY <1>1 DEF Hears
<1>4. /\ Types /\ Wires /\ Dev(c) \in Threads /\ thr'[Dev(c)] = p
      /\ \A u \in Threads \ {Dev(c)} : thr'[u] = thr[u]
  BY <1>3, ThreadsAre DEF IInv, Types, Placed
<1> PICK q : q = down[c]
  OBVIOUS
<1>5. /\ Len(q) \in Nat \ {0} /\ down'[c] = Tail(q) /\ Len(Tail(q)) = Len(q) - 1 /\ q[1] = m
      /\ \A j \in 1 .. Len(q) - 1 : Tail(q)[j] = q[j + 1]
  <2>1. q \in Seq(Frame) /\ q # <<>> /\ down'[c] = Tail(q)
    BY <1>2, <1>4 DEF Wires
  <2> QED
    BY <1>2, <2>1
<1>6. c \in left.links
  BY <1>2, <1>5 DEF Flow, Dark
<1>7. Totals'
  <2>1. ASSUME NEW u \in Threads PROVE Counts(u)'
    <3>1. CASE u = Dev(c)
      <4>1. p.copy # NoRecord => p.copy.total = p.own.total
        BY <1>2, <1>3
      <4> QED
        BY <1>2, <1>3, <1>4, <3>1, <4>1 DEF Counts
    <3>2. CASE u # Dev(c)
      BY <1>2, <1>4, <3>2 DEF Totals, Counts
    <3> QED
      BY <3>1, <3>2
  <2>2. ASSUME NEW d \in Clients PROVE LitOwn(d)'
    <3>1. CASE d = c
      BY <1>2, <1>6, <3>1 DEF LitOwn
    <3>2. CASE d # c
      <4>1. thr'[Dev(d)] = thr[Dev(d)]
        BY <1>4, <3>2, ThreadsAre
      <4> QED
        BY <1>2, <4>1 DEF Totals, LitOwn
    <3> QED
      BY <3>1, <3>2
  <2> QED
    BY <2>1, <2>2 DEF Totals
<1>8. ASSUME LoneLink, NEW d \in Linking, NEW f \in Points \ seen.overwritten
      PROVE  Newest(d, f)'
  <2>1. d = c
    BY <1>6, <1>8 DEF Linking, Flow, Dark, LoneLink
  <2>2. Newest(c, f)
    BY <1>8, <2>1 DEF News
  <2>3. CASE f \in unsent[c]
    BY <1>2, <2>1, <2>3 DEF Newest
  <2>4. CASE LastSays(c, f)
    <3>1. PICK j \in 1 .. Len(q) : /\ Of(q[j], f) /\ q[j].counter = pump[f].sale
                                   /\ \A k \in 1 .. Len(q) : j < k => ~Of(q[k], f)
      BY <2>4 DEF LastSays
    <3>2. CASE j = 1
      <4>1. m.f = f /\ m.counter = pump[f].sale
        BY <1>5, <3>1, <3>2 DEF Of
      <4>2. \A k \in 1 .. Len(Tail(q)) : ~Of(Tail(q)[k], f)
        <5> TAKE k \in 1 .. Len(Tail(q))
        <5>1. k + 1 \in 1 .. Len(q) /\ 1 < k + 1 /\ Tail(q)[k] = q[k + 1]
          BY <1>5
        <5> QED
          BY <3>1, <3>2, <5>1
      <4>3. Latest(c, f)' = own
        BY <1>2, <1>3, <1>4, <4>1 DEF Latest
      <4> QED
        BY <1>2, <1>5, <2>1, <4>1, <4>2, <4>3 DEF Newest, Of
    <3>3. CASE j # 1
      <4> PICK i : i = j - 1
        OBVIOUS
      <4>1. i \in 1 .. Len(Tail(q)) /\ Tail(q)[i] = q[j]
        <5>1. i \in 1 .. Len(q) - 1 /\ i + 1 = j
          BY <1>5, <3>3
        <5> QED
          BY <1>5, <5>1
      <4>2. ASSUME NEW k \in 1 .. Len(Tail(q)), i < k PROVE ~Of(Tail(q)[k], f)
        <5>1. k + 1 \in 1 .. Len(q) /\ j < k + 1 /\ Tail(q)[k] = q[k + 1]
          BY <1>5, <4>2
        <5> QED
          BY <3>1, <5>1
      <4>3. LastSays(c, f)'
        BY <1>2, <1>5, <3>1, <4>1, <4>2 DEF LastSays, Of
      <4> QED
        BY <2>1, <4>3 DEF Newest, LastSays, Of
    <3> QED
      BY <3>2, <3>3
  <2>5. CASE /\ \A j \in 1 .. Len(q) : ~Of(q[j], f)
             /\ Latest(c, f).total = pump[f].sale
    <3>1. m.f # f
      BY <1>2, <1>5, <2>5 DEF Of
    <3>2. Latest(c, f) = fp[f] /\ Latest(c, f)' = fp'[f]
      BY <1>2, <1>3, <1>4, <3>1 DEF Latest, Idle
    <3>3. \A k \in 1 .. Len(Tail(q)) : ~Of(Tail(q)[k], f)
      <4> TAKE k \in 1 .. Len(Tail(q))
      <4>1. k + 1 \in 1 .. Len(q) /\ Tail(q)[k] = q[k + 1]
        BY <1>5
      <4> QED
        BY <2>5, <4>1
    <3> QED
      BY <1>2, <1>5, <2>1, <2>5, <3>2, <3>3 DEF Newest, Of
  <2> QED
    BY <2>2, <2>3, <2>4, <2>5 DEF Newest
<1> QED
  BY <1>2, <1>7, <1>8 DEF News, LoneLink, Linking

\* The inductive invariant of the totals.
TInv == IInv /\ Flow /\ Totals /\ News

LEMMA TotalsKept ==
  ASSUME TInv, [Next]_vars
  PROVE  TInv'
<1>1. IInv' /\ IInv /\ Flow /\ Totals /\ News
  BY NextOK, StutterOK DEF TInv
<1>2. Flow' /\ Streams /\ left'.links = left.links
  BY <1>1, FlowKept, LinksKept DEF Flow
<1>3. CASE \E c \in Clients : Data(c)
  BY <1>1, <1>2, <1>3, DataKeepsNews DEF TInv
<1>4. CASE ~\E c \in Clients : Data(c)
  <2>1. Keeps
    BY <1>1, <1>4, KeptTotals
  <2>2. ASSUME LoneLink', NEW c \in Linking', NEW f \in Points \ seen'.overwritten
        PROVE  Newest(c, f)'
    <3>1. c \in Clients /\ stored'[c] /\ stored[c] /\ LoneLink /\ c \in Linking
      BY <1>2, <2>2 DEF Linking, Streams, LoneLink
    <3>2. f \in Points \ seen.overwritten /\ Latest(c, f).total' = Latest(c, f).total
      BY <2>1, <2>2, <3>1 DEF Keeps
    <3>3. Newest(c, f)
      BY <1>1, <3>1, <3>2 DEF News
    <3>4. Brings(c, f)
      BY <1>1, <1>4, <3>1, LinkBrings DEF Flow
    <3> QED
      BY <1>1, <3>1, <3>2, <3>3, <3>4, BringsKept DEF IInv
  <2> QED
    BY <1>1, <1>2, <2>1, <2>2 DEF TInv, Keeps, News
<1> QED
  BY <1>3, <1>4

LEMMA InitTotals ==
  ASSUME Init
  PROVE  Totals /\ News
<1>1. /\ left.stored \in Nat
      /\ fp = [f \in Points |-> Loaded(left.stored)]
      /\ thr = [t \in Threads |-> Idle] /\ down = [c \in Clients |-> <<>>]
      /\ \A f \in Points : pump[f].sale = left.stored
  BY ConstantsAssumption DEF Init, PlansAssumption
<1>2. \A t \in Threads : thr[t].copy = NoRecord /\ thr[t].own = NoRecord
  BY <1>1 DEF Idle
<1>3. Totals
  BY <1>2, ThreadsAre DEF Totals, Counts, LitOwn
<1>4. ASSUME NEW c \in Clients, NEW f \in Points PROVE Newest(c, f)
  <2>1. down[c] = <<>> /\ Len(down[c]) = 0
    BY <1>1
  <2>2. Latest(c, f) = Loaded(left.stored)
    BY <1>1, <1>2, ThreadsAre DEF Latest
  <2>3. Loaded(left.stored).total = left.stored
    BY DEF Loaded
  <2> QED
    BY <1>1, <2>1, <2>2, <2>3 DEF Newest
<1> QED
  BY <1>3, <1>4 DEF News, Linking

\* Once everything under way has arrived, the totals of the points are the counters of their
\* dispensers, unless a record was overwritten with an old copy: a counter that changed is
\* still to be pushed, or in the last frame about the point, or with the thread of the link,
\* or in the table, and a copy that is not old has it too.
THEOREM TotalsAlwaysAgree == Spec => []TotalsAgree
<1>1. Init => TInv
  BY InitOK, InitFlows, InitTotals DEF TInv
<1>2. TInv /\ [Next]_vars => TInv'
  BY TotalsKept
<1>3. TInv => TotalsAgree
  <2> SUFFICES ASSUME TInv, Quiet, LoneLink, NEW c \in Linking,
                      NEW f \in Points \ seen.overwritten
               PROVE  fp[f].total = pump[f].sale
    BY DEF TotalsAgree
  <2>1. Newest(c, f) /\ c \in Clients
    BY DEF TInv, News, Linking
  <2>2. unsent[c] = {} /\ Len(down[c]) = 0 /\ thr[Dev(c)].pc = "idle"
    BY <2>1, ThreadsAre DEF Quiet
  <2>3. thr[Dev(c)].own = NoRecord
    <3>1. Proper(Dev(c), thr[Dev(c)])
      BY <2>1, ThreadsAre DEF TInv, IInv, Types, Placed
    <3> QED
      BY <2>2, <3>1 DEF Proper, Idle
  <2>4. Latest(c, f) = fp[f]
    BY <2>3 DEF Latest
  <2> QED
    BY <2>1, <2>2, <2>4 DEF Newest, LastSays
<1> QED
  BY <1>1, <1>2, <1>3, PTL DEF Spec
=============================================================================
