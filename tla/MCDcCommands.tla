--------------------------- MODULE MCDcCommands ---------------------------
(***************************************************************************)
(* The instance of DcCommands for the safety properties.  It has two kinds *)
(* of behaviours: clients that log in, one after the other over one slot,  *)
(* and two clients that need not log in and stay connected.                *)
(***************************************************************************)
EXTENDS DcCommands

VARIABLE mode

InTurnNext ==
  \/ \E s \in Slots : \/ Connect(s) /\ \A t \in Slots : state[t] = "Free"
                      \/ ReaderEnds(s) \/ Login(s) \/ ClientThread(s)
  \/ \E s \in Slots, k \in {"Stop", "Reset"}, n \in 0 .. NDisps : Submit(s, k, n)
  \/ DisconnectAll
  \/ PollOk \/ Poll("Fault")
  \/ DeviceStep

TogetherNext ==
  \/ \E s \in Slots : Connect(s) \/ ClientThread(s)
  \/ \E s \in Slots, n \in 1 .. NDisps : Submit(s, "Start", n)
  \/ PollOk \/ Poll("Fault")
  \/ DeviceStep

TwoModesInit == Init /\ mode = IF filtering THEN "in turn" ELSE "together"

TwoModesNext ==
  \/ mode = "in turn" /\ InTurnNext /\ UNCHANGED mode
  \/ mode = "together" /\ TogetherNext /\ UNCHANGED mode

TwoModesSpec == TwoModesInit /\ [][TwoModesNext]_<<vars, mode>>
=============================================================================
