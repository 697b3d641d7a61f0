------------------------------- MODULE PssLoad -------------------------------
(***************************************************************************)
(* The start of pss: its configuration thread connects to the              *)
(* administration socket of the hardware server, asks for the four kinds   *)
(* of devices one after the other, and a reader thread installs what the   *)
(* answers name (hardware_serv.c of pss).  The server answers requests in  *)
(* order over a connection that may break at any point.  The devices of an *)
(* answer are one batch here, named by their kind.                         *)
(***************************************************************************)
EXTENDS Naturals, Sequences

CONSTANTS MaxPending,   \* bound: requests and answers under way on a link
          MaxBreaks     \* bound: how often the link breaks

Steps == <<"dc", "tgs", "ppc", "sc">>
Types == {"dc", "tgs", "ppc", "sc"}
GetDcConf == 1
GetScConf == Len(Steps)
Complete == Len(Steps) + 1

ASSUME BoundsAssumption == MaxPending \in Nat \ {0} /\ MaxBreaks \in Nat

VARIABLES
    conf,              \* what serv_conf_thread is doing
    reader,            \* what serv_conf_read_thread is doing
    connected,         \* connected of hardware_serv.c
    hs_state,          \* the step: an index of Steps, or Complete
    up,                \* the server holds its end of the link
    requests,          \* kinds asked for that the server has not answered
    answers,           \* kinds answered that the reader has not read
    server_devices,    \* the kinds whose devices were installed, in order
    loaded,            \* server_conf_is_load
    breaks,            \* how often the link broke
    past               \* history: "late", "remade", "raced", once they happened

link == <<up, requests, answers>>
vars == <<conf, reader, connected, hs_state, link, server_devices, loaded, breaks, past>>

Init == /\ conf = "connecting"
        /\ reader = "none"
        /\ connected = FALSE
        /\ hs_state = GetDcConf
        /\ up = FALSE
        /\ requests = <<>>
        /\ answers = <<>>
        /\ server_devices = <<>>
        /\ loaded = FALSE
        /\ breaks = 0
        /\ past = {}

Note(what, happened) == past' = past \cup (IF happened THEN {what} ELSE {})

-----------------------------------------------------------------------------
(* The configuration thread.                                               *)

(* Mutant: a new link starts from the first step, with the old devices.    *)
Connect_FromTheStart ==
    /\ conf = "connecting" /\ ~connected
    /\ conf' = "starting"
    /\ reader' = "reading"
    /\ hs_state' = GetDcConf
    /\ up' = TRUE /\ requests' = <<>> /\ answers' = <<>>
    /\ Note("remade", hs_state # GetDcConf)
    /\ UNCHANGED <<connected, server_devices, loaded, breaks>>

(* The devices of an earlier link are forgotten, the step is not.          *)
Connect ==
    /\ conf = "connecting" /\ ~connected
    /\ conf' = "starting"
    /\ reader' = "reading"
    /\ up' = TRUE /\ requests' = <<>> /\ answers' = <<>>
    /\ server_devices' = <<>>
    /\ Note("remade", hs_state # GetDcConf)
    /\ UNCHANGED <<connected, hs_state, loaded, breaks>>

(* The reader runs before this and may have seen the link's end already.   *)
SetConnected ==
    /\ conf = "starting"
    /\ connected' = TRUE
    /\ conf' = "asking"
    /\ Note("raced", reader = "ended")
    /\ UNCHANGED <<reader, hs_state, link, server_devices, loaded, breaks>>

(* SERVER_REPLY_TIMEOUT after the last request the one of the current step *)
(* is sent, whether or not the last was answered.                          *)
Ask ==
    /\ conf = "asking" /\ connected /\ hs_state # Complete
    /\ Len(requests) + Len(answers) < MaxPending
    /\ requests' = IF up THEN Append(requests, Steps[hs_state]) ELSE requests
    /\ Note("late", requests # <<>> \/ answers # <<>>)
    /\ UNCHANGED <<conf, reader, connected, hs_state, up, answers, server_devices, loaded, breaks>>

Finish ==
    /\ conf = "asking" /\ connected /\ hs_state = Complete
    /\ loaded' = TRUE
    /\ conf' = "done"
    /\ UNCHANGED <<reader, connected, hs_state, link, server_devices, breaks, past>>

Disconnect ==
    /\ conf = "asking" /\ ~connected
    /\ conf' = "connecting"
    /\ up' = FALSE /\ requests' = <<>> /\ answers' = <<>>
    /\ UNCHANGED <<reader, connected, hs_state, server_devices, loaded, breaks, past>>

-----------------------------------------------------------------------------
(* The reader thread.                                                      *)
(* Any answer completes the current step, whichever step asked for it.     *)
ParseConfigFrame ==
    /\ reader = "reading" /\ answers # <<>>
    /\ server_devices' = Append(server_devices, Head(answers))
    /\ answers' = Tail(answers)
    /\ hs_state' = IF hs_state = Complete THEN Complete ELSE hs_state + 1
    /\ reader' = IF hs_state >= GetScConf THEN "ended" ELSE "reading"
    /\ UNCHANGED <<conf, connected, up, requests, loaded, breaks, past>>

(* Mutant: the end of the link is not reported.                            *)
ReadClosed_Silent ==
    /\ reader = "reading" /\ answers = <<>> /\ ~up
    /\ reader' = "ended"
    /\ UNCHANGED <<conf, connected, hs_state, link, server_devices, loaded, breaks, past>>

ReadClosed ==
    /\ reader = "reading" /\ answers = <<>> /\ ~up
    /\ connected' = FALSE
    /\ reader' = "ended"
    /\ UNCHANGED <<conf, hs_state, link, server_devices, loaded, breaks, past>>

-----------------------------------------------------------------------------
(* The hardware server and the link.                                       *)
ServerAnswers ==
    /\ up /\ requests # <<>>
    /\ answers' = Append(answers, Head(requests))
    /\ requests' = Tail(requests)
    /\ UNCHANGED <<conf, reader, connected, hs_state, up, server_devices, loaded, breaks,
                   past>>

(* The link breaks: what the server had sent may still arrive, or part.    *)
LinkBreaks ==
    /\ up /\ breaks < MaxBreaks
    /\ up' = FALSE
    /\ requests' = <<>>
    /\ \E n \in 0..Len(answers) : answers' = SubSeq(answers, 1, n)
    /\ breaks' = breaks + 1
    /\ UNCHANGED <<conf, reader, connected, hs_state, server_devices, loaded, past>>

ConfThread == Connect \/ SetConnected \/ Ask \/ Finish \/ Disconnect
ReadThread == ParseConfigFrame \/ ReadClosed

Next ==
    \/ Connect \/ SetConnected \/ Ask \/ Finish \/ Disconnect
    \/ ParseConfigFrame \/ ReadClosed
    \/ ServerAnswers \/ LinkBreaks

Spec == Init /\ [][Next]_vars

(* Both threads run, a server that is asked answers, and a break is only   *)
(* the environment's.                                                      *)
FairSpec == Spec /\ WF_vars(ConfThread) /\ WF_vars(ReadThread) /\ WF_vars(ServerAnswers)

-----------------------------------------------------------------------------
(* As long as no request was sent while one was under way, no kind is      *)
(* installed twice; and when the load is declared complete, and the link   *)
(* was not made again half way, all four are (ParseConfigFrame,            *)
(* serv_conf_thread_func, clear_service_devices).  Both conditions are     *)
(* needed: the code counts answers without looking at them, and keeps its  *)
(* step over a reconnect.                                                  *)
LoadedOnce ==
    "late" \notin past =>
        /\ \A i, j \in DOMAIN server_devices : server_devices[i] = server_devices[j] => i = j
        /\ loaded /\ "remade" \notin past => server_devices = Steps

(* The configuration is loaded in the end, however often the link broke    *)
(* before, so that pss leaves its wait for it (main of pss.c); except when *)
(* a link ended between the start of its reader and set_connected(TRUE):   *)
(* then the thread asks a dead link for ever.                              *)
LoadCompletes == <>(loaded \/ "raced" \in past)
=============================================================================
