----------------------------- MODULE DcCommands -----------------------------
(***************************************************************************)
(* The command slots of the hardware server's dispenser controllers.       *)
(*                                                                         *)
(* Every client connected to a dispenser controller owns a slot of the     *)
(* table dc_clients[] (dc_device_client_data.c, guarded by dcc_mutex).     *)
(* Four kinds of threads meet there: the client's read thread stores a     *)
(* command, the controller's device thread picks it up, runs the driver    *)
(* and stores the result, the client's own thread collects the result and  *)
(* answers, and it also forwards the events the device thread flags.  Each *)
(* action below is one critical section of dcc_mutex (or a run of them     *)
(* that no other thread can tell apart).                                   *)
(*                                                                         *)
(* A slot is served by one client thread and one read thread at a time:    *)
(* that is what module DcSessions establishes of the accept and destroy    *)
(* code, and what lets this module index the threads by the slot.          *)
(***************************************************************************)
EXTENDS Integers

CONSTANTS NClients,     \* MAX_DEVICE_CLIENT_COUNT
          NDisps,       \* dispensers the driver reports
          Kinds,        \* the commands the clients of this instance send
          Outcomes,     \* what a driver call may return
          Filterings,   \* settings of ProfilesConf.enable: clients must log in
          Levels,       \* access levels of the profiles
          MaxMsg,       \* bound: requests accepted in one behaviour
          MaxSess,      \* bound: connections accepted in one behaviour
          MaxVer,       \* bound: changes of a dispenser's data
          MaxTurns      \* bound: times the device status turns bad

AllKinds == {"SetVolumeDose", "SetSumDose", "Start", "Stop", "Reset"}

ASSUME SizesAssumption ==
  /\ NClients \in Nat \ {0} /\ NDisps \in Nat \ {0}
  /\ MaxMsg \in Nat /\ MaxSess \in Nat /\ MaxVer \in Nat /\ MaxTurns \in Nat
ASSUME KindsAssumption == Kinds \subseteq AllKinds
ASSUME AccessAssumption == Filterings \subseteq BOOLEAN /\ Levels \subseteq 0..4
ASSUME OutcomesAssumption ==
  /\ Outcomes # {}
  /\ "Undefined" \notin Outcomes /\ "none" \notin Outcomes

Slots == 0 .. NClients - 1
Disps == 0 .. NDisps - 1
Msgs  == 1 .. MaxMsg

CalDisable  == 0
CalReadOnly == 1
CalUnlim    == 4

Results == Outcomes \cup {"Undefined", "NoError"}

\* DispencerClientInfo: the parameters of the request are those of request
\* number mid; mid 0 stands for a cleared record.
Info == [command : Kinds \cup {"None"},
         st      : {"Free", "New", "Run", "Complete"},
         mid     : 0 .. MaxMsg,
         result  : Results]

NoCommand(r) == [command |-> "None", st |-> "Free", mid |-> 0, result |-> r]

VARIABLES
  state,       \* [Slots -> ClientState]
  logged,      \* [Slots -> BOOLEAN]
  level,       \* [Slots -> access_level]
  infoCount,   \* [Slots -> dispencer_info_count]
  info,        \* [Slots -> [Disps -> Info]]
  change,      \* [Slots -> [Disps -> BOOLEAN]]: status_is_change
  devFlag,     \* [Slots -> BOOLEAN]: device_status_is_change
  reader,      \* [Slots -> read thread: "off", "run", "done"]
  pc,          \* [Slots -> place of the client thread in its loop]
  at,          \* [Slots -> dispenser the client thread is at]
  got,         \* [Slots -> result the client thread holds and will send]
  dispCount,   \* dispencer_count of the controller (0 until the driver is up)
  dpc,         \* place of the device thread
  dd,          \* dispenser the device thread is at
  job,         \* command the device thread is running
  ver,         \* [Disps -> number of changes of the dispenser's data]
  status,      \* device status
  dirty,       \* device_status_is_changed
  turns,       \* times the status turned bad so far
  filtering    \* ProfilesConf.enable, as configured

\* What happened so far; read by the properties only, never by a guard
\* (sess and nmsg also carry the bounds).
VARIABLES
  sess,        \* [Slots -> number of the connection that owns the slot]
  nsess,       \* connections so far
  nmsg,        \* requests accepted so far
  req,         \* [Msgs -> facts about the request when it was accepted]
  runs,        \* [Msgs -> driver calls made for it]
  outcome,     \* [Msgs -> what the driver returned]
  answer,      \* [Msgs -> what the client was answered, or "none"]
  answers,     \* [Msgs -> number of answers]
  entered,     \* [Slots -> BOOLEAN]: logged in on this very connection
  seen,        \* [Slots -> [Disps -> data version last sent, or -1]]
  told         \* [Slots -> device status last sent, or "none"]

table  == <<state, logged, level, infoCount, info, change, devFlag>>
client == <<reader, pc, at, got>>
device == <<dispCount, dpc, dd, job, ver, status, dirty, turns, filtering>>
ledger == <<nmsg, req, runs, outcome, answer, answers>>
sent   == <<entered, seen, told>>
vars   == <<table, client, device, ledger, sent, sess, nsess>>

NoReq == [slot |-> 0, sess |-> 0, disp |-> 0, kind |-> "None",
          over |-> FALSE, heir |-> FALSE]
Req   == [slot : Slots, sess : 0 .. MaxSess, disp : Disps,
          kind : Kinds \cup {"None"}, over : BOOLEAN, heir : BOOLEAN]
\* The client thread's locals before a result is fetched
Nothing == [mid |-> 0, result |-> "Undefined"]
NoJob == [slot |-> 0, mid |-> 0]

Init ==
  /\ state     = [s \in Slots |-> "Free"]
  /\ logged    = [s \in Slots |-> FALSE]
  /\ level     = [s \in Slots |-> CalDisable]
  /\ infoCount = [s \in Slots |-> 0]
  /\ info      = [s \in Slots |-> [d \in Disps |-> NoCommand("NoError")]]
  /\ change    = [s \in Slots |-> [d \in Disps |-> FALSE]]
  /\ devFlag   = [s \in Slots |-> FALSE]
  /\ reader    = [s \in Slots |-> "off"]
  /\ pc        = [s \in Slots |-> "off"]
  /\ at        = [s \in Slots |-> 0]
  /\ got       = [s \in Slots |-> Nothing]
  /\ dispCount = 0 /\ dpc = "init" /\ dd = 0 /\ job = NoJob
  /\ ver = [d \in Disps |-> 0]
  /\ status = "Fault" /\ dirty = TRUE /\ turns = 0
  /\ filtering \in Filterings
  /\ sess = [s \in Slots |-> 0] /\ nsess = 0
  /\ nmsg = 0
  /\ req     = [m \in Msgs |-> NoReq]
  /\ runs    = [m \in Msgs |-> 0]
  /\ outcome = [m \in Msgs |-> "none"]
  /\ answer  = [m \in Msgs |-> "none"]
  /\ answers = [m \in Msgs |-> 0]
  /\ entered = [s \in Slots |-> FALSE]
  /\ seen = [s \in Slots |-> [d \in Disps |-> -1]]
  /\ told = [s \in Slots |-> "none"]

-----------------------------------------------------------------------------
(* A connection: the accept code takes the first free slot and fills it in; *)
(* destroy_dc_client gives it back when both of its threads are through.    *)

FirstFree(s) == /\ state[s] = "Free"
                /\ \A t \in Slots : t < s => state[t] # "Free"

\* Mutant: the slot keeps the log-in of the connection before.
Connect_KeepsLogin(s) ==
  /\ nsess < MaxSess
  /\ FirstFree(s)
  /\ state'     = [state EXCEPT ![s] = "Active"]
  /\ infoCount' = [infoCount EXCEPT ![s] = dispCount]
  /\ info'      = [info EXCEPT ![s] = [d \in Disps |->
                     IF d < dispCount THEN NoCommand("NoError") ELSE info[s][d]]]
  /\ change'    = [change EXCEPT ![s] = [d \in Disps |->
                     IF d < dispCount THEN TRUE ELSE change[s][d]]]
  /\ devFlag'   = [devFlag EXCEPT ![s] = TRUE]
  /\ reader'    = [reader EXCEPT ![s] = "run"]
  /\ pc'        = [pc EXCEPT ![s] = "loop"]
  /\ at'        = [at EXCEPT ![s] = 0]
  /\ nsess' = nsess + 1
  /\ sess'  = [sess EXCEPT ![s] = nsess + 1]
  /\ entered' = [entered EXCEPT ![s] = FALSE]
  /\ seen'  = [seen EXCEPT ![s] = [d \in Disps |-> -1]]
  /\ told'  = [told EXCEPT ![s] = "none"]
  /\ UNCHANGED <<logged, level, got, device, ledger>>

\* find_new_dc_client_index and set_new_dc_client_param.  The number of
\* dispensers is read once, here: a client accepted before the driver came up
\* keeps a slot without dispensers.
Connect(s) ==
  /\ nsess < MaxSess
  /\ FirstFree(s)
  /\ state'     = [state EXCEPT ![s] = "Active"]
  /\ logged'    = [logged EXCEPT ![s] = ~filtering]
  /\ level'     = [level EXCEPT ![s] = IF filtering THEN CalDisable ELSE CalUnlim]
  /\ infoCount' = [infoCount EXCEPT ![s] = dispCount]
  /\ info'      = [info EXCEPT ![s] = [d \in Disps |->
                     IF d < dispCount THEN NoCommand("NoError") ELSE info[s][d]]]
  /\ change'    = [change EXCEPT ![s] = [d \in Disps |->
                     IF d < dispCount THEN TRUE ELSE change[s][d]]]
  /\ devFlag'   = [devFlag EXCEPT ![s] = TRUE]
  /\ reader'    = [reader EXCEPT ![s] = "run"]
  /\ pc'        = [pc EXCEPT ![s] = "loop"]
  /\ at'        = [at EXCEPT ![s] = 0]
  /\ nsess' = nsess + 1
  /\ sess'  = [sess EXCEPT ![s] = nsess + 1]
  /\ entered' = [entered EXCEPT ![s] = FALSE]
  /\ seen'  = [seen EXCEPT ![s] = [d \in Disps |-> -1]]
  /\ told'  = [told EXCEPT ![s] = "none"]
  /\ UNCHANGED <<got, device, ledger>>

\* The read thread is through: recv returned 0 or an error.
ReaderEnds(s) ==
  /\ reader[s] = "run"
  /\ reader' = [reader EXCEPT ![s] = "done"]
  /\ UNCHANGED <<table, pc, at, got, device, ledger, sent, sess, nsess>>

\* Any controller that stops calls set_dc_clients_status_is_destroying: the
\* clients of every controller lose their connection.
DisconnectAll ==
  /\ \E s \in Slots : state[s] = "Active"
  /\ state' = [s \in Slots |-> IF state[s] = "Active" THEN "Destroying" ELSE state[s]]
  /\ UNCHANGED <<logged, level, infoCount, info, change, devFlag, client, device,
                 ledger, sent, sess, nsess>>

Running(s, d) == dpc = "call" /\ job.slot = s /\ dd = d

\* The client thread has joined the read thread: destroy_dc_client.
Exit(s) ==
  /\ pc[s] = "exit"
  /\ state'     = [state EXCEPT ![s] = "Free"]
  /\ infoCount' = [infoCount EXCEPT ![s] = 0]
  /\ info'      = [info EXCEPT ![s] = [d \in Disps |->
                     IF d < infoCount[s] THEN NoCommand("NoError") ELSE info[s][d]]]
  /\ change'    = [change EXCEPT ![s] = [d \in Disps |->
                     IF d < infoCount[s] THEN TRUE ELSE change[s][d]]]
  /\ devFlag'   = [devFlag EXCEPT ![s] = FALSE]
  /\ reader'    = [reader EXCEPT ![s] = "off"]
  /\ pc'        = [pc EXCEPT ![s] = "off"]
  /\ at'        = [at EXCEPT ![s] = 0]
  /\ entered'   = [entered EXCEPT ![s] = FALSE]
  /\ seen'      = [seen EXCEPT ![s] = [d \in Disps |-> -1]]
  /\ told'      = [told EXCEPT ![s] = "none"]
  /\ UNCHANGED <<logged, level, got, device, nmsg, req, runs, outcome, answer,
                 answers, sess, nsess>>

-----------------------------------------------------------------------------
(* The read thread: log-in and commands.                                    *)

\* A request with the guid of a known profile, or of none: the level is set
\* either way, logged is never taken back.
Login(s) ==
  /\ filtering /\ reader[s] = "run"
  /\ \/ /\ \E l \in Levels : level' = [level EXCEPT ![s] = l]
        /\ logged' = [logged EXCEPT ![s] = TRUE]
        /\ entered' = [entered EXCEPT ![s] = TRUE]
     \/ /\ level' = [level EXCEPT ![s] = CalDisable]
        /\ UNCHANGED <<logged, entered>>
  /\ UNCHANGED <<state, infoCount, info, change, devFlag, client, device, ledger,
                 seen, told, sess, nsess>>

\* The access level the dispatch asks for; SetVolumeDose is the odd one out.
Permitted(k, l) == IF k = "SetVolumeDose" THEN l # CalDisable ELSE l > CalReadOnly

\* Mutant: no command makes the slot busy.
SlotTakes_NeverBusy(s, d) ==
  /\ state[s] = "Active"
  /\ d < infoCount[s]

\* set_dc_client_command: a slot with a Reset in it is overwritten whatever
\* the Reset's state, any other command makes it busy.
SlotTakes(s, d) ==
  /\ state[s] = "Active"
  /\ d < infoCount[s]
  /\ info[s][d].command \in {"None", "Reset"}

\* The read thread accepts command k for dispenser number n (dispenser n - 1 of
\* the table; 0 addresses all dispensers, which only the Stop family accepts and
\* which goes to the first slot).  A refused request is answered with a Nak and
\* changes nothing.
Submit(s, k, n) ==
  LET d == IF n = 0 THEN 0 ELSE n - 1
      m == nmsg + 1
  IN /\ nmsg < MaxMsg
     /\ reader[s] = "run" /\ logged[s]
     /\ Permitted(k, level[s])
     /\ IF n = 0 THEN k = "Stop" ELSE n <= dispCount
     /\ SlotTakes(s, d)
     /\ info' = [info EXCEPT ![s][d] =
                   [command |-> k, st |-> "New", mid |-> m, result |-> "Undefined"]]
     /\ nmsg' = m
     /\ req' = [req EXCEPT ![m] =
                  [slot |-> s, sess |-> sess[s], disp |-> d, kind |-> k,
                   over |-> info[s][d].command = "Reset",
                   heir |-> /\ info[s][d].command = "None"
                            /\ Running(s, d) \/ info[s][d].st = "Complete"]]
     /\ UNCHANGED <<state, logged, level, infoCount, change, devFlag, client, device,
                    runs, outcome, answer, answers, sent, sess, nsess>>
-----------------------------------------------------------------------------
(* The client thread (dc_device_client_thread_func).                        *)

Visible(s) == state[s] = "Active"

\* The top of the loop: leave when the read thread is through; send the device
\* status if it is flagged and the client has logged in.
LoopTop(s) ==
  /\ pc[s] = "loop"
  /\ \/ /\ reader[s] = "done"
        /\ pc' = [pc EXCEPT ![s] = "exit"]
        /\ UNCHANGED <<at, told>>
     \/ /\ reader[s] = "run"
        /\ Visible(s) /\ devFlag[s] /\ logged[s]
        /\ told' = [told EXCEPT ![s] = status]
        /\ pc' = [pc EXCEPT ![s] = "statusClr"]
        /\ UNCHANGED at
     \/ /\ reader[s] = "run"
        /\ ~(Visible(s) /\ devFlag[s] /\ logged[s])
        /\ pc' = [pc EXCEPT ![s] =
                    IF Visible(s) /\ infoCount[s] > 0 THEN "cmd" ELSE "loop"]
        /\ at' = [at EXCEPT ![s] = 0]
        /\ UNCHANGED told
  /\ UNCHANGED <<table, reader, got, device, ledger, entered, seen, sess, nsess>>

\* The flag is cleared after the message went out.
StatusClr(s) ==
  /\ pc[s] = "statusClr"
  /\ devFlag' = [devFlag EXCEPT ![s] = IF Visible(s) THEN FALSE ELSE @]
  /\ pc' = [pc EXCEPT ![s] =
              IF Visible(s) /\ infoCount[s] > 0 THEN "cmd" ELSE "loop"]
  /\ at' = [at EXCEPT ![s] = 0]
  /\ UNCHANGED <<state, logged, level, infoCount, info, change, reader, got, device,
                 ledger, sent, sess, nsess>>

\* The next dispenser, or the top of the loop.
Advance(s) ==
  /\ pc' = [pc EXCEPT ![s] = IF at[s] + 1 < infoCount[s] THEN "cmd" ELSE "loop"]
  /\ at' = [at EXCEPT ![s] = IF at[s] + 1 < infoCount[s] THEN at[s] + 1 ELSE 0]

\* Mutant: the data is only looked at after a complete command.
Cmd_SkipsData(s) ==
  /\ pc[s] = "cmd"
  /\ IF Visible(s) /\ info[s][at[s]].st = "Complete"
     THEN /\ pc' = [pc EXCEPT ![s] = "result"]
          /\ UNCHANGED at
     ELSE Advance(s)
  /\ UNCHANGED <<table, reader, got, device, ledger, sent, sess, nsess>>

\* get_client_dispencer_command_state: fetch a complete command, else go on to
\* the dispenser's data.
Cmd(s) ==
  /\ pc[s] = "cmd"
  /\ pc' = [pc EXCEPT ![s] = IF Visible(s) /\ info[s][at[s]].st = "Complete"
                             THEN "result" ELSE "data"]
  /\ UNCHANGED <<table, reader, at, got, device, ledger, sent, sess, nsess>>

\* get_dc_client_command_result
Result(s) ==
  /\ pc[s] = "result"
  /\ got' = [got EXCEPT ![s] =
               IF Visible(s)
               THEN [mid |-> info[s][at[s]].mid, result |-> info[s][at[s]].result]
               ELSE Nothing]
  /\ pc' = [pc EXCEPT ![s] = "clear"]
  /\ UNCHANGED <<table, reader, at, device, ledger, sent, sess, nsess>>

\* clear_dc_client_command, whatever is in the slot by now, and the answer.
Clear(s) ==
  LET m == got[s].mid IN
  /\ pc[s] = "clear"
  /\ info' = [info EXCEPT ![s][at[s]] = NoCommand("Undefined")]
  /\ IF m = 0
     THEN UNCHANGED <<answer, answers>>
     ELSE /\ answer'  = [answer EXCEPT ![m] = got[s].result]
          /\ answers' = [answers EXCEPT ![m] = @ + 1]
  /\ got' = [got EXCEPT ![s] = Nothing]
  /\ pc' = [pc EXCEPT ![s] = "data"]
  /\ UNCHANGED <<state, logged, level, infoCount, change, devFlag, reader, at,
                 device, nmsg, req, runs, outcome, sent, sess, nsess>>

\* get_client_dispencer_status_is_changed: send the dispenser's data if it is
\* flagged and the client has logged in.
Data(s) ==
  /\ pc[s] = "data"
  /\ IF Visible(s) /\ change[s][at[s]] /\ logged[s]
     THEN /\ seen' = [seen EXCEPT ![s][at[s]] = ver[at[s]]]
          /\ pc' = [pc EXCEPT ![s] = "dataClr"]
          /\ UNCHANGED at
     ELSE Advance(s) /\ UNCHANGED seen
  /\ UNCHANGED <<table, reader, got, device, ledger, entered, told, sess, nsess>>

\* set_client_dispencer_status_is_changed: the flag is cleared after the message.
DataClr(s) ==
  /\ pc[s] = "dataClr"
  /\ change' = [change EXCEPT ![s][at[s]] = IF Visible(s) THEN FALSE ELSE @]
  /\ Advance(s)
  /\ UNCHANGED <<state, logged, level, infoCount, info, devFlag, reader, got, device,
                 ledger, sent, sess, nsess>>

ClientThread(s) ==
  \/ LoopTop(s) \/ StatusClr(s) \/ Cmd(s) \/ Result(s) \/ Clear(s)
  \/ Data(s) \/ DataClr(s) \/ Exit(s)
-----------------------------------------------------------------------------
(* The device thread (dc_device_thread_func), once its driver is loaded.    *)

\* init_lib succeeded: the dispensers are read from the driver.
InitDriver ==
  /\ dpc = "init"
  /\ dispCount' = NDisps
  /\ dpc' = "poll"
  /\ UNCHANGED <<table, client, dd, job, ver, status, dirty, turns, filtering, ledger, sent,
                 sess, nsess>>

\* set_dc_device_status_from_driver at the start of a poll
Poll(new) ==
  /\ dpc = "poll"
  /\ turns' = IF new = "Fault" /\ status # new THEN turns + 1 ELSE turns
  /\ turns' <= MaxTurns
  /\ status' = new
  /\ dirty' = (dirty \/ new # status)
  /\ dd' = 0
  /\ dpc' = IF new = "NoError" THEN "find" ELSE "notify"
  /\ UNCHANGED <<table, client, dispCount, job, ver, filtering, ledger, sent, sess, nsess>>

Waiting(s, d) == /\ state[s] = "Active" /\ d < infoCount[s]
                 /\ info[s][d].command # "None" /\ info[s][d].st = "New"

\* find_dc_client_command: the first client with a new command for dispenser dd
Find(s) ==
  /\ dpc = "find"
  /\ Waiting(s, dd)
  /\ \A t \in Slots : t < s => ~Waiting(t, dd)
  /\ info' = [info EXCEPT ![s][dd].st = "Run"]
  /\ job' = [slot |-> s, mid |-> info[s][dd].mid]
  /\ dpc' = "call"
  /\ UNCHANGED <<state, logged, level, infoCount, change, devFlag, client, dispCount,
                 dd, ver, status, dirty, turns, filtering, ledger, sent, sess, nsess>>

\* Mutant: the result is stored, the command is not marked complete.
Call_StaysRun(r) ==
  LET s == job.slot IN
  /\ dpc = "call"
  /\ info' = IF dd < infoCount[s] THEN [info EXCEPT ![s][dd].result = r] ELSE info
  /\ runs'    = [runs EXCEPT ![job.mid] = @ + 1]
  /\ outcome' = [outcome EXCEPT ![job.mid] = r]
  /\ job' = NoJob
  /\ dpc' = "state"
  /\ UNCHANGED <<state, logged, level, infoCount, change, devFlag, client, dispCount,
                 dd, ver, status, dirty, turns, filtering, nmsg, req, answer, answers,
                 sent, sess, nsess>>

\* Mutant: the result goes to the first client.
Call_FirstClient(r) ==
  /\ dpc = "call"
  /\ info' = IF dd < infoCount[0]
             THEN [info EXCEPT ![0][dd].result = r, ![0][dd].st = "Complete"]
             ELSE info
  /\ runs'    = [runs EXCEPT ![job.mid] = @ + 1]
  /\ outcome' = [outcome EXCEPT ![job.mid] = r]
  /\ job' = NoJob
  /\ dpc' = "state"
  /\ UNCHANGED <<state, logged, level, infoCount, change, devFlag, client, dispCount,
                 dd, ver, status, dirty, turns, filtering, nmsg, req, answer, answers,
                 sent, sess, nsess>>

\* The driver ran the command; set_dc_client_command_result puts the result in
\* the slot whoever owns it by now and whatever command it holds.
Call(r) ==
  LET s == job.slot IN
  /\ dpc = "call"
  /\ info' = IF dd < infoCount[s]
             THEN [info EXCEPT ![s][dd].result = r, ![s][dd].st = "Complete"]
             ELSE info
  /\ runs'    = [runs EXCEPT ![job.mid] = @ + 1]
  /\ outcome' = [outcome EXCEPT ![job.mid] = r]
  /\ job' = NoJob
  /\ dpc' = "state"
  /\ UNCHANGED <<state, logged, level, infoCount, change, devFlag, client, dispCount,
                 dd, ver, status, dirty, turns, filtering, nmsg, req, answer, answers,
                 sent, sess, nsess>>

NextDisp ==
  /\ dd'  = IF dd + 1 < dispCount THEN dd + 1 ELSE dd
  /\ dpc' = IF dd + 1 < dispCount THEN "find" ELSE "notify"

\* set_dispencer_state_from_driver, after the command or if there was none: the
\* data of dispenser dd changed, or not.
ReadState ==
  /\ dpc = "state" \/ (dpc = "find" /\ \A s \in Slots : ~Waiting(s, dd))
  /\ \/ /\ ver[dd] < MaxVer
        /\ ver' = [ver EXCEPT ![dd] = @ + 1]
        /\ dpc' = "flag"
        /\ UNCHANGED dd
     \/ NextDisp /\ UNCHANGED ver
  /\ UNCHANGED <<table, client, dispCount, job, status, dirty, turns, filtering, ledger, sent,
                 sess, nsess>>

\* set_dc_disp_status_is_changed_for_all_clients
FlagData ==
  /\ dpc = "flag"
  /\ change' = [s \in Slots |-> [d \in Disps |->
                  \/ change[s][d]
                  \/ d = dd /\ state[s] = "Active" /\ d < infoCount[s]]]
  /\ NextDisp
  /\ UNCHANGED <<state, logged, level, infoCount, info, devFlag, client, dispCount, job,
                 ver, status, dirty, turns, filtering, ledger, sent, sess, nsess>>

\* set_dc_device_status_is_changed_for_all_clients
Notify ==
  /\ dpc = "notify"
  /\ devFlag' = [s \in Slots |-> devFlag[s] \/ (dirty /\ state[s] = "Active")]
  /\ dirty' = FALSE
  /\ dpc' = "poll"
  /\ UNCHANGED <<state, logged, level, infoCount, info, change, client, dispCount, dd,
                 job, ver, status, turns, filtering, ledger, sent, sess, nsess>>

PollOk == Poll("NoError")

DeviceStep ==
  \/ InitDriver \/ (\E s \in Slots : Find(s)) \/ ReadState \/ FlagData
  \/ (\E r \in Outcomes : Call(r)) \/ Notify

Next ==
  \/ \E s \in Slots : Connect(s) \/ ReaderEnds(s) \/ Login(s) \/ ClientThread(s)
  \/ \E s \in Slots, k \in Kinds, n \in 0 .. NDisps : Submit(s, k, n)
  \/ DisconnectAll
  \/ PollOk \/ Poll("Fault")
  \/ DeviceStep

Spec == Init /\ [][Next]_vars

\* The threads keep running, and the driver keeps reporting NoError now and
\* then: a command is only picked up by a poll that finds the device healthy.
Fairness ==
  /\ \A s \in Slots : WF_vars(ClientThread(s))
  /\ WF_vars(DeviceStep)
  /\ WF_vars(PollOk \/ Poll("Fault"))
  /\ SF_vars(PollOk)

FairSpec == Spec /\ Fairness
-----------------------------------------------------------------------------
TypeOK ==
  /\ state     \in [Slots -> {"Free", "Active", "Destroying"}]
  /\ logged    \in [Slots -> BOOLEAN]
  /\ level     \in [Slots -> 0 .. 4]
  /\ infoCount \in [Slots -> 0 .. NDisps]
  /\ info      \in [Slots -> [Disps -> Info]]
  /\ change    \in [Slots -> [Disps -> BOOLEAN]]
  /\ devFlag   \in [Slots -> BOOLEAN]
  /\ reader    \in [Slots -> {"off", "run", "done"}]
  /\ pc        \in [Slots -> {"off", "loop", "statusClr", "cmd", "result", "clear",
                              "data", "dataClr", "exit"}]
  /\ at        \in [Slots -> Disps]
  /\ got       \in [Slots -> [mid : 0 .. MaxMsg, result : Results]]
  /\ dispCount \in 0 .. NDisps
  /\ dpc \in {"init", "poll", "find", "call", "state", "flag", "notify"}
  /\ dd \in Disps
  /\ job \in [slot : Slots, mid : 0 .. MaxMsg]
  /\ ver \in [Disps -> 0 .. MaxVer]
  /\ status \in {"NoError", "Fault"} /\ dirty \in BOOLEAN /\ turns \in 0 .. MaxTurns
  /\ filtering \in BOOLEAN
  /\ sess \in [Slots -> 0 .. MaxSess] /\ nsess \in 0 .. MaxSess
  /\ nmsg \in 0 .. MaxMsg
  /\ req     \in [Msgs -> Req]
  /\ runs    \in [Msgs -> Nat]
  /\ outcome \in [Msgs -> Results \cup {"none"}]
  /\ answer  \in [Msgs -> Results \cup {"none"}]
  /\ answers \in [Msgs -> Nat]
  /\ entered \in [Slots -> BOOLEAN]
  /\ seen \in [Slots -> [Disps -> -1 .. MaxVer]]
  /\ told \in [Slots -> {"none", "NoError", "Fault"}]

\* A request whose slot was not settled when it was accepted: it took the place
\* of a Reset that had not been answered, or the driver was still running a
\* command that had gone from the slot (with the connection that sent it, or
\* overwritten), or the result of such a command lay there.
Irregular(m) == req[m].over \/ req[m].heir

\* However the threads interleave, the slots keep the promise of DcService: a pump is
\* never sent the same request twice, a client is never answered twice for one request,
\* and what it is told is what the driver returned for that very request, although the
\* message id, the result and the driver call are read and written in four different
\* critical sections (set_dc_client_command, find_dc_client_command,
\* set_dc_client_command_result, clear_dc_client_command).  The irregular requests are
\* excused: they are answered with somebody else's result or none.
Service == INSTANCE DcService WITH
  accepted <- nmsg, excused <- {m \in 1 .. nmsg : Irregular(m)},
  ran <- runs, outcome <- outcome, told <- answers, answer <- answer

ServiceSpec == Service!Spec

Held(m) == LET s == req[m].slot IN
  \/ info[s][req[m].disp].mid = m
  \/ pc[s] = "clear" /\ got[s].mid = m

Ended(m) == sess[req[m].slot] # req[m].sess \/ state[req[m].slot] # "Active"

\* An accepted request does not vanish: it is in its slot or in the hands of the
\* client thread until it is answered.  Only a Reset, which the next command may
\* overwrite, and an irregular request can be dropped.
NoSilentLoss ==
  \A m \in 1 .. nmsg :
     answer[m] = "none" =>
       \/ Held(m) \/ Ended(m)
       \/ Irregular(m) \/ req[m].kind = "Reset"

\* With client filtering on, nothing the device does reaches a client, and none of
\* its commands is accepted, before it has logged in on this very connection: also
\* when its slot was logged in before, and with events flagged meanwhile.
Served(s) == \/ told[s] # "none"
             \/ \E d \in Disps : seen[s][d] >= 0
             \/ \E m \in 1 .. nmsg : req[m].sess = sess[s]

LoginFirst == filtering => \A s \in Slots : pc[s] # "off" /\ Served(s) => entered[s]

Connected(s) == state[s] = "Active" /\ reader[s] = "run"

\* Every regular request is answered, as long as its connection stays up.
EveryRequestAnswered ==
  \A m \in Msgs :
     (nmsg >= m /\ ~Irregular(m) /\ req[m].kind # "Reset")
       ~> (answer[m] # "none" \/ Ended(m) \/ ~Connected(req[m].slot))

\* A change of a dispenser's data that is flagged for a client that has logged in
\* reaches the client, unless it is flagged between the client thread's message
\* and its reset of the flag.
DataDelivered ==
  \A s \in Slots, d \in Disps, v \in 0 .. MaxVer, n \in 1 .. MaxSess :
     ( /\ Connected(s) /\ sess[s] = n /\ logged[s] /\ d < infoCount[s]
       /\ change[s][d] /\ ver[d] = v
       /\ ~(pc[s] = "dataClr" /\ at[s] = d) )
       ~> (seen[s][d] >= v \/ sess[s] # n \/ ~Connected(s))
=============================================================================
