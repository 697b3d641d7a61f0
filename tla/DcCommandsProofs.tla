-------------------------- MODULE DcCommandsProofs --------------------------
(***************************************************************************)
(* Theorems about DcCommands, for any number of clients, dispensers,       *)
(* requests and connections, with client filtering or without: the slots   *)
(* implement DcService, no request is lost in silence, and nothing is      *)
(* served before the log-in.                                               *)
(***************************************************************************)
EXTENDS DcCommands, TLAPS

\* A slot is in use exactly while it has a client thread and a read thread; a slot
\* that is not has no dispensers.  The client thread holds a result only between
\* fetching it and answering.
LifeOK(s) ==
  /\ state[s] = "Free" <=> pc[s] = "off"
  /\ reader[s] = "off" <=> pc[s] = "off"
  /\ pc[s] = "off" => infoCount[s] = 0
  /\ pc[s] # "clear" => got[s] = Nothing

SlotLife == \A s \in Slots : LifeOK(s)

\* Connections are numbered: no two slots have the same one, and no request names
\* one that is still to come.
SessionIds ==
  /\ \A s \in Slots : sess[s] <= nsess
  /\ \A s \in Slots : pc[s] # "off" => sess[s] # 0
  /\ \A s, t \in Slots : sess[s] = sess[t] /\ sess[s] # 0 => s = t
  /\ \A m \in Msgs : req[m].sess <= nsess

\* Nothing has happened to a request that has not been accepted.
NotYet == \A m \in Msgs : m > nmsg => runs[m] = 0 /\ answers[m] = 0

\* Request m was accepted for dispenser d of slot s and has not been answered.
InPlace(m, s, d) ==
  m \in 1 .. nmsg /\ req[m].slot = s /\ req[m].disp = d /\ answers[m] = 0

\* Result r is what the service may answer request m.
Answerable(m, r) == Irregular(m) \/ (runs[m] = 1 /\ outcome[m] = r)

\* What record i may be, as the one of dispenser d of slot s.
RecordOK(i, s, d) ==
  /\ i.mid = 0 <=> i.command = "None"
  /\ i.mid = 0 => i.st \in {"Free", "Complete"}
  /\ i.mid # 0 => /\ d < infoCount[s]
                  /\ InPlace(i.mid, s, d)
                  /\ req[i.mid].kind = i.command
                  /\ i.st # "Free"
  /\ i.st = "New" => runs[i.mid] = 0
  /\ i.st = "Run" => Running(s, d) /\ job.mid = i.mid
  /\ Running(s, d) /\ i.mid # 0 => Irregular(i.mid) \/ (i.mid = job.mid /\ i.st = "Run")
  /\ i.st = "Complete" /\ i.mid # 0 => Answerable(i.mid, i.result)

RecordsOK == \A s \in Slots, d \in Disps : RecordOK(info[s][d], s, d)

\* The command in the hands of the device thread has been accepted, and the driver
\* has not run it.
JobOK ==
  dpc = "call" =>
    /\ job.mid \in 1 .. nmsg /\ runs[job.mid] = 0
    /\ req[job.mid].slot = job.slot /\ req[job.mid].disp = dd

\* Between finding a complete command and clearing it, the client thread has what it
\* found before it, or a request that is excused; and what it fetched may be answered.
FetchOK(i, s) ==
  /\ pc[s] \in {"result", "clear"} =>
       i.st = "Complete" \/ (i.mid # 0 /\ Irregular(i.mid))
  /\ pc[s] = "clear" =>
       /\ got[s].mid # 0 => /\ InPlace(got[s].mid, s, at[s])
                            /\ Answerable(got[s].mid, got[s].result)
       /\ \/ i.mid \in {0, got[s].mid}
          \/ Irregular(i.mid)
          \/ state[s] # "Active"

FetchesOK == \A s \in Slots : FetchOK(info[s][at[s]], s)

\* With filtering on, logged of a slot in use was set on this very connection.
LoggedHere == filtering => \A s \in Slots : pc[s] # "off" /\ logged[s] => entered[s]

\* The records of the table, the device thread's command and the client threads'
\* results.
Ledger == NotYet /\ RecordsOK /\ JobOK /\ FetchesOK

\* The inductive invariant of the promises to the clients.
IInv == TypeOK /\ SlotLife /\ SessionIds /\ Ledger

-----------------------------------------------------------------------------
(* Types.                                                                   *)

\* There is a slot 0 and a dispenser 0, and the constants of the bounds are numbers.
LEMMA Ranges ==
  /\ 0 \in Slots /\ 0 \in Disps
  /\ \A n \in 1 .. NDisps : n - 1 \in Disps
  /\ \A d \in Disps : d \in Nat /\ (d + 1 < NDisps => d + 1 \in Disps)
  /\ NoCommand("NoError") \in Info /\ NoCommand("Undefined") \in Info
  BY SizesAssumption DEF Slots, Disps, NoCommand, Info, Results

\* A function with one value replaced, at one index, keeps its type.
LEMMA UpdateType ==
  ASSUME NEW S, NEW T, NEW f \in [S -> T], NEW s, NEW v \in T
  PROVE  [f EXCEPT ![s] = v] \in [S -> T]
  OBVIOUS

\* The same, under two indices.
LEMMA UpdateType2 ==
  ASSUME NEW S, NEW T, NEW V, NEW f \in [S -> [T -> V]], NEW s \in S, NEW t, NEW v \in V
  PROVE  [f EXCEPT ![s][t] = v] \in [S -> [T -> V]]
<1>1. [f[s] EXCEPT ![t] = v] \in [T -> V]
  OBVIOUS
<1>. QED
  BY <1>1

\* In the initial state every variable has its type.
LEMMA InitTypeOK == Init => TypeOK
<1>. SUFFICES ASSUME Init PROVE TypeOK
  OBVIOUS
<1>1. NoReq \in Req
  BY Ranges, SizesAssumption DEF NoReq, Req
<1>2. Nothing \in [mid : 0 .. MaxMsg, result : Results] /\ NoJob \in [slot : Slots, mid : 0 .. MaxMsg]
  BY Ranges, SizesAssumption DEF Nothing, NoJob, Results
<1>3. filtering \in BOOLEAN
  BY AccessAssumption DEF Init
<1>. QED
  BY <1>1, <1>2, <1>3, Ranges, SizesAssumption DEF Init, TypeOK, CalDisable

\* The next dispenser of the client thread's loop is one of the table.
LEMMA AdvanceType ==
  ASSUME TypeOK, NEW s \in Slots, Advance(s)
  PROVE  /\ pc' \in [Slots -> {"off", "loop", "statusClr", "cmd", "result", "clear",
                               "data", "dataClr", "exit"}]
         /\ at' \in [Slots -> Disps]
<1>1. at[s] \in Disps /\ infoCount[s] \in 0 .. NDisps
  BY DEF TypeOK
<1>2. at[s] + 1 < infoCount[s] => at[s] + 1 \in Disps
  BY <1>1, SizesAssumption DEF Disps
<1>. QED
  BY <1>2, Ranges DEF Advance, TypeOK

\* The next dispenser of the device thread's loop is one of the table.
LEMMA NextDispType ==
  ASSUME TypeOK, NextDisp
  PROVE  dpc' \in {"find", "notify"} /\ dd' \in Disps
<1>1. dd \in Disps /\ dispCount \in 0 .. NDisps
  BY DEF TypeOK
<1>2. dd + 1 < dispCount => dd + 1 \in Disps
  BY <1>1, SizesAssumption DEF Disps
<1>. QED
  BY <1>1, <1>2 DEF NextDisp

\* Record i is stored for dispenser d of slot s, and nothing else of the table changes.
Stores(s, d, i) ==
  /\ info' \in [Slots -> [Disps -> Info]]
  /\ info'[s][d] = i
  /\ \A t \in Slots, e \in Disps : t # s \/ e # d => info'[t][e] = info[t][e]

\* Assigning one record of the table stores it.
LEMMA AssignStores ==
  ASSUME TypeOK, NEW s \in Slots, NEW d \in Disps, NEW i \in Info,
         info' = [info EXCEPT ![s][d] = i]
  PROVE  Stores(s, d, i)
  BY DEF TypeOK, Stores

\* Find marks the command it takes as run.
LEMMA FindStores ==
  ASSUME TypeOK, NEW s \in Slots, Find(s)
  PROVE  Stores(s, dd, [info[s][dd] EXCEPT !.st = "Run"])
<1>1. dd \in Disps /\ info[s][dd] \in Info
  BY DEF TypeOK
<1>2. [info[s][dd] EXCEPT !.st = "Run"] \in Info
  BY <1>1 DEF Info
<1>3. info' = [info EXCEPT ![s][dd] = [info[s][dd] EXCEPT !.st = "Run"]]
  BY DEF Find
<1>. QED
  BY <1>1, <1>2, <1>3, AssignStores

\* Call stores the result and marks the command complete, if the slot has the
\* dispenser.
LEMMA CallStores ==
  ASSUME TypeOK, NEW r \in Outcomes, Call(r)
  PROVE  IF dd < infoCount[job.slot]
         THEN Stores(job.slot, dd,
                     [info[job.slot][dd] EXCEPT !.result = r, !.st = "Complete"])
         ELSE info' = info
<1>. DEFINE s == job.slot
<1>1. dd \in Disps /\ s \in Slots /\ info[s][dd] \in Info
  BY DEF TypeOK
<1>2. [info[s][dd] EXCEPT !.result = r, !.st = "Complete"] \in Info
  BY <1>1 DEF Info, Results
<1>3. CASE dd < infoCount[s]
  <2>. DEFINE f == [info EXCEPT ![s][dd].result = r]
  <2>1. info' = [f EXCEPT ![s][dd].st = "Complete"]
    BY <1>3 DEF Call
  <2>2. f = [info EXCEPT ![s][dd] = [info[s][dd] EXCEPT !.result = r]]
    OBVIOUS
  <2>3. f[s][dd] = [info[s][dd] EXCEPT !.result = r]
    BY <1>1, <2>2 DEF TypeOK
  <2>4. info' = [f EXCEPT ![s][dd] = [f[s][dd] EXCEPT !.st = "Complete"]]
    BY <2>1
  <2>5. info' = [f EXCEPT ![s][dd] = [info[s][dd] EXCEPT !.result = r, !.st = "Complete"]]
    BY <2>3, <2>4
  <2>6. f \in [Slots -> [Disps -> Info]]
    <3>1. [info[s][dd] EXCEPT !.result = r] \in Info
      BY <1>1 DEF Info, Results
    <3>. QED
      BY <1>1, <2>2, <3>1 DEF TypeOK
  <2>7. \A t \in Slots, e \in Disps : t # s \/ e # dd => f[t][e] = info[t][e]
    BY <1>1, <2>2 DEF TypeOK
  <2>8. Stores(s, dd, [info[s][dd] EXCEPT !.result = r, !.st = "Complete"])
    <3>. HIDE DEF f
    <3>. QED
      BY <1>1, <1>2, <2>5, <2>6, <2>7 DEF Stores
  <2>. QED
    BY <1>3, <2>8
<1>4. CASE ~(dd < infoCount[s])
  BY <1>4 DEF Call
<1>. QED
  BY <1>3, <1>4

\* Every step keeps every variable in its type.
LEMMA StepTypeOK == TypeOK /\ [Next]_vars => TypeOK'
<1>. SUFFICES ASSUME TypeOK, [Next]_vars PROVE TypeOK'
  OBVIOUS
<1>. USE DEF table, client, device, ledger, sent
<1>1. ASSUME NEW s \in Slots, Connect(s) PROVE TypeOK'
  <2>1. info' \in [Slots -> [Disps -> Info]]
    BY <1>1, Ranges DEF TypeOK, Connect
  <2>2. change' \in [Slots -> [Disps -> BOOLEAN]] /\ seen' \in [Slots -> [Disps -> -1 .. MaxVer]]
    <3>1. /\ change \in [Slots -> [Disps -> BOOLEAN]]
          /\ seen \in [Slots -> [Disps -> -1 .. MaxVer]]
      BY DEF TypeOK
    <3>2. [d \in Disps |-> IF d < dispCount THEN TRUE ELSE change[s][d]] \in [Disps -> BOOLEAN]
      BY <3>1
    <3>3. [d \in Disps |-> -1] \in [Disps -> -1 .. MaxVer]
      BY SizesAssumption
    <3>. QED
      BY <1>1, <3>1, <3>2, <3>3, UpdateType DEF Connect
  <2>3. nsess' \in 0 .. MaxSess /\ sess' \in [Slots -> 0 .. MaxSess]
    BY <1>1, SizesAssumption DEF TypeOK, Connect
  <2>4. logged' \in [Slots -> BOOLEAN] /\ level' \in [Slots -> 0 .. 4]
    BY <1>1 DEF TypeOK, Connect, CalDisable, CalUnlim
  <2>. QED
    BY <1>1, <2>1, <2>2, <2>3, <2>4, Ranges DEF TypeOK, Connect
<1>2. ASSUME NEW s \in Slots, ReaderEnds(s) PROVE TypeOK'
  BY <1>2 DEF TypeOK, ReaderEnds
<1>3. CASE DisconnectAll
  BY <1>3 DEF TypeOK, DisconnectAll
<1>4. ASSUME NEW s \in Slots, Exit(s) PROVE TypeOK'
  <2>1. info' \in [Slots -> [Disps -> Info]]
    BY <1>4, Ranges DEF TypeOK, Exit
  <2>2. change' \in [Slots -> [Disps -> BOOLEAN]] /\ seen' \in [Slots -> [Disps -> -1 .. MaxVer]]
    <3>1. /\ change \in [Slots -> [Disps -> BOOLEAN]]
          /\ seen \in [Slots -> [Disps -> -1 .. MaxVer]]
      BY DEF TypeOK
    <3>2. [d \in Disps |-> IF d < infoCount[s] THEN TRUE ELSE change[s][d]] \in [Disps -> BOOLEAN]
      BY <3>1
    <3>3. [d \in Disps |-> -1] \in [Disps -> -1 .. MaxVer]
      BY SizesAssumption
    <3>. QED
      BY <1>4, <3>1, <3>2, <3>3, UpdateType DEF Exit
  <2>3. infoCount' \in [Slots -> 0 .. NDisps]
    BY <1>4, SizesAssumption DEF TypeOK, Exit
  <2>. QED
    BY <1>4, <2>1, <2>2, <2>3, Ranges DEF TypeOK, Exit
<1>5. ASSUME NEW s \in Slots, Login(s) PROVE TypeOK'
  <2>1. \A l \in Levels : l \in 0 .. 4
    BY AccessAssumption
  <2>2. /\ level' \in [Slots -> 0 .. 4]
        /\ logged' \in [Slots -> BOOLEAN]
        /\ entered' \in [Slots -> BOOLEAN]
    <3>1. /\ level \in [Slots -> 0 .. 4]
          /\ logged \in [Slots -> BOOLEAN] /\ entered \in [Slots -> BOOLEAN]
      BY DEF TypeOK
    <3>2. level' \in [Slots -> 0 .. 4]
      BY <1>5, <2>1, <3>1 DEF Login, CalDisable
    <3>3. \/ logged' = [logged EXCEPT ![s] = TRUE] /\ entered' = [entered EXCEPT ![s] = TRUE]
          \/ UNCHANGED <<logged, entered>>
      BY <1>5 DEF Login
    <3>. QED
      BY <3>1, <3>2, <3>3
  <2>. QED
    BY <1>5, <2>2 DEF TypeOK, Login
<1>6. ASSUME NEW s \in Slots, NEW k \in Kinds, NEW n \in 0 .. NDisps, Submit(s, k, n)
      PROVE TypeOK'
  <2>. DEFINE d == IF n = 0 THEN 0 ELSE n - 1
              m == nmsg + 1
              i == [command |-> k, st |-> "New", mid |-> m, result |-> "Undefined"]
              q == [slot |-> s, sess |-> sess[s], disp |-> d, kind |-> k,
                    over |-> info[s][d].command = "Reset",
                    heir |-> /\ info[s][d].command = "None"
                             /\ Running(s, d) \/ info[s][d].st = "Complete"]
  <2>1. d \in Disps
    BY Ranges, SizesAssumption
  <2>2. m \in 0 .. MaxMsg
    BY <1>6, SizesAssumption DEF TypeOK, Submit
  <2>3. i \in Info /\ q \in Req
    BY <2>1, <2>2 DEF TypeOK, Info, Req, Results
  <2>4. info' = [info EXCEPT ![s][d] = i] /\ req' = [req EXCEPT ![m] = q]
    BY <1>6 DEF Submit
  <2>. HIDE DEF d, m, i, q
  <2>5. info' \in [Slots -> [Disps -> Info]]
    BY <2>1, <2>3, <2>4, AssignStores DEF Stores
  <2>6. req' \in [Msgs -> Req] /\ nmsg' \in 0 .. MaxMsg
    <3>1. req \in [Msgs -> Req]
      BY DEF TypeOK
    <3>2. req' \in [Msgs -> Req]
      BY <2>3, <2>4, <3>1
    <3>3. nmsg' = m
      BY <1>6 DEF Submit, m
    <3>. QED
      BY <2>2, <3>2, <3>3
  <2>. QED
    BY <1>6, <2>5, <2>6 DEF TypeOK, Submit
<1>7. ASSUME NEW s \in Slots, LoopTop(s) PROVE TypeOK'
  <2>1. pc' \in [Slots -> {"off", "loop", "statusClr", "cmd", "result", "clear",
                           "data", "dataClr", "exit"}]
    <3>1. pc \in [Slots -> {"off", "loop", "statusClr", "cmd", "result", "clear",
                            "data", "dataClr", "exit"}]
      BY DEF TypeOK
    <3>2. \E v \in {"exit", "statusClr", "cmd", "loop"} : pc' = [pc EXCEPT ![s] = v]
      BY <1>7 DEF LoopTop
    <3>. QED
      BY <3>1, <3>2
  <2>2. at' \in [Slots -> Disps]
    BY <1>7, Ranges, UpdateType DEF TypeOK, LoopTop
  <2>3. told' \in [Slots -> {"none", "NoError", "Fault"}]
    BY <1>7, UpdateType DEF TypeOK, LoopTop
  <2>. QED
    BY <1>7, <2>1, <2>2, <2>3 DEF TypeOK, LoopTop
<1>8. ASSUME NEW s \in Slots, StatusClr(s) PROVE TypeOK'
  <2>1. devFlag' \in [Slots -> BOOLEAN]
    BY <1>8 DEF TypeOK, StatusClr
  <2>. QED
    BY <1>8, <2>1, Ranges DEF TypeOK, StatusClr
<1>9. ASSUME NEW s \in Slots, Cmd(s) PROVE TypeOK'
  BY <1>9 DEF TypeOK, Cmd
<1>10. ASSUME NEW s \in Slots, Result(s) PROVE TypeOK'
  <2>1. info[s][at[s]] \in Info /\ Nothing \in [mid : 0 .. MaxMsg, result : Results]
    BY SizesAssumption DEF TypeOK, Nothing, Results
  <2>2. got' \in [Slots -> [mid : 0 .. MaxMsg, result : Results]]
    BY <1>10, <2>1 DEF TypeOK, Result, Info
  <2>. QED
    BY <1>10, <2>2 DEF TypeOK, Result
<1>11. ASSUME NEW s \in Slots, Clear(s) PROVE TypeOK'
  <2>1. at[s] \in Disps /\ got[s] \in [mid : 0 .. MaxMsg, result : Results]
    BY DEF TypeOK
  <2>2. info' \in [Slots -> [Disps -> Info]]
    BY <1>11, <2>1, Ranges, AssignStores DEF Clear, Stores
  <2>3. got' \in [Slots -> [mid : 0 .. MaxMsg, result : Results]]
    BY <1>11, SizesAssumption DEF TypeOK, Clear, Nothing, Results
  <2>4. answer' \in [Msgs -> Results \cup {"none"}] /\ answers' \in [Msgs -> Nat]
    <3>1. CASE got[s].mid = 0
      BY <1>11, <3>1 DEF TypeOK, Clear
    <3>2. CASE got[s].mid # 0
      <4>1. got[s].mid \in Msgs /\ got[s].result \in Results \cup {"none"}
        BY <2>1, <3>2 DEF Msgs
      <4>2. answers[got[s].mid] + 1 \in Nat
        BY <4>1 DEF TypeOK
      <4>. QED
        <5>1. /\ answer \in [Msgs -> Results \cup {"none"}]
              /\ answers \in [Msgs -> Nat]
          BY DEF TypeOK
        <5>2. /\ answer'  = [answer EXCEPT ![got[s].mid] = got[s].result]
              /\ answers' = [answers EXCEPT ![got[s].mid] = answers[got[s].mid] + 1]
          BY <1>11, <3>2 DEF Clear
        <5>. QED
          BY <4>1, <4>2, <5>1, <5>2
    <3>. QED
      BY <3>1, <3>2
  <2>. QED
    BY <1>11, <2>2, <2>3, <2>4 DEF TypeOK, Clear
<1>12. ASSUME NEW s \in Slots, Data(s) PROVE TypeOK'
  <2>1. CASE Visible(s) /\ change[s][at[s]] /\ logged[s]
    <3>1. at[s] \in Disps /\ ver[at[s]] \in -1 .. MaxVer
      BY DEF TypeOK
    <3>2. seen' \in [Slots -> [Disps -> -1 .. MaxVer]]
      <4>1. seen' = [seen EXCEPT ![s][at[s]] = ver[at[s]]]
        BY <1>12, <2>1 DEF Data
      <4>2. seen \in [Slots -> [Disps -> -1 .. MaxVer]]
        BY DEF TypeOK
      <4>. QED
        BY <3>1, <4>1, <4>2, UpdateType2
    <3>3. /\ pc' = [pc EXCEPT ![s] = "dataClr"]
          /\ UNCHANGED <<at, table, reader, got, device, ledger, entered, told, sess, nsess>>
      BY <1>12, <2>1 DEF Data
    <3>4. pc' \in [Slots -> {"off", "loop", "statusClr", "cmd", "result", "clear",
                             "data", "dataClr", "exit"}]
      BY <3>3 DEF TypeOK
    <3>. QED
      BY <3>2, <3>3, <3>4 DEF TypeOK
  <2>2. CASE ~(Visible(s) /\ change[s][at[s]] /\ logged[s])
    BY <1>12, <2>2, AdvanceType DEF TypeOK, Data
  <2>. QED
    BY <2>1, <2>2
<1>13. ASSUME NEW s \in Slots, DataClr(s) PROVE TypeOK'
  <2>1. change' \in [Slots -> [Disps -> BOOLEAN]]
    <3>1. change \in [Slots -> [Disps -> BOOLEAN]] /\ at[s] \in Disps
      BY DEF TypeOK
    <3>2. (IF Visible(s) THEN FALSE ELSE change[s][at[s]]) \in BOOLEAN
      BY <3>1
    <3>3. change' = [change EXCEPT ![s][at[s]] = IF Visible(s) THEN FALSE ELSE change[s][at[s]]]
      BY <1>13 DEF DataClr
    <3>. QED
      BY <3>1, <3>2, <3>3, UpdateType2
  <2>. QED
    BY <1>13, <2>1, AdvanceType DEF TypeOK, DataClr
<1>14. CASE InitDriver
  BY <1>14, SizesAssumption DEF TypeOK, InitDriver
<1>15. ASSUME NEW new \in {"NoError", "Fault"}, Poll(new) PROVE TypeOK'
  BY <1>15, Ranges, SizesAssumption DEF TypeOK, Poll
<1>16. ASSUME NEW s \in Slots, Find(s) PROVE TypeOK'
  <2>1. info' \in [Slots -> [Disps -> Info]]
    BY <1>16, FindStores DEF Stores
  <2>2. job' \in [slot : Slots, mid : 0 .. MaxMsg]
    BY <1>16 DEF TypeOK, Find, Info
  <2>. QED
    BY <1>16, <2>1, <2>2 DEF TypeOK, Find
<1>17. ASSUME NEW r \in Outcomes, Call(r) PROVE TypeOK'
  <2>1. info' \in [Slots -> [Disps -> Info]]
    BY <1>17, CallStores DEF Stores, TypeOK
  <2>2. runs' \in [Msgs -> Nat] /\ outcome' \in [Msgs -> Results \cup {"none"}]
    <3>1. CASE job.mid = 0
      <4>1. job.mid \notin Msgs
        BY <3>1 DEF Msgs
      <4>. QED
        BY <1>17, <4>1 DEF TypeOK, Call
    <3>2. CASE job.mid # 0
      <4>1. job.mid \in Msgs /\ r \in Results \cup {"none"}
        BY <3>2 DEF TypeOK, Msgs, Results
      <4>2. runs[job.mid] + 1 \in Nat
        BY <4>1 DEF TypeOK
      <4>. QED
        BY <1>17, <4>1, <4>2, UpdateType DEF TypeOK, Call
    <3>. QED
      BY <3>1, <3>2
  <2>3. job' \in [slot : Slots, mid : 0 .. MaxMsg]
    BY <1>17, Ranges, SizesAssumption DEF Call, NoJob
  <2>. QED
    BY <1>17, <2>1, <2>2, <2>3 DEF TypeOK, Call
<1>18. CASE ReadState
  <2>1. ver' \in [Disps -> 0 .. MaxVer]
    <3>1. dd \in Disps /\ ver[dd] \in 0 .. MaxVer
      BY DEF TypeOK
    <3>2. ver[dd] < MaxVer => ver[dd] + 1 \in 0 .. MaxVer
      BY <3>1, SizesAssumption
    <3>. QED
      <4>1. ver \in [Disps -> 0 .. MaxVer]
        BY DEF TypeOK
      <4>2. \/ ver' = ver
            \/ ver[dd] < MaxVer /\ ver' = [ver EXCEPT ![dd] = ver[dd] + 1]
        BY <1>18 DEF ReadState
      <4>. QED
        BY <3>1, <3>2, <4>1, <4>2
  <2>2. dpc' \in {"flag", "find", "notify"} /\ dd' \in Disps
    BY <1>18, NextDispType DEF TypeOK, ReadState
  <2>. QED
    BY <1>18, <2>1, <2>2 DEF TypeOK, ReadState
<1>19. CASE FlagData
  <2>1. change' \in [Slots -> [Disps -> BOOLEAN]]
    BY <1>19 DEF TypeOK, FlagData
  <2>. QED
    BY <1>19, <2>1, NextDispType DEF TypeOK, FlagData
<1>20. CASE Notify
  <2>1. devFlag' \in [Slots -> BOOLEAN]
    BY <1>20 DEF TypeOK, Notify
  <2>. QED
    BY <1>20, <2>1 DEF TypeOK, Notify
<1>21. CASE UNCHANGED vars
  BY <1>21 DEF TypeOK, vars
<1>. QED
  BY <1>1, <1>2, <1>3, <1>4, <1>5, <1>6, <1>7, <1>8, <1>9, <1>10, <1>11, <1>12, <1>13,
     <1>14, <1>15, <1>16, <1>17, <1>18, <1>19, <1>20, <1>21
     DEF Next, ClientThread, DeviceStep, PollOk

\* Every variable has its type in every state.
THEOREM TypeCorrect == Spec => []TypeOK
<1>. QED
  BY InitTypeOK, StepTypeOK, PTL DEF Spec

-----------------------------------------------------------------------------
(* The life of a slot and the numbers of connections and requests.          *)

\* In the initial state no slot is in use and nothing was sent.
LEMMA InitLife == Init => SlotLife /\ SessionIds /\ NotYet
  BY SizesAssumption DEF Init, SlotLife, LifeOK, SessionIds, NotYet, Nothing, NoReq, Msgs

\* Every step keeps the coupling of a slot to its threads.
LEMMA StepSlotLife == TypeOK /\ SlotLife /\ [Next]_vars => SlotLife'
<1>. SUFFICES ASSUME TypeOK, SlotLife, [Next]_vars, NEW t \in Slots PROVE LifeOK(t)'
  BY DEF SlotLife
<1>. DEFINE Pcs == {"off", "loop", "statusClr", "cmd", "result", "clear", "data", "dataClr", "exit"}
<1>0. /\ state \in [Slots -> {"Free", "Active", "Destroying"}]
      /\ reader \in [Slots -> {"off", "run", "done"}]
      /\ pc \in [Slots -> Pcs]
      /\ infoCount \in [Slots -> 0 .. NDisps]
      /\ got \in [Slots -> [mid : 0 .. MaxMsg, result : Results]]
  BY DEF TypeOK
<1>. USE <1>0 DEF table, client, device, ledger, sent, SlotLife, LifeOK
<1>1. ASSUME NEW s \in Slots, Connect(s) PROVE LifeOK(t)'
  BY <1>1 DEF Connect, FirstFree
<1>2. ASSUME NEW s \in Slots, ReaderEnds(s) PROVE LifeOK(t)'
  BY <1>2 DEF ReaderEnds
<1>3. CASE DisconnectAll
  BY <1>3 DEF DisconnectAll
<1>4. ASSUME NEW s \in Slots, Exit(s) PROVE LifeOK(t)'
  BY <1>4 DEF Exit
<1>7. ASSUME NEW s \in Slots, LoopTop(s) PROVE LifeOK(t)'
  BY <1>7 DEF LoopTop
<1>8. ASSUME NEW s \in Slots, StatusClr(s) PROVE LifeOK(t)'
  BY <1>8 DEF StatusClr
<1>9. ASSUME NEW s \in Slots, Cmd(s) PROVE LifeOK(t)'
  BY <1>9 DEF Cmd
<1>10. ASSUME NEW s \in Slots, Result(s) PROVE LifeOK(t)'
  BY <1>10 DEF Result
<1>11. ASSUME NEW s \in Slots, Clear(s) PROVE LifeOK(t)'
  BY <1>11 DEF Clear
<1>12. ASSUME NEW s \in Slots, Data(s) PROVE LifeOK(t)'
  BY <1>12 DEF Data, Advance
<1>13. ASSUME NEW s \in Slots, DataClr(s) PROVE LifeOK(t)'
  BY <1>13 DEF DataClr, Advance
<1>14. ASSUME UNCHANGED <<state, reader, pc, infoCount, got>> PROVE LifeOK(t)'
  BY <1>14
<1>15. ASSUME \/ \E s \in Slots : Login(s)
              \/ \E s \in Slots, k \in Kinds, n \in 0 .. NDisps : Submit(s, k, n)
              \/ PollOk \/ Poll("Fault") \/ DeviceStep \/ UNCHANGED vars
       PROVE  UNCHANGED <<state, reader, pc, infoCount, got>>
  BY <1>15 DEF Login, Submit, PollOk, Poll, DeviceStep, InitDriver, Find, ReadState, FlagData,
               Call, Notify, vars
<1>. QED
  BY <1>1, <1>2, <1>3, <1>4, <1>7, <1>8, <1>9, <1>10, <1>11, <1>12, <1>13, <1>14, <1>15
     DEF Next, ClientThread

\* The actions that are not a client's: they leave the connections alone.
LEMMA ConnectionsFrame ==
  ASSUME \/ PollOk \/ Poll("Fault") \/ DeviceStep \/ UNCHANGED vars
  PROVE  UNCHANGED <<state, logged, level, infoCount, client, filtering, nmsg, req,
                     answer, answers, sent, sess, nsess>>
  BY DEF PollOk, Poll, DeviceStep, InitDriver, Find, ReadState, FlagData, Call, Notify,
         vars, table, client, device, ledger, sent

\* The steps of a client thread other than the last leave it in its loop.
LEMMA ThreadStays ==
  ASSUME TypeOK, NEW s \in Slots, ClientThread(s), ~Exit(s)
  PROVE  /\ pc[s] # "off"
         /\ \A t \in Slots : pc'[t] = "off" <=> pc[t] = "off"
         /\ UNCHANGED <<state, logged, level, infoCount, reader, device, nmsg, req, runs,
                        outcome, entered, sess, nsess>>
<1>. DEFINE Pcs == {"off", "loop", "statusClr", "cmd", "result", "clear", "data", "dataClr", "exit"}
<1>0. pc \in [Slots -> Pcs]
  BY DEF TypeOK
<1>1. \/ LoopTop(s) \/ StatusClr(s) \/ Cmd(s) \/ Result(s) \/ Clear(s) \/ Data(s) \/ DataClr(s)
  BY DEF ClientThread
<1>2. \E p \in Pcs \ {"off"} : pc' = [pc EXCEPT ![s] = p]
  BY <1>1 DEF LoopTop, StatusClr, Cmd, Result, Clear, Data, DataClr, Advance
<1>3. pc[s] # "off"
  BY <1>1 DEF LoopTop, StatusClr, Cmd, Result, Clear, Data, DataClr
<1>4. UNCHANGED <<state, logged, level, infoCount, reader, device, nmsg, req, runs,
                  outcome, entered, sess, nsess>>
  BY <1>1 DEF LoopTop, StatusClr, Cmd, Result, Clear, Data, DataClr, table, ledger, sent, client
<1>. QED
  BY <1>0, <1>2, <1>3, <1>4

\* Every step keeps the numbers of the connections apart.
LEMMA StepSessionIds ==
  TypeOK /\ SlotLife /\ SessionIds /\ [Next]_vars => SessionIds'
<1>. SUFFICES ASSUME TypeOK, SlotLife, SessionIds, [Next]_vars PROVE SessionIds'
  OBVIOUS
<1>0. /\ sess \in [Slots -> 0 .. MaxSess] /\ nsess \in 0 .. MaxSess
      /\ pc \in [Slots -> {"off", "loop", "statusClr", "cmd", "result", "clear",
                          "data", "dataClr", "exit"}]
      /\ req \in [Msgs -> Req]
  BY DEF TypeOK
<1>1. ASSUME NEW s \in Slots, Connect(s) PROVE SessionIds'
  <2>1. /\ nsess' = nsess + 1 /\ sess' = [sess EXCEPT ![s] = nsess + 1]
        /\ pc' = [pc EXCEPT ![s] = "loop"] /\ req' = req
    BY <1>1 DEF Connect, ledger
  <2>. QED
    BY <1>0, <2>1, SizesAssumption DEF SessionIds, Req
<1>2. ASSUME NEW s \in Slots, NEW k \in Kinds, NEW n \in 0 .. NDisps, Submit(s, k, n)
      PROVE SessionIds'
  <2>1. UNCHANGED <<sess, nsess, pc>>
    BY <1>2 DEF Submit, client
  <2>2. \A m \in Msgs : req'[m].sess \in {req[m].sess, sess[s]}
    BY <1>0, <1>2 DEF Submit
  <2>. QED
    BY <1>0, <2>1, <2>2 DEF SessionIds, Req
<1>3. ASSUME NEW s \in Slots, Exit(s) PROVE SessionIds'
  BY <1>0, <1>3 DEF SessionIds, Exit
<1>4. ASSUME NEW s \in Slots, ClientThread(s), ~Exit(s) PROVE SessionIds'
  BY <1>4, ThreadStays DEF SessionIds
<1>5. ASSUME \/ \E s \in Slots : Login(s) \/ ReaderEnds(s)
             \/ DisconnectAll
      PROVE SessionIds'
  BY <1>5 DEF SessionIds, Login, ReaderEnds, DisconnectAll, client, ledger
<1>6. CASE \/ PollOk \/ Poll("Fault") \/ DeviceStep \/ UNCHANGED vars
  BY <1>6, ConnectionsFrame DEF SessionIds, client
<1>. QED
  BY <1>1, <1>2, <1>3, <1>4, <1>5, <1>6 DEF Next

-----------------------------------------------------------------------------
(* The log-in.                                                              *)

\* Every step keeps logged honest: it is cleared for a new connection and set only
\* together with entered.
LEMMA StepLoggedHere ==
  TypeOK /\ SlotLife /\ LoggedHere /\ [Next]_vars => LoggedHere'
<1>. SUFFICES ASSUME TypeOK, SlotLife, LoggedHere, [Next]_vars PROVE LoggedHere'
  OBVIOUS
<1>0. /\ logged \in [Slots -> BOOLEAN] /\ entered \in [Slots -> BOOLEAN]
      /\ pc \in [Slots -> {"off", "loop", "statusClr", "cmd", "result", "clear",
                          "data", "dataClr", "exit"}]
  BY DEF TypeOK
<1>1. ASSUME NEW s \in Slots, Connect(s) PROVE LoggedHere'
  BY <1>0, <1>1 DEF LoggedHere, Connect, device
<1>2. ASSUME NEW s \in Slots, Exit(s) PROVE LoggedHere'
  BY <1>0, <1>2 DEF LoggedHere, Exit, device
<1>3. ASSUME NEW s \in Slots, Login(s) PROVE LoggedHere'
  BY <1>0, <1>3 DEF LoggedHere, Login, device, client
<1>4. ASSUME NEW s \in Slots, ClientThread(s), ~Exit(s) PROVE LoggedHere'
  BY <1>4, ThreadStays DEF LoggedHere, device
<1>5. ASSUME \/ \E s \in Slots : ReaderEnds(s)
             \/ \E s \in Slots, k \in Kinds, n \in 0 .. NDisps : Submit(s, k, n)
             \/ DisconnectAll
      PROVE LoggedHere'
  <2>1. UNCHANGED <<pc, logged, entered, filtering>>
    BY <1>5 DEF ReaderEnds, Submit, DisconnectAll, client, device, table, sent
  <2>. QED
    BY <2>1 DEF LoggedHere
<1>6. CASE \/ PollOk \/ Poll("Fault") \/ DeviceStep \/ UNCHANGED vars
  BY <1>6, ConnectionsFrame DEF LoggedHere, client, sent
<1>. QED
  BY <1>1, <1>2, <1>3, <1>4, <1>5, <1>6 DEF Next

\* Every step keeps LoginFirst: what is sent to a client, and a command taken from it,
\* was guarded by logged.
LEMMA StepLoginFirst ==
  TypeOK /\ SlotLife /\ SessionIds /\ LoggedHere /\ LoginFirst /\ [Next]_vars => LoginFirst'
<1>. SUFFICES ASSUME TypeOK, SlotLife, SessionIds, LoggedHere, LoginFirst, [Next]_vars,
                     filtering', NEW t \in Slots, pc'[t] # "off", Served(t)'
              PROVE  entered'[t]
  BY DEF LoginFirst
<1>0. /\ entered \in [Slots -> BOOLEAN] /\ nmsg \in 0 .. MaxMsg
      /\ sess \in [Slots -> 0 .. MaxSess] /\ nsess \in 0 .. MaxSess
      /\ pc \in [Slots -> {"off", "loop", "statusClr", "cmd", "result", "clear",
                          "data", "dataClr", "exit"}]
      /\ told \in [Slots -> {"none", "NoError", "Fault"}]
      /\ seen \in [Slots -> [Disps -> -1 .. MaxVer]]
      /\ req \in [Msgs -> Req] /\ at \in [Slots -> Disps]
  BY DEF TypeOK
<1>1. ASSUME filtering, pc[t] # "off", Served(t) \/ logged[t] PROVE entered[t]
  BY <1>1 DEF LoginFirst, LoggedHere
<1>2. ASSUME NEW s \in Slots, Connect(s) PROVE entered'[t]
  <2>1. /\ nsess' = nsess + 1 /\ sess' = [sess EXCEPT ![s] = nsess + 1]
        /\ pc' = [pc EXCEPT ![s] = "loop"] /\ req' = req /\ nmsg' = nmsg
        /\ filtering' = filtering
        /\ entered' = [entered EXCEPT ![s] = FALSE]
        /\ seen' = [seen EXCEPT ![s] = [d \in Disps |-> -1]]
        /\ told' = [told EXCEPT ![s] = "none"]
    BY <1>2 DEF Connect, ledger, device
  <2>2. CASE t = s
    <3>1. told'[t] = "none" /\ \A d \in Disps : seen'[t][d] = -1
      BY <1>0, <2>1, <2>2
    <3>2. \A m \in 1 .. nmsg : req[m].sess # nsess + 1
      <4>1. \A m \in 1 .. nmsg : m \in Msgs
        BY <1>0, SizesAssumption DEF Msgs
      <4>2. \A m \in Msgs : req[m].sess <= nsess /\ req[m].sess \in Int
        BY <1>0, SizesAssumption DEF SessionIds, Req
      <4>. QED
        BY <1>0, <4>1, <4>2
    <3>. QED
      BY <1>0, <2>1, <2>2, <3>1, <3>2 DEF Served
  <2>3. CASE t # s
    <3>1. sess'[t] = sess[t] /\ pc'[t] = pc[t] /\ entered'[t] = entered[t]
          /\ seen'[t] = seen[t] /\ told'[t] = told[t]
      BY <1>0, <2>1, <2>3
    <3>. QED
      BY <1>1, <2>1, <3>1 DEF Served
  <2>. QED
    BY <2>2, <2>3
<1>3. ASSUME NEW s \in Slots, Exit(s) PROVE entered'[t]
  <2>1. /\ pc' = [pc EXCEPT ![s] = "off"] /\ UNCHANGED <<req, nmsg, filtering, sess>>
        /\ entered' = [entered EXCEPT ![s] = FALSE]
        /\ seen' = [seen EXCEPT ![s] = [d \in Disps |-> -1]]
        /\ told' = [told EXCEPT ![s] = "none"]
    BY <1>3 DEF Exit, device
  <2>2. t # s
    BY <1>0, <2>1
  <2>3. sess'[t] = sess[t] /\ pc'[t] = pc[t] /\ entered'[t] = entered[t]
        /\ seen'[t] = seen[t] /\ told'[t] = told[t]
    BY <1>0, <2>1, <2>2
  <2>. QED
    BY <1>1, <2>1, <2>3 DEF Served
<1>4. ASSUME NEW s \in Slots, Login(s) PROVE entered'[t]
  <2>1. UNCHANGED <<pc, req, nmsg, filtering, sess, seen, told>>
    BY <1>4 DEF Login, device, client, ledger
  <2>2. Served(t)
    BY <2>1 DEF Served
  <2>3. entered[t]
    BY <1>1, <2>1, <2>2
  <2>. QED
    BY <1>0, <1>4, <2>3 DEF Login
<1>5. ASSUME NEW s \in Slots, ClientThread(s), ~Exit(s) PROVE entered'[t]
  <2>1. /\ UNCHANGED <<logged, filtering, nmsg, req, entered, sess>>
        /\ pc[t] # "off"
    BY <1>5, ThreadStays DEF device
  <2>2. ASSUME told'[t] # told[t] PROVE logged[t]
    BY <1>0, <1>5, <2>2 DEF ClientThread, LoopTop, StatusClr, Cmd, Result, Clear, Data, DataClr, sent
  <2>3. ASSUME seen'[t] # seen[t] PROVE logged[t]
    <3>1. \/ UNCHANGED seen
          \/ logged[s] /\ seen' = [seen EXCEPT ![s][at[s]] = ver[at[s]]]
      BY <1>5 DEF ClientThread, LoopTop, StatusClr, Cmd, Result, Clear, Data, DataClr, sent
    <3>. QED
      BY <1>0, <2>3, <3>1
  <2>4. Served(t) \/ logged[t]
    BY <2>1, <2>2, <2>3 DEF Served
  <2>. QED
    BY <1>1, <2>1, <2>4
<1>6. ASSUME NEW s \in Slots, NEW k \in Kinds, NEW n \in 0 .. NDisps, Submit(s, k, n)
      PROVE entered'[t]
  <2>1. /\ UNCHANGED <<pc, filtering, sess, seen, told, entered>>
        /\ nmsg' = nmsg + 1 /\ logged[s] /\ reader[s] = "run"
    BY <1>6 DEF Submit, device, client, sent
  <2>2. /\ \A m \in 1 .. nmsg : req'[m] = req[m]
        /\ req'[nmsg + 1].sess = sess[s]
    <3>. DEFINE d == IF n = 0 THEN 0 ELSE n - 1
                q == [slot |-> s, sess |-> sess[s], disp |-> d, kind |-> k,
                      over |-> info[s][d].command = "Reset",
                      heir |-> /\ info[s][d].command = "None"
                               /\ Running(s, d) \/ info[s][d].st = "Complete"]
    <3>1. req' = [req EXCEPT ![nmsg + 1] = q] /\ q.sess = sess[s]
      BY <1>6 DEF Submit
    <3>2. nmsg + 1 \in Msgs
      BY <1>0, <1>6, SizesAssumption DEF Submit, Msgs
    <3>. HIDE DEF q
    <3>. QED
      BY <1>0, <3>1, <3>2
  <2>3. CASE sess[s] = sess[t]
    <3>1. s = t
      BY <2>1, <2>3 DEF SessionIds, SlotLife, LifeOK
    <3>. QED
      BY <1>1, <2>1, <3>1
  <2>4. CASE sess[s] # sess[t]
    <3>1. ASSUME NEW m \in 1 .. nmsg', req'[m].sess = sess'[t]
          PROVE  m \in 1 .. nmsg /\ req[m].sess = sess[t]
      BY <1>0, <2>1, <2>2, <2>4, <3>1
    <3>2. Served(t)
      BY <2>1, <3>1 DEF Served
    <3>. QED
      BY <1>1, <2>1, <3>2
  <2>. QED
    BY <2>3, <2>4
<1>7. ASSUME UNCHANGED <<pc, filtering, nmsg, req, sess, seen, told, entered>>
      PROVE entered'[t]
  BY <1>1, <1>7 DEF Served
<1>8. ASSUME \/ \E s \in Slots : ReaderEnds(s)
             \/ DisconnectAll \/ PollOk \/ Poll("Fault") \/ DeviceStep \/ UNCHANGED vars
      PROVE UNCHANGED <<pc, filtering, nmsg, req, sess, seen, told, entered>>
  BY <1>8, ConnectionsFrame DEF ReaderEnds, DisconnectAll, client, sent, ledger, device
<1>. QED
  BY <1>2, <1>3, <1>4, <1>5, <1>6, <1>7, <1>8 DEF Next

\* With client filtering on, no client is told anything of the device, and none of its
\* commands is accepted, before it has logged in on that very connection: a slot does
\* not hand the log-in of one connection to the next (set_new_dc_client_param).
THEOREM NothingBeforeLogin == Spec => []LoginFirst
<1>. DEFINE Inv == TypeOK /\ SlotLife /\ SessionIds /\ LoggedHere /\ LoginFirst
<1>1. Init => Inv
  BY InitTypeOK, InitLife, SizesAssumption DEF Init, LoggedHere, LoginFirst
<1>2. Inv /\ [Next]_vars => Inv'
  BY StepTypeOK, StepSlotLife, StepSessionIds, StepLoggedHere, StepLoginFirst
<1>. QED
  BY <1>1, <1>2, PTL DEF Spec

-----------------------------------------------------------------------------
(* Every step keeps the records, the command and the results in order.      *)

\* The facts about types that the steps below need.
LEMMA LedgerTypes ==
  ASSUME TypeOK
  PROVE  /\ nmsg \in Nat /\ nmsg <= MaxMsg /\ \A m \in 1 .. nmsg : m \in Msgs
         /\ req \in [Msgs -> Req] /\ runs \in [Msgs -> Nat] /\ answers \in [Msgs -> Nat]
         /\ outcome \in [Msgs -> Results \cup {"none"}]
         /\ \A s \in Slots, d \in Disps :
              /\ info[s][d] \in Info
              /\ info[s][d].mid \in Nat
              /\ info[s][d].st \in {"Free", "New", "Run", "Complete"}
         /\ \A s \in Slots : at[s] \in Disps /\ got[s].mid \in Nat
         /\ dd \in Disps /\ job.slot \in Slots /\ job.mid \in Nat
<1>1. /\ nmsg \in 0 .. MaxMsg /\ dd \in Disps /\ job \in [slot : Slots, mid : 0 .. MaxMsg]
      /\ req \in [Msgs -> Req] /\ runs \in [Msgs -> Nat] /\ answers \in [Msgs -> Nat]
      /\ outcome \in [Msgs -> Results \cup {"none"}]
      /\ info \in [Slots -> [Disps -> Info]] /\ at \in [Slots -> Disps]
      /\ got \in [Slots -> [mid : 0 .. MaxMsg, result : Results]]
  BY DEF TypeOK
<1>2. ASSUME NEW s \in Slots, NEW d \in Disps
      PROVE  /\ info[s][d] \in Info
             /\ info[s][d].mid \in Nat
             /\ info[s][d].st \in {"Free", "New", "Run", "Complete"}
  BY <1>1, SizesAssumption DEF Info
<1>3. nmsg \in Nat /\ nmsg <= MaxMsg /\ \A m \in 1 .. nmsg : m \in Msgs
  BY <1>1, SizesAssumption DEF Msgs
<1>. QED
  BY <1>1, <1>2, <1>3, SizesAssumption

\* In the initial state the table is empty.
LEMMA InitLedger == Init => Ledger
  BY Ranges, InitLife DEF Init, Ledger, RecordsOK, RecordOK, JobOK, FetchesOK, FetchOK, NoCommand

\* A record without a request is as it should be, whatever else changes.
LEMMA EmptyOK ==
  ASSUME NEW s, NEW d, info'[s][d].mid = 0, info'[s][d].command = "None",
         info'[s][d].st \in {"Free", "Complete"}
  PROVE  RecordOK(info[s][d], s, d)'
  BY DEF RecordOK

\* A step that leaves the table, the ledger of the requests and the device thread's
\* command alone.
LEMMA Quiet ==
  ASSUME NotYet, RecordsOK, JobOK,
         UNCHANGED <<infoCount, info, nmsg, req, runs, outcome, answers>>,
         \/ UNCHANGED <<dpc, dd, job>>
         \/ dpc # "call" /\ dpc' # "call"
  PROVE  NotYet' /\ RecordsOK' /\ JobOK'
  BY DEF NotYet, RecordsOK, RecordOK, InPlace, Answerable, Irregular, Running, JobOK

\* The steps of the device thread that do not touch the table.
LEMMA DeviceQuiet ==
  ASSUME TypeOK, Ledger,
         InitDriver \/ PollOk \/ Poll("Fault") \/ ReadState \/ FlagData \/ Notify
  PROVE  Ledger'
<1>1. /\ UNCHANGED <<infoCount, info, nmsg, req, runs, outcome, answers, pc, at, got, state>>
      /\ dpc # "call" /\ dpc' # "call"
  BY DEF InitDriver, PollOk, Poll, ReadState, FlagData, Notify, NextDisp, table, client, ledger
<1>. QED
  BY <1>1, Quiet DEF Ledger, FetchesOK, FetchOK, InPlace, Answerable, Irregular

\* The other steps that do not: the log-in, and all of the client thread but its last
\* step and its answer.
LEMMA ClientQuiet ==
  ASSUME TypeOK, Ledger, NEW s \in Slots,
         \/ Login(s) \/ ReaderEnds(s)
         \/ LoopTop(s) \/ StatusClr(s) \/ Cmd(s) \/ Data(s) \/ DataClr(s)
  PROVE  Ledger'
<1>. DEFINE Pcs == {"off", "loop", "statusClr", "cmd", "result", "clear", "data", "dataClr", "exit"}
<1>1. UNCHANGED <<infoCount, info, nmsg, req, runs, outcome, answers, got, state, dpc, dd, job>>
  BY DEF Login, ReaderEnds, LoopTop, StatusClr, Cmd, Data, DataClr, table, client, device, ledger
<1>2. NotYet' /\ RecordsOK' /\ JobOK'
  BY <1>1, Quiet DEF Ledger
<1>3. pc \in [Slots -> Pcs] /\ at \in [Slots -> Disps]
  BY DEF TypeOK
<1>4. \/ UNCHANGED <<pc, at>>
      \/ /\ pc' = [pc EXCEPT ![s] = "result"] /\ at' = at
         /\ info[s][at[s]].st = "Complete"
      \/ \E p \in Pcs \ {"result", "clear"} :
           /\ pc' = [pc EXCEPT ![s] = p]
           /\ \A t \in Slots : t # s => at'[t] = at[t]
  BY <1>3 DEF Login, ReaderEnds, LoopTop, StatusClr, Cmd, Data, DataClr, Advance, client
<1>5. FetchesOK'
  BY <1>1, <1>3, <1>4 DEF Ledger, FetchesOK, FetchOK, InPlace, Answerable, Irregular
<1>. QED
  BY <1>2, <1>5 DEF Ledger

\* A connection lost leaves the records as they are.
LEMMA DisconnectLedger ==
  ASSUME TypeOK, Ledger, DisconnectAll
  PROVE  Ledger'
<1>1. UNCHANGED <<infoCount, info, nmsg, req, runs, outcome, answers, pc, at, got, dpc, dd, job>>
  BY DEF DisconnectAll, client, device, ledger
<1>2. \A s \in Slots : state[s] # "Active" => state'[s] # "Active"
  BY DEF DisconnectAll, TypeOK
<1>. QED
  BY <1>1, <1>2, Quiet DEF Ledger, FetchesOK, FetchOK, InPlace, Answerable, Irregular

\* A new connection and the end of one: the slot is empty before the first and after
\* the second.
LEMMA ConnectLedger ==
  ASSUME TypeOK, SlotLife, Ledger, NEW s \in Slots, Connect(s)
  PROVE  Ledger'
<1>1. /\ UNCHANGED <<nmsg, req, runs, outcome, answers, got, dpc, dd, job>>
      /\ state[s] = "Free" /\ dispCount \in Int
  BY DEF Connect, FirstFree, device, ledger, TypeOK
<1>2. /\ state' = [state EXCEPT ![s] = "Active"]
      /\ pc' = [pc EXCEPT ![s] = "loop"]
      /\ at' = [at EXCEPT ![s] = 0]
      /\ infoCount' = [infoCount EXCEPT ![s] = dispCount]
      /\ info' = [info EXCEPT ![s] = [d \in Disps |->
                     IF d < dispCount THEN NoCommand("NoError") ELSE info[s][d]]]
  BY DEF Connect
<1>3. ASSUME NEW t \in Slots, t # s
      PROVE  /\ info'[t] = info[t] /\ infoCount'[t] = infoCount[t] /\ state'[t] = state[t]
             /\ pc'[t] = pc[t] /\ at'[t] = at[t]
  BY <1>2, <1>3 DEF TypeOK
<1>4. infoCount[s] = 0
  BY <1>1 DEF SlotLife, LifeOK
<1>5. ASSUME NEW d \in Disps PROVE RecordOK(info[s][d], s, d)'
  <2>1. RecordOK(info[s][d], s, d)
    BY DEF Ledger, RecordsOK
  <2>2. info[s][d].mid = 0
    BY <1>4, <2>1, Ranges DEF RecordOK
  <2>3. info'[s][d] = IF d < dispCount THEN NoCommand("NoError") ELSE info[s][d]
    BY <1>2 DEF TypeOK
  <2>. QED
    BY <2>1, <2>2, <2>3, EmptyOK DEF RecordOK, NoCommand
<1>6. RecordsOK'
  <2>. SUFFICES ASSUME NEW t \in Slots, NEW d \in Disps, t # s
                PROVE  RecordOK(info[t][d], t, d)'
    BY <1>5 DEF RecordsOK
  <2>. QED
    BY <1>1, <1>3 DEF Ledger, RecordsOK, RecordOK, InPlace, Answerable, Irregular, Running
<1>7. FetchesOK'
  <2>. SUFFICES ASSUME NEW t \in Slots PROVE FetchOK(info[t][at[t]], t)'
    BY DEF FetchesOK
  <2>1. CASE t = s
    BY <1>2, <2>1 DEF FetchOK, TypeOK
  <2>2. CASE t # s
    BY <1>1, <1>3, <2>2 DEF Ledger, FetchesOK, FetchOK, InPlace, Answerable, Irregular
  <2>. QED
    BY <2>1, <2>2
<1>. QED
  BY <1>1, <1>6, <1>7 DEF Ledger, NotYet, JobOK

\* See ConnectLedger.
LEMMA ExitLedger ==
  ASSUME TypeOK, SlotLife, Ledger, NEW s \in Slots, Exit(s)
  PROVE  Ledger'
<1>1. UNCHANGED <<nmsg, req, runs, outcome, answers, got, dpc, dd, job>>
  BY DEF Exit, device
<1>2. /\ state' = [state EXCEPT ![s] = "Free"]
      /\ pc' = [pc EXCEPT ![s] = "off"]
      /\ at' = [at EXCEPT ![s] = 0]
      /\ infoCount' = [infoCount EXCEPT ![s] = 0]
      /\ info' = [info EXCEPT ![s] = [d \in Disps |->
                     IF d < infoCount[s] THEN NoCommand("NoError") ELSE info[s][d]]]
  BY DEF Exit
<1>3. ASSUME NEW t \in Slots, t # s
      PROVE  /\ info'[t] = info[t] /\ infoCount'[t] = infoCount[t] /\ state'[t] = state[t]
             /\ pc'[t] = pc[t] /\ at'[t] = at[t]
  BY <1>2, <1>3 DEF TypeOK
<1>5. ASSUME NEW d \in Disps PROVE RecordOK(info[s][d], s, d)'
  <2>1. RecordOK(info[s][d], s, d)
    BY DEF Ledger, RecordsOK
  <2>2. info'[s][d] = IF d < infoCount[s] THEN NoCommand("NoError") ELSE info[s][d]
    BY <1>2 DEF TypeOK
  <2>. QED
    BY <2>1, <2>2, EmptyOK DEF RecordOK, NoCommand
<1>6. RecordsOK'
  <2>. SUFFICES ASSUME NEW t \in Slots, NEW d \in Disps, t # s
                PROVE  RecordOK(info[t][d], t, d)'
    BY <1>5 DEF RecordsOK
  <2>. QED
    BY <1>1, <1>3 DEF Ledger, RecordsOK, RecordOK, InPlace, Answerable, Irregular, Running
<1>7. FetchesOK'
  <2>. SUFFICES ASSUME NEW t \in Slots PROVE FetchOK(info[t][at[t]], t)'
    BY DEF FetchesOK
  <2>1. CASE t = s
    BY <1>2, <2>1 DEF FetchOK, TypeOK
  <2>2. CASE t # s
    BY <1>1, <1>3, <2>2 DEF Ledger, FetchesOK, FetchOK, InPlace, Answerable, Irregular
  <2>. QED
    BY <2>1, <2>2
<1>. QED
  BY <1>1, <1>6, <1>7 DEF Ledger, NotYet, JobOK

\* What the read thread stores, and the facts about the request at that moment.
LEMMA SubmitStores ==
  ASSUME TypeOK, NEW s \in Slots, NEW k \in Kinds, NEW n \in 0 .. NDisps, Submit(s, k, n)
  PROVE  \E d \in Disps, m \in Msgs :
           /\ m = nmsg + 1 /\ nmsg' = m
           /\ d < infoCount[s] /\ info[s][d].command \in {"None", "Reset"}
           /\ state[s] = "Active"
           /\ Stores(s, d, [command |-> k, st |-> "New", mid |-> m, result |-> "Undefined"])
           /\ req'[m] = [slot |-> s, sess |-> sess[s], disp |-> d, kind |-> k,
                         over |-> info[s][d].command = "Reset",
                         heir |-> /\ info[s][d].command = "None"
                                  /\ Running(s, d) \/ info[s][d].st = "Complete"]
           /\ \A q \in 1 .. nmsg : req'[q] = req[q]
           /\ UNCHANGED <<state, infoCount, pc, at, got, dpc, dd, job, runs, outcome,
                          answer, answers, sess>>
<1>. DEFINE d == IF n = 0 THEN 0 ELSE n - 1
            m == nmsg + 1
            i == [command |-> k, st |-> "New", mid |-> m, result |-> "Undefined"]
            q == [slot |-> s, sess |-> sess[s], disp |-> d, kind |-> k,
                  over |-> info[s][d].command = "Reset",
                  heir |-> /\ info[s][d].command = "None"
                           /\ Running(s, d) \/ info[s][d].st = "Complete"]
<1>1. d \in Disps
  BY Ranges, SizesAssumption
<1>2. m \in 0 .. MaxMsg /\ m \in Msgs
  BY SizesAssumption DEF TypeOK, Submit, Msgs
<1>3. i \in Info
  BY <1>2 DEF Info, Results
<1>4. info' = [info EXCEPT ![s][d] = i] /\ req' = [req EXCEPT ![m] = q] /\ nmsg' = m
  BY DEF Submit
<1>5. d < infoCount[s] /\ info[s][d].command \in {"None", "Reset"} /\ state[s] = "Active"
  BY DEF Submit, SlotTakes
<1>6. UNCHANGED <<state, infoCount, pc, at, got, dpc, dd, job, runs, outcome, answer,
                  answers, sess>>
  BY DEF Submit, client, device
<1>. HIDE DEF d, i, q
<1>7. Stores(s, d, i)
  BY <1>1, <1>3, <1>4, AssignStores
<1>8. req'[m] = q /\ \A p \in 1 .. nmsg : req'[p] = req[p]
  BY <1>2, <1>4, LedgerTypes
<1>. QED
  BY <1>1, <1>2, <1>4, <1>5, <1>6, <1>7, <1>8 DEF i, q

\* Accepting a request: the newcomer is excused if the driver runs something for its
\* place, or if the client thread is about to collect what lay there.
LEMMA SubmitLedger ==
  ASSUME TypeOK, Ledger, NEW s \in Slots, NEW k \in Kinds, NEW n \in 0 .. NDisps,
         Submit(s, k, n)
  PROVE  Ledger'
<1>1. PICK d \in Disps, m \in Msgs :
        /\ m = nmsg + 1 /\ nmsg' = m
        /\ d < infoCount[s] /\ info[s][d].command \in {"None", "Reset"}
        /\ Stores(s, d, [command |-> k, st |-> "New", mid |-> m, result |-> "Undefined"])
        /\ req'[m] = [slot |-> s, sess |-> sess[s], disp |-> d, kind |-> k,
                      over |-> info[s][d].command = "Reset",
                      heir |-> /\ info[s][d].command = "None"
                               /\ Running(s, d) \/ info[s][d].st = "Complete"]
        /\ \A q \in 1 .. nmsg : req'[q] = req[q]
        /\ UNCHANGED <<state, infoCount, pc, at, got, dpc, dd, job, runs, outcome, answers>>
  BY SubmitStores
<1>2. nmsg \in Nat /\ m # 0 /\ m \notin 1 .. nmsg /\ \A q \in 1 .. nmsg : q \in 1 .. m
  BY <1>1, LedgerTypes
<1>3. k # "None" /\ runs[m] = 0 /\ answers[m] = 0
  BY <1>1, <1>2, KindsAssumption DEF AllKinds, Ledger, NotYet
<1>4. /\ info'[s][d] = [command |-> k, st |-> "New", mid |-> m, result |-> "Undefined"]
      /\ \A t \in Slots, e \in Disps : t # s \/ e # d => info'[t][e] = info[t][e]
  BY <1>1 DEF Stores
<1>5. Irregular(m)' <=> \/ info[s][d].command = "Reset"
                        \/ Running(s, d) \/ info[s][d].st = "Complete"
  <2>1. /\ req'[m].over = (info[s][d].command = "Reset")
        /\ req'[m].heir = (/\ info[s][d].command = "None"
                           /\ Running(s, d) \/ info[s][d].st = "Complete")
    BY <1>1
  <2>2. info[s][d].command = "None" \/ info[s][d].command = "Reset"
    BY <1>1
  <2>. QED
    BY <2>1, <2>2, Zenon DEF Irregular
<1>6. \A q \in 1 .. nmsg : Irregular(q)' <=> Irregular(q)
  BY <1>1 DEF Irregular
<1>7. RecordOK(info[s][d], s, d)'
  <2>1. /\ info'[s][d].mid = m /\ info'[s][d].command = k /\ info'[s][d].st = "New"
    BY <1>4
  <2>2. req'[m].slot = s /\ req'[m].disp = d /\ req'[m].kind = k
    BY <1>1
  <2>3. InPlace(m, s, d)'
    BY <1>1, <1>2, <1>3, <2>2 DEF InPlace
  <2>4. Running(s, d)' => Irregular(m)'
    BY <1>1, <1>5 DEF Running
  <2>. QED
    BY <1>1, <1>2, <1>3, <2>1, <2>2, <2>3, <2>4 DEF RecordOK
<1>8. ASSUME NEW t \in Slots, NEW e \in Disps, t # s \/ e # d
      PROVE  RecordOK(info[t][e], t, e)'
  <2>1. RecordOK(info[t][e], t, e)
    BY DEF Ledger, RecordsOK
  <2>2. info[t][e].mid # 0 => info[t][e].mid \in 1 .. nmsg
    BY <2>1 DEF RecordOK, InPlace
  <2>. QED
    BY <1>1, <1>2, <1>4, <1>6, <1>8, <2>1, <2>2 DEF RecordOK, InPlace, Answerable, Running
<1>9. JobOK'
  BY <1>1, <1>2 DEF Ledger, JobOK
<1>10. ASSUME NEW t \in Slots PROVE FetchOK(info[t][at[t]], t)'
  <2>1. FetchOK(info[t][at[t]], t) /\ RecordOK(info[t][at[t]], t, at[t])
    BY LedgerTypes DEF Ledger, FetchesOK, RecordsOK
  <2>2. got[t].mid # 0 /\ pc[t] = "clear" => got[t].mid \in 1 .. nmsg
    BY <2>1 DEF FetchOK, InPlace
  <2>3. got'[t].mid # 0 /\ pc'[t] = "clear" =>
          InPlace(got[t].mid, t, at[t])' /\ Answerable(got[t].mid, got[t].result)'
    BY <1>1, <1>2, <1>6, <2>1, <2>2 DEF FetchOK, InPlace, Answerable
  <2>4. CASE t = s /\ at[t] = d
    <3>1. info'[t][at'[t]] = info'[s][d]
      BY <1>1, <2>4
    <3>2. pc[t] \in {"result", "clear"} => Irregular(m)'
      BY <1>1, <1>5, <2>1, <2>4 DEF FetchOK, RecordOK
    <3>3. info'[s][d].mid = m /\ pc'[t] = pc[t]
      BY <1>1, <1>4
    <3>. QED
      BY <1>2, <2>3, <2>4, <3>1, <3>2, <3>3 DEF FetchOK
  <2>5. CASE ~(t = s /\ at[t] = d)
    <3>1. info'[t][at'[t]] = info[t][at[t]]
      BY <1>1, <1>4, <2>5, LedgerTypes
    <3>2. info[t][at[t]].mid # 0 => info[t][at[t]].mid \in 1 .. nmsg
      BY <2>1 DEF RecordOK, InPlace
    <3>. QED
      BY <1>1, <1>6, <2>1, <2>3, <3>1, <3>2 DEF FetchOK
  <2>. QED
    BY <2>4, <2>5
<1>11. NotYet'
  BY <1>1, <1>2 DEF Ledger, NotYet, Msgs
<1>. QED
  BY <1>7, <1>8, <1>9, <1>10, <1>11 DEF Ledger, RecordsOK, FetchesOK

\* The client thread fetches a result: its own, or one for a request that is excused.
LEMMA ResultLedger ==
  ASSUME TypeOK, Ledger, NEW s \in Slots, Result(s)
  PROVE  Ledger'
<1>1. /\ UNCHANGED <<infoCount, info, nmsg, req, runs, outcome, answers, at, state, dpc, dd, job>>
      /\ pc[s] = "result"
  BY DEF Result, table, device, ledger
<1>2. /\ pc' = [pc EXCEPT ![s] = "clear"]
      /\ got' = [got EXCEPT ![s] =
                   IF Visible(s)
                   THEN [mid |-> info[s][at[s]].mid, result |-> info[s][at[s]].result]
                   ELSE Nothing]
  BY DEF Result
<1>3. RecordOK(info[s][at[s]], s, at[s]) /\ FetchOK(info[s][at[s]], s)
  BY LedgerTypes DEF Ledger, RecordsOK, FetchesOK
<1>4. FetchOK(info[s][at[s]], s)'
  <2>1. pc'[s] = "clear"
    BY <1>2 DEF TypeOK
  <2>2. CASE Visible(s)
    <3>1. got'[s].mid = info[s][at[s]].mid /\ got'[s].result = info[s][at[s]].result
      BY <1>2, <2>2 DEF TypeOK
    <3>. QED
      BY <1>1, <1>3, <2>1, <3>1 DEF FetchOK, RecordOK, InPlace, Answerable, Irregular
  <2>3. CASE ~Visible(s)
    <3>1. got'[s].mid = 0
      BY <1>2, <2>3 DEF TypeOK, Nothing
    <3>. QED
      BY <1>1, <1>3, <2>1, <2>3, <3>1 DEF FetchOK, Irregular, Visible
  <2>. QED
    BY <2>2, <2>3
<1>5. ASSUME NEW t \in Slots, t # s PROVE FetchOK(info[t][at[t]], t)'
  <2>1. pc'[t] = pc[t] /\ got'[t] = got[t]
    BY <1>2, <1>5 DEF TypeOK
  <2>. QED
    BY <1>1, <2>1 DEF Ledger, FetchesOK, FetchOK, InPlace, Answerable, Irregular
<1>6. NotYet' /\ RecordsOK' /\ JobOK'
  BY <1>1, Quiet DEF Ledger
<1>. QED
  BY <1>4, <1>5, <1>6 DEF Ledger, FetchesOK

\* The answer: the request is nowhere else, so it is answered this once.
LEMMA ClearLedger ==
  ASSUME TypeOK, Ledger, NEW s \in Slots, Clear(s)
  PROVE  Ledger'
<1>. DEFINE m == got[s].mid
<1>1. /\ UNCHANGED <<infoCount, nmsg, req, runs, outcome, at, state, dpc, dd, job>>
      /\ pc[s] = "clear"
  BY DEF Clear, device
<1>2. /\ info' = [info EXCEPT ![s][at[s]] = NoCommand("Undefined")]
      /\ pc' = [pc EXCEPT ![s] = "data"]
      /\ got' = [got EXCEPT ![s] = Nothing]
  BY DEF Clear
<1>3. at[s] \in Disps
  BY LedgerTypes
<1>4. /\ info'[s][at[s]] = NoCommand("Undefined")
      /\ \A t \in Slots, e \in Disps : t # s \/ e # at[s] => info'[t][e] = info[t][e]
  <2>1. Stores(s, at[s], NoCommand("Undefined"))
    BY <1>2, <1>3, Ranges, AssignStores
  <2>. QED
    BY <2>1 DEF Stores
<1>5. m # 0 => InPlace(m, s, at[s])
  BY <1>1 DEF Ledger, FetchesOK, FetchOK
<1>6. \A q \in Msgs : q # m => answers'[q] = answers[q]
  BY LedgerTypes DEF Clear
<1>7. RecordOK(info[s][at[s]], s, at[s])'
  BY <1>1, <1>3, <1>4, EmptyOK DEF NoCommand, RecordOK
<1>8. ASSUME NEW t \in Slots, NEW e \in Disps, t # s \/ e # at[s]
      PROVE  RecordOK(info[t][e], t, e)'
  <2>1. RecordOK(info[t][e], t, e)
    BY DEF Ledger, RecordsOK
  <2>2. info[t][e].mid # 0 => info[t][e].mid \in Msgs /\ info[t][e].mid # m
    BY <1>5, <1>8, <2>1, LedgerTypes DEF RecordOK, InPlace
  <2>. QED
    BY <1>1, <1>4, <1>6, <1>8, <2>1, <2>2
       DEF RecordOK, InPlace, Answerable, Irregular, Running
<1>9. RecordsOK'
  <2>. SUFFICES ASSUME NEW t \in Slots, NEW e \in Disps PROVE RecordOK(info[t][e], t, e)'
    BY DEF RecordsOK
  <2>1. CASE t = s /\ e = at[s]
    BY <1>1, <1>7, <2>1
  <2>2. CASE ~(t = s /\ e = at[s])
    BY <1>8, <2>2
  <2>. QED
    BY <2>1, <2>2
<1>10. ASSUME NEW t \in Slots PROVE FetchOK(info[t][at[t]], t)'
  <2>1. CASE t = s
    BY <1>2, <2>1 DEF FetchOK, TypeOK
  <2>2. CASE t # s
    <3>1. FetchOK(info[t][at[t]], t)
      BY DEF Ledger, FetchesOK
    <3>2. pc'[t] = pc[t] /\ got'[t] = got[t] /\ info'[t][at[t]] = info[t][at[t]]
      BY <1>2, <1>4, <2>2, LedgerTypes DEF TypeOK
    <3>3. pc[t] = "clear" /\ got[t].mid # 0 => got[t].mid \in Msgs /\ got[t].mid # m
      BY <1>5, <2>2, <3>1, LedgerTypes DEF FetchOK, InPlace
    <3>. QED
      BY <1>1, <1>6, <3>1, <3>2, <3>3 DEF FetchOK, InPlace, Answerable, Irregular
  <2>. QED
    BY <2>1, <2>2
<1>11. NotYet'
  <2>1. ASSUME NEW q \in Msgs, q > nmsg PROVE q # m
    BY <1>5, <2>1, LedgerTypes DEF InPlace
  <2>. QED
    BY <1>1, <1>6, <2>1 DEF Ledger, NotYet
<1>12. JobOK'
  BY <1>1 DEF Ledger, JobOK
<1>. QED
  BY <1>9, <1>10, <1>11, <1>12 DEF Ledger, FetchesOK

\* The device thread takes a new command: the driver has not run it.
LEMMA FindLedger ==
  ASSUME TypeOK, Ledger, NEW s \in Slots, Find(s)
  PROVE  Ledger'
<1>1. /\ UNCHANGED <<infoCount, nmsg, req, runs, outcome, answers, pc, at, got, state, dd>>
      /\ dpc = "find" /\ dpc' = "call"
      /\ info[s][dd].command # "None" /\ info[s][dd].st = "New"
      /\ job' = [slot |-> s, mid |-> info[s][dd].mid]
  BY DEF Find, Waiting, client, ledger
<1>2. dd \in Disps /\ info[s][dd] \in Info
  BY LedgerTypes
<1>3. /\ info'[s][dd] = [info[s][dd] EXCEPT !.st = "Run"]
      /\ \A t \in Slots, e \in Disps : t # s \/ e # dd => info'[t][e] = info[t][e]
  BY FindStores DEF Stores
<1>4. /\ info'[s][dd].mid = info[s][dd].mid /\ info'[s][dd].command = info[s][dd].command
      /\ info'[s][dd].st = "Run" /\ info'[s][dd].result = info[s][dd].result
  BY <1>2, <1>3 DEF Info
<1>5. RecordOK(info[s][dd], s, dd)
  BY <1>2 DEF Ledger, RecordsOK
<1>6. RecordOK(info[s][dd], s, dd)'
  BY <1>1, <1>4, <1>5 DEF RecordOK, InPlace, Running
<1>7. ASSUME NEW t \in Slots, NEW e \in Disps, t # s \/ e # dd
      PROVE  RecordOK(info[t][e], t, e)'
  <2>1. RecordOK(info[t][e], t, e)
    BY DEF Ledger, RecordsOK
  <2>. QED
    BY <1>1, <1>3, <1>7, <2>1 DEF RecordOK, InPlace, Answerable, Irregular, Running
<1>8. RecordsOK'
  <2>. SUFFICES ASSUME NEW t \in Slots, NEW e \in Disps PROVE RecordOK(info[t][e], t, e)'
    BY DEF RecordsOK
  <2>1. CASE t = s /\ e = dd
    BY <1>1, <1>6, <2>1
  <2>2. CASE ~(t = s /\ e = dd)
    BY <1>7, <2>2
  <2>. QED
    BY <2>1, <2>2
<1>9. JobOK'
  BY <1>1, <1>5 DEF JobOK, RecordOK, InPlace
<1>10. ASSUME NEW t \in Slots PROVE FetchOK(info[t][at[t]], t)'
  <2>1. FetchOK(info[t][at[t]], t)
    BY DEF Ledger, FetchesOK
  <2>2. info'[t][at[t]].mid = info[t][at[t]].mid
    BY <1>3, <1>4, LedgerTypes
  <2>3. info[t][at[t]].st = "Complete" => info'[t][at[t]].st = "Complete"
    BY <1>1, <1>3, LedgerTypes
  <2>. QED
    BY <1>1, <2>1, <2>2, <2>3 DEF FetchOK, InPlace, Answerable, Irregular
<1>11. NotYet'
  BY <1>1 DEF Ledger, NotYet
<1>. QED
  BY <1>8, <1>9, <1>10, <1>11 DEF Ledger, FetchesOK

\* The driver returns: what lies in the place of the command is that command, or a
\* request that is excused.
LEMMA CallLedger ==
  ASSUME TypeOK, Ledger, NEW r \in Outcomes, Call(r)
  PROVE  Ledger'
<1>1. /\ UNCHANGED <<infoCount, nmsg, req, answers, pc, at, got, state, dd>>
      /\ dpc = "call" /\ dpc' = "state"
      /\ runs' = [runs EXCEPT ![job.mid] = runs[job.mid] + 1]
      /\ outcome' = [outcome EXCEPT ![job.mid] = r]
  BY DEF Call, client
<1>2. PICK s \in Slots, m \in Msgs : s = job.slot /\ m = job.mid
  BY <1>1, LedgerTypes DEF Ledger, JobOK
<1>3. /\ m \in 1 .. nmsg /\ runs[m] = 0 /\ req[m].slot = s /\ req[m].disp = dd
      /\ runs'[m] = 1 /\ outcome'[m] = r
      /\ \A q \in Msgs : q # m => runs'[q] = runs[q] /\ outcome'[q] = outcome[q]
  BY <1>1, <1>2, LedgerTypes DEF Ledger, JobOK
<1>4. dd \in Disps /\ info[s][dd] \in Info
  BY LedgerTypes
<1>5. IF dd < infoCount[s]
      THEN Stores(s, dd, [info[s][dd] EXCEPT !.result = r, !.st = "Complete"])
      ELSE info' = info
  BY <1>2, CallStores
<1>6. /\ info'[s][dd].mid = info[s][dd].mid /\ info'[s][dd].command = info[s][dd].command
      /\ \/ dd < infoCount[s] /\ info'[s][dd].st = "Complete" /\ info'[s][dd].result = r
         \/ ~(dd < infoCount[s]) /\ info' = info
      /\ \A t \in Slots, e \in Disps : t # s \/ e # dd => info'[t][e] = info[t][e]
  BY <1>4, <1>5 DEF Info, Stores
<1>7. \A q \in Msgs : runs[q] = 1 => runs'[q] = 1 /\ outcome'[q] = outcome[q]
  <2>. TAKE q \in Msgs
  <2>1. CASE q = m
    BY <1>3, <2>1
  <2>2. CASE q # m
    BY <1>3, <2>2
  <2>. QED
    BY <2>1, <2>2
<1>8. RecordOK(info[s][dd], s, dd)'
  <2>1. RecordOK(info[s][dd], s, dd)
    BY <1>4 DEF Ledger, RecordsOK
  <2>2. CASE info[s][dd].mid = 0
    <3>1. info'[s][dd].st \in {"Free", "Complete"}
      BY <1>6, <2>1, <2>2 DEF RecordOK
    <3>2. dd' = dd /\ info'[s][dd].mid = 0 /\ info'[s][dd].command = "None"
      BY <1>1, <1>6, <2>1, <2>2 DEF RecordOK
    <3>. QED
      BY <3>1, <3>2 DEF RecordOK
  <2>3. CASE info[s][dd].mid # 0
    <3>1. dd < infoCount[s] /\ InPlace(info[s][dd].mid, s, dd)
      BY <2>1, <2>3 DEF RecordOK
    <3>2. Irregular(info[s][dd].mid) \/ info[s][dd].mid = m
      BY <1>1, <1>2, <2>1, <2>3 DEF RecordOK, Running
    <3>3. /\ dd' = dd /\ info'[s][dd].mid = info[s][dd].mid
          /\ info'[s][dd].command = info[s][dd].command
          /\ info'[s][dd].st = "Complete" /\ info'[s][dd].result = r
      BY <1>1, <1>6, <3>1
    <3>4. Answerable(info[s][dd].mid, info[s][dd].result)'
      BY <1>1, <1>3, <3>2, <3>3 DEF Answerable, Irregular
    <3>5. InPlace(info[s][dd].mid, s, dd)'
      BY <1>1, <3>1, <3>3 DEF InPlace
    <3>. QED
      BY <1>1, <2>1, <2>3, <3>1, <3>3, <3>4, <3>5 DEF RecordOK, Running
  <2>. QED
    BY <2>2, <2>3
<1>9. ASSUME NEW t \in Slots, NEW e \in Disps, t # s \/ e # dd
      PROVE  RecordOK(info[t][e], t, e)'
  <2>1. RecordOK(info[t][e], t, e) /\ ~Running(t, e)
    BY <1>2, <1>9 DEF Ledger, RecordsOK, Running
  <2>2. info[t][e].mid # 0 => info[t][e].mid \in Msgs /\ info[t][e].mid # m
    BY <1>3, <1>9, <2>1, LedgerTypes DEF RecordOK, InPlace
  <2>3. info[t][e].st \in {"New", "Run"} => info[t][e].mid # 0
    BY <2>1 DEF RecordOK
  <2>. QED
    BY <1>1, <1>3, <1>6, <1>9, <2>1, <2>2, <2>3
       DEF RecordOK, InPlace, Answerable, Irregular, Running
<1>10. RecordsOK'
  <2>. SUFFICES ASSUME NEW t \in Slots, NEW e \in Disps PROVE RecordOK(info[t][e], t, e)'
    BY DEF RecordsOK
  <2>1. CASE t = s /\ e = dd
    BY <1>1, <1>8, <2>1
  <2>2. CASE ~(t = s /\ e = dd)
    BY <1>9, <2>2
  <2>. QED
    BY <2>1, <2>2
<1>11. ASSUME NEW t \in Slots PROVE FetchOK(info[t][at[t]], t)'
  <2>1. FetchOK(info[t][at[t]], t)
    BY DEF Ledger, FetchesOK
  <2>2. /\ info'[t][at[t]].mid = info[t][at[t]].mid
        /\ info[t][at[t]].st = "Complete" => info'[t][at[t]].st = "Complete"
    BY <1>6, LedgerTypes
  <2>3. pc[t] = "clear" /\ got[t].mid # 0 => got[t].mid \in Msgs
    BY <2>1, LedgerTypes DEF FetchOK, InPlace
  <2>. QED
    BY <1>1, <1>7, <2>1, <2>2, <2>3 DEF FetchOK, InPlace, Answerable, Irregular
<1>12. NotYet'
  BY <1>1, <1>3, LedgerTypes DEF Ledger, NotYet
<1>13. JobOK'
  BY <1>1 DEF JobOK
<1>. QED
  BY <1>10, <1>11, <1>12, <1>13 DEF Ledger, FetchesOK

\* Stuttering.
LEMMA StutterLedger ==
  ASSUME Ledger, UNCHANGED vars
  PROVE  Ledger'
  BY DEF vars, table, client, device, ledger, Ledger, NotYet, RecordsOK, RecordOK, JobOK,
         FetchesOK, FetchOK, InPlace, Answerable, Irregular, Running

\* Every step keeps the ledger.
LEMMA StepLedger == TypeOK /\ SlotLife /\ Ledger /\ [Next]_vars => Ledger'
  BY DeviceQuiet, ClientQuiet, DisconnectLedger, ConnectLedger, ExitLedger, SubmitLedger,
     ResultLedger, ClearLedger, FindLedger, CallLedger, StutterLedger
     DEF Next, ClientThread, DeviceStep

\* The invariant holds in every state.
LEMMA Invariance == Spec => []IInv
<1>1. Init => IInv
  BY InitTypeOK, InitLife, InitLedger DEF IInv
<1>2. IInv /\ [Next]_vars => IInv'
  BY StepTypeOK, StepSlotLife, StepSessionIds, StepLedger DEF IInv
<1>. QED
  BY <1>1, <1>2, PTL DEF Spec

-----------------------------------------------------------------------------
(* The slots implement DcService.                                           *)

\* Nothing has been accepted at the start.
LEMMA InitRefines == Init => Service!Init
<1>. SUFFICES ASSUME Init PROVE Service!Init
  OBVIOUS
<1>1. {m \in 1 .. nmsg : Irregular(m)} = {}
  BY DEF Init
<1>. QED
  BY <1>1 DEF Init, Service!Init, Service!Requests, Msgs

\* The read thread's action is the service's Accept: settled is what the request found.
LEMMA SubmitRefines ==
  ASSUME IInv, NEW s \in Slots, NEW k \in Kinds, NEW n \in 0 .. NDisps, Submit(s, k, n)
  PROVE  \E settled \in BOOLEAN : Service!Accept(settled)
<1>1. PICK m \in Msgs :
        /\ m = nmsg + 1 /\ nmsg' = m
        /\ \A q \in 1 .. nmsg : req'[q] = req[q]
        /\ UNCHANGED <<runs, outcome, answer, answers>>
  BY SubmitStores DEF IInv
<1>2. nmsg < MaxMsg /\ nmsg \in Nat
  BY LedgerTypes DEF Submit, IInv
<1>3. \A q \in 1 .. nmsg : Irregular(q)' <=> Irregular(q)
  BY <1>1 DEF Irregular
<1>4. 1 .. nmsg' = (1 .. nmsg) \cup {m}
  BY <1>1, <1>2
<1>5. CASE Irregular(m)'
  <2>1. {q \in 1 .. nmsg' : Irregular(q)'} = {q \in 1 .. nmsg : Irregular(q)} \cup {m}
    BY <1>3, <1>4, <1>5
  <2>2. Service!Accept(FALSE)
    BY <1>1, <1>2, <2>1 DEF Service!Accept
  <2>. QED
    BY <2>2
<1>6. CASE ~Irregular(m)'
  <2>1. {q \in 1 .. nmsg' : Irregular(q)'} = {q \in 1 .. nmsg : Irregular(q)}
    BY <1>3, <1>4, <1>6
  <2>2. Service!Accept(TRUE)
    BY <1>1, <1>2, <2>1 DEF Service!Accept
  <2>. QED
    BY <2>2
<1>. QED
  BY <1>5, <1>6

\* The driver call is the service's Run.
LEMMA CallRefines ==
  ASSUME IInv, NEW r \in Outcomes, Call(r)
  PROVE  \E m \in Service!Pending, v \in Results : Service!Run(m, v)
<1>. DEFINE m == job.mid
<1>1. m \in 1 .. nmsg /\ runs[m] = 0
  BY DEF IInv, Ledger, JobOK, Call
<1>2. /\ runs' = [runs EXCEPT ![m] = 1] /\ outcome' = [outcome EXCEPT ![m] = r]
      /\ UNCHANGED <<nmsg, req, answer, answers>>
  BY <1>1 DEF Call
<1>3. {q \in 1 .. nmsg : Irregular(q)}' = {q \in 1 .. nmsg : Irregular(q)}
  BY <1>2 DEF Irregular
<1>4. Service!Run(m, r)
  BY <1>1, <1>2, <1>3 DEF Service!Run
<1>. QED
  BY <1>1, <1>4 DEF Service!Pending, Results

\* The client thread's answer is the service's Answer, if it holds a request's result.
LEMMA ClearRefines ==
  ASSUME IInv, NEW s \in Slots, Clear(s)
  PROVE  \/ UNCHANGED <<nmsg, req, runs, outcome, answers, answer>>
         \/ \E m \in Service!Pending, v \in Results : Service!Answer(m, v)
<1>. DEFINE m == got[s].mid
            v == got[s].result
<1>1. UNCHANGED <<nmsg, req, runs, outcome>>
  BY DEF Clear
<1>2. CASE m = 0
  BY <1>1, <1>2 DEF Clear
<1>3. CASE m # 0
  <2>1. InPlace(m, s, at[s]) /\ Answerable(m, v)
    BY <1>3 DEF IInv, Ledger, FetchesOK, FetchOK, Clear
  <2>2. v \in Results
    BY DEF IInv, TypeOK
  <2>3. answers' = [answers EXCEPT ![m] = 1] /\ answer' = [answer EXCEPT ![m] = v]
    BY <1>3, <2>1 DEF Clear, InPlace
  <2>4. {q \in 1 .. nmsg : Irregular(q)}' = {q \in 1 .. nmsg : Irregular(q)}
    BY <1>1 DEF Irregular
  <2>5. Service!Answer(m, v)
    BY <1>1, <2>1, <2>3, <2>4 DEF Service!Answer, InPlace, Answerable
  <2>. QED
    BY <2>1, <2>2, <2>5 DEF Service!Pending, InPlace
<1>. QED
  BY <1>2, <1>3

\* Every step is a step of the service or changes nothing of it.
LEMMA StepRefines == IInv /\ [Next]_vars => [Service!Next]_(Service!vars)
<1>. SUFFICES ASSUME IInv, [Next]_vars PROVE [Service!Next]_(Service!vars)
  OBVIOUS
<1>1. ASSUME UNCHANGED <<nmsg, req, runs, outcome, answers, answer>>
      PROVE  UNCHANGED Service!vars
  <2>1. {q \in 1 .. nmsg : Irregular(q)}' = {q \in 1 .. nmsg : Irregular(q)}
    BY <1>1 DEF Irregular
  <2>. QED
    BY <1>1, <2>1 DEF Service!vars
<1>2. ASSUME NEW s \in Slots, NEW k \in Kinds, NEW n \in 0 .. NDisps, Submit(s, k, n)
      PROVE  Service!Next
  BY <1>2, SubmitRefines DEF Service!Next
<1>3. ASSUME NEW r \in Outcomes, Call(r) PROVE Service!Next
  BY <1>3, CallRefines DEF Service!Next
<1>4. ASSUME NEW s \in Slots, Clear(s) PROVE [Service!Next]_(Service!vars)
  BY <1>1, <1>4, ClearRefines DEF Service!Next
<1>5. ASSUME \/ \E s \in Slots : \/ Connect(s) \/ ReaderEnds(s) \/ Login(s) \/ LoopTop(s)
                                \/ StatusClr(s) \/ Cmd(s) \/ Result(s) \/ Data(s)
                                \/ DataClr(s) \/ Exit(s) \/ Find(s)
             \/ DisconnectAll \/ InitDriver \/ PollOk \/ Poll("Fault")
             \/ ReadState \/ FlagData \/ Notify \/ UNCHANGED vars
      PROVE  UNCHANGED <<nmsg, req, runs, outcome, answers, answer>>
  BY <1>5 DEF Connect, ReaderEnds, Login, LoopTop, StatusClr, Cmd, Result, Data, DataClr, Exit,
              Find, DisconnectAll, InitDriver, PollOk, Poll, ReadState, FlagData, Notify,
              vars, ledger
<1>. QED
  BY <1>1, <1>2, <1>3, <1>4, <1>5 DEF Next, ClientThread, DeviceStep

\* However the four kinds of threads interleave over the slots, for any number of
\* clients and dispensers: a request is run by the driver at most once and answered at
\* most once, and unless it is excused the answer is what the driver returned for it.
THEOREM SlotsImplementService == Spec => ServiceSpec
<1>1. Spec => []IInv
  BY Invariance
<1>2. Init => Service!Init
  BY InitRefines
<1>3. IInv /\ [Next]_vars => [Service!Next]_(Service!vars)
  BY StepRefines
<1>. QED
  BY <1>1, <1>2, <1>3, PTL DEF Spec, ServiceSpec, Service!Spec

-----------------------------------------------------------------------------
(* No request is lost in silence.                                           *)

\* What is recorded of an accepted request is never rewritten.
LEMMA RequestStays ==
  ASSUME IInv, [Next]_vars, NEW m \in 1 .. nmsg
  PROVE  req'[m] = req[m]
<1>1. ASSUME NEW t \in Slots, NEW k \in Kinds, NEW n \in 0 .. NDisps, Submit(t, k, n)
      PROVE  req'[m] = req[m]
  BY <1>1, SubmitStores DEF IInv
<1>2. ASSUME NEW t \in Slots,
             Connect(t) \/ ReaderEnds(t) \/ Login(t) \/ ClientThread(t)
      PROVE  req' = req
  BY <1>2, ThreadStays DEF Connect, ReaderEnds, Login, Exit, ledger, IInv
<1>3. ASSUME DisconnectAll \/ PollOk \/ Poll("Fault") \/ DeviceStep \/ UNCHANGED vars
      PROVE  req' = req
  BY <1>3, ConnectionsFrame DEF DisconnectAll, ledger
<1>. QED
  BY <1>1, <1>2, <1>3 DEF Next

\* Once a request's connection has ended it stays ended.
LEMMA EndedStays ==
  ASSUME IInv, [Next]_vars, NEW m \in 1 .. nmsg, Ended(m)
  PROVE  Ended(m)'
<1>. DEFINE s == req[m].slot
<1>0. /\ m \in Msgs /\ req[m] \in Req /\ nsess \in Nat
      /\ state \in [Slots -> {"Free", "Active", "Destroying"}]
      /\ sess \in [Slots -> 0 .. MaxSess]
  BY LedgerTypes, SizesAssumption DEF IInv, TypeOK
<1>1. s \in Slots /\ req[m].sess \in Nat /\ req[m].sess <= nsess
  BY <1>0, SizesAssumption DEF Req, IInv, SessionIds
<1>2. req'[m] = req[m]
  BY RequestStays
<1>3. ASSUME NEW t \in Slots, Connect(t) PROVE Ended(m)'
  <2>1. sess' = [sess EXCEPT ![t] = nsess + 1] /\ state' = [state EXCEPT ![t] = "Active"]
    BY <1>3 DEF Connect
  <2>2. CASE t = s
    BY <1>0, <1>1, <1>2, <2>1, <2>2 DEF Ended
  <2>3. CASE t # s
    BY <1>0, <1>1, <1>2, <2>1, <2>3 DEF Ended
  <2>. QED
    BY <2>2, <2>3
<1>4. ASSUME NEW t \in Slots, Exit(t) PROVE Ended(m)'
  BY <1>0, <1>1, <1>2, <1>4 DEF Ended, Exit
<1>5. ASSUME NEW t \in Slots, ClientThread(t), ~Exit(t) PROVE Ended(m)'
  BY <1>2, <1>5, ThreadStays DEF Ended, IInv
<1>6. ASSUME NEW t \in Slots, Login(t) \/ ReaderEnds(t) PROVE Ended(m)'
  BY <1>2, <1>6 DEF Ended, Login, ReaderEnds, table
<1>7. ASSUME NEW t \in Slots, NEW k \in Kinds, NEW n \in 0 .. NDisps, Submit(t, k, n)
      PROVE  Ended(m)'
  BY <1>2, <1>7 DEF Ended, Submit
<1>8. CASE DisconnectAll
  BY <1>0, <1>1, <1>2, <1>8 DEF Ended, DisconnectAll
<1>9. CASE PollOk \/ Poll("Fault") \/ DeviceStep \/ UNCHANGED vars
  BY <1>2, <1>9, ConnectionsFrame DEF Ended
<1>. QED
  BY <1>2, <1>3, <1>4, <1>5, <1>6, <1>7, <1>8, <1>9 DEF Next

\* A request that is held and neither excused nor a Reset stays held, until it is
\* answered or its connection ends.
LEMMA HeldStays ==
  ASSUME IInv, [Next]_vars, NEW m \in 1 .. nmsg, Held(m), ~Irregular(m),
         req[m].kind # "Reset", ~Ended(m), answer'[m] = "none"
  PROVE  Held(m)' \/ Ended(m)'
<1>. PICK s \in Slots, d \in Disps : s = req[m].slot /\ d = req[m].disp
  <2>1. req[m] \in Req
    BY LedgerTypes DEF IInv
  <2>. QED
    BY <2>1 DEF Req
<1>0. /\ m # 0 /\ m \in Msgs /\ state[s] = "Active"
      /\ req'[m].slot = s /\ req'[m].disp = d
  BY RequestStays, LedgerTypes DEF Ended, IInv
<1>1. RecordOK(info[s][d], s, d)
  BY DEF IInv, Ledger, RecordsOK
<1>2. info[s][d].mid = m \/ (pc[s] = "clear" /\ got[s].mid = m)
  BY DEF Held
<1>3. ASSUME info'[s][d].mid = m \/ (pc'[s] = "clear" /\ got'[s].mid = m) PROVE Held(m)'
  BY <1>0, <1>3 DEF Held
<1>4. ASSUME info'[s][d].mid = info[s][d].mid, pc'[s] = pc[s], got'[s] = got[s]
      PROVE  Held(m)'
  BY <1>2, <1>3, <1>4
<1>5. ASSUME NEW t \in Slots, Connect(t) PROVE Held(m)'
  <2>1. t # s
    BY <1>0, <1>5 DEF Connect, FirstFree
  <2>. QED
    BY <1>4, <1>5, <2>1 DEF Connect, IInv, TypeOK
<1>6. ASSUME NEW t \in Slots, Exit(t) PROVE Held(m)' \/ Ended(m)'
  <2>1. CASE t = s
    BY <1>0, <1>6, <2>1 DEF Exit, Ended, IInv, TypeOK
  <2>2. CASE t # s
    BY <1>4, <1>6, <2>2 DEF Exit, IInv, TypeOK
  <2>. QED
    BY <2>1, <2>2
<1>7. ASSUME NEW t \in Slots, Clear(t) PROVE Held(m)'
  <2>1. /\ info' = [info EXCEPT ![t][at[t]] = NoCommand("Undefined")]
        /\ pc' = [pc EXCEPT ![t] = "data"]
        /\ got' = [got EXCEPT ![t] = Nothing]
        /\ pc[t] = "clear" /\ at[t] \in Disps
    BY <1>7, LedgerTypes DEF Clear, IInv
  <2>2. got[t].mid # m
    <3>. SUFFICES ASSUME got[t].mid = m PROVE FALSE
      OBVIOUS
    <3>1. answer' = [answer EXCEPT ![m] = got[t].result]
      BY <1>0, <1>7 DEF Clear
    <3>2. got[t].result \in Results /\ answer \in [Msgs -> Results \cup {"none"}]
      BY DEF IInv, TypeOK
    <3>. QED
      BY <1>0, <3>1, <3>2, OutcomesAssumption DEF Results
  <2>3. CASE t = s
    <3>1. info[s][d].mid = m
      BY <1>2, <2>2, <2>3
    <3>2. at[t] # d
      BY <1>0, <2>1, <2>2, <2>3, <3>1 DEF IInv, Ledger, FetchesOK, FetchOK
    <3>3. info'[s][d] = info[s][d]
      BY <2>1, <3>2 DEF IInv, TypeOK
    <3>. QED
      BY <1>3, <3>1, <3>3
  <2>4. CASE t # s
    BY <1>4, <2>1, <2>4 DEF IInv, TypeOK
  <2>. QED
    BY <2>3, <2>4
<1>8. ASSUME NEW t \in Slots, Result(t) PROVE Held(m)'
  <2>1. /\ info' = info /\ pc[t] = "result"
        /\ pc' = [pc EXCEPT ![t] = "clear"]
        /\ \E g : got' = [got EXCEPT ![t] = g]
    BY <1>8 DEF Result, table
  <2>2. CASE t = s
    BY <1>2, <1>3, <2>1, <2>2
  <2>3. CASE t # s
    BY <1>4, <2>1, <2>3 DEF IInv, TypeOK
  <2>. QED
    BY <2>2, <2>3
<1>9. ASSUME NEW t \in Slots,
             LoopTop(t) \/ StatusClr(t) \/ Cmd(t) \/ Data(t) \/ DataClr(t)
      PROVE  Held(m)'
  <2>1. info' = info /\ got' = got /\ pc[t] # "clear"
    BY <1>9 DEF LoopTop, StatusClr, Cmd, Data, DataClr, table
  <2>2. \E p : pc' = [pc EXCEPT ![t] = p]
    BY <1>9 DEF LoopTop, StatusClr, Cmd, Data, DataClr, Advance
  <2>3. CASE t = s
    BY <1>2, <1>3, <2>1, <2>3
  <2>4. CASE t # s
    BY <1>4, <2>1, <2>2, <2>4 DEF IInv, TypeOK
  <2>. QED
    BY <2>3, <2>4
<1>10. ASSUME NEW t \in Slots, NEW k \in Kinds, NEW n \in 0 .. NDisps, Submit(t, k, n)
       PROVE  Held(m)'
  <2>0. PICK e \in Disps, q \in Msgs :
          /\ info[t][e].command \in {"None", "Reset"}
          /\ Stores(t, e, [command |-> k, st |-> "New", mid |-> q, result |-> "Undefined"])
          /\ UNCHANGED <<pc, got>>
    BY <1>10, SubmitStores DEF IInv
  <2>1. /\ info[t][e].command \in {"None", "Reset"}
        /\ \A u \in Slots, f \in Disps : u # t \/ f # e => info'[u][f] = info[u][f]
        /\ UNCHANGED <<pc, got>>
    BY <2>0 DEF Stores
  <2>2. CASE t = s /\ e = d
    <3>1. info[s][d].mid # m
      BY <1>0, <1>1, <2>1, <2>2 DEF RecordOK
    <3>. QED
      BY <1>2, <1>3, <2>1, <3>1
  <2>3. CASE ~(t = s /\ e = d)
    BY <1>4, <2>1, <2>3
  <2>. QED
    BY <2>2, <2>3
<1>11. ASSUME NEW t \in Slots, Find(t) PROVE Held(m)'
  <2>1. dd \in Disps /\ info[t][dd] \in Info /\ Stores(t, dd, [info[t][dd] EXCEPT !.st = "Run"])
    BY <1>11, FindStores, LedgerTypes DEF IInv
  <2>2. info'[s][d].mid = info[s][d].mid
    BY <2>1 DEF Stores, Info
  <2>. QED
    BY <1>4, <1>11, <2>2 DEF Find, client
<1>12. ASSUME NEW r \in Outcomes, Call(r) PROVE Held(m)'
  <2>1. PICK t \in Slots : t = job.slot
    BY LedgerTypes DEF IInv
  <2>2. dd \in Disps /\ info[t][dd] \in Info
    BY LedgerTypes DEF IInv
  <2>3. IF dd < infoCount[t]
        THEN Stores(t, dd, [info[t][dd] EXCEPT !.result = r, !.st = "Complete"])
        ELSE info' = info
    BY <1>12, <2>1, CallStores DEF IInv
  <2>4. info'[s][d].mid = info[s][d].mid
    BY <2>2, <2>3 DEF Stores, Info
  <2>. QED
    BY <1>4, <1>12, <2>4 DEF Call, client
<1>13. ASSUME \/ \E t \in Slots : ReaderEnds(t) \/ Login(t)
              \/ DisconnectAll \/ InitDriver \/ PollOk \/ Poll("Fault")
              \/ ReadState \/ FlagData \/ Notify \/ UNCHANGED vars
       PROVE  Held(m)'
  <2>1. UNCHANGED <<info, pc, got>>
    BY <1>13 DEF ReaderEnds, Login, DisconnectAll, InitDriver, PollOk, Poll, ReadState, FlagData,
                 Notify, vars, table, client
  <2>. QED
    BY <1>4, <2>1
<1>. QED
  BY <1>5, <1>6, <1>7, <1>8, <1>9, <1>10, <1>11, <1>12, <1>13
     DEF Next, ClientThread, DeviceStep

\* A request that has just been accepted is in its slot.
LEMMA NewcomerHeld ==
  ASSUME IInv, NEW s \in Slots, NEW k \in Kinds, NEW n \in 0 .. NDisps, Submit(s, k, n)
  PROVE  nmsg' = nmsg + 1 /\ Held(nmsg)'
<1>1. PICK d \in Disps, m \in Msgs :
        /\ m = nmsg + 1 /\ nmsg' = m
        /\ Stores(s, d, [command |-> k, st |-> "New", mid |-> m, result |-> "Undefined"])
        /\ req'[m] = [slot |-> s, sess |-> sess[s], disp |-> d, kind |-> k,
                      over |-> info[s][d].command = "Reset",
                      heir |-> /\ info[s][d].command = "None"
                               /\ Running(s, d) \/ info[s][d].st = "Complete"]
  BY SubmitStores DEF IInv
<1>. QED
  BY <1>1 DEF Held, Stores

\* Only Submit accepts, and an answer is not taken back.
LEMMA AnswerStays ==
  ASSUME IInv, [Next]_vars
  PROVE  /\ \/ nmsg' = nmsg
            \/ \E s \in Slots, k \in Kinds, n \in 0 .. NDisps : Submit(s, k, n)
         /\ \A m \in 1 .. nmsg : answer'[m] = "none" => answer[m] = "none"
<1>1. ASSUME NEW s \in Slots, Clear(s), NEW m \in 1 .. nmsg, answer'[m] = "none"
      PROVE  answer[m] = "none"
  <2>1. CASE got[s].mid = m
    <3>1. answer' = [answer EXCEPT ![m] = got[s].result]
      BY <1>1, <2>1 DEF Clear
    <3>2. got[s].result \in Results /\ answer \in [Msgs -> Results \cup {"none"}] /\ m \in Msgs
      BY LedgerTypes DEF IInv, TypeOK
    <3>. QED
      BY <1>1, <3>1, <3>2, OutcomesAssumption DEF Results
  <2>2. CASE got[s].mid # m
    <3>1. \/ answer' = answer
          \/ answer' = [answer EXCEPT ![got[s].mid] = got[s].result]
      BY <1>1 DEF Clear
    <3>2. answer \in [Msgs -> Results \cup {"none"}] /\ m \in Msgs
      BY LedgerTypes DEF IInv, TypeOK
    <3>. QED
      BY <1>1, <2>2, <3>1, <3>2
  <2>. QED
    BY <2>1, <2>2
<1>2. ASSUME NEW s \in Slots, Clear(s) PROVE nmsg' = nmsg
  BY <1>2 DEF Clear
<1>3. ASSUME \/ \E s \in Slots : \/ Connect(s) \/ ReaderEnds(s) \/ Login(s) \/ LoopTop(s)
                                \/ StatusClr(s) \/ Cmd(s) \/ Result(s) \/ Data(s)
                                \/ DataClr(s) \/ Exit(s)
             \/ DisconnectAll \/ PollOk \/ Poll("Fault") \/ DeviceStep \/ UNCHANGED vars
      PROVE  UNCHANGED <<nmsg, answer>>
  BY <1>3, ConnectionsFrame DEF Connect, ReaderEnds, Login, LoopTop, StatusClr, Cmd, Result,
              Data, DataClr, Exit, DisconnectAll, ledger
<1>4. ASSUME NEW s \in Slots, NEW k \in Kinds, NEW n \in 0 .. NDisps, Submit(s, k, n)
      PROVE  answer' = answer
  BY <1>4 DEF Submit
<1>. QED
  BY <1>1, <1>2, <1>3, <1>4 DEF Next, ClientThread

\* Every step keeps NoSilentLoss.
LEMMA StepNoSilentLoss == IInv /\ NoSilentLoss /\ [Next]_vars => NoSilentLoss'
<1>. SUFFICES ASSUME IInv, NoSilentLoss, [Next]_vars, NEW m \in 1 .. nmsg', answer'[m] = "none"
              PROVE  \/ Held(m)' \/ Ended(m)' \/ Irregular(m)' \/ req'[m].kind = "Reset"
  BY DEF NoSilentLoss
<1>1. CASE m \in 1 .. nmsg
  <2>1. answer[m] = "none" /\ req'[m] = req[m]
    BY <1>1, AnswerStays, RequestStays
  <2>2. Held(m) \/ Ended(m) \/ Irregular(m) \/ req[m].kind = "Reset"
    BY <1>1, <2>1 DEF NoSilentLoss
  <2>. QED
    BY <1>1, <2>1, <2>2, HeldStays, EndedStays DEF Irregular
<1>2. CASE m \notin 1 .. nmsg
  <2>1. nmsg' # nmsg
    BY <1>2
  <2>2. PICK s \in Slots, k \in Kinds, n \in 0 .. NDisps : Submit(s, k, n)
    BY <2>1, AnswerStays
  <2>3. m = nmsg'
    BY <1>2, <2>2, NewcomerHeld, LedgerTypes DEF IInv
  <2>. QED
    BY <2>2, <2>3, NewcomerHeld
<1>. QED
  BY <1>1, <1>2

\* An accepted request is in its slot or in the client thread's hands until it is
\* answered or its connection ends; only a Reset and an excused request can be
\* dropped by set_dc_client_command or clear_dc_client_command.
THEOREM NothingLostInSilence == Spec => []NoSilentLoss
<1>1. Init => NoSilentLoss
  BY DEF Init, NoSilentLoss
<1>. QED
  BY <1>1, StepNoSilentLoss, Invariance, PTL DEF Spec
=============================================================================
