------------------------------ MODULE DcService ------------------------------
(***************************************************************************)
(* What the command slots of DcCommands promise to the clients, without    *)
(* slots, threads or connections: a request that was accepted is given to  *)
(* the driver at most once and answered at most once, and the answer is    *)
(* what the driver returned for that request.                              *)
(*                                                                         *)
(* The code keeps the last part only for a request that took a settled     *)
(* slot; the others are excused, from the moment they are accepted.        *)
(***************************************************************************)
EXTENDS Naturals

CONSTANTS MaxMsg,    \* bound: requests accepted
          Results    \* what a client may be told

VARIABLES accepted,  \* the number of requests accepted
          excused,   \* the requests whose answer may be somebody else's
          ran,       \* [1 .. MaxMsg -> times the driver ran the request]
          outcome,   \* [1 .. MaxMsg -> what the driver returned]
          told,      \* [1 .. MaxMsg -> times the client was answered]
          answer     \* [1 .. MaxMsg -> what the client was answered]

vars == <<accepted, excused, ran, outcome, told, answer>>

Requests == 1 .. MaxMsg
Pending == 1 .. accepted

Init == /\ accepted = 0
        /\ excused = {}
        /\ ran = [m \in Requests |-> 0] /\ outcome = [m \in Requests |-> "none"]
        /\ told = [m \in Requests |-> 0] /\ answer = [m \in Requests |-> "none"]

Accept(settled) ==
    /\ accepted < MaxMsg
    /\ accepted' = accepted + 1
    /\ excused' = IF settled THEN excused ELSE excused \cup {accepted + 1}
    /\ UNCHANGED <<ran, outcome, told, answer>>

Run(m, r) ==
    /\ ran[m] = 0
    /\ ran' = [ran EXCEPT ![m] = 1]
    /\ outcome' = [outcome EXCEPT ![m] = r]
    /\ UNCHANGED <<accepted, excused, told, answer>>

Answer(m, r) ==
    /\ told[m] = 0
    /\ m \in excused \/ (ran[m] = 1 /\ r = outcome[m])
    /\ told' = [told EXCEPT ![m] = 1]
    /\ answer' = [answer EXCEPT ![m] = r]
    /\ UNCHANGED <<accepted, excused, ran, outcome>>

Next == \/ \E settled \in BOOLEAN : Accept(settled)
        \/ \E m \in Pending, r \in Results : Run(m, r) \/ Answer(m, r)

Spec == Init /\ [][Next]_vars
=============================================================================
