---------------------------- MODULE MCDcSessions ----------------------------
(***************************************************************************)
(* The instance of DcSessions for TLC.  The last peer connects only while  *)
(* the others are served and have taken all slots, and is turned away      *)
(* before anything else happens.                                           *)
(***************************************************************************)
EXTENDS DcSessions

Last == NConns
LastKnocks == peer[Last] = "away" /\ peer'[Last] = "waiting"
LastIsIn == peer[Last] = "waiting" \/ \E i \in Controllers : apc[i] = "find" /\ aconn[i] = Last

LastIsTurnedAway ==
  /\ LastKnocks => /\ \A c \in Conns \ {Last} : thr[c] = "loop" /\ rd[c] = "run" /\ c \notin mixed
                   /\ \A s \in Slots : state[s] # "Free"
                   /\ apc[target'[Last]] = "accept" /\ lsock[target'[Last]] = "open"
  /\ LastIsIn => peer'[Last] # peer[Last]

LateFairSpec == Init /\ [][Next /\ LastIsTurnedAway]_vars /\ Fairness
=============================================================================
