--------------------------- MODULE MCDeviceLinks ---------------------------
(***************************************************************************)
(* The devices looked at.  Two slots and two peers; a frame under way on a *)
(* link.  Every kind has a device with another program that asks for       *)
(* everything, and one or two with links of pss.                           *)
(***************************************************************************)
EXTENDS DeviceLinks

TankLinks == [kind |-> "tgs", units |-> 1, pss |-> {1, 2}, others |-> {},
              filtering |-> {FALSE}, moves |-> 1, cuts |-> 0, asks |-> 0, prices |-> {}]
TankPrograms == [TankLinks EXCEPT !.units = 2, !.pss = {}, !.others = {1}]

SensorLink == [kind |-> "sc", units |-> 1, pss |-> {1}, others |-> {},
               filtering |-> {FALSE}, moves |-> 2, cuts |-> 1, asks |-> 0, prices |-> {}]
SensorLinks == [SensorLink EXCEPT !.pss = {1, 2}, !.moves = 1, !.cuts = 0]
SensorPrograms == [SensorLink EXCEPT !.units = 2, !.pss = {}, !.others = {1},
                                     !.filtering = BOOLEAN, !.moves = 1, !.cuts = 0]

\* Two poles and one request; one pole and two requests, of a link or a program that may break off.
PolesLink == [kind |-> "ppc", units |-> 2, pss |-> {1}, others |-> {},
              filtering |-> {FALSE}, moves |-> 0, cuts |-> 0, asks |-> 1, prices |-> {}]
PoleLink == [PolesLink EXCEPT !.units = 1, !.asks = 2]
BrokenPoleLink == [PolesLink EXCEPT !.units = 1, !.cuts = 1]
PolePrograms == [PoleLink EXCEPT !.pss = {}, !.others = {1}, !.cuts = 1, !.prices = {1}]

TankDevices == {TankPrograms}
Devices == {TankLinks, TankPrograms, SensorLink, SensorLinks, SensorPrograms,
            PolesLink, PoleLink, BrokenPoleLink, PolePrograms}
=============================================================================
