--------------------------- MODULE MCPssForecourt ---------------------------
(* PssForecourt for TLC: the plans whose behaviours are explored.            *)
EXTENDS PssForecourt

CONSTANTS c1, c2

Plan(links, askers, kinds, requests, lifts, sales, timeouts, drops, sup) ==
    [links |-> links, askers |-> askers, kinds |-> kinds, requests |-> requests, lifts |-> lifts,
     sales |-> sales, timeouts |-> timeouts, drops |-> drops, stored |-> sup]

\* Presets and resets with two fills and a time-out, clears of old sales, the
\* emergency stops, a point that is opened while the link works on it, a link
\* that is lost, two links, and two points of sale.
MCPlans == { Plan({c1}, {c1}, {"authorize", "reset"}, 2, 2, 2, 1, 0, 0),
             Plan({c1}, {c1}, {"clear", "reset"}, 2, 1, 1, 0, 0, 3),
             Plan({c1}, {c1}, {"authorize", "open", "cancel"}, 2, 2, 2, 1, 0, 3),
             Plan({c1}, {c1}, {"authorize", "estop", "cancel", "close"}, 3, 1, 1, 0, 0, 0),
             Plan({c1}, {c1}, {"authorize", "reset"}, 2, 2, 1, 0, 1, 0),
             Plan({c1, c2}, {c1}, {"authorize"}, 1, 1, 1, 0, 0, 0),
             Plan({c1}, {c1, c2}, {"open", "authorize"}, 2, 1, 1, 1, 0, 0) }
=============================================================================
