------------------------- MODULE PssForecourtStates -------------------------
(***************************************************************************)
(* The states of the points that pss holds agree with the dispensers once  *)
(* everything has arrived, for any number of points of sale, points,       *)
(* requests and fills.  What is known of a point is followed along its     *)
(* link, from the record by the frames under way to the dispenser.  It     *)
(* rests on the invariants of PssForecourtProofs.                          *)
(***************************************************************************)
EXTENDS PssForecourtProofs

\* A fill as it is seen by a message, a record or the dispenser: what it shows of the fill that
\* comes next or is under way.
Late == {"Filling", "Finish"}
Phase(state, free) ==
    IF state \in Late THEN state ELSE IF state = "Free" /\ free THEN "Free" ELSE "Ready"
Stage(main) ==
    IF main = "Fuelling" THEN "Filling" ELSE IF main = "Unavailable" THEN "Finish"
    ELSE IF main = "Starting" THEN "Ready" ELSE "Free"

Shown(m, f) == IF Of(m, f) THEN Phase(m.state, m.order = "free") ELSE "none"
Shows(p) == Phase(p.state, p.dose = 0)

\* From the record that pss holds of point f, by the frames q on the link, to the dispenser p.
Line(main, q, p, f) ==
    [i \in 0 .. Len(q) + 1 |->
        IF i = 0 THEN Stage(main)
        ELSE IF i = Len(q) + 1 THEN Shows(p)
        ELSE Shown(q[i], f)]

\* A fill is started only behind the point that is ready for it, and ends by Free.
InOrder(x, n) ==
    \A i, j \in 0 .. n : i < j =>
        /\ x[i] = "Free" => x[j] \notin Late
        /\ x[i] = "Finish" => x[j] # "Filling"
        /\ x[i] = "Ready" /\ x[j] = "Finish" => \E k \in 0 .. n : i < k /\ k < j /\ x[k] = "Filling"
        /\ x[i] \in Late /\ x[j] = "Ready" => \E k \in 0 .. n : i < k /\ k < j /\ x[k] = "Free"

Is(m, code, f) == m.code = code /\ m.f = f
OkDose(m, f) == m.kind = "reply" /\ m.code = "SetDose" /\ m.f = f /\ m.ok

\* A dose is on its way only to a dispenser that has ended its fill, and pss knows it.
DoseIn(x, n, u, f) ==
    \A j \in 1 .. Len(u) : Is(u[j], "SetDose", f) => \A i \in 0 .. n : x[i] \notin Late

\* The i-th order of u, Start, does nothing, or it starts what all are ready for.
Dead(u, p, f, i) ==
    /\ \A j \in 1 .. i - 1 : ~Is(u[j], "SetDose", f)
    /\ p.dose = 0 \/ p.state \in Late
Goes(x, n, u, p, f, i) ==
    /\ \A k \in 0 .. n : x[k] \in {"Ready", "none"}
    /\ p.dose > 0
    /\ \A j \in i + 1 .. Len(u) : ~Is(u[j], "SetDose", f)
Starts(x, n, u, p, f) ==
    \A i \in 1 .. Len(u) : Is(u[i], "Start", f) => Dead(u, p, f, i) \/ Goes(x, n, u, p, f, i)

\* Behind the answer that a dose was taken the dispenser keeps it, until the fill ends.
Granted(x, n, q, p, f) ==
    \A r \in 1 .. Len(q) : OkDose(q[r], f) =>
        IF p.dose > 0 THEN \A i \in r + 1 .. n : x[i] # "Free" ELSE p.state = "Finish"

Link(main, q, p, u, f) ==
    LET x == Line(main, q, p, f)
        n == Len(q) + 1
    IN  InOrder(x, n) /\ DoseIn(x, n, u, f) /\ Starts(x, n, u, p, f) /\ Granted(x, n, q, p, f)

LEMMA LineIs ==
  ASSUME NEW main, NEW q \in Seq(Frame), NEW p, NEW f
  PROVE  /\ Len(q) \in Nat
         /\ Line(main, q, p, f)[0] = Stage(main)
         /\ Line(main, q, p, f)[Len(q) + 1] = Shows(p)
<1>1. Len(q) \in Nat
  OBVIOUS
<1> PICK n : n = Len(q)
  OBVIOUS
<1>2. 0 \in 0 .. n + 1 /\ n + 1 \in 0 .. n + 1 /\ n + 1 # 0
  BY <1>1
<1> QED
  BY <1>1, <1>2 DEF Line

LEMMA LineAt ==
  ASSUME NEW main, NEW q \in Seq(Frame), NEW p, NEW f, NEW i \in 1 .. Len(q)
  PROVE  Line(main, q, p, f)[i] = Shown(q[i], f)
<1>1. i \in 0 .. Len(q) + 1 /\ i # 0 /\ i # Len(q) + 1
  OBVIOUS
<1> QED
  BY <1>1 DEF Line

LEMMA LinesSame ==
  ASSUME NEW main, NEW new, Stage(new) = Stage(main), NEW q, NEW p, NEW f
  PROVE  Line(new, q, p, f) = Line(main, q, p, f)
  BY DEF Line

LEMMA LinkSame ==
  ASSUME NEW main, NEW new, Stage(new) = Stage(main), NEW q, NEW p, NEW u, NEW f, Link(main, q, p, u, f)
  PROVE  Link(new, q, p, u, f)
  BY LinesSame DEF Link

-----------------------------------------------------------------------------
(* The order of what is seen of a fill.                                    *)

\* The record takes over what the first frame shows, or keeps what it was.
LEMMA OrderTaken ==
  ASSUME NEW n \in Nat \ {0}, NEW x, NEW y, InOrder(x, n), \A i \in 1 .. n - 1 : y[i] = x[i + 1],
         y[0] = x[1] \/ (y[0] = x[0] /\ (x[1] = "none" \/ x[0] = "Free"))
  PROVE  InOrder(y, n - 1)
<1> SUFFICES ASSUME NEW i \in 0 .. n - 1, NEW j \in 0 .. n - 1, i < j
             PROVE  /\ y[i] = "Free" => y[j] \notin Late
                    /\ y[i] = "Finish" => y[j] # "Filling"
                    /\ y[i] = "Ready" /\ y[j] = "Finish" =>
                         \E k \in 0 .. n - 1 : i < k /\ k < j /\ y[k] = "Filling"
                    /\ y[i] \in Late /\ y[j] = "Ready" =>
                         \E k \in 0 .. n - 1 : i < k /\ k < j /\ y[k] = "Free"
  BY DEF InOrder
<1>1. y[j] = x[j + 1] /\ j + 1 \in 0 .. n
  OBVIOUS
<1>2. CASE y[i] = x[i + 1]
  <2> PICK a, b : a = i + 1 /\ b = j + 1
    OBVIOUS
  <2>1. /\ a \in 0 .. n /\ b \in 0 .. n /\ a < b /\ y[i] = x[a] /\ y[j] = x[b]
    BY <1>1, <1>2
  <2>2. \A k \in 0 .. n : a < k /\ k < b => k - 1 \in 0 .. n - 1 /\ i < k - 1 /\ k - 1 < j /\ y[k - 1] = x[k]
    <3> TAKE k \in 0 .. n
    <3> HAVE a < k /\ k < b
    <3>1. k - 1 \in 1 .. n - 1 /\ i < k - 1 /\ k - 1 < j
      OBVIOUS
    <3>2. y[k - 1] = x[(k - 1) + 1] /\ (k - 1) + 1 = k
      BY <3>1
    <3> QED
      BY <3>1, <3>2
  <2>3. /\ x[a] = "Free" => x[b] \notin Late
        /\ x[a] = "Finish" => x[b] # "Filling"
        /\ x[a] = "Ready" /\ x[b] = "Finish" => \E k \in 0 .. n : a < k /\ k < b /\ x[k] = "Filling"
        /\ x[a] \in Late /\ x[b] = "Ready" => \E k \in 0 .. n : a < k /\ k < b /\ x[k] = "Free"
    BY <2>1 DEF InOrder
  <2> QED
    BY <2>1, <2>2, <2>3
<1>3. CASE y[i] # x[i + 1]
  <2>1. i = 0 /\ y[0] = x[0] /\ (x[1] = "none" \/ x[0] = "Free")
    BY <1>3
  <2> PICK b : b = j + 1
    OBVIOUS
  <2>2. 0 \in 0 .. n /\ b \in 0 .. n /\ 0 < b /\ y[j] = x[b]
    BY <1>1
  <2>3. CASE x[0] = "Free"
    BY <2>1, <2>2, <2>3 DEF InOrder, Late
  <2>4. CASE x[1] = "none"
    <3>1. \A k \in 0 .. n : 0 < k /\ k < b /\ x[k] # "none" => k - 1 \in 0 .. n - 1 /\ 0 < k - 1 /\ k - 1 < j /\ y[k - 1] = x[k]
      <4> TAKE k \in 0 .. n
      <4> HAVE 0 < k /\ k < b /\ x[k] # "none"
      <4>1. k # 1
        BY <2>4
      <4>2. k - 1 \in 1 .. n - 1 /\ 0 < k - 1 /\ k - 1 < j
        BY <4>1
      <4>3. y[k - 1] = x[(k - 1) + 1] /\ (k - 1) + 1 = k
        BY <4>2
      <4> QED
        BY <4>2, <4>3
    <3> QED
      BY <2>1, <2>2, <3>1 DEF InOrder
  <2> QED
    BY <2>1, <2>3, <2>4
<1> QED
  BY <1>2, <1>3

\* A frame comes last: it shows the dispenser, or nothing of it.
LEMMA OrderAdded ==
  ASSUME NEW n \in Nat, NEW x, NEW y, InOrder(x, n), \A i \in 0 .. n - 1 : y[i] = x[i],
         y[n] \in {x[n], "none"}, y[n + 1] = x[n]
  PROVE  InOrder(y, n + 1)
<1> SUFFICES ASSUME NEW i \in 0 .. n + 1, NEW j \in 0 .. n + 1, i < j
             PROVE  /\ y[i] = "Free" => y[j] \notin Late
                    /\ y[i] = "Finish" => y[j] # "Filling"
                    /\ y[i] = "Ready" /\ y[j] = "Finish" =>
                         \E k \in 0 .. n + 1 : i < k /\ k < j /\ y[k] = "Filling"
                    /\ y[i] \in Late /\ y[j] = "Ready" =>
                         \E k \in 0 .. n + 1 : i < k /\ k < j /\ y[k] = "Free"
  BY DEF InOrder
<1>1. CASE i = n
  <2>1. j = n + 1
    BY <1>1
  <2> QED
    BY <1>1, <2>1 DEF Late
<1>2. CASE i < n
  <2> PICK b : b = IF j = n + 1 THEN n ELSE j
    OBVIOUS
  <2>1. i \in 0 .. n /\ b \in 0 .. n /\ i < b /\ y[i] = x[i] /\ b <= j /\ y[j] \in {x[b], "none"}
    BY <1>2
  <2>2. \A k \in 0 .. n : i < k /\ k < b => k \in 0 .. n + 1 /\ k < j /\ y[k] = x[k]
    BY <2>1
  <2> QED
    BY <2>1, <2>2 DEF InOrder, Late
<1> QED
  BY <1>1, <1>2

\* The dispenser changes.
Turned(x, y, n) ==
    /\ \A i \in 0 .. n - 1 : y[i] = x[i]
    /\ y[n] \in Late => \A i \in 0 .. n - 1 : x[i] # "Free"
    /\ y[n] = "Filling" => \A i \in 0 .. n - 1 : x[i] # "Finish"
    /\ y[n] = "Finish" => \A i \in 0 .. n - 1 : x[i] = "Ready" =>
                              \E k \in 0 .. n - 1 : i < k /\ x[k] = "Filling"
    /\ y[n] = "Ready" => \A i \in 0 .. n - 1 : x[i] \in Late =>
                              \E k \in 0 .. n - 1 : i < k /\ x[k] = "Free"

LEMMA OrderTurned ==
  ASSUME NEW n \in Nat, NEW x, NEW y, InOrder(x, n), Turned(x, y, n)
  PROVE  InOrder(y, n)
<1>0. /\ \A i \in 0 .. n - 1 : y[i] = x[i]
      /\ y[n] \in Late => \A i \in 0 .. n - 1 : x[i] # "Free"
      /\ y[n] = "Filling" => \A i \in 0 .. n - 1 : x[i] # "Finish"
      /\ y[n] = "Finish" => \A i \in 0 .. n - 1 : x[i] = "Ready" =>
                              \E k \in 0 .. n - 1 : i < k /\ x[k] = "Filling"
      /\ y[n] = "Ready" => \A i \in 0 .. n - 1 : x[i] \in Late =>
                              \E k \in 0 .. n - 1 : i < k /\ x[k] = "Free"
  BY DEF Turned
<1> SUFFICES ASSUME NEW i \in 0 .. n, NEW j \in 0 .. n, i < j
             PROVE  /\ y[i] = "Free" => y[j] \notin Late
                    /\ y[i] = "Finish" => y[j] # "Filling"
                    /\ y[i] = "Ready" /\ y[j] = "Finish" =>
                         \E k \in 0 .. n : i < k /\ k < j /\ y[k] = "Filling"
                    /\ y[i] \in Late /\ y[j] = "Ready" =>
                         \E k \in 0 .. n : i < k /\ k < j /\ y[k] = "Free"
  BY DEF InOrder
<1>1. i \in 0 .. n - 1 /\ y[i] = x[i]
  BY <1>0
<1>2. CASE j = n
  <2>1. \A k \in 0 .. n - 1 : k \in 0 .. n /\ k < j /\ y[k] = x[k]
    BY <1>0, <1>2
  <2> QED
    BY <1>0, <1>1, <1>2, <2>1 DEF Late
<1>3. CASE j # n
  <2>1. y[j] = x[j] /\ \A k \in 0 .. n : k < j => y[k] = x[k]
    BY <1>0, <1>3
  <2> QED
    BY <1>1, <2>1 DEF InOrder
<1> QED
  BY <1>2, <1>3

\* The record is ready for the fill.
LEMMA OrderRaised ==
  ASSUME NEW n \in Nat, NEW x, NEW y, InOrder(x, n), \A i \in 1 .. n : y[i] = x[i],
         x[0] = "Free", y[0] = "Ready"
  PROVE  InOrder(y, n)
<1> SUFFICES ASSUME NEW i \in 0 .. n, NEW j \in 0 .. n, i < j
             PROVE  /\ y[i] = "Free" => y[j] \notin Late
                    /\ y[i] = "Finish" => y[j] # "Filling"
                    /\ y[i] = "Ready" /\ y[j] = "Finish" =>
                         \E k \in 0 .. n : i < k /\ k < j /\ y[k] = "Filling"
                    /\ y[i] \in Late /\ y[j] = "Ready" =>
                         \E k \in 0 .. n : i < k /\ k < j /\ y[k] = "Free"
  BY DEF InOrder
<1>1. y[j] = x[j] /\ 0 \in 0 .. n /\ 0 < j /\ \A k \in 0 .. n : i < k => y[k] = x[k]
  OBVIOUS
<1>2. x[j] \notin Late
  BY <1>1 DEF InOrder
<1>3. i # 0 => y[i] = x[i]
  OBVIOUS
<1>4. y[i] \in Late => i # 0
  BY DEF Late
<1> QED
  BY <1>1, <1>2, <1>3, <1>4 DEF InOrder, Late

-----------------------------------------------------------------------------
(* What becomes of the line.                                               *)

\* The dose that is set or not, and the messages about other points, change no phase.
LEMMA PhaseIs ==
  ASSUME NEW p, p.dose > 0
  PROVE  p.dose # 0 /\ (p.state \notin Late => Shows(p) = "Ready")
<1>1. p.dose # 0
  OBVIOUS
<1> QED
  BY <1>1 DEF Phase, Shows

LEMMA PhasesAre ==
  ASSUME NEW state, NEW free \in BOOLEAN
  PROVE  /\ Phase(state, free) \in {"Filling", "Finish", "Free", "Ready"}
         /\ Phase(state, free) = "Free" <=> state = "Free" /\ free
         /\ Phase(state, free) \in Late <=> state \in Late
         /\ state \in Late => Phase(state, free) = state
  BY DEF Phase, Late

LEMMA ShownIs ==
  ASSUME NEW q \in Seq(Frame), NEW i \in 1 .. Len(q), NEW f
  PROVE  Shown(q[i], f) \in {"Filling", "Finish", "Free", "Ready", "none"}
  BY DEF Shown, Phase, Late

LEMMA ShowsIs ==
  ASSUME NEW p
  PROVE  /\ Shows(p) \in {"Filling", "Finish", "Free", "Ready"}
         /\ p.state \in Late => Shows(p) = p.state
         /\ p.state \notin Late => Shows(p) = IF p.state = "Free" /\ p.dose = 0 THEN "Free" ELSE "Ready"
  BY DEF Shows, Phase, Late

LEMMA LinkRaised ==
  ASSUME NEW main, NEW q \in Seq(Frame), NEW p, NEW u \in Seq(Message), NEW f, Link(main, q, p, u, f),
         Stage(main) = "Free", p.dose = 0 \/ p.dose > 0,
         p.dose > 0 => \A i \in 1 .. Len(q) + 1 : Line(main, q, p, f)[i] # "Free",
         p.dose = 0 => \A j \in 1 .. Len(u) : ~Is(u[j], "SetDose", f),
         NEW m \in Message, m.code = "Start", NEW v \in {u, Append(u, m)}
  PROVE  Link("Starting", q, p, v, f)
<1> PICK x, y, n : x = Line(main, q, p, f) /\ y = Line("Starting", q, p, f) /\ n = Len(q) + 1
  OBVIOUS
<1>1. n \in Nat \ {0} /\ x[0] = "Free" /\ y[0] = "Ready" /\ \A i \in 1 .. n : y[i] = x[i]
  <2>1. Stage("Starting") = "Ready"
    BY DEF Stage
  <2>2. n \in Nat \ {0} /\ x[0] = "Free"
    BY LineIs
  <2>3. y[0] = "Ready"
    BY <2>1, LineIs
  <2>4. ASSUME NEW i \in 1 .. n PROVE y[i] = x[i]
    BY DEF Line
  <2> QED
    BY <2>2, <2>3, <2>4
<1>2. InOrder(x, n) /\ DoseIn(x, n, u, f) /\ Starts(x, n, u, p, f) /\ Granted(x, n, q, p, f)
  BY DEF Link
<1>3. InOrder(y, n)
  BY <1>1, <1>2, OrderRaised
<1>4. \A i \in 0 .. n : y[i] \in Late => x[i] \in Late
  BY <1>1 DEF Late
<1>5. \A j \in 1 .. Len(v) : (j \in 1 .. Len(u) /\ v[j] = u[j]) \/ (j = Len(u) + 1 /\ v[j] = m)
  OBVIOUS
<1>6. DoseIn(y, n, v, f)
  <2>1. ASSUME NEW j \in 1 .. Len(v), Is(v[j], "SetDose", f) PROVE j \in 1 .. Len(u) /\ v[j] = u[j]
    BY <1>5, <2>1 DEF Is
  <2> QED
    BY <1>2, <1>4, <2>1 DEF DoseIn
<1>7. \A i \in 1 .. n : x[i] \notin Late /\ x[i] \in {"Filling", "Finish", "Free", "Ready", "none"}
  <2>1. ASSUME NEW i \in 1 .. n PROVE x[i] \notin Late
    BY <1>1, <1>2, <2>1 DEF InOrder
  <2>2. ASSUME NEW i \in 1 .. n PROVE x[i] \in {"Filling", "Finish", "Free", "Ready", "none"}
    <3>1. CASE i = n
      BY <3>1, LineIs, ShowsIs
    <3>2. CASE i \in 1 .. Len(q)
      <4>1. x[i] = Shown(q[i], f)
        BY <3>2, LineAt
      <4>2. Shown(q[i], f) \in {"Filling", "Finish", "Free", "Ready", "none"}
        BY <3>2, ShownIs
      <4> QED
        BY <4>1, <4>2
    <3> QED
      BY LineIs, <3>1, <3>2
  <2> QED
    BY <2>1, <2>2
<1>8. Starts(y, n, v, p, f)
  <2> SUFFICES ASSUME NEW i \in 1 .. Len(v), Is(v[i], "Start", f)
               PROVE  Dead(v, p, f, i) \/ Goes(y, n, v, p, f, i)
    BY DEF Starts
  <2>1. CASE i \in 1 .. Len(u)
    <3>1. Dead(u, p, f, i) \/ Goes(x, n, u, p, f, i)
      BY <1>2, <1>5, <2>1 DEF Starts
    <3>2. ~Goes(x, n, u, p, f, i)
      BY <1>1 DEF Goes
    <3>3. \A j \in 1 .. i - 1 : v[j] = u[j]
      BY <1>5, <2>1
    <3> QED
      BY <3>1, <3>2, <3>3 DEF Dead
  <2>2. CASE i \notin 1 .. Len(u)
    <3>1. i = Len(u) + 1 /\ Len(v) = i
      BY <2>2
    <3>2. CASE p.dose > 0
      <4>1. \A k \in 1 .. n : y[k] \in {"Ready", "none"}
        BY <1>1, <1>7, <3>2 DEF Late
      <4>2. \A j \in i + 1 .. Len(v) : ~Is(v[j], "SetDose", f)
        BY <3>1
      <4> QED
        BY <1>1, <3>2, <4>1, <4>2 DEF Goes
    <3>3. CASE p.dose = 0
      <4>1. \A j \in 1 .. i - 1 : v[j] = u[j] /\ j \in 1 .. Len(u)
        BY <1>5, <3>1
      <4> QED
        BY <3>3, <4>1 DEF Dead
    <3> QED
      BY <3>2, <3>3
  <2> QED
    BY <2>1, <2>2
<1>9. Granted(y, n, q, p, f)
  BY <1>1, <1>2, LineIs DEF Granted
<1> QED
  BY <1>3, <1>6, <1>8, <1>9 DEF Link

LEMMA LinkSends ==
  ASSUME NEW main, NEW q \in Seq(Frame), NEW p, NEW u \in Seq(Message), NEW f, Link(main, q, p, u, f),
         NEW m \in Message, ~Is(m, "Start", f), Is(m, "SetDose", f) => Stage(main) = "Free"
  PROVE  Link(main, q, p, Append(u, m), f)
<1> PICK x, n, v : x = Line(main, q, p, f) /\ n = Len(q) + 1 /\ v = Append(u, m)
  OBVIOUS
<1>1. n \in Nat \ {0} /\ x[0] = Stage(main)
  BY LineIs
<1>2. InOrder(x, n) /\ DoseIn(x, n, u, f) /\ Starts(x, n, u, p, f) /\ Granted(x, n, q, p, f)
  BY DEF Link
<1>3. /\ Len(v) = Len(u) + 1 /\ v[Len(u) + 1] = m
      /\ \A j \in 1 .. Len(v) : (j \in 1 .. Len(u) /\ v[j] = u[j]) \/ (j = Len(u) + 1 /\ v[j] = m)
  OBVIOUS
<1>4. DoseIn(x, n, v, f)
  <2>1. x[0] = "Free" => \A i \in 0 .. n : x[i] \notin Late
    BY <1>1, <1>2 DEF InOrder, Late
  <2> QED
    BY <1>1, <1>2, <1>3, <2>1 DEF DoseIn
<1>5. Starts(x, n, v, p, f)
  <2> SUFFICES ASSUME NEW i \in 1 .. Len(v), Is(v[i], "Start", f)
               PROVE  Dead(v, p, f, i) \/ Goes(x, n, v, p, f, i)
    BY DEF Starts
  <2>1. i \in 1 .. Len(u) /\ v[i] = u[i]
    BY <1>3
  <2>2. CASE Dead(u, p, f, i)
    <3>1. \A j \in 1 .. i - 1 : v[j] = u[j]
      BY <1>3, <2>1
    <3> QED
      BY <2>2, <3>1 DEF Dead
  <2>3. CASE Goes(x, n, u, p, f, i)
    <3>1. x[0] # "Free"
      BY <1>1, <2>3 DEF Goes
    <3>2. \A j \in i + 1 .. Len(v) : ~Is(v[j], "SetDose", f)
      BY <1>1, <1>3, <2>1, <2>3, <3>1 DEF Goes
    <3> QED
      BY <2>3, <3>2 DEF Goes
  <2> QED
    BY <1>2, <2>1, <2>2, <2>3 DEF Starts
<1> QED
  BY <1>2, <1>4, <1>5 DEF Link

\* The first order is taken from the link, and nothing is done.
LEMMA LinkRefused ==
  ASSUME NEW main, NEW q, NEW p, NEW u \in Seq(Message), u # <<>>, NEW f, Link(main, q, p, u, f)
  PROVE  Link(main, q, p, Tail(u), f)
<1> PICK x, n, v : x = Line(main, q, p, f) /\ n = Len(q) + 1 /\ v = Tail(u)
  OBVIOUS
<1>1. InOrder(x, n) /\ DoseIn(x, n, u, f) /\ Starts(x, n, u, p, f) /\ Granted(x, n, q, p, f)
  BY DEF Link
<1>2. Len(v) = Len(u) - 1 /\ \A j \in 1 .. Len(v) : j + 1 \in 1 .. Len(u) /\ v[j] = u[j + 1]
  OBVIOUS
<1>3. DoseIn(x, n, v, f)
  BY <1>1, <1>2 DEF DoseIn
<1>4. Starts(x, n, v, p, f)
  <2> SUFFICES ASSUME NEW i \in 1 .. Len(v), Is(v[i], "Start", f)
               PROVE  Dead(v, p, f, i) \/ Goes(x, n, v, p, f, i)
    BY DEF Starts
  <2>1. Dead(u, p, f, i + 1) \/ Goes(x, n, u, p, f, i + 1)
    BY <1>1, <1>2 DEF Starts
  <2>2. \A j \in 1 .. i - 1 : v[j] = u[j + 1] /\ j + 1 \in 1 .. (i + 1) - 1
    BY <1>2
  <2>3. \A j \in i + 1 .. Len(v) : v[j] = u[j + 1] /\ j + 1 \in (i + 1) + 1 .. Len(u)
    BY <1>2
  <2> QED
    BY <2>1, <2>2, <2>3 DEF Dead, Goes
<1> QED
  BY <1>1, <1>3, <1>4 DEF Link

\* The first order is carried out.
LEMMA LinkDosed ==
  ASSUME NEW main, NEW q \in Seq(Frame), NEW p, NEW u \in Seq(Message), u # <<>>, NEW f,
         Link(main, q, p, u, f), NEW p2,
         Is(u[1], "SetDose", f), p.state \in {"Free", "NozzleOut"}, p2.state = p.state, p2.dose > 0,
         \A r \in 1 .. Len(q) : ~OkDose(q[r], f)
  PROVE  Link(main, q, p2, Tail(u), f)
<1> PICK x, y, n, v : /\ x = Line(main, q, p, f) /\ y = Line(main, q, p2, f) /\ n = Len(q) + 1
                      /\ v = Tail(u)
  OBVIOUS
<1>1. n \in Nat \ {0} /\ (\A i \in 0 .. n - 1 : y[i] = x[i]) /\ y[n] = "Ready"
  <2>1. Shows(p2) = "Ready"
    BY PhaseIs DEF Late
  <2>2. n \in Nat \ {0} /\ n - 1 = Len(q)
    OBVIOUS
  <2>3. \A i \in 0 .. Len(q) : Line(main, q, p2, f)[i] = Line(main, q, p, f)[i]
    BY <2>2 DEF Line
  <2>4. Line(main, q, p2, f)[Len(q) + 1] = Shows(p2)
    BY LineIs
  <2> QED
    BY <2>1, <2>2, <2>3, <2>4
<1>2. InOrder(x, n) /\ DoseIn(x, n, u, f) /\ Starts(x, n, u, p, f)
  BY DEF Link
<1>3. Len(v) = Len(u) - 1 /\ \A j \in 1 .. Len(v) : j + 1 \in 1 .. Len(u) /\ v[j] = u[j + 1]
  OBVIOUS
<1>4. \A i \in 0 .. n : x[i] \notin Late /\ y[i] \notin Late
  <2>1. 1 \in 1 .. Len(u)
    OBVIOUS
  <2>2. \A i \in 0 .. n : x[i] \notin Late
    BY <1>2, <2>1 DEF DoseIn
  <2> QED
    BY <1>1, <2>2 DEF Late
<1>5. InOrder(y, n)
  <2>1. \A i \in 0 .. n - 1 : x[i] \notin Late
    BY <1>1, <1>4
  <2>2. y[n] \notin Late /\ y[n] # "Filling" /\ y[n] # "Finish"
    BY <1>1 DEF Late
  <2>3. /\ y[n] \in Late => \A i \in 0 .. n - 1 : x[i] # "Free"
        /\ y[n] = "Filling" => \A i \in 0 .. n - 1 : x[i] # "Finish"
        /\ y[n] = "Finish" => \A i \in 0 .. n - 1 : x[i] = "Ready" =>
              \E k \in 0 .. n - 1 : i < k /\ x[k] = "Filling"
    BY <2>2
  <2>4. y[n] = "Ready" => \A i \in 0 .. n - 1 : x[i] \in Late =>
              \E k \in 0 .. n - 1 : i < k /\ x[k] = "Free"
    BY <1>1, <2>1
  <2>5. \A i \in 0 .. n - 1 : y[i] = x[i]
    BY <1>1
  <2>6. Turned(x, y, n)
    BY <2>3, <2>4, <2>5 DEF Turned
  <2> QED
    BY <1>1, <1>2, <2>6, OrderTurned
<1>6. DoseIn(y, n, v, f)
  BY <1>4 DEF DoseIn
<1>7. Starts(y, n, v, p2, f)
  <2> SUFFICES ASSUME NEW i \in 1 .. Len(v), Is(v[i], "Start", f) PROVE Goes(y, n, v, p2, f, i)
    BY DEF Starts
  <2>1. Dead(u, p, f, i + 1) \/ Goes(x, n, u, p, f, i + 1)
    BY <1>2, <1>3 DEF Starts
  <2>2. ~Dead(u, p, f, i + 1)
    <3>1. 1 \in 1 .. (i + 1) - 1
      OBVIOUS
    <3> QED
      BY <3>1 DEF Dead
  <2>3. \A j \in i + 1 .. Len(v) : v[j] = u[j + 1] /\ j + 1 \in (i + 1) + 1 .. Len(u)
    BY <1>3
  <2>4. \A k \in 0 .. n : y[k] \in {"Ready", "none"}
    <3>1. \A k \in 0 .. n : x[k] \in {"Ready", "none"}
      BY <2>1, <2>2 DEF Goes
    <3>2. \A k \in 0 .. n : k \in 0 .. n - 1 \/ k = n
      BY <1>1
    <3> QED
      BY <1>1, <3>1, <3>2
  <2> QED
    BY <2>1, <2>2, <2>3, <2>4 DEF Goes
<1>8. Granted(y, n, q, p2, f)
  BY DEF Granted
<1> QED
  BY <1>5, <1>6, <1>7, <1>8 DEF Link

LEMMA LinkReset ==
  ASSUME NEW main, NEW q \in Seq(Frame), NEW p, NEW u \in Seq(Message), u # <<>>, NEW f,
         Link(main, q, p, u, f), NEW p2,
         p.state \in {"Free", "NozzleOut", "Finish"}, p2.dose = 0,
         p2.state = IF p.state = "Finish" THEN "Free" ELSE p.state,
         \A j \in 1 .. Len(u) : ~Is(u[j], "SetDose", f),
         \A r \in 1 .. Len(q) : ~OkDose(q[r], f)
  PROVE  Link(main, q, p2, Tail(u), f)
<1> PICK x, y, n, v : /\ x = Line(main, q, p, f) /\ y = Line(main, q, p2, f) /\ n = Len(q) + 1
                      /\ v = Tail(u)
  OBVIOUS
<1>1. n \in Nat \ {0} /\ (\A i \in 0 .. n - 1 : y[i] = x[i]) /\ (y[n] = "Free" \/ (y[n] = "Ready" /\ x[n] = "Ready"))
  <2>1. Shows(p2) = "Free" \/ (Shows(p2) = "Ready" /\ Shows(p) = "Ready")
    BY ShowsIs DEF Late
  <2>2. n \in Nat \ {0} /\ n - 1 = Len(q)
    OBVIOUS
  <2>3. \A i \in 0 .. Len(q) : Line(main, q, p2, f)[i] = Line(main, q, p, f)[i]
    BY <2>2 DEF Line
  <2>4. Line(main, q, p2, f)[Len(q) + 1] = Shows(p2) /\ Line(main, q, p, f)[Len(q) + 1] = Shows(p)
    BY LineIs, Zenon
  <2> QED
    BY <2>1, <2>2, <2>3, <2>4
<1>2. InOrder(x, n)
  BY DEF Link
<1>3. Len(v) = Len(u) - 1 /\ \A j \in 1 .. Len(v) : j + 1 \in 1 .. Len(u) /\ v[j] = u[j + 1]
  OBVIOUS
<1>4. \A j \in 1 .. Len(v) : ~Is(v[j], "SetDose", f)
  BY <1>3
<1>5. InOrder(y, n)
  <2>1. x[n] = "Ready" => \A i \in 0 .. n - 1 : x[i] \in Late => \E k \in 0 .. n - 1 : i < k /\ x[k] = "Free"
    <3> HAVE x[n] = "Ready"
    <3> TAKE i \in 0 .. n - 1
    <3> HAVE x[i] \in Late
    <3>1. i \in 0 .. n /\ n \in 0 .. n /\ i < n
      BY <1>1
    <3>2. \E k \in 0 .. n : i < k /\ k < n /\ x[k] = "Free"
      BY <1>2, <3>1 DEF InOrder
    <3> QED
      BY <1>1, <3>2
  <2>2. y[n] \notin Late /\ y[n] # "Filling" /\ y[n] # "Finish"
    BY <1>1 DEF Late
  <2>3. /\ y[n] \in Late => \A i \in 0 .. n - 1 : x[i] # "Free"
        /\ y[n] = "Filling" => \A i \in 0 .. n - 1 : x[i] # "Finish"
        /\ y[n] = "Finish" => \A i \in 0 .. n - 1 : x[i] = "Ready" =>
              \E k \in 0 .. n - 1 : i < k /\ x[k] = "Filling"
    BY <2>2
  <2>4. y[n] = "Ready" => \A i \in 0 .. n - 1 : x[i] \in Late =>
              \E k \in 0 .. n - 1 : i < k /\ x[k] = "Free"
    BY <1>1, <2>1
  <2>5. \A i \in 0 .. n - 1 : y[i] = x[i]
    BY <1>1
  <2>6. Turned(x, y, n)
    BY <2>3, <2>4, <2>5 DEF Turned
  <2> QED
    BY <1>1, <1>2, <2>6, OrderTurned
<1>6. DoseIn(y, n, v, f)
  BY <1>4 DEF DoseIn
<1>7. Starts(y, n, v, p2, f)
  <2> SUFFICES ASSUME NEW i \in 1 .. Len(v) PROVE Dead(v, p2, f, i)
    BY DEF Starts
  <2>1. \A j \in 1 .. i - 1 : j \in 1 .. Len(v)
    BY <1>3
  <2> QED
    BY <1>4, <2>1 DEF Dead
<1>8. Granted(y, n, q, p2, f)
  BY DEF Granted
<1> QED
  BY <1>5, <1>6, <1>7, <1>8 DEF Link

LEMMA LinkStarted ==
  ASSUME NEW main, NEW q \in Seq(Frame), NEW p, NEW u \in Seq(Message), u # <<>>, NEW f,
         Link(main, q, p, u, f), NEW p2,
         Is(u[1], "Start", f), p.state = "NozzleOut", p.dose > 0, p2.state = "Filling", p2.dose = p.dose
  PROVE  Link(main, q, p2, Tail(u), f)
<1> PICK x, y, n, v : /\ x = Line(main, q, p, f) /\ y = Line(main, q, p2, f) /\ n = Len(q) + 1
                      /\ v = Tail(u)
  OBVIOUS
<1>1. n \in Nat \ {0} /\ (\A i \in 0 .. n - 1 : y[i] = x[i]) /\ y[n] = "Filling"
  <2>1. Shows(p2) = "Filling"
    BY ShowsIs DEF Late
  <2>2. n \in Nat \ {0} /\ n - 1 = Len(q)
    OBVIOUS
  <2>3. \A i \in 0 .. Len(q) : Line(main, q, p2, f)[i] = Line(main, q, p, f)[i]
    BY <2>2 DEF Line
  <2>4. Line(main, q, p2, f)[Len(q) + 1] = Shows(p2)
    BY LineIs
  <2> QED
    BY <2>1, <2>2, <2>3, <2>4
<1>2. InOrder(x, n) /\ DoseIn(x, n, u, f) /\ Starts(x, n, u, p, f) /\ Granted(x, n, q, p, f)
  BY DEF Link
<1>3. Len(v) = Len(u) - 1 /\ \A j \in 1 .. Len(v) : j + 1 \in 1 + 1 .. Len(u) /\ v[j] = u[j + 1]
  OBVIOUS
<1>4. Goes(x, n, u, p, f, 1)
  <2>1. 1 \in 1 .. Len(u)
    OBVIOUS
  <2>2. ~Dead(u, p, f, 1)
    <3>1. p.dose # 0 /\ p.state \notin Late
      BY PhaseIs DEF Late
    <3> QED
      BY <3>1 DEF Dead
  <2> QED
    BY <1>2, <2>1, <2>2 DEF Starts
<1>5. \A j \in 1 .. Len(v) : ~Is(v[j], "SetDose", f)
  BY <1>3, <1>4 DEF Goes
<1>6. InOrder(y, n)
  <2>1. \A i \in 0 .. n - 1 : x[i] \in {"Ready", "none"}
    BY <1>1, <1>4 DEF Goes
  <2>2. Turned(x, y, n)
    BY <1>1, <2>1 DEF Turned, Late
  <2> QED
    BY <1>1, <1>2, <2>2, OrderTurned
<1>7. DoseIn(y, n, v, f)
  BY <1>5 DEF DoseIn
<1>8. Starts(y, n, v, p2, f)
  <2> SUFFICES ASSUME NEW i \in 1 .. Len(v) PROVE Dead(v, p2, f, i)
    BY DEF Starts
  <2>1. \A j \in 1 .. i - 1 : j \in 1 .. Len(v)
    BY <1>3
  <2> QED
    BY <1>5, <2>1 DEF Dead, Late
<1>9. Granted(y, n, q, p2, f)
  <2> SUFFICES ASSUME NEW r \in 1 .. Len(q), OkDose(q[r], f), NEW i \in r + 1 .. n PROVE y[i] # "Free"
    BY DEF Granted
  <2>1. x[i] # "Free"
    BY <1>2 DEF Granted
  <2>2. i \in 0 .. n - 1 \/ i = n
    BY <1>1
  <2> QED
    BY <1>1, <2>1, <2>2
<1> QED
  BY <1>6, <1>7, <1>8, <1>9 DEF Link

-----------------------------------------------------------------------------
(* The frames of the link.                                                 *)

\* A frame comes last on the link.
LEMMA LinkAdded ==
  ASSUME NEW main, NEW q \in Seq(Frame), NEW p, NEW u \in Seq(Message), NEW f, Link(main, q, p, u, f),
         NEW m \in Frame, Shown(m, f) \in {"none", Shows(p)}, OkDose(m, f) => p.dose > 0
  PROVE  Link(main, Append(q, m), p, u, f)
<1>0. PICK x, n, v, y : /\ x = Line(main, q, p, f) /\ n = Len(q) + 1
                      /\ v = Append(q, m) /\ y = Line(main, v, p, f)
  OBVIOUS
<1>1. /\ v \in Seq(Frame) /\ n \in Nat \ {0} /\ Len(v) = n /\ v[n] = m
      /\ \A i \in 1 .. n - 1 : v[i] = q[i] /\ i \in 1 .. Len(q)
  BY <1>0
<1>2. InOrder(x, n) /\ DoseIn(x, n, u, f) /\ Starts(x, n, u, p, f) /\ Granted(x, n, q, p, f)
  BY <1>0 DEF Link
<1>3. x[n] = Shows(p)
  BY <1>0, LineIs
<1>4. y[n + 1] = Shows(p)
  <2>1. n + 1 \in 0 .. Len(v) + 1 /\ n + 1 # 0 /\ n + 1 = Len(v) + 1
    BY <1>1
  <2> QED
    BY <1>0, <2>1 DEF Line
<1>5. y[n] = Shown(m, f)
  BY <1>0, <1>1 DEF Line
<1>6. \A i \in 0 .. n - 1 : y[i] = x[i]
  BY <1>0, <1>1 DEF Line
<1>7. InOrder(y, n + 1)
  BY <1>1, <1>2, <1>3, <1>4, <1>5, <1>6, OrderAdded
<1>8. \A i \in 0 .. n + 1 : y[i] = "none" \/ (i \in 0 .. n /\ y[i] = x[i]) \/ (i = n + 1 /\ y[i] = x[n] /\ n \in 0 .. n)
  BY <1>1, <1>3, <1>4, <1>5, <1>6
<1>9. DoseIn(y, n + 1, u, f)
  BY <1>2, <1>8 DEF DoseIn, Late
<1>10. Starts(y, n + 1, u, p, f)
  <2> SUFFICES ASSUME NEW i \in 1 .. Len(u), Is(u[i], "Start", f)
               PROVE  Dead(u, p, f, i) \/ Goes(y, n + 1, u, p, f, i)
    BY DEF Starts
  <2>1. Dead(u, p, f, i) \/ Goes(x, n, u, p, f, i)
    BY <1>2 DEF Starts
  <2> QED
    BY <1>8, <2>1 DEF Goes
<1>11. Granted(y, n + 1, v, p, f)
  <2> SUFFICES ASSUME NEW r \in 1 .. n, OkDose(v[r], f)
               PROVE  IF p.dose > 0 THEN \A i \in r + 1 .. n + 1 : y[i] # "Free" ELSE p.state = "Finish"
    BY <1>1 DEF Granted
  <2>1. CASE r = n
    <3>1. p.dose > 0
      BY <1>1, <2>1
    <3>2. Shows(p) # "Free"
      <4>1. p.dose # 0
        BY <3>1, PhaseIs
      <4> QED
        BY <4>1, ShowsIs DEF Late
    <3>3. \A i \in r + 1 .. n + 1 : i = n + 1
      BY <1>1, <2>1
    <3> QED
      BY <1>4, <3>1, <3>2, <3>3
  <2>2. CASE r # n
    <3>1. r \in 1 .. Len(q) /\ OkDose(q[r], f)
      <4>1. r \in 1 .. n - 1
        <5>1. n \in Nat
          BY <1>1
        <5> QED
          BY <2>2, <5>1
      <4> QED
        BY <1>1, <4>1
    <3>2. CASE p.dose > 0
      <4>1. \A i \in r + 1 .. n : x[i] # "Free"
        BY <1>2, <3>1, <3>2 DEF Granted
      <4>2. n \in r + 1 .. n /\ \A i \in r + 1 .. n + 1 : i \in 0 .. n + 1 /\ (i = n + 1 \/ i \in r + 1 .. n)
        <5>1. n \in Nat
          BY <1>1
        <5> QED
          BY <2>2, <5>1
      <4> QED
        BY <1>8, <3>2, <4>1, <4>2
    <3>3. CASE ~(p.dose > 0)
      BY <1>2, <3>1, <3>3 DEF Granted
    <3> QED
      BY <3>2, <3>3
  <2> QED
    BY <2>1, <2>2
<1>12. InOrder(Line(main, v, p, f), Len(v) + 1) /\ DoseIn(Line(main, v, p, f), Len(v) + 1, u, f)
  BY <1>1, <1>7, <1>9, <1>0
<1>13. Starts(Line(main, v, p, f), Len(v) + 1, u, p, f) /\ Granted(Line(main, v, p, f), Len(v) + 1, v, p, f)
  BY <1>1, <1>10, <1>11, <1>0
<1> QED
  BY <1>0, <1>12, <1>13 DEF Link

\* The first frame is taken from the link, and the record takes it over or stays.
LEMMA LinkTaken ==
  ASSUME NEW main, NEW q \in Seq(Frame), q # <<>>, NEW p, NEW u \in Seq(Message), NEW f,
         Link(main, q, p, u, f), NEW new,
         \/ Stage(new) = Shown(q[1], f)
         \/ Stage(new) = Stage(main) /\ (Shown(q[1], f) = "none" \/ Stage(main) = "Free")
  PROVE  Link(new, Tail(q), p, u, f)
<1>0. PICK x, n, v, y : /\ x = Line(main, q, p, f) /\ n = Len(q) + 1
                      /\ v = Tail(q) /\ y = Line(new, v, p, f)
  OBVIOUS
<1>1. /\ v \in Seq(Frame) /\ n \in Nat \ {0} /\ n >= 2 /\ Len(v) = n - 2 /\ Len(q) = n - 1
      /\ \A i \in 1 .. n - 2 : v[i] = q[i + 1] /\ i + 1 \in 1 .. Len(q)
  BY <1>0
<1>2. InOrder(x, n) /\ DoseIn(x, n, u, f) /\ Starts(x, n, u, p, f) /\ Granted(x, n, q, p, f)
  BY <1>0 DEF Link
<1>3. x[n] = Shows(p) /\ x[0] = Stage(main)
  BY <1>0, LineIs
<1>4. y[n - 1] = Shows(p)
  <2>1. n - 1 \in 0 .. Len(v) + 1 /\ n - 1 # 0 /\ n - 1 = Len(v) + 1
    BY <1>1
  <2> QED
    BY <1>0, <2>1, Zenon DEF Line
<1>5. x[1] = Shown(q[1], f)
  <2>1. 1 \in 1 .. Len(q)
    BY <1>1
  <2> QED
    BY <1>0, <2>1, LineAt
<1>6. y[0] = Stage(new)
  <2>1. 0 \in 0 .. Len(v) + 1
    BY <1>1
  <2> QED
    BY <1>0, <2>1 DEF Line
<1>7. \A i \in 1 .. n - 1 : y[i] = x[i + 1]
  <2> TAKE i \in 1 .. n - 1
  <2>1. CASE i = n - 1
    BY <1>1, <1>3, <1>4, <2>1
  <2>2. CASE i # n - 1
    <3>0. i \in 1 .. n - 2
      BY <1>1, <2>2
    <3>1. i \in 1 .. n - 2 /\ i + 1 \in 1 .. Len(q)
      BY <1>1, <3>0
    <3>2. y[i] = Shown(v[i], f)
      <4>1. i \in 0 .. Len(v) + 1 /\ i # 0 /\ i # Len(v) + 1
        BY <1>1, <3>0
      <4> QED
        BY <1>0, <4>1 DEF Line
    <3>3. x[i + 1] = Shown(q[i + 1], f)
      BY <1>0, <3>1, LineAt
    <3> QED
      BY <1>1, <3>1, <3>2, <3>3
  <2> QED
    BY <2>1, <2>2
<1>8. y[0] = x[1] \/ (y[0] = x[0] /\ (x[1] = "none" \/ x[0] = "Free"))
  BY <1>3, <1>5, <1>6
<1>9. InOrder(y, n - 1)
  BY <1>1, <1>2, <1>7, <1>8, OrderTaken
<1>10. \A i \in 0 .. n - 1 : \E k \in 0 .. n : y[i] = x[k]
  <2> TAKE i \in 0 .. n - 1
  <2>1. CASE i = 0
    <3>1. 0 \in 0 .. n /\ 1 \in 0 .. n
      BY <1>1
    <3> QED
      BY <1>8, <2>1, <3>1
  <2>2. CASE i # 0
    <3>1. i \in 1 .. n - 1 /\ i + 1 \in 0 .. n
      BY <1>1, <2>2
    <3> QED
      BY <1>7, <3>1
  <2> QED
    BY <2>1, <2>2
<1>11. DoseIn(y, n - 1, u, f)
  BY <1>2, <1>10 DEF DoseIn
<1>12. Starts(y, n - 1, u, p, f)
  <2> SUFFICES ASSUME NEW i \in 1 .. Len(u), Is(u[i], "Start", f)
               PROVE  Dead(u, p, f, i) \/ Goes(y, n - 1, u, p, f, i)
    BY DEF Starts
  <2>1. Dead(u, p, f, i) \/ Goes(x, n, u, p, f, i)
    BY <1>2 DEF Starts
  <2>2. (\A k \in 0 .. n : x[k] \in {"Ready", "none"}) => \A k \in 0 .. n - 1 : y[k] \in {"Ready", "none"}
    BY <1>10
  <2> QED
    BY <2>1, <2>2 DEF Goes
<1>13. Granted(y, n - 1, v, p, f)
  <2> SUFFICES ASSUME NEW r \in 1 .. n - 2, OkDose(v[r], f)
               PROVE  IF p.dose > 0 THEN \A i \in r + 1 .. n - 1 : y[i] # "Free" ELSE p.state = "Finish"
    BY <1>1 DEF Granted
  <2>1. r + 1 \in 1 .. Len(q) /\ OkDose(q[r + 1], f)
    BY <1>1
  <2>2. IF p.dose > 0 THEN \A i \in (r + 1) + 1 .. n : x[i] # "Free" ELSE p.state = "Finish"
    BY <1>2, <2>1 DEF Granted
  <2>3. \A i \in r + 1 .. n - 1 : i \in 1 .. n - 1 /\ i + 1 \in (r + 1) + 1 .. n
    BY <1>1
  <2> QED
    BY <1>7, <2>2, <2>3
<1>14. Len(v) + 1 = n - 1
  BY <1>1
<1>15. InOrder(Line(new, v, p, f), Len(v) + 1) /\ DoseIn(Line(new, v, p, f), Len(v) + 1, u, f)
  BY <1>14, <1>9, <1>11, <1>0
<1>16. Starts(Line(new, v, p, f), Len(v) + 1, u, p, f) /\ Granted(Line(new, v, p, f), Len(v) + 1, v, p, f)
  BY <1>14, <1>12, <1>13, <1>0
<1> QED
  BY <1>0, <1>15, <1>16 DEF Link

-----------------------------------------------------------------------------
(* The customers, who see the dispenser that pss has heard of or will.     *)

Fitting(main, p) ==
    main \in Fits[p.state] \/ (main = "Calling" /\ p.state = "Free" /\ p.dose > 0)
Repeats(m, p) == m.state = p.state /\ m.order = IF p.dose = 0 THEN "free" ELSE "set"
LastTells(q, p, f) ==
    \E j \in 1 .. Len(q) : /\ Of(q[j], f) /\ Repeats(q[j], p)
                           /\ \A k \in j + 1 .. Len(q) : ~Of(q[k], f)
Unseen(q, f) == \A j \in 1 .. Len(q) : ~Of(q[j], f)

Aware(main, q, p, f) == LastTells(q, p, f) \/ (Unseen(q, f) /\ Fitting(main, p))

\* What the line shows last is the dispenser.
TellsLast(x, j, n, p) ==
    /\ \A k \in j + 1 .. n - 1 : x[k] = "none"
    /\ p.state = "Filling" => x[j] = "Filling"
    /\ p.state = "Free" /\ p.dose = 0 => x[j] = "Free" \/ (j = 0 /\ x[j] \notin Late)

LEMMA LineTold ==
  ASSUME NEW main, NEW q \in Seq(Frame), NEW p, NEW f, Aware(main, q, p, f), NEW x, NEW n,
         n = Len(q) + 1, x = Line(main, q, p, f)
  PROVE  \E j \in 0 .. n - 1 : TellsLast(x, j, n, p)
<1>1. n \in Nat \ {0} /\ n - 1 = Len(q)
  OBVIOUS
<1>2. \A k \in 1 .. n - 1 : ~Of(q[k], f) => x[k] = "none"
  <2> TAKE k \in 1 .. n - 1
  <2> HAVE ~Of(q[k], f)
  <2>1. k \in 1 .. Len(q)
    BY <1>1
  <2>2. Shown(q[k], f) = "none"
    BY DEF Shown
  <2> QED
    BY <2>1, <2>2, LineAt
<1>3. CASE LastTells(q, p, f)
  <2>1. PICK j \in 1 .. Len(q) : /\ Of(q[j], f) /\ Repeats(q[j], p)
                                 /\ \A k \in j + 1 .. Len(q) : ~Of(q[k], f)
    BY <1>3 DEF LastTells
  <2>2. x[j] = Shown(q[j], f)
    BY LineAt
  <2>3. Shown(q[j], f) = Shows(p)
    <3>1. Shown(q[j], f) = Phase(p.state, q[j].order = "free")
      BY <2>1 DEF Shown, Repeats
    <3>2. (q[j].order = "free") <=> (p.dose = 0)
      BY <2>1 DEF Repeats
    <3> QED
      BY <3>1, <3>2 DEF Shows, Phase
  <2>4. \A k \in j + 1 .. n - 1 : k \in 1 .. n - 1 /\ k \in j + 1 .. Len(q)
    BY <1>1
  <2>5. \A k \in j + 1 .. n - 1 : x[k] = "none"
    BY <1>2, <2>1, <2>4
  <2>6. p.state = "Filling" => x[j] = "Filling"
    BY <2>2, <2>3, ShowsIs DEF Late
  <2>7. p.state = "Free" /\ p.dose = 0 => x[j] = "Free"
    BY <2>2, <2>3, ShowsIs DEF Late
  <2>8. j \in 0 .. n - 1
    BY <1>1
  <2> QED
    BY <2>5, <2>6, <2>7, <2>8 DEF TellsLast
<1>4. CASE Unseen(q, f) /\ Fitting(main, p)
  <2>1. \A k \in 0 + 1 .. n - 1 : x[k] = "none"
    <3> TAKE k \in 0 + 1 .. n - 1
    <3>1. k \in 1 .. n - 1 /\ k \in 1 .. Len(q)
      BY <1>1
    <3>2. ~Of(q[k], f)
      BY <1>4, <3>1 DEF Unseen
    <3> QED
      BY <1>2, <3>1, <3>2
  <2>2. x[0] = Stage(main)
    BY LineIs
  <2>3. p.state = "Filling" => main = "Fuelling"
    BY <1>4 DEF Fitting, Fits
  <2>4. p.state = "Free" => main \in {"Idle", "PreAuthorized", "Starting", "Calling"}
    BY <1>4 DEF Fitting, Fits
  <2>5. p.state = "Filling" => x[0] = "Filling"
    BY <2>2, <2>3 DEF Stage
  <2>6. p.state = "Free" => x[0] \notin Late
    BY <2>2, <2>4 DEF Stage, Late
  <2>7. 0 \in 0 .. n - 1
    BY <1>1
  <2> QED
    BY <2>1, <2>5, <2>6, <2>7 DEF TellsLast
<1> QED
  BY <1>3, <1>4 DEF Aware

LEMMA LinkNozzle ==
  ASSUME NEW main, NEW q \in Seq(Frame), NEW p, NEW u \in Seq(Message), NEW f, Link(main, q, p, u, f),
         Aware(main, q, p, f), p.dose = 0 \/ p.dose > 0, NEW p2, p2.dose = p.dose,
         p.state \in {"Free", "NozzleOut"}, p2.state \in {"Free", "NozzleOut"}
  PROVE  Link(main, q, p2, u, f)
<1> PICK x, n, y : x = Line(main, q, p, f) /\ n = Len(q) + 1 /\ y = Line(main, q, p2, f)
  OBVIOUS
<1>1. n \in Nat \ {0} /\ n - 1 = Len(q)
  OBVIOUS
<1>2. InOrder(x, n) /\ DoseIn(x, n, u, f) /\ Starts(x, n, u, p, f) /\ Granted(x, n, q, p, f)
  BY DEF Link
<1>3. x[n] = Shows(p) /\ y[n] = Shows(p2)
  <2>1. x[n] = Shows(p)
    BY LineIs
  <2>2. y[n] = Shows(p2)
    BY LineIs
  <2> QED
    BY <2>1, <2>2
<1>4. \A i \in 0 .. n - 1 : y[i] = x[i]
  BY <1>1 DEF Line
<1>5. /\ x[n] \in {"Free", "Ready"} /\ y[n] \in {"Free", "Ready"}
      /\ p.dose > 0 => x[n] = "Ready" /\ y[n] = "Ready"
      /\ x[n] = "Free" => p.state = "Free" /\ p.dose = 0
  <2>1. p.state \notin Late /\ p2.state \notin Late
    BY DEF Late
  <2>2. p.dose > 0 => p.dose # 0
    BY PhaseIs
  <2>3. Shows(p) = IF p.state = "Free" /\ p.dose = 0 THEN "Free" ELSE "Ready"
    BY <2>1, ShowsIs
  <2>4. Shows(p2) = IF p2.state = "Free" /\ p2.dose = 0 THEN "Free" ELSE "Ready"
    BY <2>1, ShowsIs
  <2> QED
    BY <1>3, <2>2, <2>3, <2>4
<1>6. \A i \in 0 .. n - 1 : x[i] \in Late => x[n] # "Ready" \/ \E k \in 0 .. n - 1 : i < k /\ x[k] = "Free"
  <2> TAKE i \in 0 .. n - 1
  <2> HAVE x[i] \in Late
  <2>1. CASE x[n] = "Ready"
    <3>1. i \in 0 .. n /\ n \in 0 .. n /\ i < n
      BY <1>1
    <3>2. \E k \in 0 .. n : i < k /\ k < n /\ x[k] = "Free"
      BY <1>2, <2>1, <3>1 DEF InOrder
    <3>3. PICK k \in 0 .. n : i < k /\ k < n /\ x[k] = "Free"
      BY <3>2
    <3>4. k \in 0 .. n - 1
      BY <1>1, <3>3
    <3> QED
      BY <3>3, <3>4
  <2> QED
    BY <2>1
<1>7. \A i \in 0 .. n - 1 : x[i] \in Late => x[n] # "Free" \/ \E k \in 0 .. n - 1 : i < k /\ x[k] = "Free"
  <2> TAKE i \in 0 .. n - 1
  <2> HAVE x[i] \in Late
  <2>1. CASE x[n] = "Free"
    <3>1. PICK j \in 0 .. n - 1 : TellsLast(x, j, n, p)
      BY LineTold
    <3>2. x[j] = "Free" \/ (j = 0 /\ x[j] \notin Late)
      BY <1>5, <2>1, <3>1 DEF TellsLast
    <3>3. i # j
      BY <3>2 DEF Late
    <3>4. ~(i > j)
      <4> SUFFICES ASSUME i > j PROVE FALSE
        OBVIOUS
      <4>1. i \in j + 1 .. n - 1
        BY <1>1
      <4> QED
        BY <3>1, <4>1 DEF TellsLast, Late
    <3>5. i < j /\ j # 0
      BY <1>1, <3>3, <3>4
    <3> QED
      BY <3>2, <3>5
  <2> QED
    BY <2>1
<1>8. InOrder(y, n)
  <2>1. y[n] = "Ready" => \A i \in 0 .. n - 1 : x[i] \in Late => \E k \in 0 .. n - 1 : i < k /\ x[k] = "Free"
    BY <1>5, <1>6, <1>7
  <2>2. y[n] \notin Late /\ y[n] # "Filling" /\ y[n] # "Finish"
    BY <1>5 DEF Late
  <2>3. Turned(x, y, n)
    BY <1>4, <2>1, <2>2 DEF Turned
  <2> QED
    BY <1>1, <1>2, <2>3, OrderTurned
<1>9. DoseIn(y, n, u, f)
  <2>1. \A i \in 0 .. n : i = n \/ i \in 0 .. n - 1
    BY <1>1
  <2>2. \A i \in 0 .. n : y[i] \in Late => x[i] \in Late
    BY <1>4, <1>5, <2>1 DEF Late
  <2> QED
    BY <1>2, <2>2 DEF DoseIn
<1>10. Starts(y, n, u, p2, f)
  <2> SUFFICES ASSUME NEW i \in 1 .. Len(u), Is(u[i], "Start", f)
               PROVE  Dead(u, p2, f, i) \/ Goes(y, n, u, p2, f, i)
    BY DEF Starts
  <2>1. Dead(u, p, f, i) \/ Goes(x, n, u, p, f, i)
    BY <1>2 DEF Starts
  <2>2. p.state \notin Late
    BY DEF Late
  <2>3. CASE Dead(u, p, f, i)
    BY <2>2, <2>3 DEF Dead
  <2>4. CASE Goes(x, n, u, p, f, i)
    <3>1. \A k \in 0 .. n : k = n \/ k \in 0 .. n - 1
      BY <1>1
    <3>2. p2.dose > 0 /\ y[n] = "Ready"
      BY <1>5, <2>4 DEF Goes
    <3>3. \A k \in 0 .. n : y[k] \in {"Ready", "none"}
      BY <1>4, <2>4, <3>1, <3>2 DEF Goes
    <3>4. \A j \in i + 1 .. Len(u) : ~Is(u[j], "SetDose", f)
      BY <2>4 DEF Goes
    <3> QED
      BY <3>2, <3>3, <3>4 DEF Goes
  <2> QED
    BY <2>1, <2>3, <2>4
<1>11. Granted(y, n, q, p2, f)
  <2> SUFFICES ASSUME NEW r \in 1 .. Len(q), OkDose(q[r], f)
               PROVE  IF p2.dose > 0 THEN \A i \in r + 1 .. n : y[i] # "Free" ELSE p2.state = "Finish"
    BY DEF Granted
  <2>1. IF p.dose > 0 THEN \A i \in r + 1 .. n : x[i] # "Free" ELSE p.state = "Finish"
    BY <1>2 DEF Granted
  <2>2. p.dose > 0 /\ \A i \in r + 1 .. n : x[i] # "Free"
    BY <2>1
  <2>3. \A i \in r + 1 .. n : i = n \/ i \in 0 .. n - 1
    BY <1>1
  <2> QED
    BY <1>4, <1>5, <2>2, <2>3
<1> QED
  BY <1>8, <1>9, <1>10, <1>11 DEF Link

LEMMA LinkFilled ==
  ASSUME NEW main, NEW q \in Seq(Frame), NEW p, NEW u \in Seq(Message), NEW f, Link(main, q, p, u, f),
         Aware(main, q, p, f), NEW p2, p.state = "Filling", p2.state = "Finish", p2.dose = 0
  PROVE  Link(main, q, p2, u, f)
<1> PICK x, n, y : x = Line(main, q, p, f) /\ n = Len(q) + 1 /\ y = Line(main, q, p2, f)
  OBVIOUS
<1>1. n \in Nat \ {0} /\ n - 1 = Len(q) /\ n \in 0 .. n
  OBVIOUS
<1>2. InOrder(x, n) /\ DoseIn(x, n, u, f) /\ Starts(x, n, u, p, f) /\ Granted(x, n, q, p, f)
  BY DEF Link
<1>3. x[n] = "Filling" /\ y[n] = "Finish"
  <2>1. x[n] = Shows(p)
    BY LineIs
  <2>2. y[n] = Shows(p2)
    BY LineIs
  <2> QED
    BY <2>1, <2>2, ShowsIs DEF Late
<1>4. \A i \in 0 .. n - 1 : y[i] = x[i]
  BY <1>1 DEF Line
<1>5. \A i \in 0 .. n - 1 : x[i] # "Free"
  <2> TAKE i \in 0 .. n - 1
  <2>1. i \in 0 .. n /\ i < n
    BY <1>1
  <2> QED
    BY <1>1, <1>2, <1>3, <2>1 DEF InOrder, Late
<1>6. \A i \in 0 .. n - 1 : x[i] = "Ready" => \E k \in 0 .. n - 1 : i < k /\ x[k] = "Filling"
  <2> TAKE i \in 0 .. n - 1
  <2> HAVE x[i] = "Ready"
  <2>1. PICK j \in 0 .. n - 1 : TellsLast(x, j, n, p)
    BY LineTold
  <2>2. x[j] = "Filling"
    BY <2>1 DEF TellsLast
  <2>3. ~(i > j)
    <3> SUFFICES ASSUME i > j PROVE FALSE
      OBVIOUS
    <3>1. i \in j + 1 .. n - 1
      BY <1>1
    <3> QED
      BY <2>1, <3>1 DEF TellsLast
  <2>4. i < j
    BY <1>1, <2>2, <2>3
  <2> QED
    BY <2>2, <2>4
<1>7. InOrder(y, n)
  <2>1. Turned(x, y, n)
    BY <1>3, <1>4, <1>5, <1>6 DEF Turned
  <2> QED
    BY <1>1, <1>2, <2>1, OrderTurned
<1>8. \A j \in 1 .. Len(u) : ~Is(u[j], "SetDose", f)
  BY <1>1, <1>2, <1>3 DEF DoseIn, Late
<1>9. DoseIn(y, n, u, f)
  BY <1>8 DEF DoseIn
<1>10. Starts(y, n, u, p2, f)
  <2> SUFFICES ASSUME NEW i \in 1 .. Len(u) PROVE Dead(u, p2, f, i)
    BY DEF Starts
  <2>1. \A j \in 1 .. i - 1 : j \in 1 .. Len(u)
    OBVIOUS
  <2> QED
    BY <1>8, <2>1 DEF Dead
<1>11. Granted(y, n, q, p2, f)
  BY DEF Granted
<1> QED
  BY <1>7, <1>9, <1>10, <1>11 DEF Link

-----------------------------------------------------------------------------
(* The threads, as they go on with a record.                               *)

\* A thread keeps its copy, but for the state that authorize_fp gives it ...
Turns(p, q) ==
    /\ p.copy # NoRecord /\ q.f = p.f /\ p.pc \in {"authorize", "reset", "code", "name", "send"}
    /\ q.pc \in {"code", "name", "send", "update"}
    /\ q.copy.main = p.copy.main \/ (p.pc = "authorize" /\ q.copy.main = "PreAuthorized")
    /\ q.pc # "update" => q.copy.dose = p.copy.dose /\ (p.pc = "authorize" => p.copy.dose > 0)

\* ... or takes one ...
Begins(p, q) ==
    /\ p.copy = NoRecord /\ q.own = NoRecord /\ q.f \in Points /\ q.pc \in {"authorize", "update"}
    /\ q.copy.main = fp[q.f].main
    /\ q.pc = "authorize" => fp[q.f].main \in {"Idle", "Calling"} \/ q.f \in seen'.renewed

\* ... or gives it up, and the thread of the link has what it is to store as before.
Walks(p, q) ==
    /\ q.own = p.own /\ (q.own # NoRecord => q.f = p.f)
    /\ q.copy = NoRecord => p.copy = NoRecord \/ p.pc \in {"authorize", "reset", "params"}
    /\ q.copy # NoRecord => q = p \/ Turns(p, q) \/ Begins(p, q)
Walking == \A t \in Threads : Walks(thr[t], thr'[t])

SameMain(f) == fp'[f].main = fp[f].main \/ f \in seen'.forced

LEMMA WalksAre ==
  ASSUME IInv, NEW t \in Threads, NEW q, thr' = [thr EXCEPT ![t] = q], Walks(thr[t], q)
  PROVE  Walking
<1>1. thr'[t] = q /\ \A u \in Threads \ {t} : thr'[u] = thr[u]
  BY DEF IInv, Types, Placed
<1>2. \A p : Walks(p, p)
  BY DEF Walks
<1> QED
  BY <1>1, <1>2 DEF Walking

LEMMA GotoWalks ==
  ASSUME IInv, NEW t \in Threads, NEW pc, Goto(t, pc),
         thr[t].copy # NoRecord =>
            /\ thr[t].pc \in {"authorize", "reset", "code", "name", "send"}
            /\ pc \in {"code", "name", "send", "update"}
            /\ pc # "update" /\ thr[t].pc = "authorize" => thr[t].copy.dose > 0
  PROVE  Walking
<1> PICK r : r = thr[t]
  OBVIOUS
<1> PICK p : p = [r EXCEPT !.pc = pc]
  OBVIOUS
<1>1. r \in Thread
  BY DEF IInv, Types, Placed
<1>2. p.f = r.f /\ p.copy = r.copy /\ p.own = r.own /\ p.pc = pc
  BY <1>1 DEF Thread
<1>3. thr' = [thr EXCEPT ![t] = p]
  BY DEF Goto
<1>4. Walks(r, p)
  BY <1>2 DEF Walks, Turns
<1> QED
  BY <1>3, <1>4, WalksAre

LEMMA ReturnsWalks ==
  ASSUME IInv, NEW t \in Threads, thr[t].pc \in {"authorize", "reset", "params"}, Returns(t)
  PROVE  Walking
<1>1. Placed /\ t[2] \in {"pos", "dev"} /\ thr[t].pc \in Working
  BY ThreadsAre DEF IInv, Types, Working
<1>2. thr' = [thr EXCEPT ![t] = thr'[t]]
  BY DEF Returns, IInv, Types, Placed
<1>3. Walks(thr[t], thr'[t])
  <2>1. CASE t[2] = "pos"
    <3>1. thr'[t] = Idle /\ thr[t].own = NoRecord
      BY <1>1, <2>1, ReturnIs DEF Placed, Proper
    <3> QED
      BY <3>1 DEF Walks, Idle
  <2>2. CASE t[2] = "dev"
    <3>1. thr'[t].f = thr[t].f /\ thr'[t].copy = NoRecord /\ thr'[t].own = thr[t].own
      BY <1>1, <2>2, ReturnIs
    <3> QED
      BY <3>1 DEF Walks
  <2> QED
    BY <1>1, <2>1, <2>2
<1> QED
  BY <1>2, <1>3, WalksAre

\* A thread that holds nothing, before and after.
LEMMA EmptyWalks ==
  ASSUME IInv, NEW t \in Threads, thr[t].own = NoRecord, thr[t].copy = NoRecord,
         NEW q, q.own = NoRecord, q.copy = NoRecord, thr' = [thr EXCEPT ![t] = q]
  PROVE  Walking
<1>1. Walks(thr[t], q)
  BY DEF Walks
<1> QED
  BY <1>1, WalksAre

LEMMA ProceduresWalk ==
  ASSUME IInv, NEW t \in Threads, Procedures(t), ~Update(t)
  PROVE  Walking /\ \A f \in Points : SameMain(f)
<1>1. /\ Types /\ Tables /\ Placed /\ Proper(t, thr[t]) /\ thr[t] \in Thread
  BY DEF IInv, Types, Placed
<1>2. UNCHANGED fp => \A f \in Points : SameMain(f)
  BY DEF SameMain
<1>3. CASE Unauthorized(t) \/ Reset(t) \/ SetCode(t) \/ SetName(t) \/ Send(t)
  <2>1. UNCHANGED fp
    BY <1>3, Zenon DEF Unauthorized, Reset, SetCode, SetName, Send
  <2>2. \/ Returns(t) /\ thr[t].pc \in {"authorize", "reset"}
        \/ Goto(t, "code") /\ thr[t].pc = "reset"
        \/ Goto(t, "name") /\ thr[t].pc = "code"
        \/ Goto(t, "send") /\ thr[t].pc = "name"
        \/ Goto(t, IF thr[t].copy # NoRecord THEN "update" ELSE "params") /\ thr[t].pc = "send"
    BY <1>3 DEF Unauthorized, Reset, SetCode, SetName, Send
  <2>3. CASE Returns(t) /\ thr[t].pc \in {"authorize", "reset"}
    BY <1>2, <2>1, <2>3, ReturnsWalks
  <2>4. CASE \/ Goto(t, "code") /\ thr[t].pc = "reset"
             \/ Goto(t, "name") /\ thr[t].pc = "code"
             \/ Goto(t, "send") /\ thr[t].pc = "name"
    BY <1>2, <2>1, <2>4, GotoWalks
  <2>5. CASE Goto(t, IF thr[t].copy # NoRecord THEN "update" ELSE "params") /\ thr[t].pc = "send"
    <3> PICK pc : pc = IF thr[t].copy # NoRecord THEN "update" ELSE "params"
      OBVIOUS
    <3>1. Goto(t, pc) /\ (thr[t].copy # NoRecord => pc = "update") /\ thr[t].pc = "send"
      BY <2>5
    <3> QED
      BY <1>2, <2>1, <3>1, GotoWalks
  <2> QED
    BY <2>2, <2>3, <2>4, <2>5
<1>4. CASE Authorize(t)
  <2> PICK r, cp : r = thr[t] /\ cp = thr[t].copy
    OBVIOUS
  <2>1. UNCHANGED fp /\ r.pc = "authorize" /\ cp \in Record /\ cp # NoRecord /\ r.copy = cp
    BY <1>1, <1>4, RecordIsOne DEF Authorize, Proper
  <2>2. CASE Goto(t, "update")
    BY <1>2, <2>1, <2>2, GotoWalks
  <2>3. CASE ~Goto(t, "update")
    <3> PICK new, mn : new = [cp EXCEPT !.main = mn] /\ mn = "PreAuthorized"
      OBVIOUS
    <3>2. new.dose = cp.dose /\ new.main = "PreAuthorized"
      BY <2>1 DEF Record
    <3>3. PICK pc : /\ thr' = [thr EXCEPT ![t].copy = new, ![t].pc = pc]
                    /\ pc \in {"code", "update"} /\ (pc = "code" => cp.dose > 0)
      BY <1>4, <2>3 DEF Authorize
    <3> PICK p : p = [r EXCEPT !.copy = new, !.pc = pc]
      OBVIOUS
    <3>4. p.f = r.f /\ p.copy = new /\ p.own = r.own /\ p.pc = pc
      BY <1>1 DEF Thread
    <3>5. thr' = [thr EXCEPT ![t] = p]
      BY <3>3
    <3>6. Walks(r, p)
      BY <2>1, <3>2, <3>3, <3>4 DEF Walks, Turns
    <3> QED
      BY <1>2, <2>1, <3>5, <3>6, WalksAre
  <2> QED
    BY <2>2, <2>3
<1>5. CASE Params(t)
  <2> PICK g : g = thr[t].f
    OBVIOUS
  <2>1. /\ thr[t].pc = "params" /\ InPlace(g, t, ResetParams(g)) /\ Returns(t)
    BY <1>5 DEF Params
  <2>2. g \in Points
    BY <1>1, <2>1 DEF Proper, Working
  <2>3. ResetParams(g) \in Record /\ ResetParams(g).main = fp[g].main
    <3>1. \A r \in Record : [r EXCEPT !.preset = FALSE, !.dose = 0, !.stopped = FALSE].main = r.main
      BY DEF Record
    <3>2. ResetParams(g).main = fp[g].main
      BY <1>1, <2>2, <3>1 DEF ResetParams, Tables
    <3> QED
      BY <1>1, <2>2, <3>2, ResetParamsType
  <2>4. fp'[g] = ResetParams(g) /\ \A h \in Points \ {g} : fp'[h] = fp[h]
    BY <1>1, <2>1, <2>2, <2>3, InPlaceIs
  <2>5. \A f \in Points : SameMain(f)
    BY <2>3, <2>4 DEF SameMain
  <2> QED
    BY <2>1, <2>5, ReturnsWalks
<1> QED
  BY <1>3, <1>4, <1>5 DEF Procedures

LEMMA IdleHolds ==
  ASSUME IInv, NEW t \in Threads, thr[t].pc = "idle"
  PROVE  thr[t] = Idle /\ thr[t].own = NoRecord /\ thr[t].copy = NoRecord
<1>1. Proper(t, thr[t])
  BY DEF IInv, Types, Placed
<1>2. thr[t] = Idle
  BY <1>1 DEF Proper
<1> QED
  BY <1>2 DEF Idle

LEMMA StartsWalk ==
  ASSUME IInv, NEW c \in Clients, NEW pc \in {"authorize", "update"}, NEW kind, NEW g \in Points,
         NEW r, Start(c, pc, kind, g, r), thr[Pos(c)].pc = "idle", r.main = fp[g].main,
         pc = "authorize" => fp[g].main \in {"Idle", "Calling"} \/ g \in seen'.renewed
  PROVE  Walking
<1> PICK by : by = Len(asked[c]) + 1
  OBVIOUS
<1> PICK p : p = [Idle EXCEPT !.pc = pc, !.cmd = kind, !.f = g, !.by = by, !.copy = r]
  OBVIOUS
<1>1. p.f = g /\ p.copy = r /\ p.own = NoRecord /\ p.pc = pc
  BY DEF Idle
<1>2. thr' = [thr EXCEPT ![Pos(c)] = p] /\ Pos(c) \in Threads
  BY ThreadsAre DEF Start
<1>3. thr[Pos(c)].own = NoRecord /\ thr[Pos(c)].copy = NoRecord
  BY <1>2, IdleHolds
<1>4. Walks(thr[Pos(c)], p)
  BY <1>1, <1>3 DEF Walks, Begins
<1> QED
  BY <1>2, <1>4, WalksAre

\* A record that is changed in place keeps its state.
LEMMA PlacedMains ==
  ASSUME IInv, NEW g \in Points, NEW new, fp' = [fp EXCEPT ![g] = new],
         new.main = fp[g].main \/ g \in seen'.forced
  PROVE  \A f \in Points : SameMain(f)
<1>1. fp'[g] = new /\ \A h \in Points \ {g} : fp'[h] = fp[h]
  BY DEF IInv, Types, Tables
<1> QED
  BY <1>1 DEF SameMain

LEMMA RequestsWalk ==
  ASSUME IInv, NEW c \in Clients, Requests(c)
  PROVE  Walking /\ \A f \in Points : SameMain(f)
<1>1. /\ Types /\ Tables /\ Placed /\ Pos(c) \in Threads /\ Pos(c)[2] = "pos"
      /\ \A g \in Points : fp[g] \in Record
  BY ThreadsAre DEF IInv, Types, Tables
<1>2. UNCHANGED fp => \A f \in Points : SameMain(f)
  BY DEF SameMain
<1>3. UNCHANGED thr => Walking
  BY DEF Walking, Walks
<1>4. CASE AskAuthorize(c)
  <2>1. UNCHANGED fp
    BY <1>4 DEF AskAuthorize
  <2>2. CASE UNCHANGED thr
    BY <1>2, <1>3, <2>1, <2>2
  <2>3. CASE ~UNCHANGED thr
    <3>1. PICK g \in Points, d \in Doses :
            LET copy == [fp[g] EXCEPT !.preset = TRUE, !.dose = d, !.stopped = FALSE] IN
            /\ ~fp[g].preset /\ Asks(c, "authorize")
            /\ Start(c, IF copy.grade THEN "authorize" ELSE "update", "authorize", g, copy)
            /\ seen' = IF fp[g].main \in {"Idle", "Calling"} THEN seen
                       ELSE [seen EXCEPT !.renewed = @ \cup {g}]
      BY <1>4, <2>3 DEF AskAuthorize, Answered
    <3> PICK r, new : /\ r = fp[g]
                      /\ new = [r EXCEPT !.preset = TRUE, !.dose = d, !.stopped = FALSE]
      OBVIOUS
    <3> PICK pc : pc = IF new.grade THEN "authorize" ELSE "update"
      OBVIOUS
    <3>2. new.main = r.main
      BY <1>1 DEF Record
    <3>3. Start(c, pc, "authorize", g, new) /\ thr[Pos(c)].pc = "idle"
      BY <3>1 DEF Asks
    <3>4. fp[g].main \in {"Idle", "Calling"} \/ g \in seen'.renewed
      <4> PICK w : w = seen.renewed \cup {g}
        OBVIOUS
      <4>1. fp[g].main \notin {"Idle", "Calling"} => seen' = [seen EXCEPT !.renewed = w]
        BY <3>1
      <4> QED
        BY <1>1, <4>1 DEF Tables
    <3>5. Walking
      BY <3>2, <3>3, <3>4, StartsWalk
    <3> QED
      BY <1>2, <2>1, <3>5
  <2> QED
    BY <2>2, <2>3
<1>5. CASE AskReset(c)
  <2>1. PICK g \in Points : Start(c, "reset", "reset", g, NoRecord) /\ thr[Pos(c)].pc = "idle"
    BY <1>5 DEF AskReset, Asks
  <2>2. UNCHANGED fp
    BY <1>5 DEF AskReset
  <2> PICK by : by = Len(asked[c]) + 1
    OBVIOUS
  <2> PICK p : p = [Idle EXCEPT !.pc = "reset", !.cmd = "reset", !.f = g, !.by = by, !.copy = NoRecord]
    OBVIOUS
  <2>3. p.copy = NoRecord /\ p.own = NoRecord /\ thr' = [thr EXCEPT ![Pos(c)] = p]
    BY <2>1 DEF Idle, Start
  <2>4. thr[Pos(c)].own = NoRecord /\ thr[Pos(c)].copy = NoRecord
    BY <1>1, <2>1, IdleHolds
  <2> QED
    BY <1>1, <1>2, <2>2, <2>3, <2>4, EmptyWalks
<1>6. CASE AskOpen(c)
  <2>1. PICK g \in Points : /\ Start(c, "update", "open", g, [fp[g] EXCEPT !.closed = FALSE])
                            /\ thr[Pos(c)].pc = "idle"
    BY <1>6 DEF AskOpen, Asks
  <2>2. UNCHANGED fp
    BY <1>6 DEF AskOpen
  <2> PICK r, new : r = fp[g] /\ new = [r EXCEPT !.closed = FALSE]
    OBVIOUS
  <2>3. new.main = r.main
    BY <1>1 DEF Record
  <2> QED
    BY <1>2, <2>1, <2>2, <2>3, StartsWalk
<1>7. CASE AskClear(c)
  <2>1a. PICK g \in Points : \E n :
          /\ thr' = [thr EXCEPT ![Pos(c)] = [Idle EXCEPT !.pc = "reset", !.cmd = "clear",
                      !.f = g, !.by = Len(asked[c]) + 1, !.msg = [kind |-> "clear", no |-> n]]]
          /\ InPlace(g, Pos(c), [fp[g] EXCEPT !.sup = Without(@, n % ByteMod)])
    BY <1>7 DEF AskClear
  <2>1. PICK n :
          /\ thr' = [thr EXCEPT ![Pos(c)] = [Idle EXCEPT !.pc = "reset", !.cmd = "clear",
                      !.f = g, !.by = Len(asked[c]) + 1, !.msg = [kind |-> "clear", no |-> n]]]
          /\ InPlace(g, Pos(c), [fp[g] EXCEPT !.sup = Without(@, n % ByteMod)])
    BY <2>1a
  <2> PICK r, s, new : /\ r = fp[g] /\ s = Without(r.sup, n % ByteMod)
                       /\ new = [r EXCEPT !.sup = s]
    OBVIOUS
  <2>2. new.main = r.main
    BY <1>1 DEF Record
  <2>3. \A f \in Points : SameMain(f)
    BY <2>1, <2>2, PlacedMains DEF InPlace
  <2> PICK by, note : by = Len(asked[c]) + 1 /\ note = [kind |-> "clear", no |-> n]
    OBVIOUS
  <2> PICK p : p = [Idle EXCEPT !.pc = "reset", !.cmd = "clear", !.f = g, !.by = by, !.msg = note]
    OBVIOUS
  <2>4. p.copy = NoRecord /\ p.own = NoRecord
    BY DEF Idle
  <2>5. thr' = [thr EXCEPT ![Pos(c)] = p]
    BY <2>1
  <2>6. thr[Pos(c)].own = NoRecord /\ thr[Pos(c)].copy = NoRecord
    <3>1. thr[Pos(c)].pc = "idle"
      BY <1>7 DEF AskClear, Asks
    <3> QED
      BY <1>1, <3>1, IdleHolds
  <2>7. Walking
    BY <1>1, <2>4, <2>5, <2>6, EmptyWalks
  <2> QED
    BY <2>3, <2>7
<1>8. CASE AskClose(c)
  <2>1. UNCHANGED thr
    BY <1>8 DEF AskClose, Answered
  <2>2. PICK g \in Points : fp' = [fp EXCEPT ![g] = [fp[g] EXCEPT !.closed = TRUE]]
    BY <1>8 DEF AskClose, InPlace
  <2> PICK r, new : r = fp[g] /\ new = [r EXCEPT !.closed = TRUE]
    OBVIOUS
  <2>3. new.main = r.main
    BY <1>1 DEF Record
  <2> QED
    BY <1>3, <2>1, <2>2, <2>3, PlacedMains
<1>9. CASE AskStop(c) \/ AskResume(c)
  <2>1. UNCHANGED thr
    BY <1>9 DEF AskStop, AskResume, Answered
  <2>2a. PICK g \in Points : \E code, rec : Passes(c, code, g, rec)
    BY <1>9 DEF AskStop, AskResume
  <2>2. PICK code, rec : Passes(c, code, g, rec)
    BY <2>2a
  <2>3. CASE UNCHANGED fp
    BY <1>2, <1>3, <2>1, <2>3
  <2>4. CASE ~UNCHANGED fp
    <3> PICK v, w : v = seen.stale \cup Holders(g, Pos(c)) /\ w = seen.forced \cup {g}
      OBVIOUS
    <3>1. fp' = [fp EXCEPT ![g] = rec] /\ seen' = [seen EXCEPT !.stale = v, !.forced = w]
      BY <2>2, <2>4 DEF Passes
    <3>2. g \in seen'.forced
      BY <1>1, <3>1 DEF Tables
    <3> QED
      BY <1>3, <2>1, <3>1, <3>2, PlacedMains
  <2> QED
    BY <2>3, <2>4
<1> QED
  BY <1>4, <1>5, <1>6, <1>7, <1>8, <1>9 DEF Requests

LEMMA DeviceWalks ==
  ASSUME IInv, NEW c \in Clients, DeviceThread(c), ~Data(c), ~Store(c)
  PROVE  Walking
<1> PICK t : t = Dev(c)
  OBVIOUS
<1>1. /\ Types /\ Tables /\ Placed /\ t \in Threads /\ Proper(t, thr[t])
  BY ThreadsAre DEF IInv, Types, Placed, Tables
<1>2. CASE Reconnect(c)
  BY <1>2 DEF Reconnect, Walking, Walks
<1>3. CASE ~Reconnect(c)
  <2>1. thr[t].pc \notin Working
    BY <1>3 DEF DeviceThread, Reply, Timeout, Forget, ForgetTime, StartFill, Working
  <2>2. thr[t].own = NoRecord /\ thr[t].copy = NoRecord /\ thr[t] \in Thread
    BY <1>1, <2>1 DEF Proper, Placed
  <2>3. CASE Reply(c)
    <3> PICK m : m = Replied(Head(down[c]))
      OBVIOUS
    <3>1. PICK pc : thr' = [thr EXCEPT ![t] = [Idle EXCEPT !.msg = m, !.f = m.f, !.pc = pc]]
      BY <2>3 DEF Reply
    <3> PICK p : p = [Idle EXCEPT !.msg = m, !.f = m.f, !.pc = pc]
      OBVIOUS
    <3>2. p.copy = NoRecord /\ p.own = NoRecord
      BY DEF Idle
    <3> QED
      BY <1>1, <2>2, <3>1, <3>2, EmptyWalks
  <2>4. CASE Timeout(c)
    <3>1. thr' = [thr EXCEPT ![t] = [Idle EXCEPT !.pc = "forget"]]
      BY <2>4 DEF Timeout
    <3> PICK p : p = [Idle EXCEPT !.pc = "forget"]
      OBVIOUS
    <3>2. p.copy = NoRecord /\ p.own = NoRecord
      BY DEF Idle
    <3> QED
      BY <1>1, <2>2, <3>1, <3>2, EmptyWalks
  <2>5. CASE Forget(c) \/ ForgetTime(c) \/ StartFill(c)
    <3>1. Done(t) \/ \E pc : Goto(t, pc)
      BY <2>5, Zenon DEF Forget, ForgetTime, StartFill
    <3>2. CASE Done(t)
      BY <1>1, <2>2, <3>2, EmptyWalks DEF Done, Idle
    <3>3. CASE \E pc : Goto(t, pc)
      BY <1>1, <2>2, <3>3, GotoWalks
    <3> QED
      BY <3>1, <3>2, <3>3
  <2> QED
    BY <1>3, <2>3, <2>4, <2>5 DEF DeviceThread
<1> QED
  BY <1>2, <1>3

\* Whatever happens, but for the writing back of whole records and the data of a dispenser.
LEMMA StepsWalk ==
  ASSUME IInv, [Next]_vars, \A t \in Threads : ~Update(t), \A c \in Clients : ~Data(c) /\ ~Store(c)
  PROVE  Walking
<1>1. UNCHANGED thr => Walking
  BY DEF Walking, Walks
<1>2. ASSUME NEW c \in Clients, Serve(c) \/ Push(c) PROVE UNCHANGED thr
  BY <1>2, Zenon DEF Serve, Push
<1>3. ASSUME NEW g \in Points, Nozzle(g) \/ Repeat(g) \/ Filled(g) PROVE UNCHANGED thr
  BY <1>3, Zenon DEF Nozzle, Repeat, Filled
<1>4. ASSUME UNCHANGED vars PROVE UNCHANGED thr
  BY <1>4 DEF vars
<1>5. ASSUME NEW t \in Threads, Procedures(t) PROVE Walking
  BY <1>5, ProceduresWalk
<1>6. ASSUME NEW c \in Clients, Requests(c) PROVE Walking
  BY <1>6, RequestsWalk
<1>7. ASSUME NEW c \in Clients, DeviceThread(c) PROVE Walking
  BY <1>7, DeviceWalks
<1> QED
  BY <1>1, <1>2, <1>3, <1>4, <1>5, <1>6, <1>7, Zenon DEF Next

-----------------------------------------------------------------------------
(* All that is under way about a point between its record and its dispenser. *)

Ordinary == {"Free", "NozzleOut", "Filling", "Finish"}
Plain(q, p, u, f) ==
    /\ p.state \in Ordinary
    /\ \A j \in 1 .. Len(q) : Of(q[j], f) => q[j].state \in Ordinary
    /\ \A j \in 1 .. Len(u) : u[j].f = f => u[j].code \in {"SetDose", "Reset", "Start"}

\* The thread d of a link is about the answer that a dose for f was taken.
Waits(d, f) == d.pc \in {"forget", "reset time", "start"} /\ OkDose(d.msg, f)

\* The dispenser still has the dose and pss does not find it free of one, or the dose is taken
\* back, by the command of the slot.
Heeds(main, q, p, d, code, f) ==
    Waits(d, f) /\ Stage(main) = "Free" =>
        IF p.dose > 0 THEN \A i \in 1 .. Len(q) + 1 : Line(main, q, p, f)[i] # "Free"
        ELSE code = "Reset"

\* The dispenser is still to be pushed, or pss will know it.
Settled(main, q, p, un, f) == f \in un \/ Aware(main, q, p, f)

Wiring(main, q, p, u, d, code, un, f) ==
    /\ Plain(q, p, u, f) /\ Link(main, q, p, u, f)
    /\ Heeds(main, q, p, d, code, f) /\ Settled(main, q, p, un, f)

LEMMA WiringSame ==
  ASSUME NEW main, NEW q, NEW p, NEW u, NEW d, NEW code, NEW un, NEW f,
         Wiring(main, q, p, u, d, code, un, f),
         NEW d2, NEW code2, NEW un2, Waits(d2, f) => Waits(d, f), code2 = code \/ code # "Reset",
         f \in un => f \in un2
  PROVE  Wiring(main, q, p, u, d2, code2, un2, f)
  BY DEF Wiring, Heeds, Settled

\* The record turns from Idle or Calling to PreAuthorized.
LEMMA WiringTurned ==
  ASSUME NEW main \in {"Idle", "Calling"}, NEW q, NEW p, NEW u, NEW d, NEW code, NEW un, NEW f,
         Wiring(main, q, p, u, d, code, un, f)
  PROVE  Wiring("PreAuthorized", q, p, u, d, code, un, f)
<1>1. Stage("PreAuthorized") = Stage(main)
  BY DEF Stage
<1>2. Line("PreAuthorized", q, p, f) = Line(main, q, p, f) /\ Link("PreAuthorized", q, p, u, f)
  BY <1>1, LinesSame, LinkSame DEF Wiring
<1>3. p.state \in Ordinary /\ (Fitting(main, p) => Fitting("PreAuthorized", p))
  BY DEF Wiring, Plain, Ordinary, Fitting, Fits
<1> QED
  BY <1>1, <1>2, <1>3 DEF Wiring, Heeds, Settled, Aware

LEMMA WiringSends ==
  ASSUME NEW main, NEW q \in Seq(Frame), NEW p, NEW u \in Seq(Message), NEW d, NEW code, NEW un, NEW f,
         Wiring(main, q, p, u, d, code, un, f), NEW m \in Message,
         m.f = f => m.code \in Commands, Is(m, "SetDose", f) => Stage(main) = "Free"
  PROVE  Wiring(main, q, p, Append(u, m), d, code, un, f)
<1>1. Link(main, q, p, Append(u, m), f)
  BY LinkSends DEF Wiring, Is, Commands
<1>2. Plain(q, p, Append(u, m), f)
  BY DEF Wiring, Plain, Commands
<1> QED
  BY <1>1, <1>2 DEF Wiring

LEMMA LineLonger ==
  ASSUME NEW main, NEW q \in Seq(Frame), NEW p, NEW f, NEW m \in Frame, NEW x, NEW y,
         x = Line(main, q, p, f), y = Line(main, Append(q, m), p, f)
  PROVE  /\ y[Len(q) + 2] = Shows(p) /\ y[Len(q) + 1] = Shown(m, f) /\ x[Len(q) + 1] = Shows(p)
         /\ \A i \in 1 .. Len(q) : y[i] = x[i]
<1> PICK n, v : n = Len(q) /\ v = Append(q, m)
  OBVIOUS
<1>1. /\ n \in Nat /\ v \in Seq(Frame) /\ Len(v) = n + 1 /\ v[n + 1] = m
      /\ \A j \in 1 .. n : v[j] = q[j]
  OBVIOUS
<1>2. /\ n + 2 \in 0 .. Len(v) + 1 /\ n + 2 # 0 /\ n + 2 = Len(v) + 1
      /\ n + 1 \in 0 .. Len(v) + 1 /\ n + 1 # 0 /\ n + 1 # Len(v) + 1
      /\ n + 1 \in 0 .. Len(q) + 1 /\ n + 1 = Len(q) + 1
  BY <1>1
<1>3. y[n + 2] = Shows(p) /\ y[n + 1] = Shown(v[n + 1], f) /\ x[n + 1] = Shows(p)
  BY <1>2 DEF Line
<1>4. ASSUME NEW i \in 1 .. n PROVE y[i] = x[i]
  <2>1. /\ i \in 0 .. Len(v) + 1 /\ i # 0 /\ i # Len(v) + 1
        /\ i \in 0 .. Len(q) + 1 /\ i # Len(q) + 1
    BY <1>1
  <2> QED
    BY <1>1, <2>1 DEF Line
<1> QED
  BY <1>1, <1>3, <1>4

\* A frame that shows nothing of f, an answer most often.
LEMMA WiringFrame ==
  ASSUME NEW main, NEW q \in Seq(Frame), NEW p, NEW u \in Seq(Message), NEW d, NEW code, NEW un, NEW f,
         Wiring(main, q, p, u, d, code, un, f), NEW m \in Frame, ~Of(m, f), OkDose(m, f) => p.dose > 0
  PROVE  Wiring(main, Append(q, m), p, u, d, code, un, f)
<1> PICK n, v : n = Len(q) /\ v = Append(q, m)
  OBVIOUS
<1>1. /\ n \in Nat /\ v \in Seq(Frame) /\ Len(v) = n + 1 /\ v[n + 1] = m
      /\ \A j \in 1 .. n : v[j] = q[j]
  OBVIOUS
<1>2. Shown(m, f) = "none" /\ Link(main, v, p, u, f)
  BY LinkAdded DEF Wiring, Shown
<1>3. Plain(v, p, u, f)
  BY <1>1 DEF Wiring, Plain
<1>4. \A i \in 1 .. n + 2 : \/ Line(main, v, p, f)[i] = "none"
                            \/ \E k \in 1 .. n + 1 : Line(main, v, p, f)[i] = Line(main, q, p, f)[k]
  <2> TAKE i \in 1 .. n + 2
  <2>1. /\ Line(main, v, p, f)[n + 2] = Shows(p) /\ Line(main, v, p, f)[n + 1] = Shown(m, f)
        /\ Line(main, q, p, f)[n + 1] = Shows(p)
        /\ \A j \in 1 .. n : Line(main, v, p, f)[j] = Line(main, q, p, f)[j]
    BY LineLonger
  <2>2. i = n + 2 \/ i = n + 1 \/ i \in 1 .. n
    BY <1>1
  <2> QED
    BY <1>1, <1>2, <2>1, <2>2
<1>5. Heeds(main, v, p, d, code, f)
  <2> SUFFICES ASSUME Waits(d, f), Stage(main) = "Free", p.dose > 0, NEW i \in 1 .. n + 2,
                      \A k \in 1 .. n + 1 : Line(main, q, p, f)[k] # "Free"
               PROVE  Line(main, v, p, f)[i] # "Free"
    BY <1>1 DEF Wiring, Heeds
  <2> QED
    BY <1>4
<1>6. Unseen(q, f) => Unseen(v, f)
  BY <1>1 DEF Unseen
<1>7. ASSUME LastTells(q, p, f) PROVE LastTells(v, p, f)
  <2> PICK j \in 1 .. n : /\ Of(q[j], f) /\ Repeats(q[j], p)
                          /\ \A k \in j + 1 .. n : ~Of(q[k], f)
    BY <1>7 DEF LastTells
  <2>1. j \in 1 .. Len(v) /\ Of(v[j], f) /\ Repeats(v[j], p)
    BY <1>1
  <2>2. \A k \in j + 1 .. Len(v) : ~Of(v[k], f)
    BY <1>1
  <2> QED
    BY <2>1, <2>2 DEF LastTells
<1> QED
  BY <1>2, <1>3, <1>5, <1>6, <1>7 DEF Wiring, Settled, Aware

\* A frame that shows the dispenser as it is.
LEMMA WiringPushed ==
  ASSUME NEW main, NEW q \in Seq(Frame), NEW p, NEW u \in Seq(Message), NEW d, NEW code, NEW un, NEW f,
         Wiring(main, q, p, u, d, code, un, f), NEW m \in Frame, Of(m, f), Repeats(m, p),
         Shown(m, f) = Shows(p), NEW un2
  PROVE  Wiring(main, Append(q, m), p, u, d, code, un2, f)
<1> PICK n, v : n = Len(q) /\ v = Append(q, m)
  OBVIOUS
<1>1. /\ n \in Nat /\ v \in Seq(Frame) /\ Len(v) = n + 1 /\ v[n + 1] = m
      /\ \A j \in 1 .. n : v[j] = q[j]
  OBVIOUS
<1>2. ~OkDose(m, f) /\ Link(main, v, p, u, f)
  <2>1. ~OkDose(m, f)
    BY DEF Of, OkDose
  <2> QED
    BY <2>1, LinkAdded DEF Wiring
<1>3. Plain(v, p, u, f)
  BY <1>1 DEF Wiring, Plain, Repeats
<1>4. \A i \in 1 .. n + 2 : \E k \in 1 .. n + 1 : Line(main, v, p, f)[i] = Line(main, q, p, f)[k]
  <2> TAKE i \in 1 .. n + 2
  <2>1. /\ Line(main, v, p, f)[n + 2] = Shows(p) /\ Line(main, v, p, f)[n + 1] = Shown(m, f)
        /\ Line(main, q, p, f)[n + 1] = Shows(p)
        /\ \A j \in 1 .. n : Line(main, v, p, f)[j] = Line(main, q, p, f)[j]
    BY LineLonger
  <2>2. i = n + 2 \/ i = n + 1 \/ i \in 1 .. n
    BY <1>1
  <2> QED
    BY <1>1, <2>1, <2>2
<1>5. Heeds(main, v, p, d, code, f)
  <2> SUFFICES ASSUME Waits(d, f), Stage(main) = "Free", p.dose > 0, NEW i \in 1 .. n + 2,
                      \A k \in 1 .. n + 1 : Line(main, q, p, f)[k] # "Free"
               PROVE  Line(main, v, p, f)[i] # "Free"
    BY <1>1 DEF Wiring, Heeds
  <2> QED
    BY <1>4
<1>6. LastTells(v, p, f)
  <2>1. n + 1 \in 1 .. Len(v) /\ Of(v[n + 1], f) /\ Repeats(v[n + 1], p)
        /\ \A k \in n + 1 + 1 .. Len(v) : ~Of(v[k], f)
    BY <1>1
  <2> QED
    BY <2>1 DEF LastTells
<1> QED
  BY <1>2, <1>3, <1>5, <1>6 DEF Wiring, Settled, Aware

\* What the thread waits for is still so when the dispenser keeps a dose.
LEMMA HeedsDose ==
  ASSUME NEW main, NEW q \in Seq(Frame), NEW p, NEW d, NEW code, NEW f,
         Heeds(main, q, p, d, code, f), NEW p2, p2.dose > 0, p.dose > 0 \/ code # "Reset"
  PROVE  Heeds(main, q, p2, d, code, f)
<1> SUFFICES ASSUME Waits(d, f), Stage(main) = "Free", NEW i \in 1 .. Len(q) + 1
             PROVE  Line(main, q, p2, f)[i] # "Free"
  BY DEF Heeds
<1>1. \A k \in 1 .. Len(q) + 1 : Line(main, q, p, f)[k] # "Free"
  BY DEF Heeds
<1>2. CASE i = Len(q) + 1
  <2>1. p2.dose # 0
    BY PhaseIs
  <2>2. Shows(p2) # "Free"
    BY <2>1, ShowsIs DEF Late
  <2> QED
    BY <1>2, <2>2, LineIs
<1>3. CASE i \in 1 .. Len(q)
  <2>1. Line(main, q, p2, f)[i] = Shown(q[i], f) /\ Line(main, q, p, f)[i] = Shown(q[i], f)
    BY <1>3, LineAt
  <2>2. Line(main, q, p, f)[i] # "Free"
    BY <1>1, <1>3
  <2> QED
    BY <2>1, <2>2
<1> QED
  BY <1>2, <1>3

\* A request of the link that the hardware server refuses, or that is about another point.
LEMMA WiringServed ==
  ASSUME NEW main, NEW q, NEW p, NEW u \in Seq(Message), u # <<>>, NEW d, NEW code, NEW un, NEW f,
         Wiring(main, q, p, u, d, code, un, f), NEW un2, f \in un => f \in un2
  PROVE  Wiring(main, q, p, Tail(u), d, code, un2, f)
<1>1. Link(main, q, p, Tail(u), f)
  BY LinkRefused DEF Wiring
<1>2. Plain(q, p, Tail(u), f)
  <2>1. \A j \in 1 .. Len(Tail(u)) : j + 1 \in 1 .. Len(u) /\ Tail(u)[j] = u[j + 1]
    OBVIOUS
  <2> QED
    BY <2>1 DEF Wiring, Plain
<1> QED
  BY <1>1, <1>2 DEF Wiring, Settled

LEMMA PlainServed ==
  ASSUME NEW q, NEW p, NEW p2, NEW u \in Seq(Message), u # <<>>, NEW f, Plain(q, p, u, f),
         p2.state \in Ordinary
  PROVE  Plain(q, p2, Tail(u), f)
<1>1. \A j \in 1 .. Len(Tail(u)) : j + 1 \in 1 .. Len(u) /\ Tail(u)[j] = u[j + 1]
  OBVIOUS
<1> QED
  BY <1>1 DEF Plain

\* The dispenser takes a dose: the slot has its order.
LEMMA WiringDosed ==
  ASSUME NEW main, NEW q \in Seq(Frame), NEW p, NEW u \in Seq(Message), u # <<>>, NEW d, NEW un, NEW f,
         Wiring(main, q, p, u, d, "SetDose", un, f), NEW p2, NEW un2, f \in un2,
         Is(u[1], "SetDose", f), p.state \in {"Free", "NozzleOut"}, p2.state = p.state, p2.dose > 0,
         \A r \in 1 .. Len(q) : ~OkDose(q[r], f)
  PROVE  Wiring(main, q, p2, Tail(u), d, "SetDose", un2, f)
<1>1. Link(main, q, p2, Tail(u), f)
  BY LinkDosed DEF Wiring
<1>2. Plain(q, p2, Tail(u), f)
  BY PlainServed DEF Wiring, Plain
<1>3. Heeds(main, q, p2, d, "SetDose", f)
  BY HeedsDose DEF Wiring
<1> QED
  BY <1>1, <1>2, <1>3 DEF Wiring, Settled

\* The dispenser takes a reset: the slot has its order.
LEMMA WiringReset ==
  ASSUME NEW main, NEW q \in Seq(Frame), NEW p, NEW u \in Seq(Message), u # <<>>, NEW d, NEW un, NEW f,
         Wiring(main, q, p, u, d, "Reset", un, f), NEW p2, NEW un2, f \in un2,
         p.state \in {"Free", "NozzleOut", "Finish"}, p2.dose = 0,
         p2.state = IF p.state = "Finish" THEN "Free" ELSE p.state,
         \A j \in 1 .. Len(u) : ~Is(u[j], "SetDose", f),
         \A r \in 1 .. Len(q) : ~OkDose(q[r], f)
  PROVE  Wiring(main, q, p2, Tail(u), d, "Reset", un2, f)
<1>1. Link(main, q, p2, Tail(u), f)
  BY LinkReset DEF Wiring
<1>2. Plain(q, p2, Tail(u), f)
  BY PlainServed DEF Wiring, Plain, Ordinary
<1>3. Heeds(main, q, p2, d, "Reset", f)
  <2>1. ~(p2.dose > 0)
    BY PhaseIs
  <2> QED
    BY <2>1 DEF Heeds
<1> QED
  BY <1>1, <1>2, <1>3 DEF Wiring, Settled

\* The dispenser starts.
LEMMA WiringStarted ==
  ASSUME NEW main, NEW q \in Seq(Frame), NEW p, NEW u \in Seq(Message), u # <<>>, NEW d, NEW code,
         NEW un, NEW f, Wiring(main, q, p, u, d, code, un, f), NEW p2, NEW un2, f \in un2,
         Is(u[1], "Start", f), p.state = "NozzleOut", p.dose > 0, p2.state = "Filling", p2.dose = p.dose
  PROVE  Wiring(main, q, p2, Tail(u), d, code, un2, f)
<1>1. Link(main, q, p2, Tail(u), f)
  BY LinkStarted DEF Wiring
<1>2. Plain(q, p2, Tail(u), f)
  BY PlainServed DEF Wiring, Plain, Ordinary
<1>3. Heeds(main, q, p2, d, code, f)
  BY HeedsDose DEF Wiring
<1> QED
  BY <1>1, <1>2, <1>3 DEF Wiring, Settled

\* A customer lifts the nozzle or hangs it up.
LEMMA WiringNozzle ==
  ASSUME NEW main, NEW q \in Seq(Frame), NEW p, NEW u \in Seq(Message), NEW d, NEW code, NEW un, NEW f,
         Wiring(main, q, p, u, d, code, un, f), p.dose = 0 \/ p.dose > 0, f \notin un, NEW un2, f \in un2,
         NEW p2, p2.dose = p.dose, p.state \in {"Free", "NozzleOut"}, p2.state \in {"Free", "NozzleOut"}
  PROVE  Wiring(main, q, p2, u, d, code, un2, f)
<1>1. Aware(main, q, p, f)
  BY DEF Wiring, Settled
<1>2. Link(main, q, p2, u, f)
  BY <1>1, LinkNozzle DEF Wiring
<1>3. Plain(q, p2, u, f)
  BY DEF Wiring, Plain, Ordinary
<1>4. Heeds(main, q, p2, d, code, f)
  <2>1. CASE p.dose > 0
    BY <2>1, HeedsDose DEF Wiring
  <2>2. CASE ~(p.dose > 0)
    BY <2>2 DEF Wiring, Heeds
  <2> QED
    BY <2>1, <2>2
<1> QED
  BY <1>2, <1>3, <1>4 DEF Wiring, Settled

\* A fill ends.
LEMMA WiringFilled ==
  ASSUME NEW main, NEW q \in Seq(Frame), NEW p, NEW u \in Seq(Message), NEW d, NEW code, NEW un, NEW f,
         Wiring(main, q, p, u, d, code, un, f), f \notin un, NEW un2, f \in un2,
         NEW p2, p.state \in {"Filling", "Stopped"}, p2.state = "Finish", p2.dose = 0
  PROVE  Wiring(main, q, p2, u, d, code, un2, f)
<1>1. Aware(main, q, p, f) /\ p.state = "Filling"
  BY DEF Wiring, Settled, Plain, Ordinary
<1>2. Link(main, q, p2, u, f)
  BY <1>1, LinkFilled DEF Wiring
<1>3. Plain(q, p2, u, f)
  BY DEF Wiring, Plain, Ordinary
<1>4. Stage(main) # "Free"
  <2> PICK x, n : x = Line(main, q, p, f) /\ n = Len(q) + 1
    OBVIOUS
  <2>0. Shows(p) = "Filling"
    BY <1>1, ShowsIs DEF Late
  <2>1. x[0] = Stage(main) /\ x[n] = "Filling" /\ n \in Nat /\ n > 0
    BY <2>0, LineIs
  <2>2. 0 \in 0 .. n /\ n \in 0 .. n /\ 0 < n
    BY <2>1
  <2>3. InOrder(x, n)
    BY DEF Wiring, Link
  <2> QED
    BY <2>1, <2>2, <2>3 DEF InOrder, Late
<1>5. Heeds(main, q, p2, d, code, f)
  BY <1>4 DEF Heeds
<1> QED
  BY <1>2, <1>3, <1>5 DEF Wiring, Settled

\* The first frame is taken: the rest of the line stays.
LEMMA LineTaken ==
  ASSUME NEW main, NEW new, NEW q \in Seq(Frame), q # <<>>, NEW p, NEW f, NEW i \in 1 .. Len(q)
  PROVE  Line(new, Tail(q), p, f)[i] = Line(main, q, p, f)[i + 1]
<1> PICK v : v = Tail(q)
  OBVIOUS
<1>1. /\ v \in Seq(Frame) /\ Len(v) + 1 = Len(q) /\ Len(v) \in Nat
      /\ \A j \in 1 .. Len(v) : j + 1 \in 1 .. Len(q) /\ v[j] = q[j + 1]
  OBVIOUS
<1>2. Len(v) \in Nat /\ Len(v) + 1 = Len(q)
  OBVIOUS
<1>3. PICK k : k = Len(v)
  OBVIOUS
<1>4. k \in Nat /\ Len(q) = k + 1
  BY <1>2, <1>3
<1>5. i \in 1 .. k + 1
  BY <1>4
<1>6. CASE i = Len(q)
  <2>1. /\ i \in 0 .. Len(v) + 1 /\ i # 0 /\ i = Len(v) + 1
        /\ i + 1 \in 0 .. Len(q) + 1 /\ i + 1 # 0 /\ i + 1 = Len(q) + 1
    BY <1>1, <1>6
  <2> QED
    BY <2>1 DEF Line
<1>7. CASE i \in 1 .. Len(v)
  <2>1. v[i] = q[i + 1] /\ i + 1 \in 1 .. Len(q)
    BY <1>1, <1>7
  <2>0. i \in 0 .. Len(v) + 1 /\ i # 0 /\ i # Len(v) + 1
    <3>1. i \in 0 .. k + 1 /\ i # 0 /\ i # k + 1
      BY <1>3, <1>4, <1>7
    <3> QED
      BY <1>3, <3>1
  <2>2. Line(new, v, p, f)[i] = Shown(v[i], f)
    BY <2>0 DEF Line
  <2>3. Line(main, q, p, f)[i + 1] = Shown(q[i + 1], f)
    BY <2>1, LineAt
  <2> QED
    BY <2>1, <2>2, <2>3
<1>8. i = Len(q) \/ i \in 1 .. Len(v)
  <2>1. i = k + 1 \/ i \in 1 .. k
    BY <1>4, <1>5
  <2> QED
    BY <1>3, <1>4, <2>1
<1> QED
  BY <1>6, <1>7, <1>8

\* What the rest of the frames are and say.
LEMMA PlainTaken ==
  ASSUME NEW q \in Seq(Frame), q # <<>>, NEW p, NEW u, NEW f, Plain(q, p, u, f)
  PROVE  Plain(Tail(q), p, u, f)
<1>1. \A j \in 1 .. Len(Tail(q)) : j + 1 \in 1 .. Len(q) /\ Tail(q)[j] = q[j + 1]
  OBVIOUS
<1> QED
  BY <1>1 DEF Plain

LEMMA TellsTaken ==
  ASSUME NEW q \in Seq(Frame), q # <<>>, NEW p, NEW f, LastTells(q, p, f)
  PROVE  \/ LastTells(Tail(q), p, f)
         \/ Of(q[1], f) /\ Repeats(q[1], p) /\ Unseen(Tail(q), f)
<1> PICK v : v = Tail(q)
  OBVIOUS
<1>1. /\ v \in Seq(Frame) /\ Len(v) + 1 = Len(q)
      /\ \A j \in 1 .. Len(v) : j + 1 \in 1 .. Len(q) /\ v[j] = q[j + 1]
  OBVIOUS
<1>2. PICK j \in 1 .. Len(q) : /\ Of(q[j], f) /\ Repeats(q[j], p)
                               /\ \A k \in j + 1 .. Len(q) : ~Of(q[k], f)
  BY DEF LastTells
<1>3. CASE j = 1
  <2>1. \A k \in 1 .. Len(v) : ~Of(v[k], f)
    BY <1>1, <1>2, <1>3
  <2> QED
    BY <1>2, <1>3, <2>1 DEF Unseen
<1>4. CASE j # 1
  <2> PICK i : i = j - 1
    OBVIOUS
  <2>1. i \in 1 .. Len(v) /\ v[i] = q[j]
    BY <1>1, <1>4
  <2>2. \A k \in i + 1 .. Len(v) : ~Of(v[k], f)
    BY <1>1, <1>2
  <2> QED
    BY <1>2, <2>1, <2>2 DEF LastTells
<1> QED
  BY <1>3, <1>4

\* A frame that shows nothing of f; when it is the answer that the dose was taken, the
\* thread waits for it.
LEMMA WiringAnswered ==
  ASSUME NEW main, NEW q \in Seq(Frame), q # <<>>, NEW p, NEW u \in Seq(Message), NEW d, NEW code,
         NEW un, NEW f, Wiring(main, q, p, u, d, code, un, f), ~Of(q[1], f),
         NEW d2, Waits(d2, f) => OkDose(q[1], f), NEW code2
  PROVE  Wiring(main, Tail(q), p, u, d2, code2, un, f)
<1>1. Shown(q[1], f) = "none"
  BY DEF Shown
<1>2. Link(main, Tail(q), p, u, f)
  BY <1>1, LinkTaken DEF Wiring
<1>3. Plain(Tail(q), p, u, f)
  BY PlainTaken DEF Wiring
<1>4. Aware(main, q, p, f) => Aware(main, Tail(q), p, f)
  <2>1. \A j \in 1 .. Len(Tail(q)) : j + 1 \in 1 .. Len(q) /\ Tail(q)[j] = q[j + 1]
    OBVIOUS
  <2>2. Unseen(q, f) => Unseen(Tail(q), f)
    BY <2>1 DEF Unseen
  <2> QED
    BY <2>2, TellsTaken DEF Aware
<1>5. Heeds(main, Tail(q), p, d2, code2, f)
  <2> SUFFICES ASSUME Waits(d2, f), Stage(main) = "Free"
               PROVE  p.dose > 0 /\ \A i \in 1 .. Len(q) : Line(main, Tail(q), p, f)[i] # "Free"
    BY DEF Heeds
  <2> PICK x, n : x = Line(main, q, p, f) /\ n = Len(q) + 1
    OBVIOUS
  <2>1. /\ n \in Nat /\ 1 \in 1 .. Len(q) /\ OkDose(q[1], f)
        /\ InOrder(x, n) /\ Granted(x, n, q, p, f)
    BY DEF Wiring, Link
  <2>2. IF p.dose > 0 THEN \A i \in 1 + 1 .. n : x[i] # "Free" ELSE p.state = "Finish"
    BY <2>1 DEF Granted
  <2>3. p.state # "Finish"
    <3> SUFFICES ASSUME p.state = "Finish" PROVE FALSE
      OBVIOUS
    <3>1. Shows(p) = "Finish"
      BY ShowsIs DEF Late
    <3>2. x[0] = "Free" /\ x[n] = "Finish"
      BY <3>1, LineIs
    <3>3. 0 \in 0 .. n /\ n \in 0 .. n /\ 0 < n
      BY <2>1
    <3> QED
      BY <2>1, <3>2, <3>3 DEF InOrder, Late
  <2>4. ASSUME NEW i \in 1 .. Len(q) PROVE Line(main, Tail(q), p, f)[i] # "Free"
    <3>1. i + 1 \in 1 + 1 .. n
      OBVIOUS
    <3>2. x[i + 1] # "Free"
      BY <2>2, <2>3, <3>1
    <3> QED
      BY <3>2, LineTaken
  <2> QED
    BY <2>2, <2>3, <2>4
<1> QED
  BY <1>2, <1>3, <1>4, <1>5 DEF Wiring, Settled

\* A frame about f, of which the thread makes a record with the state new.
LEMMA WiringTaken ==
  ASSUME NEW main, NEW q \in Seq(Frame), q # <<>>, NEW p, NEW u \in Seq(Message), NEW d, NEW code,
         NEW un, NEW f, Wiring(main, q, p, u, d, code, un, f), Of(q[1], f), NEW new,
         Stage(new) = Shown(q[1], f) \/ (Stage(new) = Stage(main) /\ Stage(main) = "Free"),
         Repeats(q[1], p) => Fitting(new, p), NEW d2, ~Waits(d2, f), NEW code2
  PROVE  Wiring(new, Tail(q), p, u, d2, code2, un, f)
<1>1. Link(new, Tail(q), p, u, f)
  BY LinkTaken DEF Wiring
<1>2. Plain(Tail(q), p, u, f)
  BY PlainTaken DEF Wiring
<1>3. ~Unseen(q, f)
  BY DEF Unseen
<1>4. Aware(main, q, p, f) => Aware(new, Tail(q), p, f)
  BY <1>3, TellsTaken DEF Aware
<1> QED
  BY <1>1, <1>2, <1>4 DEF Wiring, Settled, Heeds

\* The dispenser is started.
LEMMA WiringRaised ==
  ASSUME NEW q \in Seq(Frame), NEW p, NEW u \in Seq(Message), NEW d, NEW code, NEW un, NEW f,
         Wiring("PreAuthorized", q, p, u, d, code, un, f), p.dose = 0 \/ p.dose > 0, Waits(d, f),
         code = "Reset" => \A j \in 1 .. Len(u) : ~Is(u[j], "SetDose", f),
         NEW m \in Message, Is(m, "Start", f), NEW d2, ~Waits(d2, f), NEW code2
  PROVE  Wiring("Starting", q, p, Append(u, m), d2, code2, un, f)
<1>1. Stage("PreAuthorized") = "Free"
  BY DEF Stage
<1>2. /\ p.dose > 0 => \A i \in 1 .. Len(q) + 1 : Line("PreAuthorized", q, p, f)[i] # "Free"
      /\ ~(p.dose > 0) => code = "Reset"
  BY <1>1 DEF Wiring, Heeds
<1>3. p.dose = 0 => ~(p.dose > 0)
  BY PhaseIs
<1>4. Link("Starting", q, p, Append(u, m), f)
  BY <1>1, <1>2, <1>3, LinkRaised DEF Wiring, Is
<1>5. Plain(q, p, Append(u, m), f)
  BY DEF Wiring, Plain, Is
<1>6. Fitting("PreAuthorized", p) => Fitting("Starting", p)
  BY DEF Wiring, Plain, Ordinary, Fitting, Fits
<1> QED
  BY <1>4, <1>5, <1>6 DEF Wiring, Settled, Aware, Heeds

-----------------------------------------------------------------------------
(* What a frame makes of the state of a record.                            *)

Normal == {"Idle", "Calling", "PreAuthorized", "Starting", "Fuelling", "Unavailable"}

LEMMA SeenMain ==
  ASSUME NEW rec \in Record, rec.main \in Normal, NEW m \in DataFrame, m.state \in Ordinary, NEW s, NEW t,
         s = Stage(rec.main), t = Phase(m.state, m.order = "free"),
         s = "Free" => t \notin Late, s = "Finish" => t # "Filling",
         ~(s = "Ready" /\ t = "Finish"), ~(s \in Late /\ t = "Ready"),
         NEW new, new = Seen(rec, m).main
  PROVE  /\ new \in Normal /\ (Stage(new) = t \/ (Stage(new) = s /\ s = "Free"))
         /\ s = "Free" => Stage(new) = "Free"
         /\ \A p : Repeats(m, p) /\ (p.dose = 0 \/ p.dose > 0) => Fitting(new, p)
<1>0. /\ m.order \in {"free", "set"} /\ rec.main \in Mains
      /\ \A main \in Mains : /\ [rec EXCEPT !.main = main, !.stopped = FALSE].main = main
                             /\ [rec EXCEPT !.main = main, !.preset = FALSE, !.stopped = FALSE].main = main
                             /\ [rec EXCEPT !.main = main].main = main
      /\ [rec EXCEPT !.stopped = FALSE].main = rec.main
  BY DEF Record, DataFrame
<1>1. CASE m.state = "Free" /\ m.order = "free"
  <2>1. new = "Idle"
    BY <1>0, <1>1 DEF Seen, Mains
  <2>2. t = "Free"
    BY <1>1 DEF Phase, Late
  <2> QED
    BY <1>1, <2>1, <2>2 DEF Normal, Stage, Repeats, Fitting, Fits
<1>2. CASE m.state = "Free" /\ m.order # "free"
  <2>1. new = rec.main
    BY <1>0, <1>2 DEF Seen, Mains
  <2>2. t = "Ready" /\ rec.main \in {"Idle", "Calling", "PreAuthorized", "Starting"}
    BY <1>2 DEF Phase, Late, Normal, Stage
  <2>3. \A p : Repeats(m, p) /\ (p.dose = 0 \/ p.dose > 0) => p.state = "Free" /\ p.dose > 0
    BY <1>2 DEF Repeats
  <2> QED
    BY <2>1, <2>2, <2>3 DEF Normal, Stage, Fitting, Fits
<1>3. CASE m.state = "NozzleOut"
  <2>1. new = IF rec.main = "Calling" /\ rec.preset THEN "PreAuthorized"
              ELSE IF rec.main \in NotYetAuthorized THEN "Calling" ELSE rec.main
    BY <1>0, <1>3 DEF Seen, Mains
  <2>2. t = "Ready" /\ rec.main \in {"Idle", "Calling", "PreAuthorized", "Starting"}
    BY <1>3 DEF Phase, Late, Normal, Stage
  <2>3. \A p : Repeats(m, p) => p.state = "NozzleOut"
    BY <1>3 DEF Repeats
  <2>4. new \in {"Calling", "PreAuthorized", "Starting"} /\ (s = "Ready" => new = "Starting")
        /\ (s = "Free" => new # "Starting")
    BY <2>1, <2>2 DEF NotYetAuthorized, Stage
  <2> QED
    BY <2>2, <2>3, <2>4 DEF Normal, Stage, Fitting, Fits
<1>4. CASE m.state = "Filling"
  <2>1. new = "Fuelling"
    BY <1>0, <1>4 DEF Seen, Mains, Normal
  <2>2. t = "Filling"
    BY <1>4 DEF Phase, Late
  <2> QED
    BY <1>4, <2>1, <2>2 DEF Normal, Stage, Repeats, Fitting, Fits, Late
<1>5. CASE m.state = "Finish"
  <2>1. t = "Finish" /\ rec.main \in {"Fuelling", "Unavailable"}
    BY <1>5 DEF Phase, Late, Normal, Stage
  <2>2. m.sale \in Nat
    BY DEF DataFrame
  <2>3. new = "Unavailable"
    BY <1>0, <1>5, <2>1, <2>2, WithSaleType DEF Seen
  <2> QED
    BY <1>5, <2>1, <2>3 DEF Normal, Stage, Repeats, Fitting, Fits, Late
<1> QED
  BY <1>1, <1>2, <1>3, <1>4, <1>5 DEF Ordinary

-----------------------------------------------------------------------------
(* What the data of a dispenser make of the thread, and what holds throughout. *)

\* The thread of the link of c goes on as p, with what it makes of the first frame, m.
Makes(c, m, rec, p) ==
    /\ down[c] # <<>> /\ m = down[c][1] /\ m \in DataFrame
    /\ down' = [down EXCEPT ![c] = Tail(@)]
    /\ rec \in Record /\ rec.main = fp[m.f].main
    /\ thr[Dev(c)] = Idle /\ thr' = [thr EXCEPT ![Dev(c)] = p]
    /\ p.f = m.f /\ p.pc \in Working /\ p.msg = NoRecord
    /\ p.own # NoRecord /\ p.own.main = Seen(rec, m).main
    /\ p.copy # NoRecord => /\ p.copy.main = rec.main /\ rec.main = "Calling"
                            /\ p.pc \in {"authorize", "update"}
    /\ UNCHANGED <<fp, slot, up, unsent, pump, stored, left, seen>>

LEMMA DataMakes ==
  ASSUME IInv, NEW c \in Clients, Data(c)
  PROVE  \E m, rec, p : Makes(c, m, rec, p)
<1> PICK t : t = Dev(c)
  OBVIOUS
<1>0. PICK m, rec, does, own :
      /\ m = Heard(Head(down[c])) /\ rec = Counted(fp[m.f], m) /\ does = Calls(rec, m)
      /\ own = [Seen(rec, m) EXCEPT !.grade = m.nozzle]
  OBVIOUS
<1> PICK cp, pc : /\ cp = IF does = "authorize" THEN rec ELSE NoRecord
                  /\ pc = IF does = "authorize" /\ ~rec.grade THEN "update" ELSE does
  OBVIOUS
<1> PICK p : p = [Idle EXCEPT !.f = m.f, !.own = own, !.copy = cp, !.pc = pc]
  OBVIOUS
<1>1. /\ thr[t].pc = "idle" /\ down[c] # <<>> /\ Head(down[c]).kind = "data"
      /\ thr' = IF "Number" \notin DataTaken THEN thr ELSE [thr EXCEPT ![t] = p]
      /\ down' = [down EXCEPT ![c] = Tail(@)]
      /\ UNCHANGED <<fp, slot, up, unsent, pump, stored, left, seen>>
  BY <1>0, Zenon DEF Data
<1>2. /\ Types /\ Tables /\ Wires /\ t \in Threads /\ thr[t] = Idle
  <2>1. /\ Types /\ Tables /\ Wires /\ Placed /\ t \in Threads
    BY ThreadsAre DEF IInv, Types
  <2> QED
    BY <1>1, <2>1 DEF Placed, Proper
<1>3. Head(down[c]) \in Frame /\ Head(down[c]) = down[c][1]
  BY <1>1, <1>2, TakenIs
<1>4. m \in DataFrame /\ m = down[c][1] /\ m.f \in Points
  <2>1. Head(down[c]) \in DataFrame
    BY <1>1, <1>3 DEF Frame, ReplyFrame
  <2>2. m = Head(down[c])
    BY <1>0, <2>1, HeardSame
  <2> QED
    BY <1>3, <2>1, <2>2 DEF DataFrame
<1>5. rec \in Record /\ rec.main = fp[m.f].main
  <2> PICK r : r = fp[m.f]
    OBVIOUS
  <2>1. r \in Record /\ m.counter \in Nat
    BY <1>2, <1>4 DEF Tables, DataFrame
  <2>2. rec = [r EXCEPT !.total = m.counter]
    BY <1>0, DataRead DEF Counted
  <2> QED
    BY <2>1, <2>2 DEF Record
<1>6. own # NoRecord /\ own.main = Seen(rec, m).main
  <2> PICK r : r = Seen(rec, m)
    OBVIOUS
  <2>1. r \in Record /\ m.nozzle \in BOOLEAN
    BY <1>4, <1>5, SeenType DEF DataFrame
  <2>2. own = [r EXCEPT !.grade = m.nozzle]
    BY <1>0
  <2>3. own \in Record /\ own.main = r.main
    BY <2>1, <2>2 DEF Record
  <2> QED
    BY <2>3, RecordIsOne
<1>7. p.f = m.f /\ p.own = own /\ p.copy = cp /\ p.pc = pc /\ p.msg = NoRecord
  BY DEF Idle
<1>8. does \in {"authorize", "reset", "store"} /\ (does = "authorize" => rec.main = "Calling")
  BY <1>0, CallsType, Zenon DEF Calls
<1>9. pc \in Working /\ (cp # NoRecord => cp = rec /\ rec.main = "Calling" /\ pc \in {"authorize", "update"})
  BY <1>8 DEF Working
<1>10. thr' = [thr EXCEPT ![t] = p]
  BY <1>1, DataRead
<1>11. Makes(c, m, rec, p)
  BY <1>1, <1>2, <1>4, <1>5, <1>6, <1>7, <1>9, <1>10 DEF Makes
<1> QED
  BY <1>11

\* A copy on its way through authorize_fp has the dose that it is about to send.
Careful(p) == p.copy # NoRecord => /\ p.pc \notin {"reset", "params"}
                                   /\ p.pc \in {"code", "name", "send"} => p.copy.dose > 0
Dosed == \A c \in Clients : \A j \in 1 .. Len(up[c]) : up[c][j].code = "SetDose" => up[c][j].dose > 0
Measured == \A f \in Points : pump[f].dose = 0 \/ pump[f].dose > 0
Positive == (\A t \in Threads : Careful(thr[t])) /\ Dosed /\ Measured

\* A client whose link was not there at first sends and hears nothing.
Mute(c) == c \notin left.links => up[c] = <<>> /\ down[c] = <<>> /\ thr[Dev(c)].msg = NoRecord

\* Thread t alone moves, to p.
LEMMA CarefulMoves ==
  ASSUME IInv, \A u \in Threads : Careful(thr[u]), NEW t \in Threads, NEW p, Careful(p),
         thr' = [thr EXCEPT ![t] = p]
  PROVE  \A u \in Threads : Careful(thr'[u])
<1>1. \A u \in Threads : thr'[u] = IF u = t THEN p ELSE thr[u]
  BY DEF IInv, Types, Placed
<1> QED
  BY <1>1

LEMMA CarefulKept ==
  ASSUME IInv, \A t \in Threads : Careful(thr[t]), [Next]_vars
  PROVE  \A t \in Threads : Careful(thr'[t])
<1>1. CASE Walking
  <2> TAKE t \in Threads
  <2> PICK p, q : p = thr[t] /\ q = thr'[t]
    OBVIOUS
  <2>1. Walks(p, q) /\ Careful(p)
    BY <1>1 DEF Walking
  <2>2. CASE q = p
    BY <2>1, <2>2
  <2>3. CASE Turns(p, q)
    BY <2>1, <2>3 DEF Turns, Careful
  <2>4. CASE Begins(p, q)
    BY <2>4 DEF Begins, Careful
  <2>5. q.copy = NoRecord => Careful(q)
    BY DEF Careful
  <2> QED
    BY <2>1, <2>2, <2>3, <2>4, <2>5 DEF Walks
<1>2. ASSUME NEW t \in Threads, Update(t) PROVE \A u \in Threads : Careful(thr'[u])
  <2>1. Returns(t) /\ thr[t].pc \in Working /\ Placed /\ t[2] \in {"pos", "dev"}
    BY <1>2, ThreadsAre DEF Update, Working, IInv, Types
  <2>2. thr'[t].copy = NoRecord /\ \A u \in Threads \ {t} : thr'[u] = thr[u]
    BY <2>1, ReturnIs DEF Idle
  <2> QED
    BY <2>2 DEF Careful
<1>3. ASSUME NEW c \in Clients, Store(c) PROVE \A u \in Threads : Careful(thr'[u])
  <2>1. Done(Dev(c)) /\ Dev(c) \in Threads /\ Careful(Idle)
    BY <1>3, ThreadsAre DEF Store, Careful, Idle
  <2> QED
    BY <2>1, CarefulMoves DEF Done
<1>4. ASSUME NEW c \in Clients, Data(c) PROVE \A u \in Threads : Careful(thr'[u])
  <2>1. PICK m, rec, p : Makes(c, m, rec, p)
    BY <1>4, DataMakes
  <2>2. Careful(p) /\ thr' = [thr EXCEPT ![Dev(c)] = p] /\ Dev(c) \in Threads
    BY <2>1, ThreadsAre DEF Makes, Careful
  <2> QED
    BY <2>2, CarefulMoves
<1> QED
  BY <1>1, <1>2, <1>3, <1>4, StepsWalk

\* What thread t sends: an order with the dose of its copy.
Ordered(m, t) ==
    /\ Send(t) /\ m.code = Code(t) /\ m.f = thr[t].f
    /\ m.code = "SetDose" => thr[t].copy # NoRecord /\ m.dose = thr[t].copy.dose
Origin(c, m) ==
    \/ m.code = "Start" /\ StartFill(c)
    \/ m.code \in {"Suspend", "Resume"} /\ m.f \in seen'.forced
    \/ \E t \in {Pos(c), Dev(c)} : Ordered(m, t)

LEMMA SendsAppends ==
  ASSUME IInv, NEW d \in Clients, NEW m \in Message, Sends(d, m), NEW c \in Clients
  PROVE  up'[c] = up[c] \/ (c = d /\ stored[c] /\ up'[c] = Append(up[c], m))
<1>1. up \in [Clients -> Seq(Message)]
  BY DEF IInv, Types, Wires
<1> QED
  BY <1>1 DEF Sends

\* The requests on the link of c after a step.
Posts(c) == stored[c] /\ \E m \in Message : up'[c] = Append(up[c], m) /\ Origin(c, m)

LEMMA ProceduresPost ==
  ASSUME IInv, NEW t \in Threads, Procedures(t), NEW c \in Clients
  PROVE  up'[c] = up[c] \/ Posts(c)
<1>1. CASE Send(t)
  <2> PICK m : m = [code |-> Code(t), f |-> thr[t].f, by |-> thr[t].by,
                    dose |-> IF thr[t].copy # NoRecord THEN thr[t].copy.dose ELSE 0]
    OBVIOUS
  <2>1. /\ Types /\ Placed /\ Proper(t, thr[t]) /\ t[1] \in Clients /\ thr[t] \in Thread
        /\ thr[t].pc = "send" /\ Sends(t[1], m) /\ t[2] \in {"pos", "dev"}
        /\ t \in {Pos(t[1]), Dev(t[1])}
    BY <1>1, ThreadsAre DEF Send, IInv, Types, Placed
  <2>2. m \in Message
    <3>1. thr[t].f \in Points /\ thr[t].by \in Nat
      BY <2>1 DEF Proper, Working, Thread
    <3>2. thr[t].copy # NoRecord => thr[t].copy \in Record
      BY <2>1 DEF Thread
    <3>3. m.dose \in Doses \cup {0}
      BY <3>2 DEF Record
    <3>4. Code(t) \in Codes
      BY DEF Code, Codes, Commands
    <3> QED
      BY <3>1, <3>3, <3>4 DEF Message
  <2>3. up'[c] = up[c] \/ (c = t[1] /\ stored[c] /\ up'[c] = Append(up[c], m))
    BY <2>1, <2>2, SendsAppends
  <2>4. Ordered(m, t)
    BY <1>1 DEF Ordered, Code
  <2> QED
    BY <2>1, <2>2, <2>3, <2>4 DEF Posts, Origin
<1>2. CASE ~Send(t)
  <2>1. UNCHANGED up
    BY <1>2, Zenon DEF Procedures, Unauthorized, Authorize, Reset, SetCode, SetName, Params, Update
  <2> QED
    BY <2>1
<1> QED
  BY <1>1, <1>2

LEMMA RequestsPost ==
  ASSUME IInv, NEW d \in Clients, Requests(d), NEW c \in Clients
  PROVE  up'[c] = up[c] \/ Posts(c)
<1>1. ASSUME NEW code \in {"Suspend", "Resume"}, NEW g \in Points, NEW r, Passes(d, code, g, r)
      PROVE  up'[c] = up[c] \/ Posts(c)
  <2> PICK m : m = [code |-> code, f |-> g, by |-> NoRequest, dose |-> 0]
    OBVIOUS
  <2>1. CASE ~stored[d]
    BY <1>1, <2>1 DEF Passes
  <2>2. CASE stored[d]
    <3> PICK v, w : v = seen.stale \cup Holders(g, Pos(d)) /\ w = seen.forced \cup {g}
      OBVIOUS
    <3>1. Sends(d, m) /\ seen' = [seen EXCEPT !.stale = v, !.forced = w]
      BY <1>1, <2>2 DEF Passes
    <3>2. m \in Message /\ m.code = code /\ m.f = g
      BY DEF Message, NoRequest, Codes
    <3>3. g \in seen'.forced
      BY <3>1 DEF IInv, Types, Tables
    <3>4. up'[c] = up[c] \/ (c = d /\ stored[c] /\ up'[c] = Append(up[c], m))
      BY <3>1, <3>2, SendsAppends
    <3> QED
      BY <3>2, <3>3, <3>4 DEF Posts, Origin
  <2> QED
    BY <2>1, <2>2
<1>2. CASE AskStop(d) \/ AskResume(d)
  <2>1. \E code \in {"Suspend", "Resume"}, g \in Points, r \in {fp[f] : f \in Points} \cup
            {[fp[f] EXCEPT !.main = "FuellingPaused", !.stopped = TRUE] : f \in Points} \cup
            {[fp[f] EXCEPT !.main = "Fuelling", !.stopped = FALSE] : f \in Points} :
              Passes(d, code, g, r)
    BY <1>2 DEF AskStop, AskResume
  <2> QED
    BY <1>1, <2>1
<1>3. CASE ~(AskStop(d) \/ AskResume(d))
  <2>1. UNCHANGED up
    BY <1>3, Zenon DEF Requests, AskAuthorize, AskReset, AskClear, AskOpen, AskClose
  <2> QED
    BY <2>1
<1> QED
  BY <1>2, <1>3

LEMMA DevicePosts ==
  ASSUME IInv, NEW d \in Clients, DeviceThread(d), NEW c \in Clients
  PROVE  up'[c] = up[c] \/ Posts(c) \/ (c = d /\ Reconnect(c))
<1>1. CASE StartFill(d)
  <2> PICK frame, m : /\ frame = thr[Dev(d)].msg
                      /\ m = [code |-> "Start", f |-> frame.f, by |-> NoRequest, dose |-> 0]
    OBVIOUS
  <2>1. UNCHANGED up \/ Sends(d, m)
    BY <1>1 DEF StartFill
  <2>2. m \in Message /\ m.code = "Start"
    <3>1. thr[Dev(d)].pc = "start" /\ Dev(d) \in Threads /\ Dev(d)[2] = "dev"
      BY <1>1, ThreadsAre DEF StartFill
    <3>2. frame \in ReplyFrame
      BY <3>1 DEF IInv, Types, Placed, Proper
    <3> QED
      BY <3>2 DEF ReplyFrame, Message, NoRequest, Codes
  <2>3. up'[c] = up[c] \/ (c = d /\ stored[c] /\ up'[c] = Append(up[c], m))
    BY <2>1, <2>2, SendsAppends
  <2> QED
    BY <1>1, <2>2, <2>3 DEF Posts, Origin
<1>2. CASE Reconnect(d)
  <2>1. up' = [up EXCEPT ![d] = <<>>]
    BY <1>2 DEF Reconnect
  <2>2. c # d => up'[c] = up[c]
    BY <2>1 DEF IInv, Types, Wires
  <2> QED
    BY <1>2, <2>2
<1>3. CASE ~StartFill(d) /\ ~Reconnect(d)
  <2>1. UNCHANGED up
    BY <1>3, Zenon DEF DeviceThread, Data, Store, Reply, Timeout, Forget, ForgetTime
  <2> QED
    BY <2>1
<1> QED
  BY <1>1, <1>2, <1>3

LEMMA StepsPost ==
  ASSUME IInv, [Next]_vars, NEW c \in Clients
  PROVE  up'[c] = up[c] \/ Posts(c) \/ Serve(c) \/ Reconnect(c)
<1>1. ASSUME NEW d \in Clients, Serve(d) PROVE up'[c] = up[c] \/ Serve(c)
  <2>1. up' = [up EXCEPT ![d] = Tail(@)]
    BY <1>1 DEF Serve
  <2>2. c # d => up'[c] = up[c]
    BY <2>1 DEF IInv, Types, Wires
  <2> QED
    BY <1>1, <2>2
<1>2. ASSUME NEW d \in Clients, Push(d) PROVE UNCHANGED up
  BY <1>2, Zenon DEF Push
<1>3. ASSUME NEW f \in Points, Nozzle(f) \/ Repeat(f) \/ Filled(f) PROVE UNCHANGED up
  BY <1>3, Zenon DEF Nozzle, Repeat, Filled
<1>4. UNCHANGED vars => UNCHANGED up
  BY DEF vars
<1>5. ASSUME NEW d \in Clients, DeviceThread(d)
      PROVE  up'[c] = up[c] \/ Posts(c) \/ Reconnect(c)
  BY <1>5, DevicePosts
<1>6. UNCHANGED up => up'[c] = up[c]
  OBVIOUS
<1> QED
  BY <1>1, <1>2, <1>3, <1>4, <1>5, <1>6, ProceduresPost, RequestsPost DEF Next

LEMMA StepsHear ==
  ASSUME IInv, [Next]_vars, NEW c \in Clients
  PROVE  down'[c] = down[c] \/ Data(c) \/ Reply(c) \/ Serve(c) \/ Push(c) \/ Reconnect(c)
<1>0. down \in [Clients -> Seq(Frame)]
  BY DEF IInv, Types, Wires
<1>1. ASSUME NEW d \in Clients, Serve(d) \/ Push(d) PROVE c = d \/ down'[c] = down[c]
  <2>1. CASE Serve(d)
    <3>1. \E v : down' = [down EXCEPT ![d] = v] \/ down' = down
      BY <2>1 DEF Serve
    <3> QED
      BY <1>0, <3>1
  <2>2. CASE Push(d)
    <3>1. \E v : down' = [down EXCEPT ![d] = v]
      BY <2>2, Zenon DEF Push
    <3> QED
      BY <1>0, <3>1
  <2> QED
    BY <1>1, <2>1, <2>2
<1>2. ASSUME NEW d \in Clients, DeviceThread(d)
      PROVE  c = d \/ down'[c] = down[c]
  <2>1. CASE Data(d) \/ Reply(d) \/ Reconnect(d)
    <3>1. \E v : down' = [down EXCEPT ![d] = v]
      BY <2>1, Zenon DEF Data, Reply, Reconnect
    <3> QED
      BY <1>0, <3>1
  <2>2. CASE ~(Data(d) \/ Reply(d) \/ Reconnect(d))
    <3>1. UNCHANGED down
      BY <1>2, <2>2, Zenon DEF DeviceThread, Store, Timeout, Forget, ForgetTime, StartFill
    <3> QED
      BY <3>1
  <2> QED
    BY <2>1, <2>2
<1>3. ASSUME DeviceThread(c), ~Data(c), ~Reply(c), ~Reconnect(c) PROVE UNCHANGED down
  BY <1>3, Zenon DEF DeviceThread, Store, Timeout, Forget, ForgetTime, StartFill
<1>4. ASSUME NEW t \in Threads, Procedures(t) PROVE UNCHANGED down
  BY <1>4, Zenon DEF Procedures, Unauthorized, Authorize, Reset, SetCode, SetName, Send, Params, Update
<1>5. ASSUME NEW d \in Clients, Requests(d) PROVE UNCHANGED down
  BY <1>5, Zenon DEF Requests, AskAuthorize, AskReset, AskClear, AskOpen, AskClose, AskStop, AskResume
<1>6. ASSUME NEW f \in Points, Nozzle(f) \/ Repeat(f) \/ Filled(f) PROVE UNCHANGED down
  BY <1>6, Zenon DEF Nozzle, Repeat, Filled
<1>7. UNCHANGED vars => UNCHANGED down
  BY DEF vars
<1>8. UNCHANGED down => down'[c] = down[c]
  OBVIOUS
<1> QED
  BY <1>1, <1>2, <1>3, <1>4, <1>5, <1>6, <1>7, <1>8 DEF Next

\* The answer that a thread is about comes off its link.
LEMMA StepsNote ==
  ASSUME IInv, [Next]_vars, NEW c \in Clients
  PROVE  thr'[Dev(c)].msg \in {thr[Dev(c)].msg, NoRecord} \/ Reply(c)
<1>0. /\ thr \in [Threads -> Thread] /\ Dev(c) \in Threads
      /\ \A u \in Threads : u # Dev(c) => u[2] = "pos" \/ u[1] # c
      /\ \A d \in Clients : /\ Pos(d) \in Threads /\ Pos(d) # Dev(c)
                            /\ Dev(d) \in Threads /\ (Dev(d) = Dev(c) => d = c)
  BY ThreadsAre DEF IInv, Types, Placed
<1>1. ASSUME NEW t \in Threads, NEW p, thr' = [thr EXCEPT ![t] = p],
             t = Dev(c) => p.msg \in {thr[t].msg, NoRecord}
      PROVE  thr'[Dev(c)].msg \in {thr[Dev(c)].msg, NoRecord}
  BY <1>0, <1>1
<1>2. UNCHANGED thr => thr'[Dev(c)].msg \in {thr[Dev(c)].msg, NoRecord}
  OBVIOUS
<1>3. ASSUME NEW t \in Threads, NEW pc, Goto(t, pc)
      PROVE  thr'[Dev(c)].msg \in {thr[Dev(c)].msg, NoRecord}
  <2> PICK p : p = [thr[t] EXCEPT !.pc = pc]
    OBVIOUS
  <2>1. thr[t] \in Thread
    BY <1>0
  <2>2. thr' = [thr EXCEPT ![t] = p] /\ p.msg = thr[t].msg
    BY <1>3, <2>1 DEF Goto, Thread
  <2> QED
    BY <1>1, <2>2
<1>4. ASSUME NEW t \in Threads, Done(t) PROVE thr'[Dev(c)].msg \in {thr[Dev(c)].msg, NoRecord}
  <2>1. Idle.msg = NoRecord
    BY DEF Idle
  <2> QED
    BY <1>1, <1>4, <2>1 DEF Done
<1>5. ASSUME NEW t \in Threads, Returns(t) PROVE thr'[Dev(c)].msg \in {thr[Dev(c)].msg, NoRecord}
  <2> PICK p : p = [thr[t] EXCEPT !.pc = "store", !.copy = NoRecord]
    OBVIOUS
  <2>1. thr[t] \in Thread
    BY <1>0
  <2>2. p.msg = thr[t].msg /\ Idle.msg = NoRecord
    BY <2>1 DEF Thread, Idle
  <2>3. thr' = [thr EXCEPT ![t] = p] \/ thr' = [thr EXCEPT ![t] = Idle]
    BY <1>5 DEF Returns, Return
  <2> QED
    BY <1>1, <2>2, <2>3
<1>6. ASSUME NEW t \in Threads, Procedures(t)
      PROVE  thr'[Dev(c)].msg \in {thr[Dev(c)].msg, NoRecord}
  <2>1. CASE Authorize(t)
    <3>1. PICK cp, pc : \/ thr' = [thr EXCEPT ![t].copy = cp, ![t].pc = pc]
                        \/ Goto(t, pc)
      BY <2>1 DEF Authorize
    <3>2. CASE Goto(t, pc)
      BY <1>3, <3>2
    <3>3. CASE thr' = [thr EXCEPT ![t].copy = cp, ![t].pc = pc]
      <4> PICK p : p = [thr[t] EXCEPT !.copy = cp, !.pc = pc]
        OBVIOUS
      <4>1. thr[t] \in Thread
        BY <1>0
      <4>2. thr' = [thr EXCEPT ![t] = p] /\ p.msg = thr[t].msg
        BY <1>0, <3>3, <4>1 DEF Thread
      <4> QED
        BY <1>1, <4>2
    <3> QED
      BY <3>1, <3>2, <3>3
  <2>2. CASE Unauthorized(t) \/ Params(t) \/ Update(t)
    BY <1>5, <2>2 DEF Unauthorized, Params, Update
  <2>3. CASE Reset(t)
    <3>1. Returns(t) \/ Goto(t, "code")
      BY <2>3 DEF Reset
    <3> QED
      BY <1>3, <1>5, <3>1
  <2>4. CASE SetCode(t) \/ SetName(t) \/ Send(t)
    <3>1. \E pc \in {"name", "send", "update", "params"} : Goto(t, pc)
      BY <2>4 DEF SetCode, SetName, Send
    <3> QED
      BY <1>3, <3>1
  <2> QED
    BY <1>6, <2>1, <2>2, <2>3, <2>4, Zenon DEF Procedures
<1>7. ASSUME NEW d \in Clients, Requests(d)
      PROVE  thr'[Dev(c)].msg \in {thr[Dev(c)].msg, NoRecord}
  <2>1. (\E p : thr' = [thr EXCEPT ![Pos(d)] = p]) \/ UNCHANGED thr
    BY <1>7, Zenon DEF Requests, AskAuthorize, AskReset, AskClear, AskOpen, AskClose, AskStop, AskResume,
       Answered, Start
  <2> QED
    BY <1>0, <1>1, <1>2, <2>1
<1>8. ASSUME NEW d \in Clients, DeviceThread(d), ~Reply(c)
      PROVE  thr'[Dev(c)].msg \in {thr[Dev(c)].msg, NoRecord}
  <2>1. CASE Data(d)
    <3>1. PICK m, rec, p : Makes(d, m, rec, p)
      BY <2>1, DataMakes
    <3>2. thr' = [thr EXCEPT ![Dev(d)] = p] /\ p.msg = NoRecord
      BY <3>1 DEF Makes
    <3> QED
      BY <1>0, <1>1, <3>2
  <2>2. CASE Store(d) \/ StartFill(d)
    BY <1>0, <1>4, <2>2 DEF Store, StartFill
  <2>3. CASE Reply(d)
    <3>1. \E p : thr' = [thr EXCEPT ![Dev(d)] = p]
      BY <2>3, Zenon DEF Reply
    <3> QED
      BY <1>0, <1>1, <1>8, <2>3, <3>1
  <2>4. CASE Timeout(d)
    <3> PICK p : p = [Idle EXCEPT !.pc = "forget"]
      OBVIOUS
    <3>1. thr' = [thr EXCEPT ![Dev(d)] = p] /\ p.msg = NoRecord
      BY <2>4 DEF Timeout, Idle
    <3> QED
      BY <1>0, <1>1, <3>1
  <2>5. CASE Forget(d) \/ ForgetTime(d)
    <3>1. Done(Dev(d)) \/ \E pc \in {"reset time", "start"} : Goto(Dev(d), pc)
      BY <2>5 DEF Forget, ForgetTime
    <3> QED
      BY <1>0, <1>3, <1>4, <3>1
  <2>6. CASE Reconnect(d)
    BY <1>2, <2>6 DEF Reconnect
  <2> QED
    BY <1>8, <2>1, <2>2, <2>3, <2>4, <2>5, <2>6, Zenon DEF DeviceThread
<1>9. ASSUME NEW d \in Clients, Serve(d) \/ Push(d) PROVE UNCHANGED thr
  BY <1>9, Zenon DEF Serve, Push
<1>10. ASSUME NEW f \in Points, Nozzle(f) \/ Repeat(f) \/ Filled(f) PROVE UNCHANGED thr
  BY <1>10, Zenon DEF Nozzle, Repeat, Filled
<1>11. UNCHANGED vars => UNCHANGED thr
  BY DEF vars
<1> QED
  BY <1>2, <1>6, <1>7, <1>8, <1>9, <1>10, <1>11 DEF Next

\* What the hardware server makes of the first request, m, of the link of c: it carries it out
\* or not, and answers, or does not know it.
Serves(c, m, ok) ==
    /\ up[c] # <<>> /\ m = up[c][1] /\ m \in Message /\ up'[c] = Tail(up[c])
    /\ \/ down'[c] = down[c]
       \/ down'[c] = Append(down[c], [kind |-> "reply", code |-> m.code, ok |-> ok, f |-> m.f])
    /\ IF ok THEN Accepts(pump[m.f], m.code) /\ Changes(m.f, Executed(pump[m.f], m, <<c, m.by>>))
       ELSE UNCHANGED <<pump, unsent>>
    /\ UNCHANGED <<fp, slot, thr, stored, left, seen>>

LEMMA ServeIs ==
  ASSUME IInv, NEW c \in Clients, Serve(c)
  PROVE  \E m \in Message, ok \in BOOLEAN : Serves(c, m, ok)
<1> PICK m, ok : /\ m = Head(up[c])
                 /\ ok = (OrdersOf(m.code) \subseteq Carried /\ Accepts(pump[m.f], m.code))
  OBVIOUS
<1>1. ok \in BOOLEAN /\ Wires
  BY DEF IInv, Types
<1>2. /\ up[c] # <<>> /\ up' = [up EXCEPT ![c] = Tail(@)]
      /\ IF ok THEN Accepts(pump[m.f], m.code) /\ Changes(m.f, Executed(pump[m.f], m, <<c, m.by>>))
         ELSE UNCHANGED <<pump, unsent>>
      /\ UNCHANGED <<fp, slot, thr, stored, left, seen>>
  BY DEF Serve
<1>3. \/ down' = down
      \/ down' = [down EXCEPT ![c] = Append(@, [kind |-> "reply", code |-> m.code, ok |-> ok, f |-> m.f])]
  BY Zenon DEF Serve
<1>4. m = up[c][1] /\ m \in Message /\ up'[c] = Tail(up[c])
  <2>1. Head(up[c]) = up[c][1] /\ Head(up[c]) \in Message
    BY <1>1, <1>2, ServedIs
  <2> QED
    BY <1>1, <1>2, <2>1 DEF Wires
<1>5. \/ down'[c] = down[c]
      \/ down'[c] = Append(down[c], [kind |-> "reply", code |-> m.code, ok |-> ok, f |-> m.f])
  BY <1>1, <1>3 DEF Wires
<1>6. Serves(c, m, ok)
  BY <1>2, <1>4, <1>5 DEF Serves
<1> QED
  BY <1>1, <1>4, <1>6

\* What a command makes of a dispenser.
LEMMA ExecutedDose ==
  ASSUME NEW p \in Dispenser, NEW m \in Message, NEW who, NEW q, q = Executed(p, m, who)
  PROVE  /\ m.code = "SetDose" => q.dose = m.dose /\ q.state = p.state
         /\ m.code = "Reset" => q.dose = 0 /\ q.state = IF p.state = "Finish" THEN "Free" ELSE p.state
         /\ m.code = "Start" => q.dose = p.dose /\ q.state = "Filling"
         /\ m.code \in {"Suspend", "Resume"} => q.dose = p.dose
<1>1. m.code \in {"SetDose", "Reset", "Start", "Suspend", "Resume"}
  BY DEF Message, Codes, Commands
<1>2. CASE m.code = "SetDose"
  BY <1>2 DEF Executed, Dispenser
<1>3. CASE m.code = "Reset"
  <2> PICK st : st = IF p.state = "Finish" THEN "Free" ELSE p.state
    OBVIOUS
  <2>1. q = [p EXCEPT !.dose = 0, !.state = st]
    BY <1>3 DEF Executed
  <2> QED
    BY <1>3, <2>1 DEF Dispenser
<1>4. CASE m.code \in {"Start", "Suspend", "Resume"}
  BY <1>4 DEF Executed, Dispenser
<1> QED
  BY <1>1, <1>2, <1>3, <1>4

LEMMA DosedKept ==
  ASSUME IInv, Positive, [Next]_vars
  PROVE  Dosed'
<1> SUFFICES ASSUME NEW c \in Clients, NEW j \in 1 .. Len(up'[c]), up'[c][j].code = "SetDose"
             PROVE  up'[c][j].dose > 0
  BY DEF Dosed
<1>0. up[c] \in Seq(Message) /\ \A i \in 1 .. Len(up[c]) : up[c][i].code = "SetDose" => up[c][i].dose > 0
  BY DEF IInv, Types, Wires, Positive, Dosed
<1>1. CASE up'[c] = up[c]
  BY <1>0, <1>1
<1>2. CASE Posts(c)
  <2>1. PICK m \in Message : up'[c] = Append(up[c], m) /\ Origin(c, m)
    BY <1>2 DEF Posts
  <2>2. CASE j \in 1 .. Len(up[c])
    <3>1. up'[c][j] = up[c][j]
      BY <1>0, <2>1, <2>2
    <3> QED
      BY <1>0, <2>2, <3>1
  <2>3. CASE j = Len(up[c]) + 1
    <3>1. up'[c][j] = m
      BY <1>0, <2>1, <2>3
    <3>2. PICK t \in {Pos(c), Dev(c)} : Ordered(m, t)
      BY <3>1, <2>1 DEF Origin
    <3>3. t \in Threads /\ Careful(thr[t])
      BY ThreadsAre DEF Positive
    <3>4. thr[t].pc = "send" /\ thr[t].copy # NoRecord /\ m.dose = thr[t].copy.dose
      BY <3>1, <3>2 DEF Ordered, Send
    <3> QED
      BY <3>1, <3>3, <3>4 DEF Careful
  <2>4. j \in 1 .. Len(up[c]) \/ j = Len(up[c]) + 1
    <3>1. Len(up'[c]) = Len(up[c]) + 1 /\ Len(up[c]) \in Nat
      BY <1>0, <2>1
    <3> QED
      BY <3>1
  <2> QED
    BY <2>2, <2>3, <2>4
<1>3. CASE Serve(c)
  <2>1. up[c] # <<>> /\ up' = [up EXCEPT ![c] = Tail(@)] /\ Wires
    BY <1>3 DEF Serve, IInv, Types
  <2>2. j + 1 \in 1 .. Len(up[c]) /\ up'[c][j] = up[c][j + 1]
    BY <2>1, ServedIs
  <2> QED
    BY <1>0, <2>2
<1>4. CASE Reconnect(c)
  <2>1. up'[c] = <<>>
    BY <1>4 DEF Reconnect, IInv, Types, Wires
  <2>2. Len(up'[c]) = 0
    BY <2>1
  <2> QED
    BY <2>2
<1> QED
  BY <1>1, <1>2, <1>3, <1>4, StepsPost

LEMMA MeasuredKept ==
  ASSUME IInv, Positive, [Next]_vars
  PROVE  Measured'
<1>0. Tables /\ (\A f \in Points : pump[f].dose = 0 \/ pump[f].dose > 0)
  BY DEF IInv, Types, Positive, Measured
<1>1. ASSUME NEW g \in Points, NEW p, Changes(g, p), p.dose = 0 \/ p.dose > 0 PROVE Measured'
  <2>1. \A f \in Points : pump'[f] = IF f = g THEN p ELSE pump[f]
    BY <1>0, <1>1 DEF Changes, Tables
  <2> QED
    BY <1>0, <1>1, <2>1 DEF Measured
<1>2. UNCHANGED pump => Measured'
  BY <1>0 DEF Measured
<1>3. ASSUME NEW c \in Clients, Serve(c) PROVE Measured'
  <2>1. PICK m \in Message, ok \in BOOLEAN : Serves(c, m, ok)
    BY <1>3, ServeIs
  <2>2. CASE ~ok
    BY <1>2, <2>1, <2>2 DEF Serves
  <2>3. CASE ok
    <3> PICK p : p = Executed(pump[m.f], m, <<c, m.by>>)
      OBVIOUS
    <3>1. Changes(m.f, p) /\ m.f \in Points /\ pump[m.f] \in Dispenser /\ m = up[c][1] /\ up[c] # <<>>
          /\ m.code \in {"SetDose", "Reset", "Start", "Suspend", "Resume"}
      BY <1>0, <2>1, <2>3 DEF Serves, Message, Tables, Codes, Commands
    <3>2. m.code = "SetDose" => m.dose > 0
      <4>1. up[c] \in Seq(Message)
        BY DEF IInv, Types, Wires
      <4>2. 1 \in 1 .. Len(up[c])
        BY <3>1, <4>1
      <4> QED
        BY <3>1, <4>2 DEF Positive, Dosed
    <3>3. p.dose \in {m.dose, 0, pump[m.f].dose} /\ (p.dose = m.dose => m.code = "SetDose" \/ p.dose = 0 \/ p.dose = pump[m.f].dose)
      BY <3>1, ExecutedDose
    <3>4. p.dose = 0 \/ p.dose > 0
      BY <1>0, <3>1, <3>2, <3>3
    <3> QED
      BY <1>1, <3>1, <3>4
  <2> QED
    BY <2>2, <2>3
<1>4. ASSUME NEW f \in Points, Nozzle(f) \/ Repeat(f) \/ Filled(f) PROVE Measured'
  <2>1. pump[f] \in Dispenser
    BY <1>0 DEF Tables
  <2> PICK q : q = pump[f]
    OBVIOUS
  <2> PICK p1, p2, p3 : /\ p1 = [q EXCEPT !.state = "NozzleOut"] /\ p2 = [q EXCEPT !.state = "Free"]
                        /\ p3 = [q EXCEPT !.state = "Finish", !.dose = 0, !.sale = @ + 1]
    OBVIOUS
  <2>3. p1.dose = q.dose /\ p2.dose = q.dose /\ p3.dose = 0
    BY <2>1 DEF Dispenser
  <2>4. Changes(f, p1) \/ Changes(f, p2) \/ Changes(f, p3) \/ Changes(f, q)
    BY <1>4, Zenon DEF Nozzle, Repeat, Filled
  <2>2. \E p : Changes(f, p) /\ (p.dose = 0 \/ p.dose = pump[f].dose)
    BY <2>3, <2>4
  <2> QED
    BY <1>0, <1>1, <2>2
<1>5. ASSUME NEW c \in Clients, Push(c) PROVE UNCHANGED pump
  BY <1>5, Zenon DEF Push
<1>6. ASSUME NEW t \in Threads, Procedures(t) PROVE UNCHANGED pump
  BY <1>6, Zenon DEF Procedures, Unauthorized, Authorize, Reset, SetCode, SetName, Send, Params, Update
<1>7. ASSUME NEW c \in Clients, Requests(c) PROVE UNCHANGED pump
  BY <1>7, Zenon DEF Requests, AskAuthorize, AskReset, AskClear, AskOpen, AskClose, AskStop, AskResume
<1>8. ASSUME NEW c \in Clients, DeviceThread(c) PROVE UNCHANGED pump
  BY <1>8, Zenon DEF DeviceThread, Data, Store, Reply, Timeout, Forget, ForgetTime, StartFill, Reconnect
<1>9. UNCHANGED vars => UNCHANGED pump
  BY DEF vars
<1> QED
  BY <1>2, <1>3, <1>4, <1>5, <1>6, <1>7, <1>8, <1>9 DEF Next

LEMMA PositiveKept ==
  ASSUME IInv, Positive, [Next]_vars
  PROVE  Positive'
  BY CarefulKept, DosedKept, MeasuredKept DEF Positive

LEMMA MuteKept ==
  ASSUME IInv, Flow, left'.links = left.links, [Next]_vars, NEW c \in Clients, Mute(c)
  PROVE  Mute(c)'
<1> SUFFICES ASSUME c \notin left.links
             PROVE  up'[c] = <<>> /\ down'[c] = <<>> /\ thr'[Dev(c)].msg = NoRecord
  BY DEF Mute
<1>1. up[c] = <<>> /\ down[c] = <<>> /\ thr[Dev(c)].msg = NoRecord /\ ~stored[c] /\ unsent[c] = {}
  BY DEF Mute, Flow, Dark
<1>2. ~Reconnect(c) /\ ~Serve(c) /\ ~Posts(c) /\ ~Data(c) /\ ~Reply(c) /\ ~Push(c)
  BY <1>1 DEF Reconnect, Serve, Posts, Data, Reply, Push
<1> QED
  BY <1>1, <1>2, StepsPost, StepsHear, StepsNote

-----------------------------------------------------------------------------
(* The points that nothing has disturbed.                                  *)

\* Thread t is going to write back an old copy of f.
Spoils(t, f) ==
    /\ t \in seen.stale /\ thr[t].f = f
    /\ thr[t].own # NoRecord \/ (thr[t].copy # NoRecord /\ thr[t].pc # "authorize")

Clean(c, f) ==
    /\ LoneLink /\ stored[c] /\ ~Excused(c)
    /\ f \notin seen.overwritten \cup seen.forced \cup seen.renewed
    /\ \A t \in Threads : ~Spoils(t, f)

LEMMA WriteBackMarks ==
  ASSUME IInv, NEW g, NEW t, NEW r, WriteBack(g, t, r)
  PROVE  Holders(g, t) \subseteq seen'.stale /\ (t \in seen.stale => g \in seen'.overwritten)
<1> PICK st, ov : /\ st = (seen.stale \ {t}) \cup Holders(g, t)
                  /\ ov = IF t \in seen.stale THEN seen.overwritten \cup {g} ELSE seen.overwritten
  OBVIOUS
<1>1. seen' = [seen EXCEPT !.stale = st, !.overwritten = ov]
  BY DEF WriteBack
<1>2. seen'.stale = st /\ seen'.overwritten = ov
  BY <1>1 DEF IInv, Types, Tables
<1> QED
  BY <1>2

\* What moves when a whole record is written back.
LEMMA UpdateIs ==
  ASSUME IInv, NEW t \in Threads, Update(t)
  PROVE  /\ thr[t].pc = "update" /\ thr[t].f \in Points /\ thr[t].copy # NoRecord
         /\ \A u \in Threads \ {t} : thr'[u] = thr[u]
         /\ thr'[t].copy = NoRecord
         /\ t[2] = "pos" => thr[t].own = NoRecord /\ thr'[t].own = NoRecord
         /\ t[2] = "dev" => thr'[t].own = thr[t].own /\ thr'[t].f = thr[t].f /\ thr[t].own # NoRecord
         /\ fp'[thr[t].f] = thr[t].copy /\ \A h \in Points \ {thr[t].f} : fp'[h] = fp[h]
         /\ Holders(thr[t].f, t) \subseteq seen'.stale
         /\ t \in seen.stale => thr[t].f \in seen'.overwritten
<1>1. /\ Types /\ Tables /\ Placed /\ Proper(t, thr[t]) /\ t[2] \in {"pos", "dev"}
  BY ThreadsAre DEF IInv, Types, Placed
<1>2. thr[t].pc = "update" /\ WriteBack(thr[t].f, t, thr[t].copy) /\ Returns(t) /\ thr[t].pc \in Working
  BY DEF Update, Working
<1>3. thr[t].f \in Points /\ thr[t].copy \in Record /\ thr[t].copy # NoRecord
  BY <1>1, <1>2, RecordIsOne DEF Proper, Working
<1>4. fp'[thr[t].f] = thr[t].copy /\ \A h \in Points \ {thr[t].f} : fp'[h] = fp[h]
  BY <1>1, <1>2, <1>3, WriteBackIs
<1>5. Holders(thr[t].f, t) \subseteq seen'.stale /\ (t \in seen.stale => thr[t].f \in seen'.overwritten)
  BY <1>2, WriteBackMarks
<1>6. t[2] = "pos" => thr[t].own = NoRecord
  BY <1>1 DEF Proper
<1>7. /\ \A u \in Threads \ {t} : thr'[u] = thr[u]
      /\ t[2] = "pos" => thr'[t] = Idle
      /\ t[2] = "dev" => /\ thr'[t].f = thr[t].f /\ thr'[t].copy = NoRecord /\ thr'[t].own = thr[t].own
                         /\ thr[t].own # NoRecord
  BY <1>1, <1>2, ReturnIs, RecordIsOne
<1>8. Idle.own = NoRecord /\ Idle.copy = NoRecord
  BY DEF Idle
<1> QED
  BY <1>1, <1>2, <1>3, <1>4, <1>5, <1>6, <1>7, <1>8

LEMMA StoreIs ==
  ASSUME IInv, NEW d \in Clients, Store(d), NEW t, t = Dev(d)
  PROVE  /\ t \in Threads /\ thr[t].f \in Points /\ thr[t].own # NoRecord
         /\ \A u \in Threads \ {t} : thr'[u] = thr[u]
         /\ thr'[t] = Idle /\ thr'[t].own = NoRecord /\ thr'[t].copy = NoRecord
         /\ fp'[thr[t].f] = thr[t].own /\ \A h \in Points \ {thr[t].f} : fp'[h] = fp[h]
         /\ Holders(thr[t].f, t) \subseteq seen'.stale
         /\ t \in seen.stale => thr[t].f \in seen'.overwritten
<1>1. /\ Types /\ Tables /\ Placed /\ t \in Threads /\ Proper(t, thr[t]) /\ t[2] = "dev"
  BY ThreadsAre DEF IInv, Types, Placed
<1>2. thr[t].pc = "store" /\ WriteBack(thr[t].f, t, thr[t].own) /\ Done(t)
  BY DEF Store
<1>3. thr[t].f \in Points /\ thr[t].own \in Record /\ thr[t].own # NoRecord
  BY <1>1, <1>2, RecordIsOne DEF Proper, Working
<1>4. fp'[thr[t].f] = thr[t].own /\ \A h \in Points \ {thr[t].f} : fp'[h] = fp[h]
  BY <1>1, <1>2, <1>3, WriteBackIs
<1>5. Holders(thr[t].f, t) \subseteq seen'.stale /\ (t \in seen.stale => thr[t].f \in seen'.overwritten)
  BY <1>2, WriteBackMarks
<1>6. thr'[t] = Idle /\ \A u \in Threads \ {t} : thr'[u] = thr[u]
  BY <1>1, <1>2 DEF Done, Placed
<1>7. Idle.own = NoRecord /\ Idle.copy = NoRecord
  BY DEF Idle
<1> QED
  BY <1>1, <1>3, <1>4, <1>5, <1>6, <1>7

LEMMA SpoilsKept ==
  ASSUME IInv, Positive, Marks, [Next]_vars, NEW t \in Threads, NEW f \in Points, Spoils(t, f)
  PROVE  Spoils(t, f)' \/ f \in seen'.overwritten
<1> PICK p, q : p = thr[t] /\ q = thr'[t]
  OBVIOUS
<1>1. /\ t \in seen.stale /\ p.f = f /\ (p.own # NoRecord \/ (p.copy # NoRecord /\ p.pc # "authorize"))
  BY DEF Spoils
<1>2. \/ t \in seen'.stale
      \/ q.copy = NoRecord /\ (q.own = NoRecord \/ f \in seen'.overwritten)
  BY <1>1 DEF Marks
<1>3. CASE q = p
  BY <1>1, <1>2, <1>3 DEF Spoils
<1>4. CASE Walking
  <2>1. Walks(p, q) /\ Careful(p)
    BY <1>4 DEF Walking, Positive
  <2>2. q.own = p.own /\ (q.own # NoRecord => q.f = p.f)
        /\ (q.copy = NoRecord => p.copy = NoRecord \/ p.pc \in {"authorize", "reset", "params"})
        /\ (q.copy # NoRecord => q = p \/ Turns(p, q) \/ Begins(p, q))
    BY <2>1 DEF Walks
  <2>3. p.copy # NoRecord => p.pc \notin {"reset", "params"}
    BY <2>1 DEF Careful
  <2>4. CASE p.own # NoRecord
    BY <1>1, <1>2, <2>2, <2>4 DEF Spoils
  <2>5. CASE p.own = NoRecord
    <3>1. q.copy # NoRecord /\ t \in seen'.stale
      BY <1>1, <1>2, <2>2, <2>3, <2>5
    <3>2. q = p \/ Turns(p, q)
      BY <1>1, <2>2, <2>5, <3>1 DEF Begins
    <3>3. q.f = p.f /\ q.pc # "authorize"
      BY <1>1, <2>5, <3>2 DEF Turns
    <3> QED
      BY <1>1, <3>1, <3>3 DEF Spoils
  <2> QED
    BY <2>4, <2>5
<1>5. ASSUME NEW u \in Threads, Update(u) PROVE Spoils(t, f)' \/ f \in seen'.overwritten
  BY <1>1, <1>3, <1>5, UpdateIs
<1>6. ASSUME NEW d \in Clients, Store(d) PROVE Spoils(t, f)' \/ f \in seen'.overwritten
  <2> PICK u : u = Dev(d)
    OBVIOUS
  <2>1. (u # t => thr'[t] = thr[t]) /\ (u \in seen.stale => thr[u].f \in seen'.overwritten)
    BY <1>6, StoreIs
  <2> QED
    BY <1>1, <1>3, <2>1
<1>7. ASSUME NEW d \in Clients, Data(d) PROVE Spoils(t, f)' \/ f \in seen'.overwritten
  <2>1. PICK m, rec, r : Makes(d, m, rec, r)
    BY <1>7, DataMakes
  <2>2. t # Dev(d)
    BY <1>1, <2>1 DEF Makes, Idle
  <2>3. q = p
    BY <2>1, <2>2 DEF Makes, IInv, Types, Placed
  <2> QED
    BY <1>3, <2>3
<1> QED
  BY <1>4, <1>5, <1>6, <1>7, StepsWalk

LEMMA StaysClean ==
  ASSUME IInv, Positive, Flow, [Next]_vars, NEW c \in Clients, NEW f \in Points, Clean(c, f)'
  PROVE  Clean(c, f)
<1>1. Marks /\ left'.links = left.links
  BY MarksKept, LinksKept DEF Flow
<1>2. Streams
  BY NextStreams DEF Flow
<1>3. LoneLink /\ stored[c]
  BY <1>1, <1>2 DEF Clean, LoneLink, Streams
<1>4. ~Excused(c) /\ f \notin seen.overwritten \cup seen.forced \cup seen.renewed
  BY <1>1 DEF Clean, Excused, Marks
<1>5. \A t \in Threads : ~Spoils(t, f)
  BY <1>1, SpoilsKept DEF Clean
<1> QED
  BY <1>3, <1>4, <1>5 DEF Clean

-----------------------------------------------------------------------------
(* The records of a point that nothing has disturbed.                      *)

\* Thread t has a copy of f that is not old.
Takes(t, f) == t \notin seen.stale /\ thr[t].f = f /\ thr[t].copy # NoRecord

\* A copy is like the record, or authorize_fp has made it PreAuthorized.
Alike(p, main) ==
    /\ p.pc \in {"authorize", "code", "name", "send"} => main \in {"Idle", "Calling"}
    /\ p.copy.main = main \/ (p.copy.main = "PreAuthorized" /\ main \in {"Idle", "Calling"})

Records(c, f) ==
    /\ fp[f].main \in Normal /\ Latest(c, f).main \in Normal
    /\ \A t \in Threads : Takes(t, f) => Alike(thr[t], fp[f].main)
    /\ Stage(fp[f].main) = "Free" => Stage(Latest(c, f).main) = "Free"

\* All that is under way about f on the link of c.
Wired(c, f) ==
    Wiring(Latest(c, f).main, down[c], pump[f], up[c], thr[Dev(c)], slot[c].code, unsent[c], f)

Sound(c, f) == Clean(c, f) => Records(c, f) /\ Wired(c, f)

\* A step that leaves the point undisturbed.
Calm(c, f) ==
    /\ IInv /\ IInv' /\ Flow /\ Totals /\ Positive /\ Marks /\ left'.links = left.links
    /\ \A d \in Clients : Mute(d)
    /\ Clean(c, f) /\ Clean(c, f)'

\* The client of the link is the only one that hears and stores.
LEMMA TheLink ==
  ASSUME NEW c \in Clients, NEW f \in Points, Calm(c, f), NEW d \in Clients,
         \/ stored[d] \/ thr[Dev(d)].own # NoRecord \/ thr[Dev(d)].msg # NoRecord
         \/ up[d] # <<>> \/ down[d] # <<>> \/ unsent[d] # {}
  PROVE  d = c
<1>1. LoneLink /\ stored[c] /\ Flow /\ Mute(d) /\ LitOwn(d)
  BY DEF Calm, Clean, Totals
<1>2. c \in left.links
  BY <1>1 DEF Flow, Dark
<1>3. d \in left.links
  BY <1>1 DEF Flow, Dark, Mute, LitOwn
<1> QED
  BY <1>1, <1>2, <1>3 DEF LoneLink

\* A copy that is not old was not old before.
LEMMA TakesBefore ==
  ASSUME NEW c \in Clients, NEW f \in Points, Calm(c, f), NEW t \in Threads, Takes(t, f)',
         thr'[t] = thr[t]
  PROVE  Takes(t, f)
<1>1. t \notin seen.stale
  BY DEF Takes, Calm, Marks
<1> QED
  BY <1>1 DEF Takes

\* How the record goes on that the thread of the link has the latest of.
Steers(c, f) ==
    \/ Latest(c, f).main' = Latest(c, f).main
    \/ Latest(c, f).main \in {"Idle", "Calling"} /\ Latest(c, f).main' = "PreAuthorized"

LEMMA RecordsWalk ==
  ASSUME NEW c \in Clients, NEW f \in Points, Calm(c, f), Records(c, f), Walking, SameMain(f)
  PROVE  Records(c, f)' /\ Steers(c, f)
<1> PICK t : t = Dev(c)
  OBVIOUS
<1>1. t \in Threads /\ f \notin seen'.forced /\ f \notin seen'.renewed
  BY ThreadsAre DEF Calm, Clean
<1>2. fp'[f].main = fp[f].main
  BY <1>1 DEF SameMain
<1>3. thr'[t].own = thr[t].own /\ (thr'[t].own # NoRecord => thr'[t].f = thr[t].f)
  BY <1>1 DEF Walking, Walks
<1>4. Latest(c, f).main' = Latest(c, f).main
  BY <1>2, <1>3 DEF Latest
<1>5. ASSUME NEW u \in Threads, Takes(u, f)' PROVE Alike(thr'[u], fp'[f].main)
  <2> PICK p, q : p = thr[u] /\ q = thr'[u]
    OBVIOUS
  <2>1. Walks(p, q) /\ Careful(p) /\ q.copy # NoRecord /\ q.f = f
    BY <1>5 DEF Walking, Calm, Positive, Takes
  <2>2. u \notin seen.stale
    BY <1>5, <2>1 DEF Takes, Calm, Marks
  <2>3. ASSUME p.copy # NoRecord, p.f = f PROVE Alike(p, fp[f].main)
    BY <2>2, <2>3 DEF Records, Takes
  <2>4. CASE q = p
    BY <1>2, <2>1, <2>3, <2>4
  <2>5. CASE Turns(p, q)
    <3>1. Alike(p, fp[f].main) /\ p.pc \in {"authorize", "code", "name", "send"}
      BY <2>1, <2>3, <2>5 DEF Turns, Careful
    <3>2. fp[f].main \in {"Idle", "Calling"} /\ (q.copy.main = p.copy.main \/ q.copy.main = "PreAuthorized")
      BY <2>5, <3>1 DEF Turns, Alike
    <3> QED
      BY <1>2, <3>1, <3>2 DEF Alike
  <2>6. CASE Begins(p, q)
    BY <1>1, <1>2, <2>1, <2>6 DEF Begins, Alike
  <2> QED
    BY <2>1, <2>4, <2>5, <2>6 DEF Walks
<1> QED
  BY <1>2, <1>4, <1>5 DEF Records, Steers

LEMMA RecordsUpdated ==
  ASSUME NEW c \in Clients, NEW f \in Points, Calm(c, f), Records(c, f), NEW t \in Threads, Update(t)
  PROVE  Records(c, f)' /\ Steers(c, f)
<1> PICK g : g = thr[t].f
  OBVIOUS
<1> PICK d : d = Dev(c)
  OBVIOUS
<1>1. /\ d \in Threads /\ d[2] = "dev" /\ t[2] \in {"pos", "dev"}
      /\ t[2] = "dev" => t = Dev(t[1]) /\ t[1] \in Clients
  BY ThreadsAre
<1>2. /\ thr[t].copy # NoRecord /\ \A u \in Threads \ {t} : thr'[u] = thr[u]
      /\ thr'[t].copy = NoRecord
      /\ t[2] = "pos" => thr[t].own = NoRecord /\ thr'[t].own = NoRecord
      /\ t[2] = "dev" => thr'[t].own = thr[t].own /\ thr'[t].f = thr[t].f /\ thr[t].own # NoRecord
      /\ fp'[g] = thr[t].copy /\ \A h \in Points \ {g} : fp'[h] = fp[h]
      /\ Holders(g, t) \subseteq seen'.stale
      /\ t \in seen.stale => g \in seen'.overwritten
  BY UpdateIs DEF Calm
<1>3. t[2] = "dev" => t = d
  BY <1>1, <1>2, TheLink
<1>4. thr'[d].own = thr[d].own /\ (thr'[d].own # NoRecord => thr'[d].f = thr[d].f)
  BY <1>1, <1>2
<1>5. CASE g # f
  <2>1. fp'[f] = fp[f]
    BY <1>2, <1>5
  <2>2. Latest(c, f).main' = Latest(c, f).main
    BY <1>4, <2>1 DEF Latest
  <2>3. ASSUME NEW u \in Threads, Takes(u, f)' PROVE Alike(thr'[u], fp'[f].main)
    <3>1. thr'[u] = thr[u]
      BY <1>2, <2>3 DEF Takes
    <3> QED
      BY <2>1, <2>3, <3>1, TakesBefore DEF Records
  <2> QED
    BY <2>1, <2>2, <2>3 DEF Records, Steers
<1>6. CASE g = f
  <2>1. Takes(t, f)
    BY <1>2, <1>6 DEF Takes, Calm, Clean
  <2>2. PICK r : r = fp'[f] /\ Alike(thr[t], fp[f].main) /\ r = thr[t].copy
    BY <1>2, <1>6, <2>1 DEF Records
  <2>3. fp'[f].main = fp[f].main \/ (fp'[f].main = "PreAuthorized" /\ fp[f].main \in {"Idle", "Calling"})
    BY <2>2 DEF Alike
  <2>4. \A u \in Threads : ~Takes(u, f)'
    BY <1>2, <1>6 DEF Takes, Holders
  <2>5. CASE t = d
    <3>1. Latest(c, f) = thr[d].own /\ Latest(c, f)' = thr[d].own
      BY <1>1, <1>2, <1>6, <2>5 DEF Latest
    <3> QED
      BY <2>3, <2>4, <3>1 DEF Records, Steers, Normal, Stage
  <2>6. CASE t # d
    <3>1. thr'[d] = thr[d] /\ ~Spoils(d, f)'
      BY <1>1, <1>2, <2>6 DEF Calm, Clean
    <3>2. ~(thr[d].f = f /\ thr[d].own # NoRecord)
      BY <1>1, <1>2, <1>6, <2>6, <3>1 DEF Holders, Spoils
    <3>3. Latest(c, f) = fp[f] /\ Latest(c, f)' = fp'[f]
      BY <3>1, <3>2 DEF Latest
    <3> QED
      BY <2>3, <2>4, <3>3 DEF Records, Steers, Normal
  <2> QED
    BY <2>5, <2>6
<1> QED
  BY <1>5, <1>6

LEMMA RecordsStored ==
  ASSUME NEW c \in Clients, NEW f \in Points, Calm(c, f), Records(c, f), NEW e \in Clients, Store(e)
  PROVE  Records(c, f)' /\ Steers(c, f)
<1> PICK t : t = Dev(e)
  OBVIOUS
<1> PICK g : g = thr[t].f
  OBVIOUS
<1>1. /\ t \in Threads /\ g \in Points /\ thr[t].own # NoRecord
      /\ \A u \in Threads \ {t} : thr'[u] = thr[u]
      /\ thr'[t].own = NoRecord /\ thr'[t].copy = NoRecord
      /\ fp'[g] = thr[t].own /\ \A h \in Points \ {g} : fp'[h] = fp[h]
      /\ Holders(g, t) \subseteq seen'.stale
  BY StoreIs DEF Calm
<1>2. t = Dev(c)
  BY <1>1, TheLink
<1>3. Latest(c, f)' = fp'[f] /\ fp'[f] = Latest(c, f)
  BY <1>1, <1>2 DEF Latest
<1>4. ASSUME NEW u \in Threads, Takes(u, f)' PROVE Alike(thr'[u], fp'[f].main)
  <2>1. u # t /\ thr'[u] = thr[u]
    BY <1>1, <1>4 DEF Takes
  <2>2. g # f
    BY <1>1, <1>4, <2>1 DEF Takes, Holders
  <2> QED
    BY <1>1, <1>4, <2>1, <2>2, TakesBefore DEF Records
<1> QED
  BY <1>3, <1>4 DEF Records, Steers

-----------------------------------------------------------------------------
(* The steps of the threads that take nothing off a link.                  *)

Pending == {"forget", "reset time", "start"}

\* A step of one of the threads, or none, that takes no frame and loses no link.
Mild ==
    \/ \E t \in Threads : Procedures(t)
    \/ \E d \in Clients : Requests(d)
    \/ \E d \in Clients : DeviceThread(d) /\ ~Data(d) /\ ~Reply(d) /\ ~Reconnect(d)
    \/ UNCHANGED vars

LEMMA MildFrame ==
  ASSUME Mild
  PROVE  UNCHANGED <<pump, unsent, down>>
<1>1. ASSUME NEW d \in Clients, DeviceThread(d), ~Data(d), ~Reply(d), ~Reconnect(d)
      PROVE  UNCHANGED <<pump, unsent, down>>
  BY <1>1, Zenon DEF DeviceThread, Store, Timeout, Forget, ForgetTime, StartFill
<1>2. ASSUME NEW t \in Threads, Procedures(t) PROVE UNCHANGED <<pump, unsent, down>>
  BY <1>2, Zenon DEF Procedures, Unauthorized, Authorize, Reset, SetCode, SetName, Send, Params, Update
<1>3. ASSUME NEW d \in Clients, Requests(d) PROVE UNCHANGED <<pump, unsent, down>>
  BY <1>3, Zenon DEF Requests, AskAuthorize, AskReset, AskClear, AskOpen, AskClose, AskStop, AskResume
<1>4. UNCHANGED vars => UNCHANGED <<pump, unsent, down>>
  BY DEF vars
<1> QED
  BY <1>1, <1>2, <1>3, <1>4 DEF Mild

LEMMA MildNext ==
  ASSUME Mild
  PROVE  [Next]_vars
  BY DEF Mild, Next

\* The thread of a link that goes on with an answer did so before.
LEMMA MildPends ==
  ASSUME IInv, Mild, NEW c \in Clients, thr'[Dev(c)].pc \in Pending
  PROVE  thr[Dev(c)].pc \in Pending \/ Timeout(c)
<1>0. /\ thr \in [Threads -> Thread] /\ Dev(c) \in Threads
      /\ \A d \in Clients : /\ Pos(d) \in Threads /\ Pos(d) # Dev(c)
                            /\ Dev(d) \in Threads /\ (Dev(d) = Dev(c) => d = c)
  BY ThreadsAre DEF IInv, Types, Placed
<1>1. ASSUME NEW t \in Threads, NEW p, thr' = [thr EXCEPT ![t] = p],
             t = Dev(c) => p.pc \notin Pending
      PROVE  thr[Dev(c)].pc \in Pending
  BY <1>0, <1>1
<1>2. UNCHANGED thr => thr[Dev(c)].pc \in Pending
  OBVIOUS
<1>3. ASSUME NEW t \in Threads, NEW pc, Goto(t, pc), pc \notin Pending
      PROVE  thr[Dev(c)].pc \in Pending
  <2> PICK p : p = [thr[t] EXCEPT !.pc = pc]
    OBVIOUS
  <2>1. thr[t] \in Thread
    BY <1>0
  <2>2. thr' = [thr EXCEPT ![t] = p] /\ p.pc = pc
    BY <1>3, <2>1 DEF Goto, Thread
  <2> QED
    BY <1>1, <1>3, <2>2
<1>4. Idle.pc = "idle" /\ "idle" \notin Pending
  BY DEF Idle, Pending
<1>5. ASSUME NEW t \in Threads, Returns(t) PROVE thr[Dev(c)].pc \in Pending
  <2> PICK p : p = [thr[t] EXCEPT !.pc = "store", !.copy = NoRecord]
    OBVIOUS
  <2>1. thr[t] \in Thread
    BY <1>0
  <2>2. p.pc = "store" /\ "store" \notin Pending
    BY <2>1 DEF Thread, Pending
  <2>3. thr' = [thr EXCEPT ![t] = p] \/ thr' = [thr EXCEPT ![t] = Idle]
    BY <1>5 DEF Returns, Return
  <2> QED
    BY <1>1, <1>4, <2>2, <2>3
<1>6. ASSUME NEW t \in Threads, Procedures(t)
      PROVE  thr[Dev(c)].pc \in Pending
  <2>0. {"code", "update", "name", "send", "params"} \cap Pending = {}
    BY DEF Pending
  <2>1. CASE Authorize(t)
    <3> PICK ok, to, cp, pc : /\ ok = (thr[t].copy.dose > 0 /\ SlotFree(t))
                              /\ to = IF ok THEN "code" ELSE "update"
                              /\ cp = [thr[t].copy EXCEPT !.main = "PreAuthorized"]
                              /\ pc = IF Linked(t) THEN to ELSE "update"
      OBVIOUS
    <3>1. \/ thr' = [thr EXCEPT ![t].copy = cp, ![t].pc = pc]
          \/ Goto(t, pc)
      BY <2>1 DEF Authorize
    <3>4. pc \in {"code", "update"}
      OBVIOUS
    <3>2. CASE Goto(t, pc)
      BY <1>3, <2>0, <3>2, <3>4
    <3>3. CASE thr' = [thr EXCEPT ![t].copy = cp, ![t].pc = pc]
      <4> PICK p : p = [thr[t] EXCEPT !.copy = cp, !.pc = pc]
        OBVIOUS
      <4>1. thr[t] \in Thread
        BY <1>0
      <4>2. thr' = [thr EXCEPT ![t] = p] /\ p.pc = pc
        BY <1>0, <3>3, <4>1 DEF Thread
      <4> QED
        BY <1>1, <2>0, <3>4, <4>2
    <3> QED
      BY <3>1, <3>2, <3>3
  <2>2. CASE Unauthorized(t) \/ Params(t) \/ Update(t)
    BY <1>5, <2>2 DEF Unauthorized, Params, Update
  <2>3. CASE Reset(t)
    <3>1. Returns(t) \/ Goto(t, "code")
      BY <2>3 DEF Reset
    <3> QED
      BY <1>3, <1>5, <2>0, <3>1
  <2>4. CASE SetCode(t) \/ SetName(t) \/ Send(t)
    <3>1. \E pc \in {"name", "send", "update", "params"} : Goto(t, pc)
      BY <2>4 DEF SetCode, SetName, Send
    <3> QED
      BY <1>3, <2>0, <3>1
  <2> QED
    BY <1>6, <2>1, <2>2, <2>3, <2>4, Zenon DEF Procedures
<1>7. ASSUME NEW d \in Clients, Requests(d)
      PROVE  thr[Dev(c)].pc \in Pending
  <2>1. (\E p : thr' = [thr EXCEPT ![Pos(d)] = p]) \/ UNCHANGED thr
    BY <1>7, Zenon DEF Requests, AskAuthorize, AskReset, AskClear, AskOpen, AskClose, AskStop, AskResume,
       Answered, Start
  <2> QED
    BY <1>0, <1>1, <1>2, <2>1
<1>8. ASSUME NEW d \in Clients, DeviceThread(d), ~Data(d), ~Reply(d), ~Reconnect(d), ~Timeout(c)
      PROVE  thr[Dev(c)].pc \in Pending
  <2>1. CASE d = c
    <3>1. Store(c) \/ Forget(c) \/ ForgetTime(c) \/ StartFill(c)
      BY <1>8, <2>1, Zenon DEF DeviceThread
    <3>2. CASE Store(c)
      BY <1>0, <1>1, <1>4, <3>2 DEF Store, Done
    <3> QED
      BY <3>1, <3>2 DEF Forget, ForgetTime, StartFill, Pending
  <2>2. CASE d # c
    <3>1. Done(Dev(d)) \/ (\E pc : Goto(Dev(d), pc)) \/ (\E p : thr' = [thr EXCEPT ![Dev(d)] = p])
      BY <1>8, Zenon DEF DeviceThread, Store, Timeout, Forget, ForgetTime, StartFill
    <3>2. thr'[Dev(c)] = thr[Dev(c)]
      BY <1>0, <2>2, <3>1 DEF Done, Goto
    <3> QED
      BY <3>2
  <2> QED
    BY <2>1, <2>2
<1>9. UNCHANGED vars => UNCHANGED thr
  BY DEF vars
<1> QED
  BY <1>2, <1>6, <1>7, <1>8, <1>9 DEF Mild

\* The code in the slot is set by a thread that is at it.
LEMMA MildCode ==
  ASSUME IInv, Mild, NEW c \in Clients
  PROVE  \/ slot'[c].code = slot[c].code \/ Timeout(c)
         \/ \E t \in {Pos(c), Dev(c)} : SetCode(t)
<1>0. slot \in [Clients -> Slot]
  BY DEF IInv, Types, Tables
<1>1. UNCHANGED slot => slot'[c].code = slot[c].code
  OBVIOUS
<1>2. ASSUME NEW t \in Threads, Procedures(t)
      PROVE  slot'[c].code = slot[c].code \/ \E u \in {Pos(c), Dev(c)} : SetCode(u)
  <2>1. CASE SetCode(t)
    <3>1. t[1] \in Clients /\ (t[1] = c => t \in {Pos(c), Dev(c)})
      BY ThreadsAre
    <3>2. CASE t[1] = c
      BY <2>1, <3>1, <3>2
    <3>3. CASE t[1] # c
      BY <1>0, <2>1, <3>1, <3>3 DEF SetCode
    <3> QED
      BY <3>2, <3>3
  <2>2. CASE SetName(t) \/ Send(t)
    <3>1. t[1] \in Clients /\ thr[t].cmd \in Cmds \cup {"open"}
      BY ThreadsAre DEF IInv, Types, Placed, Thread
    <3>2. \/ \E n : slot' = [slot EXCEPT ![t[1]].pss = n]
          \/ slot' = [slot EXCEPT ![t[1]].old = FALSE]
      BY <2>2 DEF SetName, Send
    <3> PICK s : s = slot[t[1]]
      OBVIOUS
    <3>3. s \in Slot
      BY <1>0, <3>1
    <3>4. CASE slot' = [slot EXCEPT ![t[1]].old = FALSE]
      BY <1>0, <3>1, <3>4, SlotIs
    <3>5. ASSUME NEW n, slot' = [slot EXCEPT ![t[1]].pss = n] PROVE slot'[c].code = slot[c].code
      <4> PICK z : z = [s EXCEPT !.pss = n]
        OBVIOUS
      <4>1. z.code = s.code
        BY <3>3 DEF Slot
      <4>2. slot'[c] = IF c = t[1] THEN z ELSE slot[c]
        BY <1>0, <3>1, <3>5
      <4> QED
        BY <4>1, <4>2
    <3> QED
      BY <3>2, <3>4, <3>5
  <2>3. CASE ~(SetCode(t) \/ SetName(t) \/ Send(t))
    <3>1. UNCHANGED slot
      BY <1>2, <2>3, Zenon DEF Procedures, Unauthorized, Authorize, Reset, Params, Update
    <3> QED
      BY <1>1, <3>1
  <2> QED
    BY <2>1, <2>2, <2>3
<1>3. ASSUME NEW d \in Clients, Requests(d) PROVE UNCHANGED slot
  BY <1>3, Zenon DEF Requests, AskAuthorize, AskReset, AskClear, AskOpen, AskClose, AskStop, AskResume
<1>4. ASSUME NEW d \in Clients, DeviceThread(d), ~Data(d), ~Reply(d), ~Reconnect(d), ~Timeout(c)
      PROVE  slot'[c].code = slot[c].code
  <2>1. CASE Forget(d) \/ ForgetTime(d)
    <3>1. "none" \in Cmds /\ TRUE \in BOOLEAN
      BY DEF Cmds
    <3>2. slot' = [slot EXCEPT ![d].pss = "none"] \/ slot' = [slot EXCEPT ![d].old = TRUE]
      BY <2>1 DEF Forget, ForgetTime
    <3> QED
      BY <1>0, <3>1, <3>2, SlotIs
  <2>2. CASE Timeout(d)
    BY <1>0, <1>4, <2>2 DEF Timeout
  <2>3. CASE Store(d) \/ StartFill(d)
    BY <2>3 DEF Store, StartFill
  <2> QED
    BY <1>4, <2>1, <2>2, <2>3, Zenon DEF DeviceThread
<1>5. UNCHANGED vars => UNCHANGED slot
  BY DEF vars
<1> QED
  BY <1>1, <1>2, <1>3, <1>4, <1>5 DEF Mild

LEMMA MildMains ==
  ASSUME IInv, Mild, \A t \in Threads : ~Update(t), \A d \in Clients : ~Store(d) /\ ~StartFill(d)
  PROVE  Walking /\ \A f \in Points : SameMain(f)
<1>1. ASSUME NEW d \in Clients, DeviceThread(d), ~Data(d), ~Reply(d), ~Reconnect(d)
      PROVE  Walking /\ \A f \in Points : SameMain(f)
  <2>1. UNCHANGED fp
    BY <1>1, Zenon DEF DeviceThread, Timeout, Forget, ForgetTime
  <2> QED
    BY <1>1, <2>1, DeviceWalks DEF SameMain
<1>2. ASSUME UNCHANGED vars PROVE Walking /\ \A f \in Points : SameMain(f)
  BY <1>2 DEF vars, Walking, Walks, SameMain
<1>3. ASSUME NEW t \in Threads, Procedures(t) PROVE Walking /\ \A f \in Points : SameMain(f)
  BY <1>3, ProceduresWalk
<1>4. ASSUME NEW d \in Clients, Requests(d) PROVE Walking /\ \A f \in Points : SameMain(f)
  BY <1>4, RequestsWalk
<1> QED
  BY <1>1, <1>2, <1>3, <1>4, Zenon DEF Mild

LEMMA MildPosts ==
  ASSUME IInv, Mild, NEW c \in Clients
  PROVE  up'[c] = up[c] \/ Posts(c)
<1>1. UNCHANGED vars => up'[c] = up[c]
  BY DEF vars
<1> QED
  BY <1>1, ProceduresPost, RequestsPost, DevicePosts DEF Mild

\* The record and all that is under way, when the latest state stays or is PreAuthorized.
LEMMA WiredSteers ==
  ASSUME NEW c \in Clients, NEW f \in Points, Steers(c, f),
         Wiring(Latest(c, f).main, down'[c], pump'[f], up'[c], thr'[Dev(c)], slot'[c].code,
                unsent'[c], f)
  PROVE  Wired(c, f)'
<1> PICK main, new : main = Latest(c, f).main /\ new = Latest(c, f).main'
  OBVIOUS
<1>1. new = main \/ (main \in {"Idle", "Calling"} /\ new = "PreAuthorized")
  BY DEF Steers
<1>2. Wiring(new, down'[c], pump'[f], up'[c], thr'[Dev(c)], slot'[c].code, unsent'[c], f)
  BY <1>1, WiringTurned
<1> QED
  BY <1>2 DEF Wired

LEMMA LinkTypes ==
  ASSUME IInv, NEW c \in Clients, NEW f \in Points
  PROVE  /\ down[c] \in Seq(Frame) /\ up[c] \in Seq(Message) /\ pump[f] \in Dispenser
         /\ slot[c] \in Slot /\ thr[Dev(c)] \in Thread
  BY ThreadsAre DEF IInv, Types, Tables, Wires, Placed

LEMMA MildWires ==
  ASSUME NEW c \in Clients, NEW f \in Points, Calm(c, f), Records(c, f), Wired(c, f), Mild,
         ~StartFill(c), Steers(c, f)
  PROVE  Wired(c, f)'
<1> PICK main : main = Latest(c, f).main
  OBVIOUS
<1> PICK d, d2 : d = thr[Dev(c)] /\ d2 = thr'[Dev(c)]
  OBVIOUS
<1> PICK q, p, u, un : q = down[c] /\ p = pump[f] /\ u = up[c] /\ un = unsent[c]
  OBVIOUS
<1> PICK code, code2 : code = slot[c].code /\ code2 = slot'[c].code
  OBVIOUS
<1>0. IInv /\ [Next]_vars
  BY MildNext DEF Calm
<1>1. q \in Seq(Frame) /\ u \in Seq(Message)
  BY <1>0, LinkTypes
<1>2. Wiring(main, q, p, u, d, code, un, f)
  BY DEF Wired
<1>3. q = down'[c] /\ p = pump'[f] /\ un = unsent'[c]
  BY MildFrame
<1>4. c \notin seen'.timedOut /\ c \notin seen'.reused /\ f \notin seen'.forced
  BY DEF Calm, Clean, Excused
<1>5. ~Timeout(c)
  <2>1. Timeout(c) => seen' = [seen EXCEPT !.timedOut = @ \cup {c}]
    BY DEF Timeout
  <2> QED
    BY <1>0, <1>4, <2>1 DEF IInv, Types, Tables
<1>6. Waits(d2, f) => Waits(d, f)
  <2>1. SUFFICES ASSUME Waits(d2, f) PROVE Waits(d, f)
    OBVIOUS
  <2>2. d.pc \in Pending
    BY <1>0, <1>5, <2>1, MildPends DEF Waits, Pending
  <2>3. d2.msg \in {d.msg, NoRecord}
    <3>1. ~Reply(c)
      <4>1. Reply(c) => q # <<>> /\ down' = [down EXCEPT ![c] = Tail(@)]
        BY DEF Reply
      <4>2. Reply(c) => q # <<>> /\ down'[c] = Tail(q)
        BY <1>0, <4>1 DEF IInv, Types, Wires
      <4>3. q # <<>> => Tail(q) # q
        <5> PICK v, k, l : v = Tail(q) /\ k = Len(q) /\ l = Len(v)
          OBVIOUS
        <5>1. q # <<>> => l = k - 1 /\ k \in Nat
          BY <1>1
        <5>2. q # <<>> => l # k
          BY <5>1
        <5> QED
          BY <5>2
      <4> QED
        BY <1>3, <4>2, <4>3
    <3> QED
      BY <1>0, <3>1, StepsNote
  <2>4. NoRecord.kind # "reply"
    BY DEF NoRecord
  <2>5. d2.pc \in Pending /\ OkDose(d2.msg, f) /\ d2.msg.kind = "reply"
    BY <2>1 DEF Waits, Pending, OkDose
  <2> QED
    BY <2>2, <2>3, <2>4, <2>5 DEF Waits, Pending
<1>7. code2 = code \/ code # "Reset"
  <2>1. ASSUME NEW t \in {Pos(c), Dev(c)}, SetCode(t), code = "Reset" PROVE FALSE
    <3>1. t[1] = c /\ ~SlotFree(t)
      BY <2>1, ThreadsAre DEF SlotFree
    <3>2. seen' = [seen EXCEPT !.reused = @ \cup {c}]
      BY <2>1, <3>1 DEF SetCode
    <3> QED
      BY <1>0, <1>4, <3>2 DEF IInv, Types, Tables
  <2> QED
    BY <1>0, <1>5, <2>1, MildCode
<1>8. Wiring(main, q, p, up'[c], d, code, un, f)
  <2>1. CASE up'[c] = u
    BY <1>2, <2>1
  <2>2. ASSUME Posts(c) PROVE Wiring(main, q, p, up'[c], d, code, un, f)
    <3>1. PICK m \in Message : up'[c] = Append(u, m) /\ Origin(c, m)
      BY <2>2 DEF Posts
    <3>2. /\ m.f = f => m.code \in Commands
          /\ Is(m, "SetDose", f) => Stage(main) = "Free"
      <4>1. ASSUME m.code \in {"Suspend", "Resume"}, m.f \in seen'.forced PROVE m.f # f /\ ~Is(m, "SetDose", f)
        BY <1>4, <4>1 DEF Is
      <4>2. ASSUME NEW t \in {Pos(c), Dev(c)}, Ordered(m, t)
            PROVE  m.code \in Commands /\ (Is(m, "SetDose", f) => Stage(main) = "Free")
        <5>1. m.code \in Commands
          BY <4>2 DEF Ordered, Code, Commands
        <5>2. ASSUME Is(m, "SetDose", f) PROVE Stage(main) = "Free"
          <6>1. thr[t].copy # NoRecord /\ thr[t].f = f /\ thr[t].pc = "send" /\ t \in Threads
            BY <4>2, <5>2, ThreadsAre DEF Ordered, Is, Send
          <6>2. t \notin seen.stale
            BY <6>1 DEF Calm, Clean, Spoils
          <6>3. Alike(thr[t], fp[f].main)
            BY <6>1, <6>2 DEF Records, Takes
          <6>4. Stage(fp[f].main) = "Free"
            BY <6>1, <6>3 DEF Alike, Stage
          <6> QED
            BY <6>4 DEF Records
        <5> QED
          BY <5>1, <5>2
      <4> QED
        BY <3>1, <4>1, <4>2 DEF Origin
    <3> QED
      BY <1>1, <1>2, <3>1, <3>2, WiringSends
  <2> QED
    BY <1>0, <2>1, <2>2, MildPosts
<1>9. Wiring(main, q, p, up'[c], d2, code2, un, f)
  BY <1>6, <1>7, <1>8, WiringSame
<1> QED
  BY <1>3, <1>9, WiredSteers

\* An answer ends: it starts the dispenser of the point it names, or does nothing.
LEMMA StartFillIs ==
  ASSUME IInv, NEW d \in Clients, StartFill(d), NEW t, t = Dev(d), NEW a, a = thr[t].msg,
         NEW m, m = [code |-> "Start", f |-> a.f, by |-> NoRequest, dose |-> 0]
  PROVE  /\ t \in Threads /\ thr[t].pc = "start" /\ a \in ReplyFrame /\ a.f \in Points /\ m \in Message
         /\ thr[t].own = NoRecord /\ thr'[t] = Idle /\ \A u \in Threads \ {t} : thr'[u] = thr[u]
         /\ UNCHANGED <<slot, down, unsent, pump>>
         /\ \/ UNCHANGED <<fp, up>>
            \/ /\ OkDose(a, a.f) /\ fp[a.f].main = "PreAuthorized" /\ Sends(d, m)
               /\ fp'[a.f].main = "Starting" /\ \A h \in Points \ {a.f} : fp'[h] = fp[h]
               /\ Holders(a.f, t) \subseteq seen'.stale
<1>1. /\ Types /\ Tables /\ Placed /\ t \in Threads /\ t[2] = "dev" /\ Proper(t, thr[t])
  BY ThreadsAre DEF IInv, Types, Placed
<1>2. thr[t].pc = "start" /\ Done(t) /\ UNCHANGED <<slot, down, unsent, pump>>
  BY DEF StartFill
<1>3. a \in ReplyFrame /\ a.f \in Points /\ m \in Message /\ thr[t].own = NoRecord
  <2>1. a \in ReplyFrame /\ thr[t].own = NoRecord
    BY <1>1, <1>2 DEF Proper, Working
  <2> QED
    BY <2>1 DEF ReplyFrame, Message, NoRequest, Codes
<1>4. thr'[t] = Idle /\ \A u \in Threads \ {t} : thr'[u] = thr[u]
  BY <1>1, <1>2 DEF Done, Placed
<1>5. \/ UNCHANGED <<fp, up>>
      \/ /\ a.code = "SetDose" /\ a.ok /\ fp[a.f].main = "PreAuthorized" /\ Sends(d, m)
         /\ InPlace(a.f, t, [fp[a.f] EXCEPT !.main = "Starting"])
  BY DEF StartFill
<1>6. ASSUME a.code = "SetDose", a.ok, InPlace(a.f, t, [fp[a.f] EXCEPT !.main = "Starting"])
      PROVE  /\ OkDose(a, a.f) /\ fp'[a.f].main = "Starting" /\ \A h \in Points \ {a.f} : fp'[h] = fp[h]
             /\ Holders(a.f, t) \subseteq seen'.stale
  <2> PICK r, s : r = fp[a.f] /\ s = [r EXCEPT !.main = "Starting"]
    OBVIOUS
  <2>1. r \in Record
    BY <1>1, <1>3 DEF Tables
  <2>2. s \in Record /\ s.main = "Starting"
    BY <2>1 DEF Record, Mains
  <2>3. fp'[a.f] = s /\ (\A h \in Points \ {a.f} : fp'[h] = fp[h]) /\ seen.stale \cup Holders(a.f, t) \subseteq seen'.stale
    BY <1>1, <1>3, <1>6, <2>2, InPlaceIs
  <2> QED
    BY <1>3, <1>6, <2>2, <2>3 DEF OkDose, ReplyFrame
<1> QED
  BY <1>1, <1>2, <1>3, <1>4, <1>5, <1>6

LEMMA StartFillSound ==
  ASSUME NEW c \in Clients, NEW f \in Points, Calm(c, f), Records(c, f), Wired(c, f),
         NEW e \in Clients, StartFill(e)
  PROVE  Records(c, f)' /\ Wired(c, f)'
<1> PICK t : t = Dev(e)
  OBVIOUS
<1> PICK a, g : a = thr[t].msg /\ g = a.f
  OBVIOUS
<1> PICK m : m = [code |-> "Start", f |-> g, by |-> NoRequest, dose |-> 0]
  OBVIOUS
<1> PICK main, q, p, u, un : /\ main = Latest(c, f).main
                             /\ q = down[c] /\ p = pump[f] /\ u = up[c] /\ un = unsent[c]
  OBVIOUS
<1> PICK d, d2, code, code2 : d = thr[t] /\ d2 = thr'[t] /\ code = slot[c].code /\ code2 = slot'[c].code
  OBVIOUS
<1>0. IInv /\ stored[c] /\ ~Excused(c) /\ Positive
  BY DEF Calm, Clean
<1>1. /\ t \in Threads /\ thr[t].pc = "start" /\ a \in ReplyFrame /\ g \in Points /\ m \in Message
      /\ thr[t].own = NoRecord /\ thr'[t] = Idle /\ \A v \in Threads \ {t} : thr'[v] = thr[v]
      /\ UNCHANGED <<slot, down, unsent, pump>>
  BY <1>0, StartFillIs
<1>2. \/ UNCHANGED <<fp, up>>
      \/ /\ OkDose(a, g) /\ fp[g].main = "PreAuthorized" /\ Sends(e, m)
         /\ fp'[g].main = "Starting" /\ \A h \in Points \ {g} : fp'[h] = fp[h]
         /\ Holders(g, t) \subseteq seen'.stale
  BY <1>0, StartFillIs
<1>3. e = c /\ t = Dev(c)
  <2>1. a # NoRecord
    BY <1>1 DEF ReplyFrame, NoRecord
  <2> QED
    BY <2>1, TheLink
<1>4. q \in Seq(Frame) /\ u \in Seq(Message) /\ (p.dose = 0 \/ p.dose > 0)
  BY <1>0, LinkTypes DEF Positive, Measured
<1>5. Wiring(main, q, p, u, d, code, un, f)
  BY <1>3 DEF Wired
<1>6. q = down'[c] /\ p = pump'[f] /\ un = unsent'[c] /\ code2 = code /\ ~Waits(d2, f)
  BY <1>1 DEF Waits, Idle
<1>7. Sends(e, m) => up'[c] = Append(u, m)
  BY <1>0, <1>3 DEF Sends, IInv, Types, Wires
<1>8. Walking
  <2>1. ~Data(e) /\ ~Store(e)
    BY <1>1 DEF Data, Store
  <2> QED
    BY <1>0, <2>1, DeviceWalks DEF DeviceThread
<1>9. ASSUME UNCHANGED fp \/ (g # f /\ \A h \in Points \ {g} : fp'[h] = fp[h]),
             up'[c] = u \/ (up'[c] = Append(u, m) /\ g # f)
      PROVE  Records(c, f)' /\ Wired(c, f)'
  <2>1. SameMain(f)
    BY <1>9 DEF SameMain
  <2>2. Records(c, f)' /\ Steers(c, f)
    BY <1>8, <2>1, RecordsWalk
  <2>3. Wiring(main, q, p, up'[c], d, code, un, f)
    <3>1. CASE up'[c] = u
      BY <1>5, <3>1
    <3>2. CASE up'[c] = Append(u, m) /\ g # f
      <4>1. m.f # f /\ ~Is(m, "SetDose", f)
        BY <3>2 DEF Is
      <4>2. /\ q \in Seq(Frame) /\ u \in Seq(Message) /\ m \in Message
            /\ m.f = f => m.code \in Commands
            /\ Is(m, "SetDose", f) => Stage(main) = "Free"
        BY <1>1, <1>4, <4>1
      <4>3. Wiring(main, q, p, Append(u, m), d, code, un, f)
        BY <1>5, <4>2, WiringSends
      <4> QED
        BY <3>2, <4>3
    <3> QED
      BY <1>9, <3>1, <3>2
  <2>4. Wiring(main, q, p, up'[c], d2, code2, un, f)
    BY <1>6, <2>3, WiringSame
  <2> QED
    BY <1>3, <1>6, <2>2, <2>4, WiredSteers
<1>10. CASE UNCHANGED <<fp, up>>
  BY <1>9, <1>10
<1>11. ASSUME g = f, OkDose(a, g), fp[g].main = "PreAuthorized", Sends(e, m), fp'[g].main = "Starting",
              Holders(g, t) \subseteq seen'.stale
       PROVE  Records(c, f)' /\ Wired(c, f)'
  <2>1. Latest(c, f) = fp[f] /\ Latest(c, f)' = fp'[f]
    BY <1>1, <1>3 DEF Latest, Idle
  <2>2. ASSUME NEW v \in Threads, Takes(v, f)' PROVE FALSE
    <3>1. v # t
      BY <1>1, <2>2 DEF Takes, Idle
    <3> QED
      BY <1>1, <1>11, <2>2, <3>1 DEF Takes, Holders
  <2>3. Records(c, f)'
    BY <1>11, <2>1, <2>2 DEF Records, Normal
  <2>4. Waits(d, f) /\ Is(m, "Start", f)
    BY <1>1, <1>11 DEF Waits, Is
  <2>5. code = "Reset" => \A j \in 1 .. Len(u) : ~Is(u[j], "SetDose", f)
    <3>1. OneOrder(c)
      BY <1>0 DEF IInv, Client, Truth
    <3> QED
      BY <3>1 DEF OneOrder, Is, Commands
  <2>6. Wiring("PreAuthorized", q, p, u, d, code, un, f)
    BY <1>5, <1>11, <2>1
  <2>7. Wiring("Starting", q, p, Append(u, m), d2, code2, un, f)
    BY <1>1, <1>4, <1>6, <2>4, <2>5, <2>6, WiringRaised
  <2>8. Latest(c, f).main' = "Starting"
    BY <1>11, <2>1
  <2>9. up'[c] = Append(u, m)
    BY <1>7, <1>11
  <2> QED
    BY <1>3, <1>6, <2>3, <2>7, <2>8, <2>9 DEF Wired
<1>12. CASE g # f
  BY <1>2, <1>7, <1>9, <1>12
<1> QED
  BY <1>2, <1>10, <1>11, <1>12

-----------------------------------------------------------------------------
(* The frames that the thread of the link takes.                           *)

\* The first frame is behind the record.
LEMMA FirstInOrder ==
  ASSUME NEW main, NEW q \in Seq(Frame), q # <<>>, NEW p, NEW u, NEW f, Link(main, q, p, u, f),
         NEW s, NEW t, s = Stage(main), t = Shown(q[1], f)
  PROVE  /\ s = "Free" => t \notin Late
         /\ s = "Finish" => t # "Filling"
         /\ ~(s = "Ready" /\ t = "Finish")
         /\ ~(s \in Late /\ t = "Ready")
<1> PICK x, n : x = Line(main, q, p, f) /\ n = Len(q) + 1
  OBVIOUS
<1>1. InOrder(x, n)
  BY DEF Link
<1>2. n \in Nat /\ 1 <= n /\ 1 \in 1 .. Len(q)
  BY LineIs
<1>3. x[0] = s /\ x[1] = t
  BY <1>2, LineIs, LineAt
<1>4. /\ s = "Free" => t \notin Late
      /\ s = "Finish" => t # "Filling"
      /\ s = "Ready" /\ t = "Finish" => \E k \in 0 .. n : 0 < k /\ k < 1 /\ x[k] = "Filling"
      /\ s \in Late /\ t = "Ready" => \E k \in 0 .. n : 0 < k /\ k < 1 /\ x[k] = "Free"
  <2>1. 0 \in 0 .. n /\ 1 \in 0 .. n /\ 0 < 1
    BY <1>2
  <2> QED
    BY <1>1, <1>3, <2>1 DEF InOrder
<1>5. \A k \in 0 .. n : ~(0 < k /\ k < 1)
  OBVIOUS
<1> QED
  BY <1>4, <1>5

LEMMA DataSound ==
  ASSUME NEW c \in Clients, NEW f \in Points, Calm(c, f), Records(c, f), Wired(c, f),
         NEW e \in Clients, Data(e)
  PROVE  Records(c, f)' /\ Wired(c, f)'
<1> PICK t : t = Dev(c)
  OBVIOUS
<1> PICK main, q, p, u, un : /\ main = Latest(c, f).main
                             /\ q = down[c] /\ p = pump[f] /\ u = up[c] /\ un = unsent[c]
  OBVIOUS
<1> PICK d, d2, code, code2 : d = thr[t] /\ d2 = thr'[t] /\ code = slot[c].code /\ code2 = slot'[c].code
  OBVIOUS
<1>0. IInv /\ Positive
  BY DEF Calm
<1>1. PICK m, rec, r : Makes(e, m, rec, r)
  BY <1>0, DataMakes
<1>2. e = c
  <2>1. down[e] # <<>>
    BY <1>1 DEF Makes
  <2> QED
    BY <2>1, TheLink
<1>3. q \in Seq(Frame) /\ u \in Seq(Message) /\ (p.dose = 0 \/ p.dose > 0) /\ t \in Threads
  BY <1>0, LinkTypes, ThreadsAre DEF Positive, Measured
<1>4. Wiring(main, q, p, u, d, code, un, f)
  BY DEF Wired
<1>5. /\ q # <<>> /\ m = q[1] /\ m \in DataFrame /\ rec \in Record /\ rec.main = fp[m.f].main
      /\ r.f = m.f /\ r.pc \in Working /\ r.own # NoRecord /\ r.own.main = Seen(rec, m).main
      /\ r.copy # NoRecord => /\ r.copy.main = rec.main /\ rec.main = "Calling"
  BY <1>1, <1>2 DEF Makes
<1>6. /\ thr[t] = Idle /\ thr'[t] = r /\ \A v \in Threads \ {t} : thr'[v] = thr[v]
  BY <1>0, <1>1, <1>2, <1>3 DEF Makes, IInv, Types, Placed
<1>7. down'[c] = Tail(q)
  BY <1>0, <1>1, <1>2 DEF Makes, IInv, Types, Wires
<1>8. fp' = fp /\ u = up'[c] /\ un = unsent'[c] /\ p = pump'[f] /\ code2 = code
  BY <1>1 DEF Makes
<1>9. Latest(c, f) = fp[f] /\ main = fp[f].main /\ main \in Normal
  <2>1. Latest(c, f) = fp[f]
    BY <1>6 DEF Latest, Idle
  <2> QED
    BY <2>1 DEF Records
<1>10. ~Waits(d2, f)
  BY <1>5, <1>6 DEF Waits, Working
<1>11. ASSUME NEW v \in Threads, v # t, Takes(v, f)' PROVE Alike(thr'[v], fp'[f].main)
  BY <1>6, <1>8, <1>11, TakesBefore DEF Records
<1>12. ASSUME m.f # f PROVE Records(c, f)' /\ Wired(c, f)'
  <2>1. Latest(c, f)' = fp[f]
    BY <1>5, <1>6, <1>8, <1>12 DEF Latest
  <2>2. ~Takes(t, f)'
    BY <1>5, <1>6, <1>12 DEF Takes
  <2>3. Records(c, f)'
    BY <1>8, <1>9, <1>11, <2>1, <2>2 DEF Records
  <2>4. ~Of(q[1], f)
    BY <1>5, <1>12 DEF Of
  <2>5. Wiring(main, Tail(q), p, u, d2, code2, un, f)
    BY <1>3, <1>4, <1>5, <1>10, <2>4, WiringAnswered
  <2> QED
    BY <1>7, <1>8, <1>9, <2>1, <2>3, <2>5 DEF Wired
<1>13. ASSUME m.f = f PROVE Records(c, f)' /\ Wired(c, f)'
  <2> PICK new, s, w : new = Seen(rec, m).main /\ s = Stage(rec.main) /\ w = Phase(m.state, m.order = "free")
    OBVIOUS
  <2>1. rec.main = main
    BY <1>5, <1>9, <1>13
  <2>2. Of(m, f) /\ Shown(m, f) = w
    BY <1>5, <1>13 DEF Of, Shown, DataFrame
  <2>3. m.state \in Ordinary
    <3>1. 1 \in 1 .. Len(q)
      BY <1>3, <1>5
    <3> QED
      BY <1>4, <1>5, <2>2, <3>1 DEF Wiring, Plain
  <2>4. /\ s = "Free" => w \notin Late
        /\ s = "Finish" => w # "Filling"
        /\ ~(s = "Ready" /\ w = "Finish")
        /\ ~(s \in Late /\ w = "Ready")
    <3>1. Link(main, q, p, u, f)
      BY <1>4 DEF Wiring
    <3>2. s = Stage(main) /\ w = Shown(q[1], f)
      BY <1>5, <2>1, <2>2
    <3> QED
      BY <1>3, <1>5, <3>1, <3>2, FirstInOrder
  <2>5. /\ new \in Normal /\ (Stage(new) = w \/ (Stage(new) = s /\ s = "Free"))
        /\ s = "Free" => Stage(new) = "Free"
        /\ \A z : Repeats(m, z) /\ (z.dose = 0 \/ z.dose > 0) => Fitting(new, z)
    <3>1. rec.main \in Normal
      BY <1>9, <2>1
    <3> QED
      BY <1>5, <2>3, <2>4, <3>1, SeenMain
  <2>6. Latest(c, f)' = r.own /\ Latest(c, f).main' = new
    BY <1>5, <1>6, <1>13 DEF Latest
  <2>7. Alike(r, main) \/ r.copy = NoRecord
    BY <1>5, <2>1 DEF Alike
  <2>8. Records(c, f)'
    <3>1. ASSUME NEW v \in Threads, Takes(v, f)' PROVE Alike(thr'[v], fp'[f].main)
      BY <1>6, <1>8, <1>9, <1>11, <2>7, <3>1 DEF Takes
    <3>2. fp'[f].main = main
      BY <1>8, <1>9
    <3> QED
      BY <1>9, <2>1, <2>5, <2>6, <3>1, <3>2 DEF Records
  <2>9. Wiring(new, Tail(q), p, u, d2, code2, un, f)
    <3>1. Stage(new) = Shown(q[1], f) \/ (Stage(new) = Stage(main) /\ Stage(main) = "Free")
      BY <1>5, <2>1, <2>2, <2>5
    <3>2. Repeats(q[1], p) => Fitting(new, p)
      BY <1>3, <1>5, <2>5
    <3>3. Of(q[1], f)
      BY <1>5, <2>2
    <3> QED
      BY <1>3, <1>4, <1>5, <1>10, <3>1, <3>2, <3>3, WiringTaken
  <2> QED
    BY <1>7, <1>8, <2>6, <2>8, <2>9 DEF Wired
<1> QED
  BY <1>12, <1>13

LEMMA ReplySound ==
  ASSUME NEW c \in Clients, NEW f \in Points, Calm(c, f), Records(c, f), Wired(c, f),
         NEW e \in Clients, Reply(e)
  PROVE  Records(c, f)' /\ Wired(c, f)'
<1> PICK t : t = Dev(c)
  OBVIOUS
<1> PICK main, q, p, u, un : /\ main = Latest(c, f).main
                             /\ q = down[c] /\ p = pump[f] /\ u = up[c] /\ un = unsent[c]
  OBVIOUS
<1> PICK d, d2, code, code2 : d = thr[t] /\ d2 = thr'[t] /\ code = slot[c].code /\ code2 = slot'[c].code
  OBVIOUS
<1>0. IInv
  BY DEF Calm
<1>1. thr[Dev(e)].pc = "idle" /\ down[e] # <<>> /\ Head(down[e]).kind = "reply"
  BY DEF Reply
<1>2. e = c
  BY <1>1, TheLink
<1>3. q \in Seq(Frame) /\ u \in Seq(Message) /\ t \in Threads
  BY <1>0, LinkTypes, ThreadsAre
<1>4. Wiring(main, q, p, u, d, code, un, f)
  BY DEF Wired
<1>5. down'[c] = Tail(q) /\ fp' = fp /\ u = up'[c] /\ un = unsent'[c] /\ p = pump'[f]
  BY <1>0, <1>2 DEF Reply, IInv, Types, Wires
<1>6. q # <<>> /\ Head(q) = q[1] /\ q[1] \in Frame /\ q[1].kind = "reply"
  BY <1>1, <1>2, <1>3
<1>7. q[1] \in ReplyFrame /\ ~Of(q[1], f)
  BY <1>6 DEF Frame, DataFrame, Of
<1>8. d2.msg = q[1]
  <2> PICK m : m = Replied(Head(down[c]))
    OBVIOUS
  <2>1. PICK pc : thr' = [thr EXCEPT ![t] = [Idle EXCEPT !.msg = m, !.f = m.f, !.pc = pc]]
    BY <1>2 DEF Reply
  <2> PICK z : z = [Idle EXCEPT !.msg = m, !.f = m.f, !.pc = pc]
    OBVIOUS
  <2>2. z.msg = m
    BY DEF Idle
  <2>3. d2 = z
    BY <1>0, <1>3, <2>1 DEF IInv, Types, Placed
  <2>4. m = q[1]
    BY <1>6, <1>7, RepliedSame
  <2> QED
    BY <2>2, <2>3, <2>4
<1>9. Records(c, f)' /\ Steers(c, f)
  <2>1. ~Data(e) /\ ~Store(e)
    BY <1>1 DEF Data, Store
  <2>2. Walking
    BY <1>0, <2>1, DeviceWalks DEF DeviceThread
  <2>3. SameMain(f)
    BY <1>5 DEF SameMain
  <2> QED
    BY <2>2, <2>3, RecordsWalk
<1>10. Waits(d2, f) => OkDose(q[1], f)
  BY <1>8 DEF Waits
<1>11. Wiring(main, Tail(q), p, u, d2, code2, un, f)
  BY <1>3, <1>4, <1>6, <1>7, <1>10, WiringAnswered
<1> QED
  BY <1>5, <1>9, <1>11, WiredSteers

-----------------------------------------------------------------------------
(* What is pushed, and the customers.                                      *)

LEMMA RecordsSame ==
  ASSUME NEW c \in Clients, NEW f \in Points, Calm(c, f), Records(c, f), UNCHANGED <<fp, thr>>
  PROVE  Records(c, f)' /\ Steers(c, f)
<1>1. Walking /\ SameMain(f)
  BY DEF Walking, Walks, SameMain
<1> QED
  BY <1>1, RecordsWalk

LEMMA PushIs ==
  ASSUME IInv, NEW c \in Clients, Push(c)
  PROVE  \E g \in Points, m \in DataFrame :
           /\ g \in unsent[c] /\ m.f = g /\ Repeats(m, pump[g])
           /\ down'[c] = Append(down[c], m)
           /\ unsent'[c] = unsent[c] \ {g}
           /\ UNCHANGED <<fp, slot, thr, up, pump>>
<1>1. PICK f \in unsent[c] :
        /\ down' = [down EXCEPT ![c] = Append(@, [kind |-> "data", f |-> f,
                        state |-> pump[f].state, sale |-> pump[f].sale, counter |-> pump[f].sale,
                        nozzle |-> pump[f].state \in {"NozzleOut", "Filling", "Stopped"},
                        order |-> IF pump[f].dose = 0 THEN "free" ELSE "set"])]
        /\ unsent' = [unsent EXCEPT ![c] = @ \ {f}]
        /\ UNCHANGED <<fp, slot, thr, up, pump>>
  BY DEF Push
<1>2. Types /\ Tables /\ Wires
  BY DEF IInv, Types
<1>3. PICK no, or : /\ no = (pump[f].state \in {"NozzleOut", "Filling", "Stopped"})
                    /\ or = IF pump[f].dose = 0 THEN "free" ELSE "set"
  OBVIOUS
<1>4. no \in BOOLEAN /\ or \in {"free", "set"}
  BY <1>3
<1>5. f \in Points /\ pump[f] \in Dispenser
  BY <1>2 DEF Tables
<1>6. pump[f].state \in PumpStates /\ pump[f].sale \in Nat
  BY <1>5 DEF Dispenser
<1> PICK m : m = [kind |-> "data", f |-> f, state |-> pump[f].state, sale |-> pump[f].sale,
                  counter |-> pump[f].sale, nozzle |-> no, order |-> or]
  OBVIOUS
<1>7. m \in DataFrame /\ m.f = f /\ Repeats(m, pump[f])
  BY <1>3, <1>4, <1>5, <1>6 DEF DataFrame, Repeats
<1>8. down' = [down EXCEPT ![c] = Append(@, m)]
  BY <1>1, <1>3
<1>9. down'[c] = Append(down[c], m) /\ unsent'[c] = unsent[c] \ {f}
  BY <1>1, <1>2, <1>8 DEF Tables, Wires
<1> QED
  BY <1>1, <1>5, <1>7, <1>9

LEMMA PushSound ==
  ASSUME NEW c \in Clients, NEW f \in Points, Calm(c, f), Records(c, f), Wired(c, f),
         NEW e \in Clients, Push(e)
  PROVE  Records(c, f)' /\ Wired(c, f)'
<1> PICK main, q, p, u, un : /\ main = Latest(c, f).main
                             /\ q = down[c] /\ p = pump[f] /\ u = up[c] /\ un = unsent[c]
  OBVIOUS
<1> PICK d, code : d = thr[Dev(c)] /\ code = slot[c].code
  OBVIOUS
<1>0. IInv
  BY DEF Calm
<1>1. e = c
  <2>1. unsent[e] # {}
    BY DEF Push
  <2> QED
    BY <2>1, TheLink
<1>2. PICK g \in Points, m \in DataFrame :
           /\ g \in un /\ m.f = g /\ Repeats(m, pump[g])
           /\ down'[c] = Append(q, m)
           /\ unsent'[c] = un \ {g}
           /\ UNCHANGED <<fp, slot, thr, up, pump>>
  BY <1>0, <1>1, PushIs
<1>3. q \in Seq(Frame) /\ u \in Seq(Message) /\ m \in Frame
  BY <1>0, LinkTypes DEF Frame
<1>4. Wiring(main, q, p, u, d, code, un, f)
  BY DEF Wired
<1>5. Records(c, f)' /\ Steers(c, f)
  BY <1>2, RecordsSame
<1>6. m.kind = "data" /\ Of(m, g)
  BY <1>2 DEF DataFrame, Of
<1>7. Wiring(main, Append(q, m), p, u, d, code, unsent'[c], f)
  <2>1. CASE g = f
    <3>1. Of(m, f) /\ Repeats(m, p) /\ Shown(m, f) = Shows(p)
      <4>1. Of(m, f) /\ Repeats(m, p)
        BY <1>2, <1>6, <2>1
      <4>2. m.state = p.state /\ ((m.order = "free") = (p.dose = 0))
        BY <4>1 DEF Repeats
      <4> QED
        BY <4>1, <4>2 DEF Shown, Shows
    <3> QED
      BY <1>3, <1>4, <3>1, WiringPushed
  <2>2. CASE g # f
    <3>1. ~Of(m, f) /\ ~OkDose(m, f)
      BY <1>2, <1>6, <2>2 DEF Of, OkDose
    <3>2. Wiring(main, Append(q, m), p, u, d, code, un, f)
      BY <1>3, <1>4, <3>1, WiringFrame
    <3> QED
      BY <1>2, <2>2, <3>2, WiringSame
  <2> QED
    BY <2>1, <2>2
<1> QED
  BY <1>2, <1>5, <1>7, WiredSteers

\* A dispenser that has changed, on a link that is there.
LEMMA ChangesAt ==
  ASSUME Types, NEW g \in Points, NEW p, Changes(g, p), NEW c \in Clients, stored[c]
  PROVE  /\ unsent'[c] = unsent[c] \cup {g} /\ pump'[g] = p
         /\ \A h \in Points \ {g} : pump'[h] = pump[h]
<1>1. unsent'[c] = unsent[c] \cup {g}
  BY StatusCarried DEF Changes
<1>2. pump'[g] = p /\ \A h \in Points \ {g} : pump'[h] = pump[h]
  BY DEF Changes, Types, Tables
<1> QED
  BY <1>1, <1>2

LEMMA CustomerSound ==
  ASSUME NEW c \in Clients, NEW f \in Points, Calm(c, f), Records(c, f), Wired(c, f),
         NEW g \in Points, Nozzle(g) \/ Repeat(g) \/ Filled(g)
  PROVE  Records(c, f)' /\ Wired(c, f)'
<1> PICK main, q, p, p2, u, un, un2 :
      /\ main = Latest(c, f).main
      /\ q = down[c] /\ p = pump[f] /\ u = up[c] /\ un = unsent[c]
      /\ p2 = pump'[f] /\ un2 = unsent'[c]
  OBVIOUS
<1> PICK d, code : d = thr[Dev(c)] /\ code = slot[c].code
  OBVIOUS
<1>0. IInv /\ Types /\ stored[c] /\ Positive
  BY DEF Calm, IInv, Clean
<1>1. UNCHANGED <<fp, slot, thr, up, down>> /\ Pushed(g)
  BY Zenon DEF Nozzle, Repeat, Filled
<1>2. q \in Seq(Frame) /\ u \in Seq(Message) /\ (p.dose = 0 \/ p.dose > 0) /\ pump[g] \in Dispenser
  BY <1>0, LinkTypes DEF Positive, Measured
<1>3. Wiring(main, q, p, u, d, code, un, f)
  BY DEF Wired
<1>4. Records(c, f)' /\ Steers(c, f)
  BY <1>1, RecordsSame
<1> PICK pg : pg = pump[g]
  OBVIOUS
<1>5. PICK new : /\ Changes(g, new)
                 /\ \/ /\ new.dose = pg.dose
                       /\ pg.state \in {"Free", "NozzleOut"} /\ new.state \in {"Free", "NozzleOut"}
                    \/ new = pg
                    \/ /\ pg.state \in {"Filling", "Stopped"} /\ new.state = "Finish" /\ new.dose = 0
  <2>1. CASE Nozzle(g)
    <3>1. PICK s \in {"Free", "NozzleOut"} : Changes(g, [pg EXCEPT !.state = s]) /\ pg.state \in {"Free", "NozzleOut"}
      BY <2>1 DEF Nozzle
    <3> PICK z : z = [pg EXCEPT !.state = s]
      OBVIOUS
    <3>2. z.state = s /\ z.dose = pg.dose
      BY <1>2 DEF Dispenser
    <3> QED
      BY <3>1, <3>2
  <2>2. CASE Repeat(g)
    BY <2>2 DEF Repeat
  <2>3. CASE Filled(g)
    <3> PICK z : z = [pg EXCEPT !.state = "Finish", !.dose = 0, !.sale = @ + 1]
      OBVIOUS
    <3>1. Changes(g, z) /\ pg.state \in {"Filling", "Stopped"}
      BY <2>3 DEF Filled
    <3>2. z.state = "Finish" /\ z.dose = 0
      BY <1>2 DEF Dispenser
    <3> QED
      BY <3>1, <3>2
  <2> QED
    BY <2>1, <2>2, <2>3
<1>6. un2 = un \cup {g} /\ pump'[g] = new /\ \A h \in Points \ {g} : pump'[h] = pump[h]
  BY <1>0, <1>5, ChangesAt
<1>7. Wiring(main, q, p2, u, d, code, un2, f)
  <2>1. CASE p2 = p
    BY <1>3, <1>6, <2>1, WiringSame
  <2>2. CASE g # f
    BY <1>6, <2>1, <2>2
  <2>3. ASSUME g = f, p2 # p PROVE Wiring(main, q, p2, u, d, code, un2, f)
    <3>1. f \notin un /\ f \in un2 /\ p2 = new /\ pg = p
      BY <1>1, <1>6, <2>3 DEF Pushed
    <3>2. CASE p2.dose = p.dose /\ p.state \in {"Free", "NozzleOut"} /\ p2.state \in {"Free", "NozzleOut"}
      BY <1>2, <1>3, <3>1, <3>2, WiringNozzle
    <3>3. CASE p.state \in {"Filling", "Stopped"} /\ p2.state = "Finish" /\ p2.dose = 0
      BY <1>2, <1>3, <3>1, <3>3, WiringFilled
    <3> QED
      BY <1>5, <2>3, <3>1, <3>2, <3>3
  <2> QED
    BY <2>1, <2>2, <2>3
<1> QED
  BY <1>1, <1>4, <1>7, WiredSteers

-----------------------------------------------------------------------------
(* The hardware server.                                                    *)

\* The dispenser carries out the first request of the link.
LEMMA WiringExecuted ==
  ASSUME IInv, Positive, NEW c \in Clients, NEW f \in Points, stored[c], ~Excused(c),
         NEW m \in Message, NEW ok \in BOOLEAN, ok = TRUE, Serves(c, m, ok), m.f = f, Wired(c, f)
  PROVE  /\ Wiring(Latest(c, f).main, down[c], pump'[f], Tail(up[c]), thr[Dev(c)], slot[c].code,
                   unsent'[c], f)
         /\ m.code = "SetDose" => pump'[f].dose > 0
<1> PICK main, q, p, p2, u, un, un2 :
      /\ main = Latest(c, f).main
      /\ q = down[c] /\ p = pump[f] /\ u = up[c] /\ un = unsent[c]
      /\ p2 = pump'[f] /\ un2 = unsent'[c]
  OBVIOUS
<1> PICK d, code : d = thr[Dev(c)] /\ code = slot[c].code
  OBVIOUS
<1>0. Wiring(main, q, p, u, d, code, un, f)
  BY DEF Wired
<1> PICK new : new = Executed(p, m, <<c, m.by>>)
  OBVIOUS
<1>1. /\ u # <<>> /\ m = u[1] /\ Accepts(p, m.code) /\ Changes(f, new)
  BY DEF Serves
<1>2. q \in Seq(Frame) /\ u \in Seq(Message) /\ p \in Dispenser /\ Types
  BY LinkTypes DEF IInv
<1>3. f \in un2 /\ p2 = new
  BY <1>1, <1>2, ChangesAt
<1>4. 1 \in 1 .. Len(u) /\ Len(u) \in Nat
  BY <1>1, <1>2
<1>5. m.code \in {"SetDose", "Reset", "Start"}
  <2>1. Plain(q, p, u, f)
    BY <1>0 DEF Wiring
  <2> QED
    BY <1>1, <1>4, <2>1 DEF Plain
<1>6. m.code \in Commands =>
        /\ code = m.code /\ NoAnswer(c)
        /\ \A k \in 1 .. Len(u) : u[k].code \in Commands => k = 1
  <2>1. OneOrder(c)
    BY DEF IInv, Client, Truth
  <2> QED
    BY <1>1, <1>4, <2>1 DEF OneOrder
<1>7. NoAnswer(c) => \A r \in 1 .. Len(q) : ~OkDose(q[r], f)
  BY DEF NoAnswer, Answer, OkDose, Commands
<1>8. CASE m.code = "SetDose"
  <2>1. p2.dose = m.dose /\ p2.state = p.state
    BY <1>2, <1>3, <1>8, ExecutedDose
  <2>2. m.dose > 0
    BY <1>1, <1>4, <1>8 DEF Positive, Dosed
  <2>3. Is(u[1], "SetDose", f) /\ p.state \in {"Free", "NozzleOut"} /\ code = "SetDose" /\ p2.dose > 0
    BY <1>1, <1>6, <1>8, <2>1, <2>2 DEF Is, Accepts, Commands
  <2>4. \A r \in 1 .. Len(q) : ~OkDose(q[r], f)
    BY <1>6, <1>7, <1>8 DEF Commands
  <2>5. Wiring(main, q, p, u, d, "SetDose", un, f)
    BY <1>0, <2>3
  <2>6. Wiring(main, q, p2, Tail(u), d, "SetDose", un2, f)
    BY <1>1, <1>2, <1>3, <2>1, <2>3, <2>4, <2>5, WiringDosed
  <2> QED
    BY <2>3, <2>6
<1>9. CASE m.code = "Reset"
  <2>1. p2.dose = 0 /\ p2.state = IF p.state = "Finish" THEN "Free" ELSE p.state
    BY <1>2, <1>3, <1>9, ExecutedDose
  <2>2. p.state \in {"Free", "NozzleOut", "Finish"} /\ code = "Reset"
    BY <1>1, <1>6, <1>9 DEF Accepts, Commands
  <2>3. \A r \in 1 .. Len(q) : ~OkDose(q[r], f)
    BY <1>6, <1>7, <1>9 DEF Commands
  <2>4. \A j \in 1 .. Len(u) : ~Is(u[j], "SetDose", f)
    BY <1>1, <1>6, <1>9 DEF Commands, Is
  <2>5. Wiring(main, q, p, u, d, "Reset", un, f)
    BY <1>0, <2>2
  <2>6. Wiring(main, q, p2, Tail(u), d, "Reset", un2, f)
    BY <1>1, <1>2, <1>3, <2>1, <2>2, <2>3, <2>4, <2>5, WiringReset
  <2> QED
    BY <1>9, <2>2, <2>6
<1>10. CASE m.code = "Start"
  <2>1. p2.dose = p.dose /\ p2.state = "Filling"
    BY <1>2, <1>3, <1>10, ExecutedDose
  <2>2. Is(u[1], "Start", f) /\ p.state = "NozzleOut" /\ p.dose > 0
    BY <1>1, <1>10 DEF Is, Accepts
  <2>3. Wiring(main, q, p2, Tail(u), d, code, un2, f)
    BY <1>0, <1>1, <1>2, <1>3, <2>1, <2>2, WiringStarted
  <2> QED
    BY <1>10, <2>3
<1> QED
  BY <1>5, <1>8, <1>9, <1>10

LEMMA ServeSound ==
  ASSUME NEW c \in Clients, NEW f \in Points, Calm(c, f), Records(c, f), Wired(c, f),
         NEW e \in Clients, Serve(e)
  PROVE  Records(c, f)' /\ Wired(c, f)'
<1> PICK main, q, p, p2, u, un, un2 :
      /\ main = Latest(c, f).main
      /\ q = down[c] /\ p = pump[f] /\ u = up[c] /\ un = unsent[c]
      /\ p2 = pump'[f] /\ un2 = unsent'[c]
  OBVIOUS
<1> PICK d, code : d = thr[Dev(c)] /\ code = slot[c].code
  OBVIOUS
<1>0. IInv /\ Types /\ stored[c] /\ ~Excused(c) /\ Positive
  BY DEF Calm, IInv, Clean
<1>1. e = c
  <2>1. up[e] # <<>>
    BY DEF Serve
  <2> QED
    BY <2>1, TheLink
<1>2. PICK m \in Message, ok \in BOOLEAN : Serves(c, m, ok)
  BY <1>0, <1>1, ServeIs
<1> PICK a : a = [kind |-> "reply", code |-> m.code, ok |-> ok, f |-> m.f]
  OBVIOUS
<1>3. /\ u # <<>> /\ up'[c] = Tail(u) /\ (down'[c] = q \/ down'[c] = Append(q, a))
      /\ UNCHANGED <<fp, slot, thr>>
      /\ ~ok => p2 = p /\ un2 = un
      /\ ok => Changes(m.f, Executed(pump[m.f], m, <<c, m.by>>))
  BY <1>2 DEF Serves
<1>4. q \in Seq(Frame) /\ u \in Seq(Message) /\ Tail(u) \in Seq(Message) /\ m.f \in Points
  <2>1. q \in Seq(Frame) /\ u \in Seq(Message) /\ m.f \in Points
    BY <1>0, LinkTypes DEF Message
  <2> QED
    BY <1>3, <2>1
<1>5. Wiring(main, q, p, u, d, code, un, f)
  BY DEF Wired
<1>6. Records(c, f)' /\ Steers(c, f)
  BY <1>3, RecordsSame
<1>7. /\ Wiring(main, q, p2, Tail(u), d, code, un2, f)
      /\ OkDose(a, f) => p2.dose > 0
  <2>1. CASE ok = TRUE /\ m.f = f
    <3>1. ok = TRUE
      BY <2>1
    <3>2. Wiring(main, q, p2, Tail(u), d, code, un2, f) /\ (m.code = "SetDose" => p2.dose > 0)
      BY <1>0, <1>2, <2>1, <3>1, WiringExecuted
    <3> QED
      BY <3>2 DEF OkDose
  <2>2. ASSUME ~ok \/ m.f # f
        PROVE  Wiring(main, q, p2, Tail(u), d, code, un2, f) /\ (OkDose(a, f) => p2.dose > 0)
    <3>1. p2 = p /\ (f \in un => f \in un2)
      <4>1. CASE ~ok
        BY <1>3, <4>1
      <4>2. CASE ok
        BY <1>0, <1>3, <1>4, <2>2, <4>2, ChangesAt
      <4> QED
        BY <4>1, <4>2
    <3>2. ~OkDose(a, f)
      BY <2>2 DEF OkDose
    <3>3. Wiring(main, q, p, Tail(u), d, code, un2, f)
      BY <1>3, <1>4, <1>5, <3>1, WiringServed
    <3> QED
      BY <3>1, <3>2, <3>3
  <2> QED
    BY <2>1, <2>2
<1>8. Wiring(main, down'[c], p2, Tail(u), d, code, un2, f)
  <2>1. a \in Frame /\ ~Of(a, f)
    BY <1>2, <1>4 DEF Frame, ReplyFrame, Message, Of
  <2>2. Wiring(main, Append(q, a), p2, Tail(u), d, code, un2, f)
    BY <1>4, <1>7, <2>1, WiringFrame
  <2> QED
    BY <1>3, <1>7, <2>2
<1> QED
  BY <1>3, <1>6, <1>8, WiredSteers

-----------------------------------------------------------------------------
(* The inductive invariant of the states.                                  *)

SInv ==
    /\ TInv /\ Positive /\ \A c \in Clients : Mute(c)
    /\ \A c \in Clients : \A f \in Points : Sound(c, f)

LEMMA MildSound ==
  ASSUME NEW c \in Clients, NEW f \in Points, Calm(c, f), Records(c, f), Wired(c, f), Mild
  PROVE  Records(c, f)' /\ Wired(c, f)'
<1>1. CASE \E e \in Clients : StartFill(e)
  BY <1>1, StartFillSound
<1>2. ASSUME \A e \in Clients : ~StartFill(e), Records(c, f)', Steers(c, f)
      PROVE  Records(c, f)' /\ Wired(c, f)'
  BY <1>2, MildWires
<1>3. CASE \E t \in Threads : Update(t)
  BY <1>1, <1>2, <1>3, RecordsUpdated
<1>4. CASE \E e \in Clients : Store(e)
  BY <1>1, <1>2, <1>4, RecordsStored
<1>5. ASSUME \A t \in Threads : ~Update(t), \A e \in Clients : ~Store(e) /\ ~StartFill(e)
      PROVE  Records(c, f)' /\ Wired(c, f)'
  <2>1. Walking /\ SameMain(f)
    BY <1>5, MildMains DEF Calm
  <2> QED
    BY <1>2, <1>5, <2>1, RecordsWalk
<1> QED
  BY <1>1, <1>3, <1>4, <1>5

LEMMA StepSound ==
  ASSUME NEW c \in Clients, NEW f \in Points, Calm(c, f), Records(c, f), Wired(c, f), [Next]_vars
  PROVE  Records(c, f)' /\ Wired(c, f)'
<1>1. ASSUME NEW e \in Clients, Reconnect(e) PROVE FALSE
  <2>1. stored[e] /\ stored' = [stored EXCEPT ![e] = FALSE]
    BY <1>1 DEF Reconnect
  <2>2. e = c
    BY <2>1, TheLink
  <2> QED
    BY <2>1, <2>2 DEF Calm, Clean, Flow
<1>2. CASE \E e \in Clients : Data(e)
  BY <1>2, DataSound
<1>3. CASE \E e \in Clients : Reply(e)
  BY <1>3, ReplySound
<1>4. CASE \E e \in Clients : Serve(e)
  BY <1>4, ServeSound
<1>5. CASE \E e \in Clients : Push(e)
  BY <1>5, PushSound
<1>6. CASE \E g \in Points : Nozzle(g) \/ Repeat(g) \/ Filled(g)
  BY <1>6, CustomerSound
<1>7. CASE Mild
  BY <1>7, MildSound
<1>8. Mild \/ (\E e \in Clients : Data(e) \/ Reply(e) \/ Reconnect(e) \/ Serve(e) \/ Push(e))
           \/ \E g \in Points : Nozzle(g) \/ Repeat(g) \/ Filled(g)
  BY Zenon DEF Next, Mild
<1> QED
  BY <1>1, <1>2, <1>3, <1>4, <1>5, <1>6, <1>7, <1>8

LEMMA SoundKept ==
  ASSUME SInv, [Next]_vars
  PROVE  SInv'
<1>1. TInv /\ IInv /\ Flow /\ Totals /\ Positive /\ \A c \in Clients : Mute(c)
  BY DEF SInv, TInv
<1>2. TInv' /\ IInv' /\ Marks /\ left'.links = left.links
  BY <1>1, TotalsKept, MarksKept, LinksKept DEF TInv, Flow
<1>3. Positive' /\ \A c \in Clients : Mute(c)'
  BY <1>1, <1>2, PositiveKept, MuteKept
<1>4. ASSUME NEW c \in Clients, NEW f \in Points, Clean(c, f)' PROVE Records(c, f)' /\ Wired(c, f)'
  <2>1. Clean(c, f)
    BY <1>1, <1>4, StaysClean
  <2>2. Records(c, f) /\ Wired(c, f)
    BY <2>1 DEF SInv, Sound
  <2>3. Calm(c, f)
    BY <1>1, <1>2, <1>4, <2>1 DEF Calm
  <2> QED
    BY <2>2, <2>3, StepSound
<1> QED
  BY <1>2, <1>3, <1>4 DEF SInv, Sound

LEMMA InitSound ==
  ASSUME Init
  PROVE  SInv
<1>1. /\ fp = [f \in Points |-> Loaded(left.stored)]
      /\ thr = [t \in Threads |-> Idle]
      /\ up = [c \in Clients |-> <<>>] /\ down = [c \in Clients |-> <<>>]
      /\ pump = [f \in Points |-> [state |-> "Free", dose |-> 0, sale |-> left.stored, by |-> <<>>]]
  BY DEF Init
<1>2. TInv
  BY InitOK, InitFlows, InitTotals DEF TInv
<1>3. \A t \in Threads : /\ thr[t].copy = NoRecord /\ thr[t].own = NoRecord /\ thr[t].msg = NoRecord
                         /\ thr[t].pc = "idle"
  BY <1>1 DEF Idle
<1>4. \A c \in Clients : /\ up[c] = <<>> /\ down[c] = <<>>
                         /\ Len(up[c]) = 0 /\ Len(down[c]) = 0
  BY <1>1
<1>5. \A f \in Points : pump[f].dose = 0 /\ pump[f].state = "Free" /\ fp[f].main = "Idle"
  BY <1>1 DEF Loaded
<1>6. Positive /\ \A c \in Clients : Mute(c)
  <2>1. \A t \in Threads : Careful(thr[t])
    BY <1>3 DEF Careful
  <2>2. Dosed /\ Measured
    BY <1>4, <1>5 DEF Dosed, Measured
  <2>3. \A c \in Clients : Mute(c)
    BY <1>3, <1>4, ThreadsAre DEF Mute
  <2> QED
    BY <2>1, <2>2, <2>3 DEF Positive
<1>7. ASSUME NEW c \in Clients, NEW f \in Points PROVE Records(c, f) /\ Wired(c, f)
  <2> PICK q, p, u, d, code, un : /\ q = down[c] /\ p = pump[f] /\ u = up[c] /\ d = thr[Dev(c)]
                                  /\ code = slot[c].code /\ un = unsent[c]
    OBVIOUS
  <2>1. Latest(c, f) = fp[f] /\ Latest(c, f).main = "Idle"
    BY <1>3, <1>5, ThreadsAre DEF Latest
  <2>2. Records(c, f)
    BY <1>3, <2>1 DEF Records, Takes, Normal
  <2>3. q = <<>> /\ u = <<>> /\ Len(q) = 0 /\ Len(u) = 0 /\ p.dose = 0 /\ p.state = "Free" /\ ~Waits(d, f)
    BY <1>3, <1>4, <1>5, ThreadsAre DEF Waits
  <2>4. Link("Idle", q, p, u, f)
    <3> PICK x : x = Line("Idle", q, p, f)
      OBVIOUS
    <3>1. \A i \in 0 .. 1 : x[i] = "Free"
      BY <2>3 DEF Line, Stage, Shows, Phase, Late
    <3>2. InOrder(x, 1)
      BY <3>1 DEF InOrder, Late
    <3>3. DoseIn(x, 1, u, f) /\ Starts(x, 1, u, p, f) /\ Granted(x, 1, q, p, f)
      BY <2>3 DEF DoseIn, Starts, Granted
    <3> QED
      BY <2>3, <3>2, <3>3 DEF Link
  <2>5. Plain(q, p, u, f) /\ Heeds("Idle", q, p, d, code, f)
    BY <2>3 DEF Plain, Heeds, Ordinary
  <2>6. Aware("Idle", q, p, f)
    BY <2>3 DEF Aware, Unseen, Fitting, Fits
  <2> QED
    BY <2>1, <2>2, <2>4, <2>5, <2>6 DEF Wired, Wiring, Settled
<1> QED
  BY <1>2, <1>6, <1>7 DEF SInv, Sound

\* Once everything under way has arrived, every point fits its dispenser, but for the links
\* and the points that the property excuses: a fill is seen by the frames, by the thread of
\* the link and by the table in the order in which it went on, a dispenser is started only
\* when all of them are ready for it, and the last frame about a point says what it is.
THEOREM StatesAlwaysAgree == Spec => []StatesAgree
<1>1. Init => SInv
  BY InitSound
<1>2. SInv /\ [Next]_vars => SInv'
  BY SoundKept
<1>3. SInv => StatesAgree
  <2> SUFFICES ASSUME SInv, Quiet, LoneLink,
                      NEW c \in Linking \ (seen.timedOut \cup seen.reused),
                      NEW f \in Points \ (seen.overwritten \cup seen.forced \cup seen.renewed)
               PROVE  Fitting(fp[f].main, pump[f])
    BY DEF StatesAgree, Fitting
  <2>1. c \in Clients /\ stored[c] /\ ~Excused(c) /\ Dev(c) \in Threads
    BY ThreadsAre DEF Linking, Excused
  <2>2. \A t \in Threads : thr[t].own = NoRecord /\ thr[t].copy = NoRecord
    BY IdleHolds DEF Quiet, SInv, TInv
  <2>3. Clean(c, f)
    BY <2>1, <2>2 DEF Clean, Spoils
  <2>4. Wired(c, f) /\ Latest(c, f) = fp[f]
    BY <2>1, <2>2, <2>3 DEF SInv, Sound, Latest
  <2>5. unsent[c] = {} /\ down[c] = <<>> /\ Len(down[c]) = 0
    BY <2>1 DEF Quiet
  <2>6. Aware(fp[f].main, down[c], pump[f], f)
    BY <2>4, <2>5 DEF Wired, Wiring, Settled
  <2> QED
    BY <2>5, <2>6 DEF Aware, LastTells
<1> QED
  BY <1>1, <1>2, <1>3, PTL DEF Spec

\* The table agrees with the dispensers once everything has arrived.
THEOREM AlwaysAgrees == Spec => []Agrees
<1>1. TotalsAgree /\ StatesAgree => Agrees
  BY DEF Agrees
<1> QED
  BY <1>1, TotalsAlwaysAgree, StatesAlwaysAgree, PTL
=============================================================================
