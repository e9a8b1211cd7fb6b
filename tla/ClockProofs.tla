---------------------------- MODULE ClockProofs ----------------------------
(* The offsets the workers reconstruct from the broker's labels are those the *)
(* broker had, the weeks they can know convert exactly, and no request over   *)
(* such weeks loses or shifts a bar: for every calendar, history and moment.  *)
EXTENDS ServerClock, FiniteSetTheorems, WellFoundedInduction, TLAPS

-----------------------------------------------------------------------------
(* Hours and weeks *)

LEMMA Numbers ==
  /\ Weeks \in Nat /\ Week \in Nat /\ Open \in Nat /\ MinGap \in Nat /\ MaxOffset \in Nat
  /\ MaxSwitch \in Nat /\ Confirmations \in Nat /\ MinWeekends \in Nat /\ Refresh \in Nat
  /\ Weeks > 0 /\ MinWeekends > 0
  /\ Open > 0 /\ Open < Week /\ 2 * MaxOffset < Week /\ MaxOffset <= Week - Open
  /\ MinWeekends <= Confirmations + 1 /\ MinGap > 1
BY ClockAssumption

LEMMA OpeningType ==
  ASSUME NEW w \in Int
  PROVE  /\ Opening(w) \in Int /\ Opening(w + 1) = Opening(w) + Week
         /\ w \in Nat => Opening(w) \in Nat
BY Numbers DEF Opening

LEMMA OpeningsGrow ==
  ASSUME NEW v \in Int, NEW w \in Int, v < w
  PROVE  Opening(v) + Week <= Opening(w)
<1>1. Week \in Nat
  BY Numbers
<1>2. ASSUME NEW a \in Nat, NEW b \in Nat
      PROVE  a * b \in Nat
  BY <1>2
<1>3. PICK k \in Nat : w = v + 1 + k
  <2>1. w - v - 1 \in Nat
    OBVIOUS
  <2> QED
    BY <2>1
<1>4. w * Week = v * Week + Week + k * Week
  BY <1>1, <1>3
<1>5. k * Week \in Nat
  BY <1>1, <1>2
<1>6. v * Week \in Int
  BY <1>1
<1> QED
  BY <1>1, <1>4, <1>5, <1>6 DEF Opening

LEMMA HoursOfWeek ==
  ASSUME NEW u \in Int
  PROVE  /\ WeekOf(u) \in Int /\ Hour(u) \in 0 .. Week - 1
         /\ u = Opening(WeekOf(u)) + Hour(u)
<1>1. Week \in Nat \ {0}
  BY Numbers
<1> QED
  BY <1>1 DEF Opening, WeekOf, Hour

LEMMA WeekIs ==
  ASSUME NEW w \in Int, NEW u \in Int, Opening(w) <= u, u < Opening(w) + Week
  PROVE  WeekOf(u) = w /\ Hour(u) = u - Opening(w)
<1>1. Week \in Nat \ {0}
  BY Numbers
<1>2. /\ WeekOf(u) \in Int /\ Hour(u) \in 0 .. Week - 1
      /\ u = Opening(WeekOf(u)) + Hour(u)
  BY HoursOfWeek
<1>3. Opening(w) \in Int /\ Opening(WeekOf(u)) \in Int
  BY <1>2, OpeningType
<1>4. CASE WeekOf(u) < w
  BY <1>1, <1>2, <1>3, <1>4, OpeningsGrow
<1>5. CASE w < WeekOf(u)
  BY <1>1, <1>2, <1>3, <1>5, OpeningsGrow
<1>6. WeekOf(u) = w
  BY <1>2, <1>4, <1>5
<1> QED
  BY <1>1, <1>2, <1>3, <1>6

-----------------------------------------------------------------------------
(* The calendar *)

\* The broker's seasons and holidays, at a moment of its calendar.
World ==
  /\ offset \in [Calendar -> Offsets] /\ missing \in [Calendar -> Missing \cup {0}]
  /\ now \in Nat /\ WeekOf(now) \in Calendar

\* What the closing of a week shows of the offset.
Shown(v) == offset[v] - missing[v]

LEMMA WeekTypes ==
  ASSUME World, NEW w \in Calendar
  PROVE  /\ w \in Nat /\ offset[w] \in 0 .. MaxOffset /\ offset[w] \in Offsets
         /\ missing[w] \in 0 .. Open - 1 /\ Shown(w) \in Int
         /\ Opening(w) \in Nat
<1>1. w \in Nat
  BY Numbers DEF Calendar
<1>2. offset[w] \in Offsets /\ missing[w] \in Missing \cup {0}
  BY DEF World
<1>3. Offsets \subseteq 0 .. MaxOffset /\ Missing \subseteq 1 .. Open - 1
  BY ClockAssumption
<1>4. offset[w] \in 0 .. MaxOffset
  BY <1>2, <1>3
<1>5. missing[w] \in 0 .. Open - 1
  <2>1. CASE missing[w] = 0
    BY <2>1, Numbers
  <2>2. CASE missing[w] \in Missing
    <3>1. missing[w] \in 1 .. Open - 1
      BY <2>2, <1>3
    <3> QED
      BY <3>1, Numbers
  <2> QED
    BY <1>2, <2>1, <2>2
<1> QED
  BY <1>1, <1>2, <1>4, <1>5, Numbers, OpeningType DEF Shown

\* A label lies in the week of its bar.
LEMMA LabelInWeek ==
  ASSUME World, NEW u \in Int, Quoted(u)
  PROVE  /\ WeekOf(u) \in Calendar /\ Label(u) = u + offset[WeekOf(u)] /\ Label(u) \in Nat
         /\ Opening(WeekOf(u)) <= Label(u) /\ Label(u) < Opening(WeekOf(u)) + Week
         /\ WeekOf(Label(u)) = WeekOf(u)
<1>1. WeekOf(u) \in Calendar /\ Hour(u) < Open - missing[WeekOf(u)]
  BY DEF Quoted
<1>2. u = Opening(WeekOf(u)) + Hour(u) /\ Hour(u) \in Nat
  BY HoursOfWeek, Numbers
<1>3. /\ offset[WeekOf(u)] \in Nat /\ offset[WeekOf(u)] <= Week - Open
      /\ missing[WeekOf(u)] \in Nat /\ Opening(WeekOf(u)) \in Nat /\ Week \in Nat /\ Open \in Nat
  BY <1>1, WeekTypes, Numbers
<1>4. /\ Label(u) \in Nat
      /\ Opening(WeekOf(u)) <= Label(u) /\ Label(u) < Opening(WeekOf(u)) + Week
  BY <1>1, <1>2, <1>3 DEF Label
<1> QED
  BY <1>1, <1>4, WeekIs DEF Label, Calendar

\* The hours of a week up to its closing have a bar, from the opening on.
LEMMA QuotedHours ==
  ASSUME World, NEW w \in Calendar, NEW u \in Int, Opening(w) <= u, u < Opening(w) + Open - missing[w]
  PROVE  Quoted(u) /\ WeekOf(u) = w /\ Hour(u) = u - Opening(w)
<1>1. /\ missing[w] \in 0 .. Open - 1 /\ Opening(w) \in Nat /\ Open \in Nat /\ Week \in Nat /\ Open < Week
      /\ w \in Int
  BY WeekTypes, Numbers
<1>2. u < Opening(w) + Week
  BY <1>1
<1> QED
  BY <1>1, <1>2, WeekIs DEF Quoted

LEMMA OpeningIsQuoted ==
  ASSUME World, NEW w \in Calendar
  PROVE  /\ Quoted(Opening(w)) /\ WeekOf(Opening(w)) = w
         /\ Label(Opening(w)) = Opening(w) + offset[w]
         /\ Label(Opening(w)) \in Nat /\ WeekOf(Label(Opening(w))) = w
         /\ Opening(w) <= Label(Opening(w)) /\ Label(Opening(w)) < Opening(w) + Week
<1>1. missing[w] \in 0 .. Open - 1 /\ Opening(w) \in Nat /\ Open \in Nat
  BY WeekTypes, Numbers
<1>2. Quoted(Opening(w)) /\ WeekOf(Opening(w)) = w
  BY <1>1, QuotedHours
<1> QED
  BY <1>1, <1>2, LabelInWeek

\* Labels follow each other like the bars.
LEMMA LabelsGrow ==
  ASSUME World, NEW u \in Int, NEW v \in Int, Quoted(u), Quoted(v), u < v
  PROVE  Label(u) < Label(v)
<1>1. /\ WeekOf(u) \in Int /\ WeekOf(v) \in Int
      /\ u = Opening(WeekOf(u)) + Hour(u) /\ v = Opening(WeekOf(v)) + Hour(v)
      /\ Hour(u) \in 0 .. Week - 1 /\ Hour(v) \in 0 .. Week - 1
      /\ Opening(WeekOf(u)) \in Int /\ Opening(WeekOf(v)) \in Int /\ Week \in Nat
  BY HoursOfWeek, OpeningType, Numbers
<1>2. /\ Label(u) \in Nat /\ Label(v) \in Nat
      /\ Label(u) = u + offset[WeekOf(u)] /\ Label(v) = v + offset[WeekOf(v)]
      /\ Label(u) < Opening(WeekOf(u)) + Week /\ Opening(WeekOf(v)) <= Label(v)
      /\ offset[WeekOf(u)] \in Nat
  BY LabelInWeek, WeekTypes
<1>3. CASE WeekOf(u) < WeekOf(v)
  <2>1. Opening(WeekOf(u)) + Week <= Opening(WeekOf(v))
    BY <1>1, <1>3, OpeningsGrow
  <2> QED
    BY <1>1, <1>2, <2>1
<1>4. CASE WeekOf(v) < WeekOf(u)
  <2>1. Opening(WeekOf(v)) + Week <= Opening(WeekOf(u))
    BY <1>1, <1>4, OpeningsGrow
  <2> QED
    BY <1>1, <2>1
<1>5. CASE WeekOf(u) = WeekOf(v)
  BY <1>2, <1>5
<1> QED
  BY <1>1, <1>3, <1>4, <1>5

-----------------------------------------------------------------------------
(* Sets of numbers *)

LEMMA HasLeast ==
  ASSUME NEW S \in SUBSET Nat, S # {}
  PROVE  \E m \in S : \A y \in S : m <= y
<1>1. PICK m \in S : \A y \in S : ~(<<y, m>> \in OpToRel(<, Nat))
  BY NatLessThanWellFounded, WFMin
<1>2. ASSUME NEW y \in S
      PROVE  ~(y < m)
  BY <1>1 DEF OpToRel
<1>3. m \in Nat /\ \A y \in S : y \in Nat /\ m <= y
  <2>1. \A y \in S : y \in Nat
    OBVIOUS
  <2> QED
    BY <1>2, <2>1
<1> QED
  BY <1>3

LEMMA HasGreatest ==
  ASSUME NEW S \in SUBSET Nat, S # {}, NEW n \in Nat, \A y \in S : y <= n
  PROVE  \E m \in S : \A y \in S : y <= m
<1> DEFINE T == {k \in Nat : n - k \in S}
<1>1. PICK y \in S : TRUE
  OBVIOUS
<1>2. y \in Nat /\ n - y \in Nat /\ n - (n - y) = y
  BY <1>1
<1>3. T # {} /\ T \in SUBSET Nat
  <2>1. n - y \in T
    BY <1>1, <1>2
  <2> QED
    BY <2>1
<1>4. PICK k \in T : \A x \in T : k <= x
  BY <1>3, HasLeast
<1>5. k \in Nat /\ n - k \in S /\ n - k \in Nat
  BY <1>4
<1>6. ASSUME NEW x \in S
      PROVE  x <= n - k
  <2>1. x \in Nat /\ n - x \in Nat /\ n - (n - x) = x
    BY <1>6
  <2>2. n - x \in T
    BY <2>1, <1>6
  <2>3. k <= n - x
    BY <1>4, <2>2
  <2> QED
    BY <2>1, <2>3, <1>5
<1> QED
  BY <1>5, <1>6

\* What holds at 0 and passes from one number to the next holds up to the last.
LEMMA Climb ==
  ASSUME NEW N \in Nat, NEW S, 0 \in S, \A n \in 0 .. N - 1 : n \in S => n + 1 \in S
  PROVE  0 .. N \subseteq S
<1> DEFINE bad == {n \in 0 .. N : n \notin S}
<1>1. CASE bad # {}
  <2>1. bad \in SUBSET Nat
    OBVIOUS
  <2>2. PICK n \in bad : \A y \in bad : n <= y
    BY <1>1, <2>1, HasLeast
  <2>3. n \in 0 .. N /\ n \notin S /\ n # 0
    BY <2>2
  <2>4. n - 1 \in 0 .. N - 1 /\ n - 1 \in 0 .. N /\ (n - 1) + 1 = n /\ ~(n <= n - 1)
    BY <2>3
  <2>5. n - 1 \in S
    BY <2>2, <2>4
  <2> QED
    BY <2>3, <2>4, <2>5
<1> QED
  BY <1>1

LEMMA BeforeIs ==
  ASSUME NEW S \in SUBSET Int, NEW u \in Int, NEW v \in S, v < u, \A x \in v + 1 .. u - 1 : x \notin S
  PROVE  Before(S, u) = v
<1>1. v \in Int
  OBVIOUS
<1>2. ASSUME NEW y \in S, y < u, \A x \in y + 1 .. u - 1 : x \notin S
      PROVE  y = v
  <2>1. y \in Int
    BY <1>2
  <2>2. ~(y < v)
    <3>1. y < v => v \in y + 1 .. u - 1
      BY <1>1, <2>1
    <3> QED
      BY <3>1, <1>2
  <2>3. ~(v < y)
    <3>1. v < y => y \in v + 1 .. u - 1
      BY <1>1, <1>2, <2>1
    <3> QED
      BY <3>1, <1>2
  <2> QED
    BY <1>1, <2>1, <2>2, <2>3
<1>3. v \in S /\ v < u /\ \A x \in v + 1 .. u - 1 : x \notin S
  OBVIOUS
<1> QED
  BY <1>2, <1>3 DEF Before

LEMMA LatestIs ==
  ASSUME NEW S \in SUBSET Int, NEW u \in S, \A v \in S : v <= u
  PROVE  Latest(S) = u
<1>1. ASSUME NEW y \in S, \A v \in S : v <= y
      PROVE  y = u
  <2>1. y \in Int /\ u \in Int /\ y <= u /\ u <= y
    BY <1>1
  <2> QED
    BY <2>1
<1> QED
  BY <1>1 DEF Latest

LEMMA FirstIs ==
  ASSUME NEW S \in SUBSET Int, NEW u \in S, \A v \in S : u <= v
  PROVE  First(S) = u
<1>1. ASSUME NEW y \in S, \A v \in S : y <= v
      PROVE  y = u
  <2>1. y \in Int /\ u \in Int /\ y <= u /\ u <= y
    BY <1>1
  <2> QED
    BY <2>1
<1> QED
  BY <1>1 DEF First

-----------------------------------------------------------------------------
(* The gaps between the bars, and what they are read as *)

\* A history that begins at the opening of week from.
Begun(from) == from \in Calendar /\ from <= WeekOf(now)

\* The weeks of the history whose closing and next opening it holds.
Ended(from) == {v \in from .. WeekOf(now) - 1 : Opening(v + 1) < now}
Seen(from)  == {v \in Ended(from) : ~Skipped(v)}

\* A week's weekend is known by the label of the next opening; the week's last bar.
End(v)     == Label(Opening(v + 1))
LastBar(v) == Opening(v) + Open - missing[v] - 1

LEMMA EndedTypes ==
  ASSUME World, NEW from, Begun(from), NEW v \in Ended(from)
  PROVE  /\ v \in Calendar /\ v + 1 \in Calendar /\ v \in Nat /\ from \in Nat /\ from <= v
         /\ v + 1 <= WeekOf(now) /\ Opening(v + 1) < now /\ Opening(v + 1) = Opening(v) + Week
         /\ Opening(from) <= Opening(v) /\ Opening(from) \in Nat /\ Opening(v) \in Nat
         /\ End(v) = Opening(v + 1) + offset[v + 1] /\ End(v) \in Nat
<1>1. from \in Nat /\ from < Weeks /\ WeekOf(now) \in Nat /\ WeekOf(now) < Weeks
  BY Numbers DEF Begun, Calendar, World
<1>2. v \in from .. WeekOf(now) - 1 /\ Opening(v + 1) < now
  BY DEF Ended
<1>3. v \in Calendar /\ v + 1 \in Calendar /\ v \in Nat /\ from <= v /\ v + 1 <= WeekOf(now)
  BY <1>1, <1>2, Numbers DEF Calendar
<1>4. Opening(v + 1) = Opening(v) + Week /\ Opening(from) \in Nat /\ Opening(v) \in Nat
  BY <1>1, <1>3, OpeningType
<1>5. Opening(from) <= Opening(v)
  <2>1. CASE from = v
    BY <2>1, <1>4
  <2>2. CASE from < v
    <3>1. Opening(from) + Week <= Opening(v)
      BY <2>2, <1>1, <1>3, OpeningsGrow
    <3> QED
      BY <3>1, <1>4, Numbers
  <2> QED
    BY <1>1, <1>3, <2>1, <2>2
<1>6. End(v) = Opening(v + 1) + offset[v + 1] /\ End(v) \in Nat
  BY <1>3, OpeningIsQuoted DEF End
<1> QED
  BY <1>1, <1>2, <1>3, <1>4, <1>5, <1>6

LEMMA BarsType ==
  ASSUME World, NEW from, Begun(from)
  PROVE  Bars(from) \in SUBSET Nat
<1>1. Opening(from) \in Int /\ now \in Int
  BY OpeningType, Numbers DEF Begun, Calendar, World
<1> QED
  BY <1>1, LabelInWeek DEF Bars

\* The last bar of a week that has ended, and the opening bar after it.
LEMMA AroundTheWeekend ==
  ASSUME World, NEW from, Begun(from), NEW v \in Ended(from)
  PROVE  /\ Label(LastBar(v)) \in Bars(from) /\ End(v) \in Bars(from)
         /\ Label(LastBar(v)) = Opening(v) + Open + Shown(v) - 1
         /\ Label(LastBar(v)) <= End(v) - MinGap
         /\ \A b \in Label(LastBar(v)) + 1 .. End(v) - 1 : b \notin Bars(from)
<1> DEFINE c == LastBar(v)
           o == Opening(v + 1)
<1>1. /\ v \in Calendar /\ v + 1 \in Calendar /\ v \in Nat /\ from \in Nat
      /\ Opening(v + 1) < now /\ Opening(v + 1) = Opening(v) + Week
      /\ Opening(from) <= Opening(v) /\ Opening(from) \in Nat /\ Opening(v) \in Nat
      /\ End(v) = Opening(v + 1) + offset[v + 1] /\ End(v) \in Nat
  BY EndedTypes
<1>2. missing[v] \in 0 .. Open - 1 /\ Open \in Nat /\ Open < Week /\ Week \in Nat /\ now \in Nat
  BY <1>1, WeekTypes, Numbers DEF World
<1>3. c \in Int /\ o \in Int /\ Opening(v) <= c /\ c < Opening(v) + Open - missing[v] /\ c < o
  BY <1>1, <1>2 DEF LastBar
<1>4. Quoted(c) /\ WeekOf(c) = v
  BY <1>1, <1>3, QuotedHours
<1>5. Quoted(o)
  BY <1>1, OpeningIsQuoted
<1>6. c \in {u \in Opening(from) .. now - 1 : Quoted(u)} /\ o \in {u \in Opening(from) .. now - 1 : Quoted(u)}
  BY <1>1, <1>2, <1>3, <1>4, <1>5
<1>7. Label(c) = c + offset[v] /\ Label(c) \in Nat
  BY <1>3, <1>4, LabelInWeek
<1>8. offset[v] \in 0 .. MaxOffset /\ offset[v + 1] \in 0 .. MaxOffset /\ MaxOffset \in Nat /\ MinGap \in Nat
  BY <1>1, WeekTypes, Numbers
<1>9. MinGap <= 1 + Week - Open + offset[v + 1] - offset[v]
  BY <1>1, WeekTypes, ClockAssumption
<1>10. Label(c) <= End(v) - MinGap
  BY <1>1, <1>2, <1>7, <1>8, <1>9 DEF LastBar
<1>11. ASSUME NEW b \in Label(c) + 1 .. End(v) - 1, b \in Bars(from)
       PROVE  FALSE
  <2>1. PICK x \in Opening(from) .. now - 1 : Quoted(x) /\ b = Label(x)
    BY <1>11 DEF Bars
  <2>2. x \in Int /\ Label(x) \in Nat /\ Label(c) < Label(x) /\ Label(x) < End(v)
    BY <1>1, <1>2, <1>7, <1>11, <2>1, LabelInWeek
  <2>3. ~(x < c) /\ x # c
    <3>1. x < c => Label(x) < Label(c)
      BY <1>3, <1>4, <2>1, <2>2, LabelsGrow
    <3> QED
      BY <3>1, <2>2, <1>7
  <2>4. ~(o < x) /\ x # o
    <3>1. o < x => Label(o) < Label(x)
      BY <1>3, <1>5, <2>1, <2>2, LabelsGrow
    <3> QED
      BY <3>1, <2>2, <1>1 DEF End
  <2>5. c < x /\ x < o
    BY <2>2, <2>3, <2>4, <1>3, <1>1
  <2>6. WeekOf(x) = v /\ Hour(x) = x - Opening(v)
    <3>1. Opening(v) <= x /\ x < Opening(v) + Week
      BY <1>1, <1>3, <2>2, <2>5
    <3> QED
      BY <3>1, <1>1, <2>2, WeekIs
  <2>7. Hour(x) < Open - missing[v]
    BY <2>1, <2>6 DEF Quoted
  <2> QED
    BY <2>5, <2>6, <2>7, <1>1, <1>2, <2>2 DEF LastBar
<1>12. Label(c) = Opening(v) + Open + Shown(v) - 1
  BY <1>7, <1>1, <1>2, <1>8 DEF LastBar, Shown
<1>13. Label(c) \in Bars(from) /\ Label(o) \in Bars(from)
  BY <1>6 DEF Bars
<1> QED
  BY <1>10, <1>11, <1>12, <1>13 DEF End

\* The closing of a week is read as that of a Friday: its own if it is near, an implausible one
\* if holidays moved it too far.
LEMMA ClosingRead ==
  ASSUME World, NEW v \in Calendar, NEW closed, closed = Opening(v) + Open + Shown(v)
  PROVE  /\ closed - FridayClose(closed) \in Int
         /\ ~Skipped(v) => closed - FridayClose(closed) = Shown(v) /\ Plausible(Shown(v))
         /\ Skipped(v) => ~Plausible(closed - FridayClose(closed))
<1> DEFINE closings == {Opening(w) + Open : w \in -1 .. Weeks}
           near(c) == 2 * Distance(closed, c) <= Week
<1>1. /\ offset[v] \in 0 .. MaxOffset /\ missing[v] \in 0 .. Open - 1 /\ Opening(v) \in Nat /\ v \in Nat
      /\ Shown(v) \in Int /\ Shown(v) = offset[v] - missing[v]
  BY WeekTypes DEF Shown
<1>2. /\ Week \in Nat /\ Open \in Nat /\ Open < Week /\ MaxOffset \in Nat /\ 2 * MaxOffset < Week
      /\ MaxOffset <= Week - Open /\ Weeks \in Nat
  BY Numbers
<1>3. v \in -1 .. Weeks /\ v - 1 \in -1 .. Weeks
  BY <1>1, <1>2 DEF Calendar
<1>4. Opening(v - 1) \in Int /\ Opening(v) = Opening(v - 1) + Week
  <2>1. v - 1 \in Int /\ (v - 1) + 1 = v
    BY <1>1
  <2> QED
    BY <2>1, OpeningType
<1>5. \E c \in closings : near(c)
  <2>1. CASE 2 * Distance(Shown(v), 0) <= Week
    <3>1. Distance(closed, Opening(v) + Open) = Distance(Shown(v), 0)
      BY <1>1, <1>2 DEF Distance
    <3>2. Opening(v) + Open \in closings
      BY <1>3
    <3> QED
      BY <2>1, <3>1, <3>2
  <2>2. CASE ~(2 * Distance(Shown(v), 0) <= Week)
    <3>1. 2 * Shown(v) + Week < 0
      BY <2>2, <1>1, <1>2 DEF Distance
    <3>2. Distance(closed, Opening(v - 1) + Open) = Week + Shown(v)
      BY <1>1, <1>2, <1>4 DEF Distance
    <3>3. 2 * (Week + Shown(v)) <= Week
      BY <3>1, <1>1, <1>2
    <3>4. Opening(v - 1) + Open \in closings
      BY <1>3
    <3> QED
      BY <3>2, <3>3, <3>4
  <2> QED
    BY <2>1, <2>2
<1>6. FridayClose(closed) \in closings /\ near(FridayClose(closed))
  BY <1>5 DEF FridayClose
<1>7. PICK w \in -1 .. Weeks : FridayClose(closed) = Opening(w) + Open
  BY <1>6
<1>8. w \in Int /\ Opening(w) \in Int
  BY <1>2, <1>7, OpeningType
<1>9. 2 * Distance(closed, Opening(w) + Open) <= Week
  BY <1>6, <1>7
<1>10. CASE w = v
  <2>1. closed - FridayClose(closed) = Shown(v)
    BY <1>1, <1>2, <1>7, <1>10
  <2>2. Skipped(v) <=> ~Plausible(Shown(v))
    BY <1>1, <1>2 DEF Skipped, Plausible, Distance
  <2> QED
    BY <2>1, <2>2, <1>1
<1>11. CASE w < v
  <2>1. Opening(w) + Week <= Opening(v)
    BY <1>1, <1>8, <1>11, OpeningsGrow
  <2>2. /\ closed - FridayClose(closed) \in Int
        /\ closed - FridayClose(closed) >= Week + Shown(v)
        /\ Distance(closed, FridayClose(closed)) >= Week + Shown(v)
    BY <2>1, <1>1, <1>2, <1>7, <1>8 DEF Distance
  <2>3. ~Plausible(closed - FridayClose(closed))
    BY <2>2, <1>1, <1>2 DEF Plausible, Distance
  <2>4. ASSUME ~Skipped(v)
        PROVE  FALSE
    <3>1. Distance(Shown(v), 0) <= MaxOffset
      BY <2>4, <1>1, <1>2 DEF Skipped, Distance
    <3>2. -MaxOffset <= Shown(v)
      BY <3>1, <1>1, <1>2 DEF Distance
    <3>3. Distance(closed, FridayClose(closed)) \in Int
      BY <1>1, <1>2, <1>7, <1>8 DEF Distance
    <3> QED
      BY <3>2, <3>3, <2>2, <1>1, <1>2, <1>6
  <2> QED
    BY <2>2, <2>3, <2>4
<1>12. CASE v < w
  <2>1. Opening(v) + Week <= Opening(w)
    BY <1>1, <1>8, <1>12, OpeningsGrow
  <2>2. /\ closed - FridayClose(closed) \in Int
        /\ closed - FridayClose(closed) <= Shown(v) - Week
    BY <2>1, <1>1, <1>2, <1>7, <1>8
  <2>3. Shown(v) - Week < -MaxOffset
    BY <1>1, <1>2
  <2>4. ~Plausible(closed - FridayClose(closed))
    BY <2>2, <2>3, <1>1, <1>2 DEF Plausible, Distance
  <2>5. ASSUME ~Skipped(v)
        PROVE  FALSE
    <3>1. Distance(closed, FridayClose(closed)) >= Week - Shown(v)
      BY <2>2, <2>1, <1>1, <1>2, <1>7, <1>8 DEF Distance
    <3>2. Distance(closed, FridayClose(closed)) \in Int
      BY <1>1, <1>2, <1>7, <1>8 DEF Distance
    <3> QED
      BY <3>1, <3>2, <1>1, <1>2, <1>6
  <2> QED
    BY <2>2, <2>4, <2>5
<1> QED
  BY <1>1, <1>8, <1>10, <1>11, <1>12

LEMMA WeekendRead ==
  ASSUME World, NEW from, Begun(from), NEW v \in Ended(from)
  PROVE  /\ Reading(Bars(from), End(v)) \in Int
         /\ ~Skipped(v) => Reading(Bars(from), End(v)) = Shown(v) /\ Plausible(Shown(v))
         /\ Skipped(v) => ~Plausible(Reading(Bars(from), End(v)))
<1> DEFINE bars == Bars(from)
           c == Label(LastBar(v))
<1>1. /\ c \in bars /\ c = Opening(v) + Open + Shown(v) - 1 /\ c <= End(v) - MinGap
      /\ \A b \in c + 1 .. End(v) - 1 : b \notin bars
  BY AroundTheWeekend
<1>2. bars \in SUBSET Int /\ End(v) \in Int /\ v \in Calendar
  BY BarsType, EndedTypes
<1>3. Before(bars, End(v)) = c
  <2>1. c \in Int
    BY <1>1, <1>2
  <2>2. c < End(v)
    BY <1>1, <1>2, <2>1, Numbers
  <2> HIDE DEF c, bars
  <2> QED
    BY <1>1, <1>2, <2>2, BeforeIs
<1>4. c + 1 = Opening(v) + Open + Shown(v)
  <2>1. Opening(v) \in Int /\ Open \in Int /\ Shown(v) \in Int
    BY <1>2, WeekTypes, Numbers
  <2> QED
    BY <1>1, <2>1
<1>5. Reading(bars, End(v)) = (c + 1) - FridayClose(c + 1)
  BY <1>3 DEF Reading
<1> HIDE DEF c, bars
<1>6. /\ (c + 1) - FridayClose(c + 1) \in Int
      /\ ~Skipped(v) => (c + 1) - FridayClose(c + 1) = Shown(v) /\ Plausible(Shown(v))
      /\ Skipped(v) => ~Plausible((c + 1) - FridayClose(c + 1))
  BY <1>2, <1>4, ClosingRead
<1> QED
  BY <1>5, <1>6 DEF bars

Gaps(bars) ==
  {u \in bars : (\E b \in bars : b < u) /\ \A b \in u - MinGap + 1 .. u - 1 : b \notin bars}

\* The market pauses long enough only after a week's closing.
LEMMA GapsAre ==
  ASSUME World, NEW from, Begun(from)
  PROVE  Gaps(Bars(from)) = {End(v) : v \in Ended(from)}
<1> DEFINE bars == Bars(from)
<1>1. bars \in SUBSET Nat /\ MinGap \in Nat /\ MinGap > 1 /\ Week \in Nat /\ Week > 0 /\ now \in Nat
  BY BarsType, Numbers DEF World
<1>2. ASSUME NEW v \in Ended(from)
      PROVE  End(v) \in Gaps(bars)
  <2>1. /\ Label(LastBar(v)) \in bars /\ End(v) \in bars
        /\ Label(LastBar(v)) <= End(v) - MinGap
        /\ \A b \in Label(LastBar(v)) + 1 .. End(v) - 1 : b \notin bars
    BY AroundTheWeekend
  <2>2. Label(LastBar(v)) \in Nat /\ End(v) \in Nat
    BY <2>1, <1>1
  <2>3. Label(LastBar(v)) < End(v)
    BY <2>1, <2>2, <1>1
  <2>4. \A b \in End(v) - MinGap + 1 .. End(v) - 1 : b \in Label(LastBar(v)) + 1 .. End(v) - 1
    BY <2>1, <2>2, <1>1
  <2> QED
    BY <2>1, <2>3, <2>4 DEF Gaps
<1>3. ASSUME NEW u \in Gaps(bars)
      PROVE  \E v \in Ended(from) : u = End(v)
  <2>1. u \in bars /\ (\E b \in bars : b < u) /\ \A b \in u - MinGap + 1 .. u - 1 : b \notin bars
    BY DEF Gaps
  <2>2. PICK x \in Opening(from) .. now - 1 : Quoted(x) /\ u = Label(x)
    BY <2>1 DEF Bars
  <2>3. PICK b \in bars : b < u
    BY <2>1
  <2>4. PICK y \in Opening(from) .. now - 1 : Quoted(y) /\ b = Label(y)
    BY DEF Bars
  <2>5. /\ from \in Nat /\ from \in Calendar /\ WeekOf(now) \in Calendar /\ WeekOf(now) \in Nat
        /\ Opening(from) \in Nat
    BY OpeningType, Numbers DEF Begun, Calendar, World
  <2>6. /\ x \in Int /\ y \in Int /\ Opening(from) <= y /\ x < now
        /\ WeekOf(x) \in Calendar /\ Label(x) = x + offset[WeekOf(x)] /\ Hour(x) < Open - missing[WeekOf(x)]
        /\ x = Opening(WeekOf(x)) + Hour(x) /\ Hour(x) \in 0 .. Week - 1
    BY <2>2, <2>4, <2>5, <1>1, LabelInWeek, HoursOfWeek DEF Quoted
  <2>7. WeekOf(x) \in Nat /\ Opening(WeekOf(x)) \in Nat
    BY <2>6, WeekTypes
  <2>8. y < x
    <3>1. ~(x < y)
      <4>1. x < y => Label(x) < Label(y)
        BY <2>2, <2>4, <2>6, LabelsGrow
      <4>2. Label(x) \in Nat /\ Label(y) \in Nat
        BY <2>2, <2>3, <2>4, <1>1, <2>1
      <4> QED
        BY <4>1, <4>2, <2>2, <2>3, <2>4
    <3>2. x # y
      <4>1. Label(x) \in Nat /\ Label(y) \in Nat
        BY <2>2, <2>3, <2>4, <1>1, <2>1
      <4> QED
        BY <4>1, <2>2, <2>3, <2>4
    <3> QED
      BY <3>1, <3>2, <2>6
  <2>9. Opening(from) < x
    BY <2>8, <2>6, <2>5
  <2>10. Hour(x) = 0
    <3>1. SUFFICES ASSUME Hour(x) # 0
                   PROVE  FALSE
      OBVIOUS
    <3>2. Opening(WeekOf(x)) <= x - 1 /\ x - 1 < Opening(WeekOf(x)) + Open - missing[WeekOf(x)]
      <4>1. missing[WeekOf(x)] \in Int /\ Open \in Int
        BY <2>6, WeekTypes, Numbers
      <4> QED
        BY <3>1, <4>1, <2>6, <2>7
    <3>3. Quoted(x - 1) /\ WeekOf(x - 1) = WeekOf(x)
      BY <3>2, <2>6, QuotedHours
    <3>4. x - 1 \in Opening(from) .. now - 1
      BY <2>9, <2>6, <2>5, <1>1
    <3>5. Label(x - 1) = Label(x) - 1
      <4>1. Label(x - 1) = (x - 1) + offset[WeekOf(x)]
        BY <3>3 DEF Label
      <4>2. offset[WeekOf(x)] \in Nat
        BY <2>6, WeekTypes
      <4> QED
        BY <4>1, <4>2, <2>6
    <3>6. Label(x) - 1 \in bars
      BY <3>3, <3>4, <3>5 DEF Bars
    <3>7. u \in Nat
      BY <2>1, <1>1
    <3>8. u - 1 \in u - MinGap + 1 .. u - 1
      BY <3>7, <1>1
    <3> QED
      BY <3>6, <3>8, <2>1, <2>2
  <2>11. x = Opening(WeekOf(x))
    BY <2>10, <2>6, <2>7
  <2>12. from < WeekOf(x)
    <3>1. ~(WeekOf(x) < from)
      <4>1. WeekOf(x) < from => Opening(WeekOf(x)) + Week <= Opening(from)
        BY <2>5, <2>7, OpeningsGrow
      <4> QED
        BY <4>1, <2>5, <2>6, <2>9, <2>11, <1>1
    <3>2. WeekOf(x) # from
      BY <2>9, <2>11, <2>5, <2>6
    <3> QED
      BY <3>1, <3>2, <2>5, <2>7
  <2>13. WeekOf(x) <= WeekOf(now)
    <3>1. now = Opening(WeekOf(now)) + Hour(now) /\ Hour(now) \in 0 .. Week - 1 /\ Opening(WeekOf(now)) \in Int
      BY <2>5, <1>1, HoursOfWeek, OpeningType
    <3>2. WeekOf(now) < WeekOf(x) => Opening(WeekOf(now)) + Week <= Opening(WeekOf(x))
      BY <2>5, <2>7, OpeningsGrow
    <3> QED
      BY <3>1, <3>2, <2>5, <2>6, <2>7, <2>11, <1>1
  <2> DEFINE v == WeekOf(x) - 1
  <2>14. v \in from .. WeekOf(now) - 1 /\ v + 1 = WeekOf(x)
    BY <2>5, <2>7, <2>12, <2>13
  <2>15. v \in Ended(from)
    BY <2>14, <2>11, <2>6 DEF Ended
  <2>16. u = End(v)
    BY <2>14, <2>11, <2>2 DEF End
  <2> QED
    BY <2>15, <2>16
<1> QED
  BY <1>2, <1>3

\* The weekends of a history are those of the weeks it has seen, each with what its closing shows.
LEMMA WeekendsAre ==
  ASSUME World, NEW from, Begun(from)
  PROVE  /\ DOMAIN Weekends(Bars(from)) = {End(v) : v \in Seen(from)}
         /\ \A v \in Seen(from) : Weekends(Bars(from))[End(v)] = Shown(v)
<1> DEFINE bars == Bars(from)
           read == [u \in Gaps(bars) |-> Reading(bars, u)]
<1>1. Weekends(bars) = [u \in {u \in Gaps(bars) : Plausible(read[u])} |-> read[u]]
  BY DEF Weekends, Gaps
<1>2. Gaps(bars) = {End(v) : v \in Ended(from)}
  BY GapsAre
<1>3. \A v \in Ended(from) : read[End(v)] = Reading(bars, End(v))
  BY <1>2
<1>4. \A v \in Ended(from) : Skipped(v) <=> ~Plausible(read[End(v)])
  BY <1>3, WeekendRead
<1>5. \A v \in Ended(from) : ~Skipped(v) => read[End(v)] = Shown(v)
  BY <1>3, WeekendRead
<1> HIDE DEF read, bars
<1>6. {u \in Gaps(bars) : Plausible(read[u])} = {End(v) : v \in Seen(from)}
  BY <1>2, <1>4 DEF Seen
<1>7. \A v \in Seen(from) : Weekends(bars)[End(v)] = Shown(v)
  BY <1>1, <1>5, <1>6 DEF Seen
<1> QED
  BY <1>1, <1>6, <1>7 DEF bars

\* The history of a week seen: its own types, and the order of its weekends.
LEMMA SeenTypes ==
  ASSUME World, NEW from, Begun(from), NEW v \in Seen(from)
  PROVE  /\ v \in Ended(from) /\ ~Skipped(v) /\ v \in Calendar /\ v + 1 \in Calendar /\ v \in Nat
         /\ from \in Nat /\ from <= v /\ v < WeekOf(now) /\ WeekOf(now) \in Nat
         /\ End(v) \in Nat /\ Shown(v) \in Int
         /\ -MaxOffset <= Shown(v) /\ Shown(v) <= MaxOffset
<1>1. v \in Ended(from) /\ ~Skipped(v)
  BY DEF Seen
<1>2. /\ v \in Calendar /\ v + 1 \in Calendar /\ v \in Nat /\ from \in Nat /\ from <= v
      /\ v + 1 <= WeekOf(now) /\ End(v) \in Nat
  BY <1>1, EndedTypes
<1>3. WeekOf(now) \in Nat
  BY Numbers DEF World, Calendar
<1>4. Shown(v) \in Int /\ Plausible(Shown(v)) /\ MaxOffset \in Nat
  BY <1>1, <1>2, WeekTypes, WeekendRead, Numbers
<1>5. -MaxOffset <= Shown(v) /\ Shown(v) <= MaxOffset
  BY <1>4 DEF Plausible, Distance
<1> QED
  BY <1>1, <1>2, <1>3, <1>4, <1>5

LEMMA EndsGrow ==
  ASSUME World, NEW v \in Int, NEW w \in Int, v + 1 \in Calendar, w + 1 \in Calendar, v < w
  PROVE  End(v) < End(w) /\ End(v) < Opening(w + 1)
<1>1. /\ Label(Opening(v + 1)) < Opening(v + 1) + Week /\ Label(Opening(v + 1)) \in Nat
      /\ Opening(w + 1) <= Label(Opening(w + 1)) /\ Label(Opening(w + 1)) \in Nat
  BY OpeningIsQuoted
<1>2. v + 1 \in Int /\ w + 1 \in Int /\ v + 1 < w + 1
  OBVIOUS
<1>3. Opening(v + 1) + Week <= Opening(w + 1)
  BY <1>2, OpeningsGrow
<1>4. Opening(v + 1) \in Int /\ Opening(w + 1) \in Int /\ Week \in Int
  BY <1>2, OpeningType, Numbers
<1> QED
  BY <1>1, <1>3, <1>4 DEF End

LEMMA SeenFinite ==
  ASSUME World, NEW from, Begun(from)
  PROVE  Seen(from) \in SUBSET Nat /\ IsFiniteSet(Seen(from))
<1>1. Seen(from) \in SUBSET Nat
  BY SeenTypes
<1>2. \A v \in Seen(from) : v <= WeekOf(now)
  BY SeenTypes
<1>3. WeekOf(now) \in Nat
  BY Numbers DEF World, Calendar
<1> QED
  BY <1>1, <1>2, <1>3, FS_BoundedSetOfNaturals

\* As many weekends as weeks.
LEMMA EndsCount ==
  ASSUME World, NEW from, Begun(from), NEW S \in SUBSET Seen(from)
  PROVE  /\ IsFiniteSet(S) /\ IsFiniteSet({End(v) : v \in S})
         /\ Cardinality({End(v) : v \in S}) = Cardinality(S) /\ Cardinality(S) \in Nat
<1> DEFINE T == {End(v) : v \in S}
           h == [v \in S |-> End(v)]
<1>1. IsFiniteSet(S)
  BY SeenFinite, FS_Subset
<1>2. \A v, w \in S : h[v] = h[w] => v = w
  <2>1. SUFFICES ASSUME NEW v \in S, NEW w \in S, End(v) = End(w), v # w
                 PROVE  FALSE
    OBVIOUS
  <2>2. /\ v \in Nat /\ w \in Nat /\ v + 1 \in Calendar /\ w + 1 \in Calendar
        /\ End(v) \in Nat /\ End(w) \in Nat
    BY SeenTypes
  <2>3. v < w => End(v) < End(w)
    BY <2>2, EndsGrow
  <2>4. w < v => End(w) < End(v)
    BY <2>2, EndsGrow
  <2> QED
    BY <2>1, <2>2, <2>3, <2>4
<1>3. h \in Bijection(S, T)
  <2>1. h \in [S -> T]
    OBVIOUS
  <2>2. \A t \in T : \E v \in S : h[v] = t
    OBVIOUS
  <2> QED
    BY <2>1, <2>2, <1>2 DEF Bijection, Injection, Surjection, IsInjective
<1>4. ExistsBijection(S, T)
  BY <1>3 DEF ExistsBijection
<1> QED
  BY <1>1, <1>4, FS_Bijection, FS_CardinalityType

-----------------------------------------------------------------------------
(* Confirmation *)

\* The weeks that confirm what one shows.
After(from, v) ==
  {x \in Seen(from) : v < x /\ Cardinality({y \in Seen(from) : v < y /\ y < x}) < Confirmations}
Agreed(from, v) ==
  /\ Cardinality(After(from, v)) = Confirmations
  /\ \A x \in After(from, v) : Shown(x) = Shown(v)

LEMMA EndsOrdered ==
  ASSUME World, NEW from, Begun(from), NEW v \in Seen(from), NEW w \in Seen(from)
  PROVE  v < w <=> End(v) < End(w)
<1>1. /\ v \in Nat /\ w \in Nat /\ v + 1 \in Calendar /\ w + 1 \in Calendar
      /\ End(v) \in Nat /\ End(w) \in Nat
  BY SeenTypes
<1>2. v < w => End(v) < End(w)
  BY <1>1, EndsGrow
<1>3. w < v => End(w) < End(v)
  BY <1>1, EndsGrow
<1> QED
  BY <1>1, <1>2, <1>3

LEMMA EndsDiffer ==
  ASSUME World, NEW from, Begun(from), NEW v \in Seen(from), NEW w \in Seen(from), End(v) = End(w)
  PROVE  v = w
<1>1. v \in Nat /\ w \in Nat /\ End(v) \in Nat /\ End(w) \in Nat
  BY SeenTypes
<1>2. ~(v < w)
  BY <1>1, EndsOrdered
<1>3. ~(w < v)
  <2>1. w < v => End(w) < End(v)
    BY EndsOrdered
  <2> QED
    BY <2>1, <1>1
<1> QED
  BY <1>1, <1>2, <1>3

LEMMA ConfirmedIs ==
  ASSUME World, NEW from, Begun(from), NEW v \in Seen(from)
  PROVE  Confirmed(Weekends(Bars(from)), End(v)) <=> Agreed(from, v)
<1> DEFINE W == Weekends(Bars(from))
<1>1. DOMAIN W = {End(x) : x \in Seen(from)} /\ \A x \in Seen(from) : W[End(x)] = Shown(x)
  BY WeekendsAre
<1> HIDE DEF W
<1>2. ASSUME NEW x \in Seen(from)
      PROVE  Cardinality({e \in DOMAIN W : End(v) < e /\ e < End(x)})
             = Cardinality({y \in Seen(from) : v < y /\ y < x})
  <2> DEFINE S == {y \in Seen(from) : v < y /\ y < x}
  <2>1. {e \in DOMAIN W : End(v) < e /\ e < End(x)} = {End(y) : y \in S}
    BY <1>1, EndsOrdered
  <2>2. S \in SUBSET Seen(from)
    OBVIOUS
  <2> QED
    BY <2>1, <2>2, EndsCount
<1>3. Following(W, End(v)) = {End(x) : x \in After(from, v)}
  <2>1. \A x \in Seen(from) : End(x) \in Following(W, End(v)) <=> x \in After(from, v)
    BY <1>1, <1>2, EndsOrdered DEF Following, After
  <2>2. \A e \in Following(W, End(v)) : \E x \in Seen(from) : e = End(x)
    BY <1>1 DEF Following
  <2>3. \A x \in After(from, v) : x \in Seen(from)
    BY DEF After
  <2> QED
    BY <2>1, <2>2, <2>3
<1>4. Cardinality(Following(W, End(v))) = Cardinality(After(from, v))
  <2>1. After(from, v) \in SUBSET Seen(from)
    BY DEF After
  <2> QED
    BY <1>3, <2>1, EndsCount
<1>5. (\A e \in Following(W, End(v)) : W[e] = W[End(v)]) <=> (\A x \in After(from, v) : Shown(x) = Shown(v))
  <2>1. \A x \in After(from, v) : x \in Seen(from)
    BY DEF After
  <2> QED
    BY <1>1, <1>3, <2>1
<1> QED
  BY <1>4, <1>5 DEF Confirmed, Agreed, W

\* The week seen before another.
Previous(from, p, v) == p < v /\ \A y \in Seen(from) : ~(p < y /\ y < v)

LEMMA HasPrevious ==
  ASSUME World, NEW from, Begun(from), NEW v \in Seen(from), NEW q \in Seen(from), q < v
  PROVE  \E p \in Seen(from) : Previous(from, p, v) /\ q <= p
<1> DEFINE S == {y \in Seen(from) : y < v}
<1>1. v \in Nat /\ q \in Nat /\ Seen(from) \in SUBSET Nat
  BY SeenTypes, SeenFinite
<1>2. S \in SUBSET Nat /\ S # {} /\ \A y \in S : y <= v
  BY <1>1
<1>3. PICK p \in S : \A y \in S : y <= p
  BY <1>1, <1>2, HasGreatest
<1>4. p \in Seen(from) /\ p \in Nat /\ p < v /\ q <= p
  BY <1>1, <1>3
<1>5. ASSUME NEW y \in Seen(from), p < y, y < v
      PROVE  FALSE
  <2>1. y \in S /\ y \in Nat
    BY <1>1, <1>5
  <2> QED
    BY <2>1, <1>3, <1>4, <1>5
<1> QED
  BY <1>4, <1>5 DEF Previous

LEMMA SinceIs ==
  ASSUME World, NEW from, Begun(from), NEW v \in Seen(from), NEW p \in Seen(from), Previous(from, p, v)
  PROVE  Since(Weekends(Bars(from)), End(v)) = End(p)
<1> DEFINE D == DOMAIN Weekends(Bars(from))
<1>1. D = {End(x) : x \in Seen(from)}
  BY WeekendsAre
<1>2. D \in SUBSET Int /\ End(v) \in Int /\ End(p) \in D /\ End(p) \in Int
  BY <1>1, SeenTypes
<1>3. End(p) < End(v)
  BY EndsOrdered DEF Previous
<1>4. \A e \in End(p) + 1 .. End(v) - 1 : e \notin D
  <2>1. SUFFICES ASSUME NEW e \in End(p) + 1 .. End(v) - 1, e \in D
                 PROVE  FALSE
    OBVIOUS
  <2>2. PICK y \in Seen(from) : e = End(y)
    BY <1>1, <2>1
  <2>3. End(p) < End(y) /\ End(y) < End(v)
    BY <1>2, <2>1, <2>2
  <2> QED
    BY <2>3, EndsOrdered DEF Previous
<1> HIDE DEF D
<1>5. Before(D, End(v)) = End(p)
  BY <1>2, <1>3, <1>4, BeforeIs
<1> QED
  BY <1>5 DEF Since, D

-----------------------------------------------------------------------------
(* Holidays *)

\* Of any weekends in a row that would confirm each other, one closing was regular.
OneIsRegular ==
  \A u, v \in Calendar :
    Cardinality({w \in u .. v : ~Skipped(w)}) > Confirmations => \E w \in u .. v : missing[w] = 0

\* A regular week confirms what another shows, and every week seen in between shows the same.
Vouches(from, v, r) ==
  /\ r \in Seen(from) /\ v <= r /\ missing[r] = 0 /\ Shown(r) = Shown(v) /\ Shown(v) = offset[r]
  /\ \A y \in v .. r : ~Skipped(y) => Shown(y) = Shown(v)

LEMMA OneVouches ==
  ASSUME World, OneIsRegular, NEW from, Begun(from), NEW v \in Seen(from), Agreed(from, v)
  PROVE  \E r \in Seen(from) : Vouches(from, v, r)
<1> DEFINE G == After(from, v) \cup {v}
<1>1. Seen(from) \in SUBSET Nat /\ IsFiniteSet(Seen(from)) /\ G \in SUBSET Seen(from) /\ v \in Nat
  BY SeenFinite, SeenTypes DEF After
<1>2. IsFiniteSet(After(from, v)) /\ v \notin After(from, v)
  <2>1. After(from, v) \in SUBSET Seen(from)
    BY DEF After
  <2>2. IsFiniteSet(After(from, v))
    BY <2>1, <1>1, FS_Subset
  <2>3. v \notin After(from, v)
    BY <1>1 DEF After
  <2> QED
    BY <2>2, <2>3
<1>3. Cardinality(G) = Confirmations + 1 /\ IsFiniteSet(G)
  BY <1>2, FS_AddElement DEF Agreed
<1>4. PICK m \in G : \A y \in G : y <= m
  <2>1. WeekOf(now) \in Nat /\ \A y \in G : y <= WeekOf(now)
    BY <1>1, SeenTypes
  <2>2. G \in SUBSET Nat /\ G # {}
    BY <1>1
  <2> HIDE DEF G
  <2> QED
    BY <2>1, <2>2, HasGreatest
<1>5. m \in Nat /\ m \in Seen(from) /\ m \in Calendar /\ v \in Calendar /\ v <= m
  BY <1>1, <1>4, SeenTypes
<1>6. Cardinality({w \in v .. m : ~Skipped(w)}) > Confirmations
  <2> DEFINE H == {w \in v .. m : ~Skipped(w)}
  <2>1. IsFiniteSet(H)
    <3>1. IsFiniteSet(v .. m) /\ H \in SUBSET (v .. m)
      BY <1>1, <1>5, FS_Interval
    <3> QED
      BY <3>1, FS_Subset
  <2>2. G \in SUBSET H
    <3>1. ASSUME NEW y \in G
          PROVE  y \in H
      <4>1. y \in Seen(from) /\ y \in Nat /\ ~Skipped(y) /\ v <= y
        BY <1>1, <3>1, SeenTypes DEF After
      <4> QED
        BY <4>1, <1>4, <1>5, <3>1
    <3> QED
      BY <3>1
  <2> HIDE DEF G, H
  <2>3. Cardinality(G) <= Cardinality(H) /\ Cardinality(H) \in Nat
    BY <2>1, <2>2, FS_Subset, FS_CardinalityType
  <2>4. Confirmations \in Nat
    BY Numbers
  <2> QED
    BY <1>3, <2>3, <2>4 DEF H
<1>7. PICK r \in v .. m : missing[r] = 0
  BY <1>5, <1>6 DEF OneIsRegular
\* Every week seen up to the last one of the group belongs to it.
<1>8. ASSUME NEW y \in v .. m, ~Skipped(y)
      PROVE  y \in Seen(from) /\ Shown(y) = Shown(v)
  <2>1. y \in Nat /\ v <= y /\ y <= m
    BY <1>1, <1>5
  <2>2. y \in Seen(from)
    <3>1. m \in Ended(from) /\ v \in Ended(from) /\ from \in Nat /\ from <= v /\ m < WeekOf(now) /\ WeekOf(now) \in Nat
      BY <1>5, SeenTypes
    <3>2. Opening(m + 1) < now /\ now \in Nat
      BY <3>1 DEF Ended, World
    <3>3. Opening(y + 1) < now
      <4>1. y < m => Opening(y + 1) + Week <= Opening(m + 1)
        BY <2>1, <1>5, OpeningsGrow
      <4>2. Opening(y + 1) \in Int /\ Opening(m + 1) \in Int /\ Week \in Nat
        BY <2>1, <1>5, OpeningType, Numbers
      <4> QED
        BY <4>1, <4>2, <3>2, <2>1, <1>5
    <3>4. y \in from .. WeekOf(now) - 1
      BY <3>1, <2>1, <1>5
    <3> QED
      BY <3>3, <3>4, <1>8 DEF Seen, Ended
  <2>3. CASE y = v
    BY <2>2, <2>3
  <2>4. CASE v < y
    <3>1. m \in After(from, v)
      BY <2>1, <2>4, <1>4, <1>5
    <3> DEFINE A == {x \in Seen(from) : v < x /\ x < m}
               B == {x \in Seen(from) : v < x /\ x < y}
    <3>2. IsFiniteSet(A) /\ B \in SUBSET A
      <4>1. A \in SUBSET Seen(from)
        OBVIOUS
      <4>2. B \in SUBSET A
        <5>1. ASSUME NEW x \in B
              PROVE  x \in A
          <6>1. x \in Seen(from) /\ x \in Nat /\ v < x /\ x < y
            BY <1>1, <5>1
          <6> QED
            BY <6>1, <2>1, <1>5
        <5> QED
          BY <5>1
      <4> QED
        BY <4>1, <4>2, <1>1, FS_Subset
    <3>3. Cardinality(A) < Confirmations
      BY <3>1 DEF After
    <3> HIDE DEF A, B
    <3>4. Cardinality(B) <= Cardinality(A) /\ Cardinality(A) \in Nat /\ Cardinality(B) \in Nat /\ Confirmations \in Nat
      BY <3>2, FS_Subset, FS_CardinalityType, Numbers
    <3>5. Cardinality(B) < Confirmations
      BY <3>3, <3>4
    <3>6. y \in After(from, v)
      BY <2>2, <2>4, <3>5 DEF After, B
    <3> QED
      BY <2>2, <3>6 DEF Agreed
  <2> QED
    BY <2>1, <2>3, <2>4, <1>1
<1>9. r \in Nat /\ v <= r /\ r <= m /\ r \in Calendar
  BY <1>1, <1>5, <1>7, Numbers DEF Calendar
<1>10. offset[r] \in 0 .. MaxOffset /\ MaxOffset \in Nat
  BY <1>9, WeekTypes, Numbers
<1>11. ~Skipped(r) /\ Shown(r) = offset[r]
  BY <1>7, <1>10 DEF Skipped, Shown, Distance
<1>12. \A y \in v .. r : y \in v .. m
  BY <1>1, <1>5, <1>9
<1> QED
  BY <1>7, <1>8, <1>9, <1>11, <1>12 DEF Vouches

LEMMA SwitchBetween ==
  ASSUME World, NEW v \in Calendar, NEW r \in Calendar, v < r, offset[v] # offset[r]
  PROVE  \E s \in v + 1 .. r : s \in Switches(offset) /\ offset[s] = offset[r]
<1> DEFINE S == {t \in v .. r : offset[t] # offset[r]}
<1>1. v \in Nat /\ r \in Nat /\ r < Weeks /\ Weeks \in Nat
  BY Numbers DEF Calendar
<1>2. S \in SUBSET Nat /\ S # {} /\ \A t \in S : t <= r
  BY <1>1
<1>3. PICK t \in S : \A y \in S : y <= t
  BY <1>1, <1>2, HasGreatest
<1>4. t \in Nat /\ v <= t /\ t < r /\ offset[t] # offset[r]
  BY <1>1, <1>3
<1>5. t + 1 \in v .. r /\ ~(t + 1 <= t)
  BY <1>1, <1>4
<1>6. offset[t + 1] = offset[r]
  BY <1>3, <1>5
<1>7. t + 1 \in 1 .. Weeks - 1 /\ (t + 1) - 1 = t /\ t + 1 \in v + 1 .. r
  BY <1>1, <1>4
<1>8. t + 1 \in Switches(offset)
  BY <1>4, <1>6, <1>7 DEF Switches
<1> QED
  BY <1>6, <1>7, <1>8

\* A week that shows what a later, regular one has, as all between them do, has that offset itself
\* or is mistaken.
LEMMA ShownOrMistaken ==
  ASSUME World, NEW v \in Calendar, NEW r \in Calendar, v <= r, missing[r] = 0,
         \A y \in v .. r : ~Skipped(y) => Shown(y) = offset[r]
  PROVE  offset[v] = offset[r] \/ Mistaken(v)
<1> DEFINE S == {t \in v .. r : missing[t] = 0}
<1>1. v \in Nat /\ r \in Nat
  BY Numbers DEF Calendar
<1>2. CASE Skipped(v)
  BY <1>2 DEF Mistaken
<1>3. CASE missing[v] = 0 /\ ~Skipped(v)
  BY <1>1, <1>3, WeekTypes DEF Shown
<1>4. CASE missing[v] # 0 /\ ~Skipped(v)
  <2>1. S \in SUBSET Nat /\ S # {}
    BY <1>1
  <2>2. PICK q \in S : \A y \in S : q <= y
    BY <2>1, HasLeast
  <2>3. q \in Nat /\ v <= q /\ q <= r /\ missing[q] = 0 /\ v < q /\ q \in v .. r
    BY <1>1, <1>4, <2>2
  <2>4. q \in Calendar
    BY <2>3, <1>1, Numbers DEF Calendar
  <2>5. offset[q] \in 0 .. MaxOffset /\ MaxOffset \in Nat
    BY <2>4, WeekTypes, Numbers
  <2>6. ~Skipped(q) /\ Shown(q) = offset[q]
    BY <2>3, <2>5 DEF Skipped, Shown, Distance
  <2>7. offset[q] = offset[r]
    BY <2>3, <2>6
  <2>8. Shown(v) = offset[r]
    BY <1>1, <1>4
  <2>9. offset[v] # offset[q]
    <3>1. offset[v] \in Int /\ missing[v] \in Int /\ Shown(v) = offset[v] - missing[v]
      BY WeekTypes DEF Shown
    <3> QED
      BY <3>1, <2>7, <2>8, <1>4
  <2>10. PICK s \in v + 1 .. q : s \in Switches(offset) /\ offset[s] = offset[q]
    BY <2>3, <2>4, <2>9, SwitchBetween
  <2>11. s \in Nat /\ v < s
    BY <1>1, <2>3, <2>10
  <2>12. \A y \in v .. s - 1 : missing[y] # 0
    <3>1. SUFFICES ASSUME NEW y \in v .. s - 1, missing[y] = 0
                   PROVE  FALSE
      OBVIOUS
    <3>2. y \in v .. r /\ ~(q <= y)
      BY <3>1, <1>1, <2>3, <2>10, <2>11
    <3> QED
      BY <3>1, <3>2, <2>2
  <2>13. offset[v] - missing[v] = offset[s]
    BY <2>7, <2>8, <2>10 DEF Shown
  <2> QED
    BY <2>10, <2>11, <2>12, <2>13 DEF Mistaken
<1> QED
  BY <1>2, <1>3, <1>4

-----------------------------------------------------------------------------
(* The weeks that can be known, at the moment of the measurement *)

\* The week since which the offset of w is what it is, as far as the history goes.
LastSwitch(from, w) ==
  LET begun == {s \in Switches(offset) : s <= w} \cup {from}
  IN  CHOOSE s \in begun : \A t \in begun : t <= s

ReadFrom(from, w) == {v \in Seen(from) : LastSwitch(from, w) <= v}
FirstOf(read)     == {v \in read : Cardinality({u \in read : u < v}) <= Confirmations}

\* Settled, for a clock measured now.
Trusted(from, w) ==
  /\ from <= w
  /\ Cardinality(FirstOf(ReadFrom(from, w))) = Confirmations + 1
  /\ \A v \in FirstOf(ReadFrom(from, w)) : missing[v] = 0 /\ offset[v] = offset[w]
  /\ \E v \in w .. Weeks - 1 : ~Mistaken(v) /\ \A u \in w .. v : offset[u] = offset[w]

LEMMA LastSwitchIs ==
  ASSUME World, NEW from \in Calendar, NEW w \in Calendar, from <= w
  PROVE  /\ LastSwitch(from, w) \in Nat /\ from <= LastSwitch(from, w) /\ LastSwitch(from, w) <= w
         /\ \A y \in LastSwitch(from, w) .. w : offset[y] = offset[w]
<1> DEFINE begun == {s \in Switches(offset) : s <= w} \cup {from}
           l == LastSwitch(from, w)
<1>1. from \in Nat /\ w \in Nat /\ Weeks \in Nat /\ w < Weeks
  BY Numbers DEF Calendar
<1>2. begun \in SUBSET Nat /\ begun # {} /\ \A t \in begun : t <= w
  BY <1>1 DEF Switches
<1>3. \E s \in begun : \A t \in begun : t <= s
  <2> HIDE DEF begun
  <2> QED
    BY <1>1, <1>2, HasGreatest
<1>4. l \in begun /\ \A t \in begun : t <= l
  BY <1>3 DEF LastSwitch
<1>5. l \in Nat /\ from <= l /\ l <= w
  BY <1>2, <1>4
<1>6. ASSUME NEW y \in l .. w, offset[y] # offset[w]
      PROVE  FALSE
  <2>1. y \in Calendar /\ y < w /\ l <= y /\ y \in Nat
    BY <1>1, <1>5, <1>6 DEF Calendar
  <2>2. PICK s \in y + 1 .. w : s \in Switches(offset)
    BY <2>1, <1>6, SwitchBetween
  <2>3. s \in begun
    BY <1>1, <2>1, <2>2
  <2>4. s <= l /\ y < s
    BY <1>1, <1>4, <2>1, <2>2, <2>3
  <2>5. s \in Nat
    BY <2>3, <1>2
  <2> QED
    BY <1>5, <2>1, <2>4, <2>5
<1> QED
  BY <1>5, <1>6

LEMMA EndedBefore ==
  ASSUME World, NEW from, Begun(from), NEW v \in Ended(from), NEW y \in from .. v
  PROVE  y \in Ended(from) /\ y \in Calendar
<1>1. /\ v \in Nat /\ from \in Nat /\ v + 1 <= WeekOf(now) /\ Opening(v + 1) < now /\ v \in Calendar
      /\ WeekOf(now) \in Nat /\ now \in Nat
  BY EndedTypes, Numbers DEF World, Calendar
<1>2. y \in Nat /\ y <= v /\ from <= y
  BY <1>1
<1>3. Opening(y + 1) < now
  <2>1. y < v => Opening(y + 1) + Week <= Opening(v + 1)
    BY <1>1, <1>2, OpeningsGrow
  <2>2. Opening(y + 1) \in Int /\ Opening(v + 1) \in Int /\ Week \in Nat
    BY <1>1, <1>2, OpeningType, Numbers
  <2> QED
    BY <1>1, <1>2, <2>1, <2>2
<1> QED
  BY <1>1, <1>2, <1>3, Numbers DEF Ended, Calendar

\* The first weekend read since the switch is confirmed.
LEMMA FirstReadAgrees ==
  ASSUME World, NEW from, Begun(from), NEW w \in Calendar, Trusted(from, w)
  PROVE  \E v \in Seen(from) :
           /\ Agreed(from, v) /\ Shown(v) = offset[w] /\ LastSwitch(from, w) <= v
           /\ \A y \in Seen(from) : y < v => y < LastSwitch(from, w)
<1> DEFINE read == ReadFrom(from, w)
           three == FirstOf(read)
           l == LastSwitch(from, w)
<1>1. /\ read \in SUBSET Seen(from) /\ read \in SUBSET Nat /\ IsFiniteSet(read)
      /\ Confirmations \in Nat /\ l \in Nat
  <2>1. read \in SUBSET Seen(from)
    BY DEF ReadFrom
  <2>2. l \in Nat
    BY LastSwitchIs DEF Begun, Trusted
  <2> QED
    BY <2>1, <2>2, SeenFinite, FS_Subset, Numbers
<1>2. three \in SUBSET read /\ Cardinality(three) = Confirmations + 1
  BY DEF FirstOf, Trusted
<1> HIDE DEF three
<1>3. three # {}
  BY <1>1, <1>2, FS_EmptySet
<1>4. read # {}
  BY <1>2, <1>3
<1> HIDE DEF read
<1>5. PICK v \in read : \A y \in read : v <= y
  BY <1>1, <1>4, HasLeast
<1>6. v \in Seen(from) /\ v \in Nat /\ l <= v
  BY <1>1, <1>5 DEF read, ReadFrom
<1>7. ASSUME NEW y \in Seen(from), y < v
      PROVE  y < l
  <2>1. y \in Nat /\ ~(v <= y)
    BY <1>6, <1>7, SeenFinite
  <2>2. y \notin read
    BY <1>5, <2>1
  <2> QED
    BY <1>1, <2>1, <2>2, <1>7 DEF read, ReadFrom
<1>8. ASSUME NEW x \in Seen(from), v < x
      PROVE  /\ x \in read
             /\ Cardinality({u \in read : u < x}) = 1 + Cardinality({y \in Seen(from) : v < y /\ y < x})
             /\ Cardinality({y \in Seen(from) : v < y /\ y < x}) \in Nat
  <2> DEFINE A == {u \in read : u < x}
             B == {y \in Seen(from) : v < y /\ y < x}
  <2>1. x \in Nat /\ \A y \in Seen(from) : y \in Nat
    BY SeenFinite
  <2>2. \A y \in Seen(from) : v < y => y \in read
    BY <2>1, <1>6, <1>1 DEF read, ReadFrom
  <2>3. A = B \cup {v}
    <3>1. ASSUME NEW u \in A
          PROVE  u \in B \cup {v}
      <4>1. u \in Nat /\ v <= u /\ u \in Seen(from) /\ u < x
        BY <1>1, <1>5, <3>1
      <4> QED
        BY <4>1, <1>6
    <3>2. B \cup {v} \subseteq A
      BY <2>2, <1>5, <1>8
    <3> QED
      BY <3>1, <3>2
  <2>4. v \notin B /\ IsFiniteSet(B)
    <3>1. B \in SUBSET Seen(from)
      OBVIOUS
    <3>2. v \notin B
      BY <1>6
    <3> QED
      BY <3>1, <3>2, SeenFinite, FS_Subset
  <2> HIDE DEF A, B
  <2>5. Cardinality(A) = Cardinality(B) + 1 /\ Cardinality(B) \in Nat
    BY <2>3, <2>4, FS_AddElement, FS_CardinalityType
  <2>6. Cardinality(A) = 1 + Cardinality(B)
    BY <2>5
  <2> QED
    BY <2>2, <2>5, <2>6, <1>8 DEF A, B
<1>9. v \in three
  <2>1. {u \in read : u < v} = {}
    <3>1. ASSUME NEW u \in read, u < v
          PROVE  FALSE
      <4>1. u \in Nat /\ v <= u
        BY <1>1, <1>5
      <4> QED
        BY <4>1, <1>6, <3>1
    <3> QED
      BY <3>1
  <2> QED
    BY <2>1, <1>5, <1>1, FS_EmptySet DEF three, FirstOf
<1>10. After(from, v) = three \ {v}
  <2>1. ASSUME NEW x \in After(from, v)
        PROVE  x \in three \ {v}
    <3>1. x \in Seen(from) /\ v < x /\ Cardinality({y \in Seen(from) : v < y /\ y < x}) < Confirmations
      BY DEF After
    <3>2. x \in read /\ Cardinality({u \in read : u < x}) <= Confirmations
      BY <3>1, <1>8, <1>1
    <3> QED
      BY <3>1, <3>2, <1>6 DEF three, FirstOf
  <2>2. ASSUME NEW x \in three \ {v}
        PROVE  x \in After(from, v)
    <3>1. x \in read /\ Cardinality({u \in read : u < x}) <= Confirmations
      BY DEF three, FirstOf
    <3>2. x \in Seen(from) /\ x \in Nat /\ v < x
      BY <3>1, <1>1, <1>5, <1>6
    <3>3. Cardinality({y \in Seen(from) : v < y /\ y < x}) < Confirmations
      BY <3>1, <3>2, <1>8, <1>1
    <3> QED
      BY <3>2, <3>3 DEF After
  <2> QED
    BY <2>1, <2>2
<1>11. IsFiniteSet(three)
  BY <1>1, <1>2, FS_Subset
<1>12. Cardinality(After(from, v)) = Confirmations
  <2>1. Cardinality(three \ {v}) = Cardinality(three) - 1
    BY <1>9, <1>11, FS_RemoveElement
  <2> QED
    BY <2>1, <1>2, <1>1, <1>10
<1>13. \A x \in three : Shown(x) = offset[w]
  <2>1. SUFFICES ASSUME NEW x \in three
                 PROVE  Shown(x) = offset[w]
    OBVIOUS
  <2>2. missing[x] = 0 /\ offset[x] = offset[w]
    BY DEF Trusted, three, read
  <2>3. x \in Seen(from)
    BY <1>1, <1>2
  <2>4. offset[x] \in Nat
    BY <2>3, SeenTypes, WeekTypes
  <2> QED
    BY <2>2, <2>4 DEF Shown
<1>14. Agreed(from, v) /\ Shown(v) = offset[w]
  BY <1>9, <1>10, <1>12, <1>13 DEF Agreed
<1> QED
  BY <1>6, <1>7, <1>14

\* No later weekend brings another offset at w or before.
LEMMA NoFalseSwitch ==
  ASSUME World, OneIsRegular, NEW from, Begun(from), NEW w \in Calendar, Trusted(from, w),
         NEW p \in Seen(from), NEW v \in Seen(from), Previous(from, p, v), Agreed(from, v),
         LastSwitch(from, w) <= p, p < w
  PROVE  Shown(v) = offset[w]
<1> DEFINE l == LastSwitch(from, w)
<1>1. /\ l \in Nat /\ from <= l /\ l <= w /\ w \in Nat /\ from \in Nat /\ Weeks \in Nat
      /\ \A y \in l .. w : offset[y] = offset[w]
  BY LastSwitchIs, Numbers DEF Begun, Trusted, Calendar
<1>2. PICK x \in w .. Weeks - 1 : ~Mistaken(x) /\ \A u \in w .. x : offset[u] = offset[w]
  BY DEF Trusted
<1>3. PICK r \in Seen(from) : Vouches(from, v, r)
  BY OneVouches
<1>4. /\ p \in Nat /\ v \in Nat /\ r \in Nat /\ p < v /\ v <= r /\ r \in Calendar
      /\ v \in Ended(from) /\ from <= p
  BY <1>3, SeenTypes DEF Previous, Vouches
<1>5. x \in Nat /\ w <= x /\ x \in Calendar /\ offset[x] = offset[w]
  BY <1>1, <1>2 DEF Calendar
<1>6. v <= x
  <2>1. SUFFICES ASSUME x < v
                 PROVE  FALSE
    BY <1>4, <1>5
  <2>2. x \in from .. v /\ p < x
    BY <2>1, <1>1, <1>4, <1>5
  <2>3. x \in Ended(from)
    BY <2>2, <1>4, EndedBefore
  <2>4. x \notin Seen(from)
    BY <2>1, <2>2 DEF Previous
  <2> QED
    BY <2>3, <2>4, <1>2 DEF Seen, Mistaken
<1>7. SUFFICES ASSUME Shown(v) # offset[w]
               PROVE  FALSE
  OBVIOUS
<1>8. offset[r] # offset[w]
  BY <1>3, <1>7 DEF Vouches
<1>9. x < r
  <2>1. SUFFICES ASSUME r <= x
                 PROVE  FALSE
    BY <1>4, <1>5
  <2>2. r \in l .. w \/ r \in w .. x
    BY <2>1, <1>1, <1>4, <1>5
  <2> QED
    BY <2>2, <1>1, <1>2, <1>8
<1>10. \A y \in x .. r : ~Skipped(y) => Shown(y) = offset[r]
  <2>1. \A y \in x .. r : y \in v .. r
    BY <1>4, <1>5, <1>6
  <2> QED
    BY <2>1, <1>3 DEF Vouches
<1>11. offset[x] = offset[r] \/ Mistaken(x)
  BY <1>3, <1>4, <1>5, <1>9, <1>10, ShownOrMistaken DEF Vouches
<1> QED
  BY <1>2, <1>5, <1>8, <1>11

-----------------------------------------------------------------------------
(* The loop over the weekends *)

\* What the loop has gathered at each moment up to n.
Gathers(first, weekends, n, t) ==
  t = [k \in 0 .. n |-> IF k = 0 THEN <<>> ELSE Taken(first, weekends, t[k - 1], k - 1)]

LEMMA LoopRuns ==
  ASSUME NEW first, NEW weekends, NEW N \in Nat
  PROVE  \E t : Gathers(first, weekends, N, t)
<1> DEFINE S == {n \in Nat : \E t : Gathers(first, weekends, n, t)}
           turn(t, k) == IF k = 0 THEN <<>> ELSE Taken(first, weekends, t[k - 1], k - 1)
<1>1. 0 \in S
  <2>1. Gathers(first, weekends, 0, [k \in 0 .. 0 |-> <<>>])
    BY DEF Gathers
  <2> QED
    BY <2>1
<1>2. ASSUME NEW n \in 0 .. N - 1, n \in S
      PROVE  n + 1 \in S
  <2>1. PICK t : Gathers(first, weekends, n, t)
    BY <1>2
  <2> DEFINE s == [k \in 0 .. n + 1 |-> IF k <= n THEN t[k] ELSE Taken(first, weekends, t[n], n)]
  <2>2. \A k \in 0 .. n : t[k] = turn(t, k)
    BY <2>1 DEF Gathers
  <2>3. \A k \in 0 .. n + 1 : s[k] = turn(s, k)
    <3>1. SUFFICES ASSUME NEW k \in 0 .. n + 1
                   PROVE  s[k] = turn(s, k)
      OBVIOUS
    <3>2. CASE k = 0
      BY <3>2, <2>2
    <3>3. CASE k # 0 /\ k <= n
      <4>1. k \in 0 .. n /\ k - 1 \in 0 .. n + 1 /\ k - 1 <= n
        BY <3>1, <3>3
      <4>2. s[k] = t[k] /\ s[k - 1] = t[k - 1]
        BY <4>1, <3>3
      <4> QED
        BY <4>1, <4>2, <2>2, <3>3
    <3>4. CASE k = n + 1
      <4>1. k # 0 /\ k - 1 = n /\ n \in 0 .. n + 1 /\ ~(k <= n) /\ n <= n
        BY <3>4
      <4>2. s[k] = Taken(first, weekends, t[n], n) /\ s[n] = t[n]
        BY <4>1, <3>1
      <4> QED
        BY <4>1, <4>2
    <3> QED
      BY <3>1, <3>2, <3>3, <3>4
  <2>4. s = [k \in 0 .. n + 1 |-> turn(s, k)]
    <3>1. s = [k \in 0 .. n + 1 |-> s[k]]
      OBVIOUS
    <3> HIDE DEF s
    <3> QED
      BY <3>1, <2>3
  <2> HIDE DEF s
  <2>5. Gathers(first, weekends, n + 1, s)
    BY <2>4 DEF Gathers
  <2> QED
    BY <2>5
<1> HIDE DEF S
<1>3. N \in S
  BY <1>1, <1>2, Climb
<1> QED
  BY <1>3 DEF S

LEMMA StepsAreGathered ==
  ASSUME NEW first, NEW weekends, now \in Nat
  PROVE  \E t : Gathers(first, weekends, now + MaxOffset, t) /\ Steps(first, weekends) = t[now + MaxOffset]
<1> DEFINE N == now + MaxOffset
           t == CHOOSE t : Gathers(first, weekends, N, t)
<1>1. N \in Nat
  BY Numbers
<1>2. Gathers(first, weekends, N, t)
  <2> HIDE DEF N
  <2> QED
    BY <1>1, LoopRuns
<1>3. Steps(first, weekends) = t[N]
  BY DEF Steps, Gathers
<1> QED
  BY <1>2, <1>3

LEMMA OpeningLabels ==
  ASSUME World, NEW a \in Calendar, NEW b \in Calendar
  PROVE  /\ a \in Nat /\ b \in Nat /\ Label(Opening(a)) \in Nat /\ Label(Opening(b)) \in Nat /\ Opening(b) \in Nat
         /\ a <= b => Label(Opening(a)) <= Label(Opening(b))
         /\ a < b => Label(Opening(a)) < Opening(b)
         /\ Opening(b) <= Label(Opening(b))
<1>1. /\ Label(Opening(a)) < Opening(a) + Week /\ Label(Opening(a)) \in Nat
      /\ Opening(b) <= Label(Opening(b)) /\ Label(Opening(b)) \in Nat
  BY OpeningIsQuoted
<1>2. a \in Nat /\ b \in Nat
  BY WeekTypes
<1>3. Opening(a) \in Nat /\ Opening(b) \in Nat /\ Week \in Nat
  BY <1>2, OpeningType, Numbers
<1>4. a < b => Label(Opening(a)) < Opening(b)
  <2>1. a < b => Opening(a) + Week <= Opening(b)
    BY <1>2, OpeningsGrow
  <2> QED
    BY <2>1, <1>1, <1>3
<1>5. a <= b => Label(Opening(a)) <= Label(Opening(b))
  BY <1>1, <1>2, <1>3, <1>4
<1> QED
  BY <1>1, <1>2, <1>3, <1>4, <1>5

LEMMA FirstBar ==
  ASSUME World, NEW from, Begun(from), Seen(from) # {}
  PROVE  First(Bars(from)) = Label(Opening(from))
<1> DEFINE bars == Bars(from)
           u == Label(Opening(from))
<1>1. from \in Calendar
  BY DEF Begun
<1>2. Quoted(Opening(from)) /\ Opening(from) \in Nat /\ u \in Nat
  BY <1>1, OpeningIsQuoted, WeekTypes
<1>3. Opening(from) < now /\ now \in Nat
  <2>1. PICK v \in Seen(from) : TRUE
    OBVIOUS
  <2>2. v \in Ended(from)
    BY DEF Seen
  <2>3. /\ Opening(v + 1) < now /\ Opening(v + 1) = Opening(v) + Week
        /\ Opening(from) <= Opening(v) /\ Opening(v) \in Nat
    BY <2>2, EndedTypes
  <2> QED
    BY <2>3, <1>2, Numbers DEF World
<1>4. u \in bars
  <2>1. Opening(from) \in Opening(from) .. now - 1
    BY <1>2, <1>3
  <2> QED
    BY <2>1, <1>2 DEF Bars
<1>5. \A b \in bars : u <= b
  <2>1. SUFFICES ASSUME NEW b \in bars
                 PROVE  u <= b
    OBVIOUS
  <2>2. PICK x \in Opening(from) .. now - 1 : Quoted(x) /\ b = Label(x)
    BY DEF Bars
  <2>3. x \in Int /\ Opening(from) \in Int /\ Opening(from) <= x
    BY <1>2, <1>3
  <2>4. Opening(from) < x => u < Label(x)
    BY <2>2, <2>3, <1>2, LabelsGrow
  <2>5. b \in Nat
    BY BarsType
  <2> QED
    BY <2>2, <2>3, <2>4, <2>5, <1>2
<1>6. bars \in SUBSET Int
  BY BarsType
<1> HIDE DEF bars, u
<1>7. First(bars) = u
  BY <1>4, <1>5, <1>6, FirstIs
<1> QED
  BY <1>7 DEF bars, u

StepSet == [at : Int, minutes : -MaxOffset .. MaxOffset]

\* The step was taken for week v: its offset is confirmed, and it counts from the weekend before,
\* the first from the beginning of the history.
Marks(from, v, i, step) ==
  /\ Agreed(from, v) /\ step.minutes = Shown(v)
  /\ \/ i = 1 /\ step.at = Label(Opening(from))
     \/ i # 1 /\ \E p \in Seen(from) : Previous(from, p, v) /\ step.at = End(p)

\* What the loop has at n.
Gathered(from, n, acc) ==
  /\ acc \in Seq(StepSet)
  /\ \A i \in DOMAIN acc : \E v \in Seen(from) : End(v) < n /\ Marks(from, v, i, acc[i])
  /\ \A i, j \in DOMAIN acc : i < j => acc[i].at < acc[j].at

\* One turn, in weeks.
Begins(from, v, acc, new)  == acc = <<>> /\ new = <<Step(Label(Opening(from)), Shown(v))>>
Extends(from, v, acc, new) ==
  /\ acc # <<>> /\ Distance(Shown(v), acc[Len(acc)].minutes) \in 1 .. MaxSwitch
  /\ \E p \in Seen(from) : Previous(from, p, v) /\ new = Append(acc, Step(End(p), Shown(v)))
Skips(v, acc, new)         ==
  acc # <<>> /\ Distance(Shown(v), acc[Len(acc)].minutes) \notin 1 .. MaxSwitch /\ new = acc

LEMMA TurnIs ==
  ASSUME World, NEW from, Begun(from), NEW n \in Nat, NEW acc, Gathered(from, n, acc),
         NEW new, new = Taken(First(Bars(from)), Weekends(Bars(from)), acc, n)
  PROVE  \/ new = acc /\ ~\E v \in Seen(from) : n = End(v) /\ Agreed(from, v)
         \/ \E v \in Seen(from) :
              /\ n = End(v) /\ Agreed(from, v)
              /\ Begins(from, v, acc, new) \/ Extends(from, v, acc, new) \/ Skips(v, acc, new)
<1> DEFINE W == Weekends(Bars(from))
           first == First(Bars(from))
<1>1. DOMAIN W = {End(v) : v \in Seen(from)} /\ \A v \in Seen(from) : W[End(v)] = Shown(v)
  BY WeekendsAre
<1>2. \A v \in Seen(from) : Confirmed(W, End(v)) <=> Agreed(from, v)
  BY ConfirmedIs
<1>3. \A v \in Seen(from), p \in Seen(from) : Previous(from, p, v) => Since(W, End(v)) = End(p)
  BY SinceIs
<1>4. Seen(from) # {} => first = Label(Opening(from))
  BY FirstBar
<1>5. new = Taken(first, W, acc, n)
  OBVIOUS
<1> HIDE DEF W, first
<1>6. CASE ~(n \in DOMAIN W /\ Confirmed(W, n))
  <2>1. new = acc
    BY <1>5, <1>6 DEF Taken
  <2> QED
    BY <2>1, <1>1, <1>2, <1>6
<1>7. CASE n \in DOMAIN W /\ Confirmed(W, n)
  <2>1. PICK v \in Seen(from) : n = End(v)
    BY <1>1, <1>7
  <2>2. Agreed(from, v) /\ W[n] = Shown(v)
    BY <1>1, <1>2, <1>7, <2>1
  <2>3. CASE acc = <<>>
    <3>1. new = <<Step(Label(Opening(from)), Shown(v))>>
      BY <1>4, <1>5, <1>7, <2>1, <2>2, <2>3 DEF Taken
    <3> QED
      BY <2>1, <2>2, <2>3, <3>1 DEF Begins
  <2>4. CASE acc # <<>> /\ Distance(W[n], acc[Len(acc)].minutes) \in 1 .. MaxSwitch
    <3>1. new = Append(acc, Step(Since(W, n), W[n]))
      BY <1>5, <1>7, <2>4 DEF Taken
    <3>2. 1 \in DOMAIN acc
      BY <2>4 DEF Gathered
    <3>3. PICK q \in Seen(from) : End(q) < n
      BY <3>2 DEF Gathered
    <3>4. q < v
      BY <2>1, <3>3, EndsOrdered
    <3>5. PICK p \in Seen(from) : Previous(from, p, v)
      BY <3>4, HasPrevious
    <3>6. Since(W, n) = End(p)
      BY <1>3, <2>1, <3>5
    <3>7. new = Append(acc, Step(End(p), Shown(v)))
      BY <2>2, <3>1, <3>6
    <3> QED
      BY <2>1, <2>2, <2>4, <3>5, <3>7 DEF Extends
  <2>5. CASE acc # <<>> /\ Distance(W[n], acc[Len(acc)].minutes) \notin 1 .. MaxSwitch
    <3>1. new = acc
      BY <1>5, <1>7, <2>5 DEF Taken
    <3> QED
      BY <2>1, <2>2, <2>5, <3>1 DEF Skips
  <2> QED
    BY <2>3, <2>4, <2>5
<1> QED
  BY <1>6, <1>7

LEMMA AppendIs ==
  ASSUME NEW S, NEW acc \in Seq(S), NEW e \in S
  PROVE  /\ Append(acc, e) \in Seq(S) /\ Len(acc) \in Nat /\ Len(Append(acc, e)) = Len(acc) + 1
         /\ DOMAIN acc = 1 .. Len(acc) /\ DOMAIN Append(acc, e) = 1 .. Len(acc) + 1
         /\ \A i \in 1 .. Len(acc) : Append(acc, e)[i] = acc[i]
         /\ Append(acc, e)[Len(acc) + 1] = e
OBVIOUS

LEMMA TurnGathers ==
  ASSUME World, NEW from, Begun(from), NEW n \in Nat, NEW acc, Gathered(from, n, acc)
  PROVE  Gathered(from, n + 1, Taken(First(Bars(from)), Weekends(Bars(from)), acc, n))
<1> DEFINE new == Taken(First(Bars(from)), Weekends(Bars(from)), acc, n)
<1>1. \/ new = acc
      \/ \E v \in Seen(from) : n = End(v) /\ Agreed(from, v) /\ (Begins(from, v, acc, new) \/ Extends(from, v, acc, new))
  BY TurnIs DEF Skips
<1> HIDE DEF new
<1>2. acc \in Seq(StepSet) /\ DOMAIN acc = 1 .. Len(acc) /\ Len(acc) \in Nat
  BY DEF Gathered
<1>3. \A i \in DOMAIN acc : \E v \in Seen(from) : End(v) < n + 1 /\ Marks(from, v, i, acc[i])
  BY SeenTypes DEF Gathered
<1>4. CASE new = acc
  BY <1>2, <1>3, <1>4 DEF Gathered, new
<1>5. ASSUME NEW v \in Seen(from), n = End(v), Agreed(from, v), Begins(from, v, acc, new)
      PROVE  Gathered(from, n + 1, new)
  <2> DEFINE e == Step(Label(Opening(from)), Shown(v))
  <2>1. new = <<e>>
    BY <1>5 DEF Begins
  <2>2. e.at = Label(Opening(from)) /\ e.minutes = Shown(v)
    BY DEF Step
  <2>3. e \in StepSet
    <3>1. Label(Opening(from)) \in Int
      BY OpeningIsQuoted DEF Begun
    <3>2. Shown(v) \in -MaxOffset .. MaxOffset
      BY SeenTypes, Numbers
    <3> QED
      BY <3>1, <3>2 DEF StepSet, Step
  <2>4. Marks(from, v, 1, e)
    BY <1>5, <2>2 DEF Marks
  <2> HIDE DEF e
  <2>5. new \in Seq(StepSet) /\ DOMAIN new = {1} /\ new[1] = e
    BY <2>1, <2>3
  <2>6. End(v) < n + 1
    BY <1>5
  <2> QED
    BY <2>4, <2>5, <2>6 DEF Gathered
<1>6. ASSUME NEW v \in Seen(from), n = End(v), Agreed(from, v), Extends(from, v, acc, new)
      PROVE  Gathered(from, n + 1, new)
  <2>1. PICK p \in Seen(from) : Previous(from, p, v) /\ new = Append(acc, Step(End(p), Shown(v)))
    BY <1>6 DEF Extends
  <2> DEFINE e == Step(End(p), Shown(v))
  <2>2. e.at = End(p) /\ e.minutes = Shown(v)
    BY DEF Step
  <2>3. e \in StepSet
    <3>1. End(p) \in Int
      BY SeenTypes
    <3>2. Shown(v) \in -MaxOffset .. MaxOffset
      BY SeenTypes, Numbers
    <3> QED
      BY <3>1, <3>2 DEF StepSet, Step
  <2>4. Len(acc) + 1 # 1
    BY <1>2, <1>6 DEF Extends
  <2>5. Marks(from, v, Len(acc) + 1, e)
    BY <1>6, <2>1, <2>2, <2>4 DEF Marks
  <2>6. End(v) < n + 1
    BY <1>6
  <2>7. new = Append(acc, e)
    BY <2>1
  <2> HIDE DEF e
  <2>8. /\ new \in Seq(StepSet) /\ DOMAIN new = 1 .. Len(acc) + 1
        /\ \A i \in 1 .. Len(acc) : new[i] = acc[i]
        /\ new[Len(acc) + 1] = e
    BY <1>2, <2>3, <2>7, AppendIs
  <2>9. \A i \in DOMAIN new : \E x \in Seen(from) : End(x) < n + 1 /\ Marks(from, x, i, new[i])
    <3>1. SUFFICES ASSUME NEW i \in DOMAIN new
                   PROVE  \E x \in Seen(from) : End(x) < n + 1 /\ Marks(from, x, i, new[i])
      OBVIOUS
    <3>2. CASE i \in 1 .. Len(acc)
      BY <3>2, <1>2, <1>3, <2>8
    <3>3. CASE i = Len(acc) + 1
      BY <3>3, <2>5, <2>6, <2>8
    <3> QED
      BY <1>2, <2>8, <3>1, <3>2, <3>3
\* The new step counts from later than the steps before it.
  <2>10. ASSUME NEW i \in 1 .. Len(acc)
         PROVE  acc[i].at < End(p)
    <3>1. PICK x \in Seen(from) : End(x) < n /\ Marks(from, x, i, acc[i])
      BY <1>2 DEF Gathered
    <3>2. x < v
      BY <1>6, <3>1, EndsOrdered
    <3>3. x \in Nat /\ v \in Nat /\ p \in Nat /\ End(x) \in Nat /\ End(p) \in Nat /\ x + 1 \in Calendar /\ from <= x
      BY SeenTypes
    <3>4. x <= p
      BY <2>1, <3>2, <3>3 DEF Previous
    <3>5. End(x) <= End(p)
      <4>1. CASE x = p
        BY <4>1, <3>3
      <4>2. CASE x < p
        BY <4>2, <3>3, EndsOrdered
      <4> QED
        BY <3>3, <3>4, <4>1, <4>2
    <3>6. acc[i].at < End(x) /\ acc[i].at \in Int
      <4>1. CASE acc[i].at = Label(Opening(from))
        <5>1. Label(Opening(from)) < Opening(x + 1) /\ Opening(x + 1) <= End(x) /\ Opening(x + 1) \in Nat
              /\ Label(Opening(from)) \in Nat
          <6>1. from \in Calendar /\ from < x + 1
            BY <3>3, SeenTypes DEF Begun
          <6> QED
            BY <6>1, <3>3, OpeningLabels DEF End
        <5> QED
          BY <4>1, <5>1, <3>3
      <4>2. ASSUME NEW y \in Seen(from), Previous(from, y, x), acc[i].at = End(y)
            PROVE  acc[i].at < End(x) /\ acc[i].at \in Int
        <5>1. End(y) < End(x)
          BY <4>2, EndsOrdered DEF Previous
        <5> QED
          BY <4>2, <5>1, SeenTypes
      <4> QED
        BY <3>1, <4>1, <4>2 DEF Marks
    <3> QED
      BY <3>3, <3>5, <3>6
  <2>11. \A i, j \in DOMAIN new : i < j => new[i].at < new[j].at
    <3>1. SUFFICES ASSUME NEW i \in DOMAIN new, NEW j \in DOMAIN new, i < j
                   PROVE  new[i].at < new[j].at
      OBVIOUS
    <3>2. i \in 1 .. Len(acc)
      BY <1>2, <2>8, <3>1
    <3>3. CASE j \in 1 .. Len(acc)
      BY <1>2, <2>8, <3>1, <3>2, <3>3 DEF Gathered
    <3>4. CASE j = Len(acc) + 1
      BY <2>2, <2>8, <2>10, <3>2, <3>4 DEF e
    <3> QED
      BY <1>2, <2>8, <3>1, <3>3, <3>4
  <2> QED
    BY <2>8, <2>9, <2>11 DEF Gathered
<1> QED
  BY <1>1, <1>4, <1>5, <1>6 DEF new

\* The seasons of a broker are no further apart than a switch.
CloseSeasons == \A a, b \in Offsets : Distance(a, b) <= MaxSwitch

\* The last of the steps that begin with week w or before has the offset of w.
HeldIn(S, w) ==
  \E i \in DOMAIN S : /\ S[i].minutes = offset[w] /\ S[i].at <= Label(Opening(w))
                      /\ \A j \in DOMAIN S : i < j => Opening(w + 1) <= S[j].at

\* The week for which a settled week's offset is confirmed.
Turning(from, w, v) ==
  /\ v \in Seen(from) /\ Agreed(from, v) /\ Shown(v) = offset[w] /\ LastSwitch(from, w) <= v
  /\ \A y \in Seen(from) : y < v => y < LastSwitch(from, w)

\* A step for an earlier week, or for this one, counts from week w at the latest.
LEMMA BegunByThen ==
  ASSUME World, NEW from, Begun(from), NEW w \in Calendar, Trusted(from, w), NEW v, Turning(from, w, v),
         NEW p \in Seen(from), p < v
  PROVE  End(p) <= Label(Opening(w)) /\ End(p) \in Nat
<1>1. p < LastSwitch(from, w) /\ LastSwitch(from, w) <= w /\ LastSwitch(from, w) \in Nat
  BY LastSwitchIs DEF Turning, Begun, Trusted
<1>2. p \in Nat /\ p + 1 \in Calendar /\ w \in Nat
  BY SeenTypes, WeekTypes
<1>3. p + 1 <= w
  BY <1>1, <1>2
<1> QED
  BY <1>2, <1>3, OpeningLabels DEF End

LEMMA TurnHolds ==
  ASSUME World, OneIsRegular, CloseSeasons, NEW from, Begun(from), NEW w \in Calendar, Trusted(from, w),
         NEW v0, Turning(from, w, v0), NEW n \in Nat, NEW acc, Gathered(from, n, acc),
         End(v0) < n => HeldIn(acc, w), End(v0) <= n
  PROVE  HeldIn(Taken(First(Bars(from)), Weekends(Bars(from)), acc, n), w)
<1> DEFINE new == Taken(First(Bars(from)), Weekends(Bars(from)), acc, n)
           L == Label(Opening(w))
<1>1. \/ new = acc /\ ~\E v \in Seen(from) : n = End(v) /\ Agreed(from, v)
      \/ \E v \in Seen(from) :
           /\ n = End(v) /\ Agreed(from, v)
           /\ Begins(from, v, acc, new) \/ Extends(from, v, acc, new) \/ Skips(v, acc, new)
  BY TurnIs
<1> HIDE DEF new
<1>2. /\ acc \in Seq(StepSet) /\ DOMAIN acc = 1 .. Len(acc) /\ Len(acc) \in Nat
      /\ \A i \in DOMAIN acc : acc[i].at \in Int /\ acc[i].minutes \in Int
  <2>1. acc \in Seq(StepSet)
    BY DEF Gathered
  <2>2. \A i \in DOMAIN acc : acc[i] \in StepSet
    BY <2>1
  <2> QED
    BY <2>1, <2>2 DEF StepSet
<1>3. /\ v0 \in Seen(from) /\ Agreed(from, v0) /\ Shown(v0) = offset[w] /\ v0 \in Nat /\ End(v0) \in Nat
      /\ w \in Nat /\ L \in Nat /\ from \in Calendar /\ from <= w
  BY SeenTypes, OpeningLabels DEF Turning, Begun, Trusted
<1>4. Label(Opening(from)) <= L /\ Label(Opening(from)) \in Nat
  BY <1>3, OpeningLabels
<1>5. CASE new = acc /\ End(v0) < n
  BY <1>5 DEF new
<1>6. CASE new = acc /\ ~\E v \in Seen(from) : n = End(v) /\ Agreed(from, v)
  <2>1. End(v0) < n
    BY <1>3, <1>6
  <2> QED
    BY <1>5, <1>6, <2>1
<1>7. ASSUME NEW v \in Seen(from), n = End(v), Agreed(from, v), Begins(from, v, acc, new)
      PROVE  HeldIn(new, w)
  <2>1. n = End(v0)
    <3>1. acc = <<>>
      BY <1>7 DEF Begins
    <3>2. ~HeldIn(acc, w)
      BY <3>1 DEF HeldIn
    <3> QED
      BY <3>2, <1>3
  <2>2. Shown(v) = offset[w]
    <3>1. v = v0
      BY <2>1, <1>7, <1>3, EndsDiffer
    <3> QED
      BY <3>1, <1>3
  <2> DEFINE e == Step(Label(Opening(from)), Shown(v))
  <2>3. new = <<e>>
    BY <1>7 DEF Begins
  <2>4. e.at = Label(Opening(from)) /\ e.minutes = offset[w]
    BY <2>2 DEF Step
  <2> HIDE DEF e
  <2>5. DOMAIN new = {1} /\ new[1] = e
    BY <2>3
  <2> QED
    BY <2>4, <2>5, <1>4 DEF HeldIn
<1>8. ASSUME NEW v \in Seen(from), n = End(v), Agreed(from, v), Extends(from, v, acc, new)
      PROVE  HeldIn(new, w)
  <2>1. PICK p \in Seen(from) : Previous(from, p, v) /\ new = Append(acc, Step(End(p), Shown(v)))
    BY <1>8 DEF Extends
  <2> DEFINE e == Step(End(p), Shown(v))
  <2>2. e.at = End(p) /\ e.minutes = Shown(v)
    BY DEF Step
  <2>3. e \in StepSet
    <3>1. End(p) \in Int
      BY SeenTypes
    <3>2. Shown(v) \in -MaxOffset .. MaxOffset
      BY SeenTypes, Numbers
    <3> QED
      BY <3>1, <3>2 DEF StepSet, Step
  <2>4. new = Append(acc, e)
    BY <2>1
  <2> HIDE DEF e
  <2>5. /\ DOMAIN new = 1 .. Len(acc) + 1
        /\ \A i \in 1 .. Len(acc) : new[i] = acc[i]
        /\ new[Len(acc) + 1] = e
    BY <1>2, <2>3, <2>4, AppendIs
  <2>6. /\ v \in Nat /\ p \in Nat /\ p + 1 \in Calendar /\ End(p) \in Nat /\ p < v
    BY <2>1, SeenTypes DEF Previous
  <2>7. CASE Shown(v) = offset[w] /\ End(p) <= L
    <3>1. Len(acc) + 1 \in DOMAIN new
      BY <1>2, <2>5
    <3>2. \A j \in DOMAIN new : ~(Len(acc) + 1 < j)
      BY <1>2, <2>5
    <3> QED
      BY <2>2, <2>5, <2>7, <3>1, <3>2 DEF HeldIn
  <2>8. CASE End(v0) < n /\ Opening(w + 1) <= End(p)
    <3>1. PICK i \in DOMAIN acc :
            /\ acc[i].minutes = offset[w] /\ acc[i].at <= Label(Opening(w))
            /\ \A j \in DOMAIN acc : i < j => Opening(w + 1) <= acc[j].at
      BY <2>8 DEF HeldIn
    <3>2. i \in DOMAIN new /\ new[i] = acc[i]
      BY <1>2, <2>5, <3>1
    <3>3. ASSUME NEW j \in DOMAIN new, i < j
          PROVE  Opening(w + 1) <= new[j].at
      <4>1. CASE j \in 1 .. Len(acc)
        BY <4>1, <1>2, <2>5, <3>1, <3>3
      <4>2. CASE j = Len(acc) + 1
        BY <4>2, <2>2, <2>5, <2>8
      <4> QED
        BY <1>2, <2>5, <3>3, <4>1, <4>2
    <3> QED
      BY <3>1, <3>2, <3>3 DEF HeldIn
  <2>9. CASE n = End(v0)
    <3>1. v = v0
      BY <2>9, <1>8, <1>3, EndsDiffer
    <3>2. End(p) <= L
      BY <3>1, <2>6, BegunByThen
    <3> QED
      BY <3>1, <3>2, <2>7, <1>3
  <2>10. CASE End(v0) < n
    <3>1. v0 < v
      BY <2>10, <1>8, <1>3, EndsOrdered
    <3>2. v0 <= p
      BY <2>1, <3>1, <1>3, <2>6 DEF Previous
    <3>3. LastSwitch(from, w) <= p
      <4>1. LastSwitch(from, w) \in Nat /\ LastSwitch(from, w) <= v0
        BY LastSwitchIs, <1>3 DEF Turning
      <4> QED
        BY <4>1, <3>2, <1>3, <2>6
    <3>4. CASE p < w
      <4>1. Shown(v) = offset[w]
        BY <3>3, <3>4, <2>1, <1>8, NoFalseSwitch
      <4>2. p + 1 <= w
        BY <3>4, <2>6, <1>3
      <4>3. End(p) <= L
        BY <4>2, <2>6, OpeningLabels DEF End
      <4> QED
        BY <4>1, <4>3, <2>7
    <3>5. CASE w <= p
      <4>1. Opening(w + 1) <= Opening(p + 1) /\ Opening(p + 1) <= End(p)
            /\ Opening(w + 1) \in Int /\ Opening(p + 1) \in Int
        <5>1. Opening(p + 1) <= End(p) /\ Opening(p + 1) \in Int
          BY <2>6, OpeningLabels DEF End
        <5>2. Opening(w + 1) \in Int
          BY <1>3, OpeningType
        <5>3. w < p => Opening(w + 1) + Week <= Opening(p + 1)
          BY <1>3, <2>6, OpeningsGrow
        <5>4. Opening(w + 1) <= Opening(p + 1)
          BY <5>1, <5>2, <5>3, <3>5, <1>3, <2>6, Numbers
        <5> QED
          BY <5>1, <5>2, <5>4
      <4>2. Opening(w + 1) <= End(p)
        BY <4>1, <2>6
      <4> QED
        BY <4>2, <2>8, <2>10
    <3> QED
      BY <3>4, <3>5, <2>6, <1>3
  <2> QED
    BY <2>9, <2>10, <1>3
<1>9. ASSUME NEW v \in Seen(from), n = End(v), Agreed(from, v), Skips(v, acc, new)
      PROVE  HeldIn(new, w)
  <2>1. CASE End(v0) < n
    BY <2>1, <1>5, <1>9 DEF Skips
  <2>2. CASE n = End(v0)
    <3>1. v = v0
      BY <2>2, <1>9, <1>3, EndsDiffer
    <3> DEFINE k == Len(acc)
               m == acc[Len(acc)].minutes
    <3>2. new = acc /\ k \in DOMAIN acc /\ Distance(offset[w], m) \notin 1 .. MaxSwitch
      BY <1>9, <1>2, <1>3, <3>1 DEF Skips
    <3>3. PICK x \in Seen(from) : End(x) < n /\ Marks(from, x, k, acc[k])
      BY <3>2 DEF Gathered
    <3>4. PICK r \in Seen(from) : Vouches(from, x, r)
      BY <3>3, OneVouches DEF Marks
    <3>5. m = offset[r] /\ r \in Calendar
      BY <3>3, <3>4, SeenTypes DEF Marks, Vouches
    <3>6. Distance(offset[w], m) <= MaxSwitch
      BY <3>5, WeekTypes DEF CloseSeasons
    <3>7. offset[w] \in Nat /\ m \in Nat /\ MaxSwitch \in Nat
      BY <3>5, WeekTypes, Numbers
    <3>8. m = offset[w]
      <4> HIDE DEF m
      <4> QED
        BY <3>2, <3>6, <3>7 DEF Distance
    <3>9. acc[k].at <= L
      <4>1. CASE acc[k].at = Label(Opening(from))
        BY <4>1, <1>4
      <4>2. ASSUME NEW y \in Seen(from), Previous(from, y, x), acc[k].at = End(y)
            PROVE  acc[k].at <= L
        <5>1. y < x /\ x < v0
          BY <4>2, <2>2, <3>3, <1>3, EndsOrdered DEF Previous
        <5>2. y < v0
          BY <5>1, SeenTypes, <1>3
        <5> QED
          BY <4>2, <5>2, BegunByThen
      <4> QED
        BY <3>3, <4>1, <4>2 DEF Marks
    <3>10. \A j \in DOMAIN acc : ~(k < j)
      BY <1>2
    <3> QED
      BY <3>2, <3>8, <3>9, <3>10 DEF HeldIn
  <2> QED
    BY <2>1, <2>2, <1>3
<1> QED
  BY <1>1, <1>6, <1>7, <1>8, <1>9 DEF new

LEMMA GatheredByThen ==
  ASSUME World, NEW from, Begun(from), NEW t, NEW first, first = First(Bars(from)),
         Gathers(first, Weekends(Bars(from)), now + MaxOffset, t)
  PROVE  \A n \in 0 .. now + MaxOffset : Gathered(from, n, t[n])
<1> DEFINE N == now + MaxOffset
           W == Weekends(Bars(from))
           S == {n \in Nat : Gathered(from, n, t[n])}
<1>1. N \in Nat
  BY Numbers DEF World
<1>2. t[0] = <<>> /\ \A n \in 1 .. N : t[n] = Taken(first, W, t[n - 1], n - 1)
  <2> HIDE DEF W
  <2> QED
    BY <1>1 DEF Gathers, W
<1>3. 0 \in S
  <2>1. <<>> \in Seq(StepSet) /\ DOMAIN <<>> = {}
    OBVIOUS
  <2> QED
    BY <1>2, <2>1 DEF Gathered
<1>4. ASSUME NEW n \in 0 .. N - 1, n \in S
      PROVE  n + 1 \in S
  <2>1. n \in Nat /\ n + 1 \in Nat /\ n + 1 \in 1 .. N /\ (n + 1) - 1 = n
    BY <1>1, <1>4
  <2>2. t[n + 1] = Taken(first, W, t[n], n)
    BY <1>2, <2>1
  <2>3. Gathered(from, n, t[n])
    BY <1>4
  <2>4. Gathered(from, n + 1, t[n + 1])
    BY <2>1, <2>2, <2>3, TurnGathers
  <2> QED
    BY <2>1, <2>4
<1> HIDE DEF S, N
<1>5. 0 .. N \subseteq S
  BY <1>1, <1>3, <1>4, Climb
<1> QED
  BY <1>5 DEF S, N

\* Every scan is sound: its steps were confirmed.
LEMMA ScanGathers ==
  ASSUME World, NEW from, Begun(from)
  PROVE  Gathered(from, now + MaxOffset, ScannedSteps(from))
<1> DEFINE first == First(Bars(from))
           W == Weekends(Bars(from))
<1>1. now \in Nat /\ now + MaxOffset \in Nat
  BY Numbers DEF World
<1>2. PICK t : Gathers(first, W, now + MaxOffset, t) /\ Steps(first, W) = t[now + MaxOffset]
  BY <1>1, StepsAreGathered
<1>3. Gathered(from, now + MaxOffset, Steps(first, W))
  <2>1. \A n \in 0 .. now + MaxOffset : Gathered(from, n, t[n])
    BY <1>2, GatheredByThen
  <2> QED
    BY <1>1, <1>2, <2>1
<1>4. Gathered(from, now + MaxOffset, <<>>)
  <2>1. <<>> \in Seq(StepSet) /\ DOMAIN <<>> = {}
    OBVIOUS
  <2> QED
    BY <2>1 DEF Gathered
<1>5. ScannedSteps(from) = <<>> \/ ScannedSteps(from) = Steps(first, W)
  BY DEF ScannedSteps
<1> QED
  BY <1>3, <1>4, <1>5

\* A scan of enough history holds what can be trusted.
LEMMA ScanHolds ==
  ASSUME World, OneIsRegular, CloseSeasons, NEW from, Begun(from), NEW w \in Calendar, Trusted(from, w)
  PROVE  HeldIn(ScannedSteps(from), w)
<1> DEFINE first == First(Bars(from))
           W == Weekends(Bars(from))
           N == now + MaxOffset
<1>1. now \in Nat /\ MaxOffset \in Nat /\ N \in Nat
  BY Numbers DEF World
<1>2. PICK v0 \in Seen(from) :
        /\ Agreed(from, v0) /\ Shown(v0) = offset[w] /\ LastSwitch(from, w) <= v0
        /\ \A y \in Seen(from) : y < v0 => y < LastSwitch(from, w)
  BY FirstReadAgrees
<1>3. Turning(from, w, v0)
  BY <1>2 DEF Turning
<1>4. End(v0) < N /\ End(v0) \in Nat
  <2>1. v0 \in Ended(from) /\ v0 + 1 \in Calendar
    BY SeenTypes
  <2>2. /\ End(v0) = Opening(v0 + 1) + offset[v0 + 1] /\ Opening(v0 + 1) < now /\ End(v0) \in Nat
        /\ Opening(v0 + 1) \in Nat /\ offset[v0 + 1] \in 0 .. MaxOffset
    BY <2>1, EndedTypes, WeekTypes
  <2> QED
    BY <2>2, <1>1
<1>5. PICK t : Gathers(first, W, N, t) /\ Steps(first, W) = t[N]
  BY <1>1, StepsAreGathered
<1>6. \A n \in 0 .. N : Gathered(from, n, t[n])
  BY <1>5, GatheredByThen
<1>7. \A n \in 1 .. N : t[n] = Taken(first, W, t[n - 1], n - 1)
  <2> HIDE DEF first, W, N
  <2> QED
    BY <1>1, <1>5 DEF Gathers
<1> DEFINE S == {n \in Nat : End(v0) < n => HeldIn(t[n], w)}
<1>8. 0 \in S
  BY <1>4
<1>9. ASSUME NEW n \in 0 .. N - 1, n \in S
      PROVE  n + 1 \in S
  <2>1. n \in Nat /\ n + 1 \in Nat /\ n + 1 \in 1 .. N /\ (n + 1) - 1 = n /\ n \in 0 .. N
    BY <1>1, <1>9
  <2>2. t[n + 1] = Taken(first, W, t[n], n)
    BY <1>7, <2>1
  <2>3. CASE End(v0) <= n
    <3>1. HeldIn(t[n + 1], w)
      BY <1>3, <1>6, <1>9, <2>1, <2>2, <2>3, TurnHolds
    <3> QED
      BY <3>1, <2>1
  <2>4. CASE ~(End(v0) <= n)
    BY <1>4, <2>1, <2>4
  <2> QED
    BY <2>3, <2>4
<1>10. HeldIn(Steps(first, W), w)
  <2> HIDE DEF S, N
  <2>1. 0 .. N \subseteq S
    BY <1>1, <1>8, <1>9, Climb
  <2>2. N \in S
    BY <1>1, <2>1
  <2> QED
    BY <2>2, <1>4, <1>5 DEF S
<1>11. Cardinality(DOMAIN W) >= MinWeekends
  <2> DEFINE three == FirstOf(ReadFrom(from, w))
  <2>1. three \in SUBSET Seen(from) /\ Cardinality(three) = Confirmations + 1
    BY DEF FirstOf, ReadFrom, Trusted
  <2> HIDE DEF three
  <2>2. IsFiniteSet(Seen(from)) /\ Cardinality(three) <= Cardinality(Seen(from))
    BY <2>1, SeenFinite, FS_Subset
  <2>3. Cardinality(DOMAIN W) = Cardinality(Seen(from)) /\ Cardinality(Seen(from)) \in Nat
    BY WeekendsAre, EndsCount
  <2> QED
    BY <2>1, <2>2, <2>3, Numbers
<1>12. Cardinality(DOMAIN W) \in Nat
  BY WeekendsAre, EndsCount
<1>13. ScannedSteps(from) = Steps(first, W)
  BY <1>11, <1>12, Numbers DEF ScannedSteps
<1> QED
  BY <1>10, <1>13

-----------------------------------------------------------------------------
(* The tick, and the measurement *)

LEMMA TickType ==
  ASSUME World, TickOffset # Unknown
  PROVE  /\ TickOffset \in -MaxOffset .. MaxOffset
         /\ Quoted(now) => TickOffset = offset[WeekOf(now)]
<1> DEFINE ticks == {u \in 0 .. now : Quoted(u)}
           last == Latest(ticks)
<1>1. now \in Nat
  BY DEF World
<1>2. ticks # {} /\ Plausible(Label(last) - now) /\ TickOffset = Label(last) - now
  BY DEF TickOffset
<1>3. ticks \in SUBSET Nat /\ \A u \in ticks : u <= now
  BY <1>1
<1>4. PICK u \in ticks : \A y \in ticks : y <= u
  <2> HIDE DEF ticks
  <2> QED
    BY <1>1, <1>2, <1>3, HasGreatest
<1>5. last = u
  <2>1. ticks \in SUBSET Int
    BY <1>3
  <2> HIDE DEF ticks
  <2> QED
    BY <2>1, <1>4, LatestIs
<1>6. Label(last) \in Nat
  BY <1>3, <1>4, <1>5, LabelInWeek
<1>7. TickOffset \in -MaxOffset .. MaxOffset
  <2>1. Label(last) - now \in Int /\ MaxOffset \in Nat
    BY <1>1, <1>6, Numbers
  <2> QED
    BY <1>2, <2>1 DEF Plausible, Distance
<1>8. ASSUME Quoted(now)
      PROVE  TickOffset = offset[WeekOf(now)]
  <2>1. now \in ticks
    BY <1>1, <1>8
  <2>2. last = now
    BY <1>1, <1>3, <1>4, <1>5, <2>1
  <2>3. Label(now) = now + offset[WeekOf(now)] /\ offset[WeekOf(now)] \in Nat
    BY <1>1, <1>8, LabelInWeek, WeekTypes
  <2> QED
    BY <1>1, <1>2, <2>2, <2>3
<1> QED
  BY <1>7, <1>8

LEMMA UnknownIsNone ==
  /\ Unknown \in Int /\ Unknown \notin -MaxOffset .. MaxOffset
  /\ -MaxOffset .. MaxOffset \subseteq Int
BY Numbers DEF Unknown

\* A clock measured now from a tick that is not left over from before a holiday.
Fresh(tick) == tick \in {TickOffset, Unknown} /\ (tick # Unknown => Quoted(now))

LEMMA FreshTick ==
  ASSUME World, NEW tick, Fresh(tick), tick # Unknown
  PROVE  tick = offset[WeekOf(now)] /\ CurrentWeekLabel(tick) = Label(Opening(WeekOf(now)))
<1>1. tick = TickOffset /\ Quoted(now) /\ WeekOf(now) \in Calendar
  BY DEF Fresh, World
<1>2. tick = offset[WeekOf(now)]
  BY <1>1, TickType
<1>3. Label(Opening(WeekOf(now))) = Opening(WeekOf(now)) + offset[WeekOf(now)]
  BY <1>1, OpeningIsQuoted
<1> QED
  BY <1>2, <1>3 DEF CurrentWeekLabel

\* The steps are in order, each with an offset the broker had, and each counts from the opening
\* of a week before last; the later ones from one with that offset, or a mistaken one.
Dated(S, i, last) ==
  \E x \in Calendar : /\ x <= last /\ S[i].at = Label(Opening(x))
                      /\ i # 1 => offset[x] = S[i].minutes \/ Mistaken(x)
Sound(S, last) ==
  /\ \A i, j \in DOMAIN S : i < j => S[i].at < S[j].at
  /\ \A i \in DOMAIN S : (\E x \in Calendar : offset[x] = S[i].minutes) /\ Dated(S, i, last)

LEMMA ScanIsSound ==
  ASSUME World, OneIsRegular, NEW from, Begun(from), NEW n, NEW S, Gathered(from, n, S)
  PROVE  /\ Sound(S, WeekOf(now))
         /\ \A i \in DOMAIN S : S[i].at < Label(Opening(WeekOf(now)))
<1>1. WeekOf(now) \in Calendar /\ WeekOf(now) \in Nat /\ from \in Calendar
  BY WeekTypes DEF World, Begun
<1>2. SUFFICES ASSUME NEW i \in DOMAIN S
               PROVE  /\ \E x \in Calendar : offset[x] = S[i].minutes
                      /\ Dated(S, i, WeekOf(now))
                      /\ S[i].at < Label(Opening(WeekOf(now)))
  BY DEF Sound, Gathered
<1>3. PICK v \in Seen(from) : Marks(from, v, i, S[i])
  BY DEF Gathered
<1>4. PICK r \in Seen(from) : Vouches(from, v, r)
  BY <1>3, OneVouches DEF Marks
<1>5. /\ v \in Nat /\ v \in Calendar /\ from \in Nat /\ from <= v /\ v < WeekOf(now)
      /\ r \in Calendar /\ r \in Nat /\ v <= r /\ S[i].minutes = offset[r]
  BY <1>3, <1>4, SeenTypes DEF Marks, Vouches
<1>6. CASE i = 1
  <2>1. S[i].at = Label(Opening(from))
    BY <1>3, <1>6 DEF Marks
  <2>2. from < WeekOf(now)
    BY <1>1, <1>5
  <2>3. Label(Opening(from)) < Label(Opening(WeekOf(now)))
    BY <2>2, <1>1, OpeningLabels
  <2> QED
    BY <2>1, <2>2, <2>3, <1>1, <1>5, <1>6 DEF Dated
<1>7. CASE i # 1
  <2>1. PICK p \in Seen(from) : Previous(from, p, v) /\ S[i].at = End(p)
    BY <1>3, <1>7 DEF Marks
  <2>2. p \in Nat /\ p + 1 \in Calendar /\ p < v /\ from <= p
    BY <2>1, SeenTypes DEF Previous
  <2>3. p + 1 < WeekOf(now) /\ p + 1 <= v /\ p + 1 \in Nat
    BY <1>1, <1>5, <2>2
  <2>4. Label(Opening(p + 1)) < Label(Opening(WeekOf(now)))
    BY <2>2, <2>3, <1>1, OpeningLabels
  <2>5. offset[p + 1] = offset[r] \/ Mistaken(p + 1)
    <3>1. CASE Skipped(p + 1)
      BY <3>1 DEF Mistaken
    <3>2. CASE ~Skipped(p + 1)
      <4>1. p + 1 \in from .. v
        BY <1>5, <2>2, <2>3
      <4>2. v \in Ended(from)
        BY SeenTypes
      <4>3. p + 1 \in Seen(from)
        BY <4>1, <4>2, <3>2, EndedBefore DEF Seen
      <4>4. p + 1 = v
        BY <4>3, <2>1, <2>2, <2>3, <1>5 DEF Previous
      <4>5. \A y \in v .. r : ~Skipped(y) => Shown(y) = offset[r]
        BY <1>4 DEF Vouches
      <4>6. missing[r] = 0
        BY <1>4 DEF Vouches
      <4> QED
        BY <4>4, <4>5, <4>6, <1>5, ShownOrMistaken
    <3> QED
      BY <3>1, <3>2
  <2>6. S[i].at = Label(Opening(p + 1))
    BY <2>1 DEF End
  <2>7. p + 1 <= WeekOf(now)
    BY <1>1, <2>3
  <2>8. Dated(S, i, WeekOf(now))
    BY <2>2, <2>5, <2>6, <2>7, <1>5 DEF Dated
  <2> QED
    BY <2>4, <2>6, <2>8, <1>5
<1> QED
  BY <1>6, <1>7

\* The steps measured are those scanned, with one for the tick if it says otherwise.
LEMMA MeasuredIs ==
  ASSUME NEW scanned \in Seq(StepSet), NEW tick
  PROVE  LET S == MeasuredSteps(scanned, tick)
         IN  \/ S = scanned /\ (tick = Unknown \/ (scanned # <<>> /\ tick = scanned[Len(scanned)].minutes))
             \/ tick # Unknown /\ S = Append(scanned, Step(CurrentWeekLabel(tick), tick))
<1>1. CASE scanned = <<>>
  <2>1. \A e : Append(<<>>, e) = <<e>>
    OBVIOUS
  <2> QED
    BY <1>1, <2>1 DEF MeasuredSteps
<1>2. CASE scanned # <<>>
  BY <1>2 DEF MeasuredSteps, Pinned
<1> QED
  BY <1>1, <1>2

LEMMA PinType ==
  ASSUME World, NEW tick, tick \in {TickOffset, Unknown}, tick # Unknown
  PROVE  Step(CurrentWeekLabel(tick), tick) \in StepSet
<1>1. tick \in -MaxOffset .. MaxOffset
  BY TickType
<1>2. Opening(WeekOf(now)) \in Nat /\ MaxOffset \in Nat
  BY OpeningLabels, Numbers DEF World
<1>3. CurrentWeekLabel(tick) \in Int
  BY <1>1, <1>2 DEF CurrentWeekLabel
<1> QED
  BY <1>1, <1>3 DEF Step, StepSet

LEMMA MeasuredType ==
  ASSUME World, NEW from, Begun(from), NEW tick, tick \in {TickOffset, Unknown}
  PROVE  MeasuredSteps(ScannedSteps(from), tick) \in Seq(StepSet)
<1>1. ScannedSteps(from) \in Seq(StepSet)
  BY ScanGathers DEF Gathered
<1>2. tick # Unknown => Step(CurrentWeekLabel(tick), tick) \in StepSet
  BY PinType
<1>3. tick # Unknown => Append(ScannedSteps(from), Step(CurrentWeekLabel(tick), tick)) \in Seq(StepSet)
  BY <1>1, <1>2, AppendIs
<1> QED
  BY <1>1, <1>3, MeasuredIs

LEMMA MeasuredSound ==
  ASSUME World, OneIsRegular, NEW from, Begun(from), NEW tick, Fresh(tick)
  PROVE  Sound(MeasuredSteps(ScannedSteps(from), tick), WeekOf(now))
<1> DEFINE scanned == ScannedSteps(from)
           S == MeasuredSteps(scanned, tick)
           e == Step(CurrentWeekLabel(tick), tick)
           cw == WeekOf(now)
<1>1. /\ Gathered(from, now + MaxOffset, scanned) /\ scanned \in Seq(StepSet)
      /\ DOMAIN scanned = 1 .. Len(scanned) /\ Len(scanned) \in Nat
  BY ScanGathers DEF Gathered
<1>2. /\ Sound(scanned, cw)
      /\ \A i \in DOMAIN scanned : scanned[i].at < Label(Opening(cw))
  BY <1>1, ScanIsSound
<1>3. S = scanned \/ (tick # Unknown /\ S = Append(scanned, e))
  BY <1>1, MeasuredIs
<1> HIDE DEF scanned, S
<1>4. CASE S = scanned
  BY <1>2, <1>4 DEF S, scanned
<1>5. CASE tick # Unknown /\ S = Append(scanned, e)
  <2>1. tick = offset[cw] /\ CurrentWeekLabel(tick) = Label(Opening(cw)) /\ cw \in Calendar /\ cw \in Nat
    BY <1>5, FreshTick, OpeningLabels DEF World
  <2>2. e.at = Label(Opening(cw)) /\ e.minutes = offset[cw]
    BY <2>1 DEF Step
  <2>3. e \in StepSet
    BY <1>5, PinType DEF Fresh
  <2> HIDE DEF e
  <2>4. /\ DOMAIN S = 1 .. Len(scanned) + 1
        /\ \A i \in 1 .. Len(scanned) : S[i] = scanned[i]
        /\ S[Len(scanned) + 1] = e
    BY <1>1, <1>5, <2>3, AppendIs
  <2>5. ASSUME NEW i \in DOMAIN S
        PROVE  (\E x \in Calendar : offset[x] = S[i].minutes) /\ Dated(S, i, cw)
    <3>1. CASE i \in 1 .. Len(scanned)
      <4>1. i \in DOMAIN scanned /\ S[i] = scanned[i]
        BY <3>1, <1>1, <2>4
      <4> QED
        BY <4>1, <1>2 DEF Sound, Dated
    <3>2. CASE i = Len(scanned) + 1
      <4>1. S[i] = e /\ cw <= cw
        BY <3>2, <2>4, <2>1
      <4> QED
        BY <4>1, <2>1, <2>2 DEF Dated
    <3> QED
      BY <3>1, <3>2, <1>1, <2>4, <2>5
  <2>6. ASSUME NEW i \in DOMAIN S, NEW j \in DOMAIN S, i < j
        PROVE  S[i].at < S[j].at
    <3>1. i \in 1 .. Len(scanned)
      BY <1>1, <2>4, <2>6
    <3>2. CASE j \in 1 .. Len(scanned)
      BY <3>1, <3>2, <1>1, <1>2, <2>4, <2>6 DEF Sound
    <3>3. CASE j = Len(scanned) + 1
      BY <3>1, <3>3, <1>1, <1>2, <2>2, <2>4
    <3> QED
      BY <3>2, <3>3, <1>1, <2>4, <2>6
  <2> QED
    BY <2>5, <2>6 DEF Sound, S, scanned
<1> QED
  BY <1>3, <1>4, <1>5

LEMMA MeasuredHolds ==
  ASSUME World, OneIsRegular, CloseSeasons, NEW from, Begun(from), NEW tick, Fresh(tick),
         NEW w \in Calendar, Trusted(from, w) \/ (w = WeekOf(now) /\ tick # Unknown)
  PROVE  HeldIn(MeasuredSteps(ScannedSteps(from), tick), w)
<1> DEFINE scanned == ScannedSteps(from)
           S == MeasuredSteps(scanned, tick)
           e == Step(CurrentWeekLabel(tick), tick)
           cw == WeekOf(now)
<1>1. /\ Gathered(from, now + MaxOffset, scanned) /\ scanned \in Seq(StepSet)
      /\ DOMAIN scanned = 1 .. Len(scanned) /\ Len(scanned) \in Nat
  BY ScanGathers DEF Gathered
<1>2. \A i \in DOMAIN scanned : scanned[i].at < Label(Opening(cw))
  BY <1>1, ScanIsSound
<1>3. \/ S = scanned /\ (tick = Unknown \/ (scanned # <<>> /\ tick = scanned[Len(scanned)].minutes))
      \/ tick # Unknown /\ S = Append(scanned, e)
  BY <1>1, MeasuredIs
<1>4. Trusted(from, w) => HeldIn(scanned, w)
  BY ScanHolds
<1>5. cw \in Calendar /\ cw \in Nat /\ w \in Nat /\ Label(Opening(cw)) \in Nat /\ Label(Opening(w)) \in Nat
  BY OpeningLabels DEF World
<1>6. tick # Unknown => tick = offset[cw] /\ CurrentWeekLabel(tick) = Label(Opening(cw))
  BY FreshTick
<1> HIDE DEF scanned, S
<1>7. CASE S = scanned /\ (tick = Unknown \/ (scanned # <<>> /\ tick = scanned[Len(scanned)].minutes))
  <2>1. CASE Trusted(from, w)
    BY <1>4, <1>7, <2>1 DEF S, scanned
  <2>2. CASE w = cw /\ tick # Unknown
    <3>1. Len(scanned) \in DOMAIN scanned
      BY <1>1, <1>7, <2>2
    <3>2. scanned[Len(scanned)].minutes = offset[w] /\ scanned[Len(scanned)].at <= Label(Opening(w))
      <4>1. scanned[Len(scanned)].at \in Int
        <5>1. scanned[Len(scanned)] \in StepSet
          BY <1>1, <3>1
        <5> QED
          BY <5>1 DEF StepSet
      <4> QED
        BY <4>1, <1>2, <1>5, <1>6, <1>7, <2>2, <3>1
    <3>3. \A j \in DOMAIN scanned : ~(Len(scanned) < j)
      BY <1>1
    <3> QED
      BY <1>7, <3>1, <3>2, <3>3 DEF HeldIn, S, scanned
  <2> QED
    BY <2>1, <2>2
<1>8. CASE tick # Unknown /\ S = Append(scanned, e)
  <2>1. e.at = Label(Opening(cw)) /\ e.minutes = offset[cw]
    BY <1>6, <1>8 DEF Step
  <2>2. e \in StepSet
    BY <1>8, PinType DEF Fresh
  <2> HIDE DEF e
  <2>3. /\ DOMAIN S = 1 .. Len(scanned) + 1
        /\ \A i \in 1 .. Len(scanned) : S[i] = scanned[i]
        /\ S[Len(scanned) + 1] = e
    BY <1>1, <1>8, <2>2, AppendIs
  <2>4. CASE cw <= w
    <3>1. offset[cw] = offset[w]
      <4>1. CASE Trusted(from, w)
        <5>1. PICK v \in Seen(from) : LastSwitch(from, w) <= v
          BY <4>1, FirstReadAgrees
        <5>2. v \in Nat /\ v < cw
          BY SeenTypes
        <5>3. LastSwitch(from, w) \in Nat /\ \A y \in LastSwitch(from, w) .. w : offset[y] = offset[w]
          BY <4>1, LastSwitchIs DEF Trusted, Begun
        <5>4. cw \in LastSwitch(from, w) .. w
          BY <5>1, <5>2, <5>3, <1>5, <2>4
        <5> QED
          BY <5>3, <5>4
      <4>2. CASE w = cw
        BY <4>2
      <4> QED
        BY <4>1, <4>2
    <3>2. Label(Opening(cw)) <= Label(Opening(w))
      BY <1>5, <2>4, OpeningLabels
    <3>3. Len(scanned) + 1 \in DOMAIN S /\ \A j \in DOMAIN S : ~(Len(scanned) + 1 < j)
      BY <1>1, <2>3
    <3> QED
      BY <2>1, <2>3, <3>1, <3>2, <3>3 DEF HeldIn, S, scanned
  <2>5. CASE w < cw
    <3>1. Trusted(from, w)
      BY <1>5, <2>5
    <3>2. PICK i \in DOMAIN scanned :
            /\ scanned[i].minutes = offset[w] /\ scanned[i].at <= Label(Opening(w))
            /\ \A j \in DOMAIN scanned : i < j => Opening(w + 1) <= scanned[j].at
      BY <1>4, <3>1 DEF HeldIn
    <3>3. Opening(w + 1) <= Label(Opening(cw))
      <4>1. Opening(w + 1) \in Int /\ Opening(cw) \in Nat /\ Opening(cw) <= Label(Opening(cw)) /\ Week \in Nat
        BY <1>5, OpeningType, OpeningLabels, Numbers
      <4>2. w + 1 < cw => Opening(w + 1) + Week <= Opening(cw)
        BY <1>5, OpeningsGrow
      <4> QED
        BY <4>1, <4>2, <1>5, <2>5
    <3>4. i \in DOMAIN S /\ S[i] = scanned[i]
      BY <1>1, <2>3, <3>2
    <3>5. ASSUME NEW j \in DOMAIN S, i < j
          PROVE  Opening(w + 1) <= S[j].at
      <4>1. CASE j \in 1 .. Len(scanned)
        BY <4>1, <1>1, <2>3, <3>2, <3>5
      <4>2. CASE j = Len(scanned) + 1
        BY <4>2, <2>1, <2>3, <3>3
      <4> QED
        BY <4>1, <4>2, <1>1, <2>3, <3>5
    <3> QED
      BY <3>2, <3>4, <3>5 DEF HeldIn, S, scanned
  <2> QED
    BY <2>4, <2>5, <1>5
<1> QED
  BY <1>3, <1>7, <1>8

-----------------------------------------------------------------------------
(* Conversion *)

\* The offset at a label is that of one of the steps.
LEMMA OffsetType ==
  ASSUME steps \in Seq(StepSet), steps # <<>>, NEW S \in SUBSET DOMAIN steps
  PROVE  (IF S = {} THEN steps[1].minutes ELSE LastStep(S).minutes) \in -MaxOffset .. MaxOffset
<1>1. /\ DOMAIN steps = 1 .. Len(steps) /\ Len(steps) \in Nat /\ 1 \in DOMAIN steps
      /\ \A i \in DOMAIN steps : steps[i].minutes \in -MaxOffset .. MaxOffset
  <2>1. \A i \in DOMAIN steps : steps[i] \in StepSet
    OBVIOUS
  <2> QED
    BY <2>1 DEF StepSet
<1>2. CASE S = {}
  BY <1>1, <1>2
<1>3. CASE S # {}
  <2>1. S \in SUBSET Nat /\ \A i \in S : i <= Len(steps)
    BY <1>1
  <2>2. PICK m \in S : \A y \in S : y <= m
    BY <1>1, <1>3, <2>1, HasGreatest
  <2>3. Latest(S) = m
    <3>1. S \in SUBSET Int
      BY <2>1
    <3> QED
      BY <3>1, <2>2, LatestIs
  <2> QED
    BY <1>1, <1>3, <2>3 DEF LastStep
<1> QED
  BY <1>2, <1>3

LEMMA ConversionType ==
  ASSUME steps \in Seq(StepSet), steps # <<>>, NEW l \in Int
  PROVE  /\ ToUtc(l) \in Int
         /\ ToServer(l) \in Int
<1>1. OffsetAt(l) \in Int
  <2> DEFINE S == {i \in DOMAIN steps : steps[i].at <= l}
  <2>1. S \in SUBSET DOMAIN steps
    OBVIOUS
  <2>2. OffsetAt(l) = IF S = {} THEN steps[1].minutes ELSE LastStep(S).minutes
    BY DEF OffsetAt
  <2> HIDE DEF S
  <2> QED
    BY <2>1, <2>2, OffsetType, UnknownIsNone
<1>2. ToServer(l) \in Int
  <2> DEFINE S == {i \in DOMAIN steps : steps[i].at <= l + steps[i].minutes}
  <2>1. S \in SUBSET DOMAIN steps
    OBVIOUS
  <2>2. ToServer(l) = l + (IF S = {} THEN steps[1].minutes ELSE LastStep(S).minutes)
    BY DEF ToServer
  <2> HIDE DEF S
  <2>3. (IF S = {} THEN steps[1].minutes ELSE LastStep(S).minutes) \in Int
    BY <2>1, OffsetType, UnknownIsNone
  <2> QED
    BY <2>2, <2>3
<1> QED
  BY <1>1, <1>2 DEF ToUtc

LEMMA ZeroBegins ==
  ASSUME World
  PROVE  Begun(0) /\ Opening(0) = 0
BY Numbers, WeekTypes DEF Begun, Calendar, World, Opening

LEMMA RowsType ==
  ASSUME World, steps \in Seq(StepSet), NEW start \in Nat
  PROVE  CopyRates(start, now) \subseteq Nat
<1>1. CASE steps = <<>>
  BY <1>1 DEF CopyRates
<1>2. CASE steps # <<>>
  <2>1. \A l \in Bars(0) : ToUtc(l) \in Int
    BY <1>2, ZeroBegins, BarsType, ConversionType
  <2>2. \A u \in CopyRates(start, now) : u \in Int /\ start <= u
    BY <1>2, <2>1 DEF CopyRates
  <2> QED
    BY <2>2
<1> QED
  BY <1>1, <1>2

-----------------------------------------------------------------------------
(* Types *)

ClockTypeInv == TypeOK /\ World

LEMMA TypeInit == Init => ClockTypeInv
<1> SUFFICES ASSUME Init
             PROVE  ClockTypeInv
  OBVIOUS
<1>1. /\ now = 0 /\ steps = <<>> /\ measured = Never /\ swept = Nothing
      /\ offset \in [Calendar -> Offsets] /\ missing \in [Calendar -> Missing \cup {0}]
  BY DEF Init
<1>2. WeekOf(0) = 0 /\ 0 \in Calendar
  BY Numbers, WeekIs DEF Opening, Calendar
<1>3. steps \in Seq([at : Int, minutes : -MaxOffset .. MaxOffset])
  BY <1>1
<1>4. measured \in [at : Int, from : Nat, tick : Int, scanned : BOOLEAN] /\ measured.at <= now
  BY <1>1, UnknownIsNone DEF Never
<1> QED
  BY <1>1, <1>2, <1>3, <1>4 DEF ClockTypeInv, TypeOK, World, Nothing

\* What the measurement sees.
LEMMA MeasureIs ==
  ASSUME ClockTypeInv, Measure
  PROVE  \E from \in Starts, tick \in {TickOffset, Unknown} :
           /\ Begun(from) /\ from \in Nat /\ tick \in Int
           /\ steps' = MeasuredSteps(ScannedSteps(from), tick)
           /\ measured' = [at |-> now, from |-> from, tick |-> tick, scanned |-> ScannedSteps(from) # <<>>]
<1>1. PICK from \in {w \in Starts : w <= WeekOf(now)} : \E tick \in {TickOffset, Unknown} :
           /\ steps' = MeasuredSteps(ScannedSteps(from), tick)
           /\ measured' = [at |-> now, from |-> from, tick |-> tick, scanned |-> ScannedSteps(from) # <<>>]
  BY DEF Measure
<1>2. PICK tick \in {TickOffset, Unknown} :
           /\ steps' = MeasuredSteps(ScannedSteps(from), tick)
           /\ measured' = [at |-> now, from |-> from, tick |-> tick, scanned |-> ScannedSteps(from) # <<>>]
  BY <1>1
<1>3. from \in Calendar /\ from \in Nat /\ from \in Starts /\ from <= WeekOf(now)
  <2>1. Starts \subseteq 0 .. Weeks - 1
    BY ClockAssumption
  <2> QED
    BY <1>1, <2>1, Numbers DEF Calendar
<1>4. tick \in Int
  <2>1. World
    BY DEF ClockTypeInv
  <2>2. CASE tick = Unknown
    BY <2>2, UnknownIsNone
  <2>3. CASE tick # Unknown
    <3>1. tick \in -MaxOffset .. MaxOffset
      BY <1>2, <2>1, <2>3, TickType
    <3> QED
      BY <3>1, UnknownIsNone
  <2> QED
    BY <2>2, <2>3
<1> QED
  BY <1>2, <1>3, <1>4 DEF Begun

LEMMA TypeNext == ClockTypeInv /\ [Next]_vars => ClockTypeInv'
<1> SUFFICES ASSUME ClockTypeInv, [Next]_vars
             PROVE  ClockTypeInv'
  OBVIOUS
<1>1. /\ World /\ now \in Nat /\ offset \in [Calendar -> Offsets] /\ missing \in [Calendar -> Missing \cup {0}]
      /\ steps \in Seq(StepSet) /\ measured.at <= now /\ WeekOf(now) \in Calendar
      /\ measured \in [at : Int, from : Nat, tick : Int, scanned : BOOLEAN]
      /\ swept.start \in Nat /\ swept.rows \subseteq Nat
  BY DEF ClockTypeInv, TypeOK, World, StepSet
<1>2. Nothing.start \in Nat /\ Nothing.rows \subseteq Nat
  BY DEF Nothing
<1>3. CASE Tick
  <2>1. PICK t \in now + 1 .. now + Week :
          /\ WeekOf(t) \in Calendar /\ now' = t
          /\ IF t - measured.at <= Refresh THEN UNCHANGED <<steps, measured>>
             ELSE steps' = <<>> /\ measured' = Never
    BY <1>3 DEF Tick
  <2>2. swept' = Nothing /\ UNCHANGED world
    BY <1>3 DEF Tick
  <2>3. now' \in Nat /\ now <= now' /\ WeekOf(now') \in Calendar
    BY <1>1, <2>1, Numbers
  <2>4. steps' \in Seq(StepSet)
    <3>1. steps' = steps \/ steps' = <<>>
      BY <2>1
    <3>2. <<>> \in Seq(StepSet)
      OBVIOUS
    <3> QED
      BY <1>1, <3>1, <3>2
  <2>5. measured' \in [at : Int, from : Nat, tick : Int, scanned : BOOLEAN] /\ measured'.at <= now'
    <3>1. CASE measured' = measured
      BY <3>1, <1>1, <2>3
    <3>2. CASE measured' = Never
      BY <3>2, <2>3, UnknownIsNone DEF Never
    <3> QED
      BY <2>1, <3>1, <3>2
  <2> QED
    BY <1>1, <1>2, <2>2, <2>3, <2>4, <2>5 DEF ClockTypeInv, TypeOK, World, StepSet, world, WeekOf, Calendar
<1>4. CASE Measure
  <2>1. PICK from \in Starts, tick \in {TickOffset, Unknown} :
           /\ Begun(from) /\ from \in Nat /\ tick \in Int
           /\ steps' = MeasuredSteps(ScannedSteps(from), tick)
           /\ measured' = [at |-> now, from |-> from, tick |-> tick, scanned |-> ScannedSteps(from) # <<>>]
    BY <1>4, MeasureIs
  <2>2. swept' = Nothing /\ UNCHANGED <<now, world>>
    BY <1>4 DEF Measure
  <2>3. steps' \in Seq(StepSet)
    BY <1>1, <2>1, MeasuredType
  <2>4. measured' \in [at : Int, from : Nat, tick : Int, scanned : BOOLEAN] /\ measured'.at <= now'
    BY <1>1, <2>1, <2>2
  <2> QED
    BY <1>1, <1>2, <2>2, <2>3, <2>4 DEF ClockTypeInv, TypeOK, World, StepSet, world, WeekOf, Calendar
<1>5. CASE Sweep
  <2>1. PICK start \in {now - Lookback} \cup {u \in now - Open .. now - 1 : Quoted(u)} :
          start >= 0 /\ swept' = [start |-> start, rows |-> CopyRates(start, now)]
    BY <1>5 DEF Sweep
  <2>2. UNCHANGED <<now, world, steps, measured>>
    BY <1>5 DEF Sweep
  <2>3. start \in Nat
    <3>1. Lookback \in Nat
      BY ClockAssumption
    <3>2. start \in Int
      BY <1>1, <2>1, <3>1, Numbers
    <3> QED
      BY <2>1, <3>2
  <2>4. CopyRates(start, now) \subseteq Nat
    BY <1>1, <2>3, RowsType
  <2>5. swept'.start \in Nat /\ swept'.rows \subseteq Nat
    BY <2>1, <2>3, <2>4
  <2> QED
    BY <1>1, <2>2, <2>5 DEF ClockTypeInv, TypeOK, World, StepSet, world, WeekOf, Calendar
<1>6. CASE UNCHANGED vars
  BY <1>1, <1>6 DEF ClockTypeInv, TypeOK, World, StepSet, world, WeekOf, Calendar, vars
<1>7. CASE Over
  BY <1>6, <1>7 DEF Over
<1> QED
  BY <1>3, <1>4, <1>5, <1>6, <1>7 DEF Next

\* Every measurement gives steps with offsets no clock is set beyond, and every request times from
\* its window on.
THEOREM ClockTypes == Spec => []TypeOK
<1>1. Spec => []ClockTypeInv
  BY TypeInit, TypeNext, PTL DEF Spec
<1>2. ClockTypeInv => TypeOK
  BY DEF ClockTypeInv
<1> QED
  BY <1>1, <1>2, PTL

-----------------------------------------------------------------------------
(* What the steps convert *)

LEMMA HeldConverts ==
  ASSUME World, steps \in Seq(StepSet), NEW w \in Calendar, HeldIn(steps, w),
         NEW u \in Int, Quoted(u), WeekOf(u) = w
  PROVE  steps # <<>> /\ ToUtc(Label(u)) = u
<1> DEFINE l == Label(u)
           S == {i \in DOMAIN steps : steps[i].at <= l}
<1>1. PICK i \in DOMAIN steps :
        /\ steps[i].minutes = offset[w] /\ steps[i].at <= Label(Opening(w))
        /\ \A j \in DOMAIN steps : i < j => Opening(w + 1) <= steps[j].at
  BY DEF HeldIn
<1>2. DOMAIN steps = 1 .. Len(steps) /\ Len(steps) \in Nat /\ \A j \in DOMAIN steps : steps[j].at \in Int
  <2>1. \A j \in DOMAIN steps : steps[j] \in StepSet
    OBVIOUS
  <2> QED
    BY <2>1 DEF StepSet
<1>3. l \in Nat /\ l = u + offset[w] /\ l < Opening(w) + Week /\ offset[w] \in Nat
  BY LabelInWeek, WeekTypes
<1>4. Opening(w) \in Nat /\ Opening(w + 1) = Opening(w) + Week /\ Week \in Nat
  BY WeekTypes, OpeningType, Numbers
<1>5. Label(Opening(w)) <= l /\ Label(Opening(w)) \in Nat
  <2>1. Quoted(Opening(w)) /\ Label(Opening(w)) \in Nat
    BY OpeningIsQuoted
  <2>2. Opening(w) <= u
    <3>1. u = Opening(WeekOf(u)) + Hour(u) /\ Hour(u) \in 0 .. Week - 1
      BY HoursOfWeek
    <3> QED
      BY <3>1, <1>4
  <2>3. Opening(w) < u => Label(Opening(w)) < Label(u)
    BY <2>1, <1>4, LabelsGrow
  <2> QED
    BY <2>1, <2>2, <2>3, <1>3, <1>4
<1>6. i \in S
  BY <1>1, <1>2, <1>3, <1>5
<1>7. \A j \in S : j <= i
  <2>1. SUFFICES ASSUME NEW j \in S, i < j
                 PROVE  FALSE
    BY <1>2
  <2>2. Opening(w + 1) <= steps[j].at /\ steps[j].at <= l
    BY <1>1, <2>1
  <2> QED
    BY <2>2, <1>2, <1>3, <1>4, <2>1
<1>8. S \in SUBSET Int
  BY <1>2
<1>9. OffsetAt(l) = IF S = {} THEN steps[1].minutes ELSE LastStep(S).minutes
  BY DEF OffsetAt
<1> HIDE DEF S, l
<1>10. Latest(S) = i
  BY <1>6, <1>7, <1>8, LatestIs
<1>11. OffsetAt(l) = offset[w]
  BY <1>1, <1>6, <1>9, <1>10 DEF LastStep
<1>12. ToUtc(l) = u
  BY <1>3, <1>11 DEF ToUtc
<1> QED
  BY <1>1, <1>12 DEF l

\* A moment of a week is asked for with the offset of that week, whatever steps follow.
LEMMA WeekNumbers ==
  ASSUME World, NEW w \in Calendar
  PROVE  /\ w \in Nat /\ w \in Int /\ Opening(w) \in Nat /\ Opening(w + 1) = Opening(w) + Week
         /\ Week \in Nat /\ Week > 0
         /\ offset[w] \in Nat /\ Label(Opening(w)) = Opening(w) + offset[w] /\ Label(Opening(w)) \in Nat
         /\ Label(Opening(w)) < Opening(w) + Week
<1>1. w \in Nat /\ w \in Int /\ Opening(w) \in Nat /\ offset[w] \in Nat
  BY WeekTypes
<1>2. Opening(w + 1) = Opening(w) + Week
  BY <1>1, OpeningType
<1> QED
  BY <1>1, <1>2, OpeningIsQuoted, Numbers

LEMMA MomentInWeek ==
  ASSUME NEW t \in Int
  PROVE  /\ WeekOf(t) \in Int /\ Opening(WeekOf(t)) \in Int
         /\ Opening(WeekOf(t)) <= t /\ t < Opening(WeekOf(t)) + Week
<1>1. WeekOf(t) \in Int /\ Hour(t) \in 0 .. Week - 1 /\ t = Opening(WeekOf(t)) + Hour(t)
  BY HoursOfWeek
<1>2. Opening(WeekOf(t)) \in Int /\ Week \in Nat
  BY <1>1, OpeningType, Numbers
<1> QED
  BY <1>1, <1>2

LEMMA ToServerIs ==
  ASSUME World, steps \in Seq(StepSet), NEW last \in Int, Sound(steps, last), last <= WeekOf(now),
         NEW t \in Int, WeekOf(t) \in Calendar,
         \A y \in Calendar : WeekOf(t) <= y /\ y <= WeekOf(now) => HeldIn(steps, y),
         WeekOf(t) <= WeekOf(now)
  PROVE  ToServer(t) = t + offset[WeekOf(t)]
<1> DEFINE w == WeekOf(t)
           S == {i \in DOMAIN steps : steps[i].at <= t + steps[i].minutes}
<1>1. PICK i \in DOMAIN steps :
        /\ steps[i].minutes = offset[w] /\ steps[i].at <= Label(Opening(w))
        /\ \A j \in DOMAIN steps : i < j => Opening(w + 1) <= steps[j].at
  <2>1. w \in Calendar /\ w <= w
    BY MomentInWeek
  <2>2. HeldIn(steps, w)
    BY <2>1
  <2> QED
    BY <2>2 DEF HeldIn
<1>2. DOMAIN steps = 1 .. Len(steps) /\ Len(steps) \in Nat /\ \A j \in DOMAIN steps : steps[j].at \in Int
  <2>1. \A j \in DOMAIN steps : steps[j] \in StepSet
    OBVIOUS
  <2> QED
    BY <2>1 DEF StepSet
<1>3. /\ w \in Calendar /\ w \in Nat /\ offset[w] \in Nat /\ Opening(w) \in Nat
      /\ Opening(w + 1) = Opening(w) + Week /\ Week \in Nat
  BY WeekNumbers
<1>4. Label(Opening(w)) = Opening(w) + offset[w] /\ Label(Opening(w)) < Opening(w) + Week
  BY <1>3, WeekNumbers
<1>5. Opening(w) <= t /\ t < Opening(w) + Week
  BY MomentInWeek
<1>6. i \in S
  BY <1>1, <1>2, <1>3, <1>4, <1>5
<1>7. ASSUME NEW j \in S, i < j
      PROVE  FALSE
  <2>1. j \in DOMAIN steps /\ steps[j].at <= t + steps[j].minutes /\ Opening(w + 1) <= steps[j].at
    BY <1>1, <1>7
  <2>2. PICK y \in Calendar : y <= last /\ steps[j].at = Label(Opening(y))
    BY <2>1 DEF Sound, Dated
  <2>3. y \in Nat /\ Label(Opening(y)) \in Nat /\ Label(Opening(y)) = Opening(y) + offset[y] /\ Opening(y) \in Nat
        /\ Label(Opening(y)) < Opening(y) + Week /\ offset[y] \in Nat /\ Opening(y + 1) = Opening(y) + Week
    BY <2>2, WeekNumbers
  <2>4. w < y
    <3>1. y <= w => Label(Opening(y)) <= Label(Opening(w))
      BY <1>3, <2>2, OpeningLabels
    <3>2. Opening(w) + Week <= Label(Opening(y))
      BY <1>3, <2>1, <2>2
    <3>3. Label(Opening(w)) \in Nat /\ Label(Opening(w)) < Opening(w) + Week
      BY <1>3, WeekNumbers
    <3>4. ~(Label(Opening(y)) <= Label(Opening(w)))
      <4> DEFINE ly == Label(Opening(y))
                 lw == Label(Opening(w))
                 ow == Opening(w)
      <4>1. /\ ly \in Nat /\ lw \in Nat /\ ow \in Nat /\ Week \in Nat
            /\ ow + Week <= ly /\ lw < ow + Week
        BY <1>3, <2>3, <3>2, <3>3
      <4> HIDE DEF ly, lw, ow
      <4>2. ~(ly <= lw)
        BY <4>1
      <4> QED
        BY <4>2 DEF ly, lw
    <3> QED
      BY <3>1, <3>4, <1>3, <2>3
  <2>5. HeldIn(steps, y)
    <3>1. WeekOf(now) \in Nat
      BY WeekTypes DEF World
    <3>2. w <= y /\ y <= WeekOf(now)
      BY <2>2, <2>3, <2>4, <1>3, <3>1
    <3> QED
      BY <3>2, <2>2
  <2>6. PICK k \in DOMAIN steps :
          /\ steps[k].minutes = offset[y] /\ steps[k].at <= Label(Opening(y))
          /\ \A m \in DOMAIN steps : k < m => Opening(y + 1) <= steps[m].at
    BY <2>5 DEF HeldIn
  <2>7. ~(j < k)
    <3>1. j < k => steps[j].at < steps[k].at
      BY <2>1, <2>6 DEF Sound
    <3> QED
      BY <3>1, <1>2, <2>1, <2>2, <2>3, <2>6
  <2>8. ~(k < j)
    <3>1. k < j => Opening(y + 1) <= steps[j].at
      BY <2>1, <2>6
    <3>2. steps[j].at < Opening(y + 1)
      BY <2>2, <2>3
    <3>3. steps[j].at \in Int /\ Opening(y + 1) \in Int
      BY <1>2, <1>3, <2>1, <2>3
    <3> QED
      BY <3>1, <3>2, <3>3
  <2>9. j = k
    BY <1>2, <2>1, <2>6, <2>7, <2>8
  <2>10. Opening(y) + offset[y] <= t + offset[y]
    BY <2>1, <2>2, <2>3, <2>6, <2>9
  <2>11. Opening(w) + Week <= Opening(y)
    BY <1>3, <2>3, <2>4, OpeningsGrow
  <2> QED
    BY <2>3, <2>10, <2>11, <1>3, <1>5
<1>8. S \in SUBSET Int /\ \A j \in S : j <= i
  BY <1>2, <1>7
<1>9. ToServer(t) = t + (IF S = {} THEN steps[1].minutes ELSE LastStep(S).minutes)
  BY DEF ToServer
<1> HIDE DEF S
<1>10. Latest(S) = i
  BY <1>6, <1>8, LatestIs
<1> QED
  BY <1>1, <1>6, <1>9, <1>10 DEF LastStep

LEMMA WindowIsWhole ==
  ASSUME World, CloseSeasons, steps \in Seq(StepSet),
         NEW last \in Int, Sound(steps, last), last <= WeekOf(now),
         NEW start \in Nat, start < now, Hour(start) + MaxSwitch <= Week,
         \A y \in Calendar : WeekOf(start) <= y /\ y <= WeekOf(now) => HeldIn(steps, y)
  PROVE  CopyRates(start, now) = {u \in start .. now - 1 : Quoted(u)}
<1> DEFINE a == WeekOf(start)
           b == WeekOf(now)
<1>1. /\ now \in Nat /\ b \in Calendar /\ b \in Nat /\ Week \in Nat /\ Week > 0 /\ MaxSwitch \in Nat
      /\ Opening(b) \in Nat /\ Opening(b) <= now
  <2>1. now \in Nat /\ b \in Calendar /\ b \in Nat /\ Opening(b) \in Nat
    BY WeekTypes DEF World
  <2>2. now = Opening(b) + Hour(now) /\ Hour(now) \in 0 .. Week - 1
    BY <2>1, HoursOfWeek
  <2> QED
    BY <2>1, <2>2, Numbers
<1>2. ASSUME NEW x \in Nat, NEW z \in Nat, x <= z
      PROVE  WeekOf(x) <= WeekOf(z) /\ WeekOf(x) \in Nat /\ WeekOf(z) \in Nat
  <2>0. x \in Int /\ z \in Int
    BY <1>2
  <2>1. /\ WeekOf(x) \in Int /\ WeekOf(z) \in Int
        /\ Opening(WeekOf(x)) \in Int /\ Opening(WeekOf(z)) \in Int
        /\ Opening(WeekOf(x)) <= x /\ x < Opening(WeekOf(x)) + Week
        /\ Opening(WeekOf(z)) <= z /\ z < Opening(WeekOf(z)) + Week
    BY <2>0, MomentInWeek
  <2>2. WeekOf(z) < WeekOf(x) => Opening(WeekOf(z)) + Week <= Opening(WeekOf(x))
    BY <2>1, OpeningsGrow
  <2>3. WeekOf(x) < 0 => Opening(WeekOf(x)) + Week <= Opening(0)
    BY <2>1, OpeningsGrow
  <2>4. WeekOf(z) < 0 => Opening(WeekOf(z)) + Week <= Opening(0)
    BY <2>1, OpeningsGrow
  <2>5. Opening(0) = 0
    BY ZeroBegins
  <2> QED
    BY <2>1, <2>2, <2>3, <2>4, <2>5, <1>1, <1>2
<1>3. a \in Nat /\ a <= b /\ a \in Calendar
  <2>1. a \in Nat /\ a <= b
    BY <1>1, <1>2
  <2> QED
    BY <2>1, <1>1, Numbers DEF Calendar
<1>4. /\ start = Opening(a) + Hour(start) /\ Hour(start) \in Nat /\ Opening(a) \in Nat /\ offset[a] \in Nat
      /\ Opening(a) <= start /\ start < Opening(a) + Week
  <2>1. start = Opening(a) + Hour(start) /\ Hour(start) \in 0 .. Week - 1
    BY HoursOfWeek
  <2> QED
    BY <2>1, <1>1, <1>3, WeekTypes
<1>5. ToServer(start) = start + offset[a]
  BY <1>3, ToServerIs
<1>6. ToServer(now) = now + offset[b] /\ offset[b] \in Nat
  <2>1. \A y \in Calendar : b <= y /\ y <= b => HeldIn(steps, y)
    <3>1. SUFFICES ASSUME NEW y \in Calendar, b <= y, y <= b
                   PROVE  HeldIn(steps, y)
      OBVIOUS
    <3>2. y \in Nat
      BY WeekNumbers
    <3> QED
      BY <3>1, <3>2, <1>1, <1>3
  <2>2. now \in Int /\ b <= b
    BY <1>1
  <2> QED
    BY <1>1, <2>1, <2>2, ToServerIs, WeekNumbers
<1>ends. start + offset[a] \in Int /\ now + offset[b] \in Int
  <2> DEFINE o == offset[a]
             q == offset[b]
  <2>1. o \in Nat /\ q \in Nat
    BY <1>4, <1>6
  <2> HIDE DEF o, q
  <2>2. start + o \in Int /\ now + q \in Int
    BY <1>1, <2>1
  <2> QED
    BY <2>2 DEF o, q
<1>7. \A x \in Nat : x <= now /\ start <= x => WeekOf(x) \in Calendar /\ HeldIn(steps, WeekOf(x))
  <2>1. SUFFICES ASSUME NEW x \in Nat, x <= now, start <= x
                 PROVE  WeekOf(x) \in Calendar /\ HeldIn(steps, WeekOf(x))
    OBVIOUS
  <2>2. a <= WeekOf(x) /\ WeekOf(x) <= b /\ WeekOf(x) \in Nat
    BY <1>1, <1>2, <2>1
  <2>3. WeekOf(x) \in Calendar
    BY <1>1, <2>2, Numbers DEF Calendar
  <2> QED
    BY <2>2, <2>3
<1>8. steps # <<>>
  BY <1>1, <1>3 DEF HeldIn
<1>9. CopyRates(start, now)
      = {u \in {ToUtc(l) : l \in Bars(0) \cap (start + offset[a] .. now + offset[b])} : start <= u /\ u < now}
  BY <1>5, <1>6, <1>8 DEF CopyRates
\* What was quoted in the window is asked for.
<1>10. ASSUME NEW u \in start .. now - 1, Quoted(u)
       PROVE  u \in CopyRates(start, now)
  <2> DEFINE x == WeekOf(u)
  <2>1. u \in Nat /\ start <= u /\ u < now /\ u <= now
    BY <1>1
  <2>2. x \in Calendar /\ HeldIn(steps, x) /\ x \in Nat /\ a <= x /\ x <= b
    BY <1>1, <1>2, <1>7, <2>1
  <2>3. /\ Label(u) = u + offset[x] /\ Label(u) \in Nat /\ Opening(x) <= Label(u) /\ Label(u) < Opening(x) + Week
        /\ offset[x] \in Nat /\ Opening(x) \in Nat
    BY <2>1, <2>2, <1>10, LabelInWeek, WeekTypes
  <2>4. Label(u) \in Bars(0)
    <3>1. Opening(0) = 0
      BY ZeroBegins
    <3>2. u \in Opening(0) .. now - 1
      BY <3>1, <2>1, <1>1
    <3> QED
      BY <3>2, <1>10 DEF Bars
  <2>5. start + offset[a] <= Label(u)
    <3>1. CASE x = a
      BY <3>1, <2>1, <2>3, <1>4
    <3>2. CASE a < x
      <4>1. Opening(a) + Week <= Opening(x)
        BY <3>2, <1>3, <2>2, OpeningsGrow
      <4>2. Opening(x) <= u
        <5>1. u = Opening(x) + Hour(u) /\ Hour(u) \in 0 .. Week - 1
          BY <2>1, HoursOfWeek
        <5> QED
          BY <5>1, <2>3
      <4>3. Distance(offset[a], offset[x]) <= MaxSwitch
        BY <1>3, <2>2, WeekTypes DEF CloseSeasons
      <4>4. offset[a] <= offset[x] + MaxSwitch
        <5> DEFINE o == offset[a]
                   q == offset[x]
        <5>1. o \in Nat /\ q \in Nat /\ MaxSwitch \in Nat /\ Distance(o, q) <= MaxSwitch
          BY <4>3, <1>1, <1>4, <2>3
        <5> HIDE DEF o, q
        <5>2. o <= q + MaxSwitch
          BY <5>1 DEF Distance
        <5> QED
          BY <5>2 DEF o, q
      <4>5. start + MaxSwitch <= Opening(a) + Week
        BY <1>1, <1>4
      <4> DEFINE o == offset[a]
                 q == offset[x]
      <4>6. /\ o \in Nat /\ q \in Nat /\ o <= q + MaxSwitch /\ Label(u) = u + q
            /\ Opening(x) \in Nat /\ Opening(a) \in Nat /\ MaxSwitch \in Nat /\ Week \in Nat /\ u \in Nat
        BY <4>4, <1>1, <1>4, <2>1, <2>3
      <4> HIDE DEF o, q
      <4>7. start + o <= Label(u)
        BY <4>1, <4>2, <4>5, <4>6
      <4> QED
        BY <4>7 DEF o
    <3> QED
      BY <3>1, <3>2, <2>2, <1>3
  <2>6. Label(u) <= now + offset[b]
    <3>1. offset[b] \in Nat
      BY <1>6
    <3>2. CASE x = b
      BY <3>1, <3>2, <2>1, <2>3, <1>1
    <3>3. CASE x < b
      <4>1. Opening(x) + Week <= Opening(b)
        BY <3>3, <1>1, <2>2, OpeningsGrow
      <4>2. Label(u) < now /\ Label(u) \in Nat
        BY <4>1, <2>3, <1>1
      <4> DEFINE q == offset[b]
      <4>3. q \in Nat
        BY <3>1
      <4> HIDE DEF q
      <4>4. Label(u) <= now + q
        BY <4>2, <4>3, <1>1
      <4> QED
        BY <4>4 DEF q
    <3> QED
      BY <3>2, <3>3, <2>2, <1>1
  <2>7. ToUtc(Label(u)) = u
    BY <2>1, <2>2, <1>10, HeldConverts
  <2>8. Label(u) \in Bars(0) \cap (start + offset[a] .. now + offset[b])
    BY <1>ends, <2>3, <2>4, <2>5, <2>6
  <2> HIDE DEF a, b
  <2> QED
    BY <1>9, <2>1, <2>7, <2>8
\* Nothing else is.
<1>11. ASSUME NEW u \in CopyRates(start, now)
       PROVE  u \in start .. now - 1 /\ Quoted(u)
  <2>1. PICK l \in Bars(0) \cap (start + offset[a] .. now + offset[b]) : u = ToUtc(l) /\ start <= u /\ u < now
    BY <1>9
  <2>2. PICK x \in Opening(0) .. now - 1 : Quoted(x) /\ l = Label(x)
    BY <2>1 DEF Bars
  <2>3. x \in Nat /\ x < now /\ x <= now
    BY <2>2, <1>1, ZeroBegins
  <2>4. /\ WeekOf(x) \in Calendar /\ Label(x) = x + offset[WeekOf(x)] /\ Label(x) \in Nat
        /\ Label(x) < Opening(WeekOf(x)) + Week /\ WeekOf(x) \in Nat /\ Opening(WeekOf(x)) \in Nat
    BY <2>2, <2>3, LabelInWeek, WeekTypes
  <2>5. start + offset[a] <= Label(x)
    BY <1>ends, <2>1, <2>2
  <2>6. start <= x
    <3>1. SUFFICES ASSUME x < start
                   PROVE  FALSE
      BY <2>3
    <3>2. WeekOf(x) <= a
      BY <3>1, <2>3, <1>2
    <3>3. CASE WeekOf(x) = a
      BY <3>1, <3>3, <2>3, <2>4, <2>5, <1>4
    <3>4. CASE WeekOf(x) < a
      <4>1. Opening(WeekOf(x)) + Week <= Opening(a)
        BY <3>4, <2>4, <1>3, OpeningsGrow
      <4>2. Label(x) < start /\ Label(x) \in Nat
        <5> DEFINE lx == Label(x)
                   ox == Opening(WeekOf(x))
                   oa == Opening(a)
        <5>1. /\ lx \in Nat /\ ox \in Nat /\ oa \in Nat /\ Week \in Nat
              /\ lx < ox + Week /\ ox + Week <= oa /\ oa <= start
          BY <4>1, <2>4, <1>4, <1>1
        <5> HIDE DEF lx, ox, oa
        <5>2. lx < start
          BY <5>1
        <5> QED
          BY <5>1, <5>2 DEF lx
      <4> DEFINE o == offset[a]
      <4>3. o \in Nat /\ start + o <= Label(x)
        BY <2>5, <1>4
      <4> HIDE DEF o
      <4> QED
        BY <4>2, <4>3
    <3> QED
      BY <3>2, <3>3, <3>4, <2>4, <1>3
  <2>7. HeldIn(steps, WeekOf(x))
    BY <2>3, <2>6, <1>7
  <2>8. u = x
    BY <2>1, <2>2, <2>3, <2>4, <2>7, HeldConverts
  <2> QED
    BY <2>2, <2>3, <2>6, <2>8, <1>1
<1> QED
  BY <1>10, <1>11

-----------------------------------------------------------------------------
(* The invariant *)

\* What a measurement has found stands as long as it is used.
StepsInv ==
  measured # Never /\ TickWasFresh =>
    /\ Sound(steps, WeekOf(measured.at))
    /\ \A w \in Calendar : Known(w) => HeldIn(steps, w)

ClockInv == ClockTypeInv /\ OneIsRegular /\ StepsInv /\ SweepIsWhole

\* A week known to a clock that has just been measured can be trusted, or is the tick's.
LEMMA KnownNow ==
  ASSUME World, NEW from \in Nat, Begun(from), NEW tick, NEW scanned,
         measured' = [at |-> now, from |-> from, tick |-> tick, scanned |-> scanned],
         UNCHANGED world, NEW w \in Calendar, Known(w)'
  PROVE  Trusted(from, w) \/ (w = WeekOf(now) /\ tick # Unknown)
<1>1. /\ measured'.at = now /\ measured'.from = from /\ measured'.tick = tick
      /\ offset' = offset /\ missing' = missing
  BY DEF world
<1>2. CASE Settled(w)'
  <2>1. from <= w /\ from \in Calendar
    BY <1>1, <1>2 DEF Settled, Begun
  <2>2. Read(w)' = {v \in LastSwitch(from, w) .. WeekOf(now) - 1 : ~Skipped(v) /\ now > Opening(v + 1)}
    BY <1>1 DEF Read, LastSwitch, Skipped, Switches, Distance, Opening, WeekOf
  <2>3. /\ LastSwitch(from, w) \in Nat /\ from <= LastSwitch(from, w) /\ WeekOf(now) \in Nat /\ now \in Nat
    BY <2>1, LastSwitchIs, WeekNumbers DEF World
  <2>4. Read(w)' = ReadFrom(from, w)
    <3>1. ASSUME NEW v \in Read(w)'
          PROVE  v \in ReadFrom(from, w)
      <4>1. v \in LastSwitch(from, w) .. WeekOf(now) - 1 /\ ~Skipped(v) /\ now > Opening(v + 1)
        BY <2>2, <3>1
      <4>2. v \in from .. WeekOf(now) - 1 /\ LastSwitch(from, w) <= v /\ v \in Nat
        BY <4>1, <2>3
      <4>3. Opening(v + 1) \in Nat
        BY <4>2, OpeningType
      <4> QED
        BY <4>1, <4>2, <4>3, <2>3 DEF ReadFrom, Seen, Ended
    <3>2. ASSUME NEW v \in ReadFrom(from, w)
          PROVE  v \in Read(w)'
      <4>1. v \in from .. WeekOf(now) - 1 /\ Opening(v + 1) < now /\ ~Skipped(v) /\ LastSwitch(from, w) <= v
        BY <3>2 DEF ReadFrom, Seen, Ended
      <4>2. v \in LastSwitch(from, w) .. WeekOf(now) - 1 /\ v \in Nat
        BY <4>1, <2>3
      <4>3. Opening(v + 1) \in Nat
        BY <4>2, OpeningType
      <4> QED
        BY <4>1, <4>2, <4>3, <2>2, <2>3
    <3> QED
      BY <3>1, <3>2
  <2>5. /\ Cardinality(FirstOf(ReadFrom(from, w))) = Confirmations + 1
        /\ \A v \in FirstOf(ReadFrom(from, w)) : missing[v] = 0 /\ offset[v] = offset[w]
    BY <1>1, <1>2, <2>4 DEF Settled, FirstOf
  <2>6. \E v \in w .. Weeks - 1 : ~Mistaken(v) /\ \A u \in w .. v : offset[u] = offset[w]
    BY <1>1, <1>2 DEF Settled, Mistaken, Skipped, Switches, Distance
  <2> QED
    BY <2>1, <2>5, <2>6 DEF Trusted
<1>3. CASE ~Settled(w)'
  BY <1>1, <1>3 DEF Known, WeekOf
<1> QED
  BY <1>2, <1>3

LEMMA StepsMeasured ==
  ASSUME ClockTypeInv, OneIsRegular, CloseSeasons, Measure
  PROVE  StepsInv'
<1>1. PICK from \in Starts, tick \in {TickOffset, Unknown} :
           /\ Begun(from) /\ from \in Nat /\ tick \in Int
           /\ steps' = MeasuredSteps(ScannedSteps(from), tick)
           /\ measured' = [at |-> now, from |-> from, tick |-> tick, scanned |-> ScannedSteps(from) # <<>>]
  BY MeasureIs
<1> DEFINE S == MeasuredSteps(ScannedSteps(from), tick)
<1>2. World /\ UNCHANGED world /\ offset' = offset /\ missing' = missing
  BY DEF ClockTypeInv, Measure, world
<1>3. SUFFICES ASSUME TickWasFresh'
               PROVE  /\ Sound(steps, WeekOf(measured.at))'
                      /\ \A w \in Calendar : Known(w)' => HeldIn(steps, w)'
  BY DEF StepsInv, Calendar
<1>4. Fresh(tick)
  <2>1. measured'.tick = tick /\ measured'.at = now
    BY <1>1
  <2>2. tick # Unknown => Quoted(now)
    BY <1>2, <1>3, <2>1 DEF TickWasFresh, Unknown, Quoted, WeekOf, Hour, Calendar
  <2> QED
    BY <2>2 DEF Fresh
<1>5. Sound(S, WeekOf(now))
  BY <1>1, <1>2, <1>4, MeasuredSound
<1>6. steps' = S /\ measured'.at = now
  BY <1>1
<1>7. Sound(steps, WeekOf(measured.at))' <=> Sound(S, WeekOf(now))
  <2> HIDE DEF S
  <2> QED
    BY <1>2, <1>6 DEF Sound, Dated, Label, Opening, Mistaken, Skipped, Switches, Distance, WeekOf, Calendar
<1>8. ASSUME NEW w \in Calendar, Known(w)'
      PROVE  HeldIn(steps, w)'
  <2>1. Trusted(from, w) \/ (w = WeekOf(now) /\ tick # Unknown)
    BY <1>1, <1>2, <1>8, KnownNow
  <2>2. HeldIn(S, w)
    BY <1>1, <1>2, <1>4, <2>1, MeasuredHolds
  <2> HIDE DEF S
  <2> QED
    BY <1>2, <1>6, <2>2 DEF HeldIn, Label, Opening, WeekOf
<1> QED
  BY <1>5, <1>7, <1>8

LEMMA KnownStands ==
  ASSUME UNCHANGED <<world, measured>>, NEW w
  PROVE  Known(w)' <=> Known(w)
<1>1. offset' = offset /\ missing' = missing /\ measured' = measured
  BY DEF world
<1>2. TickWasFresh' <=> TickWasFresh
  BY <1>1 DEF TickWasFresh, Quoted, WeekOf, Hour, Calendar
<1>3. Read(w)' = Read(w)
  BY <1>1 DEF Read, Skipped, Switches, Distance, Opening, WeekOf
<1>4. \A v : Mistaken(v)' <=> Mistaken(v)
  BY <1>1 DEF Mistaken, Skipped, Switches, Distance
<1>5. Settled(w)' <=> Settled(w)
  BY <1>1, <1>3, <1>4 DEF Settled
<1> QED
  BY <1>1, <1>2, <1>5 DEF Known, WeekOf

LEMMA StepsStand ==
  ASSUME StepsInv, UNCHANGED <<world, steps, measured>>
  PROVE  StepsInv'
<1>1. offset' = offset /\ missing' = missing /\ steps' = steps /\ measured' = measured
  BY DEF world
<1>2. TickWasFresh' <=> TickWasFresh
  BY <1>1 DEF TickWasFresh, Quoted, WeekOf, Hour, Calendar
<1>3. Sound(steps, WeekOf(measured.at))' <=> Sound(steps, WeekOf(measured.at))
  BY <1>1 DEF Sound, Dated, Label, Opening, Mistaken, Skipped, Switches, Distance, WeekOf, Calendar
<1>4. ASSUME NEW w \in Calendar
      PROVE  Known(w)' <=> Known(w)
  BY KnownStands
<1>5. ASSUME NEW w \in Calendar
      PROVE  HeldIn(steps, w)' <=> HeldIn(steps, w)
  BY <1>1 DEF HeldIn, Label, Opening, WeekOf
<1> QED
  BY <1>1, <1>2, <1>3, <1>4, <1>5 DEF StepsInv, Calendar

LEMMA WeeksGrow ==
  ASSUME NEW x \in Int, NEW z \in Int, x <= z
  PROVE  WeekOf(x) <= WeekOf(z)
<1>1. /\ WeekOf(x) \in Int /\ WeekOf(z) \in Int
      /\ Opening(WeekOf(x)) \in Int /\ Opening(WeekOf(z)) \in Int
      /\ Opening(WeekOf(x)) <= x /\ z < Opening(WeekOf(z)) + Week
  BY MomentInWeek
<1>2. WeekOf(z) < WeekOf(x) => Opening(WeekOf(z)) + Week <= Opening(WeekOf(x))
  BY <1>1, OpeningsGrow
<1> QED
  BY <1>1, <1>2, Numbers

LEMMA SweptWhole ==
  ASSUME ClockTypeInv, StepsInv, CloseSeasons, Sweep
  PROVE  SweepIsWhole'
<1>1. PICK start \in {now - Lookback} \cup {u \in now - Open .. now - 1 : Quoted(u)} :
        start >= 0 /\ swept' = [start |-> start, rows |-> CopyRates(start, now)]
  BY DEF Sweep
<1>2. /\ now' = now /\ UNCHANGED world /\ offset' = offset /\ missing' = missing
      /\ UNCHANGED <<world, measured>>
  BY DEF Sweep, world
<1>3. /\ World /\ steps \in Seq(StepSet) /\ now \in Nat /\ measured.at \in Int /\ measured.at <= now
      /\ WeekOf(now) \in Calendar /\ WeekOf(now) \in Nat
  BY WeekNumbers DEF ClockTypeInv, TypeOK, World, StepSet
<1>4. start \in Nat /\ start < now
  <2>1. Lookback \in Nat \ {0} /\ Open \in Nat
    BY ClockAssumption
  <2>2. start \in Int /\ start < now
    BY <1>1, <1>3, <2>1
  <2> QED
    BY <1>1, <2>2
<1>5. swept'.start = start /\ swept'.rows = CopyRates(start, now)
  BY <1>1
<1>6. SUFFICES ASSUME Hour(start) + MaxSwitch <= Week,
                      \A w \in WeekOf(start) .. WeekOf(now) : Known(w)'
               PROVE  CopyRates(start, now) = {u \in start .. now - 1 : Quoted(u)}
  <2>1. {u \in start .. now - 1 : Quoted(u)'} = {u \in start .. now - 1 : Quoted(u)}
    BY <1>2 DEF Quoted, WeekOf, Hour, Calendar
  <2> QED
    BY <1>2, <1>5, <2>1 DEF SweepIsWhole, Hour, WeekOf
<1>7. WeekOf(start) \in Int /\ WeekOf(start) <= WeekOf(now)
  <2>1. start \in Int /\ now \in Int /\ start <= now
    BY <1>3, <1>4
  <2> QED
    BY <2>1, WeeksGrow, MomentInWeek
<1>8. \A y \in Calendar : WeekOf(start) <= y /\ y <= WeekOf(now) => Known(y)
  <2>1. SUFFICES ASSUME NEW y \in Calendar, WeekOf(start) <= y, y <= WeekOf(now)
                 PROVE  Known(y)
    OBVIOUS
  <2>2. y \in Int
    BY Numbers DEF Calendar
  <2>3. y \in WeekOf(start) .. WeekOf(now)
    BY <1>3, <1>7, <2>1, <2>2
  <2> QED
    BY <1>2, <1>6, <2>3, KnownStands
<1>9. measured # Never /\ TickWasFresh
  <2>1. Known(WeekOf(now))
    BY <1>3, <1>7, <1>8
  <2> QED
    BY <2>1 DEF Known
<1>10. Sound(steps, WeekOf(measured.at)) /\ \A w \in Calendar : Known(w) => HeldIn(steps, w)
  BY <1>9 DEF StepsInv
<1>11. WeekOf(measured.at) \in Int /\ WeekOf(measured.at) <= WeekOf(now)
  <2>1. now \in Int
    BY <1>3
  <2> QED
    BY <1>3, <2>1, WeeksGrow, MomentInWeek
<1>12. \A y \in Calendar : WeekOf(start) <= y /\ y <= WeekOf(now) => HeldIn(steps, y)
  BY <1>8, <1>10
<1> QED
  BY <1>3, <1>4, <1>6, <1>10, <1>11, <1>12, WindowIsWhole

LEMMA ClockInit == Init /\ OneIsRegular => ClockInv
<1> SUFFICES ASSUME Init, OneIsRegular
             PROVE  ClockInv
  OBVIOUS
<1>1. ClockTypeInv
  BY TypeInit
<1>2. StepsInv
  BY DEF Init, StepsInv
<1>3. SweepIsWhole
  BY DEF Init, SweepIsWhole
<1> QED
  BY <1>1, <1>2, <1>3 DEF ClockInv

LEMMA ClockNext == CloseSeasons /\ ClockInv /\ [Next]_vars => ClockInv'
<1> SUFFICES ASSUME CloseSeasons, ClockInv, [Next]_vars
             PROVE  ClockInv'
  OBVIOUS
<1>1. ClockTypeInv /\ OneIsRegular /\ StepsInv /\ SweepIsWhole
  BY DEF ClockInv
<1>2. ClockTypeInv'
  BY <1>1, TypeNext
<1>3. UNCHANGED world
  BY DEF Next, Tick, Measure, Sweep, Over, vars
<1>4. OneIsRegular'
  BY <1>1, <1>3 DEF OneIsRegular, world, Skipped, Distance, Calendar
<1>5. swept' = Nothing => SweepIsWhole'
  BY DEF SweepIsWhole, Nothing
<1>6. CASE Tick
  <2>1. UNCHANGED <<steps, measured>> \/ measured' = Never
    BY <1>6 DEF Tick
  <2>2. StepsInv'
    BY <1>1, <1>3, <2>1, StepsStand DEF StepsInv, Never, Unknown
  <2> QED
    BY <1>2, <1>4, <1>5, <1>6, <2>2 DEF ClockInv, Tick
<1>7. CASE Measure
  <2>1. StepsInv'
    BY <1>1, <1>7, StepsMeasured
  <2> QED
    BY <1>2, <1>4, <1>5, <1>7, <2>1 DEF ClockInv, Measure
<1>8. CASE Sweep
  <2>1. StepsInv'
    BY <1>1, <1>8, StepsStand DEF Sweep
  <2> QED
    BY <1>1, <1>2, <1>4, <1>8, <2>1, SweptWhole DEF ClockInv
<1>9. CASE UNCHANGED vars
  <2>1. StepsInv'
    BY <1>1, <1>9, StepsStand DEF vars
  <2>2. SweepIsWhole'
    <3>1. /\ UNCHANGED <<world, measured>> /\ swept' = swept /\ now' = now
          /\ offset' = offset /\ missing' = missing
      BY <1>9 DEF vars, world
    <3>2. \A w : Known(w)' <=> Known(w)
      BY <3>1, KnownStands
    <3> QED
      BY <1>1, <3>1, <3>2 DEF SweepIsWhole, Quoted, WeekOf, Hour, Calendar, Nothing
  <2> QED
    BY <1>2, <1>4, <2>1, <2>2 DEF ClockInv
<1>10. CASE Over
  BY <1>9, <1>10 DEF Over
<1> QED
  BY <1>6, <1>7, <1>8, <1>9, <1>10 DEF Next

LEMMA KnownConverts == ClockInv => KnownWeeksConvert
<1> SUFFICES ASSUME ClockInv, NEW w \in Calendar, Known(w),
                    NEW u \in Opening(w) .. now - 1, Quoted(u), WeekOf(u) = w
             PROVE  ToUtc(Label(u)) = u
  BY DEF KnownWeeksConvert
<1>1. World /\ steps \in Seq(StepSet) /\ now \in Nat
  BY DEF ClockInv, ClockTypeInv, TypeOK, StepSet
<1>2. HeldIn(steps, w)
  BY DEF ClockInv, StepsInv, Known
<1>3. u \in Int
  BY <1>1, WeekNumbers
<1> QED
  BY <1>1, <1>2, <1>3, HeldConverts

LEMMA HolidaysOut == ClockInv => HolidaysStayOut
<1> SUFFICES ASSUME ClockInv, measured # Never, TickWasFresh
             PROVE  /\ \A i \in DOMAIN steps : \E w \in Calendar : offset[w] = steps[i].minutes
                    /\ \A i \in DOMAIN steps \ {1} : \E w \in Calendar :
                         steps[i].at = Label(Opening(w)) /\ (offset[w] = steps[i].minutes \/ Mistaken(w))
  BY DEF HolidaysStayOut
<1>1. Sound(steps, WeekOf(measured.at))
  BY DEF ClockInv, StepsInv
<1> QED
  BY <1>1 DEF Sound, Dated

LEMMA ClockInvariant ==
  ASSUME CloseSeasons
  PROVE  Spec /\ OneIsRegular => []ClockInv
<1>1. Init /\ OneIsRegular => ClockInv
  BY ClockInit
<1>2. ClockInv /\ [Next]_vars => ClockInv'
  BY ClockNext
<1> QED
  BY <1>1, <1>2, PTL DEF Spec

\* README.md:40, clock.py:258-266: whatever seasons and holidays the calendar has, as long as of the
\* weekends in a row that would confirm each other one closing was regular, the labels of every week
\* the worker can know convert to the minutes they stand for, until the clock is measured anew.
THEOREM KnownWeeks ==
  ASSUME CloseSeasons
  PROVE  Spec /\ OneIsRegular => []KnownWeeksConvert
BY ClockInvariant, KnownConverts, PTL

\* README.md:40: on every such calendar the steps of clock.py:194-211 and their pin to the tick have
\* the broker's offsets, from openings where a switch was, or seemed to be, and none from a holiday.
THEOREM HolidaysAreOut ==
  ASSUME CloseSeasons
  PROVE  Spec /\ OneIsRegular => []HolidaysStayOut
BY ClockInvariant, HolidaysOut, PTL

\* clock.py:104-113 and fetch.py: on every such calendar a request over known weeks brings what was
\* quoted in its window and nothing else, across any number of switches.
THEOREM SweepsAreWhole ==
  ASSUME CloseSeasons
  PROVE  Spec /\ OneIsRegular => []SweepIsWhole
<1>1. ClockInv => SweepIsWhole
  BY DEF ClockInv
<1> QED
  BY ClockInvariant, <1>1, PTL

\* As few holidays as confirmations leave one closing regular.
LEMMA FewHolidays ==
  ASSUME MaxHolidays <= Confirmations
  PROVE  Init => OneIsRegular
<1> SUFFICES ASSUME Init, NEW u \in Calendar, NEW v \in Calendar,
                    Cardinality({w \in u .. v : ~Skipped(w)}) > Confirmations,
                    \A w \in u .. v : missing[w] # 0
             PROVE  FALSE
  BY DEF OneIsRegular
<1> DEFINE H == {w \in Calendar : missing[w] # 0}
           G == {w \in u .. v : ~Skipped(w)}
<1>1. Cardinality(H) <= MaxHolidays
  BY DEF Init
<1>2. u \in Nat /\ v \in Nat /\ v < Weeks /\ Weeks \in Nat /\ Confirmations \in Nat /\ MaxHolidays \in Nat
  <2>1. MaxHolidays \in Nat
    BY ClockAssumption
  <2> QED
    BY <2>1, Numbers DEF Calendar
<1>3. IsFiniteSet(H)
  <2>1. IsFiniteSet(Calendar)
    BY <1>2, FS_Interval DEF Calendar
  <2>2. H \in SUBSET Calendar
    OBVIOUS
  <2> QED
    BY <2>1, <2>2, FS_Subset
<1>4. G \in SUBSET H
  BY <1>2 DEF Calendar
<1> HIDE DEF H, G
<1>5. Cardinality(G) <= Cardinality(H) /\ Cardinality(H) \in Nat /\ Cardinality(G) \in Nat
  BY <1>3, <1>4, FS_Subset, FS_CardinalityType
<1>6. Cardinality(G) > Confirmations
  BY DEF G
<1> QED
  BY <1>1, <1>2, <1>5, <1>6

\* The same from the constants alone: with no more holidays than confirmations nothing is assumed of
\* where in the calendar they lie.
THEOREM ClockIsRight ==
  ASSUME CloseSeasons, MaxHolidays <= Confirmations
  PROVE  Spec => [](KnownWeeksConvert /\ HolidaysStayOut /\ SweepIsWhole)
<1>1. Spec => OneIsRegular
  BY FewHolidays, PTL DEF Spec
<1> QED
  BY <1>1, KnownWeeks, HolidaysAreOut, SweepsAreWhole, PTL
=============================================================================
