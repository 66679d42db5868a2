--------------------------- MODULE WakeTime_proofs ---------------------------
(* Proofs about the wake-up times, for hours of any length, all settings of  *)
(* all modes and all zones: what the tracker and its unit calculate comes    *)
(* before the moments a mode asks for, and the alarm rings at such a time.   *)
EXTENDS WakeTime, WellFoundedInduction, TLAPS

------------------------------------------------------------------------------
(* Division.                                                                 *)
LEMMA Mono == ASSUME NEW d \in Nat, NEW a \in Int, NEW b \in Int, a <= b
              PROVE  a * d <= b * d
  OBVIOUS

LEMMA Divided == ASSUME NEW a \in Int, NEW d \in Nat \ {0}
                 PROVE  /\ a \div d \in Int /\ a % d \in 0 .. d - 1
                        /\ a = (a \div d) * d + (a % d)
  OBVIOUS

LEMMA DividedOnce ==
    ASSUME NEW d \in Nat \ {0}, NEW q \in Int, NEW p \in Int, NEW r \in 0 .. d - 1,
           NEW s \in 0 .. d - 1, q * d + r = p * d + s
    PROVE  q = p /\ r = s
  <1>1. CASE q < p
    BY <1>1, Mono, q + 1 <= p, (q + 1) * d = q * d + d
  <1>2. CASE p < q
    BY <1>2, Mono, p + 1 <= q, (p + 1) * d = p * d + d
  <1> QED
    BY <1>1, <1>2

LEMMA DivisionIs ==
    ASSUME NEW d \in Nat \ {0}, NEW q \in Int, NEW r \in 0 .. d - 1
    PROVE  (q * d + r) \div d = q /\ (q * d + r) % d = r
  <1>1. PICK a \in Int : a = q * d + r
    OBVIOUS
  <1>2. a \div d \in Int /\ a % d \in 0 .. d - 1 /\ a = (a \div d) * d + (a % d)
    BY Divided
  <1>3. PICK p \in Int, s \in 0 .. d - 1 : p = a \div d /\ s = a % d
    BY <1>2
  <1>4. q = p /\ r = s
    BY <1>1, <1>2, <1>3, DividedOnce
  <1> QED
    BY <1>1, <1>3, <1>4

LEMMA Minimal ==
    ASSUME NEW R, IsWellFoundedOn(R, Nat), NEW T, T \subseteq Nat, T # {}
    PROVE  \E x \in T : \A y \in T : ~ (<<y, x>> \in R)
  BY WFMin, Zenon

LEMMA Least ==
    ASSUME NEW S \in SUBSET Nat, S # {}
    PROVE  Min(S) \in S /\ Min(S) \in Nat /\ \A x \in S : Min(S) <= x
  <1> DEFINE Less == {e \in Nat \X Nat : e[1] < e[2]}
  <1>1. IsWellFoundedOn(Less, Nat)
    BY NatLessThanWellFounded, Zenon DEF OpToRel
  <1>2. \E x \in S : \A y \in S : ~ (<<y, x>> \in Less)
    <2> HIDE DEF Less
    <2>1. S \subseteq Nat
      OBVIOUS
    <2> QED
      BY <1>1, <2>1, Minimal, Zenon
  <1>3. ASSUME NEW x \in Nat, NEW y \in Nat, ~ (<<y, x>> \in Less) PROVE x <= y
    BY <1>3
  <1>4. \E x \in S : \A y \in S : x <= y
    <2> HIDE DEF Less
    <2> QED
      BY <1>2, <1>3
  <1> QED
    BY <1>4 DEF Min

------------------------------------------------------------------------------
(* Days.  A local time is the r-th tick of day q.                            *)
HALF == 12 * HOUR + HOUR \div 2

LEMMA Threes == ASSUME NEW a \in Int, NEW b \in Int, a % 3 = 0
                PROVE  (b * a) % 3 = 0 /\ (a * b) % 3 = 0
  <1>1. PICK k \in Int : a = k * 3
    BY Divided, 3 \in Nat \ {0}
  <1>2. b * a = (b * k) * 3 + 0 /\ a * b = (b * k) * 3 + 0
    BY <1>1
  <1>3. ((b * k) * 3 + 0) % 3 = 0
    BY DivisionIs, b * k \in Int, 3 \in Nat \ {0}, 0 \in 0 .. 3 - 1
  <1> QED
    BY <1>2, <1>3

LEMMA Lengths ==
    /\ MINUTE = 3 /\ NEED_SLEEP_TIME = 9 /\ FAR = 13 /\ WEEK = 7 * DAY
    /\ HOUR \in Nat \ {0} /\ HOUR % 3 = 0 /\ HOUR >= 6 /\ DAY = 24 * HOUR
    /\ DAY \in Nat \ {0} /\ DAY % 3 = 0 /\ DAY >= 144
    /\ HALF \in 72 .. DAY - 1 /\ HALF % 3 = 0 /\ 12 * HOUR \in Int /\ HOUR \div 2 \in Int
    /\ First > 176 * HOUR /\ First \in Nat /\ HANDSHAKE \in 0 .. 2
    /\ RepGap \in Nat \ {0} /\ RepGap % 3 = 0
  BY TimeAssumption DEF MINUTE, NEED_SLEEP_TIME, FAR, WEEK, DAY, HALF

LEMMA ZoneIs ==
    ASSUME NEW z \in Zones
    PROVE  /\ Offset(z) \in Int /\ Offset(z) % 3 = 0
           /\ UnitOffset(z) \in Int /\ UnitOffset(z) % 3 = 0
           /\ Offset(z) - UnitOffset(z) >= -(152 * HOUR)
  <1>1. z.hours \in 0 .. 12 /\ z.west \in BOOLEAN
    BY TimeAssumption
  <1>2. PICK h \in 0 .. 12 : h = z.hours
    BY <1>1
  <1>3. /\ h * HOUR \in Int /\ (h * HOUR) % 3 = 0 /\ 0 <= h * HOUR /\ h * HOUR <= 12 * HOUR
    BY Lengths, Threes, Mono
  <1>4. (h + 128) * HOUR = h * HOUR + 128 * HOUR
    BY Lengths
  <1>5. (h + 0) * HOUR = h * HOUR
    BY Lengths
  <1> QED
    <2>1. Offset(z) = IF z.west THEN -(h * HOUR) ELSE h * HOUR
      BY <1>2 DEF Offset
    <2>2. UnitOffset(z) \in {-(h * HOUR), h * HOUR, h * HOUR + 128 * HOUR}
      BY <1>2, <1>4, <1>5, Zenon DEF UnitOffset
    <2>3. PICK a \in Int : a = h * HOUR /\ a % 3 = 0 /\ 0 <= a /\ a <= 12 * HOUR
      BY <1>3
    <2>4. PICK b \in Int : b = 128 * HOUR /\ b % 3 = 0
      BY Lengths
    <2>5. Offset(z) \in {-a, a} /\ UnitOffset(z) \in {-a, a, a + b}
      BY <2>1, <2>2, <2>3, <2>4
    <2> QED
      BY <2>3, <2>4, <2>5, Lengths

LEMMA DayOf ==
    ASSUME NEW l \in Int
    PROVE  \E q \in Int, r \in 0 .. DAY - 1 : l = q * DAY + r
  <1>1. DAY \in Nat \ {0}
    BY Lengths
  <1>2. l \div DAY \in Int /\ l % DAY \in 0 .. DAY - 1 /\ l = (l \div DAY) * DAY + (l % DAY)
    BY <1>1, Divided
  <1> QED
    BY <1>2

Dayname(q) == ((q + 3) % 7) + 1

LEMMA SameName ==
    ASSUME NEW q \in Int, NEW e \in 0 .. 6, NEW i \in 0 .. 8, Dayname(q + i) = Dayname(q + e)
    PROVE  e <= i
  <1>1. (q + i + 3) % 7 = (q + e + 3) % 7
    BY DEF Dayname
  <1>2. PICK a \in Int : a = q + i + 3 /\ q + e + 3 = a + (e - i)
    OBVIOUS
  <1>3. PICK f \in -8 .. 6 : f = e - i /\ (a + f) % 7 = a % 7
    BY <1>1, <1>2
  <1>4. f \in {-7, 0}
    BY <1>3
  <1> QED
    BY <1>3, <1>4

LEMMA DayIs ==
    ASSUME NEW q \in Int, NEW r \in 0 .. DAY - 1
    PROVE  /\ (q * DAY + r) % DAY = r /\ Midnight(q * DAY + r) = q * DAY
           /\ Weekday(q * DAY + r) = Dayname(q) /\ Dayname(q) \in 1 .. 7
           /\ q * DAY \in Int /\ (q * DAY) % 3 = 0
  <1>1. /\ (q * DAY + r) % DAY = r /\ (q * DAY + r) \div DAY = q
        /\ q * DAY \in Int /\ (q * DAY) % 3 = 0
    BY Lengths, DivisionIs, Threes
  <1>2. Midnight(q * DAY + r) = q * DAY
    BY <1>1 DEF Midnight
  <1>3. PICK u \in Int, v \in 0 .. 6 : q = u * 7 + v
    <2>1. q \div 7 \in Int /\ q % 7 \in 0 .. 7 - 1 /\ q = (q \div 7) * 7 + (q % 7)
      BY Divided, 7 \in Nat \ {0}
    <2> QED
      BY <2>1
  <1>4. PICK w \in Int : w = v * DAY + r
    BY Lengths
  <1>5. w \in 0 .. WEEK - 1 /\ w \div DAY = v
    <2>1. 0 <= v * DAY /\ v * DAY <= 6 * DAY
      BY Lengths, Mono
    <2>2. (v * DAY + r) \div DAY = v
      BY Lengths, DivisionIs
    <2> QED
      BY <1>4, <2>1, <2>2, Lengths
  <1>6. q * DAY + r = u * WEEK + w
    <2>1. q * DAY = (u * 7) * DAY + v * DAY /\ (u * 7) * DAY = u * (7 * DAY)
      BY <1>3, Lengths
    <2> QED
      BY <1>4, <2>1, Lengths
  <1>7. (q * DAY + r) % WEEK = w
    BY <1>5, <1>6, DivisionIs, Lengths
  <1>8. Weekday(q * DAY + r) = IF v + 4 > 7 THEN (v + 4) % 7 ELSE v + 4
    BY <1>5, <1>7 DEF Weekday
  <1>9. (q + 3) % 7 = (v + 3) % 7
    BY <1>3
  <1> QED
    BY <1>1, <1>2, <1>3, <1>8, <1>9 DEF Dayname

------------------------------------------------------------------------------
(* The calculation.                                                          *)
Settings == zone \in Zones /\ mode \in Modes /\ now \in Int /\ now >= First

LEMMA ErrorIs ==
    ASSUME NEW c \in Int, NEW z \in Int
    PROVE  /\ ErrorPoint(c, z) \in Int /\ ErrorPoint(c, z) > c + 72
           /\ ErrorPoint(c, z) < c + 2 * DAY
           /\ (ErrorPoint(c, z) + z) % DAY = HALF /\ (ErrorPoint(c, z) + z) % 3 = 0
  <1>1. PICK l \in Int : l = c + z
    OBVIOUS
  <1>2. PICK q \in Int, r \in 0 .. DAY - 1 : l = q * DAY + r
    BY DayOf
  <1>3. Midnight(l) = q * DAY /\ q * DAY \in Int /\ (q * DAY) % 3 = 0
    BY <1>2, DayIs
  <1>4. ErrorPoint(c, z) = Midnight(l) + DAY + HALF - z
    BY <1>1, <1>3, Lengths DEF ErrorPoint, HALF
  <1>5. (q + 1) * DAY = q * DAY + DAY
    BY Lengths
  <1>6. ErrorPoint(c, z) \in Int /\ ErrorPoint(c, z) + z = (q + 1) * DAY + HALF
    BY <1>3, <1>4, <1>5, Lengths
  <1>7. (ErrorPoint(c, z) + z) % DAY = HALF
    <2>1. HALF \in 0 .. DAY - 1 /\ q + 1 \in Int
      BY Lengths
    <2> QED
      BY <1>6, <2>1, DayIs
  <1>8. (ErrorPoint(c, z) + z) % 3 = 0
    BY <1>3, <1>5, <1>6, Lengths
  <1>9. ErrorPoint(c, z) = q * DAY + DAY + HALF - z
    BY <1>3, <1>4
  <1> QED
    BY <1>1, <1>2, <1>3, <1>6, <1>7, <1>8, <1>9, Lengths

LEMMA ErrorMoves ==
    ASSUME NEW c \in Int, NEW z \in Int, NEW d \in Int, NEW y \in Int, c + z = d + y
    PROVE  ErrorPoint(d, y) = ErrorPoint(c, z) + z - y
  <1>1. PICK l \in Int : l = c + z /\ l = d + y
    OBVIOUS
  <1>2. PICK q \in Int, r \in 0 .. DAY - 1 : l = q * DAY + r
    BY DayOf
  <1>3. PICK m \in Int : m = Midnight(l)
    BY <1>2, DayIs
  <1> QED
    BY <1>1, <1>3, Lengths DEF ErrorPoint

Ahead(l, p) == IF p < (l % DAY) + NEED_SLEEP_TIME THEN p + DAY ELSE p

LEMMA ClockIs ==
    ASSUME NEW c \in Int, NEW z \in Int, mode.points \subseteq TimesOfDay, mode.points # {}
    PROVE  /\ ClockPoint(c, z) \in Int /\ ClockPoint(c, z) > c
           /\ (ClockPoint(c, z) + z) % 3 = 0 /\ (ClockPoint(c, z) + z) % DAY \in mode.points
           /\ \A x \in Int : x >= c + 9 /\ (x + z) % DAY \in mode.points => ClockPoint(c, z) <= x
  <1>1. PICK l \in Int : l = c + z
    OBVIOUS
  <1>2. PICK q \in Int, r \in 0 .. DAY - 1 : l = q * DAY + r
    BY DayOf
  <1>3. Midnight(l) = q * DAY /\ q * DAY \in Int /\ (q * DAY) % 3 = 0 /\ l % DAY = r
    BY <1>2, DayIs
  <1>4. PICK S : S = {Ahead(l, p) : p \in mode.points}
    OBVIOUS
  <1>5. ASSUME NEW p \in mode.points
        PROVE  /\ p \in 0 .. DAY - 1 /\ p % 3 = 0
               /\ Ahead(l, p) = IF p < r + 9 THEN p + DAY ELSE p
    BY <1>3, <1>5, Lengths DEF Ahead, TimesOfDay
  <1>6. S \in SUBSET Nat /\ S # {}
    <2>1. \A p \in mode.points : Ahead(l, p) \in Nat
      BY <1>5, Lengths
    <2> QED
      BY <1>4, <2>1
  <1>7. PICK p \in mode.points : Min(S) = Ahead(l, p) /\ \A x \in S : Ahead(l, p) <= x
    <2>1. Min(S) \in S /\ \A x \in S : Min(S) <= x
      BY <1>6, Least
    <2>2. PICK p \in mode.points : Min(S) = Ahead(l, p)
      BY <1>4, <2>1
    <2> QED
      BY <2>1, <2>2
  <1>8. ClockPoint(c, z) = Midnight(l) + Min(S) - z
    BY <1>1, <1>4 DEF ClockPoint, Ahead
  <1>9. PICK a \in Nat : a = Min(S) /\ a = (IF p < r + 9 THEN p + DAY ELSE p)
    BY <1>5, <1>7, Lengths
  <1>10. ClockPoint(c, z) = q * DAY + a - z
    BY <1>3, <1>8, <1>9
  <1>11. a > r /\ a % 3 = 0
    BY <1>5, <1>9, Lengths
  <1>12. (ClockPoint(c, z) + z) % DAY = p
    <2>1. CASE a = p
      BY <1>3, <1>5, <1>10, <2>1, DayIs
    <2>2. CASE a = p + DAY
      <3>1. ClockPoint(c, z) + z = (q + 1) * DAY + p
        BY <1>3, <1>5, <1>10, <2>2, Lengths
      <3> QED
        BY <1>5, <3>1, DayIs, q + 1 \in Int
    <2> QED
      BY <1>9, <2>1, <2>2
  <1>13. ASSUME NEW x \in Int, x >= c + 9, (x + z) % DAY \in mode.points
         PROVE  ClockPoint(c, z) <= x
    <2>1. PICK k \in Int, s \in 0 .. DAY - 1 : x + z = k * DAY + s
      BY DayOf
    <2>2. s \in mode.points /\ k * DAY \in Int
      BY <1>13, <2>1, DayIs
    <2>3. PICK b \in Nat : b = Ahead(l, s) /\ a <= b /\ b = (IF s < r + 9 THEN s + DAY ELSE s)
      BY <1>4, <1>5, <1>7, <1>9, <2>2, Lengths
    <2>4. k * DAY + s >= q * DAY + r + 9
      BY <1>1, <1>2, <1>13, <2>1, <2>2, <1>3
    <2>5. ~(k < q)
      <3>1. ASSUME k < q PROVE FALSE
        <4>1. (k + 1) * DAY <= q * DAY /\ (k + 1) * DAY = k * DAY + DAY /\ DAY \in Nat
          BY <3>1, Mono, Lengths
        <4> QED
          BY <2>1, <2>2, <2>4, <4>1, <1>2, <1>3
      <3> QED
        BY <3>1
    <2>6. CASE k = q
      BY <1>3, <1>10, <2>1, <2>3, <2>4, <2>6
    <2>7. CASE k > q
      <3>1. (q + 1) * DAY <= k * DAY /\ (q + 1) * DAY = q * DAY + DAY
        BY <2>7, Mono, Lengths
      <3> QED
        BY <1>3, <1>10, <2>1, <2>2, <2>3, <3>1, Lengths
    <2> QED
      BY <2>5, <2>6, <2>7
  <1> QED
    <2>1. ClockPoint(c, z) \in Int /\ ClockPoint(c, z) > c
      BY <1>1, <1>2, <1>3, <1>10, <1>11
    <2>2. (ClockPoint(c, z) + z) % 3 = 0
      BY <1>3, <1>10, <1>11
    <2> QED
      BY <1>12, <1>13, <2>1, <2>2

LEMMA ClockMoves ==
    ASSUME NEW c \in Int, NEW z \in Int, NEW d \in Int, NEW y \in Int, c + z = d + y,
           mode.points \subseteq TimesOfDay, mode.points # {}
    PROVE  ClockPoint(d, y) = ClockPoint(c, z) + z - y
  <1>1. PICK l \in Int : l = c + z /\ l = d + y
    OBVIOUS
  <1>2. PICK q \in Int, r \in 0 .. DAY - 1 : l = q * DAY + r
    BY DayOf
  <1>3. l % DAY = r /\ Midnight(l) \in Int
    BY <1>2, DayIs
  <1>4. PICK S : S = {Ahead(l, p) : p \in mode.points}
    OBVIOUS
  <1>5. S \in SUBSET Nat /\ S # {}
    <2>1. \A p \in mode.points : Ahead(l, p) \in Nat
      BY <1>3, Lengths DEF Ahead, TimesOfDay
    <2> QED
      BY <1>4, <2>1
  <1>6. Min(S) \in Int
    BY <1>5, Least
  <1>7. ClockPoint(c, z) = Midnight(l) + Min(S) - z
    BY <1>1, <1>4 DEF ClockPoint, Ahead
  <1>8. ClockPoint(d, y) = Midnight(l) + Min(S) - y
    BY <1>1, <1>4 DEF ClockPoint, Ahead
  <1> QED
    BY <1>3, <1>6, <1>7, <1>8

(* No moment that is asked for lies between the time and its next.           *)
NoneBefore(c, t) ==
    \A x \in Int : x >= c + 10 /\ Asked(x) /\ ~LastRound(x) => t <= x

\* What a time is like before it may be put off, unless there is none.
Good(c, z, t) ==
    /\ t \in Int /\ t > c /\ (t > c + 3 \/ (t + z) % 3 = 0) /\ NoneBefore(c, t)
    /\ \/ mode.kind = "track"
       \/ \E m \in t .. t + 6 : Asked(m)
       \/ HasNoMoment /\ (t + z) % DAY = HALF /\ (t + z) % 3 = 0 /\ t > c + 72

LEMMA ErrorGood ==
    ASSUME NEW c \in Int, HasNoMoment, NoneBefore(c, ErrorPoint(c, Offset(zone))), Settings
    PROVE  Good(c, Offset(zone), ErrorPoint(c, Offset(zone)))
  <1>1. PICK z \in Int : z = Offset(zone)
    BY ZoneIs DEF Settings
  <1>2. PICK t \in Int : t = ErrorPoint(c, z)
    BY ErrorIs
  <1>3. t > c + 72 /\ (t + z) % DAY = HALF /\ (t + z) % 3 = 0
    BY <1>2, ErrorIs
  <1> QED
    BY <1>1, <1>2, <1>3 DEF Good

LEMMA ClockGood ==
    ASSUME NEW c \in Int, mode.kind = "clock", Settings
    PROVE  LET t == IF mode.points = {} THEN ErrorPoint(c, Offset(zone))
                    ELSE ClockPoint(c, Offset(zone))
           IN  t = ClockPoint(c, Offset(zone)) /\ Good(c, Offset(zone), t)
  <1>1. mode.points \subseteq TimesOfDay /\ Offset(zone) \in Int
    BY ModeAssumption, ZoneIs DEF IsMode, Settings
  <1>2. CASE mode.points = {}
    <2>1. ClockPoint(c, Offset(zone)) = ErrorPoint(c, Offset(zone))
      BY <1>2 DEF ClockPoint
    <2>2. HasNoMoment /\ NoneBefore(c, ErrorPoint(c, Offset(zone)))
      BY <1>2 DEF HasNoMoment, NoneBefore, Asked
    <2> QED
      BY <1>2, <2>1, <2>2, ErrorGood
  <1>3. CASE mode.points # {}
    <2>1. PICK t \in Int : t = ClockPoint(c, Offset(zone))
      BY <1>1, <1>3, ClockIs
    <2>2. /\ t > c /\ (t + Offset(zone)) % 3 = 0 /\ (t + Offset(zone)) % DAY \in mode.points
          /\ \A x \in Int : x >= c + 9 /\ (x + Offset(zone)) % DAY \in mode.points => t <= x
      BY <1>1, <1>3, <2>1, ClockIs
    <2>3. \A x \in Int : Asked(x) <=> (x + Offset(zone)) % DAY \in mode.points
      BY DEF Asked
    <2>4. NoneBefore(c, t)
      BY <2>2, <2>3 DEF NoneBefore
    <2>5. Asked(t) /\ t \in t .. t + 6
      BY <2>2, <2>3
    <2> QED
      BY <1>3, <2>1, <2>2, <2>4, <2>5 DEF Good
  <1> QED
    BY <1>2, <1>3

LEMMA TrackGood ==
    ASSUME NEW c \in Int, mode.kind = "track", Settings
    PROVE  TrackPoint(c) = 0 \/ Good(c, Offset(zone), TrackPoint(c))
  <1>1. mode.interval \in Nat
    BY ModeAssumption DEF IsMode, Settings
  <1>2. \A t : NoneBefore(c, t)
    BY DEF NoneBefore, Asked
  <1> QED
    BY <1>1, <1>2, Lengths DEF TrackPoint, Good

LEMMA PointsGood ==
    ASSUME NEW c \in Nat, mode.kind = "points", Settings
    PROVE  Good(c, Offset(zone), PointsPoint(c, Offset(zone)))
  <1>1. mode.points \subseteq Nat /\ Offset(zone) \in Int
    BY ModeAssumption, ZoneIs DEF IsMode, Settings
  <1>2. PICK ahead : ahead = {p \in mode.points : p > c + 9}
    OBVIOUS
  <1>3. \A x \in Int : Asked(x) <=> x \in mode.points
    BY DEF Asked
  <1>4. HasNoMoment
    BY DEF HasNoMoment
  <1>5. PICK all : all = ahead \union {c + WEEK + 1}
    OBVIOUS
  <1>6. PointsPoint(c, Offset(zone)) =
            IF ahead = {} \/ Min(all) > c + WEEK THEN ErrorPoint(c, Offset(zone)) ELSE Min(ahead)
    BY <1>2, <1>5, Lengths DEF PointsPoint
  <1>7. CASE ahead = {} \/ Min(all) > c + WEEK
    <2>1. ASSUME NEW x \in ahead PROVE ErrorPoint(c, Offset(zone)) <= x
      <3>1. all \in SUBSET Nat /\ all # {}
        BY <1>1, <1>2, <1>5, <2>1, Lengths
      <3>2. x \in all /\ Min(all) <= x /\ Min(all) \in Nat
        BY <1>5, <2>1, <3>1, Least
      <3>3. x > c + WEEK
        BY <1>7, <2>1, <3>1, <3>2, Lengths
      <3> QED
        <4>1. PICK z \in Int : z = Offset(zone)
          BY <1>1
        <4>2. ErrorPoint(c, z) \in Int /\ ErrorPoint(c, z) < c + 2 * DAY
          BY ErrorIs
        <4>3. x \in Nat /\ DAY \in Nat /\ WEEK = 7 * DAY
          BY <1>1, <1>2, <2>1, Lengths
        <4> QED
          BY <3>3, <4>1, <4>2, <4>3
    <2>2. NoneBefore(c, ErrorPoint(c, Offset(zone)))
      BY <1>2, <1>3, <2>1 DEF NoneBefore
    <2> QED
      BY <1>4, <1>6, <1>7, <2>2, ErrorGood
  <1>8. CASE ahead # {} /\ ~(Min(all) > c + WEEK)
    <2>1. ahead \in SUBSET Nat
      BY <1>1, <1>2
    <2>2. PICK t \in ahead : t = Min(ahead) /\ \A x \in ahead : t <= x
      BY <1>8, <2>1, Least
    <2>3. t \in Int /\ t > c + 9 /\ Asked(t) /\ t \in t .. t + 6
      BY <1>2, <1>3, <2>1, <2>2
    <2>4. NoneBefore(c, t)
      BY <1>2, <1>3, <2>2 DEF NoneBefore
    <2> QED
      BY <1>6, <1>8, <2>2, <2>3, <2>4 DEF Good
  <1> QED
    BY <1>7, <1>8

LEMMA RoundIs ==
    ASSUME NEW n \in Nat \ {0}, NEW i \in Nat \ {0}
    PROVE  \E k \in Nat \ {0} : /\ (n + i - 1) \div i = k /\ k * i >= n /\ (k - 1) * i < n
                                /\ \A j \in Int : j * i > (k - 1) * i => j >= k
  <1>1. PICK k \in Int, r \in 0 .. i - 1 : k = (n + i - 1) \div i /\ n + i - 1 = k * i + r
    BY Divided, n + i - 1 \in Int
  <1>2. k * i \in Int /\ (k - 1) * i = k * i - i
    OBVIOUS
  <1>3. k * i >= n /\ (k - 1) * i < n
    BY <1>1, <1>2
  <1>4. ASSUME NEW j \in Int, NEW l \in Int, l * i < j * i PROVE l < j
    <2>1. ~(j <= l)
      BY <1>4, Mono, j * i \in Int, l * i \in Int
    <2> QED
      BY <2>1
  <1>5. k \in Nat \ {0}
    BY <1>3, <1>4, 0 * i = 0, 0 \in Int
  <1>6. \A j \in Int : j * i > (k - 1) * i => j >= k
    BY <1>4, k - 1 \in Int
  <1> QED
    BY <1>1, <1>3, <1>5, <1>6

LEMMA LoopGood ==
    ASSUME NEW c \in Int, mode.kind = "loop", Settings
    PROVE  \/ LoopPoint(c, Offset(zone)) = 0 /\ \A t \in Int : NoneBefore(c, t)
           \/ Good(c, Offset(zone), LoopPoint(c, Offset(zone)))
  <1>1. PICK z \in Int : z = Offset(zone)
    BY ZoneIs DEF Settings
  <1>2. PICK s \in Nat, i \in Nat, p \in Nat : s = mode.start /\ i = mode.interval /\ p = mode.stop
    BY ModeAssumption DEF IsMode, Settings
  <1>3. HasNoMoment
    BY DEF HasNoMoment
  <1>4. PICK goes \in BOOLEAN : goes <=> (i > 0 /\ (p = 0 \/ c + i < p))
    OBVIOUS
  <1>5. PICK rounds : rounds = IF s >= c + 9 THEN 0 ELSE (c + 9 - s + i - 1) \div i
    OBVIOUS
  <1>6. LoopPoint(c, z) =
            IF s - c > WEEK THEN ErrorPoint(c, z)
            ELSE IF s - c > 9 THEN s - 2 * MINUTE
            ELSE IF ~goes THEN ErrorPoint(c, z)
            ELSE IF i < 6 * MINUTE THEN 0
            ELSE s + rounds * i
    BY <1>2, <1>4, <1>5, Lengths DEF LoopPoint
  <1>7. ASSUME NEW x \in Int, Asked(x)
        PROVE  /\ x >= s
               /\ x > s => i >= 18 /\ (x - s) % i = 0
    BY <1>2, <1>7, Lengths DEF Asked
  <1>8. ASSUME NEW x \in Int, ~LastRound(x) PROVE p = 0 \/ x + i < p
    BY <1>2, <1>8 DEF LastRound
  <1>9. Asked(s)
    BY <1>2 DEF Asked
  <1>10. PICK e \in Int : e = ErrorPoint(c, z) /\ e < c + 2 * DAY
    BY ErrorIs
  <1>11. WEEK = 7 * DAY /\ DAY \in Nat /\ MINUTE = 3 /\ FAR = 13
    BY Lengths
  <1>12. CASE s - c > WEEK
    <2>1. NoneBefore(c, ErrorPoint(c, z))
      BY <1>7, <1>10, <1>11, <1>12 DEF NoneBefore
    <2> QED
      BY <1>1, <1>3, <1>6, <1>12, <2>1, ErrorGood
  <1>13. CASE ~(s - c > WEEK) /\ s - c > 9
    <2>1. PICK t \in Int : t = s - 6
      OBVIOUS
    <2>2. LoopPoint(c, z) = t
      BY <1>6, <1>11, <1>13, <2>1
    <2>3. t > c + 3 /\ s \in t .. t + 6
      BY <1>13, <2>1
    <2>4. NoneBefore(c, t)
      BY <1>7, <2>1 DEF NoneBefore
    <2> QED
      BY <1>1, <1>9, <2>2, <2>3, <2>4 DEF Good
  <1>14. CASE ~(s - c > WEEK) /\ ~(s - c > 9) /\ ~goes
    <2>1. ASSUME NEW x \in Int, x >= c + 10, Asked(x), ~LastRound(x) PROVE FALSE
      BY <1>4, <1>7, <1>8, <1>14, <2>1
    <2>2. NoneBefore(c, ErrorPoint(c, z))
      BY <2>1 DEF NoneBefore
    <2> QED
      BY <1>1, <1>3, <1>6, <1>14, <2>2, ErrorGood
  <1>15. CASE ~(s - c > WEEK) /\ ~(s - c > 9) /\ goes /\ i < 18
    <2>1. ASSUME NEW x \in Int, x >= c + 10, Asked(x) PROVE FALSE
      BY <1>7, <1>15, <2>1
    <2>2. LoopPoint(c, z) = 0
      BY <1>6, <1>11, <1>15
    <2> QED
      BY <1>1, <2>1, <2>2 DEF NoneBefore
  <1>16. CASE ~(s - c > WEEK) /\ ~(s - c > 9) /\ goes /\ i >= 18
    <2>1. LoopPoint(c, z) = s + rounds * i
      BY <1>6, <1>11, <1>16
    <2>2. CASE s >= c + 9
      <3>1. LoopPoint(c, z) = s
        BY <1>5, <2>1, <2>2
      <3>2. NoneBefore(c, s)
        BY <1>7 DEF NoneBefore
      <3>3. s \in Int /\ s > c + 3 /\ s \in s .. s + 6
        BY <2>2
      <3> QED
        BY <1>1, <1>9, <3>1, <3>2, <3>3 DEF Good
    <2>3. CASE s < c + 9
      <3>1. PICK n \in Nat \ {0} : n = c + 9 - s
        BY <2>3
      <3>2. PICK k \in Nat \ {0} : /\ (n + i - 1) \div i = k /\ k * i >= n /\ (k - 1) * i < n
                                   /\ \A j \in Int : j * i > (k - 1) * i => j >= k
        BY <1>16, RoundIs
      <3>3. PICK t \in Int : t = s + k * i
        OBVIOUS
      <3>4. LoopPoint(c, z) = t
        BY <1>5, <2>1, <2>3, <3>1, <3>2, <3>3
      <3>5. k * i \in Int /\ (k - 1) * i = k * i - i
        OBVIOUS
      <3>6. t >= c + 9 /\ t - i < c + 9 /\ t > s
        BY <3>1, <3>2, <3>3, <3>5
      <3>7. Asked(t)
        <4>1. (t - s) % i = 0
          <5>1. (k * i + 0) % i = 0
            BY DivisionIs, <1>16
          <5> QED
            BY <3>3, <3>5, <5>1
        <4>2. p = 0 \/ t < p + 13
          BY <1>4, <1>16, <3>6
        <4> QED
          BY <1>2, <1>11, <1>16, <3>6, <4>1, <4>2 DEF Asked
      <3>8. ASSUME NEW x \in Int, x >= c + 10, Asked(x) PROVE t <= x
        <4>1. (x - s) % i = 0
          BY <1>7, <2>3, <3>8
        <4>2. PICK j \in Int : x - s = j * i
          BY <1>16, <4>1, Divided, x - s \in Int
        <4>3. j * i > (k - 1) * i
          BY <3>1, <3>2, <3>8, <4>2
        <4>4. k * i <= j * i
          BY <3>2, <4>3, Mono
        <4> QED
          BY <3>3, <3>5, <4>2, <4>4
      <3>9. NoneBefore(c, t)
        BY <3>8 DEF NoneBefore
      <3> QED
        BY <1>1, <3>4, <3>6, <3>7, <3>9, t \in t .. t + 6 DEF Good
    <2> QED
      BY <2>2, <2>3
  <1> QED
    BY <1>12, <1>13, <1>14, <1>15, <1>16

------------------------------------------------------------------------------
(* Weekdays.                                                                 *)
Week == mode.kind = "week" /\ mode.days \subseteq 1 .. 7 /\ mode.days # {}
        /\ mode.point \in TimesOfDay

Over(q, r, d) == Dayname(q) > d \/ (Dayname(q) = d /\ mode.point < r + NEED_SLEEP_TIME)
Later(q, r, d) == IF Over(q, r, d) THEN d + 7 ELSE d

LEMMA LaterIs ==
    ASSUME NEW q \in Int, NEW r \in Int, NEW d \in 1 .. 7, Week
    PROVE  /\ Later(q, r, d) - Dayname(q) \in 0 .. 7
           /\ Dayname(q + (Later(q, r, d) - Dayname(q))) = d
           /\ d = IF Later(q, r, d) > 7 THEN Later(q, r, d) - 7 ELSE Later(q, r, d)
           /\ Later(q, r, d) = Dayname(q) => mode.point >= r + 9
           /\ \A k \in Nat : Dayname(q + k) = d /\ (k = 0 => mode.point >= r + 9)
                             => Later(q, r, d) - Dayname(q) <= k
  <1>1. mode.point \in Int /\ NEED_SLEEP_TIME = 9
    BY Lengths DEF Week, TimesOfDay
  <1>2. PICK o \in BOOLEAN : o <=> Over(q, r, d)
    OBVIOUS
  <1>3. PICK n \in 1 .. 7 : n = Dayname(q) /\ n = ((q + 3) % 7) + 1
    BY DEF Dayname
  <1>4. o <=> (n > d \/ (n = d /\ mode.point < r + 9))
    BY <1>1, <1>2, <1>3 DEF Over
  <1>5. Later(q, r, d) = IF o THEN d + 7 ELSE d
    BY <1>2 DEF Later
  <1>6. CASE o
    <2>1. d <= n /\ Later(q, r, d) = d + 7
      BY <1>1, <1>4, <1>5, <1>6
    <2>2. ((q + (d + 7 - n) + 3) % 7) + 1 = d
      BY <1>3, <2>1
    <2>3. ASSUME NEW k \in Nat, Dayname(q + k) = d, k = 0 => mode.point >= r + 9
          PROVE  d + 7 - n <= k
      <3>1. ((q + k + 3) % 7) + 1 = d
        BY <2>3 DEF Dayname
      <3>2. k # 0 \/ d # n
        BY <1>1, <1>4, <1>6, <2>3
      <3> QED
        BY <1>3, <2>1, <3>1, <3>2
    <2> QED
      BY <1>3, <2>1, <2>2, <2>3 DEF Dayname
  <1>7. CASE ~o
    <2>1. d >= n /\ Later(q, r, d) = d /\ (d = n => mode.point >= r + 9)
      BY <1>1, <1>4, <1>5, <1>7
    <2>2. ((q + (d - n) + 3) % 7) + 1 = d
      BY <1>3, <2>1
    <2>3. ASSUME NEW k \in Nat, Dayname(q + k) = d PROVE d - n <= k
      <3>1. ((q + k + 3) % 7) + 1 = d
        BY <2>3 DEF Dayname
      <3> QED
        BY <1>3, <2>1, <3>1
    <2> QED
      BY <1>3, <2>1, <2>2, <2>3 DEF Dayname
  <1> QED
    BY <1>6, <1>7

LEMMA WeekDayIs ==
    ASSUME NEW c \in Int, NEW z \in Int, NEW q \in Int, NEW r \in 0 .. DAY - 1,
           c + z = q * DAY + r, Week
    PROVE  /\ WeekDay(c, z) \in mode.days
           /\ \E j \in 0 .. 7 :
                  /\ WeekDay(c, z) = Dayname(q + j) /\ (j = 0 => mode.point >= r + 9)
                  /\ \A k \in Nat : Dayname(q + k) \in mode.days
                                    /\ (k = 0 => mode.point >= r + 9) => j <= k
  <1>1. PICK l \in Int : l = c + z
    OBVIOUS
  <1>2. Weekday(l) = Dayname(q) /\ l % DAY = r /\ Dayname(q) \in 1 .. 7
    BY <1>1, DayIs
  <1>3. PICK S : S = {Later(q, r, d) : d \in mode.days}
    OBVIOUS
  <1>4. WeekDay(c, z) = IF Min(S) > 7 THEN Min(S) - 7 ELSE Min(S)
    BY <1>1, <1>2, <1>3 DEF WeekDay, Later, Over, Week
  <1>5. S \in SUBSET Nat /\ S # {}
    <2>1. \A d \in mode.days : d \in 1 .. 7
      BY DEF Week
    <2>2. \A d \in mode.days : Later(q, r, d) \in Nat
      BY <2>1 DEF Later
    <2>3. mode.days # {}
      BY DEF Week
    <2> QED
      BY <1>3, <2>2, <2>3
  <1>6. Min(S) \in S /\ \A x \in S : Min(S) <= x
    BY <1>5, Least
  <1>7. PICK d \in mode.days : Min(S) = Later(q, r, d)
    BY <1>3, <1>6
  <1>8. d \in 1 .. 7
    BY DEF Week
  <1>9. PICK j \in 0 .. 7 : j = Later(q, r, d) - Dayname(q)
    BY <1>8, LaterIs
  <1>10. WeekDay(c, z) = d /\ d = Dayname(q + j) /\ (j = 0 => mode.point >= r + 9)
    <2>1. /\ Dayname(q + (Later(q, r, d) - Dayname(q))) = d
          /\ d = IF Later(q, r, d) > 7 THEN Later(q, r, d) - 7 ELSE Later(q, r, d)
          /\ Later(q, r, d) = Dayname(q) => mode.point >= r + 9
      BY <1>8, LaterIs
    <2>2. Later(q, r, d) \in Int
      BY <1>8 DEF Later
    <2> QED
      BY <1>2, <1>4, <1>7, <1>9, <2>1, <2>2
  <1>11. ASSUME NEW k \in Nat, Dayname(q + k) \in mode.days, k = 0 => mode.point >= r + 9
         PROVE  j <= k
    <2>1. PICK b \in mode.days : b = Dayname(q + k)
      BY <1>11
    <2>2. b \in 1 .. 7
      BY DEF Week
    <2>3. Later(q, r, b) - Dayname(q) <= k
      BY <1>11, <2>1, <2>2, LaterIs
    <2>4. Later(q, r, b) \in Int
      BY <2>2 DEF Later
    <2>5. Later(q, r, d) <= Later(q, r, b) /\ Later(q, r, d) \in Int
      BY <1>3, <1>6, <1>7, <1>8 DEF Later
    <2> QED
      BY <1>2, <1>9, <2>3, <2>5, <2>4
  <1> QED
    BY <1>10, <1>11

LEMMA WeekPointIs ==
    ASSUME NEW c \in Int, NEW z \in Int, NEW q \in Int, Week, NEW day \in 1 .. 7,
           Weekday(c + z) = Dayname(q), Midnight(c + z) = q * DAY
    PROVE  \E e \in 0 .. 6 : /\ Dayname(q + e) = day
                             /\ WeekPoint(c, z, day) + z = (q + e) * DAY + mode.point
                             /\ WeekPoint(c, z, day) \in Int
  <1>1. PICK l \in Int : l = c + z
    OBVIOUS
  <1>2. /\ Weekday(l) = Dayname(q) /\ Midnight(l) = q * DAY /\ Dayname(q) \in 1 .. 7
        /\ q * DAY \in Int
    BY <1>1, Lengths DEF Dayname
  <1>3. PICK e \in Int : e = IF day < Dayname(q) THEN day + 7 - Dayname(q) ELSE day - Dayname(q)
    BY <1>2
  <1>4. e \in 0 .. 6 /\ Dayname(q + e) = day
    BY <1>2, <1>3 DEF Dayname
  <1>5. WeekPoint(c, z, day) = q * DAY + e * DAY + mode.point - z
    BY <1>1, <1>2, <1>3 DEF WeekPoint
  <1>6. mode.point \in Int /\ DAY \in Nat
    BY Lengths DEF Week, TimesOfDay
  <1>7. (q + e) * DAY = q * DAY + e * DAY /\ e * DAY \in Int
    BY <1>6
  <1>8. PICK a \in Int, b \in Int, p \in Int : a = q * DAY /\ b = e * DAY /\ p = mode.point
    BY <1>2, <1>6, <1>7
  <1>9. WeekPoint(c, z, day) = a + b + p - z /\ (q + e) * DAY = a + b
    BY <1>5, <1>7, <1>8
  <1>10. WeekPoint(c, z, day) \in Int /\ WeekPoint(c, z, day) + z = (q + e) * DAY + mode.point
    BY <1>8, <1>9
  <1> QED
    BY <1>4, <1>10

------------------------------------------------------------------------------
(* The alarm.                                                                *)
RingsAt(s, at, day) == s >= at /\ (s - at) % DAY = 0 /\ (day = 0 \/ Weekday(s) = day)

\* It rings in time for every moment from since on, at the tick from or later.
Reaches(since, from, at, day) ==
    \A x \in Int : x >= since /\ Asked(x) /\ ~LastRound(x)
        => \E s \in Int : from <= s /\ s <= x + Offset(zone) /\ RingsAt(s, at, day)

\* A daily alarm is meant for its first day, one of a weekday for each of them.
Meant(at, day) ==
    \A s \in Int : RingsAt(s, at, day) => ForSomething(s - Offset(zone)) \/ (day = 0 /\ at < s)

LEMMA PutOffIs ==
    ASSUME NEW c \in Int, NEW t \in Int
    PROVE  /\ PutOff(c, t) \in Int /\ PutOff(c, t) \in {t, t + 3}
           /\ PutOff(c, t) # t => t >= c /\ t < c + 6
  BY Lengths DEF PutOff

LEMMA FloorIs ==
    ASSUME NEW t \in Int
    PROVE  /\ Floor(t) \in Int /\ Floor(t) <= t /\ t <= Floor(t) + 2
           /\ Floor(t) % 3 = 0 /\ (t % 3 = 0 => Floor(t) = t)
  BY Lengths DEF Floor

LEMMA RoundedIs ==
    ASSUME NEW t \in Int
    PROVE  /\ RoundedUp(t) \in Int /\ RoundedUp(t) \in {t, t + 3}
           /\ RoundedUp(t) = t => t % 3 = 0
  BY Lengths DEF RoundedUp

LEMMA FirstRing ==
    ASSUME NEW a \in Int
    PROVE  RingsAt(a, a, 0) /\ \A s \in Int : RingsAt(s, a, 0) => s = a \/ a < s
  <1>1. (0 * DAY + 0) % DAY = 0
    BY Lengths, DivisionIs, 0 \in 0 .. DAY - 1
  <1>2. (a - a) % DAY = 0
    BY <1>1, Lengths
  <1> QED
    BY <1>2 DEF RingsAt

\* A time without a weekday.
LEMMA GoodAlarm ==
    ASSUME Settings, NEW c \in Int, c = RoundedUp(now), NEW t, Good(c, Offset(zone), t),
           NEW a \in Int, a = Floor(PutOff(c, t) + Offset(zone))
    PROVE  /\ a >= Rtc + 3 /\ a <= PutOff(c, t) + Offset(zone)
           /\ Reaches(now + FAR, Rtc + 3, a, 0)
           /\ mode.kind # "track" => Meant(a, 0)
  <1>1. PICK z \in Int : z = Offset(zone) /\ z % 3 = 0
    BY ZoneIs DEF Settings
  <1>2. now \in Int /\ c \in {now, now + 3} /\ (c = now => now % 3 = 0) /\ t \in Int
    BY RoundedIs DEF Settings, Good
  <1>3. PICK p \in Int : p = PutOff(c, t) /\ p \in {t, t + 3} /\ (p # t => t >= c /\ t < c + 6)
    BY <1>2, PutOffIs
  <1>4. a = Floor(p + z) /\ a <= p + z /\ p + z <= a + 2 /\ a % 3 = 0 /\ ((p + z) % 3 = 0 => a = p + z)
    BY <1>1, <1>3, FloorIs
  <1>5. t > c /\ (t > c + 3 \/ (t + z) % 3 = 0) /\ NoneBefore(c, t)
    BY <1>1 DEF Good
  <1>6. Rtc = now + z
    BY <1>1 DEF Rtc
  <1>7. a >= Rtc + 3
    <2>1. CASE (t + z) % 3 = 0
      <3>1. a = p + z
        BY <1>1, <1>2, <1>3, <1>4, <2>1
      <3>2. CASE c = now
        BY <1>1, <1>2, <1>3, <1>5, <1>6, <2>1, <3>1, <3>2
      <3>3. CASE c = now + 3
        BY <1>2, <1>3, <1>5, <1>6, <3>1, <3>3
      <3> QED
        BY <1>2, <3>2, <3>3
    <2>2. CASE t > c + 3
      BY <1>1, <1>2, <1>3, <1>4, <1>6, <2>2
    <2> QED
      BY <1>1, <1>5, <2>1, <2>2
  <1>8. ASSUME NEW x \in Int, x >= now + FAR, Asked(x), ~LastRound(x)
        PROVE  a <= x + z
    <2>1. x >= c + 10
      BY <1>2, <1>8, Lengths
    <2>2. t <= x
      BY <1>5, <1>8, <2>1 DEF NoneBefore
    <2> QED
      BY <1>3, <1>4, <2>1, <2>2
  <1>9. Reaches(now + FAR, Rtc + 3, a, 0)
    BY <1>1, <1>7, <1>8, FirstRing DEF Reaches
  <1>10. ASSUME mode.kind # "track" PROVE ForSomething(a - z)
    <2>1. CASE \E m \in t .. t + 6 : Asked(m)
      <3>1. PICK m \in t .. t + 6 : Asked(m)
        BY <2>1
      <3>2. m \in (a - z) - 3 .. (a - z) + 3 * 3 - 1
        BY <1>2, <1>3, <1>4, <3>1
      <3> QED
        BY <3>1, <3>2, Lengths DEF ForSomething
    <2>2. CASE HasNoMoment /\ (t + z) % DAY = HALF /\ (t + z) % 3 = 0 /\ t > c + 72
      <3>1. a = t + z
        BY <1>2, <1>3, <1>4, <2>2
      <3>2. (a - z) + Offset(zone) = t + z
        BY <1>1, <1>2, <3>1
      <3> QED
        BY <2>2, <3>2 DEF ForSomething, HalfPastTwelve, HALF
    <2> QED
      BY <1>1, <1>10, <2>1, <2>2 DEF Good
  <1>11. mode.kind # "track" => Meant(a, 0)
    BY <1>1, <1>10, FirstRing DEF Meant
  <1> QED
    BY <1>1, <1>3, <1>4, <1>7, <1>9, <1>11

NoneSooner(q, r, j) ==
    \A k \in Nat : Dayname(q + k) \in mode.days /\ (k = 0 => mode.point >= r + 9) => j <= k

(* The weekday's time: day q + e, where the calculation went j days ahead.   *)
LEMMA WeekTimeIs ==
    ASSUME Settings, NEW c \in Int, NEW z \in Int, Week, NEW q \in Int, NEW r \in 0 .. DAY - 1,
           c + z = q * DAY + r, NEW day, day = WeekDay(c, z)
    PROVE  \E e \in 0 .. 6, j \in 0 .. 7 :
              /\ j = e \/ (j = 7 /\ e = 0)
              /\ day = Dayname(q + e) /\ day \in mode.days /\ day \in 1 .. 7
              /\ WeekPoint(c, z, day) + z = (q + e) * DAY + mode.point
              /\ WeekPoint(c, z, day) \in Int
              /\ j = 0 => mode.point >= r + 9
              /\ NoneSooner(q, r, j)
  <1>1. day \in 1 .. 7 /\ day = WeekDay(c, z) /\ day \in mode.days
    BY WeekDayIs DEF Week
  <1>2. PICK j \in 0 .. 7 :
            /\ day = Dayname(q + j) /\ (j = 0 => mode.point >= r + 9)
            /\ NoneSooner(q, r, j)
    <2>1. PICK j \in 0 .. 7 :
            /\ WeekDay(c, z) = Dayname(q + j) /\ (j = 0 => mode.point >= r + 9)
            /\ \A k \in Nat : Dayname(q + k) \in mode.days
                              /\ (k = 0 => mode.point >= r + 9) => j <= k
      BY WeekDayIs
    <2>2. NoneSooner(q, r, j)
      BY <2>1 DEF NoneSooner
    <2> QED
      BY <1>1, <2>1, <2>2
  <1>3. PICK e \in 0 .. 6 : /\ Dayname(q + e) = day
                            /\ WeekPoint(c, z, day) + z = (q + e) * DAY + mode.point
                            /\ WeekPoint(c, z, day) \in Int
    <2>1. Weekday(c + z) = Dayname(q) /\ Midnight(c + z) = q * DAY
      BY DayIs
    <2> QED
      BY <1>1, <2>1, WeekPointIs
  <1>4. j = e \/ (j = 7 /\ e = 0)
    <2>1. (q + j + 3) % 7 = (q + e + 3) % 7
      BY <1>2, <1>3 DEF Dayname
    <2>2. PICK a \in Int : a = q + e + 3 /\ q + j + 3 = a + (j - e)
      OBVIOUS
    <2>3. (a + (j - e)) % 7 = a % 7
      BY <2>1, <2>2
    <2>4. PICK f \in -6 .. 7 : f = j - e /\ (a + f) % 7 = a % 7
      BY <2>3
    <2>5. f \in {0, 7}
      BY <2>4
    <2> QED
      BY <2>4, <2>5
  <1> QED
    BY <1>1, <1>2, <1>3, <1>4

LEMMA AskedWeek ==
    ASSUME Settings, Week, NEW x \in Int, NEW k \in Int, NEW s \in 0 .. DAY - 1,
           x + Offset(zone) = k * DAY + s
    PROVE  Asked(x) <=> s = mode.point /\ Dayname(k) \in mode.days
  <1>1. (x + Offset(zone)) % DAY = s /\ Weekday(x + Offset(zone)) = Dayname(k)
    BY DayIs
  <1> QED
    BY <1>1 DEF Asked, Week

FarFrom(q, r, x) == x + Offset(zone) >= q * DAY + r + 9
OnDay(d, x) == x + Offset(zone) = d * DAY + mode.point /\ Dayname(d) \in mode.days

\* The days of the moments that are asked for lie j days ahead or more.
LEMMA AskedDays ==
    ASSUME Settings, Week, NEW q \in Int, NEW r \in 0 .. DAY - 1, NEW j \in Int,
           NoneSooner(q, r, j), NEW x \in Int, Asked(x), FarFrom(q, r, x)
    PROVE  \E k \in Nat : OnDay(q + k, x) /\ j <= k
  <1>1. PICK l \in Int : l = x + Offset(zone)
    BY ZoneIs DEF Settings
  <1>2. PICK d \in Int, s \in 0 .. DAY - 1 : l = d * DAY + s
    BY DayOf
  <1>3. s = mode.point /\ Dayname(d) \in mode.days
    BY <1>1, <1>2, AskedWeek
  <1>4. d * DAY \in Int /\ q * DAY \in Int /\ DAY \in Nat
    BY DayIs, Lengths
  <1>5. d * DAY + s >= q * DAY + r + 9
    BY <1>1, <1>2, <1>4 DEF FarFrom
  <1>6. ~(d < q)
    <2>1. ASSUME d < q PROVE FALSE
      <3>1. (d + 1) * DAY <= q * DAY /\ (d + 1) * DAY = d * DAY + DAY
        BY <2>1, <1>4, Mono
      <3> QED
        BY <1>4, <1>5, <3>1
    <2> QED
      BY <2>1
  <1>7. PICK k \in Nat : d = q + k
    BY <1>6, d - q \in Nat, d = q + (d - q)
  <1>8. k = 0 => mode.point >= r + 9
    BY <1>3, <1>4, <1>5, <1>7
  <1> QED
    <2>1. j <= k
      BY <1>3, <1>7, <1>8 DEF NoneSooner
    <2>2. OnDay(q + k, x)
      BY <1>1, <1>2, <1>3, <1>7 DEF OnDay
    <2> QED
      BY <2>1, <2>2

\* An alarm rings on day g if that is its weekday, and at no other time of day.
LEMMA RingsIs ==
    ASSUME NEW f \in Int, NEW g \in Int, f <= g, NEW b \in 0 .. DAY - 1,
           NEW day, day = 0 \/ Dayname(g) = day
    PROVE  RingsAt(g * DAY + b, f * DAY + b, day)
  <1>1. PICK h \in Nat : g = f + h
    BY g - f \in Nat, g = f + (g - f)
  <1>2. f * DAY \in Int /\ h * DAY \in Nat /\ g * DAY = f * DAY + h * DAY
    BY <1>1, Lengths
  <1>3. g * DAY + b >= f * DAY + b /\ (g * DAY + b) - (f * DAY + b) = h * DAY + 0
    BY <1>2
  <1>4. (h * DAY + 0) % DAY = 0
    <2>1. PICK D \in Nat \ {0} : D = DAY
      BY Lengths
    <2>2. h \in Int /\ 0 \in 0 .. D - 1
      BY <2>1
    <2>3. (h * D + 0) % D = 0
      BY <2>2, DivisionIs, Zenon
    <2> QED
      BY <2>1, <2>3
  <1>5. Weekday(g * DAY + b) = Dayname(g)
    BY DayIs
  <1> QED
    BY <1>3, <1>4, <1>5 DEF RingsAt

LEMMA RingsOnDays ==
    ASSUME NEW f \in Int, NEW b \in 0 .. DAY - 1, NEW day, NEW s \in Int,
           RingsAt(s, f * DAY + b, day)
    PROVE  \E g \in Int : f <= g /\ s = g * DAY + b /\ (day = 0 \/ Dayname(g) = day)
  <1>1. PICK a \in Int : a = f * DAY + b
    BY Lengths
  <1>2. s >= a /\ (s - a) % DAY = 0 /\ (day = 0 \/ Weekday(s) = day)
    BY <1>1 DEF RingsAt
  <1>3. PICK h \in Int : s - a = h * DAY
    BY <1>2, Divided, Lengths, s - a \in Int
  <1>4. h >= 0
    <2>1. ASSUME h < 0 PROVE FALSE
      <3>1. (h + 1) * DAY <= 0 * DAY /\ (h + 1) * DAY = h * DAY + DAY
        BY <2>1, Mono, Lengths
      <3> QED
        BY <1>2, <1>3, <3>1, Lengths
    <2> QED
      BY <2>1
  <1>5. (f + h) * DAY = f * DAY + h * DAY /\ f * DAY \in Int /\ h * DAY \in Int
    BY Lengths
  <1>6. s = (f + h) * DAY + b
    BY <1>1, <1>3, <1>5
  <1>7. Weekday(s) = Dayname(f + h)
    BY <1>6, DayIs
  <1> QED
    BY <1>2, <1>4, <1>6, <1>7

\* The time of a weekday.
LEMMA WeekAlarm ==
    ASSUME Settings, Week, NEW c \in Int, c = RoundedUp(now), NEW z \in Int, z = Offset(zone),
           NEW day, day = WeekDay(c, z), NEW a \in Int,
           a = Floor(PutOff(c, WeekPoint(c, z, day)) + z)
    PROVE  /\ day \in 1 .. 7 /\ a <= PutOff(c, WeekPoint(c, z, day)) + z
           /\ Reaches(now + FAR, Rtc + 3, a, day) /\ Meant(a, day)
  <1>1. PICK q \in Int, r \in 0 .. DAY - 1 : c + z = q * DAY + r
    BY DayOf, c + z \in Int
  <1>2. PICK e \in 0 .. 6, j \in 0 .. 7 :
              /\ j = e \/ (j = 7 /\ e = 0)
              /\ day = Dayname(q + e) /\ day \in mode.days /\ day \in 1 .. 7
              /\ WeekPoint(c, z, day) + z = (q + e) * DAY + mode.point
              /\ WeekPoint(c, z, day) \in Int
              /\ j = 0 => mode.point >= r + 9
              /\ NoneSooner(q, r, j)
    BY <1>1, WeekTimeIs
  <1>3. PICK t \in Int : t = WeekPoint(c, z, day)
    BY <1>2
  <1>4. PICK p \in 0 .. DAY - 1 : p = mode.point /\ p % 3 = 0
    BY Lengths DEF Week, TimesOfDay
  <1>5. PICK D \in Nat : D = DAY /\ D >= 144
    BY Lengths
  <1>6. PICK Q \in Int, E \in Int : Q = q * D /\ E = e * D /\ (q + e) * D = Q + E /\ E % 3 = 0 /\ Q % 3 = 0
    <2>1. q * D \in Int /\ e * D \in Int /\ (q + e) * D = q * D + e * D
      BY <1>5
    <2>2. (q * D) % 3 = 0 /\ (e * D) % 3 = 0
      BY <1>5, Lengths, Threes
    <2> QED
      BY <2>1, <2>2
  <1>7. t + z = Q + E + p /\ c + z = Q + r
    BY <1>1, <1>2, <1>3, <1>4, <1>5, <1>6
  <1>8. PICK d \in {0, 3} : /\ PutOff(c, t) = t + d /\ a = Q + E + p + d
                            /\ d = 3 => t >= c /\ t < c + 6
    <2>1. PICK d \in {0, 3} : PutOff(c, t) = t + d /\ (d = 3 => t >= c /\ t < c + 6)
      <3>1. PutOff(c, t) \in {t, t + 3} /\ (PutOff(c, t) # t => t >= c /\ t < c + 6)
        BY PutOffIs
      <3> QED
        BY <3>1
    <2>2. ((t + d) + z) % 3 = 0
      BY <1>4, <1>6, <1>7, <2>1
    <2>3. a = (t + d) + z
      BY <1>3, <2>1, <2>2, FloorIs, (t + d) + z \in Int
    <2> QED
      BY <1>7, <2>1, <2>3
  <1>9. now \in Int /\ c \in {now, now + 3} /\ (c = now => now % 3 = 0) /\ Rtc = now + z /\ z % 3 = 0
    BY RoundedIs, ZoneIs DEF Settings, Rtc
  <1>10. /\ e = 0 => E = 0
         /\ e = 1 => E = D
         /\ e >= 1 => E >= D
         /\ e >= 2 => E >= 2 * D
    <2>1. 1 * D <= e * D \/ ~(e >= 1)
      BY Mono, <1>5
    <2>2. 2 * D <= e * D \/ ~(e >= 2)
      BY Mono, <1>5
    <2> QED
      BY <1>5, <1>6, <2>1, <2>2
  <1>11. d = 3 => (e = 0 /\ j = 7) \/ (e = 1 /\ j = 1 /\ p < 6)
    BY <1>2, <1>4, <1>5, <1>7, <1>8, <1>10
  <1>12. ASSUME NEW x \in Int, x >= now + FAR, Asked(x)
         PROVE  x >= c + 10 /\ \E k \in Nat : x + z = (q + k) * DAY + p /\ j <= k
    <2>1. x >= c + 10
      BY <1>9, <1>12, Lengths
    <2>2. FarFrom(q, r, x)
      BY <1>1, <1>5, <1>6, <2>1 DEF FarFrom
    <2>3. j \in Int /\ NoneSooner(q, r, j)
      BY <1>2
    <2>4. \E k \in Nat : OnDay(q + k, x) /\ j <= k
      BY <1>12, <2>2, <2>3, AskedDays
    <2> QED
      BY <1>4, <2>1, <2>4 DEF OnDay
  <1>13. ASSUME NEW k \in Nat, j <= k
         PROVE  /\ (q + k) * DAY \in Int /\ (q + k) * DAY >= Q + E
                /\ k > e => (q + k) * DAY >= Q + E + D
                /\ j = 7 => (q + k) * DAY >= Q + 7 * D
    <2>1. e <= k /\ q + e \in Int /\ q + k \in Int /\ DAY \in Nat
      BY <1>2, <1>5, <1>13
    <2>2. (q + e) * DAY <= (q + k) * DAY /\ (q + k) * DAY \in Int
      BY <2>1, Mono
    <2>3. k > e => (q + e + 1) * DAY <= (q + k) * DAY
      BY <2>1, Mono, q + e + 1 \in Int
    <2>4. j = 7 => (q + 7) * DAY <= (q + k) * DAY
      BY <2>1, <1>13, Mono, q + 7 \in Int
    <2>5. (q + e + 1) * DAY = Q + E + D /\ (q + 7) * DAY = Q + 7 * D
      BY <1>5, <1>6
    <2> QED
      BY <1>5, <1>6, <2>2, <2>3, <2>4, <2>5
  <1>14. day # 0 /\ Offset(zone) = z /\ q + e \in Int /\ (e = 0 => Dayname(q + 7) = day)
    BY <1>2 DEF Dayname
  <1>15. CASE p + d < DAY
    <2>1. PICK b \in 0 .. DAY - 1 : b = p + d
      BY <1>5, <1>15
    <2>2. a = (q + e) * DAY + b
      BY <1>5, <1>6, <1>8, <2>1
    <2>3. RingsAt(a, a, day)
      BY <1>2, <1>14, <2>2, RingsIs
    <2>4. ASSUME NEW x \in Int, x >= now + FAR, Asked(x)
          PROVE  \E s \in Int : Rtc + 3 <= s /\ s <= x + z /\ RingsAt(s, a, day)
      <3>1. PICK k \in Nat : x >= c + 10 /\ x + z = (q + k) * DAY + p /\ j <= k
        BY <1>12, <2>4
      <3>2. PICK K \in Int : /\ K = (q + k) * DAY /\ K >= Q + E /\ (k > e => K >= Q + E + D)
                             /\ j = 7 => K >= Q + 7 * D
        BY <1>13, <3>1
      <3>3. CASE j = e
        <4>1. CASE j = 0
          BY <1>2, <1>4, <1>5, <1>8, <1>9, <1>10, <1>11, <1>7, <2>3, <3>1, <3>2, <3>3, <4>1
        <4>2. CASE j >= 1
          <5>1. t > c
            BY <1>4, <1>5, <1>7, <1>10, <3>3, <4>2
          <5>2. a >= Rtc + 3
            BY <1>4, <1>6, <1>7, <1>8, <1>9, <5>1
          <5>3. a <= x + z
            <6>1. CASE k = e
              <7>1. K = Q + E
                BY <1>5, <1>6, <3>2, <6>1
              <7> QED
                BY <1>4, <1>7, <1>8, <3>1, <3>2, <7>1
            <6>2. CASE k > e
              BY <1>4, <1>5, <1>8, <3>1, <3>2, <6>2
            <6> QED
              BY <3>1, <3>3, <6>1, <6>2
          <5> QED
            BY <2>3, <5>2, <5>3
        <4> QED
          BY <4>1, <4>2
      <3>4. CASE j = 7 /\ e = 0 /\ d = 3
        <4>1. a >= Rtc + 3 /\ a <= x + z
          BY <1>4, <1>5, <1>7, <1>8, <1>9, <1>10, <3>1, <3>2, <3>4
        <4> QED
          BY <2>3, <4>1
      <3>5. CASE j = 7 /\ e = 0 /\ d = 0
        <4>1. PICK s \in Int : s = (q + 7) * DAY + b /\ s = Q + 7 * D + p
          BY <1>5, <1>6, <2>1, <3>5
        <4>2. s >= Rtc + 3 /\ s <= x + z
          BY <1>4, <1>5, <1>7, <1>9, <3>1, <3>2, <3>5, <4>1
        <4>3. RingsAt(s, a, day)
          <5>1. q + 7 \in Int /\ q + e <= q + 7
            BY <1>2
          <5> QED
            BY <1>14, <2>2, <3>5, <4>1, <5>1, RingsIs
        <4> QED
          BY <4>1, <4>2, <4>3
      <3> QED
        BY <1>2, <3>3, <3>4, <3>5
    <2>5. ASSUME NEW s \in Int, RingsAt(s, a, day)
          PROVE  ForSomething(s - z)
      <3>1. PICK g \in Int : s = g * DAY + b /\ Dayname(g) = day
        BY <1>14, <2>2, <2>5, RingsOnDays
      <3>2. PICK u \in Int : u = s - d - z
        OBVIOUS
      <3>3. u + Offset(zone) = g * DAY + p
        <4>1. g * DAY \in Int
          BY Lengths
        <4> QED
          BY <1>14, <2>1, <3>1, <3>2, <4>1
      <3>4. Asked(u)
        BY <1>2, <1>4, <3>1, <3>3, AskedWeek
      <3>5. u \in (s - z) - 3 .. (s - z) + 3 * 3 - 1
        BY <3>2
      <3> QED
        BY <3>4, <3>5, Lengths DEF ForSomething
    <2> QED
      BY <1>2, <1>8, <1>3, <1>14, <2>4, <2>5, FloorIs DEF Reaches, Meant
  <1>16. CASE p + d >= DAY
    <2>1. d = 3 /\ p = DAY - 3 /\ e = 0 /\ j = 7 /\ E = 0
      BY <1>4, <1>5, <1>10, <1>11, <1>16, Lengths
    <2>2. 0 \in 0 .. DAY - 1 /\ q + 1 \in Int /\ q + 7 \in Int /\ q + 1 <= q + 7
      BY Lengths
    <2>3. a = (q + 1) * DAY + 0 /\ (q + 7) * DAY + 0 = Q + 7 * D
      BY <1>5, <1>6, <1>8, <2>1
    <2>4. RingsAt((q + 7) * DAY + 0, a, day)
      BY <1>14, <2>1, <2>2, <2>3, RingsIs
    <2>5. ASSUME NEW x \in Int, x >= now + FAR, Asked(x)
          PROVE  \E s \in Int : Rtc + 3 <= s /\ s <= x + z /\ RingsAt(s, a, day)
      <3>1. PICK k \in Nat : x + z = (q + k) * DAY + p /\ j <= k
        BY <1>12, <2>5
      <3>2. PICK K \in Int : K = (q + k) * DAY /\ K >= Q + 7 * D
        BY <1>13, <2>1, <3>1
      <3>3. PICK s \in Int : s = (q + 7) * DAY + 0 /\ s = Q + 7 * D
        BY <1>5, <2>3
      <3>4. Rtc + 3 <= s /\ s <= x + z
        BY <1>4, <1>5, <1>7, <1>9, <3>1, <3>2, <3>3
      <3> QED
        BY <2>4, <3>3, <3>4
    <2>6. ASSUME NEW s \in Int, RingsAt(s, a, day)
          PROVE  ForSomething(s - z)
      <3>1. PICK g \in Int : s = g * DAY + 0 /\ Dayname(g) = day
        BY <1>14, <2>2, <2>3, <2>6, RingsOnDays
      <3>2. s % DAY = 0 /\ Weekday(s) = day /\ (s - z) + Offset(zone) = s
        BY <1>14, <2>2, <3>1, DayIs
      <3>3. DayTooSoon(s - z)
        BY <1>2, <1>4, <2>1, <3>2, Lengths DEF DayTooSoon, Week
      <3> QED
        BY <3>3 DEF ForSomething
    <2> QED
      BY <1>2, <1>8, <1>3, <1>14, <2>5, <2>6, FloorIs DEF Reaches, Meant
  <1> QED
    BY <1>4, <1>15, <1>16, Lengths

------------------------------------------------------------------------------
(* The tracker's time.                                                       *)
LEMMA NothingAsked ==
    ASSUME Settings, mode.kind = "track" \/ (mode.kind # "loop" /\ mode.kind # "points" /\ HasNoMoment),
           NEW x
    PROVE  ~Asked(x)
  <1>1. mode.kind \in {"clock", "track", "week", "loop", "points"}
    BY ModeAssumption DEF IsMode, Settings
  <1> QED
    BY <1>1 DEF HasNoMoment, Asked

LEMMA PlanIs ==
    ASSUME Settings, NextPoint.at > 0, NEW a, a = Floor(NextPoint.at + Offset(zone))
    PROVE  /\ NextPoint.at \in Int /\ a \in Int /\ a <= NextPoint.at + Offset(zone)
           /\ Reaches(now + FAR, Rtc + 3, a, NextPoint.day)
           /\ mode.kind # "track" => Meant(a, NextPoint.day)
           /\ NextPoint.day = 0 => a >= Rtc + 3
  <1> DEFINE Goal == /\ NextPoint.at \in Int /\ a \in Int /\ a <= NextPoint.at + Offset(zone)
                     /\ Reaches(now + FAR, Rtc + 3, a, NextPoint.day)
                     /\ mode.kind # "track" => Meant(a, NextPoint.day)
                     /\ NextPoint.day = 0 => a >= Rtc + 3
  <1>1. PICK z \in Int : z = Offset(zone)
    BY ZoneIs DEF Settings
  <1>2. PICK c \in Nat : c = RoundedUp(now)
    BY RoundedIs, Lengths DEF Settings
  <1>3. /\ IsMode(mode)
        /\ mode.kind \in {"clock", "track", "week", "loop", "points"}
    BY ModeAssumption DEF IsMode, Settings
  <1>4. ASSUME NEW t, Good(c, z, t), NextPoint = [at |-> PutOff(c, t), day |-> 0] PROVE Goal
    <2>1. t \in Int /\ PutOff(c, t) \in Int /\ NextPoint.at = PutOff(c, t) /\ NextPoint.day = 0
      BY <1>4, PutOffIs DEF Good
    <2>2. a \in Int /\ a = Floor(PutOff(c, t) + Offset(zone))
      BY <1>1, <2>1, FloorIs
    <2>3. Good(c, Offset(zone), t)
      BY <1>1, <1>4
    <2>4. /\ a >= Rtc + 3 /\ a <= PutOff(c, t) + Offset(zone)
          /\ Reaches(now + FAR, Rtc + 3, a, 0)
          /\ mode.kind # "track" => Meant(a, 0)
      BY <1>2, <2>2, <2>3, GoodAlarm
    <2> QED
      BY <2>1, <2>2, <2>4
  <1>5. ASSUME NextPoint = [at |-> PutOff(c, 0), day |-> 0] PROVE FALSE
    BY <1>5, <1>2, Lengths DEF PutOff
  <1>6. CASE mode.kind = "clock"
    <2>1. NextPoint = [at |-> PutOff(c, ClockPoint(c, z)), day |-> 0]
      BY <1>1, <1>2, <1>6 DEF NextPoint
    <2>2. Good(c, z, ClockPoint(c, z))
      BY <1>1, <1>6, ClockGood
    <2> QED
      BY <1>4, <2>1, <2>2
  <1>7. CASE mode.kind = "track"
    <2>1. NextPoint = [at |-> PutOff(c, TrackPoint(c)), day |-> 0]
      BY <1>1, <1>2, <1>7 DEF NextPoint
    <2>2. TrackPoint(c) = 0 \/ Good(c, z, TrackPoint(c))
      BY <1>1, <1>7, TrackGood
    <2> QED
      BY <1>4, <1>5, <2>1, <2>2
  <1>8. CASE mode.kind = "loop"
    <2>1. NextPoint = [at |-> PutOff(c, LoopPoint(c, z)), day |-> 0]
      BY <1>1, <1>2, <1>8 DEF NextPoint
    <2>2. LoopPoint(c, z) = 0 \/ Good(c, z, LoopPoint(c, z))
      BY <1>1, <1>8, LoopGood
    <2> QED
      BY <1>4, <1>5, <2>1, <2>2
  <1>9. CASE mode.kind = "points"
    <2>1. NextPoint = [at |-> PutOff(c, PointsPoint(c, z)), day |-> 0]
      BY <1>1, <1>2, <1>9 DEF NextPoint
    <2>2. Good(c, z, PointsPoint(c, z))
      BY <1>1, <1>9, PointsGood
    <2> QED
      BY <1>4, <2>1, <2>2
  <1>10. CASE mode.kind = "week" /\ mode.days = {}
    <2>1. WeekDay(c, z) = 0 /\ HasNoMoment
      BY <1>10 DEF WeekDay, HasNoMoment
    <2>2. NextPoint = [at |-> PutOff(c, ErrorPoint(c, z)), day |-> 0]
      BY <1>1, <1>2, <1>10, <2>1 DEF NextPoint
    <2>3. NoneBefore(c, ErrorPoint(c, z))
      BY <1>10, <2>1, NothingAsked DEF NoneBefore
    <2>4. Good(c, z, ErrorPoint(c, z))
      BY <1>1, <2>1, <2>3, ErrorGood
    <2> QED
      BY <1>4, <2>2, <2>4
  <1>11. CASE mode.kind = "week" /\ mode.days # {}
    <2>1. PICK day : day = WeekDay(c, z)
      OBVIOUS
    <2>2. Week
      BY <1>3, <1>11 DEF IsMode, Week
    <2>3. PICK t : t = WeekPoint(c, z, day)
      OBVIOUS
    <2>4. t \in Int /\ day \in 1 .. 7
      <3>1. PICK q \in Int, r \in 0 .. DAY - 1 : c + z = q * DAY + r
        BY DayOf, c + z \in Int
      <3> QED
        BY <2>1, <2>2, <2>3, <3>1, WeekTimeIs
    <2>5. NextPoint = [at |-> PutOff(c, t), day |-> day]
      BY <1>1, <1>2, <1>11, <2>1, <2>3, <2>4 DEF NextPoint
    <2>6. PutOff(c, t) \in Int /\ a \in Int /\ a = Floor(PutOff(c, t) + z)
      BY <1>1, <2>4, <2>5, PutOffIs, FloorIs
    <2>7. /\ a <= PutOff(c, t) + z
          /\ Reaches(now + FAR, Rtc + 3, a, day) /\ Meant(a, day)
      BY <1>1, <1>2, <2>1, <2>2, <2>3, <2>6, WeekAlarm
    <2> QED
      BY <1>1, <2>4, <2>5, <2>6, <2>7
  <1> QED
    BY <1>3, <1>6, <1>7, <1>8, <1>9, <1>10, <1>11

\* A repetition of the report comes before every moment that was planned.
LEMMA RetryIs ==
    ASSUME Settings, NextPoint.at > 0, NextPoint.at >= now + RepGap, RepGap # MINUTE,
           NEW a, a = Floor(now + RepGap + Offset(zone))
    PROVE  Reaches(now + FAR, Rtc + 3, a, 0)
  <1>1. PICK z \in Int : z = Offset(zone)
    BY ZoneIs DEF Settings
  <1>2. PICK n \in Int, p \in Int : n = now + RepGap /\ p = NextPoint.at /\ n <= p /\ n >= now + 6
    BY PlanIs, Lengths DEF Settings
  <1>3. PICK b : b = Floor(NextPoint.at + Offset(zone))
    OBVIOUS
  <1>4. b \in Int /\ Reaches(now + FAR, Rtc + 3, b, NextPoint.day)
    BY <1>3, PlanIs
  <1>5. a \in Int /\ a <= b /\ a >= n + z - 2
    <2>1. PICK u \in Int, v \in Int : u = n + z /\ v = p + z /\ u <= v
      BY <1>2
    <2>2. a = Floor(u) /\ b = Floor(v)
      BY <1>1, <1>2, <1>3, <2>1
    <2> QED
      BY <2>1, <2>2, Lengths DEF Floor
  <1>6. Rtc = now + z /\ now \in Int
    BY <1>1 DEF Rtc, Settings
  <1>7. a >= Rtc + 3
    BY <1>2, <1>5, <1>6
  <1>8. ASSUME NEW x \in Int, x >= now + FAR, Asked(x), ~LastRound(x) PROVE a <= x + Offset(zone)
    <2>1. PICK s \in Int : s <= x + Offset(zone) /\ s >= b
      BY <1>4, <1>8 DEF Reaches, RingsAt
    <2> QED
      BY <1>1, <1>4, <1>5, <2>1
  <1> QED
    BY <1>5, <1>7, <1>8, FirstRing DEF Reaches

------------------------------------------------------------------------------
(* The unit's own time.                                                      *)
LEMMA PutOffMoves ==
    ASSUME NEW c \in Int, NEW t \in Int, NEW b \in Int, NEW u \in Int,
           (b - c) % 3 = 0, u - b = t - c, t > 0, u > 0
    PROVE  PutOff(b, u) = PutOff(c, t) + (b - c)
  <1>1. b % 3 = c % 3
    BY Lengths
  <1> QED
    BY <1>1, Lengths DEF PutOff

\* The unit's clock is right in local time, whatever it takes for the zone.
LEMMA Exact ==
    ASSUME Settings
    PROVE  \E c \in Nat, z \in Int, y \in Int, s \in Int :
              /\ c = RoundedUp(now) /\ z = Offset(zone) /\ y = UnitOffset(zone) /\ s = z - y
              /\ s % 3 = 0 /\ s >= -(152 * HOUR) /\ now + s > 24 * HOUR
              /\ c + s = RoundedUp(now + Offset(zone) - UnitOffset(zone)) /\ c + s \in Int
              /\ now + s = now + Offset(zone) - UnitOffset(zone)
  <1>1. PICK z \in Int, y \in Int : /\ z = Offset(zone) /\ y = UnitOffset(zone)
                                    /\ z % 3 = 0 /\ y % 3 = 0 /\ z - y >= -(152 * HOUR)
    BY ZoneIs DEF Settings
  <1>2. PICK n \in Int : n = now /\ n > 176 * HOUR
    BY Lengths DEF Settings
  <1>3. PICK c \in Nat : c = RoundedUp(n) /\ c = IF n % 3 > 0 THEN n + 3 ELSE n
    BY <1>2, Lengths DEF RoundedUp
  <1>4. PICK s \in Int : s = z - y /\ s % 3 = 0 /\ n + s = n + z - y
    BY <1>1
  <1>5. RoundedUp(n + s) = c + s
    BY <1>2, <1>3, <1>4, Lengths, (n + s) % 3 = n % 3 DEF RoundedUp
  <1>6. n + s > 24 * HOUR
    BY <1>1, <1>2, <1>4, Lengths
  <1>7. /\ c = RoundedUp(now) /\ z = Offset(zone) /\ y = UnitOffset(zone) /\ s = z - y
        /\ s % 3 = 0 /\ s >= -(152 * HOUR) /\ now + s > 24 * HOUR
        /\ c + s = RoundedUp(now + Offset(zone) - UnitOffset(zone)) /\ c + s \in Int
        /\ now + s = now + Offset(zone) - UnitOffset(zone)
    BY <1>1, <1>2, <1>3, <1>4, <1>5, <1>6
  <1> QED
    BY <1>7, Zenon

\* A time that is the tracker's, moved by s.
LEMMA OwnGood ==
    ASSUME Settings, NEW c \in Int, c = RoundedUp(now), NEW z \in Int, z = Offset(zone),
           NEW y \in Int, NEW s \in Int, s = z - y, s % 3 = 0, s >= -(152 * HOUR),
           NEW t, Good(c, z, t),
           OwnPoint = y + IF t + s = 0 THEN now + s + 5 * MINUTE ELSE PutOff(c + s, t + s)
    PROVE  Reaches(now + FAR, Rtc + 1, Floor(OwnPoint), 0)
  <1>1. t \in Int /\ t > c /\ Good(c, Offset(zone), t)
    BY DEF Good
  <1>2. c \in {now, now + 3} /\ now \in Int /\ now > 176 * HOUR
    BY RoundedIs, Lengths DEF Settings
  <1>3. t > 0 /\ t + s > 0
    BY <1>1, <1>2, Lengths
  <1>4. PICK p \in Int : p = PutOff(c, t) /\ PutOff(c + s, t + s) = p + s
    <2>1. PutOff(c, t) \in Int
      BY <1>1, PutOffIs
    <2>2. PutOff(c + s, t + s) = PutOff(c, t) + s
      <3>1. PICK b \in Int, u \in Int : b = c + s /\ u = t + s
        BY <1>1
      <3>2. (b - c) % 3 = 0 /\ u - b = t - c /\ u > 0 /\ b - c = s
        BY <1>1, <1>3, <3>1
      <3>3. PutOff(b, u) = PutOff(c, t) + (b - c)
        BY <1>1, <1>3, <3>2, PutOffMoves
      <3> QED
        BY <3>1, <3>2, <3>3
    <2> QED
      BY <2>1, <2>2
  <1>5. OwnPoint = p + z
    BY <1>3, <1>4
  <1>6. PICK a \in Int : a = Floor(OwnPoint) /\ a = Floor(PutOff(c, t) + Offset(zone))
    <2>1. PICK u \in Int : u = p + z /\ u = OwnPoint /\ u = PutOff(c, t) + Offset(zone)
      BY <1>4, <1>5
    <2> QED
      BY <2>1, FloorIs
  <1>7. Reaches(now + FAR, Rtc + 3, a, 0)
    BY <1>1, <1>6, GoodAlarm
  <1>8. Rtc \in Int
    BY <1>2, ZoneIs DEF Rtc, Settings
  <1> QED
    BY <1>6, <1>7, <1>8 DEF Reaches

\* A weekday's time, which the unit makes a daily alarm.
LEMMA OwnWeek ==
    ASSUME Settings, Week, NEW c \in Int, c = RoundedUp(now), NEW z \in Int, z = Offset(zone),
           NEW y \in Int, NEW s \in Int, s = z - y, s % 3 = 0, now + s > 24 * HOUR,
           NEW day, day = WeekDay(c + s, y),
           NEW t, t = WeekPoint(now + s, y, day)
    PROVE  /\ day \in 1 .. 7 /\ t \in Int /\ t > 0
           /\ Reaches(now + FAR, Rtc + 1, Floor(y + t), 0)
  <1>1. PICK n \in Int : n = now /\ c \in {n, n + 3} /\ Rtc = n + z
    BY RoundedIs DEF Settings, Rtc
  <1>2. PICK q \in Int, r \in 0 .. DAY - 1 : c + z = q * DAY + r
    BY DayOf, c + z \in Int
  <1>3. PICK f \in Int, g \in 0 .. DAY - 1 : n + z = f * DAY + g
    BY DayOf, n + z \in Int
  <1>4. (c + s) + y = q * DAY + r /\ c + s \in Int /\ (n + s) + y = f * DAY + g /\ n + s \in Int
    BY <1>2, <1>3
  <1>5. PICK j \in 0 .. 7 : day = Dayname(q + j) /\ NoneSooner(q, r, j) /\ day \in 1 .. 7
    <2>1. PICK k \in Int : k = c + s
      BY <1>4
    <2>2. PICK j \in 0 .. 7 :
            /\ WeekDay(k, y) = Dayname(q + j)
            /\ \A i \in Nat : Dayname(q + i) \in mode.days
                              /\ (i = 0 => mode.point >= r + 9) => j <= i
      BY <1>4, <2>1, WeekDayIs
    <2>3. NoneSooner(q, r, j)
      BY <2>2 DEF NoneSooner
    <2>4. WeekDay(k, y) \in 1 .. 7
      BY <1>4, <2>1, WeekDayIs DEF Week
    <2> QED
      BY <2>1, <2>2, <2>3, <2>4
  <1>6. PICK e \in 0 .. 6 : /\ Dayname(f + e) = day /\ t + y = (f + e) * DAY + mode.point
                            /\ t \in Int
    <2>1. PICK k \in Int : k = now + s /\ k + y = f * DAY + g
      BY <1>1, <1>4
    <2>2. Weekday(k + y) = Dayname(f) /\ Midnight(k + y) = f * DAY
      BY <2>1, DayIs
    <2>3. \E e \in 0 .. 6 : /\ Dayname(f + e) = day
                            /\ WeekPoint(k, y, day) + y = (f + e) * DAY + mode.point
                            /\ WeekPoint(k, y, day) \in Int
      BY <1>5, <2>2, WeekPointIs, ZenonT(60)
    <2> QED
      BY <2>1, <2>3
  <1>7. PICK p \in 0 .. DAY - 1 : p = mode.point /\ p % 3 = 0
    BY Lengths DEF Week, TimesOfDay
  <1>8. PICK D \in Nat : D = DAY /\ D >= 144
    BY Lengths
  <1>9. PICK A \in Int : A = (f + e) * DAY /\ A >= f * DAY /\ A % 3 = 0 /\ f * DAY \in Int
    <2>1. (f + e) * D = f * D + e * D /\ f * D \in Int /\ e * D \in Nat
      BY <1>8
    <2> QED
      BY <1>8, <2>1, Threes, Lengths, f + e \in Int
  <1>10. t > 0
    BY <1>1, <1>3, <1>6, <1>7, <1>8, <1>9, Lengths
  <1>11. Floor(y + t) = (f + e) * DAY + p
    <2>1. PICK u \in Int : u = y + t /\ u = A + p /\ u % 3 = 0
      BY <1>6, <1>7, <1>9
    <2> QED
      BY <1>9, <2>1, FloorIs
  <1>12. f + e <= q + j
    <2>1. f = q \/ q = f + 1
      <3>1. PICK Q \in Int, F \in Int : Q = q * DAY /\ F = f * DAY
        BY <1>8
      <3>2. Q + r >= F + g /\ Q + r <= F + g + 3
        BY <1>1, <1>2, <1>3, <3>1
      <3>3. ~(q < f)
        <4>1. q < f => Q + D <= F
          BY <1>8, <3>1, Mono, q + 1 \in Int, (q + 1) * D = q * D + D
        <4> QED
          BY <1>8, <3>2, <4>1
      <3>4. ~(f + 1 < q)
        <4>1. f + 1 < q => F + 2 * D <= Q
          BY <1>8, <3>1, Mono, f + 2 \in Int, (f + 2) * D = f * D + 2 * D
        <4> QED
          BY <1>8, <3>2, <4>1
      <3> QED
        BY <3>3, <3>4
    <2>2. PICK i \in 0 .. 8 : q + j = f + i
      BY <2>1
    <2>3. e <= i
      BY <1>5, <1>6, <2>2, SameName
    <2> QED
      BY <2>2, <2>3
  <1>13. ASSUME NEW x \in Int, x >= now + FAR, Asked(x)
         PROVE  Rtc + 1 <= x + z /\ RingsAt(x + z, (f + e) * DAY + p, 0)
    <2>1. x >= c + 10
      BY <1>1, <1>13, Lengths
    <2>2. FarFrom(q, r, x)
      BY <1>2, <1>8, <2>1, q * DAY \in Int DEF FarFrom
    <2>3. j \in Int /\ NoneSooner(q, r, j)
      BY <1>5
    <2>4. \E k \in Nat : OnDay(q + k, x) /\ j <= k
      BY <1>13, <2>2, <2>3, AskedDays
    <2>5. PICK k \in Nat : x + z = (q + k) * DAY + p /\ j <= k
      BY <1>7, <2>4 DEF OnDay
    <2>6. f + e <= q + k /\ f + e \in Int /\ q + k \in Int
      BY <1>12, <2>5
    <2>7. RingsAt((q + k) * DAY + p, (f + e) * DAY + p, 0)
      BY <2>6, RingsIs
    <2> QED
      BY <1>1, <2>1, <2>5, <2>7
  <1> QED
    BY <1>5, <1>6, <1>10, <1>11, <1>13 DEF Reaches

LEMMA ClockShift ==
    ASSUME NEW c \in Int, NEW z \in Int, NEW k \in Int, NEW y \in Int, c + z = k + y,
           mode.points \subseteq TimesOfDay
    PROVE  ClockPoint(k, y) = ClockPoint(c, z) + (k - c)
  <1>1. CASE mode.points = {}
    <2>1. ErrorPoint(k, y) = ErrorPoint(c, z) + z - y
      BY ErrorMoves
    <2>2. ErrorPoint(c, z) \in Int
      BY ErrorIs
    <2> QED
      BY <1>1, <2>1, <2>2 DEF ClockPoint
  <1>2. CASE mode.points # {}
    <2>1. ClockPoint(k, y) = ClockPoint(c, z) + z - y
      BY <1>2, ClockMoves
    <2>2. ClockPoint(c, z) \in Int
      BY <1>2, ClockIs
    <2> QED
      BY <2>1, <2>2
  <1> QED
    BY <1>1, <1>2

LEMMA OwnIs ==
    ASSUME Settings, mode.kind \in {"loop", "points"} => UnitOffset(zone) = Offset(zone)
    PROVE  Reaches(now + FAR, Rtc + 1, Floor(OwnPoint), 0)
  <1> DEFINE Goal == Reaches(now + FAR, Rtc + 1, Floor(OwnPoint), 0)
  <1>1. PICK c \in Nat, z \in Int, y \in Int, s \in Int :
              /\ c = RoundedUp(now) /\ z = Offset(zone) /\ y = UnitOffset(zone) /\ s = z - y
              /\ s % 3 = 0 /\ s >= -(152 * HOUR) /\ now + s > 24 * HOUR
              /\ c + s = RoundedUp(now + Offset(zone) - UnitOffset(zone)) /\ c + s \in Int
              /\ now + s = now + Offset(zone) - UnitOffset(zone)
    BY Exact
  <1>2. /\ IsMode(mode)
        /\ mode.kind \in {"clock", "track", "week", "loop", "points"}
    BY ModeAssumption DEF IsMode, Settings
  <1>3. PICK d : d = IF mode.kind = "week" THEN WeekDay(c + s, y) ELSE 0
    OBVIOUS
  <1>4. PICK t : t = OwnModePoint(now + s, c + s, y, d)
    OBVIOUS
  <1>5. OwnPoint = y + IF t = 0 THEN now + s + 5 * MINUTE
                       ELSE IF d = 0 THEN PutOff(c + s, t) ELSE t
    BY <1>1, <1>3, <1>4 DEF OwnPoint
  <1>6. ASSUME NEW u, Good(c, z, u), t = u + s, d = 0 PROVE Goal
    <2>1. OwnPoint = y + IF u + s = 0 THEN now + s + 5 * MINUTE ELSE PutOff(c + s, u + s)
      BY <1>5, <1>6
    <2> HIDE DEF Goal
    <2> QED
      BY <1>1, <1>6, <2>1, OwnGood DEF Goal
  <1>7. ASSUME \A x \in Int : x >= now + FAR => ~(Asked(x) /\ ~LastRound(x)) PROVE Goal
    BY <1>7 DEF Reaches
  <1>8. CASE mode.kind = "clock"
    <2>1. t = ClockPoint(c + s, y) /\ d = 0
      BY <1>3, <1>4, <1>8 DEF OwnModePoint
    <2>2. Good(c, z, ClockPoint(c, z))
      BY <1>1, <1>8, ClockGood
    <2>3. mode.points \subseteq TimesOfDay
      BY <1>2, <1>8 DEF IsMode
    <2>4. ClockPoint(c + s, y) = ClockPoint(c, z) + s
      BY <1>1, <2>3, ClockShift
    <2> QED
      BY <1>6, <2>1, <2>2, <2>4
  <1>9. CASE mode.kind = "track"
    BY <1>7, <1>9, NothingAsked
  <1>10. CASE mode.kind = "loop"
    <2>1. s = 0 /\ y = z /\ c + s = c
      BY <1>1, <1>10
    <2>2. t = LoopPoint(c, z) /\ d = 0
      BY <1>3, <1>4, <1>10, <2>1 DEF OwnModePoint
    <2>3. CASE LoopPoint(c, z) = 0 /\ \A u \in Int : NoneBefore(c, u)
      <3>1. ASSUME NEW x \in Int, x >= now + FAR, Asked(x), ~LastRound(x) PROVE FALSE
        <4>1. x >= c + 10 /\ x + 1 \in Int
          BY <1>1, <3>1, RoundedIs, Lengths DEF Settings
        <4>2. NoneBefore(c, x + 1)
          BY <2>3, <4>1
        <4>3. x + 1 <= x
          BY <3>1, <4>1, <4>2 DEF NoneBefore
        <4> QED
          BY <4>3
      <3> QED
        BY <1>7, <3>1
    <2>4. CASE Good(c, z, LoopPoint(c, z))
      <3>1. t = LoopPoint(c, z) + s
        BY <2>1, <2>2, <2>4 DEF Good
      <3> QED
        BY <1>6, <2>2, <2>4, <3>1
    <2> QED
      BY <1>1, <1>10, <2>3, <2>4, LoopGood
  <1>11. CASE mode.kind = "points"
    <2>1. s = 0 /\ y = z /\ c + s = c
      BY <1>1, <1>11
    <2>2. t = PointsPoint(c, z) /\ d = 0
      BY <1>3, <1>4, <1>11, <2>1 DEF OwnModePoint
    <2>3. Good(c, z, PointsPoint(c, z))
      BY <1>1, <1>11, PointsGood
    <2>4. t = PointsPoint(c, z) + s
      BY <2>1, <2>2, <2>3 DEF Good
    <2> QED
      BY <1>6, <2>2, <2>3, <2>4
  <1>12. CASE mode.kind = "week" /\ mode.days = {}
    <2>1. HasNoMoment
      BY <1>12 DEF HasNoMoment
    <2> QED
      BY <1>7, <1>12, <2>1, NothingAsked
  <1>13. CASE mode.kind = "week" /\ mode.days # {} /\ mode.point = 0
    <2>1. d \in 1 .. 7
      <3>1. Week
        BY <1>2, <1>13 DEF IsMode, Week
      <3> QED
        BY <1>1, <1>3, <1>13, <3>1, OwnWeek
    <2>2. t = 0
      BY <1>4, <1>13, <2>1 DEF OwnModePoint
    <2>3. PICK n \in Int : n = now
      BY DEF Settings
    <2>4. OwnPoint = n + z + 15 /\ Rtc = n + z
      BY <1>1, <1>5, <2>2, <2>3, Lengths DEF Rtc
    <2>5. PICK a \in Int : a = Floor(OwnPoint)
      BY <2>4, FloorIs
    <2>6. a <= n + z + 15 /\ n + z + 15 <= a + 2 /\ a % 3 = 0
      BY <2>4, <2>5, FloorIs
    <2>7. ASSUME NEW x \in Int, x >= now + FAR, Asked(x)
          PROVE  a <= x + z
      <3>1. (x + z) % DAY = 0
        BY <1>1, <1>13, <2>7 DEF Asked
      <3>2. PICK q \in Int : x + z = q * DAY
        <4>1. PICK l \in Int : l = x + z
          OBVIOUS
        <4>2. PICK q \in Int, r \in 0 .. DAY - 1 : l = q * DAY + r
          BY DayOf
        <4>3. l % DAY = r
          <5>1. DAY \in Nat \ {0}
            BY Lengths
          <5>2. (q * DAY + r) % DAY = r
            BY <5>1, DivisionIs
          <5> QED
            BY <4>2, <5>2
        <4>4. r = 0
          BY <3>1, <4>1, <4>3
        <4>5. l = q * DAY
          BY <4>2, <4>4, Lengths
        <4> QED
          BY <4>1, <4>5
      <3>3. (x + z) % 3 = 0
        BY <3>2, Threes, Lengths
      <3>4. x + z >= n + z + 13
        BY <2>3, <2>7, Lengths
      <3> QED
        BY <2>6, <3>3, <3>4
    <2>8. Rtc + 1 <= a /\ RingsAt(a, a, 0)
      BY <2>4, <2>6, FirstRing
    <2> QED
      BY <1>1, <2>5, <2>7, <2>8 DEF Reaches
  <1>14. CASE mode.kind = "week" /\ mode.days # {} /\ mode.point # 0
    <2>1. Week
      BY <1>2, <1>14 DEF IsMode, Week
    <2>2. d = WeekDay(c + s, y)
      BY <1>3, <1>14
    <2>3. PICK u : u = WeekPoint(now + s, y, d)
      OBVIOUS
    <2>4. /\ d \in 1 .. 7 /\ u \in Int /\ u > 0
          /\ Reaches(now + FAR, Rtc + 1, Floor(y + u), 0)
      BY <1>1, <2>1, <2>2, <2>3, OwnWeek
    <2>5. d # 0 /\ u # 0
      BY <2>4
    <2>6. t = u
      BY <1>4, <1>14, <2>3, <2>5 DEF OwnModePoint
    <2>7. OwnPoint = y + u
      BY <1>5, <2>5, <2>6
    <2> QED
      BY <2>4, <2>7
  <1> QED
    BY <1>2, <1>8, <1>9, <1>10, <1>11, <1>12, <1>13, <1>14

------------------------------------------------------------------------------
(* The invariant.                                                            *)
Planned == why = "plan" /\ mode.kind # "track"

\* On its way to sleep the time is right, and three ticks off when it was made.
GoingRight ==
    LET at == Floor(order.at)
        made == Rtc - age
    IN  /\ age \in 0 .. HANDSHAKE /\ why # "own"
        /\ TooSoon \/ Reaches(now - age + FAR, made + 3, at, order.day)
        /\ Planned => at \in Int /\ Meant(at, order.day) /\ (order.day = 0 => at >= made + 3)

\* Asleep, the alarm will still ring in time for what is FAR from the calculation.
AsleepRight ==
    /\ age \in 0 .. FAR
    /\ \/ alarm.lost \/ Misjudged \/ TooSoon
       \/ /\ ~(alarm.day = 7 /\ sundaySet)
          /\ Reaches(now - age + FAR, Rtc + 1, alarm.at, alarm.day)
    /\ Planned => alarm.at \in Int /\ Meant(alarm.at, alarm.day)
                  /\ (alarm.day = 0 => alarm.at >= Rtc + 1)

Inv ==
    /\ Settings
    /\ phase \in {"awake", "going", "asleep"}
    /\ phase = "going" => GoingRight
    /\ phase = "asleep" => AsleepRight

LEMMA Start == Init => Inv
  BY Lengths DEF Init, Inv, Settings

\* What is asked for depends on the settings alone.
LEMMA Kept ==
    ASSUME UNCHANGED <<zone, mode>>, NEW since, NEW from, NEW at, NEW day
    PROVE  /\ Reaches(since, from, at, day)' <=> Reaches(since, from, at, day)
           /\ Meant(at, day)' <=> Meant(at, day)
  BY DEF Reaches, Meant, Asked, LastRound, ForSomething, HasNoMoment, HalfPastTwelve, DayTooSoon

LEMMA Weaken ==
    ASSUME NEW since \in Int, NEW from \in Int, NEW at, NEW day, Reaches(since, from, at, day),
           NEW later \in Int, since <= later, NEW sooner \in Int, sooner <= from
    PROVE  Reaches(later, sooner, at, day)
  BY DEF Reaches

LEMMA CalculateKeeps ==
    ASSUME Inv, NEW failed \in BOOLEAN, Calculate(failed)
    PROVE  Inv'
  <1>1. PICK z \in Int : z = Offset(zone) /\ Settings /\ now \in Int
    BY ZoneIs DEF Inv, Settings
  <1>2. PICK p, d : NextPoint = [at |-> p, day |-> d]
    BY DEF NextPoint
  <1>3. p > 0 /\ NextPoint.at > 0 /\ p = NextPoint.at /\ d = NextPoint.day
    BY <1>2 DEF Calculate
  <1>4. PICK next : next = IF failed THEN Sooner(NextPoint) ELSE NextPoint
    OBVIOUS
  <1>5. /\ phase' = "going" /\ age' = 0 /\ order' = [next EXCEPT !.at = @ + Offset(zone)]
        /\ why' = IF next = NextPoint THEN "plan" ELSE "retry"
        /\ UNCHANGED <<now, zone, mode, alarm, sundaySet>>
    BY <1>4 DEF Calculate
  <1>6. PICK r \in Int : r = Rtc /\ r = Rtc' /\ r - 0 + 3 = r + 3 /\ now - 0 + FAR = now + FAR
    BY <1>1, <1>5, Lengths DEF Rtc
  <1>7. Settings'
    BY <1>1, <1>5 DEF Settings
  <1>8. CASE next = NextPoint
    <2>1. order' = [at |-> p + Offset(zone), day |-> d] /\ why' = "plan"
      BY <1>2, <1>5, <1>8
    <2>2. PICK a : a = Floor(p + Offset(zone)) /\ a = Floor(order'.at) /\ d = order'.day
      BY <2>1
    <2>3. /\ a \in Int /\ Reaches(now + FAR, r + 3, a, d)
          /\ mode.kind # "track" => Meant(a, d)
          /\ d = 0 => a >= r + 3
      BY <1>1, <1>3, <1>6, <2>2, PlanIs
    <2>4. PICK since, from : since = now + FAR /\ from = r + 3
      OBVIOUS
    <2>5. Reaches(since, from, a, d)' /\ (mode.kind # "track" => Meant(a, d)')
      BY <1>5, <2>3, <2>4, Kept
    <2>6. since = now' - age' + FAR /\ from = Rtc' - age' + 3
      BY <1>5, <1>6, <2>4
    <2>7. GoingRight'
      BY <1>5, <1>6, <2>1, <2>2, <2>3, <2>4, <2>5, <2>6, Lengths DEF GoingRight, Planned
    <2> QED
      BY <1>5, <1>7, <2>7 DEF Inv
  <1>9. CASE next # NextPoint
    <2>1. next = [at |-> now + RepGap, day |-> 0] /\ ~(p < now + RepGap)
      BY <1>3, <1>4, <1>9 DEF Sooner
    <2>2. order' = [at |-> now + RepGap + Offset(zone), day |-> 0] /\ why' = "retry"
      BY <1>5, <1>9, <2>1
    <2>3. PICK a : a = Floor(now + RepGap + Offset(zone)) /\ a = Floor(order'.at) /\ 0 = order'.day
      BY <2>2
    <2>4. p \in Int /\ p >= now + RepGap
      BY <1>1, <1>3, <2>1, PlanIs, Lengths
    <2>5. PICK since, from : since = now' - age' + FAR /\ from = Rtc' - age' + 3
                             /\ since = now + FAR /\ from = Rtc + 3
      BY <1>5, <1>6
    <2>6. CASE RepGap # MINUTE
      <3>1. Reaches(since, from, a, 0)
        BY <1>1, <1>3, <2>3, <2>4, <2>5, <2>6, RetryIs
      <3>2. Reaches(since, from, a, 0)'
        BY <1>5, <3>1, Kept
      <3>3. GoingRight'
        BY <1>5, <2>2, <2>3, <2>5, <3>2, Lengths DEF GoingRight, Planned
      <3> QED
        BY <1>5, <1>7, <3>3 DEF Inv
    <2>7. CASE RepGap = MINUTE
      <3>1. TooSoon' /\ GoingRight'
        BY <1>5, <2>2, <2>7, Lengths DEF GoingRight, Planned, TooSoon
      <3> QED
        BY <1>5, <1>7, <3>1 DEF Inv
    <2> QED
      BY <2>6, <2>7
  <1> QED
    BY <1>8, <1>9

LEMMA FallAsleepKeeps ==
    ASSUME Inv, FallAsleep
    PROVE  Inv'
  <1>1. /\ phase' = "asleep" /\ alarm' = [at |-> Floor(order.at), day |-> order.day,
                                         lost |-> order.day = 7 /\ sundaySet]
        /\ UNCHANGED <<now, zone, mode, sundaySet, age, why>>
    BY DEF FallAsleep, SetAlarm
  <1>2. PICK a, d : a = Floor(order.at) /\ d = order.day
    OBVIOUS
  <1>3. /\ age \in 0 .. 2 /\ why # "own" /\ (TooSoon \/ Reaches(now - age + FAR, Rtc - age + 3, a, d))
        /\ Planned => a \in Int /\ Meant(a, d) /\ (d = 0 => a >= Rtc - age + 3)
    BY <1>2, Lengths DEF FallAsleep, Inv, GoingRight
  <1>4. now \in Int /\ Rtc \in Int /\ Settings' /\ Rtc' = Rtc
    BY <1>1, ZoneIs DEF Inv, Settings, Rtc
  <1>5. PICK since \in Int, from \in Int, more \in Int : since = now' - age' + FAR /\ from = Rtc' + 1
                            /\ since = now - age + FAR /\ more = Rtc - age + 3 /\ from <= more
    BY <1>1, <1>3, <1>4, Lengths
  <1>6. TooSoon' \/ Reaches(since, from, a, d)'
    <2>1. TooSoon => TooSoon'
      BY <1>1 DEF TooSoon
    <2>2. Reaches(since, more, a, d) => Reaches(since, from, a, d)
      BY <1>5, Weaken
    <2>3. Reaches(since, from, a, d) => Reaches(since, from, a, d)'
      BY <1>1, Kept
    <2> QED
      BY <1>3, <1>5, <2>1, <2>2, <2>3
  <1>7. Planned' => a \in Int /\ Meant(a, d)' /\ (d = 0 => a >= Rtc' + 1)
    <2>1. Planned' => Planned
      BY <1>1 DEF Planned
    <2>2. Meant(a, d) => Meant(a, d)'
      BY <1>1, Kept
    <2> QED
      BY <1>3, <1>4, <2>1, <2>2
  <1>8. alarm.lost' \/ ~(d = 7 /\ sundaySet)
    BY <1>1, <1>2
  <1>9. AsleepRight'
    BY <1>1, <1>2, <1>3, <1>5, <1>6, <1>7, <1>8, Lengths DEF AsleepRight
  <1> QED
    BY <1>1, <1>4, <1>9 DEF Inv

LEMMA UnitSleepsKeeps ==
    ASSUME Inv, UnitSleeps
    PROVE  Inv'
  <1>1. /\ phase' = "asleep" /\ age' = 0 /\ why' = "own"
        /\ alarm' = [at |-> Floor(OwnPoint), day |-> alarm.day, lost |-> alarm.day = 7 /\ sundaySet]
        /\ UNCHANGED <<now, zone, mode, sundaySet>>
    BY DEF UnitSleeps, SetAlarm
  <1>2. Settings /\ now \in Int /\ Rtc \in Int /\ Settings' /\ Rtc' = Rtc
    BY <1>1, ZoneIs DEF Inv, Settings, Rtc
  <1>3. ~Planned'
    BY <1>1 DEF Planned
  <1>4. CASE Misjudged'
    BY <1>1, <1>2, <1>3, <1>4, Lengths DEF Inv, AsleepRight
  <1>5. CASE ~Misjudged'
    <2>1. alarm.day = 0 /\ (mode.kind \in {"loop", "points"} => UnitOffset(zone) = Offset(zone))
      BY <1>1, <1>5 DEF Misjudged
    <2>2. PICK a, since, from : /\ a = Floor(OwnPoint) /\ since = now + FAR /\ from = Rtc + 1
                                /\ since = now' - age' + FAR /\ from = Rtc' + 1
      BY <1>1, <1>2, Lengths
    <2>3. Reaches(since, from, a, 0)
      BY <1>2, <2>1, <2>2, OwnIs
    <2>4. Reaches(since, from, a, 0)'
      BY <1>1, <2>3, Kept
    <2>5. AsleepRight'
      BY <1>1, <1>3, <2>1, <2>2, <2>4, Lengths DEF AsleepRight
    <2> QED
      BY <1>1, <1>2, <2>5 DEF Inv
  <1> QED
    BY <1>4, <1>5

\* The clock's next tick: an alarm that does not wake the tracker rings later.
LEMMA TickIs ==
    ASSUME Inv, Tick, phase = "asleep", phase' = "asleep"
    PROVE  AsleepRight'
  <1>1. /\ now' = now + 1 /\ age' = (IF age < FAR THEN age + 1 ELSE age)
        /\ UNCHANGED <<zone, mode, phase, alarm, why>>
        /\ sundaySet' => sundaySet
        /\ ~(Rings(Rtc + 1) /\ Matches(Rtc + 1))
    BY DEF Tick, Wakes
  <1>2. /\ age \in 0 .. FAR
        /\ \/ alarm.lost \/ Misjudged \/ TooSoon
           \/ /\ ~(alarm.day = 7 /\ sundaySet)
              /\ Reaches(now - age + FAR, Rtc + 1, alarm.at, alarm.day)
        /\ Planned => alarm.at \in Int /\ Meant(alarm.at, alarm.day)
                      /\ (alarm.day = 0 => alarm.at >= Rtc + 1)
    BY DEF Inv, AsleepRight
  <1>3. now \in Int /\ Rtc \in Int /\ Rtc' = Rtc + 1 /\ FAR = 13 /\ age' \in 0 .. FAR
    BY <1>1, <1>2, ZoneIs, Lengths DEF Inv, Settings, Rtc
  <1>4. PICK since \in Int, later \in Int, r \in Int, next \in Int :
            /\ since = now - age + FAR /\ later = now' - age' + FAR /\ since <= later
            /\ r = Rtc + 1 /\ next = Rtc' + 1 /\ next = r + 1
    <2>1. /\ now - age + FAR \in Int /\ now' - age' + FAR \in Int
          /\ now - age + FAR <= now' - age' + FAR
      BY <1>1, <1>2, <1>3
    <2>2. Rtc + 1 \in Int /\ Rtc' + 1 \in Int /\ Rtc' + 1 = Rtc + 1 + 1
      BY <1>3
    <2> QED
      BY <2>1, <2>2
  <1>5. ASSUME ~(alarm.day = 7 /\ sundaySet) PROVE ~RingsAt(r, alarm.at, alarm.day)
    BY <1>1, <1>4, <1>5 DEF RingsAt, Rings, Matches
  <1>6. PICK b, e : b = alarm.at /\ e = alarm.day /\ b = alarm'.at /\ e = alarm'.day
    BY <1>1
  <1>7. ASSUME ~(alarm.day = 7 /\ sundaySet), Reaches(since, r, b, e)
        PROVE  ~(e = 7 /\ sundaySet') /\ Reaches(later, next, b, e)'
    <2>1. Reaches(later, next, b, e)
      BY <1>4, <1>5, <1>7, <1>6 DEF Reaches
    <2>2. Reaches(later, next, b, e)'
      BY <1>1, <2>1, Kept
    <2> QED
      BY <1>1, <1>7, <1>6, <2>2
  <1>8. Planned' => b \in Int /\ Meant(b, e)' /\ (e = 0 => b >= next)
    <2>1. ASSUME Planned', e = 0 PROVE b >= next
      <3>1. b \in Int /\ b >= r
        BY <1>1, <1>2, <1>4, <1>6, <2>1 DEF Planned
      <3>2. b # r
        BY <1>5, <1>6, <2>1, <3>1, FirstRing
      <3> QED
        BY <1>4, <3>1, <3>2
    <2>2. Planned' => b \in Int /\ Meant(b, e)
      BY <1>1, <1>2, <1>6 DEF Planned
    <2>3. Meant(b, e) => Meant(b, e)'
      BY <1>1, Kept
    <2> QED
      BY <2>1, <2>2, <2>3
  <1>9. (alarm.lost => alarm'.lost) /\ (Misjudged => Misjudged') /\ (TooSoon => TooSoon')
    BY <1>1 DEF Misjudged, TooSoon
  <1>10. alarm'.lost \/ Misjudged' \/ TooSoon'
        \/ (~(e = 7 /\ sundaySet') /\ Reaches(later, next, b, e)')
    BY <1>2, <1>4, <1>7, <1>9, <1>6
  <1> QED
    BY <1>3, <1>4, <1>8, <1>10, <1>6 DEF AsleepRight

LEMMA TickKeeps ==
    ASSUME Inv, Tick
    PROVE  Inv'
  <1>1. now \in Int /\ now' = now + 1 /\ UNCHANGED <<zone, mode, order>> /\ Settings'
    BY Lengths DEF Tick, Inv, Settings
  <1>2. CASE phase = "awake"
    <2>1. phase' = "awake"
      BY <1>2 DEF Tick
    <2> QED
      BY <1>1, <2>1 DEF Inv
  <1>3. CASE phase = "going"
    <2>1. phase' = "going" /\ age < HANDSHAKE /\ age' = (IF age < FAR THEN age + 1 ELSE age) /\ why' = why
      BY <1>3 DEF Tick
    <2>2. PICK a, d : a = Floor(order.at) /\ d = order.day
      OBVIOUS
    <2>3. /\ age \in 0 .. HANDSHAKE /\ why # "own" /\ (TooSoon \/ Reaches(now - age + FAR, Rtc - age + 3, a, d))
          /\ Planned => a \in Int /\ Meant(a, d) /\ (d = 0 => a >= Rtc - age + 3)
      BY <1>3, <2>2 DEF Inv, GoingRight
    <2>4. Rtc \in Int /\ Rtc' = Rtc + 1
      BY <1>1, ZoneIs DEF Inv, Settings, Rtc
    <2>5. /\ age' \in 0 .. HANDSHAKE /\ now - age + FAR = now' - age' + FAR
          /\ Rtc - age + 3 = Rtc' - age' + 3
      BY <1>1, <2>1, <2>3, <2>4, Lengths
    <2>6. PICK since, from : since = now - age + FAR /\ from = Rtc - age + 3
      OBVIOUS
    <2>7. TooSoon' \/ Reaches(since, from, a, d)'
      <3>1. TooSoon => TooSoon'
        BY <2>1 DEF TooSoon
      <3>2. Reaches(since, from, a, d) => Reaches(since, from, a, d)'
        BY <1>1, Kept
      <3> QED
        BY <2>3, <2>6, <3>1, <3>2
    <2>8. Planned' => a \in Int /\ Meant(a, d)' /\ (d = 0 => a >= from)
      <3>1. Meant(a, d) => Meant(a, d)'
        BY <1>1, Kept
      <3> QED
        BY <1>1, <2>1, <2>3, <2>6, <3>1 DEF Planned
    <2>9. a = Floor(order'.at) /\ d = order'.day
      BY <1>1, <2>2
    <2>10. GoingRight'
      BY <2>1, <2>3, <2>5, <2>6, <2>7, <2>8, <2>9 DEF GoingRight
    <2> QED
      BY <1>1, <2>1, <2>10 DEF Inv
  <1>4. CASE phase = "asleep" /\ phase' = "asleep"
    BY <1>1, <1>4, TickIs DEF Inv
  <1>5. CASE phase = "asleep" /\ phase' # "asleep"
    <2>1. phase' = "awake"
      BY <1>5 DEF Tick, Wakes
    <2> QED
      BY <1>1, <2>1 DEF Inv
  <1> QED
    BY <1>2, <1>3, <1>4, <1>5 DEF Inv

LEMMA SetClockKeeps ==
    ASSUME Inv, SetClock
    PROVE  Inv'
  BY DEF Inv, SetClock, Settings

LEMMA StutterKeeps ==
    ASSUME Inv, UNCHANGED vars
    PROVE  Inv'
  <1>1. UNCHANGED <<now, zone, mode, phase, age, order, alarm, why, sundaySet>>
    BY DEF vars
  <1>2. Settings'
    BY <1>1 DEF Inv, Settings
  <1>3. phase = "going" => GoingRight'
    <2>1. PICK a, d, since, from : /\ a = Floor(order.at) /\ d = order.day
                                   /\ since = now - age + FAR /\ from = Rtc - age + 3
      OBVIOUS
    <2>2. /\ Reaches(since, from, a, d)' <=> Reaches(since, from, a, d)
          /\ Meant(a, d)' <=> Meant(a, d)
      BY <1>1, Kept
    <2> QED
      BY <1>1, <2>1, <2>2 DEF Inv, GoingRight, TooSoon, Planned, Rtc
  <1>4. phase = "asleep" => AsleepRight'
    <2>1. PICK a, d, since, from : /\ a = alarm.at /\ d = alarm.day
                                   /\ since = now - age + FAR /\ from = Rtc + 1
      OBVIOUS
    <2>2. /\ Reaches(since, from, a, d)' <=> Reaches(since, from, a, d)
          /\ Meant(a, d)' <=> Meant(a, d)
      BY <1>1, Kept
    <2> QED
      BY <1>1, <2>1, <2>2 DEF Inv, AsleepRight, TooSoon, Misjudged, Planned, Rtc
  <1> QED
    BY <1>1, <1>2, <1>3, <1>4 DEF Inv

LEMMA Invariance == Spec => []Inv
  <1>1. Inv /\ [Next]_vars => Inv'
    <2> SUFFICES ASSUME Inv, [Next]_vars PROVE Inv'
      OBVIOUS
    <2> QED
      BY CalculateKeeps, FallAsleepKeeps, UnitSleepsKeeps, SetClockKeeps, TickKeeps, StutterKeeps DEF Next
  <1> QED
    BY Start, <1>1, PTL DEF Spec

------------------------------------------------------------------------------
(* No moment the mode asks for is slept through, if it lies FAR from the     *)
(* calculation (calc_wkp_time.c, app_calc_next_wkp_time.c): for hours of any *)
(* length, every mode and zone, and however long the device runs; except for *)
(* the times that are Misjudged or TooSoon and the Sunday alarm that is lost.*)
THEOREM NeverSleptThrough == Spec => []NothingSleptThrough
  <1>1. Inv => NothingSleptThrough
    <2> SUFFICES ASSUME Inv, phase = "asleep", age = FAR, Asked(now), ~LastRound(now)
                 PROVE  alarm.lost \/ Misjudged \/ TooSoon
      BY DEF NothingSleptThrough
    <2>1. now \in Int /\ Rtc \in Int /\ Rtc = now + Offset(zone)
      BY ZoneIs DEF Inv, Settings, Rtc
    <2>2. AsleepRight /\ now - age + FAR = now
      BY <2>1, Lengths DEF Inv
    <2>3. ~Reaches(now, Rtc + 1, alarm.at, alarm.day)
      BY <2>1 DEF Reaches
    <2> QED
      BY <2>2, <2>3 DEF AsleepRight
  <1> QED
    BY <1>1, Invariance, PTL

(* An alarm that was planned wakes the tracker for a moment its mode asks    *)
(* for, or for half past twelve if there is none, or a day too soon for the  *)
(* moment at the end of a day that was put off (is_cur_time_match_wkp_time). *)
THEOREM AlwaysForSomething == Spec => WokenForSomething
  <1>1. Inv /\ [Next]_vars
          => [phase = "asleep" /\ phase' = "awake" /\ why = "plan" /\ mode.kind # "track"
                => ForSomething(now')]_vars
    <2> SUFFICES ASSUME Inv, [Next]_vars, phase = "asleep", phase' = "awake",
                        why = "plan", mode.kind # "track"
                 PROVE  ForSomething(now')
      OBVIOUS
    <2>1. Tick /\ Rings(Rtc + 1) /\ Matches(Rtc + 1)
      BY DEF Next, Calculate, FallAsleep, UnitSleeps, SetAlarm, SetClock, Tick, vars
    <2>2. now \in Int /\ now' = now + 1 /\ Rtc \in Int /\ Rtc = now + Offset(zone) /\ Offset(zone) \in Int
      BY <2>1, ZoneIs DEF Inv, Settings, Rtc, Tick
    <2>3. /\ alarm.at \in Int /\ Meant(alarm.at, alarm.day)
          /\ alarm.day = 0 => alarm.at >= Rtc + 1
      BY DEF Inv, AsleepRight, Planned
    <2>4. PICK s \in Int : s = Rtc + 1 /\ s - Offset(zone) = now'
      BY <2>2
    <2>5. RingsAt(s, alarm.at, alarm.day)
      BY <2>1, <2>4 DEF Rings, Matches, RingsAt
    <2>6. ForSomething(s - Offset(zone)) \/ (alarm.day = 0 /\ alarm.at < s)
      BY <2>3, <2>5 DEF Meant
    <2> QED
      BY <2>3, <2>4, <2>6
  <1> QED
    BY <1>1, Invariance, PTL DEF Spec, WokenForSomething
==============================================================================
