------------------------------- MODULE WakeTime -------------------------------
(* When the device wakes up: the tracker's calculation of the next wake-up   *)
(* time from its work mode (mtk/src/calc_wkp_time.c), the power management   *)
(* unit's own calculation for a tracker that gave it no time                 *)
(* (mcu/User/src/app_calc_next_wkp_time.c), and the unit's alarm, which      *)
(* knows an hour, a minute and perhaps a weekday but no date.                *)
(*                                                                           *)
(* Time is counted in ticks of 20 s.  An hour has HOUR ticks: all that is    *)
(* scaled is the number of minutes in an hour.  Dates are left out: a local  *)
(* time is a count of ticks, which stands for its year, month and day.       *)
EXTENDS Integers, FiniteSets, FiniteSetsExt

CONSTANTS
    HOUR,           \* ticks of an hour
    First, Last,    \* the time that is looked at, in UTC
    Zones,          \* CFG_TIME_ZONE: [west, hours]
    Modes,          \* CFG_WORK_MODE and CFG_WORK_MODE_PARAM
    RepGap,         \* CFG_REP_GAP, in ticks
    HANDSHAKE       \* how long the tracker takes to hand a time over and be off

MINUTE == 3
DAY == 24 * HOUR
WEEK == 7 * DAY
NEED_SLEEP_TIME == 3 * MINUTE

(* An hour has an even number of minutes, and the clock is far enough from 0   *)
(* that no time is 0, not even one of the unit's.                            *)
ASSUME TimeAssumption ==
    /\ HOUR \in Nat \ {0} /\ HOUR % (2 * MINUTE) = 0
    /\ First \in Nat /\ First > 176 * HOUR /\ Last \in Nat
    /\ \A z \in Zones : z.hours \in 0 .. 12 /\ z.west \in BOOLEAN
    /\ HANDSHAKE \in 0 .. MINUTE - 1
    /\ RepGap \in Nat \ {0} /\ RepGap % MINUTE = 0

(* Times of day are to the minute; those of a date need not be.              *)
TimesOfDay == {p \in 0 .. DAY - 1 : p % MINUTE = 0}
IsMode(m) ==
    \/ m.kind = "clock" /\ m.points \subseteq TimesOfDay
    \/ m.kind = "track" /\ m.interval \in Nat
    \/ m.kind = "week" /\ m.days \subseteq 1 .. 7 /\ m.point \in TimesOfDay
    \/ m.kind = "loop" /\ {m.start, m.interval, m.stop} \subseteq Nat
    \/ m.kind = "points" /\ m.points \subseteq Nat
ASSUME ModeAssumption == \A m \in Modes : IsMode(m)

VARIABLES
    now,        \* UTC
    zone, mode, \* the settings
    phase,      \* the tracker is "awake", "going" to sleep, or "asleep"
    age,        \* ticks since the time was calculated, up to FAR
    order,      \* the time it has handed over: [at, day], local
    alarm,      \* g_para.next_time and the alarm, while it sleeps
    why,        \* whose time the alarm is: "plan", "retry" or the unit's "own"
    sundaySet   \* the clock was set today, a Sunday: its weekday is 0

vars == <<now, zone, mode, phase, age, order, alarm, why, sundaySet>>

(* A moment nearer than this may pass: the device sleeps and wakes up first. *)
FAR == NEED_SLEEP_TIME + MINUTE + 1

Midnight(t) == (t \div DAY) * DAY
Floor(t) == t - (t % MINUTE)
(* Monday is 1, Sunday 7; the first day of all was a Thursday. *)
Weekday(local) ==
    LET d == (local % WEEK) \div DAY + 4 IN IF d > 7 THEN d % 7 ELSE d

Offset(z) == IF z.west THEN -(z.hours * HOUR) ELSE z.hours * HOUR
(* The unit's macro tests zone & (0x80 > 0), the lowest bit, not the sign.  *)
UnitOffset(z) ==
    IF z.hours % 2 = 1 THEN -(z.hours * HOUR)
    ELSE (z.hours + IF z.west THEN 128 ELSE 0) * HOUR

------------------------------------------------------------------------------
(* The calculation, the same on both sides but for the offset z.  c is the   *)
(* time in UTC.  0 stands for no sleep.                                      *)

(* Half past twelve tomorrow. *)
ErrorPoint(c, z) == Midnight(c + z) + DAY + 12 * HOUR + HOUR \div 2 - z

(* mode.points are the times of day before the first impossible one. *)
ClockPoint(c, z) ==
    LET local == c + z
        Ahead(p) == IF p < (local % DAY) + NEED_SLEEP_TIME THEN p + DAY ELSE p
    IN  IF mode.points = {} THEN ErrorPoint(c, z)
        ELSE Midnight(local) + Min({Ahead(p) : p \in mode.points}) - z

(* Mutant: a moment of today that has passed counts as still to come. *)
WeekDay_StillToday(c, z) ==
    LET today == Weekday(c + z)
        next == Min({IF today > d THEN d + 7 ELSE d : d \in mode.days})
    IN  IF mode.days = {} THEN 0 ELSE IF next > 7 THEN next - 7 ELSE next

(* The next weekday on the list, 0 if the list is empty or impossible. *)
WeekDay(c, z) ==
    LET local == c + z
        today == Weekday(local)
        Over(d) == today > d \/ (today = d /\ mode.point < (local % DAY) + NEED_SLEEP_TIME)
        next == Min({IF Over(d) THEN d + 7 ELSE d : d \in mode.days})
    IN  IF mode.days = {} THEN 0 ELSE IF next > 7 THEN next - 7 ELSE next

(* week_day_to_utc_time: the date of that weekday; today if it is today's.   *)
WeekPoint(c, z, day) ==
    LET local == c + z
        today == Weekday(local)
        days == IF day < today THEN day + 7 - today ELSE day - today
    IN  Midnight(local) + days * DAY + mode.point - z

(* Rounds of the server: from start to stop, none of them if stop is 0.      *)
LoopPoint(c, z) ==
    LET goes == mode.interval > 0 /\ (mode.stop = 0 \/ c + mode.interval < mode.stop)
        rounds == IF mode.start >= c + NEED_SLEEP_TIME THEN 0
                  ELSE (c + NEED_SLEEP_TIME - mode.start + mode.interval - 1) \div mode.interval
    IN  IF mode.start - c > WEEK THEN ErrorPoint(c, z)
        ELSE IF mode.start - c > NEED_SLEEP_TIME THEN mode.start - 2 * MINUTE
        ELSE IF ~goes THEN ErrorPoint(c, z)
        ELSE IF mode.interval < 6 * MINUTE THEN 0
        ELSE mode.start + rounds * mode.interval

PointsPoint(c, z) ==
    LET ahead == {p \in mode.points : p > c + NEED_SLEEP_TIME}
    IN  IF ahead = {} \/ Min(ahead \union {c + WEEK + 1}) > c + WEEK
        THEN ErrorPoint(c, z) ELSE Min(ahead)

TrackPoint(c) == IF mode.interval >= 6 * MINUTE THEN c + mode.interval ELSE 0

(* A time within two minutes is put off by one, late in a minute. *)
PutOff(c, t) == IF t > 0 /\ t >= c /\ t - c < 2 * MINUTE /\ c % MINUTE > 0
                THEN t + MINUTE ELSE t

RoundedUp(t) == IF t % MINUTE > 0 THEN t + MINUTE ELSE t

(* get_next_wake_up_time_point: the tracker's; in UTC, and the weekday. *)
NextPoint ==
    LET c == RoundedUp(now)
        z == Offset(zone)
        day == IF mode.kind = "week" THEN WeekDay(c, z) ELSE 0
        t == CASE mode.kind = "clock"  -> ClockPoint(c, z)
               [] mode.kind = "track"  -> TrackPoint(c)
               [] mode.kind = "loop"   -> LoopPoint(c, z)
               [] mode.kind = "points" -> PointsPoint(c, z)
               [] mode.kind = "week"   -> IF day = 0 THEN ErrorPoint(c, z) ELSE WeekPoint(c, z, day)
    IN  [at |-> PutOff(c, t), day |-> day]

(* recalc_next_wkp_time: sooner, if the report has failed. *)
Sooner(next) ==
    IF next.at < now + RepGap THEN next ELSE [at |-> now + RepGap, day |-> 0]

(* app_enter_lpm_init without a time of the tracker's: from the unit's       *)
(* clock, which is local, and back; five minutes if the mode wants no sleep. *)
(* A week mode's moment comes as a time of day, to be put on its weekday     *)
(* (week_day_to_utc_time); that of 00:00 is 0 and taken for no sleep.        *)
OwnModePoint(exact, c, z, day) ==
    CASE mode.kind = "clock"  -> ClockPoint(c, z)
      [] mode.kind = "track"  -> TrackPoint(c)
      [] mode.kind = "loop"   -> LoopPoint(c, z)
      [] mode.kind = "points" -> PointsPoint(c, z)
      [] mode.kind = "week"   -> IF day = 0 THEN ErrorPoint(c, z)
                                 ELSE IF mode.point = 0 THEN 0 ELSE WeekPoint(exact, z, day)
OwnPoint ==
    LET z == UnitOffset(zone)
        exact == now + Offset(zone) - z
        c == RoundedUp(exact)
        day == IF mode.kind = "week" THEN WeekDay(c, z) ELSE 0
        t == OwnModePoint(exact, c, z, day)
    IN  z + IF t = 0 THEN exact + 5 * MINUTE
            ELSE IF day = 0 THEN PutOff(c, t) ELSE t

------------------------------------------------------------------------------
(* Falling asleep and waking up.                                             *)

None == [at |-> 0, day |-> 0]
Rtc == now + Offset(zone)

Init ==
    /\ now = First /\ zone \in Zones /\ mode \in Modes
    /\ phase = "awake" /\ age = 0 /\ order = None
    /\ alarm = [at |-> 0, day |-> 0, lost |-> FALSE] /\ why = "own"
    /\ sundaySet = FALSE

(* expmu_srv_praper_into_lpm_proc: the time is calculated, in local time     *)
(* from here on; after a failed report perhaps a sooner one.                 *)
Calculate(failed) ==
    LET plan == NextPoint
        next == IF failed THEN Sooner(plan) ELSE plan
    IN  /\ phase = "awake" /\ plan.at > 0
        /\ phase' = "going" /\ age' = 0
        /\ order' = [next EXCEPT !.at = @ + Offset(zone)]
        /\ why' = IF next = plan THEN "plan" ELSE "retry"
        /\ UNCHANGED <<now, zone, mode, alarm, sundaySet>>

(* The alarm is set to the minute.  It has no date, and if the clock was set *)
(* on a Sunday, its weekday is no Sunday's before next week.                 *)
SetAlarm(at, day) ==
    /\ alarm' = [at |-> Floor(at), day |-> day,
                 lost |-> day = 7 /\ sundaySet]
    /\ phase' = "asleep" /\ order' = None /\ UNCHANGED <<now, zone, mode, sundaySet>>

(* app_enter_lpm_init, with the tracker's time. *)
FallAsleep == phase = "going" /\ SetAlarm(order.at, order.day) /\ UNCHANGED <<age, why>>

(* app_enter_lpm_init, when the tracker has kept silent: the weekday is that *)
(* of the last alarm, which the conversion of a time to a date leaves alone. *)
UnitSleeps ==
    /\ phase = "awake" /\ SetAlarm(OwnPoint, alarm.day)
    /\ age' = 0 /\ why' = "own"

(* app_rtc_time_update: the weekday of a Sunday comes out as 0. *)
SetClock ==
    /\ phase = "awake" /\ Weekday(Rtc) = 7 /\ sundaySet' = TRUE
    /\ UNCHANGED <<now, zone, mode, phase, age, order, alarm, why>>

(* The alarm of the clock, then is_cur_time_match_wkp_time at that moment.   *)
Rings(rtc) ==
    /\ (rtc - alarm.at) % DAY = 0
    /\ alarm.day = 0 \/ (Weekday(rtc) = alarm.day /\ ~(alarm.day = 7 /\ sundaySet))
(* Mutant: the alarm wakes the tracker whatever the date. *)
Matches_AnyDate(rtc) == TRUE

(* is_cur_time_match_wkp_time, with a clock that was set since the power-on: *)
(* one that was not wakes the tracker at every alarm.                        *)
Matches(rtc) == rtc >= alarm.at

Wakes ==
    /\ phase' = "awake" /\ age' = 0 /\ why' = "own"
    /\ alarm' = [alarm EXCEPT !.at = 0, !.lost = FALSE]

(* The clock goes on, and may wake the tracker; of the alarm the unit then   *)
(* looks only at the weekday again.                                          *)
Tick ==
    LET rtc == Rtc + 1
        wakes == phase = "asleep" /\ Rings(rtc) /\ Matches(rtc)
    IN  /\ now < Last /\ (phase = "going" => age < HANDSHAKE)
        /\ now' = now + 1
        /\ IF wakes THEN Wakes
           ELSE /\ age' = IF phase # "awake" /\ age < FAR THEN age + 1 ELSE age
                /\ UNCHANGED <<phase, alarm, why>>
        /\ sundaySet' = (sundaySet /\ Weekday(rtc) = 7)
        /\ UNCHANGED <<zone, mode, order>>

Next ==
    \/ \E failed \in BOOLEAN : Calculate(failed)
    \/ FallAsleep \/ UnitSleeps \/ SetClock \/ Tick

Spec == Init /\ [][Next]_vars

------------------------------------------------------------------------------
(* What the modes ask for, said without a calculation: the moments at which  *)
(* the device has to be awake; the track mode asks for none.                 *)
Asked(t) ==
    LET local == t + Offset(zone)
    IN  CASE mode.kind = "clock"  -> local % DAY \in mode.points
          [] mode.kind = "week"   -> local % DAY = mode.point /\ Weekday(local) \in mode.days
          [] mode.kind = "points" -> t \in mode.points
          [] mode.kind = "track"  -> FALSE
          [] mode.kind = "loop"   -> \/ t = mode.start
                                     \/ /\ mode.interval >= 6 * MINUTE /\ t > mode.start
                                        /\ (t - mode.start) % mode.interval = 0
                                        /\ mode.stop = 0 \/ t < mode.stop + FAR

(* The round of a loop that would end after its stop is not always made. *)
LastRound(t) ==
    mode.kind = "loop" /\ mode.stop # 0 /\ t + mode.interval >= mode.stop

(* Where the unit's own time goes wrong: the weekday of an earlier alarm is  *)
(* still there, or the zone is odd or western and the mode counts in UTC.    *)
Misjudged ==
    /\ why = "own"
    /\ \/ alarm.day # 0
       \/ mode.kind \in {"loop", "points"} /\ UnitOffset(zone) # Offset(zone)

(* A repetition after a minute may be past before the unit sets its alarm.   *)
TooSoon == why = "retry" /\ RepGap = MINUTE

(* No moment the mode asks for is slept through: across midnight, the end of *)
(* the week and time zones, through an alarm without a date, and also when   *)
(* the unit had to find the time (app_calc_next_wkp_time.c).  Except for     *)
(* Misjudged times, those that come TooSoon, and the Sunday on which the     *)
(* clock was set.                                                            *)
NothingSleptThrough ==
    phase = "asleep" /\ age = FAR /\ Asked(now) /\ ~LastRound(now)
        => alarm.lost \/ Misjudged \/ TooSoon

(* A moment at the end of its day that was put off past midnight: the alarm  *)
(* then has the weekday of the day before, and rings in a week, where that   *)
(* day begins.                                                               *)
DayTooSoon(t) ==
    /\ mode.kind = "week" /\ mode.point = DAY - MINUTE
    /\ (t + Offset(zone)) % DAY = 0 /\ Weekday(t + Offset(zone)) \in mode.days

HasNoMoment == (mode.kind = "clock" => mode.points = {}) /\ (mode.kind = "week" => mode.days = {})
HalfPastTwelve(t) == (t + Offset(zone)) % DAY = 12 * HOUR + HOUR \div 2
ForSomething(t) ==
    \/ \E u \in t - MINUTE .. t + 3 * MINUTE - 1 : Asked(u)
    \/ HasNoMoment /\ HalfPastTwelve(t)
    \/ DayTooSoon(t)

(* A time that was planned wakes the tracker only for a moment the mode asks *)
(* for, less than three minutes before or one after, or at half past twelve  *)
(* of a mode that may have none: the daily alarm of a far date lets it sleep *)
(* (is_cur_time_match_wkp_time); or, once, nearly a day before it.           *)
WokenForSomething ==
    [][phase = "asleep" /\ phase' = "awake" /\ why = "plan" /\ mode.kind # "track"
         => ForSomething(now')]_vars
==============================================================================
