---------------------------- MODULE Power_proofs -----------------------------
(***************************************************************************)
(* Proofs about the tracker and its power management unit, for a ring of   *)
(* any length, any number of attempts and repetitions, any set of wake-up  *)
(* times, on a line that may lose frames and answer late.                  *)
(***************************************************************************)
EXTENDS Power, FiniteSetTheorems, TLAPS

-----------------------------------------------------------------------------
(* A frame always finds a mark that nothing else carries.                  *)

LEMMA ImageCount ==
    ASSUME NEW q \in Seq(Frame)
    PROVE  IsFiniteSet(InRing(q)) /\ Cardinality(InRing(q)) <= Len(q)
  <1> DEFINE f == [i \in 1 .. Len(q) |-> q[i].mark]
  <1>1. DOMAIN q = 1 .. Len(q) /\ Len(q) \in Nat
    OBVIOUS
  <1>2. f \in Surjection(1 .. Len(q), InRing(q))
    BY <1>1 DEF Surjection, InRing
  <1>3. IsFiniteSet(1 .. Len(q)) /\ Cardinality(1 .. Len(q)) = Len(q)
    BY <1>1, FS_Interval
  <1> QED
    BY <1>2, <1>3, FS_Surjection

LEMMA MarkLeft ==
    ASSUME NEW q \in Seq(Frame), NEW L, NEW a, NEW b, L \subseteq {a, b},
           Len(q) + 1 < MAX_SEND_QUE_LEN
    PROVE  /\ FreshMark(q, L) \in Marks /\ FreshMark(q, L) \notin L
           /\ FreshMark(q, L) \notin InRing(q)
  <1> DEFINE two == {a} \cup {b}
             Taken == InRing(q) \cup two
  <1>2. IsFiniteSet({a}) /\ Cardinality({a}) = 1
    BY FS_Singleton
  <1>3. IsFiniteSet(two) /\ Cardinality(two) <= 2
    <2>1. IsFiniteSet(two)
          /\ Cardinality(two) = IF b \in {a} THEN Cardinality({a}) ELSE Cardinality({a}) + 1
      BY <1>2, FS_AddElement
    <2> QED
      BY <1>2, <2>1
  <1>4. IsFiniteSet(InRing(q)) /\ Cardinality(InRing(q)) <= Len(q)
    BY ImageCount
  <1>5. IsFiniteSet(Taken) /\ Cardinality(Taken) <= Len(q) + 2
    <2>1. /\ IsFiniteSet(Taken)
          /\ Cardinality(Taken) =
               Cardinality(InRing(q)) + Cardinality(two) - Cardinality(InRing(q) \cap two)
      BY <1>3, <1>4, FS_Union
    <2>2. IsFiniteSet(InRing(q) \cap two)
      BY <1>3, FS_Subset, InRing(q) \cap two \in SUBSET two
    <2>3. /\ Cardinality(InRing(q)) \in Nat /\ Cardinality(two) \in Nat
          /\ Cardinality(InRing(q) \cap two) \in Nat
      BY <1>3, <1>4, <2>2, FS_CardinalityType
    <2> HIDE DEF two, Taken
    <2>4. Len(q) \in Nat
      OBVIOUS
    <2> QED
      BY <1>3, <1>4, <2>1, <2>3, <2>4
  <1>6. IsFiniteSet(Marks) /\ Cardinality(Marks) = MARKS
    <2>1. MARKS \in Nat /\ MARKS - 1 \in Int /\ ~(0 > MARKS - 1)
      BY RingAssumption
    <2>2. IsFiniteSet(0 .. MARKS - 1)
          /\ Cardinality(0 .. MARKS - 1) = IF 0 > MARKS - 1 THEN 0 ELSE MARKS - 1 - 0 + 1
      BY <2>1, FS_Interval
    <2> QED
      BY <2>1, <2>2 DEF Marks
  <1>7. ~(Marks \subseteq Taken)
    <2> SUFFICES ASSUME Marks \subseteq Taken PROVE FALSE
      OBVIOUS
    <2>1. Cardinality(Marks) <= Cardinality(Taken)
      BY <1>5, FS_Subset
    <2>2. Cardinality(Taken) \in Nat /\ Len(q) \in Nat
      BY <1>5, FS_CardinalityType
    <2> HIDE DEF Taken
    <2> QED
      BY <1>5, <1>6, <2>1, <2>2, RingAssumption
  <1>8. \E m \in Marks : m \notin L /\ m \notin InRing(q)
    BY <1>7
  <1> QED
    BY <1>8 DEF FreshMark

-----------------------------------------------------------------------------
(* The ring as a component: a ring is Fit if no mark is in it twice, a     *)
(* frame in or an answer out on the line with the mark of one of its       *)
(* frames is of that frame, and the wake-up times it writes are in W.      *)

Distinct(q) == \A i, j \in DOMAIN q : q[i].mark = q[j].mark => i = j
Agrees(q, s) ==
    \A i \in DOMAIN q, k \in DOMAIN s : q[i].mark = s[k].mark => q[i].kind = s[k].kind
Writes(q, W) == \A i \in DOMAIN q : q[i].kind = "next" => q[i].next \in W
Fit(q, W, in, out) ==
    q \in Rings /\ Distinct(q) /\ Agrees(q, in) /\ Agrees(q, out) /\ Writes(q, W)

Lines == /\ toPmu \in Seq(Frame) /\ Len(toPmu) <= 1
         /\ toMpu \in Seq(Answer) /\ Len(toMpu) <= 1
LineMarks == {f.mark : f \in Range(toPmu) \union Range(toMpu)}

LEMMA LineMarksAreFew ==
    ASSUME Lines PROVE LineMarks \subseteq {toPmu[1].mark, toMpu[1].mark}
  BY DEF Lines, LineMarks, Range

LEMMA FitEmpty == ASSUME NEW W, NEW in, NEW out PROVE Fit(<<>>, W, in, out)
  BY DEF Fit, Rings, Distinct, Agrees, Writes

LEMMA FitMore ==
    ASSUME NEW in, NEW out, NEW W, NEW V, W \subseteq V, NEW q, Fit(q, W, in, out) PROVE Fit(q, V, in, out)
  BY DEF Fit, Writes

LEMMA FitTail ==
    ASSUME NEW in, NEW out, NEW W, NEW q, Fit(q, W, in, out), q # <<>> PROVE Fit(Tail(q), W, in, out)
  <1>1. q \in Seq(Frame) /\ Len(q) \in Nat \ {0} /\ DOMAIN q = 1 .. Len(q)
    BY DEF Fit, Rings
  <1>2. /\ Tail(q) \in Seq(Frame) /\ DOMAIN Tail(q) = 1 .. (Len(q) - 1)
        /\ \A i \in 1 .. (Len(q) - 1) : Tail(q)[i] = q[i + 1] /\ i + 1 \in DOMAIN q
    BY <1>1
  <1>3. PICK t : t = Tail(q)
    OBVIOUS
  <1>4. Distinct(t)
    BY <1>1, <1>2, <1>3 DEF Fit, Distinct
  <1>5. Agrees(t, in) /\ Agrees(t, out) /\ Writes(t, W)
    BY <1>2, <1>3 DEF Fit, Agrees, Writes
  <1> QED
    BY <1>2, <1>3, <1>4, <1>5 DEF Fit, Rings

LEMMA FitDelete ==
    ASSUME NEW in, NEW out, NEW W, NEW q, Fit(q, W, in, out), NEW m PROVE Fit(Delete(q, m), W, in, out)
  BY FitTail DEF Delete

LEMMA FitQueued ==
    ASSUME Lines, NEW W, NEW q, Fit(q, W, toPmu, toMpu), NEW k \in Kinds, NEW n \in WakeTimes,
           k = "next" => n \in W
    PROVE  Fit(Queued(q, k, n), W, toPmu, toMpu)
  <1> DEFINE m == FreshMark(q, LineMarks)
             f == [kind |-> k, next |-> n, mark |-> m, retry |-> 0]
  <1>1. CASE Len(q) + 1 >= MAX_SEND_QUE_LEN
    BY <1>1, FitEmpty DEF Queued, Insert
  <1>2. CASE ~(Len(q) + 1 >= MAX_SEND_QUE_LEN)
    <2>1. q \in Seq(Frame) /\ Len(q) \in Nat /\ DOMAIN q = 1 .. Len(q)
      BY DEF Fit, Rings
    <2>0. Len(q) + 1 < MAX_SEND_QUE_LEN
      BY <1>2, <2>1, RingAssumption
    <2>2. m \in Marks /\ m \notin LineMarks /\ m \notin InRing(q)
      BY <2>0, <2>1, MarkLeft, LineMarksAreFew
    <2>3. f \in Frame
      BY <2>2, RingAssumption DEF Frame
    <2>4. PICK r : r = Append(q, f)
      OBVIOUS
    <2>5. r = Queued(q, k, n)
      BY <1>2, <2>4 DEF Queued, Insert, LineMarks
    <2>6. /\ r \in Seq(Frame) /\ DOMAIN r = 1 .. (Len(q) + 1)
          /\ \A i \in 1 .. Len(q) : r[i] = q[i]
          /\ r[Len(q) + 1] = f
      BY <2>1, <2>3, <2>4
    <2>7. f.mark = m /\ f.kind = k /\ f.next = n
      OBVIOUS
    <2>8. \A i \in DOMAIN q : q[i].mark # m
      BY <2>2 DEF InRing
    <2>9. \A i \in DOMAIN toPmu : toPmu[i].mark # m
      BY <2>2 DEF LineMarks, Range
    <2>10. \A i \in DOMAIN toMpu : toMpu[i].mark # m
      BY <2>2 DEF LineMarks, Range
    <2> HIDE DEF f, m
    <2>11. Distinct(r)
      BY <2>1, <2>6, <2>7, <2>8 DEF Fit, Distinct
    <2>12. Agrees(r, toPmu)
      BY <2>1, <2>6, <2>7, <2>9 DEF Fit, Agrees
    <2>13. Agrees(r, toMpu)
      BY <2>1, <2>6, <2>7, <2>10 DEF Fit, Agrees
    <2>14. Writes(r, W)
      BY <2>1, <2>6, <2>7 DEF Fit, Writes
    <2> QED
      BY <2>5, <2>6, <2>11, <2>12, <2>13, <2>14 DEF Fit, Rings
  <1> QED
    BY <1>1, <1>2

LEMMA FitReads ==
    ASSUME Lines, NEW W, NEW q, Fit(q, W, toPmu, toMpu) PROVE Fit(Reads(q), W, toPmu, toMpu)
  <1>1. NoTime \in WakeTimes
    BY DEF NoTime, WakeTimes
  <1>2. Fit(Queued(q, "read", NoTime), W, toPmu, toMpu)
    BY <1>1, FitQueued DEF Kinds
  <1> QED
    BY <1>1, <1>2, FitQueued DEF Kinds, Reads

LEMMA FitForce ==
    ASSUME Lines, NEW W, NEW q, Fit(q, W, toPmu, toMpu) PROVE Fit(ForceWork(q), W, toPmu, toMpu)
  <1>1. NoTime \in WakeTimes
    BY DEF NoTime, WakeTimes
  <1> QED
    BY <1>1, FitQueued DEF Kinds, ForceWork

-----------------------------------------------------------------------------
(* The inductive invariant.                                                *)

(* While the tracker is off its program has not started. *)
Off == ~mpuOn => settings = 0 /\ copy = NoRegisters /\ toMpu = <<>> /\ srv.stage = "none"
Woken == /\ event \in {"POWER_UP", "RTC_WKP", "EXTI1_WKP", "EXIT_LPM"} => ~mpuOn
         /\ event \in {"WAIT_LPM", "PREPARE_ENTER_LPM"} => mpuOn

(* The service starts when the registers are known, and lets go with a time. *)
Staged == /\ srv.stage # "none" => seen # "nothing"
          /\ srv.stage \in {"NEXT", "INTO", "CLOSE"} => srv.wkp.at # 0 /\ settings # 0

(* The unit is about to sleep; whoever has seen it counting was right. *)
Going == reg.wait \/ event \in {"PREPARE_ENTER_LPM", "ENTER_LPM"}
Seen == /\ copy.wait => Going
        /\ \A i \in DOMAIN toMpu : toMpu[i].reg.wait => Going
        /\ srv.stage = "CLOSE" /\ srv.error_code # "SLEEP" => Going

(* The times that frames of this start may write; one of an earlier start    *)
(* can only wait at the unit, before the tracker has learnt anything.        *)
Allowed == IF settings = 0 THEN {}
           ELSE IF settings = 1 /\ srv.wkp.at # 0 THEN {srv.wkp} ELSE WakeTimes
Stale == settings = 0 /\ seen = "nothing" /\ toMpu = <<>> /\ copy = NoRegisters
RingFits == Fit(ring, Allowed, toPmu, toMpu)
LineWrites == Writes(toPmu, Allowed) \/ Stale

(* A time c that was read from the unit can be trusted: if the tracker has   *)
(* set none yet, it is the one in force; if it has set one, and c is that,   *)
(* so is the one in force.                                                   *)
InForce == IF event = "ENTER_LPM" THEN alarm ELSE reg.next
Vouched(c) ==
    /\ settings = 0 /\ c.at # 0 => InForce = c
    /\ settings = 1 /\ srv.wkp.at # 0 /\ c = srv.wkp => InForce = srv.wkp
Trusted == Vouched(copy.next) /\ \A i \in DOMAIN toMpu : Vouched(toMpu[i].reg.next)

IInv ==
    /\ TypeOK
    /\ Off /\ Woken /\ Staged
    /\ Seen
    /\ RingFits /\ LineWrites
    /\ Trusted /\ ConfirmedAlarm

-----------------------------------------------------------------------------
(* Types.                                                                  *)

LEMMA NoTimeType == NoTime \in WakeTimes /\ NoRegisters \in Registers
  BY DEF NoTime, WakeTimes, NoRegisters, Registers

LEMMA ServiceType ==
    ASSUME NEW stage \in Stages
    PROVE  Service(stage) \in [stage : Stages, track : {"OPEN", "REPORT"}, wkp : WakeTimes,
                               fail_cnt : Nat, error_code : {"none", "NEXT", "SLEEP"}]
  BY NoTimeType DEF Service

LEMMA BootType == ASSUME Boot, mode' \in Modes PROVE ExpmuTypeOK'
  <1>1. Service("none").wkp = NoTime /\ "none" \in Stages
    BY DEF Service, Stages
  <1>2. expmu' \in [status : {"INIT", "QUREY", "WORK", "ERROR"}, is_sleep : BOOLEAN,
                    fail_cnt : 0 .. MAX_FAULT_TOLERANCE + 1]
    BY ExpmuAssumption DEF Boot, NewExpmu
  <1>3. srv' \in [stage : Stages, track : {"OPEN", "REPORT"}, wkp : WakeTimes,
                  fail_cnt : Nat, error_code : {"none", "NEXT", "SLEEP"}]
    BY <1>1, ServiceType DEF Boot
  <1>4. ring' \in Rings /\ copy' \in Registers
    BY NoTimeType DEF Boot, EmptyRing, Rings
  <1>5. gpsOn' \in BOOLEAN
    BY DEF Boot
  <1>6. seen' \in {"nothing", "map", "registers"} /\ timer' \in {"runs", "last", "stopped"}
    BY DEF Boot
  <1>7. settings' \in 0 .. 2
    BY DEF Boot
  <1> QED
    BY <1>2, <1>3, <1>4, <1>5, <1>6, <1>7 DEF ExpmuTypeOK

LEMMA WrittenType ==
    ASSUME reg \in Registers, NEW f \in Frame PROVE Written(f) \in Registers
  <1>1. f.next.at \in Times \union {0} /\ f.next.day \in 0 .. 1
    BY DEF Frame, WakeTimes
  <1>2. reg.next.day \in 0 .. 1
    BY DEF Registers, WakeTimes
  <1> DEFINE n == [at |-> f.next.at,
                   day |-> IF f.next.day = 0 THEN reg.next.day ELSE f.next.day]
  <1>3. n \in WakeTimes
    BY <1>1, <1>2 DEF WakeTimes
  <1> HIDE DEF n
  <1>4. [reg EXCEPT !.force = TRUE] \in Registers /\ [reg EXCEPT !.wait = TRUE] \in Registers
        /\ [reg EXCEPT !.next = n] \in Registers
    BY <1>3 DEF Registers
  <1> QED
    BY <1>4 DEF Written, n

LEMMA NoFrames ==
    ASSUME NEW s, s = <<>> PROVE s \in Seq(Frame) /\ s \in Seq(Answer) /\ Len(s) <= 1
  OBVIOUS

LEMMA OneFrame ==
    ASSUME NEW S, NEW a \in S, NEW s, s = <<a>> PROVE s \in Seq(S) /\ Len(s) <= 1
  OBVIOUS

LEMMA UnitType == ASSUME TypeOK, UnitSleeps \/ UnitCounts \/ UnitServes \/ UnitLoops
                                 \/ UnitTimesOut \/ UnitWakes \/ Environment
                  PROVE  TypeOK'
  <1> USE DEF TypeOK
  <1>1. ASSUME UnitSleeps PROVE TypeOK'
    <2>1. ExpmuTypeOK'
      BY <1>1, BootType DEF UnitSleeps, ExpmuTypeOK
    <2> QED
      BY <1>1, <2>1, NoFrames DEF UnitSleeps, EnterLpm, PmuTypeOK, Turn
  <1>2. ASSUME UnitCounts PROVE TypeOK'
    <2>1. ExpmuTypeOK'
      BY <1>2, BootType DEF UnitCounts, ExpmuTypeOK, expmuVars
    <2>2. reg' \in Registers
      BY <1>2 DEF UnitCounts, CountedDown, PmuTypeOK, Registers
    <2>3. toMpu' \in Seq(Answer) /\ Len(toMpu') <= 1
      BY <1>2, NoFrames DEF UnitCounts, CountedDown, PmuTypeOK
    <2> QED
      BY <1>2, <2>1, <2>2, <2>3 DEF UnitCounts, CountedDown, PmuTypeOK
  <1>3. ASSUME UnitServes PROVE TypeOK'
    <2>1. ExpmuTypeOK'
      BY <1>3 DEF UnitServes, KeepTracker, ExpmuTypeOK, expmuVars
    <2>2. toPmu # <<>> /\ toPmu \in Seq(Frame)
      BY <1>3 DEF UnitServes, Serve, PmuTypeOK
    <2>3. PICK f \in Frame : f = toPmu[1]
      BY <2>2
    <2>4. Written(f) \in Registers
      BY WrittenType DEF PmuTypeOK
    <2>5. reg' = Written(f)
      BY <1>3, <2>3 DEF UnitServes, Serve
    <2>6. [mark |-> f.mark, kind |-> f.kind, reg |-> reg'] \in Answer
      BY <2>4, <2>5 DEF Answer, Frame
    <2>7. toMpu' \in Seq(Answer) /\ Len(toMpu') <= 1
      <3>1. toMpu' = <<[mark |-> f.mark, kind |-> f.kind, reg |-> reg']>> \/ toMpu' = <<>>
        BY <1>3, <2>3 DEF UnitServes, Serve
      <3>2. PICK a \in Answer : a = [mark |-> f.mark, kind |-> f.kind, reg |-> reg']
        BY <2>6
      <3> QED
        BY <3>1, <3>2, OneFrame, NoFrames
    <2>8. toPmu' = <<>> /\ rtcOk' \in BOOLEAN
      BY <1>3 DEF UnitServes, Serve
    <2> QED
      BY <1>3, <2>1, <2>4, <2>5, <2>7, <2>8 DEF UnitServes, Serve, PmuTypeOK
  <1>4. ASSUME UnitLoops \/ UnitTimesOut \/ UnitWakes \/ Environment PROVE TypeOK'
    <2>1. ExpmuTypeOK'
      BY <1>4 DEF UnitLoops, UnitTimesOut, UnitWakes, Environment, KeepTracker, ExpmuTypeOK,
                  expmuVars
    <2>2. PowerUp \/ PrepareLpm \/ Halt \/ FromAlarm \/ FromLight \/ ExitLpm \/ HoldTimeout
          \/ AlarmRings \/ Light \/ TimeComes
      BY <1>4 DEF UnitLoops, UnitTimesOut, UnitWakes, Environment
    <2>3. CASE PowerUp
      BY <2>1, <2>3 DEF PowerUp, PmuTypeOK, line
    <2>4. CASE PrepareLpm
      <3>1. alarm' \in [at : Times \union {0, Own}, day : 0 .. 1]
        BY <2>4 DEF PrepareLpm, PmuTypeOK, Registers, WakeTimes
      <3> QED
        BY <2>1, <2>4, <3>1, NoTimeType DEF PrepareLpm, PmuTypeOK, line
    <2>5. CASE Halt
      BY <2>1, <2>5 DEF Halt, PmuTypeOK, line
    <2>6. CASE FromAlarm
      BY <2>1, <2>6 DEF FromAlarm, PmuTypeOK, line
    <2>7. CASE FromLight
      BY <2>1, <2>7 DEF FromLight, PmuTypeOK, line
    <2>8. CASE ExitLpm
      <3>1. alarm' \in [at : Times \union {0, Own}, day : 0 .. 1]
        BY <2>8 DEF ExitLpm, NoTime
      <3> QED
        BY <2>1, <2>8, <3>1 DEF ExitLpm, PmuTypeOK, line
    <2>9. CASE HoldTimeout
      BY <2>1, <2>9 DEF HoldTimeout, PmuTypeOK, line
    <2>10. CASE AlarmRings
      BY <2>1, <2>10 DEF AlarmRings, Interrupt, PmuTypeOK, line
    <2>11. CASE Light
      BY <2>1, <2>11 DEF Light, Interrupt, PmuTypeOK, line
    <2>12. CASE TimeComes
      BY <2>1, <2>12 DEF TimeComes, PmuTypeOK, line
    <2> QED
      BY <2>2, <2>3, <2>4, <2>5, <2>6, <2>7, <2>8, <2>9, <2>10, <2>11, <2>12
  <1> QED
    BY <1>1, <1>2, <1>3, <1>4

(* The tracker's own steps that leave the unit and the line alone. *)
Plain ==
    \/ InitAgain \/ InitDone \/ QueryAgain \/ QueryDone \/ WorkRead
    \/ SrvProc \/ ChangeMode \/ OrderSleep \/ GpsFixed

LEMMA PlainRest ==
    ASSUME Plain PROVE UNCHANGED <<pmuSide, line, seen, copy>> /\ On
  <1> USE DEF SrvRest, SrvOnly, Runs, ExpmuTurn, SrvTurn
  <1>1. CASE InitAgain \/ InitDone \/ QueryAgain \/ QueryDone \/ WorkRead
    BY <1>1 DEF InitAgain, InitDone, QueryAgain, QueryDone, WorkRead
  <1>2. CASE ChangeMode \/ OrderSleep \/ GpsFixed
    BY <1>2 DEF ChangeMode, OrderSleep, GpsFixed
  <1>3. CASE SrvInit \/ Reported \/ TrackOpen \/ TrackReport \/ TrackReported \/ PraperIntoLpm
    BY <1>3 DEF SrvInit, Reported, TrackOpen, TrackReport, TrackReported, PraperIntoLpm
  <1>4. CASE NextAgain \/ NextFails \/ NextDone \/ IntoAgain \/ IntoFails \/ IntoDone \/ Close
             \/ LastCallEnds
    BY <1>4 DEF NextAgain, NextFails, NextDone, IntoAgain, IntoFails, IntoDone, Close, LastCallEnds
  <1> QED
    BY <1>1, <1>2, <1>3, <1>4 DEF Plain, SrvProc

Served == [stage : Stages, track : {"OPEN", "REPORT"}, wkp : WakeTimes,
           fail_cnt : Nat, error_code : {"none", "NEXT", "SLEEP"}]

LEMMA StageSet ==
    ASSUME NEW s \in Served, NEW g \in Stages PROVE [s EXCEPT !.stage = g] \in Served
  BY DEF Served

LEMMA TrackSet ==
    ASSUME NEW s \in Served, NEW t \in {"OPEN", "REPORT"}
    PROVE  [s EXCEPT !.track = t] \in Served
  BY DEF Served

LEMMA CountSet ==
    ASSUME NEW s \in Served, NEW n \in Nat PROVE [s EXCEPT !.fail_cnt = n] \in Served
  BY DEF Served

LEMMA CodeSet ==
    ASSUME NEW s \in Served, NEW e \in {"none", "NEXT", "SLEEP"}
    PROVE  [s EXCEPT !.error_code = e] \in Served
  BY DEF Served

LEMMA TimeSet ==
    ASSUME NEW s \in Served, NEW w \in WakeTimes PROVE [s EXCEPT !.wkp = w] \in Served
  BY DEF Served

LEMMA PlainSrvType ==
    ASSUME TypeOK, Plain PROVE srv' \in Served
  <1> USE DEF Stages
  <1>0. srv \in Served
    BY DEF TypeOK, ExpmuTypeOK, Served
  <1>1. CASE InitAgain \/ InitDone \/ QueryAgain \/ WorkRead \/ OrderSleep \/ GpsFixed
    BY <1>0, <1>1 DEF InitAgain, InitDone, QueryAgain, WorkRead, OrderSleep, GpsFixed
  <1>2. CASE QueryDone \/ ChangeMode
    BY <1>2, ServiceType DEF QueryDone, ChangeMode, Served
  <1>3. CASE SrvInit \/ Reported \/ TrackReported \/ NextDone \/ IntoDone
    <2>1. PICK g \in Stages : srv' = [srv EXCEPT !.stage = g]
      BY <1>3 DEF SrvInit, Reported, TrackReported, NextDone, IntoDone, To
    <2> QED
      BY <1>0, <2>1, StageSet
  <1>4. CASE TrackOpen
    BY <1>0, <1>4, TrackSet DEF TrackOpen
  <1>5. CASE TrackReport
    <2>1. PICK s \in Served : s = [srv EXCEPT !.stage = "WAIT"]
      BY <1>0, StageSet
    <2>2. srv' = [s EXCEPT !.track = "OPEN"]
      BY <1>5, <2>1 DEF TrackReport
    <2> QED
      BY <2>2, TrackSet
  <1>6. CASE PraperIntoLpm
    <2>1. PICK w \in WakeTimes : srv' = [srv EXCEPT !.wkp = w, !.fail_cnt = 0, !.stage = "NEXT"]
      BY <1>6 DEF PraperIntoLpm, NextTimes
    <2>2. PICK s \in Served : s = [srv EXCEPT !.wkp = w]
      BY <1>0, TimeSet
    <2>3. PICK t \in Served : t = [s EXCEPT !.fail_cnt = 0]
      BY CountSet
    <2>4. srv' = [t EXCEPT !.stage = "NEXT"]
      BY <2>1, <2>2, <2>3
    <2> QED
      BY <2>4, StageSet
  <1>7. CASE NextAgain \/ IntoAgain
    <2>1. srv' = [srv EXCEPT !.fail_cnt = srv.fail_cnt + 1]
      BY <1>7 DEF NextAgain, IntoAgain
    <2>2. srv.fail_cnt + 1 \in Nat
      BY <1>0 DEF Served
    <2> QED
      BY <1>0, <2>1, <2>2, CountSet
  <1>9. CASE NextFails
    <2>1. PICK s \in Served : s = [srv EXCEPT !.fail_cnt = 0]
      BY <1>0, CountSet
    <2>2. PICK t \in Served : t = [s EXCEPT !.error_code = "NEXT"]
      BY CodeSet
    <2>3. srv' = [t EXCEPT !.stage = "INTO"]
      BY <1>9, <2>1, <2>2 DEF NextFails
    <2> QED
      BY <2>3, StageSet
  <1>10. CASE IntoFails
    <2>1. PICK s \in Served : s = [srv EXCEPT !.error_code = "SLEEP"]
      BY <1>0, CodeSet
    <2>2. srv' = [s EXCEPT !.stage = "CLOSE"]
      BY <1>10, <2>1 DEF IntoFails
    <2> QED
      BY <2>2, StageSet
  <1>8. CASE Close \/ LastCallEnds
    BY <1>0, <1>8 DEF Close, LastCallEnds
  <1> QED
    BY <1>1, <1>2, <1>3, <1>4, <1>5, <1>6, <1>7, <1>8, <1>9, <1>10 DEF Plain, SrvProc

Masters == [status : {"INIT", "QUREY", "WORK", "ERROR"}, is_sleep : BOOLEAN,
            fail_cnt : 0 .. MAX_FAULT_TOLERANCE + 1]

LEMMA PlainMasterType ==
    ASSUME TypeOK, Plain PROVE expmu' \in Masters
  <1>0. expmu \in Masters
    BY DEF TypeOK, ExpmuTypeOK, Masters
  <1>1. CASE InitAgain
    <2>1. expmu.fail_cnt <= MAX_FAULT_TOLERANCE /\ expmu.fail_cnt \in Nat
      BY <1>0, <1>1, ExpmuAssumption DEF InitAgain, Masters
    <2>2. PICK n \in 0 .. MAX_FAULT_TOLERANCE + 1 : n = expmu.fail_cnt + 1
      BY <2>1, ExpmuAssumption
    <2>3. \/ expmu' = [expmu EXCEPT !.fail_cnt = n]
          \/ expmu' = [expmu EXCEPT !.fail_cnt = n, !.status = "ERROR"]
      BY <1>1, <2>2 DEF InitAgain
    <2> QED
      BY <1>0, <2>3 DEF Masters
  <1>2. CASE InitDone \/ QueryDone
    <2>1. PICK n \in 0 .. MAX_FAULT_TOLERANCE + 1 : n = 0
      BY ExpmuAssumption
    <2>2. \/ expmu' = [expmu EXCEPT !.status = "QUREY", !.fail_cnt = n]
          \/ expmu' = [expmu EXCEPT !.status = "WORK"]
      BY <1>2, <2>1 DEF InitDone, QueryDone
    <2> QED
      BY <1>0, <2>2 DEF Masters
  <1>3. CASE QueryAgain \/ WorkRead \/ OrderSleep \/ GpsFixed \/ ChangeMode
    BY <1>0, <1>3 DEF QueryAgain, WorkRead, OrderSleep, GpsFixed, ChangeMode
  <1>4. CASE TrackOpen \/ TrackReported
    BY <1>0, <1>4 DEF TrackOpen, TrackReported, Masters
  <1>5. CASE SrvInit \/ Reported \/ TrackReport \/ PraperIntoLpm \/ NextAgain \/ NextFails
             \/ NextDone
    BY <1>0, <1>5 DEF SrvInit, Reported, TrackReport, PraperIntoLpm, NextAgain, NextFails,
                      NextDone
  <1>6. CASE IntoAgain \/ IntoFails \/ IntoDone \/ Close \/ LastCallEnds
    BY <1>0, <1>6 DEF IntoAgain, IntoFails, IntoDone, Close, LastCallEnds
  <1> QED
    BY <1>1, <1>2, <1>3, <1>4, <1>5, <1>6 DEF Plain, SrvProc

LEMMA PlainFlags ==
    ASSUME TypeOK, Plain
    PROVE  /\ gpsOn' \in BOOLEAN
           /\ timer' \in {"runs", "last", "stopped"} /\ settings' \in 0 .. 2 /\ mode' \in Modes
  <1>0. gpsOn \in BOOLEAN
    BY DEF TypeOK, ExpmuTypeOK
  <1>1. gpsOn' \in BOOLEAN
    <2>1. CASE \/ InitAgain \/ InitDone \/ QueryAgain \/ QueryDone \/ WorkRead
               \/ ChangeMode \/ OrderSleep \/ GpsFixed
      BY <1>0, <2>1 DEF InitAgain, InitDone, QueryAgain, QueryDone, WorkRead, ChangeMode,
                        OrderSleep, GpsFixed
    <2>2. CASE SrvInit \/ Reported \/ TrackOpen \/ TrackReport \/ TrackReported
               \/ PraperIntoLpm
      BY <1>0, <2>2 DEF SrvInit, Reported, TrackOpen, TrackReport, TrackReported, PraperIntoLpm
    <2>3. CASE NextAgain \/ NextFails \/ NextDone \/ IntoAgain \/ IntoFails \/ IntoDone
               \/ Close \/ LastCallEnds
      BY <1>0, <2>3 DEF NextAgain, NextFails, NextDone, IntoAgain, IntoFails, IntoDone, Close,
                        LastCallEnds
    <2> QED
      BY <2>1, <2>2, <2>3 DEF Plain, SrvProc
  <1>2. timer \in {"runs", "last", "stopped"} /\ settings \in 0 .. 2 /\ mode \in Modes
    BY DEF TypeOK, ExpmuTypeOK
  <1>3. CASE \/ InitAgain \/ InitDone \/ QueryAgain \/ QueryDone \/ WorkRead
             \/ ChangeMode \/ OrderSleep \/ GpsFixed
    BY <1>1, <1>2, <1>3 DEF InitAgain, InitDone, QueryAgain, QueryDone, WorkRead, ChangeMode,
                            OrderSleep, GpsFixed, SrvOnly, SrvRest
  <1>4. CASE SrvInit \/ Reported \/ TrackOpen \/ TrackReport \/ TrackReported
    BY <1>1, <1>2, <1>4 DEF SrvInit, Reported, TrackOpen, TrackReport, TrackReported,
                            SrvOnly, SrvRest
  <1>6. CASE PraperIntoLpm
    <2>1. settings' \in 0 .. 2
      BY <1>2, <1>6 DEF PraperIntoLpm
    <2> QED
      BY <1>1, <1>2, <1>6, <2>1 DEF PraperIntoLpm, SrvRest
  <1>5. CASE NextAgain \/ NextFails \/ NextDone \/ IntoAgain \/ IntoFails \/ IntoDone
             \/ Close \/ LastCallEnds
    BY <1>1, <1>2, <1>5 DEF NextAgain, NextFails, NextDone, IntoAgain, IntoFails, IntoDone,
                            Close, LastCallEnds, SrvOnly, SrvRest
  <1> QED
    BY <1>3, <1>4, <1>5, <1>6 DEF Plain, SrvProc

LEMMA PlainType == ASSUME TypeOK, Plain, ring' \in Rings PROVE TypeOK'
  <1>1. PmuTypeOK'
    BY PlainRest DEF TypeOK, PmuTypeOK, pmuSide, pmuVars, line
  <1>2. seen' \in {"nothing", "map", "registers"} /\ copy' \in Registers
    BY PlainRest DEF TypeOK, ExpmuTypeOK
  <1> QED
    BY <1>1, <1>2, PlainSrvType, PlainMasterType, PlainFlags
       DEF TypeOK, ExpmuTypeOK, Served, Masters

-----------------------------------------------------------------------------
(* The tracker's own steps keep the invariant.                             *)

Fresh == QueryDone \/ ChangeMode

(* What a step that neither starts the service nor sets a time does to it. *)
LEMMA SameService ==
    ASSUME TypeOK, Plain, ~Fresh, ~PraperIntoLpm
    PROVE  /\ settings' = settings /\ srv'.wkp = srv.wkp
           /\ srv'.stage # "none" => srv.stage # "none"
           /\ srv'.stage \in {"NEXT", "INTO", "CLOSE"} => srv.stage \in {"NEXT", "INTO", "CLOSE"}
           /\ srv'.stage = "CLOSE" /\ srv'.error_code # "SLEEP" =>
                copy.wait \/ (srv.stage = "CLOSE" /\ srv.error_code # "SLEEP")
           /\ srv'.stage \in {"INTO", "CLOSE"} /\ srv'.error_code = "none" =>
                \/ copy.next = srv.wkp
                \/ srv.stage \in {"INTO", "CLOSE"} /\ srv.error_code = "none"
  <1> DEFINE Goal(n) ==
        /\ n.wkp = srv.wkp
        /\ n.stage # "none" => srv.stage # "none"
        /\ n.stage \in {"NEXT", "INTO", "CLOSE"} => srv.stage \in {"NEXT", "INTO", "CLOSE"}
        /\ n.stage = "CLOSE" /\ n.error_code # "SLEEP" =>
             copy.wait \/ (srv.stage = "CLOSE" /\ srv.error_code # "SLEEP")
        /\ n.stage \in {"INTO", "CLOSE"} /\ n.error_code = "none" =>
             \/ copy.next = srv.wkp
             \/ srv.stage \in {"INTO", "CLOSE"} /\ srv.error_code = "none"
  <1>0. srv = [stage |-> srv.stage, track |-> srv.track, wkp |-> srv.wkp,
               fail_cnt |-> srv.fail_cnt, error_code |-> srv.error_code]
    BY DEF TypeOK, ExpmuTypeOK
  <1>1. CASE \/ InitAgain \/ InitDone \/ QueryAgain \/ WorkRead \/ OrderSleep \/ GpsFixed
             \/ Close \/ LastCallEnds
    <2>1. srv' = srv /\ settings' = settings
      BY <1>1 DEF InitAgain, InitDone, QueryAgain, WorkRead, OrderSleep, GpsFixed, Close,
                  LastCallEnds, SrvOnly
    <2> QED
      BY <2>1
  <1>2. CASE SrvInit \/ Reported \/ TrackReported
    <2>1. /\ srv.stage \in {"INIT", "SEND", "WAIT"} /\ settings' = settings
          /\ \E g \in {"SEND", "PRAPER"} : srv' = [srv EXCEPT !.stage = g]
      BY <1>2 DEF SrvInit, Reported, TrackReported, To, SrvTurn, SrvOnly
    <2>2. PICK n : n = srv'
      OBVIOUS
    <2>3. n.wkp = srv.wkp /\ n.stage \in {"SEND", "PRAPER"}
      BY <1>0, <2>1, <2>2
    <2>4. Goal(n)
      BY <2>1, <2>3
    <2> QED
      BY <2>1, <2>2, <2>4
  <1>3. CASE TrackOpen \/ TrackReport
    <2>1. /\ srv.stage = "SEND" /\ settings' = settings
          /\ \/ srv' = [srv EXCEPT !.track = "REPORT"]
             \/ srv' = [srv EXCEPT !.stage = "WAIT", !.track = "OPEN"]
      BY <1>3 DEF TrackOpen, TrackReport, SrvTurn, SrvOnly
    <2>2. PICK n : n = srv'
      OBVIOUS
    <2>3. n.wkp = srv.wkp /\ n.stage \in {"SEND", "WAIT"}
      BY <1>0, <2>1, <2>2
    <2>4. Goal(n)
      BY <2>1, <2>3
    <2> QED
      BY <2>1, <2>2, <2>4
  <1>4. CASE NextAgain \/ IntoAgain
    <2>1. /\ settings' = settings /\ srv' = [srv EXCEPT !.fail_cnt = srv.fail_cnt + 1]
      BY <1>4 DEF NextAgain, IntoAgain, SrvOnly
    <2>2. PICK n : n = srv'
      OBVIOUS
    <2>3. n.wkp = srv.wkp /\ n.stage = srv.stage /\ n.error_code = srv.error_code
      BY <1>0, <2>1, <2>2
    <2>4. Goal(n)
      BY <2>1, <2>3
    <2> QED
      BY <2>1, <2>2, <2>4
  <1>5. CASE NextFails
    <2>1. /\ srv.stage = "NEXT" /\ settings' = settings
          /\ srv' = [srv EXCEPT !.fail_cnt = 0, !.error_code = "NEXT", !.stage = "INTO"]
      BY <1>5 DEF NextFails, SrvTurn, SrvOnly
    <2>2. PICK n : n = srv'
      OBVIOUS
    <2>3. n.wkp = srv.wkp /\ n.stage = "INTO" /\ n.error_code = "NEXT"
      BY <1>0, <2>1, <2>2
    <2>4. Goal(n)
      BY <2>1, <2>3
    <2> QED
      BY <2>1, <2>2, <2>4
  <1>6. CASE NextDone
    <2>1. /\ srv.stage = "NEXT" /\ settings' = settings /\ copy.next = srv.wkp
          /\ srv' = [srv EXCEPT !.stage = "INTO"]
      BY <1>6 DEF NextDone, SrvTurn, SrvOnly, To
    <2>2. PICK n : n = srv'
      OBVIOUS
    <2>3. n.wkp = srv.wkp /\ n.stage = "INTO"
      BY <1>0, <2>1, <2>2
    <2>4. Goal(n)
      BY <2>1, <2>3
    <2> QED
      BY <2>1, <2>2, <2>4
  <1>7. CASE IntoFails
    <2>1. /\ srv.stage = "INTO" /\ settings' = settings
          /\ srv' = [srv EXCEPT !.error_code = "SLEEP", !.stage = "CLOSE"]
      BY <1>7 DEF IntoFails, SrvTurn, SrvOnly
    <2>2. PICK n : n = srv'
      OBVIOUS
    <2>3. n.wkp = srv.wkp /\ n.stage = "CLOSE" /\ n.error_code = "SLEEP"
      BY <1>0, <2>1, <2>2
    <2>4. Goal(n)
      BY <2>1, <2>3
    <2> QED
      BY <2>1, <2>2, <2>4
  <1>8. CASE IntoDone
    <2>1. /\ srv.stage = "INTO" /\ settings' = settings /\ copy.wait
          /\ srv' = [srv EXCEPT !.stage = "CLOSE"]
      BY <1>8 DEF IntoDone, SrvTurn, SrvOnly, To
    <2>2. PICK n : n = srv'
      OBVIOUS
    <2>3. n.wkp = srv.wkp /\ n.stage = "CLOSE" /\ n.error_code = srv.error_code
      BY <1>0, <2>1, <2>2
    <2>4. Goal(n)
      BY <2>1, <2>3
    <2> QED
      BY <2>1, <2>2, <2>4
  <1> QED
    BY <1>1, <1>2, <1>3, <1>4, <1>5, <1>6, <1>7, <1>8 DEF Plain, SrvProc, Fresh

(* A service that starts has no time, and the registers are known. *)
LEMMA FreshService ==
    ASSUME IInv, Fresh
    PROVE  /\ settings' = settings /\ srv'.wkp.at = 0 /\ srv'.stage = "INIT"
           /\ seen # "nothing"
  BY DEF Fresh, QueryDone, ChangeMode, Service, NoTime, IInv, Staged

LEMMA SetService ==
    ASSUME IInv, PraperIntoLpm
    PROVE  /\ srv'.wkp \in WakeTimes /\ srv'.wkp.at # 0 /\ srv'.stage = "NEXT"
           /\ ring' = Queued(ring, "next", srv'.wkp)
           /\ settings' = IF settings < 2 THEN settings + 1 ELSE 2
           /\ seen # "nothing"
  <1>0. srv = [stage |-> srv.stage, track |-> srv.track, wkp |-> srv.wkp,
               fail_cnt |-> srv.fail_cnt, error_code |-> srv.error_code]
    BY DEF IInv, TypeOK, ExpmuTypeOK
  <1>1. PICK w \in NextTimes :
          /\ srv' = [srv EXCEPT !.wkp = w, !.fail_cnt = 0, !.stage = "NEXT"]
          /\ ring' = Queued(ring, "next", w)
    BY DEF PraperIntoLpm
  <1>2. srv'.wkp = w /\ srv'.stage = "NEXT"
    BY <1>0, <1>1
  <1> QED
    BY <1>1, <1>2 DEF NextTimes, PraperIntoLpm, SrvTurn, IInv, Staged

LEMMA KeptLines == ASSUME TypeOK PROVE Lines
  BY DEF TypeOK, PmuTypeOK, Lines

LEMMA AllowedType == ASSUME TypeOK PROVE Allowed \subseteq WakeTimes
  BY DEF TypeOK, ExpmuTypeOK, Allowed

LEMMA PlainFits == ASSUME IInv, Plain PROVE Fit(ring', Allowed', toPmu, toMpu)
  <1>1. Fit(ring, Allowed, toPmu, toMpu)
    BY DEF IInv, RingFits
  <1>2. Lines /\ NoTime \in WakeTimes /\ srv.wkp \in WakeTimes /\ settings \in 0 .. 2
        /\ Allowed \subseteq WakeTimes
    BY KeptLines, NoTimeType, AllowedType DEF IInv, TypeOK, ExpmuTypeOK
  <1>3. CASE Fresh
    <2>1. Allowed \subseteq Allowed'
      BY <1>2, <1>3, FreshService DEF Allowed
    <2>2. PICK W : W = Allowed'
      OBVIOUS
    <2>3. Fit(ring, W, toPmu, toMpu) /\ Fit(<<>>, W, toPmu, toMpu)
      BY <1>1, <2>1, <2>2, FitMore, FitEmpty
    <2>4. Fit(ForceWork(ring), W, toPmu, toMpu) /\ Fit(ForceWork(<<>>), W, toPmu, toMpu)
      BY <1>2, <2>3, FitForce
    <2>5. ring' = ForceWork(ring) \/ ring' = ForceWork(<<>>)
      BY <1>3 DEF Fresh, QueryDone, ChangeMode, Clear
    <2> QED
      BY <2>2, <2>4, <2>5
  <1>4. CASE PraperIntoLpm
    <2>1. PICK w \in WakeTimes : w = srv'.wkp /\ w.at # 0
      BY <1>4, SetService
    <2>2. Allowed \subseteq Allowed' /\ w \in Allowed'
      BY <1>2, <1>4, <2>1, SetService DEF Allowed
    <2>3. PICK W : W = Allowed'
      OBVIOUS
    <2>4. Fit(ring, W, toPmu, toMpu)
      BY <1>1, <2>2, <2>3, FitMore
    <2>5. Fit(Queued(ring, "next", w), W, toPmu, toMpu)
      BY <1>2, <2>2, <2>3, <2>4, FitQueued DEF Kinds
    <2> QED
      BY <1>4, <2>1, <2>3, <2>5, SetService
  <1>5. CASE ~Fresh /\ ~PraperIntoLpm
    <2>1. Allowed' = Allowed
      BY <1>5, SameService DEF Allowed, IInv
    <2>2. PICK W : W = Allowed
      OBVIOUS
    <2>3. /\ Fit(ring, W, toPmu, toMpu)
          /\ Fit(<<>>, W, toPmu, toMpu)
      BY <1>1, <2>2, FitEmpty
    <2>4. Fit(Reads(ring), W, toPmu, toMpu)
      BY <1>2, <2>3, FitReads
    <2>5. \A k \in Kinds \ {"next"} : Fit(Queued(ring, k, NoTime), W, toPmu, toMpu)
      BY <1>2, <2>3, FitQueued
    <2>6. CASE \/ InitAgain \/ InitDone \/ QueryAgain \/ OrderSleep \/ GpsFixed
               \/ Close \/ LastCallEnds
      <3>1. \/ ring' = ring \/ ring' = Reads(ring)
            \/ \E k \in Kinds \ {"next"} : ring' = Queued(ring, k, NoTime)
        BY <2>6 DEF InitAgain, InitDone, QueryAgain, OrderSleep, GpsFixed, Close, LastCallEnds,
                    Kinds
      <3> QED
        BY <2>1, <2>2, <2>3, <2>4, <2>5, <3>1
    <2>7. CASE WorkRead
      <3>1. PICK r : r = Queued(ring, "read", NoTime)
        OBVIOUS
      <3>2. Fit(r, W, toPmu, toMpu)
        BY <2>5, <3>1 DEF Kinds
      <3>3. Fit(Queued(r, "calib", NoTime), W, toPmu, toMpu)
        BY <1>2, <3>2, FitQueued DEF Kinds
      <3> QED
        BY <2>1, <2>2, <2>7, <3>1, <3>2, <3>3 DEF WorkRead
    <2>8. CASE SrvInit \/ Reported \/ TrackOpen \/ TrackReport \/ TrackReported
      <3>1. ring' = ring \/ ring' = <<>>
        BY <2>8 DEF SrvInit, Reported, TrackOpen, TrackReport, TrackReported, Clear
      <3> QED
        BY <2>1, <2>2, <2>3, <3>1
    <2>9. CASE NextAgain
      <3>1. ring' = Queued(ring, "next", srv.wkp) /\ srv.stage = "NEXT"
        BY <2>9 DEF NextAgain, SrvTurn
      <3>2. srv.wkp \in W
        BY <1>2, <2>2, <3>1 DEF IInv, Staged, Allowed
      <3>3. Fit(Queued(ring, "next", srv.wkp), W, toPmu, toMpu)
        BY <1>2, <2>3, <3>2, FitQueued DEF Kinds
      <3> QED
        BY <2>1, <2>2, <3>1, <3>3
    <2>10. CASE NextFails \/ NextDone \/ IntoAgain \/ IntoFails \/ IntoDone
      <3>1. \/ ring' = ring \/ \E k \in Kinds \ {"next"} : ring' = Queued(ring, k, NoTime)
        BY <2>10 DEF NextFails, NextDone, IntoAgain, IntoFails, IntoDone, Kinds
      <3> QED
        BY <2>1, <2>2, <2>3, <2>5, <3>1
    <2> QED
      BY <1>5, <2>6, <2>7, <2>8, <2>9, <2>10 DEF Plain, SrvProc, Fresh
  <1> QED
    BY <1>3, <1>4, <1>5

LEMMA PlainIInv == ASSUME IInv, Plain PROVE IInv'
  <1>1. /\ UNCHANGED <<event, pc, reg, alarm, due, rtcOk, mpuOn, toPmu, toMpu, seen, copy>>
        /\ mpuOn
    BY PlainRest DEF pmuSide, pmuVars, line, On
  <1>2. Fit(ring', Allowed', toPmu, toMpu)
    BY PlainFits
  <1>3. TypeOK /\ TypeOK'
    BY <1>2, PlainType DEF IInv, Fit
  <1>4. Off' /\ Woken'
    BY <1>1 DEF IInv, Off, Woken
  <1>5. RingFits'
    BY <1>1, <1>2 DEF RingFits
  <1>6. Going' = Going /\ InForce' = InForce
    BY <1>1 DEF Going, InForce
  <1>7. settings \in 0 .. 2
    BY <1>3 DEF TypeOK, ExpmuTypeOK
  <1>8. CASE Fresh
    <2>1. Staged'
      BY <1>1, <1>8, FreshService DEF Staged
    <2>2. Seen'
      BY <1>1, <1>6, <1>8, FreshService DEF Seen, IInv
    <2>3. Writes(toPmu, Allowed')
      <3>1. Allowed \subseteq Allowed'
        BY <1>3, <1>7, <1>8, FreshService, AllowedType DEF Allowed
      <3>2. Writes(toPmu, Allowed)
        BY <1>8, FreshService DEF IInv, LineWrites, Stale
      <3> QED
        BY <3>1, <3>2 DEF Writes
    <2>4. LineWrites'
      BY <1>1, <2>3 DEF LineWrites
    <2>5. \A c : Vouched(c) => Vouched(c)'
      BY <1>6, <1>8, FreshService DEF Vouched
    <2>6. Trusted'
      BY <1>1, <2>5 DEF IInv, Trusted
    <2>7. ConfirmedAlarm'
      BY <1>8, FreshService DEF ConfirmedAlarm
    <2> QED
      BY <1>3, <1>4, <1>5, <2>1, <2>2, <2>4, <2>6, <2>7 DEF IInv
  <1>9. CASE PraperIntoLpm
    <2>0. settings' # 0 /\ (settings' = 1 => settings = 0)
      BY <1>7, <1>9, SetService
    <2>1. Staged'
      BY <1>1, <1>9, <2>0, SetService DEF Staged
    <2>2. Seen'
      BY <1>1, <1>6, <1>9, SetService DEF Seen, IInv
    <2>3. Writes(toPmu, Allowed')
      <3>1. Allowed \subseteq Allowed'
        BY <1>3, <1>7, <1>9, SetService, AllowedType DEF Allowed
      <3>2. Writes(toPmu, Allowed)
        BY <1>9, SetService DEF IInv, LineWrites, Stale
      <3> QED
        BY <3>1, <3>2 DEF Writes
    <2>4. LineWrites'
      BY <1>1, <2>3 DEF LineWrites
    <2>5. \A c : Vouched(c) => Vouched(c)'
      BY <1>6, <1>9, <2>0, SetService DEF Vouched
    <2>6. Trusted'
      BY <1>1, <2>5 DEF IInv, Trusted
    <2>7. ConfirmedAlarm'
      BY <1>9, SetService DEF ConfirmedAlarm
    <2> QED
      BY <1>3, <1>4, <1>5, <2>1, <2>2, <2>4, <2>6, <2>7 DEF IInv
  <1>10. CASE ~Fresh /\ ~PraperIntoLpm
    <2>0. settings' = settings /\ srv'.wkp = srv.wkp
      BY <1>3, <1>10, SameService
    <2>1. Staged'
      BY <1>1, <1>3, <1>10, SameService DEF Staged, IInv
    <2>2. Seen'
      BY <1>1, <1>3, <1>6, <1>10, SameService DEF Seen, IInv
    <2>3. LineWrites'
      BY <1>1, <2>0 DEF LineWrites, Stale, Allowed, Writes, IInv
    <2>5. \A c : Vouched(c) => Vouched(c)'
      BY <1>6, <2>0 DEF Vouched
    <2>6. Trusted'
      BY <1>1, <2>5 DEF IInv, Trusted
    <2>7. ConfirmedAlarm'
      <3>1. SUFFICES ASSUME settings' = 1, srv'.stage \in {"INTO", "CLOSE"},
                            srv'.error_code = "none"
                     PROVE  InForce' = srv'.wkp
        BY DEF ConfirmedAlarm, InForce
      <3>2. CASE copy.next = srv.wkp
        <4>1. srv.stage \in {"NEXT", "INTO", "CLOSE"}
          BY <1>3, <1>10, <3>1, SameService
        <4>2. srv.wkp.at # 0 /\ settings = 1 /\ Vouched(copy.next)
          BY <2>0, <3>1, <4>1 DEF IInv, Staged, Trusted
        <4> QED
          BY <1>6, <2>0, <3>2, <4>2 DEF Vouched
      <3>3. CASE srv.stage \in {"INTO", "CLOSE"} /\ srv.error_code = "none"
        <4>1. InForce = srv.wkp
          BY <2>0, <3>1, <3>3 DEF IInv, ConfirmedAlarm, InForce
        <4> QED
          BY <1>6, <2>0, <4>1
      <3> QED
        BY <1>3, <1>10, <3>1, <3>2, <3>3, SameService
    <2> QED
      BY <1>3, <1>4, <1>5, <2>1, <2>2, <2>3, <2>6, <2>7 DEF IInv
  <1> QED
    BY <1>8, <1>9, <1>10

-----------------------------------------------------------------------------
(* The line: what is sent and what is received.                            *)

LEMMA FitAttempt ==
    ASSUME NEW in, NEW out, NEW W, NEW q, Fit(q, W, in, out), q # <<>>
    PROVE  Fit(Attempt(q), W, in, out)
  <1>1. CASE ~Attempting(q)
    BY <1>1, FitTail DEF Attempt
  <1>2. CASE Attempting(q)
    <2>1. q \in Seq(Frame) /\ Len(q) \in Nat \ {0} /\ DOMAIN q = 1 .. Len(q)
      BY DEF Fit, Rings
    <2>2. PICK h \in Frame : h = q[1] /\ h = Head(q)
      BY <2>1
    <2>3. h.retry + 1 \in 0 .. MAX_RETRY - 1
      BY <1>2, <2>2, RingAssumption DEF Attempting, Frame
    <2>4. PICK n \in 0 .. MAX_RETRY - 1 : n = h.retry + 1
      BY <2>3
    <2>5. PICK g : g = [h EXCEPT !.retry = n]
      OBVIOUS
    <2>6. g \in Frame /\ g.mark = h.mark /\ g.kind = h.kind /\ g.next = h.next
      BY <2>5 DEF Frame
    <2>7. Attempt(q) = [q EXCEPT ![1] = g]
      BY <1>2, <2>1, <2>2, <2>4, <2>5 DEF Attempt
    <2>8. PICK r : r = [q EXCEPT ![1] = g]
      OBVIOUS
    <2>9. r \in Seq(Frame) /\ DOMAIN r = DOMAIN q
      BY <2>1, <2>6, <2>8
    <2>10. \A i \in DOMAIN q : r[i].mark = q[i].mark /\ r[i].kind = q[i].kind
                               /\ r[i].next = q[i].next
      BY <2>1, <2>2, <2>6, <2>8
    <2>11. Distinct(r) /\ Agrees(r, in) /\ Agrees(r, out) /\ Writes(r, W)
      BY <2>9, <2>10 DEF Fit, Distinct, Agrees, Writes
    <2> QED
      BY <2>7, <2>8, <2>9, <2>11 DEF Fit, Rings
  <1> QED
    BY <1>1, <1>2

(* A frame of the ring that goes out on the line is still itself in the ring. *)
LEMMA FitSent ==
    ASSUME NEW in, NEW out, NEW W, NEW q, Fit(q, W, in, out), q # <<>>, NEW sent,
           sent \in {in, <<>>, <<Head(q)>>}
    PROVE  Fit(Attempt(q), W, sent, out)
  <1>1. Fit(Attempt(q), W, in, out)
    BY FitAttempt
  <1>2. PICK r : r = Attempt(q)
    OBVIOUS
  <1>3. CASE sent = in
    BY <1>1, <1>3
  <1>4. CASE sent = <<>>
    BY <1>1, <1>2, <1>4 DEF Fit, Agrees
  <1>5. CASE sent = <<Head(q)>>
    <2>1. q \in Seq(Frame) /\ Len(q) \in Nat \ {0} /\ DOMAIN q = 1 .. Len(q)
      BY DEF Fit, Rings
    <2>2. PICK h : h = Head(q) /\ h = q[1] /\ h \in Frame
      BY <2>1
    <2>3. DOMAIN sent = 1 .. 1 /\ sent[1] = h
      BY <1>5, <2>2
    <2>4. Fit(q, W, sent, out)
      BY <2>1, <2>2, <2>3 DEF Fit, Distinct, Agrees
    <2> QED
      BY <2>4, FitAttempt
  <1> QED
    BY <1>3, <1>4, <1>5

LEMMA PushIInv == ASSUME IInv, Push PROVE IInv'
  <1>1. /\ UNCHANGED <<event, pc, reg, alarm, due, rtcOk, mpuOn, toMpu, expmu, seen, copy, srv,
                       gpsOn, timer, settings, mode>>
        /\ mpuOn /\ ring # <<>> /\ ring' = Attempt(ring)
    BY DEF Push, pmuSide, pmuVars, IsEmpty
  <1>2. TypeOK /\ Fit(ring, Allowed, toPmu, toMpu)
    BY DEF IInv, RingFits
  <1>3. PICK h \in Frame : h = Head(ring) /\ h = ring[1] /\ 1 \in DOMAIN ring
    BY <1>1, <1>2 DEF Fit, Rings
  <1>4. toPmu' = toPmu \/ toPmu' = <<>> \/ toPmu' = <<h>>
    BY <1>3 DEF Push
  <1>5. Allowed' = Allowed /\ Going' = Going /\ InForce' = InForce /\ Stale' = Stale
    BY <1>1 DEF Allowed, Going, InForce, Stale
  <1>6. Fit(ring', Allowed, toPmu', toMpu)
    BY <1>1, <1>2, <1>3, <1>4, FitSent
  <1>7. TypeOK'
    <2>1. toPmu' \in Seq(Frame) /\ Len(toPmu') <= 1
      BY <1>2, <1>4, NoFrames, OneFrame DEF TypeOK, PmuTypeOK
    <2>2. PmuTypeOK'
      BY <1>1, <1>2, <2>1 DEF TypeOK, PmuTypeOK
    <2>3. ExpmuTypeOK'
      BY <1>1, <1>2, <1>6 DEF TypeOK, ExpmuTypeOK, Fit
    <2> QED
      BY <2>2, <2>3 DEF TypeOK
  <1>8. LineWrites'
    <2>1. CASE toPmu' = toPmu
      BY <1>5, <2>1 DEF IInv, LineWrites, Writes
    <2>2. CASE toPmu' = <<>>
      BY <2>2 DEF LineWrites, Writes
    <2>3. CASE toPmu' = <<h>>
      <3>1. DOMAIN toPmu' = 1 .. 1 /\ toPmu'[1] = h
        BY <2>3
      <3>2. Writes(toPmu', Allowed)
        BY <1>2, <1>3, <3>1 DEF Fit, Writes
      <3> QED
        BY <1>5, <3>2 DEF LineWrites
    <2> QED
      BY <1>4, <2>1, <2>2, <2>3
  <1>9. RingFits'
    BY <1>1, <1>5, <1>6 DEF RingFits
  <1>10. Off' /\ Woken' /\ Staged'
    BY <1>1 DEF IInv, Off, Woken, Staged
  <1>11. Seen'
    BY <1>1, <1>5 DEF IInv, Seen
  <1>12. \A c : Vouched(c) => Vouched(c)'
    BY <1>1, <1>5 DEF Vouched
  <1>13. Trusted'
    BY <1>1, <1>12 DEF IInv, Trusted
  <1>14. ConfirmedAlarm'
    BY <1>1 DEF IInv, ConfirmedAlarm
  <1> QED
    BY <1>7, <1>8, <1>9, <1>10, <1>11, <1>13, <1>14 DEF IInv

LEMMA ReceiveIInv == ASSUME IInv, Receive PROVE IInv'
  <1>1. /\ UNCHANGED <<event, pc, reg, alarm, due, rtcOk, mpuOn, toPmu, expmu, srv,
                       gpsOn, timer, settings, mode>>
        /\ mpuOn /\ toMpu # <<>> /\ toMpu' = <<>>
    BY DEF Receive, pmuSide, pmuVars
  <1>2. TypeOK /\ Fit(ring, Allowed, toPmu, toMpu)
    BY DEF IInv, RingFits
  <1>3. PICK a \in Answer : a = toMpu[1] /\ 1 \in DOMAIN toMpu
    BY <1>1, <1>2 DEF TypeOK, PmuTypeOK
  <1>4. /\ ring' = Delete(ring, a.mark)
        /\ copy' = copy \/ copy' = a.reg
        /\ seen' \in {"map", "registers", seen} /\ (seen # "nothing" => seen' # "nothing")
    BY <1>3 DEF Receive
  <1>5. Allowed' = Allowed /\ Going' = Going /\ InForce' = InForce
    BY <1>1 DEF Allowed, Going, InForce
  <1>6. Fit(ring', Allowed, toPmu, toMpu')
    <2>1. Fit(ring', Allowed, toPmu, toMpu)
      BY <1>2, <1>4, FitDelete
    <2> QED
      BY <1>1, <2>1 DEF Fit, Agrees
  <1>7. TypeOK'
    <2>1. toMpu' \in Seq(Answer) /\ Len(toMpu') <= 1
      BY <1>1, NoFrames
    <2>2. copy' \in Registers
      BY <1>2, <1>4 DEF TypeOK, ExpmuTypeOK, Answer
    <2>3. PmuTypeOK'
      BY <1>1, <1>2, <2>1 DEF TypeOK, PmuTypeOK
    <2>4. ExpmuTypeOK'
      BY <1>1, <1>2, <1>4, <1>6, <2>2 DEF TypeOK, ExpmuTypeOK, Fit
    <2> QED
      BY <2>3, <2>4 DEF TypeOK
  <1>8. LineWrites'
    <2>1. Writes(toPmu, Allowed)
      BY <1>1 DEF IInv, LineWrites, Stale
    <2> QED
      BY <1>1, <1>5, <2>1 DEF LineWrites
  <1>9. RingFits'
    BY <1>1, <1>5, <1>6 DEF RingFits
  <1>10. Off' /\ Woken' /\ Staged'
    BY <1>1, <1>4 DEF IInv, Off, Woken, Staged
  <1>11. Seen'
    BY <1>1, <1>3, <1>4, <1>5 DEF IInv, Seen
  <1>12. \A c : Vouched(c) => Vouched(c)'
    BY <1>1, <1>5 DEF Vouched
  <1>13. Trusted'
    <2>1. Vouched(copy.next) /\ Vouched(a.reg.next)
      BY <1>3 DEF IInv, Trusted
    <2>3. Vouched(copy.next)'
      <3>1. PICK c : c = copy'.next
        OBVIOUS
      <3>2. c = copy.next \/ c = a.reg.next
        BY <1>4, <3>1
      <3>3. Vouched(c)
        BY <2>1, <3>2
      <3>4. Vouched(c)'
        BY <1>12, <3>3
      <3> QED
        BY <3>1, <3>4 DEF Vouched
    <2>4. DOMAIN toMpu' = {}
      BY <1>1
    <2> QED
      BY <2>3, <2>4 DEF Trusted
  <1>14. ConfirmedAlarm'
    BY <1>1 DEF IInv, ConfirmedAlarm
  <1> QED
    BY <1>7, <1>8, <1>9, <1>10, <1>11, <1>13, <1>14 DEF IInv

(* The program starts afresh, whatever still waits at the unit. *)
LEMMA BootIInv ==
    ASSUME IInv, Boot, TypeOK', toMpu' = <<>>, toPmu' \in {toPmu, <<>>}, Woken'
    PROVE  IInv'
  <1>1. /\ settings' = 0 /\ seen' = "nothing" /\ copy' = NoRegisters /\ ring' = <<>>
        /\ srv' = Service("none")
    BY DEF Boot, EmptyRing
  <1>2. /\ srv'.stage = "none" /\ copy'.wait = FALSE /\ copy'.next.at = 0
    BY <1>1 DEF Service, NoRegisters, NoTime
  <1>3. DOMAIN toMpu' = {}
    OBVIOUS
  <1>4. Off' /\ Staged'
    BY <1>1, <1>2 DEF Off, Staged
  <1>5. Seen'
    BY <1>2, <1>3 DEF Seen
  <1>6. RingFits'
    BY <1>1, FitEmpty DEF RingFits
  <1>7. LineWrites'
    BY <1>1 DEF LineWrites, Stale
  <1>8. Trusted' /\ ConfirmedAlarm'
    BY <1>1, <1>2, <1>3 DEF Trusted, Vouched, ConfirmedAlarm
  <1> QED
    BY <1>4, <1>5, <1>6, <1>7, <1>8 DEF IInv

LEMMA RebootIInv == ASSUME IInv, Reboot PROVE IInv'
  <1>1. /\ UNCHANGED <<event, pc, reg, alarm, due, rtcOk, mpuOn, mode>>
        /\ Boot /\ toPmu' = <<>> /\ toMpu' = <<>>
    BY DEF Reboot, pmuSide, pmuVars
  <1>2. Woken'
    BY <1>1 DEF IInv, Woken
  <1>3. toPmu' \in Seq(Frame) /\ toMpu' \in Seq(Answer) /\ Len(toPmu') <= 1 /\ Len(toMpu') <= 1
    BY <1>1, NoFrames
  <1>4. ExpmuTypeOK'
    BY <1>1, BootType DEF IInv, TypeOK, ExpmuTypeOK
  <1>5. TypeOK'
    BY <1>1, <1>3, <1>4 DEF IInv, TypeOK, PmuTypeOK
  <1> QED
    BY <1>1, <1>2, <1>5, BootIInv

-----------------------------------------------------------------------------
(* The unit's steps.                                                       *)

LEMMA UnitSleepsIInv == ASSUME IInv, UnitSleeps PROVE IInv'
  <1>1. TypeOK'
    BY UnitType DEF IInv
  <1>2. Woken'
    BY DEF UnitSleeps, EnterLpm, Turn, Woken
  <1> QED
    BY <1>1, <1>2, BootIInv DEF UnitSleeps, EnterLpm

LEMMA UnitCountsIInv == ASSUME IInv, UnitCounts PROVE IInv'
  <1>1. TypeOK /\ TypeOK'
    BY UnitType DEF IInv
  <1>2. CASE ~rtcOk
    <2>1. Boot /\ toMpu' = <<>> /\ toPmu' = toPmu /\ UNCHANGED <<event, mpuOn>>
      BY <1>2 DEF UnitCounts, CountedDown
    <2>2. Woken'
      BY <2>1 DEF IInv, Woken
    <2> QED
      BY <1>1, <2>1, <2>2, BootIInv
  <1>3. CASE rtcOk
    <2>1. /\ UNCHANGED <<toMpu, toPmu, alarm, mpuOn, expmu, seen, copy, ring, srv, gpsOn, timer,
                         settings, mode>>
          /\ event = "WAIT_LPM" /\ event' = "PREPARE_ENTER_LPM"
          /\ reg' = [reg EXCEPT !.wait = FALSE]
      BY <1>3 DEF UnitCounts, CountedDown, Turn, expmuVars
    <2>2. reg'.next = reg.next
      BY <1>1, <2>1 DEF TypeOK, PmuTypeOK, Registers
    <2>3. Going' /\ InForce' = InForce /\ Allowed' = Allowed /\ Stale' = Stale
      BY <2>1, <2>2 DEF Going, InForce, Allowed, Stale
    <2>4. Off' /\ Woken' /\ Staged' /\ Seen'
      BY <2>1, <2>3 DEF IInv, Off, Woken, Staged, Seen
    <2>5. RingFits' /\ LineWrites'
      BY <2>1, <2>3 DEF IInv, RingFits, LineWrites, Writes
    <2>6. \A c : Vouched(c) => Vouched(c)'
      BY <2>1, <2>3 DEF Vouched
    <2>7. Trusted'
      BY <2>1, <2>6 DEF IInv, Trusted
    <2>8. ConfirmedAlarm'
      BY <2>1, <2>2 DEF IInv, ConfirmedAlarm
    <2> QED
      BY <1>1, <2>4, <2>5, <2>7, <2>8 DEF IInv
  <1> QED
    BY <1>2, <1>3

LEMMA WrittenIs ==
    ASSUME reg \in Registers, NEW f \in Frame
    PROVE  /\ reg.wait => Written(f).wait
           /\ f.kind # "next" => Written(f).next = reg.next
           /\ f.kind = "next" /\ f.next = reg.next => Written(f).next = reg.next
  <1> DEFINE n == [at |-> f.next.at,
                   day |-> IF f.next.day = 0 THEN reg.next.day ELSE f.next.day]
  <1>1. reg.next = [at |-> reg.next.at, day |-> reg.next.day]
    BY DEF Registers, WakeTimes
  <1>2. f.next = reg.next => n = reg.next
    BY <1>1
  <1> HIDE DEF n
  <1>3. /\ [reg EXCEPT !.force = TRUE].next = reg.next
        /\ [reg EXCEPT !.wait = TRUE].next = reg.next
        /\ [reg EXCEPT !.next = n].next = n
    BY DEF Registers
  <1>4. /\ [reg EXCEPT !.force = TRUE].wait = reg.wait
        /\ [reg EXCEPT !.wait = TRUE].wait = TRUE
        /\ [reg EXCEPT !.next = n].wait = reg.wait
    BY DEF Registers
  <1>5. /\ f.kind = "next" => Written(f) = [reg EXCEPT !.next = n]
        /\ f.kind = "force" => Written(f) = [reg EXCEPT !.force = TRUE]
        /\ f.kind = "sleep" => Written(f) = [reg EXCEPT !.wait = TRUE]
        /\ f.kind \notin {"next", "force", "sleep"} => Written(f) = reg
    BY DEF Written, n
  <1>6. reg.wait => Written(f).wait
    BY <1>4, <1>5
  <1>7. f.kind # "next" => Written(f).next = reg.next
    BY <1>3, <1>5
  <1>8. f.kind = "next" /\ f.next = reg.next => Written(f).next = reg.next
    BY <1>2, <1>3, <1>5
  <1> QED
    BY <1>6, <1>7, <1>8

LEMMA UnitServesIInv == ASSUME IInv, UnitServes PROVE IInv'
  <1>1. /\ UNCHANGED <<event, alarm, mpuOn, expmu, seen, copy, ring, srv, gpsOn, timer,
                       settings, mode>>
        /\ event = "WAIT_LPM" /\ toPmu # <<>> /\ toMpu = <<>> /\ toPmu' = <<>>
    BY DEF UnitServes, Serve, Turn, KeepTracker, expmuVars
  <1>2. TypeOK /\ TypeOK' /\ Fit(ring, Allowed, toPmu, toMpu)
    BY UnitType DEF IInv, RingFits
  <1>3. PICK f \in Frame : f = toPmu[1] /\ 1 \in DOMAIN toPmu
    BY <1>1, <1>2 DEF TypeOK, PmuTypeOK
  <1>4. reg' = Written(f)
    BY <1>3 DEF UnitServes, Serve
  <1>5. PICK a : a = [mark |-> f.mark, kind |-> f.kind, reg |-> reg']
    OBVIOUS
  <1>6. toMpu' = <<>> \/ toMpu' = <<a>>
    BY <1>3, <1>5 DEF UnitServes, Serve
  <1>7. \A i \in DOMAIN toMpu' : toMpu'[i] = a
    BY <1>6
  <1>8. /\ reg.wait => reg'.wait
        /\ f.kind # "next" => reg'.next = reg.next
        /\ f.kind = "next" /\ f.next = reg.next => reg'.next = reg.next
    BY <1>2, <1>4, WrittenIs DEF TypeOK, PmuTypeOK
  <1>9. (Going => Going') /\ (a.reg.wait => Going') /\ a.reg.next = reg'.next
        /\ a.mark = f.mark /\ a.kind = f.kind
    BY <1>1, <1>5, <1>8 DEF Going
  <1>10. Allowed' = Allowed /\ InForce' = reg'.next /\ InForce = reg.next
    BY <1>1 DEF Allowed, InForce
  <1>11. f.kind = "next" => f.next \in Allowed \/ Stale
    BY <1>3 DEF IInv, LineWrites, Writes
  <1>12. Off' /\ Woken' /\ Staged'
    <2>1. mpuOn
      BY <1>1 DEF IInv, Woken
    <2> QED
      BY <1>1, <2>1 DEF IInv, Off, Woken, Staged
  <1>13. Seen'
    BY <1>1, <1>7, <1>9 DEF IInv, Seen
  <1>14. RingFits'
    <2>1. Agrees(ring, toMpu')
      BY <1>2, <1>3, <1>7, <1>9 DEF Fit, Agrees
    <2>2. Agrees(ring, toPmu')
      BY <1>1 DEF Agrees
    <2> QED
      BY <1>1, <1>2, <1>10, <2>1, <2>2 DEF RingFits, Fit
  <1>15. LineWrites'
    BY <1>1 DEF LineWrites, Writes
  <1>16. Trusted'
    <2>1. Vouched(copy.next)
      BY DEF IInv, Trusted
    <2>2. settings = 0 /\ copy.next.at # 0 => reg'.next = copy.next
      <3>1. SUFFICES ASSUME settings = 0, copy.next.at # 0 PROVE reg'.next = copy.next
        OBVIOUS
      <3>2. f.kind # "next"
        BY <1>11, <3>1 DEF Allowed, Stale, NoRegisters, NoTime
      <3> QED
        BY <1>8, <1>10, <2>1, <3>1, <3>2 DEF Vouched
    <2>3. settings = 1 /\ srv.wkp.at # 0 /\ copy.next = srv.wkp => reg'.next = srv.wkp
      <3>1. SUFFICES ASSUME settings = 1, srv.wkp.at # 0, copy.next = srv.wkp
                     PROVE  reg'.next = srv.wkp
        OBVIOUS
      <3>2. f.kind = "next" => f.next = srv.wkp
        BY <1>11, <3>1 DEF Allowed, Stale
      <3> QED
        BY <1>8, <1>10, <2>1, <3>1, <3>2 DEF Vouched
    <2>4. Vouched(copy.next)'
      BY <1>1, <1>10, <2>2, <2>3 DEF Vouched
    <2>5. \A i \in DOMAIN toMpu' : toMpu'[i].reg.next = reg'.next
      BY <1>7, <1>9
    <2>6. \A i \in DOMAIN toMpu' : Vouched(toMpu[i].reg.next)'
      BY <1>10, <2>5 DEF Vouched
    <2> QED
      BY <2>4, <2>6 DEF Trusted
  <1>17. ConfirmedAlarm'
    <2>1. SUFFICES ASSUME settings = 1, srv.stage \in {"INTO", "CLOSE"}, srv.error_code = "none"
                   PROVE  reg'.next = srv.wkp
      BY <1>1 DEF ConfirmedAlarm
    <2>2. srv.wkp.at # 0 /\ reg.next = srv.wkp
      BY <1>1, <2>1 DEF IInv, Staged, ConfirmedAlarm
    <2>3. f.kind = "next" => f.next = srv.wkp
      BY <1>11, <2>1, <2>2 DEF Allowed, Stale
    <2> QED
      BY <1>8, <2>2, <2>3
  <1> QED
    BY <1>2, <1>12, <1>13, <1>14, <1>15, <1>16, <1>17 DEF IInv

(* The unit goes from state to state. *)
LEMMA UnitRestIInv ==
    ASSUME IInv, UnitLoops \/ UnitTimesOut \/ UnitWakes \/ Environment PROVE IInv'
  <1>1. TypeOK /\ TypeOK'
    BY UnitType DEF IInv
  <1>2. UNCHANGED <<expmu, seen, copy, ring, srv, gpsOn, timer, settings, mode, toPmu, toMpu>>
    BY DEF UnitLoops, UnitTimesOut, UnitWakes, Environment, KeepTracker, expmuVars, PowerUp,
           PrepareLpm, Halt, FromAlarm, FromLight, ExitLpm, HoldTimeout, AlarmRings, Light,
           Interrupt, TimeComes, line
  <1>3. PowerUp \/ PrepareLpm \/ Halt \/ FromAlarm \/ FromLight \/ ExitLpm \/ HoldTimeout
        \/ AlarmRings \/ Light \/ TimeComes
    BY DEF UnitLoops, UnitTimesOut, UnitWakes, Environment
  <1>4. Allowed' = Allowed /\ Stale' = Stale
    BY <1>2 DEF Allowed, Stale
  <1>5. Staged' /\ RingFits' /\ LineWrites'
    BY <1>2, <1>4 DEF IInv, Staged, RingFits, LineWrites, Writes
  <1>6. ASSUME Off', Woken', Going => Going', InForce' = InForce PROVE IInv'
    <2>1. Seen'
      BY <1>2, <1>6 DEF IInv, Seen
    <2>2. \A c : Vouched(c) => Vouched(c)'
      BY <1>2, <1>6 DEF Vouched
    <2>3. Trusted'
      BY <1>2, <2>2 DEF IInv, Trusted
    <2>4. ConfirmedAlarm'
      BY <1>2, <1>6 DEF IInv, ConfirmedAlarm, InForce
    <2> QED
      BY <1>1, <1>5, <1>6, <2>1, <2>3, <2>4 DEF IInv
  <1>7. ASSUME ~mpuOn, Off', Woken' PROVE IInv'
    <2>1. /\ settings = 0 /\ copy = NoRegisters /\ toMpu = <<>> /\ srv.stage = "none"
      BY <1>7 DEF IInv, Off
    <2>2. copy.wait = FALSE /\ copy.next.at = 0 /\ DOMAIN toMpu = {}
      BY <2>1 DEF NoRegisters, NoTime
    <2>3. Seen' /\ Trusted' /\ ConfirmedAlarm'
      BY <1>2, <2>1, <2>2 DEF Seen, Trusted, Vouched, ConfirmedAlarm
    <2> QED
      BY <1>1, <1>5, <1>7, <2>3 DEF IInv
  <1>8. CASE PrepareLpm
    <2>1. /\ event = "PREPARE_ENTER_LPM" /\ event' = "ENTER_LPM" /\ mpuOn' = mpuOn
          /\ alarm' = IF reg.next.at # 0 THEN reg.next ELSE [at |-> Own, day |-> 0]
      BY <1>8 DEF PrepareLpm, Turn
    <2>2. Off' /\ Woken' /\ Going'
      BY <1>2, <2>1 DEF IInv, Off, Woken, Going
    <2>3. Seen'
      BY <1>2, <2>2 DEF Seen
    <2>4. InForce = reg.next /\ InForce' = alarm'
      BY <2>1 DEF InForce
    <2>5. \A c : Vouched(c) => Vouched(c)'
      BY <1>2, <2>1, <2>4 DEF Vouched
    <2>6. Trusted'
      BY <1>2, <2>5 DEF IInv, Trusted
    <2>7. ConfirmedAlarm'
      BY <1>2, <2>1 DEF IInv, ConfirmedAlarm, Staged
    <2> QED
      BY <1>1, <1>5, <2>2, <2>3, <2>6, <2>7 DEF IInv
  <1>9. CASE PowerUp
    <2>1. ~mpuOn /\ Off' /\ Woken'
      BY <1>9 DEF PowerUp, Turn, IInv, Off, Woken
    <2> QED
      BY <1>7, <2>1
  <1>10. CASE Halt \/ TimeComes
    <2>1. Off' /\ Woken' /\ Going' = Going /\ InForce' = InForce
      BY <1>2, <1>10 DEF Halt, TimeComes, IInv, Off, Woken, Going, InForce
    <2> QED
      BY <1>6, <2>1
  <1>11. CASE HoldTimeout
    <2>1. Off' /\ Woken' /\ Going' /\ InForce' = InForce
      BY <1>2, <1>11 DEF HoldTimeout, Turn, IInv, Off, Woken, Going, InForce
    <2> QED
      BY <1>6, <2>1
  <1>12. CASE FromAlarm \/ FromLight \/ ExitLpm
    <2>1. ~mpuOn /\ Off' /\ Woken'
      BY <1>2, <1>12 DEF FromAlarm, FromLight, ExitLpm, Turn, IInv, Off, Woken
    <2> QED
      BY <1>7, <2>1
  <1>13. CASE AlarmRings \/ Light
    <2>1. ~mpuOn /\ Off' /\ Woken'
      BY <1>2, <1>13 DEF AlarmRings, Light, Interrupt, IInv, Off, Woken
    <2> QED
      BY <1>7, <2>1
  <1> QED
    BY <1>3, <1>8, <1>9, <1>10, <1>11, <1>12, <1>13

-----------------------------------------------------------------------------
LEMMA InitIInv == Init => IInv
  <1> SUFFICES ASSUME Init PROVE IInv
    OBVIOUS
  <1>1. /\ event = "POWER_UP" /\ pc = "loop" /\ reg = NoRegisters /\ alarm = NoTime
        /\ due = FALSE /\ rtcOk = FALSE /\ toPmu = <<>> /\ toMpu = <<>> /\ mpuOn = FALSE
        /\ expmu = NewExpmu /\ seen = "nothing" /\ copy = NoRegisters /\ ring = <<>>
        /\ srv = Service("none") /\ gpsOn = FALSE /\ timer = "runs" /\ settings = 0
        /\ mode \in Modes
    BY DEF Init, PmuInit, ExpmuInit, EmptyRing
  <1>2. toPmu \in Seq(Frame) /\ toMpu \in Seq(Answer) /\ Len(toPmu) <= 1 /\ Len(toMpu) <= 1
    BY <1>1, NoFrames
  <1>3. alarm \in [at : Times \union {0, Own}, day : 0 .. 1]
    BY <1>1 DEF NoTime
  <1>4. PmuTypeOK
    BY <1>1, <1>2, <1>3, NoTimeType DEF PmuTypeOK
  <1>5. expmu \in [status : {"INIT", "QUREY", "WORK", "ERROR"}, is_sleep : BOOLEAN,
                   fail_cnt : 0 .. MAX_FAULT_TOLERANCE + 1]
    BY <1>1, ExpmuAssumption DEF NewExpmu
  <1>6. srv \in [stage : Stages, track : {"OPEN", "REPORT"}, wkp : WakeTimes,
                 fail_cnt : Nat, error_code : {"none", "NEXT", "SLEEP"}]
    BY <1>1, ServiceType DEF Stages
  <1>7. ring \in Rings /\ copy \in Registers /\ settings \in 0 .. 2
    BY <1>1, NoTimeType DEF Rings
  <1>8. ExpmuTypeOK
    BY <1>1, <1>5, <1>6, <1>7 DEF ExpmuTypeOK
  <1>9. srv.stage = "none" /\ copy.wait = FALSE /\ copy.next.at = 0 /\ DOMAIN toMpu = {}
    BY <1>1 DEF Service, NoRegisters, NoTime
  <1>10. Off /\ Woken /\ Staged
    BY <1>1, <1>9 DEF Off, Woken, Staged
  <1>11. Seen /\ Trusted /\ ConfirmedAlarm
    BY <1>1, <1>9 DEF Seen, Trusted, Vouched, ConfirmedAlarm
  <1>12. RingFits /\ LineWrites
    BY <1>1, FitEmpty DEF RingFits, LineWrites, Stale
  <1> QED
    BY <1>4, <1>8, <1>10, <1>11, <1>12 DEF IInv, TypeOK

LEMMA StepIInv == IInv /\ [Next]_vars => IInv'
  <1> SUFFICES ASSUME IInv, [Next]_vars PROVE IInv'
    OBVIOUS
  <1>1. CASE UNCHANGED vars
    <2>1. UNCHANGED <<event, pc, reg, alarm, due, rtcOk, toPmu, toMpu, mpuOn, expmu, seen, copy,
                      ring, srv, gpsOn, timer, settings, mode>>
      BY <1>1 DEF vars, pmuVars, line, expmuVars
    <2>2. TypeOK'
      BY <2>1 DEF IInv, TypeOK, PmuTypeOK, ExpmuTypeOK
    <2>3. Allowed' = Allowed /\ Stale' = Stale /\ Going' = Going /\ InForce' = InForce
      BY <2>1 DEF Allowed, Stale, Going, InForce
    <2>4. Off' /\ Woken' /\ Staged' /\ Seen'
      BY <2>1, <2>3 DEF IInv, Off, Woken, Staged, Seen
    <2>5. RingFits' /\ LineWrites'
      BY <2>1, <2>3 DEF IInv, RingFits, LineWrites, Writes
    <2>6. Trusted' /\ ConfirmedAlarm'
      BY <2>1, <2>3 DEF IInv, Trusted, Vouched, ConfirmedAlarm
    <2> QED
      BY <2>2, <2>4, <2>5, <2>6 DEF IInv
  <1>2. CASE Next
    BY <1>2, PlainIInv, PushIInv, ReceiveIInv, RebootIInv, UnitSleepsIInv, UnitCountsIInv,
       UnitServesIInv, UnitRestIInv DEF Next, Plain, ExpmuProc, Orders
  <1> QED
    BY <1>1, <1>2

LEMMA AlwaysIInv == Spec => []IInv
  BY InitIInv, StepIInv, PTL DEF Spec

(* The registers, the frames and the copies of both sides keep their types. *)
THEOREM TypeCorrect == Spec => []TypeOK
  <1>1. IInv => TypeOK
    BY DEF IInv
  <1> QED
    BY <1>1, AlwaysIInv, PTL

(* A tracker that lets go without an error is woken at the time it set. *)
THEOREM SleepsUntilItsTime == Spec => []ConfirmedAlarm
  <1>1. IInv => ConfirmedAlarm
    BY DEF IInv
  <1> QED
    BY <1>1, AlwaysIInv, PTL

(* A tracker that has stopped its timer without an error is going to be      *)
(* switched off: it never just stops.                                        *)
THEOREM OffWhenItLetsGo == Spec => []StoppedMeansOff
  <1>1. IInv => StoppedMeansOff
    BY DEF IInv, Seen, Going, StoppedMeansOff
  <1> QED
    BY <1>1, AlwaysIInv, PTL

(* An answer is taken for the frame that asked for it. *)
THEOREM AnswersMatch == Spec => AnswerReleasesItsFrame
  <1>1. IInv /\ [Next]_vars => [Receive /\ ring' # ring => Head(ring).kind = toMpu[1].kind]_vars
    <2> SUFFICES ASSUME IInv, Receive, ring' # ring PROVE Head(ring).kind = toMpu[1].kind
      OBVIOUS
    <2>1. Fit(ring, Allowed, toPmu, toMpu) /\ toMpu \in Seq(Answer) /\ toMpu # <<>>
      BY DEF IInv, RingFits, TypeOK, PmuTypeOK, Receive
    <2>2. ring # <<>> /\ Head(ring).mark = toMpu[1].mark
      BY DEF Receive, Delete
    <2>3. ring \in Seq(Frame) /\ 1 \in DOMAIN ring /\ Head(ring) = ring[1] /\ 1 \in DOMAIN toMpu
      BY <2>1, <2>2 DEF Fit, Rings
    <2> QED
      BY <2>1, <2>2, <2>3 DEF Fit, Agrees
  <1> QED
    BY <1>1, AlwaysIInv, PTL DEF Spec, AnswerReleasesItsFrame
==============================================================================
