--------------------------------- MODULE Pmu ---------------------------------
(* The power management unit, mcu/User/src: an STM8 that is always on, keeps *)
(* the clock and the alarm, and gives the tracker its power.  main is a loop *)
(* over g_evt_ctrl.event; the alarm and the light sensor interrupt it.  In   *)
(* WAIT_LPM the tracker is on and writes the unit's registers through frames *)
(* on a serial line; in ENTER_LPM the tracker has no power and the unit      *)
(* halts until an interrupt.                                                 *)
EXTENDS Smsp, Functions

CONSTANTS
    Own,                \* the wake-up time the unit finds by itself
    Lossy               \* may the serial line lose or garble a frame?

ASSUME OwnAssumption == Own \in Nat \ {0} /\ Lossy \in BOOLEAN

VARIABLES
    event,      \* g_evt_ctrl.event
    pc,         \* where main is: at its "loop", "entering" the halt, or "halted"
    reg,        \* g_evt_ctrl: next_tim, force_work, wait_to_sleep > 0
    alarm,      \* g_para.next_time and the alarm of the clock, while the tracker is off
    due,        \* that time has come
    rtcOk,      \* the clock has been set since power-up
    toPmu,      \* s_uart_queue: frames received and not served
    toMpu,      \* answers on their way
    mpuOn       \* the tracker has power

pmuVars == <<event, pc, reg, alarm, due, rtcOk>>
line == <<toPmu, toMpu>>

Registers == [next : WakeTimes, force : BOOLEAN, wait : BOOLEAN]
NoRegisters == [next |-> NoTime, force |-> FALSE, wait |-> FALSE]
Answer == [mark : Marks, kind : Kinds, reg : Registers]

PmuTypeOK ==
    /\ event \in {"POWER_UP", "WAIT_LPM", "PREPARE_ENTER_LPM", "ENTER_LPM", "RTC_WKP",
                  "EXTI1_WKP", "EXIT_LPM"}
    /\ pc \in {"loop", "entering", "halted"}
    /\ reg \in Registers
    /\ alarm \in [at : Times \union {0, Own}, day : 0 .. 1] /\ due \in BOOLEAN
    /\ rtcOk \in BOOLEAN
    /\ toPmu \in Seq(Frame) /\ Len(toPmu) <= 1
    /\ toMpu \in Seq(Answer) /\ Len(toMpu) <= 1
    /\ mpuOn \in BOOLEAN

PmuInit ==
    /\ event = "POWER_UP" /\ pc = "loop" /\ reg = NoRegisters /\ alarm = NoTime
    /\ due = FALSE /\ rtcOk = FALSE
    /\ toPmu = <<>> /\ toMpu = <<>> /\ mpuOn = FALSE

Turn(ev) == pc = "loop" /\ event = ev

(* bsp_power_up_init and app_power_up_init: the tracker gets power, the      *)
(* clock is set to a date in the past.                                       *)
PowerUp ==
    /\ Turn("POWER_UP")
    /\ event' = "WAIT_LPM" /\ mpuOn' = TRUE
    /\ UNCHANGED <<pc, reg, alarm, due, rtcOk, line>>

------------------------------------------------------------------------------
(* WAIT_LPM: app_wait_lpm_process, then is_need_change_event_to_lpm.         *)

Written(f) ==
    CASE f.kind = "force" -> [reg EXCEPT !.force = TRUE]
      [] f.kind = "next"  -> [reg EXCEPT !.next = [at |-> f.next.at,
                                 day |-> IF f.next.day = 0 THEN @.day ELSE f.next.day]]
      [] f.kind = "sleep" -> [reg EXCEPT !.wait = TRUE]
      [] OTHER            -> reg

(* slave_mem_share_protocol_prase: a frame is carried out and answered, a    *)
(* write with the register as it is now.  A wake-up time without a weekday   *)
(* is written without the seventh byte, which keeps its value.  A frame is    *)
(* served only when the tracker has taken in the answer to the one before,   *)
(* as the two are half a second apart.                                       *)
Serve ==
    /\ Turn("WAIT_LPM") /\ toPmu # <<>> /\ toMpu = <<>>
    /\ LET f == toPmu[1]
       IN  /\ reg' = Written(f)
           /\ rtcOk' = (rtcOk \/ f.kind = "calib")
           /\ \/ toMpu' = <<[mark |-> f.mark, kind |-> f.kind, reg |-> reg']>>
              \/ Lossy /\ toMpu' = <<>>
    /\ toPmu' = <<>>
    /\ UNCHANGED <<event, pc, alarm, due, mpuOn>>

(* wait_to_sleep has been counted down to 0: the unit goes to sleep, or, its *)
(* clock not being set, takes the tracker's power away for a second.         *)
CountedDown ==
    /\ Turn("WAIT_LPM") /\ reg.wait
    /\ reg' = [reg EXCEPT !.wait = FALSE]
    /\ \/ rtcOk /\ event' = "PREPARE_ENTER_LPM" /\ UNCHANGED <<mpuOn, toMpu>>
       \/ ~rtcOk /\ UNCHANGED <<event, mpuOn>> /\ toMpu' = <<>>
    /\ UNCHANGED <<pc, alarm, due, rtcOk, toPmu>>

(* Nothing has kept the unit awake for 300 s. *)
HoldTimeout ==
    /\ Turn("WAIT_LPM") /\ ~reg.force
    /\ event' = "PREPARE_ENTER_LPM"
    /\ UNCHANGED <<pc, reg, alarm, due, rtcOk, line, mpuOn>>

------------------------------------------------------------------------------
(* Into the low power mode and out of it.                                    *)

(* Mutant: without a time of the tracker's no alarm is set. *)
PrepareLpm_NoOwn ==
    /\ Turn("PREPARE_ENTER_LPM")
    /\ event' = "ENTER_LPM"
    /\ alarm' = reg.next
    /\ due' = FALSE /\ reg' = NoRegisters
    /\ UNCHANGED <<pc, rtcOk, line, mpuOn>>

(* app_enter_lpm_init: the alarm is the tracker's, or, if it gave none, one  *)
(* of the unit's own; the registers the tracker writes are cleared.          *)
PrepareLpm ==
    /\ Turn("PREPARE_ENTER_LPM")
    /\ event' = "ENTER_LPM"
    /\ alarm' = IF reg.next.at # 0 THEN reg.next ELSE [at |-> Own, day |-> 0]
    /\ due' = FALSE /\ reg' = NoRegisters
    /\ UNCHANGED <<pc, rtcOk, line, mpuOn>>

(* bsp_enter_lpm_init: the serial line and the tracker are switched off.     *)
EnterLpm ==
    /\ Turn("ENTER_LPM")
    /\ pc' = "entering" /\ mpuOn' = FALSE /\ toPmu' = <<>> /\ toMpu' = <<>>
    /\ UNCHANGED <<event, reg, alarm, due, rtcOk>>

(* halt, whatever an interrupt has done to the event since the switch.       *)
Halt ==
    /\ pc = "entering" /\ pc' = "halted"
    /\ UNCHANGED <<event, reg, alarm, due, rtcOk, line, mpuOn>>

(* RTC_CSSLSE_IRQHandler, EXTI7_IRQHandler: send_event_to_main_hadle takes   *)
(* the event only in ENTER_LPM; the unit leaves its halt all the same.  The  *)
(* light interrupts once the tracker is off; so does the alarm, except for   *)
(* the two statements before the switch, which are left out.                 *)
Interrupt(ev) ==
    /\ ~mpuOn /\ (pc # "loop" \/ event = "ENTER_LPM")
    /\ event' = IF event = "ENTER_LPM" THEN ev ELSE event
    /\ pc' = IF pc = "halted" THEN "loop" ELSE pc
    /\ UNCHANGED <<reg, alarm, due, rtcOk, line, mpuOn>>

(* The alarm rings at its time of day, every day, or every week. *)
AlarmRings == alarm # NoTime /\ Interrupt("RTC_WKP")
Light == Interrupt("EXTI1_WKP")

(* exit_lpm_from_rtc_alarm_process: it may be the right time of another day. *)
FromAlarm ==
    /\ Turn("RTC_WKP")
    /\ event' = IF due \/ ~rtcOk THEN "EXIT_LPM" ELSE "ENTER_LPM"
    /\ UNCHANGED <<pc, reg, alarm, due, rtcOk, line, mpuOn>>

(* exit_lpm_from_exti1_process: the light is still there after 3 s, or the   *)
(* time has nearly come; otherwise the unit halts again.                     *)
FromLight ==
    /\ Turn("EXTI1_WKP")
    /\ \/ event' = "EXIT_LPM"
       \/ ~due /\ rtcOk /\ event' = "ENTER_LPM"
    /\ UNCHANGED <<pc, reg, alarm, due, rtcOk, line, mpuOn>>

(* bsp_exit_lpm_init: the tracker gets its power back; the alarm is not      *)
(* looked at any more before it is set again.                                *)
ExitLpm ==
    /\ Turn("EXIT_LPM")
    /\ event' = "WAIT_LPM" /\ mpuOn' = TRUE /\ alarm' = NoTime /\ due' = FALSE
    /\ UNCHANGED <<pc, reg, rtcOk, line>>

TimeComes ==
    /\ alarm # NoTime /\ ~due /\ due' = TRUE
    /\ UNCHANGED <<event, pc, reg, alarm, rtcOk, line, mpuOn>>
==============================================================================
