-------------------------------- MODULE Expmu --------------------------------
(* The tracker's side of its power management unit: expmu.c, the master of   *)
(* the register protocol, and expmu_service.c, which decides when to report  *)
(* and when to be switched off until which time.  Both are functions of the  *)
(* 10 ms timer, that the service itself stops at last.  The unit's registers *)
(* are known to it only by the copy that answers bring.                      *)
EXTENDS Pmu

CONSTANTS
    MAX_FAULT_TOLERANCE,    \* queries of the register map
    SET_RETRIES,            \* times a wake-up time is set again
    SLEEP_RETRIES,          \* times the sleep is ordered again
    MAX_QUEUED,             \* bound: no new frame while more than these wait
    Prompt                  \* do answers come before their timeouts?

ASSUME ExpmuAssumption ==
    /\ MAX_FAULT_TOLERANCE \in Nat /\ SET_RETRIES \in Nat /\ SLEEP_RETRIES \in Nat
    /\ MAX_QUEUED \in Nat /\ Prompt \in BOOLEAN

VARIABLES
    expmu,      \* s_expmu: status, is_sleep, fail_cnt
    seen,       \* what is known of the unit: the map of registers, their contents
    copy,       \* g_mcu_evt, the copy of the event register
    ring,       \* g_mcu_send
    srv,        \* s_expmu_srv: stage, track_mode_report_stage, next time, fail_cnt, error_code
    gpsOn,      \* gps_get_state() # GM_GPS_OFF
    timer,      \* GM_TIMER_10MS_MAIN: runs, is in its last call, has stopped
    settings,   \* history: wake-up times chosen since the start, 2 or more as 2
    mode        \* does the configured work mode make the device sleep ("lpm") or "track"?

expmuVars == <<expmu, seen, copy, ring, srv, gpsOn, timer, settings>>
pmuSide == <<pmuVars, mpuOn>>

Modes == {"lpm", "track"}
Stages == {"none", "INIT", "SEND", "WAIT", "PRAPER", "NEXT", "INTO", "CLOSE"}
NextTimes == {w \in WakeTimes : w.at # 0}

ExpmuTypeOK ==
    /\ expmu \in [status : {"INIT", "QUREY", "WORK", "ERROR"}, is_sleep : BOOLEAN,
                  fail_cnt : 0 .. MAX_FAULT_TOLERANCE + 1]
    /\ seen \in {"nothing", "map", "registers"} /\ copy \in Registers /\ ring \in Rings
    /\ srv \in [stage : Stages, track : {"OPEN", "REPORT"}, wkp : WakeTimes,
                fail_cnt : Nat, error_code : {"none", "NEXT", "SLEEP"}]
    /\ gpsOn \in BOOLEAN /\ timer \in {"runs", "last", "stopped"} /\ settings \in 0 .. 2
    /\ mode \in Modes

NewExpmu == [status |-> "INIT", is_sleep |-> FALSE, fail_cnt |-> 0]
Service(stage) == [stage |-> stage, track |-> "OPEN", wkp |-> NoTime, fail_cnt |-> 0,
                   error_code |-> "none"]

ExpmuInit ==
    /\ expmu = NewExpmu /\ seen = "nothing" /\ copy = NoRegisters /\ ring = EmptyRing
    /\ srv = Service("none") /\ gpsOn = FALSE /\ timer = "runs" /\ settings = 0
    /\ mode \in Modes

(* The program starts afresh, expmu_create; the work mode is in its file. *)
Boot ==
    /\ expmu' = NewExpmu /\ seen' = "nothing" /\ copy' = NoRegisters /\ ring' = EmptyRing
    /\ srv' = Service("none") /\ gpsOn' = FALSE /\ timer' = "runs" /\ settings' = 0

------------------------------------------------------------------------------
(* expmu_timer_proc                                                          *)

(* An exchange takes some milliseconds; if answers are prompt, the tracker   *)
(* does nothing else in them but try the frame again.                        *)
NoExchange == Prompt => toPmu = <<>> /\ toMpu = <<>>
On == mpuOn /\ NoExchange
Runs == On /\ timer = "runs"
ExpmuTurn(status) == Runs /\ ~expmu.is_sleep /\ expmu.status = status
Quiet == IsEmpty(ring) /\ toPmu = <<>> /\ toMpu = <<>>

(* Frames leave the ring at least every five seconds, by their answer or by  *)
(* being dropped, and there are twenty slots: it is not modelled that frames *)
(* are put in faster than that.  A timeout comes when the ring is quiet, or, *)
(* if answers may be late, before.                                           *)
Room == Len(ring) <= MAX_QUEUED
Late == expmu.is_sleep \/ (IF Prompt THEN Quiet ELSE Room)

Queued(q, kind, next) ==
    Insert(q, {f.mark : f \in Range(toPmu) \union Range(toMpu)}, kind, next)
Reads(q) == Queued(Queued(q, "read", NoTime), "info", NoTime)

(* smsp_set_pmu_force_work: only if the copy says it is not set already. *)
ForceWork(q) == IF copy.force THEN q ELSE Queued(q, "force", NoTime)

(* expmu_init_proc, the map of registers is not known in time. *)
InitAgain ==
    /\ ExpmuTurn("INIT") /\ Late
    /\ expmu.fail_cnt <= MAX_FAULT_TOLERANCE
    /\ \/ /\ expmu.fail_cnt < MAX_FAULT_TOLERANCE
          /\ ring' = Queued(ring, "query", NoTime) /\ expmu' = [expmu EXCEPT !.fail_cnt = @ + 1]
       \/ /\ expmu.fail_cnt = MAX_FAULT_TOLERANCE
          /\ UNCHANGED ring
          /\ expmu' = [expmu EXCEPT !.fail_cnt = @ + 1, !.status = "ERROR"]
    /\ UNCHANGED <<seen, copy, srv, gpsOn, timer, mode, settings, pmuSide, line>>

InitDone ==
    /\ ExpmuTurn("INIT") /\ seen # "nothing"
    /\ expmu' = [expmu EXCEPT !.status = "QUREY", !.fail_cnt = 0]
    /\ ring' = Reads(ring)
    /\ UNCHANGED <<seen, copy, srv, gpsOn, timer, mode, settings, pmuSide, line>>

(* expmu_query_proc: it reads again for ever, its fail_cnt is never counted. *)
QueryAgain ==
    /\ ExpmuTurn("QUREY") /\ seen # "registers" /\ Late
    /\ ring' = Reads(ring)
    /\ UNCHANGED <<expmu, seen, copy, srv, gpsOn, timer, mode, settings, pmuSide, line>>

(* With expmu_service_creat. *)
QueryDone ==
    /\ ExpmuTurn("QUREY") /\ seen = "registers"
    /\ expmu' = [expmu EXCEPT !.status = "WORK"]
    /\ srv' = Service("INIT") /\ gpsOn' = (mode = "lpm") /\ ring' = ForceWork(ring)
    /\ UNCHANGED <<seen, copy, timer, mode, settings, pmuSide, line>>

(* expmu_work_proc: the registers are read and the clock is set by them. *)
WorkRead ==
    /\ ExpmuTurn("WORK") /\ Room
    /\ \/ ring' = Queued(ring, "read", NoTime)
       \/ ~rtcOk /\ ring' = Queued(Queued(ring, "read", NoTime), "calib", NoTime)
    /\ UNCHANGED <<expmu, seen, copy, srv, gpsOn, timer, mode, settings, pmuSide, line>>

(* push_smsp_packet_to_uart, every half second.  The unit has two buffers: a *)
(* frame that comes while another is not served makes it lose both.  No more *)
(* than a second attempt overtakes an answer.                                *)
Push ==
    /\ mpuOn /\ timer # "stopped" /\ ~expmu.is_sleep /\ ~IsEmpty(ring)
    /\ Prompt => toPmu = <<>>
    /\ toMpu # <<>> => toMpu[1].mark = Head(ring).mark
    /\ ring' = Attempt(ring)
    /\ \/ Attempting(ring) /\ toPmu' = IF toPmu = <<>> THEN <<Head(ring)>> ELSE <<>>
       \/ Attempting(ring) /\ Lossy /\ UNCHANGED toPmu
       \/ ~Attempting(ring) /\ UNCHANGED toPmu
    /\ UNCHANGED <<expmu, seen, copy, srv, gpsOn, timer, mode, settings, pmuSide, toMpu>>

(* slave_mem_share_protocol_prase: an answer releases its frame and brings   *)
(* the register; without the map it is nobody's.                             *)
Receive ==
    /\ mpuOn /\ toMpu # <<>>
    /\ LET a == toMpu[1]
       IN  /\ ring' = Delete(ring, a.mark)
           /\ seen' = CASE a.kind = "query" /\ seen = "nothing" -> "map"
                        [] a.kind = "info" /\ seen = "map"      -> "registers"
                        [] OTHER                                -> seen
           /\ copy' = IF seen = "nothing" \/ a.kind \in {"query", "info"} THEN copy ELSE a.reg
    /\ toMpu' = <<>>
    /\ UNCHANGED <<expmu, srv, gpsOn, timer, mode, settings, pmuSide, toPmu>>

------------------------------------------------------------------------------
(* expmu_service_timer_proc: the life between two sleeps.                    *)

SrvTurn(stage) == Runs /\ srv.stage = stage
To(stage) == srv' = [srv EXCEPT !.stage = stage]
SrvRest == UNCHANGED <<seen, copy, mode, pmuSide, line>>
SrvOnly == SrvRest /\ UNCHANGED settings

(* expmu_service_init_proc *)
SrvInit ==
    /\ SrvTurn("INIT") /\ To("SEND")
    /\ gpsOn' = (gpsOn \/ mode = "track")
    /\ UNCHANGED <<expmu, ring, timer>> /\ SrvOnly

(* expmu_srv_upload_location_proc of a mode that sleeps: a report has been   *)
(* acknowledged or the working time is over.                                 *)
Reported ==
    /\ SrvTurn("SEND") /\ mode = "lpm" /\ To("PRAPER")
    /\ UNCHANGED <<expmu, ring, gpsOn, timer>> /\ SrvOnly

(* expmu_srv_track_mode_report_proc, shortly before the report: only if the  *)
(* receiver is off, the tracker is woken.                                    *)
TrackOpen ==
    /\ SrvTurn("SEND") /\ mode = "track" /\ srv.track = "OPEN"
    /\ srv' = [srv EXCEPT !.track = "REPORT"]
    /\ \/ ~gpsOn /\ gpsOn' \in BOOLEAN /\ expmu' = [expmu EXCEPT !.is_sleep = FALSE]
       \/ gpsOn /\ UNCHANGED <<gpsOn, expmu>>
    /\ UNCHANGED <<ring, timer>> /\ SrvOnly

TrackReport ==
    /\ SrvTurn("SEND") /\ mode = "track" /\ srv.track = "REPORT"
    /\ srv' = [srv EXCEPT !.stage = "WAIT", !.track = "OPEN"]
    /\ gpsOn' \in {FALSE, gpsOn}
    /\ UNCHANGED <<expmu, ring, timer>> /\ SrvOnly

(* expmu_srv_wait_location_report_result, with expmu_enter_sleep. *)
TrackReported ==
    /\ SrvTurn("WAIT") /\ To("SEND")
    /\ \/ UNCHANGED <<gpsOn, expmu, ring>>
       \/ /\ gpsOn' = FALSE /\ expmu' = [expmu EXCEPT !.is_sleep = TRUE] /\ ring' = Clear(ring)
    /\ UNCHANGED timer /\ SrvOnly

(* expmu_srv_praper_into_lpm_proc, no update being under way. *)
PraperIntoLpm ==
    /\ SrvTurn("PRAPER")
    /\ \E w \in NextTimes :
         /\ srv' = [srv EXCEPT !.wkp = w, !.fail_cnt = 0, !.stage = "NEXT"]
         /\ ring' = Queued(ring, "next", w)
    /\ settings' = IF settings < 2 THEN settings + 1 ELSE 2
    /\ UNCHANGED <<expmu, gpsOn, timer>> /\ SrvRest

(* Mutant: a repetition is not counted. *)
NextAgain_NoCount ==
    /\ SrvTurn("NEXT") /\ copy.next # srv.wkp /\ Late /\ srv.fail_cnt < SET_RETRIES
    /\ ring' = Queued(ring, "next", srv.wkp)
    /\ UNCHANGED <<srv, expmu, gpsOn, timer>> /\ SrvOnly

(* expmu_srv_next_wkp_time_set_proc: the copy does not show the time in 3 s. *)
NextAgain ==
    /\ SrvTurn("NEXT") /\ copy.next # srv.wkp /\ Late /\ srv.fail_cnt < SET_RETRIES
    /\ srv' = [srv EXCEPT !.fail_cnt = @ + 1]
    /\ ring' = Queued(ring, "next", srv.wkp)
    /\ UNCHANGED <<expmu, gpsOn, timer>> /\ SrvOnly

NextFails ==
    /\ SrvTurn("NEXT") /\ copy.next # srv.wkp /\ Late /\ srv.fail_cnt >= SET_RETRIES
    /\ srv' = [srv EXCEPT !.fail_cnt = 0, !.error_code = "NEXT", !.stage = "INTO"]
    /\ ring' = Queued(ring, "sleep", NoTime)
    /\ UNCHANGED <<expmu, gpsOn, timer>> /\ SrvOnly

(* Mutant: six of the seven bytes are compared. *)
NextDone_SixBytes ==
    /\ SrvTurn("NEXT") /\ copy.next.at = srv.wkp.at /\ To("INTO")
    /\ UNCHANGED <<expmu, ring, gpsOn, timer>> /\ SrvOnly

NextDone ==
    /\ SrvTurn("NEXT") /\ copy.next = srv.wkp /\ To("INTO")
    /\ UNCHANGED <<expmu, ring, gpsOn, timer>> /\ SrvOnly

(* expmu_srv_into_lpm_proc: the copy does not show the countdown in 5 s. *)
IntoAgain ==
    /\ SrvTurn("INTO") /\ ~copy.wait /\ Late /\ srv.fail_cnt < SLEEP_RETRIES
    /\ srv' = [srv EXCEPT !.fail_cnt = @ + 1]
    /\ ring' = Queued(ring, "sleep", NoTime)
    /\ UNCHANGED <<expmu, gpsOn, timer>> /\ SrvOnly

IntoFails ==
    /\ SrvTurn("INTO") /\ ~copy.wait /\ Late /\ srv.fail_cnt >= SLEEP_RETRIES
    /\ srv' = [srv EXCEPT !.error_code = "SLEEP", !.stage = "CLOSE"]
    /\ UNCHANGED <<expmu, ring, gpsOn, timer>> /\ SrvOnly

(* Mutant: the order to sleep is trusted. *)
IntoDone_Trusting ==
    /\ SrvTurn("INTO") /\ To("CLOSE")
    /\ UNCHANGED <<expmu, ring, gpsOn, timer>> /\ SrvOnly

IntoDone ==
    /\ SrvTurn("INTO") /\ copy.wait /\ To("CLOSE")
    /\ UNCHANGED <<expmu, ring, gpsOn, timer>> /\ SrvOnly

(* expmu_service_close: the timer has been started again before this call    *)
(* and is stopped by it; the rest of the call is still done.                 *)
Close ==
    /\ SrvTurn("CLOSE") /\ timer' = "last" /\ gpsOn' = FALSE
    /\ UNCHANGED <<expmu, ring, srv>> /\ SrvOnly

LastCallEnds ==
    /\ On /\ timer = "last" /\ timer' = "stopped"
    /\ UNCHANGED <<expmu, ring, srv, gpsOn>> /\ SrvOnly

------------------------------------------------------------------------------
(* Orders and events from outside.                                           *)

(* save_gw_work_mode_to_file, with expmu_service_destory (which creates the  *)
(* service anew).  is_sleep stays as it is.                                  *)
ChangeMode ==
    /\ On /\ Room /\ srv.stage # "none"
    /\ mode' \in Modes
    /\ srv' = Service("INIT") /\ gpsOn' = (mode' = "lpm")
    /\ ring' = ForceWork(Clear(ring))
    /\ UNCHANGED <<expmu, seen, copy, timer, settings, pmuSide, line>>

(* The serial line's order to sleep at once. *)
OrderSleep ==
    /\ On /\ Room /\ srv.stage # "none"
    /\ ring' = Queued(ring, "sleep", NoTime)
    /\ UNCHANGED <<expmu, seen, copy, srv, gpsOn, timer, mode, settings, pmuSide, line>>

(* hard_ware_reboot; the unit, and what it has served, is not touched. *)
Reboot ==
    /\ On /\ timer # "stopped" /\ Boot
    /\ toPmu' = <<>> /\ toMpu' = <<>>
    /\ UNCHANGED <<mode, pmuSide>>

(* The receiver finds its position and is switched off. *)
GpsFixed ==
    /\ SrvTurn("SEND") /\ mode = "track" /\ gpsOn /\ gpsOn' = FALSE
    /\ UNCHANGED <<expmu, ring, srv, timer>> /\ SrvOnly

SrvProc ==
    \/ SrvInit \/ Reported \/ TrackOpen \/ TrackReport \/ TrackReported \/ PraperIntoLpm
    \/ NextAgain \/ NextFails \/ NextDone \/ IntoAgain \/ IntoFails \/ IntoDone \/ Close
    \/ LastCallEnds
ExpmuProc == InitAgain \/ InitDone \/ QueryAgain \/ QueryDone
Orders == ChangeMode \/ OrderSleep \/ Reboot \/ GpsFixed
==============================================================================
