-------------------------------- MODULE Power --------------------------------
(* The tracker (Expmu) and its power management unit (Pmu): when the unit    *)
(* switches the tracker off, the tracker's program and its memory are gone;  *)
(* when it switches it on, or restarts it, the program starts afresh.        *)
EXTENDS Expmu

vars == <<pmuVars, line, mpuOn, expmuVars, mode>>

Init == PmuInit /\ ExpmuInit

KeepTracker == UNCHANGED <<expmuVars, mode>>

UnitSleeps == EnterLpm /\ Boot /\ UNCHANGED mode
UnitCounts == CountedDown /\ (IF rtcOk THEN UNCHANGED expmuVars ELSE Boot) /\ UNCHANGED mode
UnitServes == Serve /\ KeepTracker
UnitLoops ==
    /\ PowerUp \/ PrepareLpm \/ Halt \/ FromAlarm \/ FromLight \/ ExitLpm
    /\ KeepTracker
UnitTimesOut == HoldTimeout /\ KeepTracker
UnitWakes == AlarmRings /\ KeepTracker
Environment == (Light \/ TimeComes) /\ KeepTracker

Next ==
    \/ UnitSleeps \/ UnitCounts \/ UnitServes \/ UnitLoops \/ UnitTimesOut \/ UnitWakes
    \/ Environment
    \/ ExpmuProc \/ WorkRead \/ Push \/ Receive \/ SrvProc \/ Orders

Spec == Init /\ [][Next]_vars

(* Both programs run their loops, the line is looked at, time passes and the *)
(* alarm rings; nobody has to give an order, press a key or shine a light.   *)
FairSpec ==
    /\ Spec
    /\ WF_vars(UnitSleeps) /\ WF_vars(UnitCounts) /\ WF_vars(UnitServes) /\ WF_vars(UnitLoops)
    /\ WF_vars(UnitTimesOut) /\ WF_vars(UnitWakes) /\ WF_vars(TimeComes /\ KeepTracker)
    /\ WF_vars(ExpmuProc) /\ WF_vars(Push) /\ WF_vars(Receive) /\ SF_vars(SrvProc)

------------------------------------------------------------------------------
TypeOK == PmuTypeOK /\ ExpmuTypeOK

(* What the tracker believes when it lets go is so: if it goes on to sleep   *)
(* without an error, the unit has the very time it was given, as its order   *)
(* or already as its alarm (expmu_srv_next_wkp_time_set_proc trusts a copy   *)
(* that answers to older frames, repetitions and lost answers have formed).  *)
(* It is so for the first time the program sets; a change of mode in the     *)
(* handshake makes it set a second one, and the copy may still be of then.   *)
ConfirmedAlarm ==
    settings = 1 /\ srv.stage \in {"INTO", "CLOSE"} /\ srv.error_code = "none" =>
        IF event = "ENTER_LPM" THEN alarm = srv.wkp ELSE reg.next = srv.wkp

(* The timer is stopped only when the unit is going to take the power away:  *)
(* it counts down, or is on its way to sleep; or the order could not be      *)
(* brought to it (expmu_service_close stops everything the tracker does).    *)
StoppedMeansOff ==
    timer # "runs" /\ srv.stage = "CLOSE" /\ srv.error_code # "SLEEP" =>
        reg.wait \/ event \in {"PREPARE_ENTER_LPM", "ENTER_LPM"}

(* An answer releases no frame but its own (delete_smsp_stack_que): after a  *)
(* repetition the second answer finds another frame at the head.             *)
AnswerReleasesItsFrame ==
    [][Receive /\ ring' # ring => Head(ring).kind = toMpu[1].kind]_vars

(* A unit that sleeps gives the tracker its power back, whatever the light   *)
(* does to it and whether the tracker gave it a time or not.                 *)
SleeperWakes == (event = "ENTER_LPM") ~> mpuOn

(* The handshake before the sleep ends, whatever the line loses.             *)
HandshakeEnds == (srv.stage \in {"NEXT", "INTO"}) ~> (srv.stage \notin {"NEXT", "INTO"})

(* After a setting that failed the tracker "goes to sleep, and is not woken  *)
(* from it unless restarted" (the comment of expmu_service.c:804): the unit  *)
(* takes its power away.  The code does not keep this after a mode change    *)
(* while is_sleep is set: the order to sleep is never pushed.                *)
FailureSleeps == (srv.error_code = "NEXT") ~> (srv.error_code = "none")
==============================================================================
