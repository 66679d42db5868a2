------------------------------- MODULE Stores -------------------------------
(***************************************************************************)
(* The tracker's configuration store and the EEPROM of its power           *)
(* management unit together: what a command changes is written to three    *)
(* copies on the tracker, and the working mode is sent on to the unit in   *)
(* two frames, the mode and the order to keep it, that wait in the         *)
(* tracker's memory (src/mtk/src/command.c, expmu.c).  The unit switches   *)
(* the tracker off when it likes, and the battery may fail both.           *)
(***************************************************************************)
EXTENDS ParamStore, Fram

CONSTANTS
    MaxCuts,      \* bound: times the power goes or the tracker is reset
    MaxChanges    \* bound: commands that change the settings

ASSUME StoresAssumption == MaxCuts \in Nat /\ MaxChanges \in Nat

VARIABLES
    frames,     \* what waits for the unit, oldest first
    unsaid,     \* history: the unit was not told of a mode the tracker took
    lag,        \* history: stops of the tracker since its copies last agreed
    cuts, changes

vars == <<store, fram, frames, unsaid, lag, cuts, changes>>

Keep == "keep"
Default == "default"

ASSUME FramesAssumption == Keep \notin Modes /\ Default \notin Modes

Init ==
    /\ StoreInit /\ FramInit
    /\ frames = <<>> /\ unsaid = FALSE
    /\ lag = 0 /\ cuts = 0 /\ changes = 0

Changing == pc = "run" /\ changes < MaxChanges /\ changes' = changes + 1

\* save_gw_work_mode_to_file puts the frames into the ring, the command then saves.
ChangeMode(m) ==
    /\ Changing /\ Len(frames) <= 1
    /\ Save([settings EXCEPT !.mode = m], number)
    /\ frames' = frames \o <<m, Keep>>
    /\ UNCHANGED <<fram, unsaid, lag, cuts>>

\* The old command for the server's address takes a comma for the colon: the address is
\* stored as it came, and does not convert.
ChangeServer(fit) ==
    /\ Changing
    /\ Save([settings EXCEPT !.fit = fit], number)
    /\ UNCHANGED <<fram, frames, unsaid, lag, cuts>>

\* The number is in NVRAM only; a command may bring other changes with it.
ChangeNumber(m) ==
    /\ Changing /\ Len(frames) <= 1
    /\ Save([settings EXCEPT !.mode = m], TRUE)
    /\ frames' = (IF m = settings.mode THEN frames ELSE frames \o <<m, Keep>>)
    /\ UNCHANGED <<fram, unsaid, lag, cuts>>

\* FACTORY: everything but the number goes back, and the unit is not told of the mode;
\* FACTORYALL tells it to take its own default, which is the same.
RestoreFactory ==
    /\ Changing
    /\ Save([mode |-> Factory, fit |-> TRUE], number)
    /\ unsaid' = TRUE
    /\ UNCHANGED <<fram, frames, lag, cuts>>

RestoreAll ==
    /\ Changing /\ Len(frames) <= 2
    /\ Save([mode |-> Factory, fit |-> TRUE], number)
    /\ frames' = Append(frames, Default)
    /\ UNCHANGED <<fram, unsaid, lag, cuts>>

\* The mode the unit has after a frame.
Said(frame) == IF frame = Default THEN Factory ELSE frame

\* The 10 ms timer sends the oldest frame and takes the answer.
Deliver ==
    /\ pc = "run" /\ frames # <<>>
    /\ IF Head(frames) = Default THEN FramDefault ELSE FramFrame(Head(frames))
    /\ frames' = Tail(frames)
    /\ unsaid' = (unsaid /\ ~(Said(Head(frames)) = settings.mode /\ Len(frames) <= 2))
    /\ UNCHANGED <<store, lag, cuts, changes>>

\* No answer came to any attempt: the frame is dropped.
Drop ==
    /\ pc = "run" /\ frames # <<>>
    /\ cuts < MaxCuts /\ cuts' = cuts + 1
    /\ frames' = Tail(frames)
    /\ unsaid' = TRUE
    /\ UNCHANGED <<store, fram, lag, changes>>

-----------------------------------------------------------------------------
\* The tracker runs while the unit feeds it.
TrackerSteps ==
    /\ fpc \notin {"off", "halt"}
    /\ StoreStep
    /\ lag' = IF pc = "saveMinor" /\ errors' = 0 THEN 0 ELSE lag
    /\ unsaid' = (unsaid \/ (pc = "load" /\ para \notin Modes))
    /\ UNCHANGED <<fram, frames, cuts, changes>>

UnitSteps ==
    /\ FramStep
    /\ UNCHANGED <<store, frames, unsaid, lag, cuts, changes>>

\* What a stop of the tracker loses; between two saves it is no fault.
Stopped ==
    /\ frames' = <<>>
    /\ unsaid' = (unsaid \/ frames # <<>> \/ pc \in Saves)
    /\ IF pc \in {"off", "run"}
       THEN UNCHANGED <<lag, cuts>>
       ELSE cuts < MaxCuts /\ cuts' = cuts + 1 /\ lag' = lag + 1
    /\ UNCHANGED changes

\* An assertion or a reboot.
TrackerResets == Reset /\ Stopped /\ UNCHANGED fram

\* The unit switches the tracker off: for good until it wakes, or to restart it.
UnitHalts == PowerGoes /\ Stopped /\ FramHalt
UnitRestartsTracker == fpc = "wait" /\ PowerGoes /\ Stopped /\ UNCHANGED fram

\* The battery fails both.
BatteryFails ==
    /\ PowerGoes /\ FramCut
    /\ frames' = <<>>
    /\ unsaid' = (unsaid \/ frames # <<>> \/ pc \in Saves \/ commit \/ fpc = "first")
    /\ cuts < MaxCuts /\ cuts' = cuts + 1
    /\ lag' = (IF pc \in {"off", "run"} THEN lag ELSE lag + 1)
    /\ UNCHANGED changes

Next ==
    \/ \E m \in Modes : ChangeMode(m) \/ ChangeNumber(m)
    \/ \E fit \in BOOLEAN : ChangeServer(fit)
    \/ RestoreFactory \/ RestoreAll
    \/ Deliver \/ Drop
    \/ TrackerSteps \/ UnitSteps
    \/ TrackerResets \/ UnitHalts \/ UnitRestartsTracker \/ BatteryFails

Spec == Init /\ [][Next]_vars

-----------------------------------------------------------------------------
TypeOK ==
    /\ StoreTypeOK /\ FramTypeOK
    /\ frames \in Seq(Modes \cup {Keep, Default}) /\ Len(frames) <= 3
    /\ unsaid \in BOOLEAN /\ lag \in 0 .. MaxCuts
    /\ cuts \in 0 .. MaxCuts /\ changes \in 0 .. MaxChanges

(* Once a configuration was saved, one of the two files has a good check sum whatever   *)
(* stops the tracker, however often, as long as no write of a file has failed.  It says *)
(* nothing of what is in the file: the empty image of settings that do not convert has  *)
(* a good check sum too.                                                               *)
NeverForgets ==
    saved # None /\ errors = 0 => Good(main) \/ Good(minor)

(* One stop since the copies last agreed costs at most the save it interrupted: a     *)
(* start takes the settings of the last complete save or those being saved, never     *)
(* older ones.  After a second stop the minor file may be the one of an older save.    *)
OldOrNew ==
    lag <= 1 /\ errors = 0 /\ pc = "load" /\ saved # None => para \in {saved, pending}

(* A running tracker would find its own settings again: when no write has failed, the *)
(* main file is the image of the settings in force.                                    *)
SavedIsInForce ==
    pc = "run" /\ errors = 0 => main = Image(settings) /\ settings.fit = (saved # Blank)

(* A device number that was once saved survives resets, torn files and a factory      *)
(* reset: no step takes it out of the NVRAM.                                          *)
NumberKept == [][nvram => nvram']_vars

(* The unit after a loss of power takes the mode it last kept or the one it was just   *)
(* writing, if that was the only loss since both copies were written.  (After two it   *)
(* may take the default: a start does not mend a torn second copy, and the next save  *)
(* begins by tearing the first.)                                                       *)
UnitOldOrNew ==
    [][fpc = "off" /\ fpc' # "off" /\ fcuts <= 1 /\ Good(kept) => gpara' \in {kept, being}]_vars

(* When nothing waits to be sent and nothing was lost on the way, the unit counts      *)
(* wake-up times with the tracker's own mode.                                         *)
InStep ==
    pc = "run" /\ ~unsaid /\ errors = 0 /\ frames = <<>> /\ fpc = "wait"
        => gpara = settings.mode
=============================================================================
