----------------------------- MODULE ParamStore -----------------------------
(***************************************************************************)
(* The tracker's configuration and the copies of it that outlive a run:    *)
(* one in memory the reboot does not clear (p_param_mem), a main file and  *)
(* a minor file (src/mtk/src/config_save.c), and the device number in the  *)
(* modem's NVRAM.  One task runs all of this, so only the loss of the      *)
(* power or a reset comes between two steps of a save or of a start.       *)
(***************************************************************************)
EXTENDS Copies

CONSTANTS
    Blank,        \* the image of settings that do not convert: intact and empty
    None,
    MaxErrors     \* bound: the writes of a file that fail

ASSUME StoreAssumption ==
    /\ Blank \notin Modes \cup {Torn}
    /\ None \notin Modes \cup {Blank, Torn}
    /\ MaxErrors \in Nat

VARIABLES
    settings,   \* s_configs: the mode, and whether the server's address converts
    number,     \* s_configs[CFG_DEVICE_NUMBER]: has the tracker been given one?
    nvram,      \* the same in NVRAM
    mem, main, minor,
    para,       \* s_Para while the configuration is read
    pc,         \* the step of the start or of the save that comes next
    errors,     \* writes that failed so far
    saved,      \* history: the image the last complete save or start left
    pending     \* history: the image being saved; saved when there is none

store == <<settings, number, nvram, mem, main, minor, para, pc, errors, saved, pending>>

Settings == [mode : Modes, fit : BOOLEAN]
Images == Modes \cup {Blank}
Copies == Images \cup {Torn}

Repairs == {"fixMain", "fixMinor", "fixMem"}
Saves == {"saveMem", "saveMain", "saveMinor", "saveNvram"}
Steps == {"off", "load", "run"} \cup Repairs \cup Saves

StoreTypeOK ==
    /\ settings \in Settings /\ number \in BOOLEAN /\ nvram \in BOOLEAN
    /\ mem \in Copies /\ main \in Copies /\ minor \in Copies
    /\ para \in Images \cup {None}
    /\ pc \in Steps /\ errors \in 0 .. MaxErrors
    /\ saved \in Images \cup {None} /\ pending \in Images \cup {None}

\* A tracker as it leaves the works: no file, nothing in memory.
StoreInit ==
    /\ settings = [mode |-> Factory, fit |-> TRUE]
    /\ number = FALSE /\ nvram = FALSE
    /\ mem = Torn /\ main = Torn /\ minor = Torn
    /\ para = None /\ pc = "off" /\ errors = 0
    /\ saved = None /\ pending = None

\* convert_cfg_to_para clears the image first and returns at an address it cannot
\* split: what is then saved with a good checksum is empty.
Image(s) == IF s.fit THEN s.mode ELSE Blank

\* A write that fails leaves the file as it was (it did not open) or torn; the
\* result is not looked at.
Written(copy, image) ==
    \/ copy' = image /\ UNCHANGED errors
    \/ /\ errors < MaxErrors /\ errors' = errors + 1
       /\ copy' \in {copy, Torn}

-----------------------------------------------------------------------------
(* The start: read_param_from_file and what config_service_read_from_local does with it. *)

\* The file and the memory to go on from, and the first repair.  Memory mends the files
\* when it is intact; when it is not, each file mends the other.
FirstRepair ==
    IF ~Good(main) /\ (Good(mem) \/ Good(minor)) THEN "fixMain"
    ELSE IF Good(main) /\ ~Good(minor) THEN "fixMinor"
    ELSE "load"

Choice(a, b, c) ==
    IF Good(a) THEN a ELSE IF Good(b) THEN b ELSE IF Good(c) THEN c ELSE None

\* A bug that could be: memory goes before an intact main file.
Read_MemoryFirst ==
    /\ pc = "off"
    /\ number' = nvram
    /\ para' = Choice(mem, main, minor)
    /\ pc' = FirstRepair
    /\ UNCHANGED <<settings, nvram, mem, main, minor, errors, saved, pending>>

\* A bug that could be: a torn minor file is left alone while the main file is intact.
Read_MinorLeft ==
    /\ pc = "off"
    /\ number' = nvram
    /\ para' = Choice(main, mem, minor)
    /\ pc' = IF Good(main) THEN "load" ELSE FirstRepair
    /\ UNCHANGED <<settings, nvram, mem, main, minor, errors, saved, pending>>

\* A bug that could be: the number is not fetched from NVRAM.
Read_NoNumber ==
    /\ pc = "off"
    /\ number' = FALSE
    /\ para' = Choice(main, mem, minor)
    /\ pc' = FirstRepair
    /\ UNCHANGED <<settings, nvram, mem, main, minor, errors, saved, pending>>

Read ==
    /\ pc = "off"
    /\ number' = nvram
    /\ para' = Choice(main, mem, minor)
    /\ pc' = FirstRepair
    /\ UNCHANGED <<settings, nvram, mem, main, minor, errors, saved, pending>>

\* The torn file is deleted and written anew: a file that is gone reads like a torn one.
FixMain ==
    /\ pc = "fixMain"
    /\ Written(main, para)
    /\ pc' = IF ~Good(mem) THEN "fixMem"
             ELSE IF ~Good(minor) THEN "fixMinor" ELSE "load"
    /\ UNCHANGED <<settings, number, nvram, mem, minor, para, saved, pending>>

\* What goes into the minor file is the memory's copy, when that is intact.
FixMinor ==
    /\ pc = "fixMinor"
    /\ Written(minor, IF Good(mem) THEN mem ELSE para)
    /\ pc' = IF Good(mem) THEN "load" ELSE "fixMem"
    /\ UNCHANGED <<settings, number, nvram, mem, main, para, saved, pending>>

FixMem ==
    /\ pc = "fixMem"
    /\ mem' = para
    /\ pc' = "load"
    /\ UNCHANGED <<settings, number, nvram, main, minor, para, errors, saved, pending>>

\* Nothing was found, or check_para_ok refuses what was: the defaults are saved at once.
Load ==
    /\ pc = "load"
    /\ settings' = [mode |-> IF para \in Modes THEN para ELSE Factory, fit |-> TRUE]
    /\ pc' = IF para \in Modes THEN "run" ELSE "saveMem"
    /\ saved' = (IF para # None THEN para ELSE saved)
    /\ pending' = (IF para \in Modes THEN para ELSE Factory)
    /\ para' = None
    /\ UNCHANGED <<number, nvram, mem, main, minor, errors>>

-----------------------------------------------------------------------------
(* A save: goome_file_param_save, after some handler has changed the settings. *)

Save(s, n) ==
    /\ pc = "run"
    /\ settings' = s /\ number' = n
    /\ pending' = Image(s)
    /\ pc' = "saveMem"
    /\ UNCHANGED <<nvram, mem, main, minor, para, errors, saved>>

SaveMem ==
    /\ pc = "saveMem"
    /\ mem' = Image(settings)
    /\ pc' = "saveMain"
    /\ UNCHANGED <<settings, number, nvram, main, minor, para, errors, saved, pending>>

SaveMain ==
    /\ pc = "saveMain"
    /\ Written(main, Image(settings))
    /\ pc' = "saveMinor"
    /\ UNCHANGED <<settings, number, nvram, mem, minor, para, saved, pending>>

\* A bug that could be: the minor file is written from s_Para2 as the last save left it.
SaveMinor_NotCopied ==
    /\ pc = "saveMinor"
    /\ Written(minor, IF saved = None THEN Image(settings) ELSE saved)
    /\ pc' = "saveNvram"
    /\ saved' = pending
    /\ UNCHANGED <<settings, number, nvram, mem, main, para, pending>>

\* s_Para is copied into s_Para2 first: both files get the same image.
SaveMinor ==
    /\ pc = "saveMinor"
    /\ Written(minor, Image(settings))
    /\ pc' = "saveNvram"
    /\ saved' = pending
    /\ UNCHANGED <<settings, number, nvram, mem, main, para, pending>>

SaveNvram ==
    /\ pc = "saveNvram"
    /\ nvram' = number
    /\ pc' = "run"
    /\ UNCHANGED <<settings, number, mem, main, minor, para, errors, saved, pending>>

-----------------------------------------------------------------------------
(* What a tracker that stops in the middle of a write leaves behind. *)

\* When the power goes memory is lost; at a reset it stays, but for what was being written.
Stop(memory) ==
    /\ mem' \in memory
    /\ main' \in Left(main, pc \in {"fixMain", "saveMain"})
    /\ minor' \in Left(minor, pc \in {"fixMinor", "saveMinor"})
    /\ pc' = "off" /\ para' = None
    /\ settings' = [mode |-> Factory, fit |-> TRUE] /\ number' = FALSE
    /\ UNCHANGED <<nvram, errors, saved, pending>>

PowerGoes == Stop({Torn})
Reset == pc # "off" /\ Stop(Left(mem, pc \in {"fixMem", "saveMem"}))

StoreStep ==
    \/ Read \/ FixMain \/ FixMinor \/ FixMem \/ Load
    \/ SaveMem \/ SaveMain \/ SaveMinor \/ SaveNvram
=============================================================================
