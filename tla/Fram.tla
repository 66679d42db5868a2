-------------------------------- MODULE Fram --------------------------------
(***************************************************************************)
(* The parameters the power management unit keeps in its EEPROM            *)
(* (src/mcu/User/src/app_fram_manger.c): the working mode it counts wake-  *)
(* up times with when the tracker has set none.  Two copies, each with a   *)
(* mark and a sum, always written first copy first; g_para in RAM is what  *)
(* the tracker writes to over the serial line.                             *)
(***************************************************************************)
EXTENDS Copies

VARIABLES
    fpc,        \* "off", "wait" (for the tracker), "first" and "second" (being written), "halt"
    then,       \* where the unit goes when both copies are written
    gpara,      \* g_para in RAM
    commit,     \* g_evt_ctrl.flash_commit
    first, second,
    kept,       \* history: what both copies were last written with, Torn if never
    being,      \* history: what is being written, or was last
    fcuts       \* history: losses of power since both copies were last written

fram == <<fpc, then, gpara, commit, first, second, kept, being, fcuts>>

FramTypeOK ==
    /\ fpc \in {"off", "wait", "first", "second", "halt"}
    /\ then \in {"wait", "halt"}
    /\ gpara \in Modes /\ commit \in BOOLEAN
    /\ first \in Modes \cup {Torn} /\ second \in Modes \cup {Torn}
    /\ kept \in Modes \cup {Torn} /\ being \in Modes /\ fcuts \in Nat

\* An erased EEPROM bears no mark.
FramInit ==
    /\ fpc = "off" /\ then = "wait"
    /\ gpara = Factory /\ commit = FALSE
    /\ first = Torn /\ second = Torn /\ kept = Torn /\ being = Factory /\ fcuts = 0

\* Both copies are written with what is in RAM now, then the unit goes on.
Write(value, next) ==
    /\ gpara' = value /\ being' = value
    /\ fpc' = "first" /\ then' = next
    /\ commit' = FALSE
    /\ UNCHANGED <<first, second, kept, fcuts>>

Started(value) ==
    /\ gpara' = value
    /\ fpc' = "wait" /\ then' = "wait"
    /\ commit' = FALSE
    /\ UNCHANGED <<first, second, kept, being, fcuts>>

\* A bug that could be: the second copy is not looked at when the first one fails.
FramStart_FirstOnly ==
    /\ fpc \in {"off", "halt"}
    /\ IF Good(first) THEN Started(first) ELSE Write(Factory, "wait")

\* After the power comes and after every halt the copies are read again.  A first copy
\* that is intact is taken and a second one that is not is left as it is; otherwise
\* both are written, from the second copy or with the default.
FramStart ==
    /\ fpc \in {"off", "halt"}
    /\ IF Good(first) THEN Started(first)
       ELSE Write(IF Good(second) THEN second ELSE Factory, "wait")

\* A frame of the tracker writes the mode, or asks for it to be kept.
FramFrame(frame) ==
    /\ fpc = "wait"
    /\ IF frame \in Modes
       THEN gpara' = frame /\ UNCHANGED commit
       ELSE commit' = TRUE /\ UNCHANGED gpara
    /\ UNCHANGED <<fpc, then, first, second, kept, being, fcuts>>

FramDefault == fpc = "wait" /\ Write(Factory, "wait")

\* app_fram_para_wait_lpm_commit, in the main loop while the tracker runs.
FramCommit == fpc = "wait" /\ commit /\ Write(gpara, "wait")

\* A bug that could be: what the tracker has not asked to keep is not written.
FramHalt_NotWritten ==
    /\ fpc = "wait"
    /\ fpc' = "halt" /\ then' = "halt" /\ commit' = FALSE
    /\ UNCHANGED <<gpara, first, second, kept, being, fcuts>>

\* app_para_write_to_fram, before every halt.
FramHalt == fpc = "wait" /\ Write(gpara, "halt")

WriteFirst ==
    /\ fpc = "first"
    /\ first' = gpara /\ fpc' = "second"
    /\ UNCHANGED <<then, gpara, commit, second, kept, being, fcuts>>

WriteSecond ==
    /\ fpc = "second"
    /\ second' = gpara /\ fpc' = then
    /\ kept' = gpara /\ fcuts' = 0
    /\ UNCHANGED <<then, gpara, commit, first, being>>

\* The power goes, perhaps in the middle of a write.
FramCut ==
    /\ fpc # "off"
    /\ fpc' = "off" /\ then' = "wait" /\ commit' = FALSE
    /\ gpara' = Factory
    /\ first' \in Left(first, fpc = "first")
    /\ second' \in Left(second, fpc = "second")
    /\ fcuts' = fcuts + 1
    /\ UNCHANGED <<kept, being>>

FramStep == FramStart \/ FramCommit \/ WriteFirst \/ WriteSecond
=============================================================================
