---------------------------- MODULE Stores_proofs ----------------------------
(***************************************************************************)
(* Proofs about the two stores for any set of modes, any number of changes *)
(* and of stops, and any number of failing writes.                         *)
(***************************************************************************)
EXTENDS Stores, TLAPS

-----------------------------------------------------------------------------
(* Types.  The stops that lag counts are among the cuts. *)

TypeInv == TypeOK /\ lag <= cuts /\ (pc \in Repairs => para \in Images)

LEMMA ImageType == ASSUME NEW s \in Settings PROVE Image(s) \in Images
  BY DEF Settings, Image, Images

LEMMA SettingsType ==
    ASSUME NEW m \in Modes, NEW fit \in BOOLEAN PROVE [mode |-> m, fit |-> fit] \in Settings
  BY DEF Settings

LEMMA InitType == Init => TypeInv
  <1> SUFFICES ASSUME Init PROVE TypeInv
    OBVIOUS
  <1>1. settings \in Settings
    BY CopiesAssumption DEF Init, StoreInit, Settings
  <1>2. number \in BOOLEAN /\ nvram \in BOOLEAN /\ commit \in BOOLEAN /\ unsaid \in BOOLEAN
    BY DEF Init, StoreInit, FramInit
  <1>3. mem \in Copies /\ main \in Copies /\ minor \in Copies /\ para \in Images \cup {None}
        /\ saved \in Images \cup {None} /\ pending \in Images \cup {None} /\ pc \in Steps
    BY DEF Init, StoreInit, Copies, Steps
  <1>4. /\ fpc \in {"off", "wait", "first", "second", "halt"} /\ then \in {"wait", "halt"}
        /\ gpara \in Modes /\ first \in Modes \cup {Torn} /\ second \in Modes \cup {Torn}
        /\ kept \in Modes \cup {Torn} /\ being \in Modes /\ fcuts \in Nat
    BY CopiesAssumption DEF Init, FramInit
  <1>5. frames \in Seq(Modes \cup {Keep, Default}) /\ Len(frames) <= 3
    BY DEF Init
  <1>6. errors \in 0 .. MaxErrors
    BY StoreAssumption DEF Init, StoreInit
  <1>7. lag \in 0 .. MaxCuts /\ cuts \in 0 .. MaxCuts /\ changes \in 0 .. MaxChanges
        /\ lag <= cuts
    BY StoresAssumption DEF Init
  <1> QED
    BY <1>1, <1>2, <1>3, <1>4, <1>5, <1>6, <1>7
       DEF TypeInv, TypeOK, StoreTypeOK, FramTypeOK, Init, StoreInit, Repairs

\* The store by itself: a repair has something to repair with.
StoreType == StoreTypeOK /\ (pc \in Repairs => para \in Images)

LEMMA StoreStepType ==
    ASSUME StoreType, StoreStep PROVE StoreType'
  <1> USE CopiesAssumption, StoreAssumption
  <1>0. Image(settings) \in Images /\ Images \subseteq Copies /\ errors \in 0 .. MaxErrors
    BY ImageType DEF StoreType, StoreTypeOK, Copies
  <1>b. number' \in BOOLEAN /\ nvram' \in BOOLEAN
    BY DEF StoreType, StoreTypeOK, StoreStep, Read, FixMain, FixMinor, FixMem, Load,
           SaveMem, SaveMain, SaveMinor, SaveNvram
  <1>s. settings' \in Settings
    <2>1. UNCHANGED settings
          \/ settings' = [mode |-> IF para \in Modes THEN para ELSE Factory, fit |-> TRUE]
      BY DEF StoreStep, Read, FixMain, FixMinor, FixMem, Load, SaveMem, SaveMain, SaveMinor,
             SaveNvram
    <2>2. [mode |-> IF para \in Modes THEN para ELSE Factory, fit |-> TRUE] \in Settings
      BY SettingsType
    <2> QED
      BY <2>1, <2>2 DEF StoreType, StoreTypeOK
  <1>w. ASSUME NEW c, NEW d, NEW i \in Images, c \in Copies,
               \/ d = i /\ UNCHANGED errors
               \/ errors < MaxErrors /\ errors' = errors + 1 /\ d \in {c, Torn}
        PROVE  d \in Copies /\ errors' \in 0 .. MaxErrors
    BY <1>0, <1>w DEF Copies
  <1> DEFINE Rest == /\ mem' \in Copies /\ main' \in Copies /\ minor' \in Copies
                     /\ para' \in Images \cup {None} /\ pc' \in Steps
                     /\ errors' \in 0 .. MaxErrors
                     /\ saved' \in Images \cup {None} /\ pending' \in Images \cup {None}
                     /\ (pc' \in Repairs => para' \in Images)
  <1>1. ASSUME Read PROVE Rest
    <2>1. /\ para' \in Images \cup {None} /\ pc' \in Steps
          /\ (pc' \in Repairs => para' \in Images)
      BY <1>1 DEF Read, Choice, FirstRepair, StoreType, StoreTypeOK, Images, Copies, Steps,
                  Repairs, Good
    <2> QED
      BY <1>1, <2>1 DEF Read, StoreType, StoreTypeOK
  <1>2. ASSUME FixMain PROVE Rest
    <2>1. main' \in Copies /\ errors' \in 0 .. MaxErrors
      BY <1>2, <1>w DEF FixMain, Written, StoreType, StoreTypeOK, Repairs
    <2> QED
      BY <1>2, <2>1 DEF FixMain, StoreType, StoreTypeOK, Steps, Repairs
  <1>3. ASSUME FixMinor PROVE Rest
    <2>1. (IF Good(mem) THEN mem ELSE para) \in Images
      BY <1>3 DEF FixMinor, StoreType, StoreTypeOK, Repairs, Good, Copies
    <2>2. minor' \in Copies /\ errors' \in 0 .. MaxErrors
      BY <1>3, <1>w, <2>1 DEF FixMinor, Written, StoreType, StoreTypeOK
    <2> QED
      BY <1>3, <2>2 DEF FixMinor, StoreType, StoreTypeOK, Steps, Repairs
  <1>4. ASSUME FixMem PROVE Rest
    BY <1>0, <1>4 DEF FixMem, StoreType, StoreTypeOK, Steps, Repairs
  <1>5. ASSUME Load PROVE Rest
    BY <1>5 DEF Load, StoreType, StoreTypeOK, Images, Steps, Saves, Repairs
  <1>6. ASSUME SaveMem PROVE Rest
    BY <1>0, <1>6 DEF SaveMem, StoreType, StoreTypeOK, Steps, Saves, Repairs
  <1>7. ASSUME SaveMain PROVE Rest
    <2>1. main' \in Copies /\ errors' \in 0 .. MaxErrors
      BY <1>7, <1>0, <1>w DEF SaveMain, Written, StoreType, StoreTypeOK
    <2> QED
      BY <1>7, <2>1 DEF SaveMain, StoreType, StoreTypeOK, Steps, Saves, Repairs
  <1>8. ASSUME SaveMinor PROVE Rest
    <2>1. minor' \in Copies /\ errors' \in 0 .. MaxErrors
      BY <1>8, <1>0, <1>w DEF SaveMinor, Written, StoreType, StoreTypeOK
    <2> QED
      BY <1>8, <2>1 DEF SaveMinor, StoreType, StoreTypeOK, Steps, Saves, Repairs
  <1>9. ASSUME SaveNvram PROVE Rest
    BY <1>9 DEF SaveNvram, StoreType, StoreTypeOK, Steps, Repairs
  <1>c. Rest
    BY <1>1, <1>2, <1>3, <1>4, <1>5, <1>6, <1>7, <1>8, <1>9 DEF StoreStep
  <1> QED
    BY <1>b, <1>s, <1>c DEF StoreType, StoreTypeOK

LEMMA SaveType ==
    ASSUME StoreType, NEW s \in Settings, NEW n \in BOOLEAN, Save(s, n) PROVE StoreType'
  <1>1. pending' \in Images
    BY ImageType DEF Save
  <1>2. settings' \in Settings /\ number' \in BOOLEAN /\ nvram' \in BOOLEAN
    BY DEF Save, StoreType, StoreTypeOK
  <1>3. /\ mem' \in Copies /\ main' \in Copies /\ minor' \in Copies
        /\ para' \in Images \cup {None} /\ pc' \in Steps \ Repairs
        /\ errors' \in 0 .. MaxErrors /\ saved' \in Images \cup {None}
    BY DEF Save, StoreType, StoreTypeOK, Steps, Saves, Repairs
  <1> QED
    BY <1>1, <1>2, <1>3 DEF StoreType, StoreTypeOK

LEMMA StopType ==
    ASSUME StoreType, PowerGoes \/ Reset PROVE StoreType'
  <1>1. settings' \in Settings /\ number' \in BOOLEAN /\ nvram' \in BOOLEAN
    <2>1. [mode |-> Factory, fit |-> TRUE] \in Settings
      BY SettingsType, CopiesAssumption
    <2> QED
      BY <2>1 DEF PowerGoes, Reset, Stop, StoreType, StoreTypeOK
  <1>2. mem' \in Copies /\ main' \in Copies /\ minor' \in Copies
    BY DEF PowerGoes, Reset, Stop, Left, StoreType, StoreTypeOK, Copies
  <1>3. /\ para' \in Images \cup {None} /\ pc' \in Steps \ Repairs
        /\ errors' \in 0 .. MaxErrors
        /\ saved' \in Images \cup {None} /\ pending' \in Images \cup {None}
    BY DEF PowerGoes, Reset, Stop, StoreType, StoreTypeOK, Steps, Repairs, Saves
  <1> QED
    BY <1>1, <1>2, <1>3 DEF StoreType, StoreTypeOK

-----------------------------------------------------------------------------
(* What a step of the whole does to the tracker's store. *)

Stopping == (PowerGoes \/ Reset) /\ lag' = IF pc \in {"off", "run"} THEN lag ELSE lag + 1
Stepping == StoreStep /\ lag' = IF pc = "saveMinor" /\ errors' = 0 THEN 0 ELSE lag
Saving ==
    \E s \in Settings, n \in BOOLEAN : Save(s, n) /\ (number => n) /\ lag' = lag

StoreMove == UNCHANGED <<store, lag>> \/ Stopping \/ Stepping \/ Saving

LEMMA NextMoves == ASSUME TypeInv, [Next]_vars PROVE StoreMove
  <1> USE CopiesAssumption
  <1>s. ASSUME NEW m \in Modes PROVE [settings EXCEPT !.mode = m] \in Settings
    BY DEF TypeInv, TypeOK, StoreTypeOK, Settings
  <1>f. ASSUME NEW b \in BOOLEAN PROVE [settings EXCEPT !.fit = b] \in Settings
    BY DEF TypeInv, TypeOK, StoreTypeOK, Settings
  <1>n. number \in BOOLEAN
    BY DEF TypeInv, TypeOK, StoreTypeOK
  <1>d. [mode |-> Factory, fit |-> TRUE] \in Settings
    BY SettingsType
  <1>1. ASSUME NEW m \in Modes, ChangeMode(m) PROVE Saving
    BY <1>1, <1>s, <1>n DEF ChangeMode, Saving
  <1>2. ASSUME NEW m \in Modes, ChangeNumber(m) PROVE Saving
    BY <1>2, <1>s DEF ChangeNumber, Saving
  <1>3. ASSUME NEW b \in BOOLEAN, ChangeServer(b) PROVE Saving
    BY <1>3, <1>f, <1>n DEF ChangeServer, Saving
  <1>4. ASSUME RestoreFactory \/ RestoreAll PROVE Saving
    BY <1>4, <1>d, <1>n DEF RestoreFactory, RestoreAll, Saving
  <1>5. ASSUME Deliver \/ Drop \/ UnitSteps PROVE UNCHANGED <<store, lag>>
    BY <1>5 DEF Deliver, Drop, UnitSteps
  <1>6. ASSUME TrackerSteps PROVE Stepping
    BY <1>6 DEF TrackerSteps, Stepping
  <1>7. ASSUME TrackerResets \/ UnitHalts \/ UnitRestartsTracker PROVE Stopping
    BY <1>7 DEF TrackerResets, UnitHalts, UnitRestartsTracker, Stopped, Stopping
  <1>8. ASSUME BatteryFails PROVE Stopping
    BY <1>8 DEF BatteryFails, Stopping
  <1>9. ASSUME UNCHANGED vars PROVE UNCHANGED <<store, lag>>
    BY <1>9 DEF vars
  <1> QED
    BY <1>1, <1>2, <1>3, <1>4, <1>5, <1>6, <1>7, <1>8, <1>9 DEF Next, StoreMove

LEMMA StoreMoveType == ASSUME StoreType, StoreMove PROVE StoreType'
  <1>1. CASE UNCHANGED <<store, lag>>
    BY <1>1 DEF store, StoreType, StoreTypeOK
  <1> QED
    BY <1>1, StoreStepType, SaveType, StopType DEF StoreMove, Stopping, Stepping, Saving

LEMMA CountsType == ASSUME TypeInv, [Next]_vars
                    PROVE  /\ lag' \in 0 .. MaxCuts /\ cuts' \in 0 .. MaxCuts /\ lag' <= cuts'
                           /\ changes' \in 0 .. MaxChanges
  <1> USE StoresAssumption DEF TypeInv, TypeOK
  <1>1. ASSUME UNCHANGED <<lag, cuts>> \/ (UNCHANGED lag /\ cuts < MaxCuts /\ cuts' = cuts + 1)
               \/ (lag' = lag + 1 /\ cuts < MaxCuts /\ cuts' = cuts + 1)
               \/ (lag' = 0 /\ UNCHANGED cuts)
        PROVE  lag' \in 0 .. MaxCuts /\ cuts' \in 0 .. MaxCuts /\ lag' <= cuts'
    BY <1>1
  <1>2. ASSUME UNCHANGED changes \/ (changes < MaxChanges /\ changes' = changes + 1)
        PROVE  changes' \in 0 .. MaxChanges
    BY <1>2
  <1>3. \/ UNCHANGED <<lag, cuts>> \/ (UNCHANGED lag /\ cuts < MaxCuts /\ cuts' = cuts + 1)
        \/ (lag' = lag + 1 /\ cuts < MaxCuts /\ cuts' = cuts + 1)
        \/ (lag' = 0 /\ UNCHANGED cuts)
    BY DEF Next, vars, ChangeMode, ChangeNumber, ChangeServer, RestoreFactory, RestoreAll,
           Deliver, Drop, TrackerSteps, UnitSteps, TrackerResets, UnitHalts,
           UnitRestartsTracker, BatteryFails, Stopped
  <1>4. UNCHANGED changes \/ (changes < MaxChanges /\ changes' = changes + 1)
    BY DEF Next, vars, ChangeMode, ChangeNumber, ChangeServer, RestoreFactory, RestoreAll,
           Deliver, Drop, TrackerSteps, UnitSteps, TrackerResets, UnitHalts,
           UnitRestartsTracker, BatteryFails, Stopped, Changing
  <1> QED
    BY <1>1, <1>2, <1>3, <1>4

\* The unit's store by itself.
FramMove ==
    \/ UNCHANGED fram
    \/ FramStep \/ FramDefault \/ FramHalt \/ FramCut
    \/ \E frame \in Modes \cup {Keep} : FramFrame(frame)

LEMMA NextFrams == ASSUME TypeInv, [Next]_vars PROVE FramMove
  <1>1. ASSUME Deliver PROVE FramMove
    <2>1. Head(frames) \in Modes \cup {Keep, Default}
      BY <1>1 DEF Deliver, TypeInv, TypeOK
    <2> QED
      BY <1>1, <2>1 DEF Deliver, FramMove
  <1> QED
    BY <1>1 DEF Next, vars, ChangeMode, ChangeNumber, ChangeServer, RestoreFactory,
           RestoreAll, Drop, TrackerSteps, UnitSteps, TrackerResets, UnitHalts,
           UnitRestartsTracker, BatteryFails, FramMove

LEMMA FramMoveType == ASSUME FramTypeOK, FramMove PROVE FramTypeOK'
  <1> USE CopiesAssumption
  <1> DEFINE Rest == /\ fpc' \in {"off", "wait", "first", "second", "halt"}
                     /\ then' \in {"wait", "halt"} /\ gpara' \in Modes
                     /\ first' \in Modes \cup {Torn} /\ second' \in Modes \cup {Torn}
                     /\ kept' \in Modes \cup {Torn} /\ being' \in Modes /\ fcuts' \in Nat
  <1>b. commit' \in BOOLEAN
    BY DEF FramMove, FramStep, FramStart, Started, Write, FramCommit, WriteFirst, WriteSecond,
           FramDefault, FramHalt, FramCut, FramFrame, fram, FramTypeOK
  <1>1. ASSUME UNCHANGED fram PROVE Rest
    BY <1>1 DEF fram, FramTypeOK
  <1>2. ASSUME FramStart PROVE Rest
    <2>1. (IF Good(second) THEN second ELSE Factory) \in Modes
      BY DEF Good, FramTypeOK
    <2> QED
      BY <1>2, <2>1 DEF FramStart, Started, Write, Good, FramTypeOK
  <1>3. ASSUME FramCommit \/ FramDefault \/ FramHalt PROVE Rest
    BY <1>3 DEF FramCommit, FramDefault, FramHalt, Write, FramTypeOK
  <1>4. ASSUME WriteFirst \/ WriteSecond PROVE Rest
    BY <1>4 DEF WriteFirst, WriteSecond, FramTypeOK
  <1>5. ASSUME FramCut PROVE Rest
    BY <1>5 DEF FramCut, Left, FramTypeOK
  <1>6. ASSUME NEW frame \in Modes \cup {Keep}, FramFrame(frame) PROVE Rest
    <2>1. gpara' \in Modes
      BY <1>6 DEF FramFrame, FramTypeOK
    <2> QED
      BY <1>6, <2>1 DEF FramFrame, FramTypeOK
  <1> QED
    BY <1>b, <1>1, <1>2, <1>3, <1>4, <1>5, <1>6 DEF FramMove, FramStep, FramTypeOK

\* What waits for the unit.
Waits == frames \in Seq(Modes \cup {Keep, Default}) /\ Len(frames) <= 3

LEMMA WaitsType == ASSUME TypeInv, [Next]_vars PROVE Waits' /\ unsaid' \in BOOLEAN
  <1> DEFINE S == Modes \cup {Keep, Default}
  <1>1. ASSUME NEW q \in Seq(S), NEW x \in S, NEW y \in S, Len(q) <= 1
        PROVE  q \o <<x, y>> \in Seq(S) /\ Len(q \o <<x, y>>) <= 3
    <2>1. <<x, y>> \in Seq(S) /\ Len(<<x, y>>) = 2
      OBVIOUS
    <2> QED
      BY <2>1, <1>1
  <1>2. ASSUME NEW q \in Seq(S), NEW x \in S, Len(q) <= 2
        PROVE  Append(q, x) \in Seq(S) /\ Len(Append(q, x)) <= 3
    BY <1>2
  <1>3. ASSUME NEW q \in Seq(S), q # <<>>, Len(q) <= 3
        PROVE  Tail(q) \in Seq(S) /\ Len(Tail(q)) <= 3
    BY <1>3
  <1>4. frames \in Seq(S) /\ Len(frames) <= 3
    BY DEF TypeInv, TypeOK
  <1>5. Waits'
    <2> DEFINE Old == UNCHANGED frames
    <2>1. ASSUME NEW m \in Modes, ChangeMode(m) \/ ChangeNumber(m) PROVE Waits'
      <3>1. (frames' = frames \o <<m, Keep>> /\ Len(frames) <= 1) \/ Old
        BY <2>1 DEF ChangeMode, ChangeNumber
      <3> QED
        BY <3>1, <1>1, <1>4 DEF Waits
    <2>2. ASSUME RestoreAll PROVE Waits'
      BY <2>2, <1>2, <1>4 DEF RestoreAll, Waits
    <2>3. ASSUME Deliver \/ Drop PROVE Waits'
      BY <2>3, <1>3, <1>4 DEF Deliver, Drop, Waits
    <2>4. ASSUME frames' = <<>> \/ Old PROVE Waits'
      <3>1. CASE frames' = <<>>
        <4>1. <<>> \in Seq(S) /\ Len(<<>>) = 0
          OBVIOUS
        <4> QED
          BY <3>1, <4>1 DEF Waits
      <3>2. CASE Old
        BY <3>2, <1>4 DEF Waits
      <3> QED
        BY <2>4, <3>1, <3>2
    <2> QED
      BY <2>1, <2>2, <2>3, <2>4 DEF Next, vars, ChangeServer, RestoreFactory, TrackerSteps,
         UnitSteps, TrackerResets, UnitHalts, UnitRestartsTracker, BatteryFails, Stopped
  <1>6. unsaid' \in BOOLEAN
    <2>1. unsaid \in BOOLEAN
      BY DEF TypeInv, TypeOK
    <2> QED
      BY <2>1 DEF Next, vars, ChangeMode, ChangeNumber, ChangeServer, RestoreFactory,
         RestoreAll, Deliver, Drop, TrackerSteps, UnitSteps, TrackerResets, UnitHalts,
         UnitRestartsTracker, BatteryFails, Stopped
  <1> QED
    BY <1>5, <1>6

LEMMA NextType == TypeInv /\ [Next]_vars => TypeInv'
  <1> SUFFICES ASSUME TypeInv, [Next]_vars PROVE TypeInv'
    OBVIOUS
  <1>1. StoreType /\ FramTypeOK
    BY DEF TypeInv, TypeOK, StoreType
  <1>2. StoreType'
    BY <1>1, NextMoves, StoreMoveType
  <1>3. FramTypeOK'
    BY <1>1, NextFrams, FramMoveType
  <1> QED
    BY <1>2, <1>3, CountsType, WaitsType DEF TypeInv, TypeOK, StoreType, Waits

(* Every variable keeps its type, and a repair always has an image to repair with. *)
THEOREM TypeCorrect == Spec => []TypeOK
  <1>1. Spec => []TypeInv
    BY InitType, NextType, PTL DEF Spec
  <1>2. TypeInv => TypeOK
    BY DEF TypeInv
  <1> QED
    BY <1>1, <1>2, PTL

-----------------------------------------------------------------------------
(* The three copies.  What holds at a step of a start or of a save while no write has    *)
(* failed, however often the tracker was stopped.                                        *)

\* What a save writes is the image of the settings in force.
InForce ==
    /\ pc \in Saves \cup {"run"} => pending = Image(settings)
    /\ pc \in {"run", "saveNvram"} => saved = pending

\* One of the files is intact, and a start or a save works from that one.
Whole ==
    errors = 0 =>
        /\ pc = "off" /\ saved # None => Good(main) \/ Good(minor)
        /\ pc = "fixMain" => Good(mem) \/ Good(minor)
        /\ pc = "fixMain" /\ saved # None => Good(minor)
        /\ pc = "fixMinor" => main = para
        /\ pc = "fixMem" => main = para /\ Good(minor)
        /\ pc = "load" /\ para # None => main = para /\ Good(minor)
        /\ pc = "load" /\ para = None => saved = None
        /\ pc = "run" => main = saved /\ Good(minor)
        /\ pc \in {"saveMem", "saveMain"} /\ saved # None => main = saved /\ Good(minor)
        /\ pc = "saveMain" => mem = pending
        /\ pc = "saveMinor" => main = pending /\ mem = pending
        /\ pc = "saveNvram" => main = pending /\ minor = pending /\ mem = pending

\* Until a stop that is counted the copies agree but for the one that is being written.
Kept == IF saved = None THEN Torn ELSE saved

Fresh ==
    errors = 0 /\ lag = 0 =>
        /\ pc \notin Repairs
        /\ pc \in Steps \ {"saveMinor"} => main = Kept /\ minor = Kept
        /\ pc = "saveMinor" => minor = Kept
        /\ pc \in {"off", "load", "run", "saveMem"} => mem \in {Kept, Torn}
        /\ pc = "load" => para = saved

\* After one counted stop whatever the next start finds is the last save or the one
\* that was interrupted.
Recent ==
    errors = 0 /\ lag <= 1 /\ saved # None =>
        /\ pc = "off" /\ Good(main) => main \in {saved, pending}
        /\ pc = "off" /\ ~Good(main) /\ Good(mem) => mem \in {saved, pending}
        /\ pc = "off" /\ ~Good(main) /\ Good(minor) => minor \in {saved, pending}
        /\ pc \in Repairs \cup {"load"} => para \in {saved, pending}

StoreInv == StoreType /\ lag \in Nat /\ InForce /\ Whole /\ Fresh /\ Recent

LEMMA ForceStep == ASSUME StoreInv, StoreMove PROVE InForce'
  <1> USE CopiesAssumption, StoreAssumption
  <1>1. ASSUME UNCHANGED <<store, lag>> PROVE InForce'
    BY <1>1 DEF store, StoreInv, InForce, Image, Saves
  <1>2. ASSUME Stopping PROVE InForce'
    BY <1>2 DEF Stopping, PowerGoes, Reset, Stop, InForce, Saves
  <1>3. ASSUME Saving PROVE InForce'
    BY <1>3 DEF Saving, Save, InForce, Image
  <1>4. ASSUME Load PROVE InForce'
    <2>1. Image(settings') = IF para \in Modes THEN para ELSE Factory
      BY <1>4 DEF Load, Image
    <2>2. pending' = Image(settings')
      BY <1>4, <2>1 DEF Load
    <2> QED
      BY <1>4, <2>2 DEF Load, InForce, Image, Saves
  <1>5. ASSUME Read \/ FixMain \/ FixMinor \/ FixMem PROVE InForce'
    BY <1>5 DEF Read, FirstRepair, FixMain, FixMinor, FixMem, InForce, Saves
  <1>6. ASSUME SaveMem \/ SaveMain \/ SaveMinor \/ SaveNvram PROVE InForce'
    BY <1>6 DEF SaveMem, SaveMain, SaveMinor, SaveNvram, StoreInv, InForce, Image, Saves
  <1> QED
    BY <1>1, <1>2, <1>3, <1>4, <1>5, <1>6 DEF StoreMove, Stepping, StoreStep

LEMMA NoError == ASSUME StoreInv, StoreMove, errors' = 0 PROVE errors = 0
  <1>1. errors \in Nat
    BY StoreAssumption DEF StoreInv, StoreType, StoreTypeOK
  <1>2. errors' = errors \/ errors' = errors + 1
    BY DEF StoreMove, Stopping, PowerGoes, Reset, Stop, Saving, Save, Stepping, StoreStep,
           Read, FixMain, FixMinor, FixMem, Load, SaveMem, SaveMain, SaveMinor, SaveNvram,
           Written, store
  <1> QED
    BY <1>1, <1>2

\* A write that did not fail wrote.
LEMMA WroteIt == ASSUME NEW c, NEW d, NEW i, errors = 0, errors' = 0,
                        \/ d = i /\ UNCHANGED errors
                        \/ errors < MaxErrors /\ errors' = errors + 1 /\ d \in {c, Torn}
                 PROVE d = i
  OBVIOUS

LEMMA WholeStep == ASSUME StoreInv, StoreMove PROVE Whole'
  <1> USE CopiesAssumption, StoreAssumption
  <1> SUFFICES ASSUME errors' = 0 PROVE Whole'
    BY DEF Whole
  <1>0. errors = 0
    BY NoError
  <1>i. /\ Image(settings) \in Images
        /\ \A c \in Images : Good(c) /\ c # None
    BY ImageType DEF StoreInv, StoreType, StoreTypeOK, Images, Good
  <1>t. /\ mem \in Images \cup {Torn} /\ main \in Images \cup {Torn}
        /\ minor \in Images \cup {Torn} /\ para \in Images \cup {None}
        /\ saved \in Images \cup {None} /\ pending \in Images \cup {None}
        /\ (pc \in Repairs => para \in Images) /\ ~Good(Torn)
    BY DEF StoreInv, StoreType, StoreTypeOK, Copies, Good
  <1>w. Whole /\ InForce
    BY DEF StoreInv
  <1>1. ASSUME UNCHANGED <<store, lag>> PROVE Whole'
    BY <1>1, <1>0, <1>w DEF store, Whole, Good
  <1>2. ASSUME Stopping PROVE Whole'
    <2>1. /\ pc' = "off" /\ saved' = saved
          /\ main' \in Left(main, pc \in {"fixMain", "saveMain"})
          /\ minor' \in Left(minor, pc \in {"fixMinor", "saveMinor"})
      BY <1>2 DEF Stopping, PowerGoes, Reset, Stop
    <2>2. ASSUME saved # None PROVE Good(main') \/ Good(minor')
      <3>1. CASE pc \in {"fixMain", "saveMain"}
        BY <3>1, <2>1, <2>2, <1>0, <1>w, <1>t DEF Whole, Left, Good, Repairs
      <3>2. CASE pc \in {"fixMinor", "saveMinor"}
        <4>1. Good(main)
          BY <3>2, <1>0, <1>w, <1>t, <1>i DEF Whole, InForce, Repairs, Saves
        <4> QED
          BY <4>1, <3>2, <2>1 DEF Left, Good
      <3>3. CASE pc \notin {"fixMain", "saveMain", "fixMinor", "saveMinor"}
        <4>1. main' = main /\ minor' = minor
          BY <3>3, <2>1 DEF Left
        <4>2. Good(main) \/ Good(minor)
          BY <3>3, <2>2, <1>0, <1>w, <1>t, <1>i
             DEF Whole, InForce, Repairs, Saves, StoreInv, StoreType, StoreTypeOK, Steps
        <4> QED
          BY <4>1, <4>2 DEF Good
      <3> QED
        BY <3>1, <3>2, <3>3
    <2> QED
      BY <2>1, <2>2 DEF Whole
  <1>3. ASSUME Saving PROVE Whole'
    BY <1>3, <1>0, <1>w DEF Saving, Save, Whole, Good
  <1>4. ASSUME Read PROVE Whole'
    BY <1>4, <1>0, <1>w, <1>t, <1>i DEF Read, Choice, FirstRepair, Whole, Good
  <1>5. ASSUME FixMain PROVE Whole'
    <2>1. main' = para
      BY <1>5, <1>0, WroteIt DEF FixMain, Written
    <2> QED
      BY <1>5, <2>1, <1>0, <1>w, <1>t, <1>i DEF FixMain, Whole, Good, Repairs
  <1>6. ASSUME FixMinor PROVE Whole'
    <2>1. minor' = IF Good(mem) THEN mem ELSE para
      BY <1>6, <1>0, WroteIt DEF FixMinor, Written
    <2> QED
      BY <1>6, <2>1, <1>0, <1>w, <1>t, <1>i DEF FixMinor, Whole, Good, Repairs
  <1>7. ASSUME FixMem PROVE Whole'
    BY <1>7, <1>0, <1>w, <1>t, <1>i DEF FixMem, Whole, Good, Repairs
  <1>8. ASSUME Load PROVE Whole'
    BY <1>8, <1>0, <1>w, <1>t, <1>i DEF Load, Whole, Good, Repairs
  <1>9. ASSUME SaveMem PROVE Whole'
    BY <1>9, <1>0, <1>w DEF SaveMem, Whole, InForce, Good, Saves
  <1>10. ASSUME SaveMain PROVE Whole'
    <2>1. main' = Image(settings)
      BY <1>10, <1>0, WroteIt DEF SaveMain, Written
    <2> QED
      BY <1>10, <2>1, <1>0, <1>w DEF SaveMain, Whole, InForce, Saves
  <1>11. ASSUME SaveMinor PROVE Whole'
    <2>1. minor' = Image(settings)
      BY <1>11, <1>0, WroteIt DEF SaveMinor, Written
    <2> QED
      BY <1>11, <2>1, <1>0, <1>w DEF SaveMinor, Whole, InForce, Saves
  <1>12. ASSUME SaveNvram PROVE Whole'
    BY <1>12, <1>0, <1>w, <1>t, <1>i DEF SaveNvram, Whole, InForce, Saves, Good
  <1> QED
    BY <1>1, <1>2, <1>3, <1>4, <1>5, <1>6, <1>7, <1>8, <1>9, <1>10, <1>11, <1>12
       DEF StoreMove, Stepping, StoreStep

LEMMA FreshStep == ASSUME StoreInv, StoreMove PROVE Fresh'
  <1> USE CopiesAssumption, StoreAssumption
  <1> SUFFICES ASSUME errors' = 0, lag' = 0 PROVE Fresh'
    BY DEF Fresh
  <1>0. errors = 0 /\ lag \in Nat
    BY NoError DEF StoreInv
  <1>w. Whole /\ InForce /\ Fresh
    BY DEF StoreInv
  <1>t. /\ para \in Images \cup {None} /\ Torn \notin Images /\ None \notin Images
        /\ saved \in Images \cup {None} /\ ~Good(Torn) /\ pc \in Steps
        /\ mem \in Copies /\ main \in Copies /\ minor \in Copies
        /\ pending \in Images \cup {None}
    BY DEF StoreInv, StoreType, StoreTypeOK, Copies, Images, Good
  <1>1. ASSUME UNCHANGED <<store, lag>> PROVE Fresh'
    BY <1>1, <1>0, <1>w DEF store, Fresh, Kept
  <1>2. ASSUME Stopping PROVE Fresh'
    <2>1. pc \in {"off", "run"} /\ lag = 0
      BY <1>2, <1>0 DEF Stopping
    <2>2. main' = main /\ minor' = minor /\ mem' \in {mem, Torn} /\ pc' = "off"
          /\ saved' = saved
      BY <1>2, <2>1 DEF Stopping, PowerGoes, Reset, Stop, Left
    <2> QED
      BY <2>1, <2>2, <1>0, <1>w, <1>t DEF Fresh, Kept, Repairs, Steps
  <1>3. ASSUME Saving PROVE Fresh'
    BY <1>3, <1>0, <1>w DEF Saving, Save, Fresh, Kept, Repairs, Steps, Saves
  <1>n. ASSUME StoreStep, pc # "saveMinor", lag' = lag PROVE lag = 0
    BY <1>n
  <1>4. ASSUME Read, lag = 0 PROVE Fresh'
    BY <1>4, <1>0, <1>w, <1>t DEF Read, Choice, FirstRepair, Fresh, Kept, Good, Repairs, Steps
  <1>5. ASSUME FixMain \/ FixMinor \/ FixMem, lag = 0 PROVE Fresh'
    BY <1>5, <1>0, <1>w DEF FixMain, FixMinor, FixMem, Fresh, Repairs
  <1>6. ASSUME Load, lag = 0 PROVE Fresh'
    BY <1>6, <1>0, <1>w, <1>t DEF Load, Fresh, Kept, Good, Repairs, Steps
  <1>7. ASSUME SaveMem, lag = 0 PROVE Fresh'
    BY <1>7, <1>0, <1>w, <1>t DEF SaveMem, Fresh, Kept, InForce, Repairs, Steps, Saves
  <1>8. ASSUME SaveMain, lag = 0 PROVE Fresh'
    BY <1>8, <1>0, <1>w, <1>t DEF SaveMain, Fresh, Kept, Repairs, Steps, Saves
  <1>9. ASSUME SaveMinor PROVE Fresh'
    <2>1. minor' = pending /\ main' = pending /\ saved' = pending /\ pending # None
      <3>1. minor' = Image(settings)
        BY <1>9, <1>0, WroteIt DEF SaveMinor, Written
      <3>2. pending = Image(settings) /\ Image(settings) \in Images
        BY <1>9, <1>w, ImageType DEF SaveMinor, InForce, Saves, StoreInv, StoreType, StoreTypeOK
      <3> QED
        BY <1>9, <3>1, <3>2, <1>0, <1>w, <1>t DEF SaveMinor, Whole
    <2> QED
      BY <1>9, <2>1 DEF SaveMinor, Fresh, Kept, Repairs
  <1>10. ASSUME SaveNvram, lag = 0 PROVE Fresh'
    <2>1. mem = Kept
      BY <1>10, <1>0, <1>w, <1>t, ImageType
         DEF SaveNvram, Whole, InForce, Saves, Kept, StoreInv, StoreType, StoreTypeOK
    <2> QED
      BY <1>10, <2>1, <1>0, <1>w, <1>t DEF SaveNvram, Fresh, Kept, Repairs, Steps
  <1>11. ASSUME Stepping PROVE Fresh'
    <2>1. SaveMinor \/ lag = 0
      BY <1>11 DEF Stepping, StoreStep, Read, FixMain, FixMinor, FixMem, Load, SaveMem,
                   SaveMain, SaveNvram
    <2> QED
      BY <2>1, <1>11, <1>4, <1>5, <1>6, <1>7, <1>8, <1>9, <1>10 DEF Stepping, StoreStep
  <1> QED
    BY <1>1, <1>2, <1>3, <1>11 DEF StoreMove

LEMMA RecentStep == ASSUME StoreInv, StoreMove PROVE Recent'
  <1> USE CopiesAssumption, StoreAssumption
  <1> SUFFICES ASSUME errors' = 0, lag' <= 1, saved' # None PROVE Recent'
    BY DEF Recent
  <1>0. errors = 0 /\ lag \in Nat
    BY NoError DEF StoreInv
  <1>w. Whole /\ InForce /\ Fresh /\ Recent
    BY DEF StoreInv
  <1>t. /\ para \in Images \cup {None} /\ Torn \notin Images /\ None \notin Images
        /\ saved \in Images \cup {None} /\ ~Good(Torn) /\ pc \in Steps
        /\ mem \in Copies /\ main \in Copies /\ minor \in Copies
        /\ pending \in Images \cup {None}
        /\ (pc \in Repairs => para \in Images)
    BY DEF StoreInv, StoreType, StoreTypeOK, Copies, Images, Good
  <1>1. ASSUME UNCHANGED <<store, lag>> PROVE Recent'
    BY <1>1, <1>0, <1>w DEF store, Recent, Good
  <1>2. ASSUME Stopping PROVE Recent'
    <2>1. /\ pc' = "off" /\ saved' = saved /\ pending' = pending
          /\ main' \in Left(main, pc \in {"fixMain", "saveMain"})
          /\ minor' \in Left(minor, pc \in {"fixMinor", "saveMinor"})
          /\ mem' \in {mem, Torn}
      BY <1>2 DEF Stopping, PowerGoes, Reset, Stop, Left
    <2>2. CASE pc = "off"
      <3>1. main' = main /\ minor' = minor /\ lag <= 1
        BY <1>2, <2>1, <2>2 DEF Left, Stopping
      <3> QED
        BY <2>1, <2>2, <3>1, <1>0, <1>w, <1>t DEF Recent, Good, Repairs
    <2>3. CASE pc = "run"
      <3>1. main' = main /\ main = saved /\ saved # None
        BY <2>1, <2>3, <1>0, <1>w DEF Left, Whole
      <3> QED
        BY <2>1, <3>1, <1>t DEF Recent, Good, Repairs
    <2>4. CASE pc \notin {"off", "run"}
      <3>1. lag = 0 /\ saved # None
        BY <2>1, <2>4, <1>2, <1>0 DEF Stopping
      <3>2. pc \in {"load"} \cup Saves /\ Kept = saved
        BY <2>4, <3>1, <1>0, <1>w, <1>t DEF Fresh, Steps, Kept
      <3>3. CASE pc \in {"load", "saveMem"}
        <4>1. main' = saved
          BY <3>1, <3>2, <3>3, <2>1, <1>0, <1>w, <1>t DEF Fresh, Left, Steps, Saves
        <4> QED
          BY <4>1, <2>1, <1>t, <3>1 DEF Recent, Good, Repairs
      <3>4. CASE pc = "saveMain"
        <4>1. main' \in {saved, Torn} /\ minor' = saved /\ mem' \in {pending, Torn}
          BY <3>1, <3>2, <3>4, <2>1, <1>0, <1>w, <1>t DEF Fresh, Whole, Left, Steps, Saves
        <4> QED
          BY <4>1, <2>1, <1>t, <3>1 DEF Recent, Good, Repairs
      <3>5. CASE pc \in {"saveMinor", "saveNvram"}
        <4>1. main' = pending /\ pending # None /\ pending # Torn
          <5>1. pending \in Images
            BY <3>5, <1>w, ImageType DEF InForce, Saves, StoreInv, StoreType, StoreTypeOK
          <5> QED
            BY <5>1, <3>5, <2>1, <1>0, <1>w, <1>t DEF Whole, Left
        <4> QED
          BY <4>1, <2>1 DEF Recent, Good, Repairs
      <3> QED
        BY <3>2, <3>3, <3>4, <3>5 DEF Saves
    <2> QED
      BY <2>2, <2>3, <2>4
  <1>3. ASSUME Saving PROVE Recent'
    BY <1>3 DEF Saving, Save, Recent, Repairs
  <1>4. ASSUME Read, lag <= 1 PROVE Recent'
    <2>1. saved # None /\ pc = "off" /\ saved' = saved /\ pending' = pending
      BY <1>4 DEF Read
    <2>2. para' \in {saved, pending}
      BY <1>4, <2>1, <1>0, <1>w, <1>t DEF Read, Choice, Whole, Recent, Good
    <2>3. pc' # "off"
      BY <1>4 DEF Read, FirstRepair
    <2> QED
      BY <2>1, <2>2, <2>3 DEF Recent
  <1>5. ASSUME FixMain \/ FixMinor \/ FixMem, lag <= 1 PROVE Recent'
    <2>1. pc \in Repairs /\ UNCHANGED <<para, saved, pending>> /\ pc' # "off"
      BY <1>5 DEF FixMain, FixMinor, FixMem, Repairs
    <2> QED
      BY <2>1, <1>5, <1>0, <1>w DEF Recent
  <1>6. ASSUME Load PROVE Recent'
    BY <1>6 DEF Load, Recent, Repairs
  <1>7. ASSUME SaveMem \/ SaveMain \/ SaveMinor \/ SaveNvram PROVE Recent'
    BY <1>7 DEF SaveMem, SaveMain, SaveMinor, SaveNvram, Recent, Repairs
  <1>8. ASSUME Stepping PROVE Recent'
    <2>1. SaveMinor \/ lag <= 1
      BY <1>8 DEF Stepping, StoreStep, Read, FixMain, FixMinor, FixMem, Load, SaveMem,
                  SaveMain, SaveNvram
    <2> QED
      BY <2>1, <1>8, <1>4, <1>5, <1>6, <1>7 DEF Stepping, StoreStep
  <1> QED
    BY <1>1, <1>2, <1>3, <1>8 DEF StoreMove

-----------------------------------------------------------------------------
(* Together. *)

IInv == TypeInv /\ StoreInv

LEMMA InitIInv == Init => IInv
  <1> SUFFICES ASSUME Init PROVE IInv
    OBVIOUS
  <1>1. TypeInv
    BY InitType
  <1>2. StoreType /\ lag \in Nat
    BY <1>1, StoresAssumption DEF TypeInv, TypeOK, StoreType
  <1>3. InForce /\ Whole /\ Fresh /\ Recent
    BY DEF Init, StoreInit, InForce, Whole, Fresh, Recent, Saves, Repairs, Steps, Kept
  <1> QED
    BY <1>1, <1>2, <1>3 DEF IInv, StoreInv

LEMMA NextIInv == IInv /\ [Next]_vars => IInv'
  <1> SUFFICES ASSUME IInv, [Next]_vars PROVE IInv'
    OBVIOUS
  <1>1. TypeInv' /\ StoreMove
    BY NextType, NextMoves DEF IInv
  <1>2. StoreType' /\ lag' \in Nat
    BY <1>1, StoresAssumption DEF TypeInv, TypeOK, StoreType
  <1> QED
    BY <1>1, <1>2, ForceStep, WholeStep, FreshStep, RecentStep DEF IInv, StoreInv

LEMMA AlwaysIInv == Spec => []IInv
  BY InitIInv, NextIInv, PTL DEF Spec

(* However often the tracker is stopped, one of the two files has a good check sum once a *)
(* configuration was saved, be it the empty image, as long as no write of a file failed.  *)
THEOREM SurvivesStops == Spec => []NeverForgets
  <1>1. IInv => NeverForgets
    <2> SUFFICES ASSUME IInv, saved # None, errors = 0 PROVE Good(main) \/ Good(minor)
      BY DEF NeverForgets
    <2>1. /\ Whole /\ InForce /\ pc \in Steps /\ saved \in Images /\ Image(settings) \in Images
          /\ \A c \in Images : c # Torn
          /\ (pc \in Repairs => para \in Images)
      BY ImageType, CopiesAssumption, StoreAssumption
         DEF IInv, StoreInv, StoreType, StoreTypeOK, Images
    <2>2. para \in Images \cup {None}
      BY DEF IInv, StoreInv, StoreType, StoreTypeOK
    <2> QED
      BY <2>1, <2>2 DEF Whole, InForce, Good, Steps, Saves, Repairs
  <1> QED
    BY <1>1, AlwaysIInv, PTL

(* A start after at most one stop in a start or a save takes the last save or the         *)
(* interrupted one.                                                                       *)
THEOREM OneStopCostsOneSave == Spec => []OldOrNew
  <1>1. IInv => OldOrNew
    BY DEF IInv, StoreInv, Recent, OldOrNew
  <1> QED
    BY <1>1, AlwaysIInv, PTL

(* A running tracker would find its own settings in the main file. *)
THEOREM RunsOnWhatItSaved == Spec => []SavedIsInForce
  <1>1. IInv => SavedIsInForce
    <2> SUFFICES ASSUME IInv, pc = "run", errors = 0
                 PROVE  main = Image(settings) /\ settings.fit = (saved # Blank)
      BY DEF SavedIsInForce
    <2>1. main = Image(settings) /\ saved = Image(settings)
      BY DEF IInv, StoreInv, Whole, InForce
    <2>2. settings.mode \in Modes /\ settings.fit \in BOOLEAN
      BY DEF IInv, StoreInv, StoreType, StoreTypeOK, Settings
    <2>3. settings.mode # Blank
      BY <2>2, StoreAssumption
    <2>4. CASE settings.fit
      BY <2>1, <2>2, <2>3, <2>4 DEF Image
    <2>5. CASE ~settings.fit
      BY <2>1, <2>2, <2>5 DEF Image
    <2> QED
      BY <2>1, <2>4, <2>5
  <1> QED
    BY <1>1, AlwaysIInv, PTL

-----------------------------------------------------------------------------
(* The number.  While the tracker runs it holds what NVRAM holds, or more. *)

NumberHeld == pc # "off" => (nvram => number)

LEMMA NumberStep == ASSUME NumberHeld, StoreMove PROVE NumberHeld' /\ (nvram => nvram')
  <1>1. ASSUME UNCHANGED <<store, lag>> PROVE NumberHeld' /\ (nvram => nvram')
    BY <1>1 DEF store, NumberHeld
  <1>2. ASSUME Stopping PROVE NumberHeld' /\ (nvram => nvram')
    BY <1>2 DEF Stopping, PowerGoes, Reset, Stop, NumberHeld
  <1>3. ASSUME NEW n \in BOOLEAN, NEW s \in Settings, Save(s, n), number => n
        PROVE  NumberHeld' /\ (nvram => nvram')
    BY <1>3 DEF Save, NumberHeld
  <1>4. ASSUME Read PROVE NumberHeld' /\ (nvram => nvram')
    BY <1>4 DEF Read, NumberHeld
  <1>5. ASSUME FixMain \/ FixMinor \/ FixMem \/ Load \/ SaveMem \/ SaveMain \/ SaveMinor
        PROVE  NumberHeld' /\ (nvram => nvram')
    <2>1. UNCHANGED <<number, nvram>> /\ pc # "off"
      BY <1>5 DEF FixMain, FixMinor, FixMem, Load, SaveMem, SaveMain, SaveMinor
    <2> QED
      BY <2>1 DEF NumberHeld
  <1>6. ASSUME SaveNvram PROVE NumberHeld' /\ (nvram => nvram')
    BY <1>6 DEF SaveNvram, NumberHeld
  <1> QED
    BY <1>1, <1>2, <1>3, <1>4, <1>5, <1>6 DEF StoreMove, Stepping, StoreStep, Saving

(* No step takes a number out of the NVRAM. *)
THEOREM NumberSurvives == Spec => NumberKept
  <1>1. Init => NumberHeld
    BY DEF Init, StoreInit, NumberHeld
  <1>2. TypeInv /\ NumberHeld /\ [Next]_vars => NumberHeld' /\ (nvram => nvram')
    BY NextMoves, NumberStep
  <1>3. Spec => []TypeInv
    BY InitType, NextType, PTL DEF Spec
  <1>4. TypeInv /\ NumberHeld /\ [Next]_vars => [nvram => nvram']_vars
    BY <1>2
  <1> QED
    BY <1>1, <1>2, <1>3, <1>4, PTL DEF Spec, NumberKept

-----------------------------------------------------------------------------
(* The two copies of the unit. *)

FramInv ==
    /\ fpc \in {"first", "second"} => being = gpara
    /\ fpc = "second" => first = gpara
    /\ fcuts = 0 /\ Good(kept) =>
         /\ fpc # "off" /\ second = kept
         /\ fpc # "second" => first = kept
    /\ fcuts <= 1 /\ Good(kept) /\ fpc = "off" =>
         \/ Good(first) /\ first \in {kept, being}
         \/ ~Good(first) /\ Good(second) /\ second \in {kept, being}

LEMMA FramInvStep ==
    ASSUME FramTypeOK, FramInv, FramMove PROVE FramInv'
  <1>t. /\ fcuts \in Nat /\ kept \in Modes \cup {Torn} /\ being \in Modes /\ gpara \in Modes
        /\ fpc \in {"off", "wait", "first", "second", "halt"}
        /\ first \in Modes \cup {Torn} /\ second \in Modes \cup {Torn} /\ Torn \notin Modes
        /\ then \in {"wait", "halt"}
    BY CopiesAssumption DEF FramTypeOK
  <1>1. ASSUME UNCHANGED fram PROVE FramInv'
    BY <1>1 DEF fram, FramInv, Good
  <1>2. ASSUME FramStart PROVE FramInv'
    BY <1>2, <1>t DEF FramStart, Started, Write, Good, FramInv
  <1>3. ASSUME FramCommit \/ FramDefault \/ FramHalt PROVE FramInv'
    BY <1>3, <1>t DEF FramCommit, FramDefault, FramHalt, Write, FramInv, Good
  <1>4. ASSUME WriteFirst PROVE FramInv'
    BY <1>4, <1>t DEF WriteFirst, FramInv, Good
  <1>5. ASSUME WriteSecond PROVE FramInv'
    BY <1>5, <1>t DEF WriteSecond, FramInv, Good
  <1>6. ASSUME FramCut PROVE FramInv'
    <2>1. /\ first' \in Left(first, fpc = "first") /\ second' \in Left(second, fpc = "second")
          /\ fcuts' = fcuts + 1 /\ UNCHANGED <<kept, being>> /\ fpc' = "off"
          /\ fpc # "off"
      BY <1>6 DEF FramCut
    <2>2. ASSUME fcuts' <= 1, Good(kept)
          PROVE  \/ Good(first') /\ first' \in {kept, being}
                 \/ ~Good(first') /\ Good(second') /\ second' \in {kept, being}
      <3>1. fcuts = 0
        BY <2>1, <2>2, <1>t
      <3>2. CASE fpc = "second"
        BY <3>1, <3>2, <2>1, <2>2, <1>t DEF FramInv, Left, Good
      <3>3. CASE fpc # "second"
        BY <3>1, <3>3, <2>1, <2>2, <1>t DEF FramInv, Left, Good
      <3> QED
        BY <3>2, <3>3
    <2> QED
      BY <2>1, <2>2, <1>t DEF FramInv, Good
  <1>7. ASSUME NEW frame \in Modes \cup {Keep}, FramFrame(frame) PROVE FramInv'
    <2>1. fpc = "wait" /\ UNCHANGED <<fpc, first, second, kept, being, fcuts>>
      BY <1>7 DEF FramFrame
    <2> QED
      BY <2>1, <1>t DEF FramInv, Good
  <1> QED
    BY <1>1, <1>2, <1>3, <1>4, <1>5, <1>6, <1>7 DEF FramMove, FramStep

(* One loss of power costs the unit at most the write it interrupted. *)
THEOREM UnitKeepsItsMode == Spec => UnitOldOrNew
  <1>1. Init => FramInv
    BY CopiesAssumption DEF Init, FramInit, FramInv, Good
  <1>2. TypeInv /\ FramInv /\ [Next]_vars => FramInv'
    BY NextFrams, FramInvStep DEF TypeInv, TypeOK
  <1>3. Spec => []TypeInv
    BY InitType, NextType, PTL DEF Spec
  <1>4. TypeInv /\ FramInv /\ [Next]_vars
          => [fpc = "off" /\ fpc' # "off" /\ fcuts <= 1 /\ Good(kept)
                => gpara' \in {kept, being}]_vars
    <2> SUFFICES ASSUME TypeInv, FramInv, [Next]_vars, fpc = "off", fpc' # "off",
                        fcuts <= 1, Good(kept)
                 PROVE  gpara' \in {kept, being}
      OBVIOUS
    <2>1. FramStart
      BY NextFrams DEF FramMove, FramStep, FramDefault, FramHalt, FramCut, FramFrame,
                       FramCommit, WriteFirst, WriteSecond, fram
    <2> QED
      BY <2>1 DEF FramStart, Started, Write, FramInv
  <1> QED
    BY <1>1, <1>2, <1>3, <1>4, PTL DEF Spec, UnitOldOrNew

-----------------------------------------------------------------------------
(* The two together.  The frames that wait say what the unit will have been told. *)

\* A mode is always followed by the order to keep it.
Shape(q) == \A i \in 1 .. Len(q) : q[i] \in Modes => i < Len(q) /\ q[i + 1] = Keep

\* A unit that has the mode v will have the mode w when all of q is delivered.
Told(q, v, w) ==
    \/ \E i \in 1 .. Len(q) :
         q[i] # Keep /\ Said(q[i]) = w /\ \A j \in i + 1 .. Len(q) : q[j] = Keep
    \/ v = w /\ \A i \in 1 .. Len(q) : q[i] = Keep

Frame == Modes \cup {Keep, Default}

LEMMA TailOf == ASSUME NEW q \in Seq(Frame), q # <<>>
                PROVE  /\ Tail(q) \in Seq(Frame) /\ Len(Tail(q)) = Len(q) - 1
                       /\ \A i \in 1 .. Len(Tail(q)) : Tail(q)[i] = q[i + 1]
                       /\ Head(q) = q[1] /\ Len(q) >= 1 /\ Len(q) \in Nat
  OBVIOUS

LEMMA PairOf == ASSUME NEW q \in Seq(Frame), NEW x \in Frame, NEW y \in Frame
                PROVE  /\ q \o <<x, y>> \in Seq(Frame) /\ Len(q \o <<x, y>>) = Len(q) + 2
                       /\ \A i \in 1 .. Len(q) : (q \o <<x, y>>)[i] = q[i]
                       /\ (q \o <<x, y>>)[Len(q) + 1] = x /\ (q \o <<x, y>>)[Len(q) + 2] = y
                       /\ Len(q) \in Nat
  <1>1. <<x, y>> \in Seq(Frame) /\ Len(<<x, y>>) = 2 /\ <<x, y>>[1] = x /\ <<x, y>>[2] = y
    OBVIOUS
  <1> QED
    BY <1>1

LEMMA AppendOf == ASSUME NEW q \in Seq(Frame), NEW x \in Frame
                  PROVE  /\ Append(q, x) \in Seq(Frame) /\ Len(Append(q, x)) = Len(q) + 1
                         /\ \A i \in 1 .. Len(q) : Append(q, x)[i] = q[i]
                         /\ Append(q, x)[Len(q) + 1] = x /\ Len(q) \in Nat
  OBVIOUS

LEMMA ToldTail ==
    ASSUME NEW q \in Seq(Frame), q # <<>>, NEW v, NEW w, Told(q, v, w)
    PROVE  Told(Tail(q), IF Head(q) = Keep THEN v ELSE Said(Head(q)), w)
  <1> DEFINE t == Tail(q)
             u == IF Head(q) = Keep THEN v ELSE Said(Head(q))
  <1>0. /\ Len(t) = Len(q) - 1 /\ \A i \in 1 .. Len(t) : t[i] = q[i + 1]
        /\ Head(q) = q[1] /\ Len(q) >= 1 /\ Len(q) \in Nat
    BY TailOf
  <1> HIDE DEF t, u
  <1>1. CASE v = w /\ \A i \in 1 .. Len(q) : q[i] = Keep
    <2>1. u = w
      BY <1>0, <1>1 DEF u
    <2>2. \A i \in 1 .. Len(t) : t[i] = Keep
      BY <1>0, <1>1
    <2> QED
      BY <2>1, <2>2 DEF Told, t, u
  <1>2. ASSUME NEW i \in 1 .. Len(q), q[i] # Keep, Said(q[i]) = w,
               \A j \in i + 1 .. Len(q) : q[j] = Keep
        PROVE  Told(t, u, w)
    <2>1. CASE i = 1
      <3>1. u = w
        BY <1>0, <1>2, <2>1 DEF u
      <3>2. \A k \in 1 .. Len(t) : t[k] = Keep
        BY <1>0, <1>2, <2>1
      <3> QED
        BY <3>1, <3>2 DEF Told
    <2>2. CASE i # 1
      <3>1. i - 1 \in 1 .. Len(t) /\ t[i - 1] = q[i]
        BY <1>0, <2>2
      <3>2. \A j \in (i - 1) + 1 .. Len(t) : t[j] = Keep
        BY <1>0, <1>2, <2>2
      <3> QED
        BY <3>1, <3>2, <1>2 DEF Told
    <2> QED
      BY <2>1, <2>2
  <1> QED
    BY <1>1, <1>2 DEF Told, t, u

LEMMA ToldPair == ASSUME NEW q \in Seq(Frame), NEW m \in Modes, NEW v
                  PROVE  Told(q \o <<m, Keep>>, v, m)
  <1> DEFINE r == q \o <<m, Keep>>
  <1>0. Len(r) = Len(q) + 2 /\ r[Len(q) + 1] = m /\ r[Len(q) + 2] = Keep /\ Len(q) \in Nat
    BY PairOf DEF Frame
  <1>1. m # Keep /\ Said(m) = m
    BY FramesAssumption DEF Said
  <1> HIDE DEF r
  <1>2. Len(q) + 1 \in 1 .. Len(r) /\ \A j \in (Len(q) + 1) + 1 .. Len(r) : r[j] = Keep
    BY <1>0
  <1> QED
    BY <1>0, <1>1, <1>2 DEF Told, r

LEMMA ToldDefault == ASSUME NEW q \in Seq(Frame), NEW v
                     PROVE  Told(Append(q, Default), v, Factory)
  <1> DEFINE r == Append(q, Default)
  <1>0. Len(r) = Len(q) + 1 /\ r[Len(q) + 1] = Default /\ Len(q) \in Nat
    BY AppendOf DEF Frame
  <1>1. Default # Keep /\ Said(Default) = Factory
    BY DEF Said, Default, Keep
  <1> HIDE DEF r
  <1>2. Len(q) + 1 \in 1 .. Len(r) /\ \A j \in (Len(q) + 1) + 1 .. Len(r) : r[j] = Keep
    BY <1>0
  <1> QED
    BY <1>0, <1>1, <1>2 DEF Told, r

\* The last mode that waits is the whole story.
LEMMA ToldEnough ==
    ASSUME NEW q \in Seq(Frame), q # <<>>, Shape(q), Len(q) <= 2, Head(q) # Keep
    PROVE  Told(Tail(q), Said(Head(q)), Said(Head(q)))
  <1> DEFINE t == Tail(q)
             w == Said(Head(q))
  <1>0. /\ Len(t) = Len(q) - 1 /\ \A i \in 1 .. Len(t) : t[i] = q[i + 1]
        /\ Head(q) = q[1] /\ Len(q) >= 1 /\ Len(q) \in Nat
        /\ \A i \in 1 .. Len(q) : q[i] \in Frame
    BY TailOf
  <1> HIDE DEF t, w
  <1>1. CASE \A i \in 1 .. Len(t) : t[i] = Keep
    BY <1>1 DEF Told, t, w
  <1>2. CASE ~(\A i \in 1 .. Len(t) : t[i] = Keep)
    <2>1. Len(q) = 2 /\ Len(t) = 1 /\ t[1] = q[2] /\ q[2] # Keep
      BY <1>0, <1>2
    <2>2. q[1] \notin Modes
      BY <2>1, <1>0 DEF Shape
    <2>3. q[2] \notin Modes
      BY <2>1, <1>0 DEF Shape
    <2>4. q[1] = Default /\ q[2] = Default
      BY <2>1, <2>2, <2>3, <1>0 DEF Frame
    <2>5. 1 \in 1 .. Len(t) /\ t[1] # Keep /\ Said(t[1]) = w
      BY <2>1, <2>4, <1>0 DEF w
    <2>6. \A j \in 1 + 1 .. Len(t) : t[j] = Keep
      BY <2>1
    <2> QED
      BY <2>5, <2>6 DEF Told, t, w
  <1> QED
    BY <1>1, <1>2

LEMMA ShapeTail == ASSUME NEW q \in Seq(Frame), q # <<>>, Shape(q)
                   PROVE  /\ Shape(Tail(q))
                          /\ Head(q) \in Modes => Len(Tail(q)) >= 1 /\ Tail(q)[1] = Keep
  <1> DEFINE t == Tail(q)
  <1>0. /\ Len(t) = Len(q) - 1 /\ \A i \in 1 .. Len(t) : t[i] = q[i + 1]
        /\ Head(q) = q[1] /\ Len(q) >= 1 /\ Len(q) \in Nat
    BY TailOf
  <1> HIDE DEF t
  <1>1. ASSUME NEW i \in 1 .. Len(t), t[i] \in Modes PROVE i < Len(t) /\ t[i + 1] = Keep
    <2>1. i + 1 \in 1 .. Len(q) /\ q[i + 1] \in Modes
      BY <1>0, <1>1
    <2>2. i + 1 < Len(q) /\ q[(i + 1) + 1] = Keep
      BY <2>1 DEF Shape
    <2> QED
      BY <2>2, <1>0
  <1>2. ASSUME Head(q) \in Modes PROVE Len(t) >= 1 /\ t[1] = Keep
    BY <1>0, <1>2 DEF Shape
  <1> QED
    BY <1>1, <1>2 DEF Shape, t

LEMMA ShapePair == ASSUME NEW q \in Seq(Frame), NEW m \in Modes, Shape(q)
                   PROVE  Shape(q \o <<m, Keep>>)
  <1> DEFINE r == q \o <<m, Keep>>
  <1>0. /\ Len(r) = Len(q) + 2 /\ r[Len(q) + 1] = m /\ r[Len(q) + 2] = Keep /\ Len(q) \in Nat
        /\ \A i \in 1 .. Len(q) : r[i] = q[i]
    BY PairOf DEF Frame
  <1> HIDE DEF r
  <1>1. ASSUME NEW i \in 1 .. Len(r), r[i] \in Modes PROVE i < Len(r) /\ r[i + 1] = Keep
    <2>1. CASE i \in 1 .. Len(q)
      <3>1. i < Len(q) /\ q[i + 1] = Keep
        BY <1>0, <1>1, <2>1 DEF Shape
      <3> QED
        BY <3>1, <2>1, <1>0
    <2>2. CASE i = Len(q) + 1
      BY <2>2, <1>0
    <2>3. CASE i = Len(q) + 2
      BY <2>3, <1>0, <1>1, FramesAssumption
    <2> QED
      BY <2>1, <2>2, <2>3, <1>0
  <1> QED
    BY <1>1 DEF Shape, r

LEMMA ShapeDefault == ASSUME NEW q \in Seq(Frame), Shape(q)
                      PROVE  Shape(Append(q, Default))
  <1> DEFINE r == Append(q, Default)
  <1>0. /\ Len(r) = Len(q) + 1 /\ r[Len(q) + 1] = Default /\ Len(q) \in Nat
        /\ \A i \in 1 .. Len(q) : r[i] = q[i]
    BY AppendOf DEF Frame
  <1> HIDE DEF r
  <1>1. ASSUME NEW i \in 1 .. Len(r), r[i] \in Modes PROVE i < Len(r) /\ r[i + 1] = Keep
    <2>1. i \in 1 .. Len(q)
      BY <1>0, <1>1, FramesAssumption
    <2>2. i < Len(q) /\ q[i + 1] = Keep
      BY <1>0, <1>1, <2>1 DEF Shape
    <2> QED
      BY <2>2, <2>1, <1>0
  <1> QED
    BY <1>1 DEF Shape, r

\* The mode the unit has, or will have when it starts again.
Has == IF fpc = "off" THEN first ELSE gpara

\* A mode that is not on its way into the EEPROM is in it.
Settled ==
    /\ fpc = "halt" => first = gpara
    /\ fpc = "wait" /\ ~unsaid =>
         commit \/ first = gpara \/ \E i \in 1 .. Len(frames) : frames[i] = Keep

Agree ==
    errors = 0 /\ ~unsaid =>
        /\ pc \in Saves \cup {"run"} => Told(frames, Has, settings.mode)
        /\ pc \in {"off", "load"} \cup Repairs =>
             /\ frames = <<>> /\ pc # "fixMain"
             /\ saved = None => main = Torn /\ minor = Torn /\ mem = Torn /\ para = None
             /\ saved # None => main = saved
             /\ saved \in Modes => Has = saved
             /\ para # None => para = saved

StepInv == IInv /\ FramInv /\ Shape(frames) /\ Settled /\ Agree

LEMMA Facts == ASSUME StepInv
               PROVE  /\ frames \in Seq(Frame) /\ Len(frames) <= 3 /\ unsaid \in BOOLEAN
                      /\ commit \in BOOLEAN /\ gpara \in Modes
                      /\ first \in Modes \cup {Torn} /\ second \in Modes \cup {Torn}
                      /\ settings.mode \in Modes
                      /\ fpc \in {"off", "wait", "first", "second", "halt"}
                      /\ then \in {"wait", "halt"} /\ pc \in Steps
                      /\ FramTypeOK
  BY DEF StepInv, IInv, TypeInv, TypeOK, StoreTypeOK, FramTypeOK, Settings, Frame

\* A step of the unit alone, or none, keeps what the unit has.
LEMMA UnitHas == ASSUME StepInv, UnitSteps PROVE Has' = Has \/ Has = Torn
  <1>1. CASE FramStart
    BY <1>1, Facts DEF FramStart, Started, Write, Has, Good, StepInv, Settled
  <1>2. CASE FramCommit
    BY <1>2 DEF FramCommit, Write, Has
  <1>3. CASE WriteFirst \/ WriteSecond
    BY <1>3, Facts DEF WriteFirst, WriteSecond, Has
  <1> QED
    BY <1>1, <1>2, <1>3 DEF UnitSteps, FramStep

LEMMA ShapeStep == ASSUME StepInv, [Next]_vars PROVE Shape(frames)'
  <1>0. frames \in Seq(Frame) /\ Shape(frames)
    BY Facts DEF StepInv
  <1>1. ASSUME NEW m \in Modes, frames' = frames \o <<m, Keep>> PROVE Shape(frames')
    BY <1>0, <1>1, ShapePair
  <1>2. ASSUME frames' = Append(frames, Default) PROVE Shape(frames')
    BY <1>0, <1>2, ShapeDefault
  <1>3. ASSUME frames # <<>>, frames' = Tail(frames) PROVE Shape(frames')
    BY <1>0, <1>3, ShapeTail
  <1>4. ASSUME frames' = <<>> PROVE Shape(frames')
    BY <1>4 DEF Shape
  <1>5. \/ frames' = frames \/ frames' = <<>>
        \/ \E m \in Modes : frames' = frames \o <<m, Keep>>
        \/ frames' = Append(frames, Default)
        \/ frames # <<>> /\ frames' = Tail(frames)
    BY DEF Next, vars, ChangeMode, ChangeNumber, ChangeServer, RestoreFactory, RestoreAll,
           Deliver, Drop, TrackerSteps, UnitSteps, TrackerResets, UnitHalts,
           UnitRestartsTracker, BatteryFails, Stopped
  <1> QED
    BY <1>0, <1>1, <1>2, <1>3, <1>4, <1>5

\* What the unit makes of a frame.
LEMMA Delivered ==
    ASSUME StepInv, Deliver
    PROVE  /\ frames # <<>> /\ frames' = Tail(frames) /\ fpc = "wait" /\ Head(frames) \in Frame
           /\ gpara' = IF Head(frames) = Keep THEN gpara ELSE Said(Head(frames))
           /\ Head(frames) = Keep => commit'
           /\ Head(frames) = Default => fpc' = "first"
           /\ Head(frames) # Default => fpc' = fpc
           /\ UNCHANGED <<first, second>>
  <1>1. frames \in Seq(Frame) /\ frames # <<>> /\ frames' = Tail(frames)
    BY Facts DEF Deliver
  <1>2. Head(frames) \in Frame
    BY <1>1, TailOf
  <1>3. Keep # Default /\ Keep \notin Modes /\ Default \notin Modes
    BY FramesAssumption DEF Keep, Default
  <1>4. CASE Head(frames) = Default
    BY <1>1, <1>2, <1>3, <1>4 DEF Deliver, FramDefault, Write, Said
  <1>5. CASE Head(frames) = Keep
    BY <1>1, <1>2, <1>3, <1>5 DEF Deliver, FramFrame, Said
  <1>6. CASE Head(frames) \in Modes
    BY <1>1, <1>2, <1>3, <1>6 DEF Deliver, FramFrame, Said
  <1> QED
    BY <1>2, <1>4, <1>5, <1>6 DEF Frame

LEMMA SettledStep == ASSUME StepInv, [Next]_vars PROVE Settled'
  <1>0. /\ frames \in Seq(Frame) /\ Shape(frames) /\ Settled /\ unsaid \in BOOLEAN
        /\ fpc \in {"off", "wait", "first", "second", "halt"} /\ then \in {"wait", "halt"}
        /\ FramInv /\ first \in Modes \cup {Torn} /\ commit \in BOOLEAN
    BY Facts DEF StepInv
  <1> DEFINE Keeps(q) == \E i \in 1 .. Len(q) : q[i] = Keep
  <1>1. ASSUME UNCHANGED <<fpc, first, gpara, commit>>, ~unsaid' => ~unsaid,
               ~unsaid' /\ Keeps(frames) => Keeps(frames')
        PROVE  Settled'
    BY <1>0, <1>1 DEF Settled
  <1>2. ASSUME NEW m \in Modes, ChangeMode(m) \/ ChangeNumber(m) PROVE Settled'
    <2>1. /\ frames' = frames \/ frames' = frames \o <<m, Keep>>
          /\ UNCHANGED <<fpc, first, gpara, commit, unsaid>>
      BY <1>2 DEF ChangeMode, ChangeNumber, fram
    <2>2. ASSUME Keeps(frames) PROVE Keeps(frames')
      BY <2>1, <2>2, <1>0, PairOf DEF Frame
    <2> QED
      BY <2>1, <2>2, <1>1
  <1>3. ASSUME RestoreAll PROVE Settled'
    <2>1. frames' = Append(frames, Default) /\ UNCHANGED <<fpc, first, gpara, commit, unsaid>>
      BY <1>3 DEF RestoreAll, fram
    <2>2. ASSUME Keeps(frames) PROVE Keeps(frames')
      BY <2>1, <2>2, <1>0, AppendOf DEF Frame
    <2> QED
      BY <2>1, <2>2, <1>1
  <1>4. ASSUME (\E b \in BOOLEAN : ChangeServer(b)) \/ RestoreFactory \/ TrackerSteps
               \/ UNCHANGED vars
        PROVE  Settled'
    <2>1. UNCHANGED <<fpc, first, gpara, commit, frames>> /\ (~unsaid' => ~unsaid)
      BY <1>4, <1>0 DEF ChangeServer, RestoreFactory, TrackerSteps, vars, fram
    <2> QED
      BY <2>1, <1>1
  <1>5. ASSUME Drop PROVE Settled'
    <2>1. unsaid' = TRUE /\ UNCHANGED <<fpc, first, gpara>>
      BY <1>5 DEF Drop, fram
    <2> QED
      BY <2>1, <1>0 DEF Settled
  <1>6. ASSUME Deliver PROVE Settled'
    <2>1. CASE Head(frames) = Default
      BY <1>6, <2>1, Delivered DEF Settled
    <2>2. CASE Head(frames) = Keep
      <3>1. fpc' = "wait" /\ commit'
        BY <1>6, <2>2, Delivered DEF Keep, Default
      <3> QED
        BY <3>1 DEF Settled
    <2>3. CASE Head(frames) \in Modes
      <3>1. fpc' = "wait" /\ frames' = Tail(frames) /\ frames # <<>>
        BY <1>6, <2>3, Delivered, FramesAssumption
      <3>2. Len(Tail(frames)) >= 1 /\ Tail(frames)[1] = Keep
        BY <3>1, <2>3, <1>0, ShapeTail
      <3>3. 1 \in 1 .. Len(frames') /\ frames'[1] = Keep
        BY <3>1, <3>2, <1>0, TailOf
      <3> QED
        BY <3>1, <3>3 DEF Settled
    <2> QED
      BY <2>1, <2>2, <2>3, <1>6, Delivered DEF Frame
  <1>7. ASSUME UnitSteps PROVE Settled'
    <2>1. frames' = frames /\ unsaid' = unsaid
      BY <1>7 DEF UnitSteps
    <2>2. CASE FramStart
      BY <2>1, <2>2, <1>0 DEF FramStart, Started, Write, Settled
    <2>3. CASE FramCommit \/ WriteFirst
      BY <2>1, <2>3 DEF FramCommit, Write, WriteFirst, Settled
    <2>4. CASE WriteSecond
      BY <2>1, <2>4, <1>0 DEF WriteSecond, Settled, FramInv
    <2> QED
      BY <2>2, <2>3, <2>4, <1>7 DEF UnitSteps, FramStep
  <1>8. ASSUME TrackerResets \/ UnitRestartsTracker PROVE Settled'
    <2>1. /\ frames' = <<>> /\ UNCHANGED <<fpc, first, gpara, commit>>
          /\ ~unsaid' => ~unsaid /\ frames = <<>>
      BY <1>8, <1>0 DEF TrackerResets, UnitRestartsTracker, Stopped, fram
    <2> QED
      BY <2>1, <1>1
  <1>9. ASSUME UnitHalts \/ BatteryFails PROVE Settled'
    <2>1. fpc' \in {"first", "off"}
      BY <1>9 DEF UnitHalts, BatteryFails, FramHalt, Write, FramCut
    <2> QED
      BY <2>1 DEF Settled
  <1> QED
    BY <1>2, <1>3, <1>4, <1>5, <1>6, <1>7, <1>8, <1>9 DEF Next

\* A stop of the tracker that leaves the unit's mode as it was.
LEMMA AgreeStopped ==
    ASSUME StepInv, PowerGoes \/ Reset, ~unsaid, frames = <<>>, pc \notin Saves,
           frames' = <<>>, Has' = Has
    PROVE  Agree'
  <1> SUFFICES ASSUME errors' = 0 PROVE Agree'
    BY DEF Agree
  <1>1. /\ pc' = "off" /\ para' = None /\ UNCHANGED <<errors, saved>>
        /\ main' \in Left(main, pc \in {"fixMain", "saveMain"})
        /\ minor' \in Left(minor, pc \in {"fixMinor", "saveMinor"})
        /\ mem' \in {mem, Torn}
    BY DEF PowerGoes, Reset, Stop, Left
  <1>2. pc \in Steps /\ Agree /\ Whole /\ InForce /\ (pc \in Repairs => para \in Images)
        /\ Torn \notin Images /\ None \notin Images /\ settings.mode \in Modes
        /\ None \notin Modes /\ settings \in Settings
    BY Facts, CopiesAssumption, StoreAssumption
       DEF StepInv, IInv, StoreInv, StoreType, StoreTypeOK, Images
  <1>3. CASE pc = "run"
    <2>1. Has = settings.mode
      BY <1>1, <1>2, <1>3 DEF Agree, Told
    <2>2. saved = Image(settings) /\ Image(settings) \in Images /\ main = saved
      BY <1>1, <1>2, <1>3, ImageType DEF InForce, Whole
    <2>3. saved \in Modes => saved = settings.mode
      BY <2>2, StoreAssumption DEF Image
    <2>4. main' = saved' /\ saved' # None
      BY <1>1, <1>2, <1>3, <2>2 DEF Left
    <2> QED
      BY <1>1, <2>1, <2>3, <2>4 DEF Agree, Saves, Repairs
  <1>4. CASE pc # "run"
    <2>1. pc \in {"off", "load"} \cup Repairs
      BY <1>2, <1>4 DEF Steps
    <2>2. main' = main
      BY <2>1, <1>1, <1>2 DEF Left, Agree, Repairs
    <2>3. saved = None => minor' = Torn /\ mem' = Torn
      BY <2>1, <1>1, <1>2 DEF Left, Agree
    <2> QED
      BY <1>1, <1>2, <2>1, <2>2, <2>3 DEF Agree, Saves, Repairs
  <1> QED
    BY <1>3, <1>4

\* A step of the tracker while the unit and the frames stay as they are.
LEMMA AgreeTracker == ASSUME StepInv, TrackerSteps PROVE Agree'
  <1> SUFFICES ASSUME errors' = 0, ~unsaid' PROVE Agree'
    BY DEF Agree
  <1>u. ~unsaid /\ ~(pc = "load" /\ para \notin Modes)
    BY Facts DEF TrackerSteps
  <1>f. frames' = frames /\ Has' = Has
    BY DEF TrackerSteps, fram, Has
  <1>e. errors = 0
    BY NoError, NextMoves DEF StepInv, IInv, Next
  <1>2. Agree /\ (pc \in Repairs => para \in Images)
        /\ Torn \notin Images /\ None \notin Images /\ None # Torn
    BY CopiesAssumption, StoreAssumption
       DEF StepInv, IInv, StoreInv, StoreType, StoreTypeOK, Images
  <1>3. ASSUME Read PROVE Agree'
    <2>0. UNCHANGED <<mem, main, minor, saved>> /\ pc = "off"
      BY <1>3 DEF Read
    <2>1. CASE saved = None
      BY <1>2, <1>3, <1>u, <1>f, <1>e, <2>0, <2>1
         DEF Read, Choice, FirstRepair, Good, Agree, Saves, Repairs
    <2>2. CASE saved # None
      <3>1. main = saved /\ Good(main)
        <4>1. saved \in Images
          BY <2>2 DEF StepInv, IInv, StoreInv, StoreType, StoreTypeOK
        <4> QED
          BY <4>1, <1>2, <2>0, <2>2, <1>u, <1>e DEF Agree, Good
      <3>2. para' = saved /\ pc' \in {"fixMinor", "load"}
        BY <1>3, <3>1 DEF Read, Choice, FirstRepair
      <3> QED
        BY <1>2, <1>u, <1>f, <1>e, <2>0, <2>2, <3>1, <3>2 DEF Agree, Saves, Repairs
    <2> QED
      BY <2>1, <2>2
  <1>4. ASSUME FixMain PROVE Agree'
    BY <1>2, <1>4, <1>u, <1>e DEF FixMain, Agree, Repairs
  <1>5. ASSUME FixMinor \/ FixMem PROVE Agree'
    <2>1. /\ pc \in Repairs /\ pc' \in {"load", "fixMem"}
          /\ UNCHANGED <<main, para, saved>> /\ para # None
      BY <1>2, <1>5 DEF FixMinor, FixMem, Repairs
    <2> QED
      BY <2>1, <1>2, <1>u, <1>f, <1>e DEF Agree, Saves, Repairs
  <1>6. ASSUME Load PROVE Agree'
    <2>1. para \in Modes /\ para # None /\ para = saved /\ Has = saved /\ frames = <<>>
      BY <1>6, <1>2, <1>u, <1>e, StoreAssumption DEF Load, Agree
    <2>2. settings'.mode = para /\ pc' = "run"
      BY <1>6, <2>1 DEF Load
    <2>3. Told(<<>>, para, para)
      BY DEF Told
    <2> QED
      BY <2>1, <2>2, <2>3, <1>f DEF Agree, Repairs
  <1>7. ASSUME SaveMem \/ SaveMain \/ SaveMinor \/ SaveNvram PROVE Agree'
    <2>1. pc \in Saves /\ pc' \in Saves \cup {"run"} /\ settings' = settings
      BY <1>7 DEF SaveMem, SaveMain, SaveMinor, SaveNvram, Saves
    <2> QED
      BY <2>1, <1>2, <1>u, <1>f, <1>e DEF Agree, Saves, Repairs
  <1> QED
    BY <1>3, <1>4, <1>5, <1>6, <1>7 DEF TrackerSteps, StoreStep

\* A command.
LEMMA AgreeSaved ==
    ASSUME StepInv, NEW s \in Settings, NEW n \in BOOLEAN, Save(s, n), unsaid' = unsaid,
           Has' = Has, errors = 0 /\ ~unsaid => Told(frames', Has, s.mode)
    PROVE  Agree'
  BY DEF Save, Agree, Saves, Repairs

LEMMA AgreeStep == ASSUME StepInv, [Next]_vars PROVE Agree'
  <1>0. /\ frames \in Seq(Frame) /\ Shape(frames) /\ Settled /\ unsaid \in BOOLEAN
        /\ fpc \in {"off", "wait", "first", "second", "halt"} /\ commit \in BOOLEAN
        /\ settings \in Settings /\ settings.mode \in Modes /\ number \in BOOLEAN /\ Agree
    BY Facts DEF StepInv, IInv, StoreInv, StoreType, StoreTypeOK
  <1>1. ASSUME NEW m \in Modes, ChangeMode(m) \/ ChangeNumber(m) PROVE Agree'
    <2>1. [settings EXCEPT !.mode = m] \in Settings /\ [settings EXCEPT !.mode = m].mode = m
      BY <1>0 DEF Settings
    <2>2. pc = "run" /\ unsaid' = unsaid /\ Has' = Has
      BY <1>1 DEF ChangeMode, ChangeNumber, Changing, fram, Has
    <2>3. \/ frames' = frames \o <<m, Keep>>
          \/ frames' = frames /\ m = settings.mode
      BY <1>1 DEF ChangeMode, ChangeNumber
    <2>4. errors = 0 /\ ~unsaid => Told(frames', Has, m)
      BY <2>2, <2>3, <1>0, ToldPair DEF Agree
    <2> QED
      BY <1>1, <2>1, <2>2, <2>4, <1>0, AgreeSaved DEF ChangeMode, ChangeNumber
  <1>2. ASSUME NEW fit \in BOOLEAN, ChangeServer(fit) PROVE Agree'
    <2>1. /\ [settings EXCEPT !.fit = fit] \in Settings
          /\ [settings EXCEPT !.fit = fit].mode = settings.mode
      BY <1>0 DEF Settings
    <2>2. pc = "run" /\ unsaid' = unsaid /\ Has' = Has /\ frames' = frames
      BY <1>2 DEF ChangeServer, Changing, fram, Has
    <2>3. errors = 0 /\ ~unsaid => Told(frames', Has, settings.mode)
      BY <2>2, <1>0 DEF Agree
    <2> QED
      BY <1>2, <2>1, <2>2, <2>3, <1>0, AgreeSaved DEF ChangeServer
  <1>3. ASSUME RestoreFactory \/ Drop PROVE Agree'
    BY <1>3 DEF RestoreFactory, Drop, Agree
  <1>4. ASSUME RestoreAll PROVE Agree'
    <2>1. [mode |-> Factory, fit |-> TRUE] \in Settings
      BY SettingsType, CopiesAssumption
    <2>2. unsaid' = unsaid /\ Has' = Has /\ frames' = Append(frames, Default)
      BY <1>4 DEF RestoreAll, fram, Has
    <2>3. Told(frames', Has, Factory)
      BY <2>2, <1>0, ToldDefault
    <2>4. [mode |-> Factory, fit |-> TRUE].mode = Factory
      OBVIOUS
    <2> QED
      BY <1>4, <2>1, <2>2, <2>3, <2>4, <1>0, AgreeSaved DEF RestoreAll
  <1>5. ASSUME Deliver PROVE Agree'
    <2>1. pc = "run" /\ frames # <<>> /\ frames' = Tail(frames) /\ fpc = "wait"
          /\ UNCHANGED <<pc, errors, settings>> /\ Has = gpara /\ Has' = gpara'
      <3>1. fpc' # "off"
        BY <1>5, Delivered, <1>0 DEF Frame
      <3> QED
        BY <1>5, <3>1, Delivered DEF Deliver, store, Has
    <2>2. gpara' = IF Head(frames) = Keep THEN gpara ELSE Said(Head(frames))
      BY <1>5, Delivered
    <2>3. ASSUME errors = 0, ~unsaid' PROVE Told(frames', Has', settings.mode)
      <3>1. CASE ~unsaid
        <4>1. Told(frames, gpara, settings.mode)
          BY <2>1, <2>3, <3>1, <1>0 DEF Agree
        <4> QED
          BY <4>1, <2>1, <2>2, <1>0, ToldTail
      <3>2. CASE unsaid
        <4>1. Said(Head(frames)) = settings.mode /\ Len(frames) <= 2
          BY <1>5, <2>3, <3>2, <1>0 DEF Deliver
        <4>2. Head(frames) # Keep
          BY <4>1, <1>0, FramesAssumption DEF Said, Keep, Default
        <4>3. gpara' = Said(Head(frames))
          BY <4>2, <2>2
        <4> QED
          BY <4>1, <4>2, <4>3, <2>1, <1>0, ToldEnough
      <3> QED
        BY <3>1, <3>2
    <2> QED
      BY <2>1, <2>3 DEF Agree, Saves, Repairs
  <1>6. ASSUME UnitSteps PROVE Agree'
    <2>1. UNCHANGED <<pc, errors, settings, frames, unsaid, saved, para, main, minor, mem>>
      BY <1>6 DEF UnitSteps, store
    <2>2. ASSUME Told(frames, Has, settings.mode) PROVE Told(frames, Has', settings.mode)
      BY <2>2, <1>6, UnitHas, <1>0, CopiesAssumption DEF Told
    <2>3. ASSUME saved \in Modes, Has = saved PROVE Has' = saved
      BY <2>3, <1>6, UnitHas, CopiesAssumption
    <2> QED
      BY <2>1, <2>2, <2>3, <1>0 DEF Agree
  <1>7. ASSUME TrackerResets \/ UnitHalts \/ UnitRestartsTracker PROVE Agree'
    <2>1. (PowerGoes \/ Reset) /\ frames' = <<>> /\ Has' = Has
      BY <1>7 DEF TrackerResets, UnitHalts, UnitRestartsTracker, Stopped, FramHalt, Write,
                  fram, Has
    <2>2. ASSUME ~unsaid' PROVE ~unsaid /\ frames = <<>> /\ pc \notin Saves
      BY <1>7, <2>2, <1>0 DEF TrackerResets, UnitHalts, UnitRestartsTracker, Stopped
    <2>3. CASE unsaid'
      BY <2>3 DEF Agree
    <2>4. CASE ~unsaid'
      BY <2>1, <2>2, <2>4, AgreeStopped
    <2> QED
      BY <2>3, <2>4
  <1>8. ASSUME BatteryFails PROVE Agree'
    <2>1. CASE unsaid'
      BY <2>1 DEF Agree
    <2>2. CASE ~unsaid'
      <3>1. ~unsaid /\ frames = <<>> /\ pc \notin Saves /\ ~commit /\ fpc # "first"
            /\ frames' = <<>>
        BY <1>8, <2>2, <1>0 DEF BatteryFails
      <3>2. fpc # "off" /\ fpc' = "off" /\ first' = first
        BY <1>8, <3>1 DEF BatteryFails, FramCut, Left
      <3>3. first = gpara
        <4>1. CASE fpc = "wait"
          BY <4>1, <3>1, <1>0 DEF Settled
        <4>2. CASE fpc \in {"second", "halt"}
          BY <4>2, <1>0 DEF Settled, StepInv, FramInv
        <4> QED
          BY <4>1, <4>2, <3>1, <3>2, <1>0
      <3> QED
        BY <1>8, <3>1, <3>2, <3>3, AgreeStopped DEF BatteryFails, Has
    <2> QED
      BY <2>1, <2>2
  <1>9. ASSUME UNCHANGED vars PROVE Agree'
    BY <1>9, <1>0 DEF vars, store, fram, Agree, Has
  <1> QED
    BY <1>1, <1>2, <1>3, <1>4, <1>5, <1>6, <1>7, <1>8, <1>9, AgreeTracker DEF Next

(* When nothing waits to be sent and nothing was lost on the way, the unit has the         *)
(* tracker's mode.                                                                        *)
THEOREM UnitFollows == Spec => []InStep
  <1>1. Init => StepInv
    <2> SUFFICES ASSUME Init PROVE StepInv
      OBVIOUS
    <2>1. IInv
      BY InitIInv
    <2>2. FramInv /\ Settled
      BY CopiesAssumption DEF Init, FramInit, FramInv, Good, Settled
    <2>3. Shape(frames)
      BY DEF Init, Shape
    <2>4. Agree
      BY CopiesAssumption, StoreAssumption
         DEF Init, StoreInit, FramInit, Agree, Saves, Repairs
    <2> QED
      BY <2>1, <2>2, <2>3, <2>4 DEF StepInv
  <1>2. StepInv /\ [Next]_vars => StepInv'
    <2> SUFFICES ASSUME StepInv, [Next]_vars PROVE StepInv'
      OBVIOUS
    <2>1. IInv'
      BY NextIInv DEF StepInv
    <2>2. FramInv'
      BY NextFrams, FramInvStep DEF StepInv, IInv, TypeInv, TypeOK
    <2> QED
      BY <2>1, <2>2, ShapeStep, SettledStep, AgreeStep DEF StepInv
  <1>3. StepInv => InStep
    BY DEF StepInv, Agree, Told, Has, InStep
  <1> QED
    BY <1>1, <1>2, <1>3, PTL DEF Spec
=============================================================================
