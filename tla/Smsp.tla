--------------------------------- MODULE Smsp --------------------------------
(* The frames of the slave memory share protocol (SMSP), by which the        *)
(* tracker reads and writes the registers of the power management unit, and  *)
(* the ring in which expmu.c keeps those that are not acknowledged: as the   *)
(* sequence of the frames between out and in.                                *)
EXTENDS Naturals, Sequences, FiniteSets

CONSTANTS
    MAX_SEND_QUE_LEN,   \* slots of the ring
    MARKS,              \* how many marks there are
    MAX_RETRY,          \* at this many attempts a frame is dropped, not sent
    Times               \* the points of time a wake-up may be set to

(* A mark for each slot and for two frames on the line. *)
ASSUME RingAssumption ==
    /\ MAX_SEND_QUE_LEN \in Nat \ {0} /\ MARKS \in Nat /\ MARKS > MAX_SEND_QUE_LEN + 1
    /\ MAX_RETRY \in Nat \ {0} /\ Times \subseteq Nat \ {0}

(* A wake-up time: a point of time and a day of the week, 0 for none.        *)
WakeTimes == [at : Times \union {0}, day : 0 .. 1]
NoTime == [at |-> 0, day |-> 0]

(* What a frame asks for: the register map, the event register, the other    *)
(* registers, or that fields of the event register are written.  Frames that *)
(* write the parameters, or read them once more, only delay the others.      *)
Kinds == {"query", "read", "info", "force", "next", "sleep", "calib"}
Marks == 0 .. MARKS - 1
Frame == [kind : Kinds, next : WakeTimes, mark : Marks, retry : 0 .. MAX_RETRY - 1]
Rings == Seq(Frame)

EmptyRing == <<>>
IsEmpty(q) == q = <<>>

(* expmu_clear_smap_stack *)
Clear(q) == <<>>

(* The code counts the mark up, 256 of them for 20 slots: a frame gets one   *)
(* that no frame in the ring has and no frame or answer on the line.         *)
InRing(q) == {q[i].mark : i \in DOMAIN q}
FreshMark(q, line) == CHOOSE m \in Marks : m \notin line /\ m \notin InRing(q)

(* Mutant: the mark is not counted up. *)
Insert_SameMark(q, line, kind, next) ==
    Append(q, [kind |-> kind, next |-> next, mark |-> 0, retry |-> 0])

(* insert_smsp_stack_que: it takes the last free slot too; in then meets out *)
(* and nothing that waits is sent any more.                                  *)
Insert(q, line, kind, next) ==
    IF Len(q) + 1 >= MAX_SEND_QUE_LEN THEN <<>>
    ELSE Append(q, [kind |-> kind, next |-> next, mark |-> FreshMark(q, line), retry |-> 0])

(* delete_smsp_stack_que: only the oldest frame is looked at.  The code does *)
(* not ask whether the ring is empty: an answer that is still under way when *)
(* the ring overflows would move out past in and bring the frames of all the *)
(* other slots back.  That is left out.                                      *)
Delete(q, mark) == IF q # <<>> /\ Head(q).mark = mark THEN Tail(q) ELSE q

(* push_smsp_packet_to_uart, of a ring that is not empty: the attempt is     *)
(* counted, and the frame is to be sent, or dropped.                         *)
Attempting(q) == Head(q).retry + 1 < MAX_RETRY
Attempt(q) == IF Attempting(q) THEN [q EXCEPT ![1].retry = @ + 1] ELSE Tail(q)
==============================================================================
