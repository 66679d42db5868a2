--------------------------------- MODULE Epo ---------------------------------
(* The download of satellite orbits: agps_service.c, with the receive buffer *)
(* of its socket (fifo.c) and the framing of messages, which protocol.c,     *)
(* config_service.c and update_file.c repeat.  It is the only service over   *)
(* TCP: the server's answers are a stream, which arrives in pieces.  The     *)
(* tracker asks for the time, then for the first part of the orbit file, to  *)
(* learn the hour the file starts at, then for the parts of the six hours    *)
(* that are now.  Here a message is two pieces of the stream, a time is the  *)
(* number of a stretch of six hours, and version v of the server's file      *)
(* covers the stretches v .. v + SEGMENTS - 1.                               *)
EXTENDS Naturals, Sequences, FiniteSets

CONSTANTS
    PARTS,              \* answers that make up a stretch, EPO_GPS_DATA_6HOURS_LENTH bytes
    SEGMENTS,           \* stretches of the server's file
    FIFO_PIECES,        \* pieces the receive buffer has room for
    MAX_CONNECT_REPEAT,
    MaxFaults,          \* bound: links lost, answers lost or late, power cuts
    MaxTime             \* bound: how far the time goes, and the versions of the file

ASSUME EpoAssumption ==
    /\ {PARTS, SEGMENTS, FIFO_PIECES, MAX_CONNECT_REPEAT, MaxTime} \subseteq Nat \ {0}
    /\ FIFO_PIECES >= 2 /\ MaxFaults \in Nat

VARIABLES
    status,   \* s_agps_socket.status
    fails,    \* s_agps_socket.status_fail_count
    fifo,     \* s_agps_socket.fifo
    half,     \* packet_error_start: "no", or "new" and, 3 s later, "old"
    late,     \* send_time is more than 10 s ago
    extend,   \* s_agps_socket_extend: timing, timed, required_agps, data_start, data_len
    ext,      \* s_agps_file_extend: the file being fetched
    inuse,    \* s_agps_file_inuse
    disk,     \* the file EPO_FILE_PATH, Torn after a power cut
    clock,    \* the stretch the tracker's clock shows
    net,      \* the connection: "none", "opening", "open", "gone" when the server left it
    asked,    \* requests the server has not answered
    stream,   \* pieces of its answers on their way
    gps,      \* "off", "search", "fixed"
    now, version, faults,
    stale     \* history: this connection began with an older one's pieces in the buffer

link == <<net, asked, stream>>
world == <<gps, now, version>>
vars == <<status, fails, fifo, half, late, extend, ext, inuse, disk, clock, net, asked, stream,
          gps, now, version, faults, stale>>

Last == MaxTime + SEGMENTS
Offsets == 1 .. SEGMENTS * PARTS
Request == [kind : {"time"}, at : {0}] \union [kind : {"part"}, at : 1 .. Last * PARTS + 1]
Answer == [kind : {"time"}, version : {0}, at : 1 .. MaxTime]
          \union [kind : {"part"}, version : 1 .. MaxTime, at : Offsets]
Piece == [of : Answer, last : BOOLEAN]
NoFile == [seg |-> 0, data |-> <<>>, stale |-> FALSE]
Torn == [seg |-> 1, data |-> <<>>, stale |-> FALSE]
IsFile(f) ==
    /\ f.seg \in 0 .. Last /\ f.stale \in BOOLEAN /\ Len(f.data) <= PARTS
    /\ \A i \in DOMAIN f.data : f.data[i] \in (1 .. MaxTime) \X Offsets

TypeOK ==
    /\ status \in {"INIT", "CONNECTING", "WORK", "DATA_FINISH", "ERROR"}
    /\ fails \in 0 .. MAX_CONNECT_REPEAT
    /\ Len(fifo) < FIFO_PIECES /\ \A i \in DOMAIN fifo : fifo[i] \in Piece
    /\ half \in {"no", "new", "old"} /\ late \in BOOLEAN
    /\ extend.timing \in BOOLEAN /\ extend.timed \in BOOLEAN /\ extend.required \in BOOLEAN
    /\ extend.start \in 1 .. Last * PARTS + 1 /\ extend.len \in {0, PARTS}
    /\ ext.flag \in 0 .. MaxTime /\ IsFile(ext.file) /\ IsFile(inuse) /\ IsFile(disk)
    /\ clock \in 0 .. MaxTime
    /\ net \in {"none", "opening", "open", "gone"} /\ (status = "WORK" => net \in {"open", "gone"})
    /\ \A i \in DOMAIN asked : asked[i] \in Request
    /\ \A i \in DOMAIN stream : stream[i] \in Piece
    /\ gps \in {"off", "search", "fixed"}
    /\ now \in 1 .. MaxTime /\ version \in 1 .. MaxTime /\ faults \in 0 .. MaxFaults
    /\ stale \in BOOLEAN

------------------------------------------------------------------------------
Start == [timing |-> FALSE, timed |-> FALSE, required |-> FALSE, start |-> 1, len |-> 0]
NoDownload == [flag |-> 0, file |-> NoFile] \* with no flag, what has been fetched is dead

Init ==
    /\ status = "INIT" /\ fails = 0 /\ fifo = <<>> /\ half = "no" /\ late = FALSE
    /\ extend = Start /\ ext = NoDownload /\ inuse = NoFile /\ disk = NoFile /\ clock = 0
    /\ net = "none" /\ asked = <<>> /\ stream = <<>> /\ gps \in {"off", "search"}
    /\ now = 1 /\ version = 1 /\ faults = 0 /\ stale = FALSE

(* The service as a handler finds it and leaves it.                          *)
Now == [status |-> status, fails |-> fails, fifo |-> fifo, half |-> half, late |-> late,
        extend |-> extend, ext |-> ext, inuse |-> inuse, disk |-> disk, clock |-> clock,
        net |-> net, asked |-> asked, stream |-> stream]
Leave(w) == \E x \in {w} :
    /\ status' = x.status /\ fails' = x.fails /\ fifo' = x.fifo /\ half' = x.half
    /\ late' = x.late /\ extend' = x.extend /\ ext' = x.ext /\ inuse' = x.inuse
    /\ disk' = x.disk /\ clock' = x.clock
    /\ net' = x.net /\ asked' = x.asked /\ stream' = x.stream

Fault == faults < MaxFaults /\ faults' = faults + 1

(* agps_service_transfer_status: the moves the table allows                  *)
Move(w, new) ==
    IF new \in CASE w.status = "INIT" -> {"CONNECTING", "DATA_FINISH", "ERROR"}
                 [] w.status = "CONNECTING" -> {"WORK", "DATA_FINISH", "ERROR"}
                 [] w.status = "WORK" -> {"DATA_FINISH", "ERROR"}
                 [] OTHER -> {"INIT", "ERROR"}
    THEN [w EXCEPT !.status = new, !.fails = 0] ELSE w

(* agps_service_close: the answers still on their way are lost, the receive  *)
(* buffer keeps what it has.                                                 *)
Close(w) == [w EXCEPT !.net = "none", !.asked = <<>>, !.stream = <<>>]
CloseForReconnect(w) == Move(Close(w), "DATA_FINISH")
Drop(w) == CloseForReconnect([w EXCEPT !.fifo = <<>>])

(* gm_socket_send, after which both callers give up when it fails            *)
Ask(w, kind, at) ==
    IF w.status = "WORK" /\ w.net = "open"
    THEN [w EXCEPT !.asked = Append(@, [kind |-> kind, at |-> at]), !.late = FALSE,
                   !.extend.timing = @ \/ kind = "time"]
    ELSE CloseForReconnect(w)

(* agps_service_check_and_read_file; a file is in use in its six hours.      *)
ReadFile(w) ==
    IF w.inuse.seg = 0 THEN [w EXCEPT !.inuse = IF disk = Torn THEN NoFile ELSE disk] ELSE w
Usable(w) == w.inuse.seg # 0 /\ w.inuse.seg = w.clock

(* agps_write_data_file: both copies, with no power cut                      *)
Store(w) == CloseForReconnect([w EXCEPT !.inuse = w.ext.file, !.disk = w.ext.file])

------------------------------------------------------------------------------
(* The answers.  A time answer counts only when it was asked for; it starts  *)
(* the download over.                                                        *)
TimingAck(w, m) ==
    LET told == ReadFile([w EXCEPT !.clock = IF gps = "fixed" THEN @ ELSE m.at,
                                   !.extend.timing = FALSE, !.extend.timed = TRUE,
                                   !.extend.start = 1, !.extend.len = 0, !.ext = NoDownload])
    IN  IF ~w.extend.timing THEN w
        ELSE IF ~w.extend.required \/ Usable(told) THEN CloseForReconnect(told)
        ELSE Ask(told, "part", 1)

(* The first three bytes of a part are read as an hour.  They are one only   *)
(* where a stretch begins.                                                   *)
Hours(m) == IF (m.at - 1) % PARTS = 0 THEN {m.version + (m.at - 1) \div PARTS} ELSE 1 .. Last

(* agps_msg_parse_epo_ack: the first part only tells where to begin.  A      *)
(* clock that is behind the file is not believed.  Nothing in an answer says *)
(* which part it is.                                                         *)
FirstPart(w, m, hour) ==
    LET seg == IF w.clock < hour THEN hour ELSE w.clock
        first == (seg - hour) * PARTS + 1
    IN  Ask([w EXCEPT !.extend.start = first, !.extend.len = PARTS,
                      !.ext = [flag |-> m.version,
                               file |-> [seg |-> seg, data |-> <<>>, stale |-> stale]]],
            "part", first)
NextPart_AnyFile(w, m) ==
    LET got == [w EXCEPT !.ext.file.data = Append(@, <<m.version, m.at>>), !.extend.start = @ + 1]
    IN  IF Len(got.ext.file.data) < got.extend.len THEN Ask(got, "part", got.extend.start)
        ELSE Store(got)
NextPart(w, m) ==
    LET got == [w EXCEPT !.ext.file.data = Append(@, <<m.version, m.at>>), !.extend.start = @ + 1]
        over == [w EXCEPT !.ext = NoDownload, !.extend.start = 1, !.extend.len = 0]
    IN  IF m.version # w.ext.flag THEN Ask(over, "part", 1)
        ELSE IF Len(got.ext.file.data) < got.extend.len THEN Ask(got, "part", got.extend.start)
        ELSE Store(got)

(* agps_msg_parse.  Of two pieces that do not belong together the check sum  *)
(* is wrong.                                                                 *)
Parsed(w, m) ==
    CASE m.kind = "time" -> {TimingAck(w, m)}
      [] m.kind = "part" /\ w.ext.flag = 0 -> {FirstPart(w, m, hour) : hour \in Hours(m)}
      [] OTHER -> {NextPart(w, m)}
Popped(w, n) == [w EXCEPT !.fifo = SubSeq(@, n + 1, Len(@))]

(* agps_msg_receive, in every way it can end.  A message is incomplete for   *)
(* at most 3 s; but half is not cleared when it is completed, so that the    *)
(* next incomplete one may be given up at once.  Of a piece that is not the  *)
(* beginning of a message two bytes are taken for a length: there may not be *)
(* as much in the buffer, or it may be all or part of what is there.         *)
Wait(w) == IF w.half = "old" THEN [Drop(w) EXCEPT !.half = "no"]
           ELSE [w EXCEPT !.half = "new"]
Receive(w) ==
    LET n == Len(w.fifo)
        aligned == n > 0 /\ ~w.fifo[1].last
        whole == n > 1 /\ w.fifo[2].last /\ w.fifo[2].of = w.fifo[1].of
    IN  IF n = 0 THEN {w}
        ELSE IF aligned
             THEN IF n = 1 THEN {Wait(w)}
                  ELSE IF whole THEN Parsed(Popped(w, 2), w.fifo[1].of) ELSE {Popped(w, 2)}
             ELSE {Wait(w), Drop(w)} \union {Popped(w, k) : k \in 1 .. n}

------------------------------------------------------------------------------
(* agps_service_timer_proc: a call a second, or none in the state it is in   *)
Connect(w) == [w EXCEPT !.net = "opening", !.late = FALSE]
InitProc ==
    LET read == IF gps = "fixed" THEN ReadFile(Now) ELSE Now
    IN  /\ status = "INIT"
        /\ Leave(IF gps = "fixed" /\ Usable(read) THEN CloseForReconnect(read)
                 ELSE Connect(Move(read, "CONNECTING")))
        /\ UNCHANGED stale

(* Whether the third failure leads to another attempt depends on whether the *)
(* name has been resolved in the meantime.                                   *)
ConnectingProc ==
    /\ status = "CONNECTING" /\ late
    /\ LET w == [Close(Now) EXCEPT !.fails = @ + 1]
       IN  IF fails + 1 >= MAX_CONNECT_REPEAT
           THEN Leave(Move(w, "DATA_FINISH")) ELSE Leave(Connect(w))
    /\ UNCHANGED stale

WorkProc_NoTimeout ==
    status = "WORK" /\ (\E w \in Receive(Now) : Leave(w)) /\ UNCHANGED stale

(* A request is made once.  After it is given up, what the buffer has is     *)
(* still parsed, once.                                                       *)
WorkProc ==
    /\ status = "WORK"
    /\ \E w \in Receive(IF late THEN CloseForReconnect(Now) ELSE Now) : Leave(w)
    /\ UNCHANGED stale

DataFinish(states) ==
    LET idle == gps \in {"off", "fixed"}
        w == [Now EXCEPT !.extend.required = @ /\ ~idle]
        known == ~extend.timed /\ gps = "fixed"
    IN  /\ status \in states
        /\ Leave(IF known THEN [w EXCEPT !.extend.timed = TRUE]
                 ELSE IF (extend.timed /\ ~w.extend.required) \/ Usable(w) THEN w
                 ELSE Move([w EXCEPT !.ext = NoDownload, !.extend.len = 0, !.extend.start = 1,
                                     !.extend.timing = FALSE], "INIT"))
        /\ UNCHANGED stale
DataFinishProc_NotError == DataFinish({"DATA_FINISH"})
DataFinishProc == DataFinish({"DATA_FINISH", "ERROR"})

TimerProc == (InitProc \/ ConnectingProc \/ WorkProc \/ DataFinishProc)
             /\ UNCHANGED <<gps, now, version, faults>>

------------------------------------------------------------------------------
(* The connection: agps_service_connection_ok, gm_socket_recv                *)
Connected ==
    /\ net = "opening" /\ stale' = (fifo # <<>>)
    /\ Leave(Ask(Move([Now EXCEPT !.net = "open"], "WORK"), "time", 0))
    /\ UNCHANGED <<gps, now, version, faults>>

(* fifo_insert: all of it or nothing.  The buffer is never filled to the     *)
(* last place, or it would look empty.                                       *)
Fits(n) == Len(fifo) + n < FIFO_PIECES

(* gm_socket_recv reads up to 750 bytes at a time.  That a message comes in  *)
(* two pieces again when the time of an earlier half is still remembered     *)
(* counts as a fault.                                                        *)
Arrive ==
    /\ status = "WORK" /\ stream # <<>>
    /\ \E n \in 1 .. Len(stream) :
           /\ Leave(IF Fits(n) THEN [Now EXCEPT !.fifo = @ \o SubSeq(stream, 1, n),
                                                !.stream = SubSeq(@, n + 1, Len(@))]
                    ELSE Drop(Now))
           /\ IF half = "old" /\ n < Len(stream) /\ ~stream[n].last THEN Fault
              ELSE faults' = faults
    /\ UNCHANGED <<gps, now, version, stale>>

(* The server leaves; the tracker notices when it has read everything.       *)
ServerLeaves ==
    /\ net = "open" /\ Fault /\ net' = "gone" /\ asked' = <<>>
    /\ UNCHANGED <<status, fails, fifo, half, late, extend, ext, inuse, disk, clock, stream,
                   gps, now, version, stale>>
Noticed ==
    /\ net = "gone" /\ stream = <<>> /\ status = "WORK" /\ Leave(CloseForReconnect(Now))
    /\ UNCHANGED <<gps, now, version, faults, stale>>

(* The server answers in order.  It says nothing to a request beyond its     *)
(* file, and half an answer when it leaves.                                  *)
Both(m) == <<[of |-> m, last |-> FALSE], [of |-> m, last |-> TRUE]>>
Answers(r) ==
    IF r.kind = "time" THEN Both([kind |-> "time", version |-> 0, at |-> now])
    ELSE IF r.at \in Offsets THEN Both([kind |-> "part", version |-> version, at |-> r.at])
    ELSE <<>>
Answered ==
    /\ net = "open" /\ asked # <<>>
    /\ asked' = Tail(asked) /\ stream' = stream \o Answers(Head(asked))
    /\ UNCHANGED <<status, fails, fifo, half, late, extend, ext, inuse, disk, clock, net,
                   gps, now, version, faults, stale>>
ServerLeavesHalfway ==
    /\ net = "open" /\ asked # <<>> /\ Answers(Head(asked)) # <<>> /\ Fault
    /\ net' = "gone" /\ asked' = <<>> /\ stream' = stream \o SubSeq(Answers(Head(asked)), 1, 1)
    /\ UNCHANGED <<status, fails, fifo, half, late, extend, ext, inuse, disk, clock,
                   gps, now, version, stale>>

(* 10 s pass without anything being sent, 3 s with half a message: by        *)
(* themselves when nothing is on its way or to be parsed, or because the     *)
(* link is slow.                                                             *)
Quiet == asked = <<>> /\ stream = <<>> /\ net # "opening"
Slow(quiet) == IF quiet THEN faults' = faults ELSE Fault
TenSeconds ==
    /\ status \in {"CONNECTING", "WORK"} /\ ~late /\ late' = TRUE
    /\ Slow(Quiet /\ Len(fifo) < 2)
    /\ UNCHANGED <<status, fails, fifo, half, extend, ext, inuse, disk, clock, net, asked, stream,
                   gps, now, version, stale>>
ThreeSeconds ==
    /\ half = "new" /\ half' = "old" /\ Slow(stream = <<>> \/ fifo = <<>>)
    /\ UNCHANGED <<status, fails, fifo, late, extend, ext, inuse, disk, clock, net, asked, stream,
                   gps, now, version, stale>>

(* agps_service_destroy, when the link is lost, and a power cut, which may   *)
(* come while the file is being written.                                     *)
LinkLost ==
    /\ Fault /\ status # "ERROR" /\ Leave(Move(Close(Now), "ERROR"))
    /\ UNCHANGED <<gps, now, version, stale>>
Boot(d) ==
    /\ status' = "INIT" /\ fails' = 0 /\ fifo' = <<>> /\ half' = "no" /\ late' = FALSE
    /\ extend' = Start /\ ext' = NoDownload /\ inuse' = NoFile /\ clock' = 0
    /\ net' = "none" /\ asked' = <<>> /\ stream' = <<>> /\ stale' = FALSE /\ disk' = d
    /\ gps' = "search" /\ Fault /\ UNCHANGED <<now, version>>
PowerCut == Boot(disk)
CutWriting ==
    /\ status = "WORK" /\ \E w \in Receive(Now) : w.disk # disk
    /\ \E d \in {NoFile, Torn} : Boot(d)

(* The receiver asks for the file (agps_service_require_to_gps) while it     *)
(* searches; a file that can be used is written to it at once.  The first    *)
(* position it finds after a start sets the clock (gps.c).                   *)
GpsOn == gps = "off" /\ gps' = "search" /\ UNCHANGED <<extend, clock>>
GpsAsks ==
    /\ gps = "search" /\ extend' = [extend EXCEPT !.required = ~Usable(Now)]
    /\ UNCHANGED <<gps, clock>>
GpsFixed ==
    /\ gps = "search" /\ gps' = "fixed" /\ UNCHANGED extend
    /\ clock' = now \/ (clock # 0 /\ UNCHANGED clock)
GpsOff == gps = "fixed" /\ gps' = "off" /\ UNCHANGED <<extend, clock>>
Gps == (GpsOn \/ GpsAsks \/ GpsFixed \/ GpsOff)
       /\ UNCHANGED <<status, fails, fifo, half, late, ext, inuse, disk, net, asked, stream,
                      now, version, faults, stale>>

(* Six hours go by, the clock with them, though not in the seconds in which  *)
(* an answer tells the time; the server gets a newer file.                   *)
TimePasses ==
    /\ now < MaxTime /\ now' = now + 1 /\ ~(status = "WORK" /\ extend.timing)
    /\ clock' = IF clock = 0 \/ clock = MaxTime THEN clock ELSE clock + 1
    /\ UNCHANGED <<status, fails, fifo, half, late, extend, ext, inuse, disk, net, asked, stream,
                   gps, version, faults, stale>>
NewFile ==
    /\ version < now /\ version' = version + 1
    /\ UNCHANGED <<status, fails, fifo, half, late, extend, ext, inuse, disk, clock, net, asked,
                   stream, gps, now, faults, stale>>

Server == Answered \/ Connected \/ Arrive \/ Noticed
Trouble == ServerLeaves \/ ServerLeavesHalfway \/ LinkLost \/ PowerCut \/ CutWriting
Next == TimerProc \/ Server \/ Trouble \/ TenSeconds \/ ThreeSeconds
        \/ Gps \/ TimePasses \/ NewFile

Spec == Init /\ [][Next]_vars

(* The timer procedure is called once a second, time goes on, and a server   *)
(* that has not gone answers.                                                *)
FairSpec == Spec /\ WF_vars(TimerProc) /\ WF_vars(TenSeconds) /\ WF_vars(ThreeSeconds)
            /\ WF_vars(Answered) /\ WF_vars(Connected) /\ WF_vars(Arrive) /\ WF_vars(Noticed)

------------------------------------------------------------------------------
(* A file the receiver is given is one stretch of one version of the         *)
(* server's file, all its parts in their order and no other, and the stretch *)
(* the tracker takes it for, whatever changed at the server, was lost or cut *)
(* on the way; unless it was fetched over a connection that began with the   *)
(* remains of another in the buffer (agps_service.c:323, 1095-1164).         *)
IsStretch(f) ==
    \E v \in 1 .. MaxTime : f.data = [i \in 1 .. PARTS |-> <<v, (f.seg - v) * PARTS + i>>]
FileIsRight == inuse.seg # 0 /\ ~inuse.stale => IsStretch(inuse)

(* A connection is never kept for ever: the work ends, with the file or      *)
(* without it, even when the buffer began with the remains of another        *)
(* connection, which can be taken for anything (agps_service.c:504-545).     *)
WorkEnds == status = "WORK" ~> status # "WORK"

(* Once nothing goes wrong any more, a file that the receiver needs gets     *)
(* there, unless the receiver finds its position or is switched off first    *)
(* (agps_service.c:548-600, 927-1029, 1095-1164).                            *)
Over == faults = MaxFaults /\ now = MaxTime /\ version = MaxTime
Needed == gps = "search" /\ extend.required
Served == Over /\ Needed /\ ~stale ~> Usable(Now) \/ ~Needed \/ stale
==============================================================================
