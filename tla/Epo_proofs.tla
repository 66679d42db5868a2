----------------------------- MODULE Epo_proofs ------------------------------
(* Proofs about the orbit file, for any number of parts, versions and faults:*)
(* a file fetched over a connection that began with an empty buffer is one   *)
(* stretch of one version, with its parts in their order; on every one the   *)
(* variables keep their types.                                               *)
EXTENDS Epo, TLAPS

------------------------------------------------------------------------------
(* The state of a handler: its shape, and what it may hold.                  *)
Msg == {m \in [kind : {"time", "part"}, version : Nat, at : Nat \ {0}] :
           m.kind = "part" => m.version \in 1 .. MaxTime}
Bit == [of : Msg, last : BOOLEAN]
Req == [kind : {"time", "part"}, at : Nat]

Shape(w) ==
    w = [status |-> w.status, fails |-> w.fails, fifo |-> w.fifo, half |-> w.half,
         late |-> w.late, extend |-> w.extend, ext |-> w.ext, inuse |-> w.inuse,
         disk |-> w.disk, clock |-> w.clock, net |-> w.net, asked |-> w.asked,
         stream |-> w.stream]
IsExtend(e) == e = [timing |-> e.timing, timed |-> e.timed, required |-> e.required,
                    start |-> e.start, len |-> e.len]
FileForm(f) == /\ f = [seg |-> f.seg, data |-> f.data, stale |-> f.stale]
               /\ f.data \in Seq(Nat \X Nat)
IsExt(x) == x = [flag |-> x.flag, file |-> x.file] /\ FileForm(x.file)

Form(w) ==
    /\ Shape(w) /\ IsExtend(w.extend) /\ w.extend.start \in Nat /\ IsExt(w.ext)
    /\ w.clock \in Nat
    /\ w.fifo \in Seq(Bit) /\ w.stream \in Seq(Bit) /\ w.asked \in Seq(Req)
    /\ w.status \in {"INIT", "CONNECTING", "WORK", "DATA_FINISH", "ERROR"}

(* A file to use is right; so is the one on the disk, unless a cut tore it.  *)
RightFile(f) == f.seg # 0 /\ ~f.stale => IsStretch(f)
Files(w) == RightFile(w.inuse) /\ (w.disk = Torn \/ RightFile(w.disk))

(* What has been fetched over a connection that began with an empty buffer   *)
(* is the beginning of a stretch, and the next request continues it.  What   *)
(* has been fetched over another says so.                                    *)
Begun(w) ==
    LET f == w.ext.file
    IN  /\ w.ext.flag \in 1 .. MaxTime /\ f.seg \in Nat /\ f.seg >= w.ext.flag
        /\ Len(f.data) < PARTS
        /\ \A i \in 1 .. Len(f.data) :
               f.data[i] = <<w.ext.flag, (f.seg - w.ext.flag) * PARTS + i>>
        /\ w.extend.start = (f.seg - w.ext.flag) * PARTS + Len(f.data) + 1
        /\ w.extend.len = PARTS /\ ~w.extend.timing
Fetching(w, st) ==
    w.ext.flag # 0 => IF st THEN w.ext.file.stale ELSE Begun(w)

(* One request is made at a time.  It, or its answer, or what has come of    *)
(* that, is for the time as long as that is asked for, and then for the next *)
(* part.                                                                     *)
Due(w, r) ==
    IF w.extend.timing THEN r.kind = "time"
    ELSE r.kind = "part" /\ r.at = IF w.ext.flag = 0 THEN 1 ELSE w.extend.start
Half(m, i) == [of |-> m, last |-> i = 2]
Nothing(w) == w.fifo = <<>> /\ w.stream = <<>>
Asked(w) == Nothing(w) /\ Len(w.asked) = 1 /\ Due(w, w.asked[1])
Coming(w, m) ==
    /\ w.asked = <<>> /\ Due(w, m) /\ Len(w.fifo) + Len(w.stream) <= 2
    /\ \A i \in 1 .. Len(w.fifo) : w.fifo[i] = Half(m, i)
    /\ \A i \in 1 .. Len(w.stream) : w.stream[i] = Half(m, i + Len(w.fifo))
Single(w) == \/ Asked(w) \/ (w.asked = <<>> /\ Nothing(w))
             \/ \E m \in Msg : Coming(w, m)
Flow(w, st) == Fetching(w, st) /\ (~st => Single(w))

Silenced(w) == w.asked = <<>> /\ w.stream = <<>>
Rests(w) == w.status \in {"DATA_FINISH", "ERROR"} /\ w.net = "none" /\ Silenced(w)
Begins(w) == /\ w.status \in {"INIT", "CONNECTING"} /\ w.ext.flag = 0 /\ Silenced(w)
             /\ w.net = "none" \/ (w.net = "opening" /\ w.status = "CONNECTING")
Works(w) == w.status = "WORK" /\ w.net \in {"open", "gone"}

Ok(w, st) == Form(w) /\ Files(w) /\ (Rests(w) \/ Begins(w) \/ (Works(w) /\ Flow(w, st)))
World == now \in 1 .. MaxTime /\ version \in 1 .. MaxTime /\ stale \in BOOLEAN
Inv == Ok(Now, stale) /\ World

------------------------------------------------------------------------------
(* The operators.                                                            *)
LEMMA Constants == /\ PARTS \in Nat \ {0} /\ MaxTime \in Nat \ {0} /\ SEGMENTS \in Nat \ {0}
                   /\ Last \in Nat
  BY EpoAssumption DEF Last

LEMMA NoneIsSeq == ASSUME NEW S PROVE <<>> \in Seq(S)
  OBVIOUS

LEMMA NoFiles == /\ RightFile(NoFile) /\ FileForm(NoFile) /\ IsExt(NoDownload)
                 /\ NoDownload.flag = 0 /\ IsExtend(Start) /\ Start.start = 1
  <1>1. <<>> \in Seq(Nat \X Nat)
    BY NoneIsSeq
  <1>2. RightFile(NoFile) /\ FileForm(NoFile)
    BY <1>1 DEF RightFile, FileForm, NoFile
  <1> QED
    BY <1>2 DEF IsExt, IsExtend, NoDownload, Start

LEMMA NowFields ==
    /\ Shape(Now) /\ Now.status = status /\ Now.fifo = fifo /\ Now.extend = extend
    /\ Now.ext = ext /\ Now.inuse = inuse /\ Now.disk = disk /\ Now.clock = clock
    /\ Now.net = net /\ Now.asked = asked /\ Now.stream = stream
  BY DEF Now, Shape

\* Two handler states that differ in no more than the connection and the flags.
Alike(v, w) ==
    /\ Shape(v) /\ v.fifo = w.fifo /\ v.extend = w.extend /\ v.ext = w.ext
    /\ v.inuse = w.inuse /\ v.disk = w.disk /\ v.clock = w.clock

LEMMA MoveIs ==
    ASSUME NEW w, Form(w), NEW s \in {"INIT", "CONNECTING", "WORK", "DATA_FINISH", "ERROR"}
    PROVE  /\ Alike(Move(w, s), w) /\ Move(w, s).net = w.net /\ Move(w, s).asked = w.asked
           /\ Move(w, s).stream = w.stream /\ Move(w, s).status \in {w.status, s}
           /\ s = "DATA_FINISH" => Move(w, s).status \in {"DATA_FINISH", "ERROR"}
           /\ s = "ERROR" => Move(w, s).status = "ERROR"
           /\ s = "WORK" /\ w.status = "CONNECTING" => Move(w, s).status = "WORK"
           /\ s = "CONNECTING" /\ w.status = "INIT" => Move(w, s).status = "CONNECTING"
  <1>1. Shape(w) /\ w.status \in {"INIT", "CONNECTING", "WORK", "DATA_FINISH", "ERROR"}
    BY DEF Form
  <1>2. PICK m : m = [w EXCEPT !.status = s, !.fails = 0]
    OBVIOUS
  <1>3. /\ Alike(m, w) /\ m.net = w.net /\ m.asked = w.asked /\ m.stream = w.stream
        /\ m.status = s
    BY <1>1, <1>2 DEF Alike, Shape
  <1>4. Alike(w, w)
    BY <1>1 DEF Alike
  <1>5. Move(w, s) = m \/ Move(w, s) = w
    BY <1>2 DEF Move
  <1>6. s = "DATA_FINISH" /\ w.status \notin {"DATA_FINISH", "ERROR"} => Move(w, s) = m
    BY <1>1, <1>2 DEF Move
  <1>7. s = "ERROR" => Move(w, s) = m
    BY <1>1, <1>2 DEF Move
  <1>8. s = "WORK" /\ w.status = "CONNECTING" => Move(w, s) = m
    BY <1>2 DEF Move
  <1>9. s = "CONNECTING" /\ w.status = "INIT" => Move(w, s) = m
    BY <1>2 DEF Move
  <1> QED
    BY <1>3, <1>4, <1>5, <1>6, <1>7, <1>8, <1>9

LEMMA AlikeForm ==
    ASSUME NEW w, Form(w), NEW v, Alike(v, w), v.asked \in Seq(Req), v.stream \in Seq(Bit),
           v.status \in {"INIT", "CONNECTING", "WORK", "DATA_FINISH", "ERROR"}
    PROVE  Form(v) /\ (Files(w) => Files(v))
  BY DEF Alike, Form, Files

LEMMA CloseIs ==
    ASSUME NEW w, Form(w)
    PROVE  /\ Form(Close(w)) /\ Alike(Close(w), w) /\ Close(w).net = "none"
           /\ Silenced(Close(w)) /\ Close(w).status = w.status
  <1>1. PICK c : c = [w EXCEPT !.net = "none", !.asked = <<>>, !.stream = <<>>]
    OBVIOUS
  <1>2. /\ Alike(c, w) /\ c.net = "none" /\ c.asked = <<>> /\ c.stream = <<>>
        /\ c.status = w.status
    BY <1>1 DEF Form, Alike, Shape
  <1>3. c = Close(w)
    BY <1>1 DEF Close
  <1>4. <<>> \in Seq(Req) /\ <<>> \in Seq(Bit)
    BY NoneIsSeq
  <1>5. Form(c)
    BY <1>2, <1>4, AlikeForm DEF Form
  <1> QED
    BY <1>2, <1>3, <1>5 DEF Silenced

LEMMA MovedRests ==
    ASSUME NEW w, Form(w), NEW s \in {"DATA_FINISH", "ERROR"}
    PROVE  /\ Form(Move(Close(w), s)) /\ Alike(Move(Close(w), s), w)
           /\ Rests(Move(Close(w), s))
  <1>1. PICK c : c = Close(w)
    OBVIOUS
  <1>2. Form(c) /\ Alike(c, w) /\ c.net = "none" /\ c.asked = <<>> /\ c.stream = <<>>
    BY <1>1, CloseIs DEF Silenced
  <1>3. PICK m : m = Move(c, s)
    OBVIOUS
  <1>4. /\ Alike(m, c) /\ m.net = "none" /\ m.asked = <<>> /\ m.stream = <<>>
        /\ m.status \in {"DATA_FINISH", "ERROR"}
    BY <1>2, <1>3, MoveIs
  <1>5. Form(m)
    BY <1>2, <1>4, AlikeForm, NoneIsSeq
  <1>6. Alike(m, w) /\ Rests(m)
    BY <1>2, <1>4 DEF Alike, Rests, Silenced
  <1> QED
    BY <1>1, <1>3, <1>5, <1>6

LEMMA CloseRests ==
    ASSUME NEW w, Form(w)
    PROVE  /\ Form(CloseForReconnect(w)) /\ Alike(CloseForReconnect(w), w)
           /\ Rests(CloseForReconnect(w))
  BY MovedRests DEF CloseForReconnect

LEMMA CloseOk ==
    ASSUME NEW w, Form(w), Files(w), NEW st
    PROVE  Ok(CloseForReconnect(w), st)
  BY CloseRests, AlikeForm DEF Ok, Rests, Silenced, Form

LEMMA DropOk ==
    ASSUME NEW w, Form(w), Files(w), NEW st
    PROVE  Ok(Drop(w), st) /\ Rests(Drop(w)) /\ Form(Drop(w))
  <1>1. PICK d : d = [w EXCEPT !.fifo = <<>>]
    OBVIOUS
  <1>2. Form(d) /\ Files(d)
    BY <1>1 DEF Form, Shape, Files
  <1>3. Drop(w) = CloseForReconnect(d)
    BY <1>1 DEF Drop
  <1> QED
    BY <1>2, <1>3, CloseOk, CloseRests

\* A request is the only thing on its way, or the connection is over.
LEMMA AskOk ==
    ASSUME NEW w, Form(w), Files(w), NEW st, NEW kind \in {"time", "part"}, NEW at \in Nat,
           w.status = "WORK" => /\ Fetching(w, st)
                                /\ kind = "time" => w.ext.flag = 0
                                /\ ~st => /\ w.asked = <<>> /\ Nothing(w)
                                          /\ kind = "part" => Due(w, [kind |-> kind, at |-> at])
    PROVE  Ok(Ask(w, kind, at), st)
  <1>1. CASE ~(w.status = "WORK" /\ w.net = "open")
    BY <1>1, CloseOk DEF Ask
  <1>2. CASE w.status = "WORK" /\ w.net = "open"
    <2>1. PICK r : r = [kind |-> kind, at |-> at]
      OBVIOUS
    <2>2. PICK q : q = Append(w.asked, r)
      OBVIOUS
    <2>3. PICK t : t = (w.extend.timing \/ kind = "time")
      OBVIOUS
    <2>4. PICK x : x = [w.extend EXCEPT !.timing = t]
      OBVIOUS
    <2>5. PICK a : a = [w EXCEPT !.asked = q, !.late = FALSE, !.extend = x]
      OBVIOUS
    <2>6. Shape(w) /\ IsExtend(w.extend)
      BY DEF Form
    <2>7. Ask(w, kind, at) = a
      BY <1>2, <2>1, <2>2, <2>3, <2>4, <2>5, <2>6 DEF Ask, Shape
    <2>8. IsExtend(x) /\ x.timing = t /\ x.start = w.extend.start /\ x.len = w.extend.len
      BY <2>4, <2>6 DEF IsExtend
    <2>9. /\ Shape(a) /\ a.extend = x /\ a.asked = q /\ a.fifo = w.fifo /\ a.stream = w.stream
          /\ a.ext = w.ext /\ a.inuse = w.inuse /\ a.disk = w.disk /\ a.clock = w.clock
          /\ a.status = w.status /\ a.net = w.net
      BY <2>5, <2>6 DEF Shape
    <2>10. r \in Req /\ q \in Seq(Req)
      BY <2>1, <2>2 DEF Req, Form
    <2>11. Form(a) /\ Files(a)
      BY <2>8, <2>9, <2>10 DEF Form, Files
    <2>12. Fetching(a, st)
      BY <1>2, <2>3, <2>8, <2>9 DEF Fetching, Begun
    <2>13. ASSUME ~st PROVE Asked(a)
      <3>1. Len(q) = 1 /\ q[1] = r
        <4>1. w.asked = <<>>
          BY <1>2, <2>13
        <4> QED
          BY <2>2, <4>1
      <3>2. Nothing(a)
        BY <1>2, <2>9, <2>13 DEF Nothing
      <3>3. Due(a, r)
        BY <1>2, <2>1, <2>3, <2>8, <2>9, <2>13 DEF Due
      <3> QED
        BY <2>9, <3>1, <3>2, <3>3 DEF Asked
    <2> QED
      BY <1>2, <2>7, <2>9, <2>11, <2>12, <2>13 DEF Ok, Works, Flow, Single
  <1> QED
    BY <1>1, <1>2

------------------------------------------------------------------------------
(* The answers.                                                              *)
\* A handler that has taken the only answer out of the buffer.
Free(w) ==
    /\ Form(w) /\ Files(w) /\ Fetching(w, stale) /\ (Rests(w) \/ Works(w))
    /\ ~stale => w.asked = <<>> /\ Nothing(w)

LEMMA FreeOk == ASSUME NEW w, Free(w) PROVE Ok(w, stale)
  BY DEF Free, Ok, Flow, Single

LEMMA FreeAsks ==
    ASSUME NEW w, Free(w), NEW at \in Nat, ~stale => Due(w, [kind |-> "part", at |-> at])
    PROVE  Ok(Ask(w, "part", at), stale)
  BY AskOk DEF Free

LEMMA ReadIs ==
    ASSUME Inv, NEW w, Form(w), Files(w)
    PROVE  /\ Form(ReadFile(w)) /\ Files(ReadFile(w))
           /\ ReadFile(w).extend = w.extend /\ ReadFile(w).ext = w.ext
           /\ ReadFile(w).fifo = w.fifo /\ ReadFile(w).stream = w.stream
           /\ ReadFile(w).asked = w.asked /\ ReadFile(w).net = w.net
           /\ ReadFile(w).status = w.status
  <1>1. PICK f : f = IF disk = Torn THEN NoFile ELSE disk
    OBVIOUS
  <1>2. RightFile(f)
    BY <1>1, NoFiles, NowFields DEF Inv, Ok, Files
  <1>3. PICK r : r = [w EXCEPT !.inuse = f]
    OBVIOUS
  <1>4. ReadFile(w) = r \/ ReadFile(w) = w
    BY <1>1, <1>3 DEF ReadFile
  <1>5. /\ Shape(r) /\ r.extend = w.extend /\ r.ext = w.ext /\ r.fifo = w.fifo
        /\ r.stream = w.stream /\ r.asked = w.asked /\ r.net = w.net /\ r.status = w.status
        /\ r.inuse = f /\ r.disk = w.disk /\ r.clock = w.clock
    BY <1>3 DEF Form, Shape
  <1>6. Form(r) /\ Files(r)
    BY <1>2, <1>5 DEF Form, Files
  <1> QED
    BY <1>4, <1>5, <1>6

LEMMA TimingIs ==
    ASSUME Inv, NEW w, Free(w), NEW m \in Msg
    PROVE  Ok(TimingAck(w, m), stale)
  <1>1. PICK c : c = IF gps = "fixed" THEN w.clock ELSE m.at
    OBVIOUS
  <1>2. PICK x : x = [w.extend EXCEPT !.timing = FALSE, !.timed = TRUE, !.start = 1, !.len = 0]
    OBVIOUS
  <1>3. PICK b : b = [w EXCEPT !.clock = c, !.extend = x, !.ext = NoDownload]
    OBVIOUS
  <1>4. Shape(w) /\ IsExtend(w.extend)
    BY DEF Free, Form
  <1>5. /\ IsExtend(x) /\ x.timing = FALSE /\ x.start = 1
    BY <1>2, <1>4 DEF IsExtend
  <1>6. /\ Shape(b) /\ b.extend = x /\ b.ext = NoDownload /\ b.fifo = w.fifo
        /\ b.stream = w.stream /\ b.asked = w.asked /\ b.net = w.net /\ b.status = w.status
        /\ b.inuse = w.inuse /\ b.disk = w.disk /\ b.clock = c
    BY <1>3, <1>4 DEF Shape
  <1>7. c \in Nat
    BY <1>1 DEF Free, Form, Msg
  <1>8. Form(b) /\ Files(b)
    BY <1>5, <1>6, <1>7, NoFiles DEF Free, Form, Files
  <1>9. PICK told : told = ReadFile(b)
    OBVIOUS
  <1>10. told = ReadFile([w EXCEPT !.clock = IF gps = "fixed" THEN @ ELSE m.at,
                                   !.extend.timing = FALSE, !.extend.timed = TRUE,
                                   !.extend.start = 1, !.extend.len = 0, !.ext = NoDownload])
    BY <1>1, <1>2, <1>3, <1>4, <1>9 DEF Shape, IsExtend
  <1>11. /\ Form(told) /\ Files(told) /\ told.extend = x /\ told.ext = NoDownload
         /\ told.fifo = w.fifo /\ told.stream = w.stream /\ told.asked = w.asked
         /\ told.net = w.net /\ told.status = w.status
    BY <1>6, <1>8, <1>9, ReadIs
  <1>12. Free(told)
    BY <1>11, NoFiles DEF Free, Fetching, Rests, Works, Silenced, Nothing
  <1>13. Due(told, [kind |-> "part", at |-> 1])
    BY <1>5, <1>11, NoFiles DEF Due
  <1>14. Ok(Ask(told, "part", 1), stale)
    BY <1>12, <1>13, FreeAsks
  <1>15. Ok(CloseForReconnect(told), stale)
    BY <1>11, CloseOk
  <1>16. TimingAck(w, m) \in {w, CloseForReconnect(told), Ask(told, "part", 1)}
    BY <1>10, Zenon DEF TimingAck
  <1> QED
    BY <1>14, <1>15, <1>16, FreeOk

LEMMA HoursAre ==
    ASSUME NEW m \in Msg, m.kind = "part", NEW hour \in Hours(m)
    PROVE  hour \in Nat \ {0} /\ (m.at = 1 => hour = m.version)
  <1>1. PARTS \in Nat \ {0} /\ Last \in Nat
    BY Constants
  <1>2. m.version \in Nat \ {0} /\ m.at - 1 \in Nat
    BY Constants DEF Msg
  <1>3. (m.at - 1) \div PARTS \in Nat
    BY <1>1, <1>2
  <1>4. 0 % PARTS = 0 /\ 0 \div PARTS = 0
    BY <1>1
  <1>5. m.at = 1 => hour = m.version
    BY <1>2, <1>4 DEF Hours
  <1>6. hour \in Nat \ {0}
    BY <1>1, <1>2, <1>3 DEF Hours
  <1> QED
    BY <1>5, <1>6

LEMMA FirstIs ==
    ASSUME NEW w, Free(w), w.ext.flag = 0, NEW m \in Msg, m.kind = "part",
           ~stale => Due(w, m), NEW hour \in Hours(m)
    PROVE  Ok(FirstPart(w, m, hour), stale)
  <1>1. PICK seg : seg = IF w.clock < hour THEN hour ELSE w.clock
    OBVIOUS
  <1>2. PICK first : first = (seg - hour) * PARTS + 1
    OBVIOUS
  <1>3. PICK f : f = [seg |-> seg, data |-> <<>>, stale |-> stale]
    OBVIOUS
  <1>4. PICK x : x = [flag |-> m.version, file |-> f]
    OBVIOUS
  <1>5. PICK e : e = [w.extend EXCEPT !.start = first, !.len = PARTS]
    OBVIOUS
  <1>6. PICK v : v = [w EXCEPT !.extend = e, !.ext = x]
    OBVIOUS
  <1>7. Shape(w) /\ IsExtend(w.extend) /\ w.clock \in Nat
    BY DEF Free, Form
  <1>8. FirstPart(w, m, hour) = Ask(v, "part", first)
    BY <1>1, <1>2, <1>3, <1>4, <1>5, <1>6, <1>7 DEF FirstPart, Shape
  <1>9. /\ IsExtend(e) /\ e.start = first /\ e.len = PARTS /\ e.timing = w.extend.timing
    BY <1>5, <1>7 DEF IsExtend
  <1>10. /\ Shape(v) /\ v.extend = e /\ v.ext = x /\ v.fifo = w.fifo
         /\ v.stream = w.stream /\ v.asked = w.asked /\ v.net = w.net /\ v.status = w.status
         /\ v.inuse = w.inuse /\ v.disk = w.disk /\ v.clock = w.clock
    BY <1>6, <1>7 DEF Shape
  <1>11. /\ hour \in Nat \ {0} /\ (m.at = 1 => hour = m.version)
         /\ m.version \in 1 .. MaxTime /\ PARTS \in Nat \ {0} /\ MaxTime \in Nat
    BY HoursAre, Constants DEF Msg
  <1>12. seg \in Nat /\ seg >= hour /\ seg - hour \in Nat
    BY <1>1, <1>7, <1>11
  <1>13. first \in Nat
    <2>1. (seg - hour) * PARTS \in Nat
      BY <1>11, <1>12
    <2> QED
      BY <1>2, <2>1
  <1>14. FileForm(f) /\ IsExt(x) /\ f.seg = seg /\ f.data = <<>> /\ f.stale = stale
         /\ x.flag = m.version /\ x.file = f
    <2>1. FileForm(f)
      BY <1>3, NoneIsSeq DEF FileForm
    <2> QED
      BY <1>3, <1>4, <2>1 DEF IsExt
  <1>15. Form(v) /\ Files(v)
    BY <1>9, <1>10, <1>13, <1>14 DEF Free, Form, Files
  <1>16. ASSUME ~stale PROVE Begun(v) /\ Due(v, [kind |-> "part", at |-> first])
    <2>1. ~w.extend.timing /\ m.at = 1
      BY <1>16 DEF Due
    <2>2. hour = m.version
      BY <1>11, <2>1
    <2>3. Len(f.data) = 0 /\ first = (seg - m.version) * PARTS + Len(f.data) + 1
      <3>1. (seg - m.version) * PARTS \in Nat
        BY <1>11, <1>12, <2>2
      <3> QED
        BY <1>2, <1>14, <2>2, <3>1
    <2>4. Begun(v)
      <3>1. /\ v.ext.flag = m.version /\ v.ext.file = f /\ v.extend = e /\ v.ext.file.seg = seg
            /\ v.extend.start = (v.ext.file.seg - v.ext.flag) * PARTS + Len(v.ext.file.data) + 1
        BY <1>9, <1>10, <1>14, <2>3
      <3>2. Len(v.ext.file.data) = 0 /\ \A i \in 1 .. Len(v.ext.file.data) : FALSE
        BY <2>3, <3>1
      <3>3. Len(v.ext.file.data) < PARTS
        BY <1>11, <3>2
      <3>4. /\ v.ext.flag \in 1 .. MaxTime /\ v.ext.file.seg \in Nat
            /\ v.ext.file.seg >= v.ext.flag
        BY <1>11, <1>12, <2>2, <3>1
      <3>5. v.extend.len = PARTS /\ ~v.extend.timing
        BY <1>9, <2>1, <3>1
      <3> QED
        BY <3>1, <3>2, <3>3, <3>4, <3>5 DEF Begun
    <2>5. m.version # 0
      BY <1>11
    <2> QED
      BY <1>9, <1>10, <1>14, <2>1, <2>4, <2>5 DEF Due
  <1>17. Fetching(v, stale)
    BY <1>10, <1>14, <1>16 DEF Fetching
  <1>18. Free(v)
    BY <1>10, <1>15, <1>17 DEF Free, Rests, Works, Silenced, Nothing
  <1> QED
    BY <1>8, <1>13, <1>16, <1>18, FreeAsks

LEMMA AppendIs ==
    ASSUME NEW T, NEW s \in Seq(T), NEW e \in T
    PROVE  /\ Append(s, e) \in Seq(T) /\ Len(Append(s, e)) = Len(s) + 1 /\ Len(s) \in Nat
           /\ \A i \in 1 .. Len(s) : Append(s, e)[i] = s[i]
           /\ Append(s, e)[Len(s) + 1] = e
  OBVIOUS

\* The parts of a whole stretch, in their order.
LEMMA WholeStretch ==
    ASSUME NEW d \in Seq(Nat \X Nat), Len(d) = PARTS, NEW v \in 1 .. MaxTime, NEW g,
           \A i \in 1 .. PARTS : d[i] = <<v, (g.seg - v) * PARTS + i>>, g.data = d
    PROVE  IsStretch(g)
  <1>1. d = [i \in 1 .. PARTS |-> d[i]]
    OBVIOUS
  <1>2. d = [i \in 1 .. PARTS |-> <<v, (g.seg - v) * PARTS + i>>]
    BY <1>1, Zenon
  <1> QED
    BY <1>2 DEF IsStretch

LEMMA NextIs ==
    ASSUME NEW w, Free(w), w.ext.flag # 0, NEW m \in Msg, m.kind = "part",
           ~stale => Due(w, m)
    PROVE  Ok(NextPart(w, m), stale)
  <1>1. Shape(w) /\ IsExtend(w.extend) /\ IsExt(w.ext) /\ FileForm(w.ext.file)
        /\ w.extend.start \in Nat
    BY DEF Free, Form, IsExt
  <1>2. PICK y : y = [w.extend EXCEPT !.start = 1, !.len = 0]
    OBVIOUS
  <1>3. PICK over : over = [w EXCEPT !.ext = NoDownload, !.extend = y]
    OBVIOUS
  <1>4. over = [w EXCEPT !.ext = NoDownload, !.extend.start = 1, !.extend.len = 0]
    BY <1>1, <1>2, <1>3 DEF Shape
  <1>5. IsExtend(y) /\ y.start = 1 /\ y.timing = w.extend.timing
    BY <1>1, <1>2 DEF IsExtend
  <1>6. /\ Shape(over) /\ over.extend = y /\ over.ext = NoDownload /\ over.fifo = w.fifo
        /\ over.stream = w.stream /\ over.asked = w.asked /\ over.net = w.net
        /\ over.status = w.status /\ over.inuse = w.inuse /\ over.disk = w.disk
        /\ over.clock = w.clock
    BY <1>1, <1>3 DEF Shape
  <1>7. Free(over)
    <2>1. Form(over) /\ Files(over)
      BY <1>5, <1>6, NoFiles DEF Free, Form, Files
    <2> QED
      BY <1>6, <2>1, NoFiles DEF Free, Fetching, Rests, Works, Silenced, Nothing
  <1>8. ~stale => Due(over, [kind |-> "part", at |-> 1])
    BY <1>5, <1>6, NoFiles DEF Due, Free, Fetching, Begun
  <1>9. Ok(Ask(over, "part", 1), stale)
    BY <1>7, <1>8, FreeAsks
  <1>10. PICK d : d = Append(w.ext.file.data, <<m.version, m.at>>)
    OBVIOUS
  <1>11. PICK g : g = [w.ext.file EXCEPT !.data = d]
    OBVIOUS
  <1>12. PICK x : x = [w.ext EXCEPT !.file = g]
    OBVIOUS
  <1>13. PICK z : z = [w.extend EXCEPT !.start = w.extend.start + 1]
    OBVIOUS
  <1>14. PICK got : got = [w EXCEPT !.ext = x, !.extend = z]
    OBVIOUS
  <1>15. got = [w EXCEPT !.ext.file.data = Append(@, <<m.version, m.at>>), !.extend.start = @ + 1]
    BY <1>1, <1>10, <1>11, <1>12, <1>13, <1>14 DEF Shape, IsExt, IsExtend, FileForm
  <1>16. /\ d \in Seq(Nat \X Nat) /\ Len(d) = Len(w.ext.file.data) + 1
         /\ Len(w.ext.file.data) \in Nat
         /\ \A i \in 1 .. Len(w.ext.file.data) : d[i] = w.ext.file.data[i]
         /\ d[Len(d)] = <<m.version, m.at>>
    <2>1. w.ext.file.data \in Seq(Nat \X Nat) /\ <<m.version, m.at>> \in Nat \X Nat
      BY <1>1 DEF FileForm, Msg
    <2>2. PICK T : T = Nat \X Nat
      OBVIOUS
    <2>3. PICK q \in Seq(T) : q = w.ext.file.data
      BY <2>1, <2>2
    <2>4. PICK p \in T : p = <<m.version, m.at>>
      BY <2>1, <2>2
    <2>5. d = Append(q, p)
      BY <1>10, <2>3, <2>4
    <2>6. /\ d \in Seq(T) /\ Len(d) = Len(q) + 1 /\ Len(q) \in Nat
          /\ \A i \in 1 .. Len(q) : d[i] = q[i]
          /\ d[Len(q) + 1] = p
      BY <2>5, AppendIs
    <2> QED
      BY <2>2, <2>3, <2>4, <2>6
  <1>17. /\ FileForm(g) /\ g.seg = w.ext.file.seg /\ g.stale = w.ext.file.stale /\ g.data = d
    BY <1>1, <1>11, <1>16 DEF FileForm
  <1>18. IsExt(x) /\ x.flag = w.ext.flag /\ x.file = g
    BY <1>1, <1>12, <1>17 DEF IsExt
  <1>19. /\ IsExtend(z) /\ z.start = w.extend.start + 1 /\ z.len = w.extend.len
         /\ z.timing = w.extend.timing
    BY <1>1, <1>13 DEF IsExtend
  <1>20. /\ Shape(got) /\ got.extend = z /\ got.ext = x /\ got.fifo = w.fifo
         /\ got.stream = w.stream /\ got.asked = w.asked /\ got.net = w.net
         /\ got.status = w.status /\ got.inuse = w.inuse /\ got.disk = w.disk
         /\ got.clock = w.clock
    BY <1>1, <1>14 DEF Shape
  <1>21. Form(got) /\ Files(got) /\ z.start \in Nat
    BY <1>1, <1>18, <1>19, <1>20 DEF Free, Form, Files
  <1>22. ASSUME ~stale, m.version = w.ext.flag
         PROVE  /\ x.flag \in 1 .. MaxTime /\ g.seg \in Nat /\ g.seg >= x.flag
                /\ Len(d) <= PARTS /\ z.len = PARTS /\ ~z.timing
                /\ \A i \in 1 .. Len(d) : d[i] = <<x.flag, (g.seg - x.flag) * PARTS + i>>
                /\ z.start = (g.seg - x.flag) * PARTS + Len(d) + 1
    <2>1. Begun(w)
      BY <1>22 DEF Free, Fetching
    <2>2. PICK base \in Nat : base = (g.seg - x.flag) * PARTS
      <3>1. x.flag \in Nat /\ g.seg \in Nat /\ g.seg >= x.flag /\ PARTS \in Nat
        BY <1>17, <1>18, <2>1, Constants DEF Begun
      <3>2. (g.seg - x.flag) \in Nat
        BY <3>1
      <3> QED
        BY <3>1, <3>2
    <2>3. /\ x.flag \in 1 .. MaxTime /\ g.seg \in Nat /\ g.seg >= x.flag
          /\ Len(w.ext.file.data) < PARTS
          /\ \A i \in 1 .. Len(w.ext.file.data) : w.ext.file.data[i] = <<x.flag, base + i>>
          /\ w.extend.start = base + Len(w.ext.file.data) + 1
          /\ w.extend.len = PARTS /\ ~w.extend.timing
      BY <1>17, <1>18, <2>1, <2>2 DEF Begun
    <2>4. m.at = w.extend.start
      BY <1>22, <2>3 DEF Due
    <2>5. d[Len(d)] = <<x.flag, base + Len(d)>>
      <3>1. m.at = base + Len(d)
        BY <1>16, <2>2, <2>3, <2>4
      <3> QED
        BY <1>16, <1>18, <1>22, <3>1
    <2>6. ASSUME NEW i \in 1 .. Len(d) PROVE d[i] = <<x.flag, base + i>>
      <3>1. i \in 1 .. Len(w.ext.file.data) \/ i = Len(d)
        <4>1. PICK n \in Nat : n = Len(w.ext.file.data)
          BY <1>16
        <4>2. Len(d) = n + 1
          BY <1>16, <4>1
        <4> QED
          BY <4>1, <4>2
      <3>2. CASE i \in 1 .. Len(w.ext.file.data)
        BY <1>16, <2>3, <3>2
      <3> QED
        BY <2>5, <3>1, <3>2
    <2>7. Len(d) <= PARTS /\ z.start = base + Len(d) + 1
      <3>1. PICK n \in Nat : n = Len(w.ext.file.data)
        BY <1>16
      <3>2. n < PARTS /\ Len(d) = n + 1 /\ z.start = base + n + 1 + 1
        BY <1>16, <1>19, <2>3, <3>1
      <3> QED
        BY <2>2, <3>1, <3>2, Constants
    <2> QED
      BY <1>19, <2>2, <2>3, <2>6, <2>7
  <1>23. CASE m.version # w.ext.flag
    BY <1>4, <1>9, <1>23 DEF NextPart
  <1>24. CASE m.version = w.ext.flag /\ Len(got.ext.file.data) < got.extend.len
    <2>1. NextPart(w, m) = Ask(got, "part", got.extend.start)
      BY <1>15, <1>24, Zenon DEF NextPart
    <2>2. ~stale => Begun(got)
      BY <1>16, <1>17, <1>18, <1>19, <1>20, <1>22, <1>24 DEF Begun
    <2>3. Fetching(got, stale)
      BY <1>17, <1>18, <1>20, <2>2 DEF Fetching, Free
    <2>4. Free(got)
      BY <1>20, <1>21, <2>3 DEF Free, Rests, Works, Silenced, Nothing
    <2>5. ~stale => Due(got, [kind |-> "part", at |-> got.extend.start])
      BY <1>18, <1>19, <1>20, <1>22, <1>24 DEF Due
    <2> QED
      BY <1>20, <1>21, <2>1, <2>4, <2>5, FreeAsks
  <1>25. CASE m.version = w.ext.flag /\ ~(Len(got.ext.file.data) < got.extend.len)
    <2>1. NextPart(w, m) = Store(got)
      BY <1>15, <1>25, Zenon DEF NextPart
    <2>2. PICK k : k = [got EXCEPT !.inuse = g, !.disk = g]
      OBVIOUS
    <2>3. /\ Shape(k) /\ k.extend = z /\ k.ext = x /\ k.fifo = w.fifo
          /\ k.stream = w.stream /\ k.asked = w.asked /\ k.net = w.net
          /\ k.status = w.status /\ k.inuse = g /\ k.disk = g /\ k.clock = w.clock
      BY <1>20, <2>2 DEF Shape
    <2>4. Store(got) = CloseForReconnect(k)
      BY <1>18, <1>20, <2>2 DEF Store
    <2>5. RightFile(g)
      <3>1. CASE stale
        BY <1>17, <3>1 DEF RightFile, Free, Fetching
      <3>2. CASE ~stale
        <4>1. Len(d) = PARTS
          <5>1. Len(d) <= PARTS /\ z.len = PARTS
            BY <1>22, <1>25, <3>2
          <5>2. ~(Len(d) < z.len)
            BY <1>17, <1>18, <1>20, <1>25
          <5>3. Len(d) \in Nat
            BY <1>16
          <5> QED
            BY <5>1, <5>2, <5>3, Constants
        <4>2. IsStretch(g)
          BY <1>16, <1>17, <1>22, <1>25, <3>2, <4>1, WholeStretch
        <4> QED
          BY <4>2 DEF RightFile
      <3> QED
        BY <3>1, <3>2
    <2>6. Form(k) /\ Files(k)
      BY <1>21, <1>18, <1>19, <1>20, <2>3, <2>5 DEF Form, Files
    <2> QED
      BY <2>1, <2>4, <2>6, CloseOk
  <1> QED
    BY <1>23, <1>24, <1>25

LEMMA ParsedIs ==
    ASSUME Inv, NEW w, Free(w), NEW m \in Msg, ~stale => Due(w, m), NEW v \in Parsed(w, m)
    PROVE  Ok(v, stale)
  <1>1. m.kind \in {"time", "part"}
    BY DEF Msg
  <1>2. CASE m.kind = "time"
    BY <1>2, TimingIs DEF Parsed
  <1>3. CASE m.kind = "part" /\ w.ext.flag = 0
    BY <1>3, FirstIs DEF Parsed
  <1>4. CASE m.kind = "part" /\ w.ext.flag # 0
    BY <1>4, NextIs DEF Parsed
  <1> QED
    BY <1>1, <1>2, <1>3, <1>4

------------------------------------------------------------------------------
(* The receive buffer.                                                       *)
In(w) == Form(w) /\ Files(w) /\ (Rests(w) \/ Works(w)) /\ Flow(w, stale)

LEMMA InOk == ASSUME NEW w, In(w) PROVE Ok(w, stale)
  BY DEF In, Ok

LEMMA WaitOk == ASSUME NEW w, In(w) PROVE Ok(Wait(w), stale)
  <1>1. CASE w.half = "old"
    <2>1. PICK d : d = Drop(w)
      OBVIOUS
    <2>2. Form(d) /\ Files(d) /\ Rests(d)
      BY <2>1, DropOk DEF In, Ok
    <2>3. PICK v : v = [d EXCEPT !.half = "no"]
      OBVIOUS
    <2>4. Form(v) /\ Files(v) /\ Rests(v)
      BY <2>2, <2>3 DEF Form, Shape, Files, Rests, Silenced
    <2> QED
      BY <1>1, <2>1, <2>3, <2>4 DEF Wait, Ok
  <1>2. CASE w.half # "old"
    <2>1. PICK v : v = [w EXCEPT !.half = "new"]
      OBVIOUS
    <2>2. /\ Shape(v) /\ v.fifo = w.fifo /\ v.stream = w.stream /\ v.asked = w.asked
          /\ v.extend = w.extend /\ v.ext = w.ext /\ v.inuse = w.inuse /\ v.disk = w.disk
          /\ v.clock = w.clock /\ v.net = w.net /\ v.status = w.status
      BY <2>1 DEF In, Form, Shape
    <2>3. Form(v) /\ Files(v) /\ (Rests(v) \/ Works(v))
      BY <2>2 DEF In, Form, Files, Rests, Works, Silenced
    <2>4. Flow(v, stale)
      BY <2>2 DEF In, Flow, Fetching, Begun, Single, Asked, Nothing, Coming, Due
    <2> QED
      BY <1>2, <2>1, <2>3, <2>4, InOk DEF Wait, In
  <1> QED
    BY <1>1, <1>2

LEMMA PoppedIs ==
    ASSUME NEW w, In(w), NEW k \in 1 .. Len(w.fifo)
    PROVE  /\ Form(Popped(w, k)) /\ Files(Popped(w, k))
           /\ (Rests(Popped(w, k)) \/ Works(Popped(w, k)))
           /\ Popped(w, k).fifo = SubSeq(w.fifo, k + 1, Len(w.fifo))
           /\ Popped(w, k).stream = w.stream /\ Popped(w, k).asked = w.asked
           /\ Popped(w, k).extend = w.extend /\ Popped(w, k).ext = w.ext
  <1>1. PICK q : q = SubSeq(w.fifo, k + 1, Len(w.fifo))
    OBVIOUS
  <1>2. PICK v : v = [w EXCEPT !.fifo = q]
    OBVIOUS
  <1>3. Shape(w) /\ w.fifo \in Seq(Bit)
    BY DEF In, Form
  <1>4. v = Popped(w, k)
    BY <1>1, <1>2, <1>3 DEF Popped, Shape
  <1>5. /\ Shape(v) /\ v.fifo = q /\ v.stream = w.stream /\ v.asked = w.asked
        /\ v.extend = w.extend /\ v.ext = w.ext /\ v.inuse = w.inuse /\ v.disk = w.disk
        /\ v.clock = w.clock /\ v.net = w.net /\ v.status = w.status
    BY <1>2, <1>3 DEF Shape
  <1>6. q \in Seq(Bit)
    BY <1>1, <1>3
  <1>7. Form(v) /\ Files(v) /\ (Rests(v) \/ Works(v))
    BY <1>5, <1>6 DEF In, Form, Files, Rests, Works, Silenced
  <1> QED
    BY <1>1, <1>4, <1>5, <1>7

\* With a connection that began well, the buffer begins with a message.
LEMMA BufferIs ==
    ASSUME NEW w, In(w), ~stale, w.fifo # <<>>
    PROVE  \E m \in Msg :
              /\ Due(w, m) /\ w.asked = <<>> /\ Len(w.fifo) \in 1 .. 2
              /\ w.fifo[1].of = m /\ ~w.fifo[1].last
              /\ Len(w.fifo) = 2 => /\ w.fifo[2].last /\ w.fifo[2].of = m
                                    /\ w.stream = <<>>
  <1>1. PICK m \in Msg : Coming(w, m)
    BY DEF In, Flow, Single, Asked, Nothing
  <1>2. w.fifo \in Seq(Bit) /\ w.stream \in Seq(Bit)
    BY DEF In, Form
  <1>3. PICK k \in Nat : k = Len(w.fifo)
    BY <1>2
  <1>4. PICK l \in Nat : l = Len(w.stream)
    BY <1>2
  <1>5. k \in 1 .. 2 /\ k + l <= 2 /\ \A i \in 1 .. k : w.fifo[i] = Half(m, i)
    <2>1. k # 0
      BY <1>2, <1>3
    <2>2. k + l <= 2
      BY <1>1, <1>3, <1>4 DEF Coming
    <2>3. \A i \in 1 .. k : w.fifo[i] = Half(m, i)
      BY <1>1, <1>3 DEF Coming
    <2> QED
      BY <2>1, <2>2, <2>3
  <1>6. w.fifo[1] = Half(m, 1) /\ (k = 2 => w.fifo[2] = Half(m, 2))
    BY <1>5
  <1>7. k = 2 => w.stream = <<>>
    <2>1. k = 2 => l = 0
      BY <1>5
    <2> QED
      BY <1>2, <1>4, <2>1
  <1>8. /\ Half(m, 1).of = m /\ ~Half(m, 1).last
        /\ Half(m, 2).of = m /\ Half(m, 2).last
    <2>1. (1 = 2) = FALSE /\ (2 = 2) = TRUE
      OBVIOUS
    <2>2. /\ Half(m, 1) = [of |-> m, last |-> FALSE]
          /\ Half(m, 2) = [of |-> m, last |-> TRUE]
      BY <2>1, Zenon DEF Half
    <2> QED
      BY <2>2
  <1>9. Due(w, m) /\ w.asked = <<>>
    BY <1>1 DEF Coming
  <1> QED
    BY <1>3, <1>5, <1>6, <1>7, <1>8, <1>9

LEMMA ReceiveOk ==
    ASSUME Inv, NEW w, In(w), NEW v \in Receive(w)
    PROVE  Ok(v, stale)
  <1> DEFINE n == Len(w.fifo)
             aligned == n > 0 /\ ~w.fifo[1].last
             whole == n > 1 /\ w.fifo[2].last /\ w.fifo[2].of = w.fifo[1].of
  <1>1. n \in Nat /\ w.fifo \in Seq(Bit) /\ (n = 0 <=> w.fifo = <<>>)
    BY DEF In, Form
  <1>2. \/ n = 0 /\ v = w
        \/ aligned /\ n = 1 /\ v = Wait(w)
        \/ aligned /\ n > 1 /\ whole /\ v \in Parsed(Popped(w, 2), w.fifo[1].of)
        \/ aligned /\ n > 1 /\ ~whole /\ v = Popped(w, 2)
        \/ n > 0 /\ ~aligned /\ (v \in {Wait(w), Drop(w)} \/ \E k \in 1 .. n : v = Popped(w, k))
    <2>1. v \in IF n = 0 THEN {w}
                ELSE IF aligned
                     THEN IF n = 1 THEN {Wait(w)}
                          ELSE IF whole THEN Parsed(Popped(w, 2), w.fifo[1].of)
                          ELSE {Popped(w, 2)}
                     ELSE {Wait(w), Drop(w)} \union {Popped(w, k) : k \in 1 .. n}
      BY Zenon DEF Receive
    <2> HIDE DEF aligned, whole
    <2>5. n \in Nat
      BY <1>1
    <2> HIDE DEF n
    <2>2. n = 0 \/ n = 1 \/ n > 1
      BY <2>5
    <2>3. n > 1 => n # 0 /\ n # 1 /\ n > 0
      BY <2>5
    <2>4. n = 1 => n > 0 /\ n # 0
      OBVIOUS
    <2> QED
      BY <2>1, <2>2, <2>3, <2>4
  <1>3. CASE n = 0 /\ v = w
    BY <1>3, InOk
  <1>4. CASE v = Wait(w)
    BY <1>4, WaitOk
  <1>5. CASE v = Drop(w)
    BY <1>5, DropOk DEF In
  <1>6. ASSUME stale, NEW k \in 1 .. n, v = Popped(w, k) PROVE Ok(v, stale)
    <2>1. Form(v) /\ Files(v) /\ (Rests(v) \/ Works(v)) /\ v.ext = w.ext
      BY <1>6, PoppedIs
    <2>2. Flow(v, stale)
      BY <1>6, <2>1 DEF In, Flow, Fetching
    <2> QED
      BY <2>1, <2>2, InOk DEF In
  <1>7. ASSUME ~stale, n > 0 PROVE aligned /\ (n > 1 => whole)
    <2>1. w.fifo # <<>>
      BY <1>1, <1>7
    <2>2. PICK m \in Msg :
              /\ Len(w.fifo) \in 1 .. 2 /\ w.fifo[1].of = m /\ ~w.fifo[1].last
              /\ Len(w.fifo) = 2 => w.fifo[2].last /\ w.fifo[2].of = m
      BY <1>7, <2>1, BufferIs
    <2> QED
      BY <1>1, <1>7, <2>2
  <1>8. CASE aligned /\ n > 1 /\ whole /\ v \in Parsed(Popped(w, 2), w.fifo[1].of)
    <2>1. PICK p : p = Popped(w, 2)
      OBVIOUS
    <2>2. PICK m : m = w.fifo[1].of
      OBVIOUS
    <2>3. m \in Msg
      <3>1. 1 \in 1 .. Len(w.fifo)
        BY <1>1, <1>8
      <3>2. w.fifo[1] \in Bit
        BY <1>1, <3>1
      <3> QED
        BY <2>2, <3>2 DEF Bit
    <2>4. 2 \in 1 .. Len(w.fifo)
      BY <1>1, <1>8
    <2>5. /\ Form(p) /\ Files(p) /\ (Rests(p) \/ Works(p))
          /\ p.fifo = SubSeq(w.fifo, 3, n) /\ p.stream = w.stream
          /\ p.asked = w.asked /\ p.extend = w.extend /\ p.ext = w.ext
      BY <2>1, <2>4, PoppedIs
    <2>6. Fetching(p, stale)
      BY <2>5 DEF In, Flow, Fetching, Begun
    <2>7. ASSUME ~stale PROVE p.asked = <<>> /\ Nothing(p) /\ Due(p, m)
      <3>1. /\ Due(w, m) /\ w.asked = <<>> /\ n = 2 /\ w.stream = <<>>
        BY <1>1, <1>8, <2>2, <2>7, BufferIs
      <3>2. SubSeq(w.fifo, 3, n) = <<>>
        BY <1>1, <3>1
      <3> QED
        BY <2>5, <3>1, <3>2 DEF Nothing, Due
    <2>8. Free(p)
      BY <2>5, <2>6, <2>7 DEF Free
    <2> QED
      BY <1>8, <2>1, <2>2, <2>3, <2>7, <2>8, ParsedIs
  <1> QED
    <2> HIDE DEF aligned, whole
    <2>1. CASE aligned /\ n > 1 /\ ~whole /\ v = Popped(w, 2)
      <3>1. stale /\ 2 \in 1 .. n
        BY <1>1, <1>7, <2>1
      <3> QED
        BY <1>6, <2>1, <3>1
    <2>2. CASE n > 0 /\ ~aligned /\ \E k \in 1 .. n : v = Popped(w, k)
      BY <1>6, <1>7, <2>2
    <2> QED
      BY <1>2, <1>3, <1>4, <1>5, <1>8, <2>1, <2>2

------------------------------------------------------------------------------
(* One lemma for each kind of step.                                          *)
LEMMA Leaves == ASSUME NEW w, Ok(w, stale'), Leave(w), World' PROVE Inv'
  <1>1. Now' = w
    BY DEF Leave, Now, Ok, Form, Shape
  <1> QED
    BY <1>1 DEF Inv

LEMMA NowIs == ASSUME Inv
               PROVE  /\ Form(Now) /\ Files(Now) /\ World /\ Ok(Now, stale)
                      /\ status = "WORK" => Works(Now) /\ Flow(Now, stale)
                      /\ status \in {"INIT", "CONNECTING"} => Begins(Now)
                      /\ status \in {"DATA_FINISH", "ERROR"} => Rests(Now)
                      /\ net \in {"open", "gone"} => Works(Now) /\ Flow(Now, stale)
                      /\ net = "opening" => Begins(Now) /\ status = "CONNECTING"
  BY NowFields DEF Inv, Ok, Rests, Begins, Works

\* A handler that leaves the connection and the file alone.
LEMMA SameOk ==
    ASSUME Inv, NEW w, Shape(w), w.status = status, w.fifo = fifo, w.ext = ext,
           w.inuse = inuse, w.disk = disk, w.net = net, w.asked = asked, w.stream = stream,
           w.clock \in Nat, IsExtend(w.extend), w.extend.start = extend.start,
           w.extend.len = extend.len, w.extend.timing = extend.timing
    PROVE  Ok(w, stale)
  <1>1. Form(w) /\ Files(w)
    BY NowIs, NowFields DEF Form, Files
  <1>2. CASE Rests(Now)
    BY <1>1, <1>2, NowFields DEF Rests, Silenced, Ok
  <1>3. CASE Begins(Now)
    BY <1>1, <1>3, NowFields DEF Begins, Silenced, Ok
  <1>4. CASE Works(Now) /\ Flow(Now, stale)
    <2>1. Works(w)
      BY <1>4, NowFields DEF Works
    <2>2. Fetching(w, stale)
      BY <1>4, NowFields DEF Flow, Fetching, Begun
    <2>3. Single(Now) => Single(w)
      BY NowFields DEF Single, Asked, Nothing, Coming, Due
    <2> QED
      BY <1>1, <1>4, <2>1, <2>2, <2>3 DEF Flow, Ok
  <1> QED
    BY <1>2, <1>3, <1>4 DEF Inv, Ok

LEMMA Framed ==
    ASSUME Inv, UNCHANGED <<status, fifo, ext, inuse, disk, net, asked, stream, stale>>,
           clock' \in Nat, IsExtend(extend'), extend'.start = extend.start,
           extend'.len = extend.len, extend'.timing = extend.timing, World'
    PROVE  Inv'
  <1>1. PICK w : w = Now'
    OBVIOUS
  <1>2. /\ Shape(w) /\ w.status = status /\ w.fifo = fifo /\ w.ext = ext
        /\ w.inuse = inuse /\ w.disk = disk /\ w.net = net /\ w.asked = asked
        /\ w.stream = stream /\ w.clock = clock' /\ w.extend = extend'
    BY <1>1 DEF Now, Shape
  <1>3. Ok(w, stale)
    BY <1>2, SameOk
  <1> QED
    BY <1>1, <1>3 DEF Inv

LEMMA IdleStep ==
    ASSUME Inv, TenSeconds \/ ThreeSeconds \/ Gps \/ TimePasses \/ NewFile \/ UNCHANGED vars
    PROVE  Inv'
  <1>1. clock \in Nat /\ IsExtend(extend) /\ World /\ MaxTime \in Nat
    BY NowIs, NowFields, Constants DEF Form
  <1>2. /\ UNCHANGED <<status, fifo, ext, inuse, disk, net, asked, stream, stale>>
        /\ now' \in 1 .. MaxTime /\ version' \in 1 .. MaxTime /\ clock' \in Nat
    BY <1>1 DEF World, TenSeconds, ThreeSeconds, Gps, GpsOn, GpsAsks, GpsFixed, GpsOff,
                TimePasses, NewFile, vars
  <1>3. /\ IsExtend(extend') /\ extend'.start = extend.start /\ extend'.len = extend.len
        /\ extend'.timing = extend.timing
    <2>1. CASE extend' = extend
      BY <1>1, <2>1
    <2>2. CASE GpsAsks
      <3>1. PICK u : u = ~Usable(Now)
        OBVIOUS
      <3>2. extend' = [extend EXCEPT !.required = u]
        BY <2>2, <3>1 DEF GpsAsks
      <3> QED
        BY <1>1, <3>2 DEF IsExtend
    <2> QED
      BY <2>1, <2>2 DEF TenSeconds, ThreeSeconds, Gps, GpsOn, GpsFixed, GpsOff, TimePasses,
                        NewFile, vars
  <1> QED
    BY <1>1, <1>2, <1>3, Framed DEF World

LEMMA ConnectOk ==
    ASSUME NEW w, Form(w), Files(w), w.status = "CONNECTING", w.ext.flag = 0, Silenced(w), NEW st
    PROVE  Ok(Connect(w), st)
  <1>1. PICK c : c = [w EXCEPT !.net = "opening", !.late = FALSE]
    OBVIOUS
  <1>2. /\ Alike(c, w) /\ c.net = "opening" /\ c.asked = w.asked /\ c.stream = w.stream
        /\ c.status = w.status
    BY <1>1 DEF Form, Alike, Shape
  <1>3. Form(c) /\ Files(c)
    BY <1>2, AlikeForm DEF Form
  <1>4. Begins(c)
    BY <1>2 DEF Begins, Silenced, Alike
  <1> QED
    BY <1>1, <1>3, <1>4 DEF Connect, Ok

LEMMA InitStep == ASSUME Inv, InitProc, World' PROVE Inv'
  <1>1. PICK r : r = IF gps = "fixed" THEN ReadFile(Now) ELSE Now
    OBVIOUS
  <1>2. /\ Form(r) /\ Files(r) /\ r.ext = ext /\ r.asked = asked /\ r.stream = stream
        /\ r.status = "INIT" /\ r.net = net
    BY <1>1, NowIs, NowFields, ReadIs DEF InitProc
  <1>3. ext.flag = 0 /\ asked = <<>> /\ stream = <<>>
    BY NowIs, NowFields DEF InitProc, Begins, Silenced
  <1>4. PICK m : m = Move(r, "CONNECTING")
    OBVIOUS
  <1>5. /\ Alike(m, r) /\ m.asked = <<>> /\ m.stream = <<>> /\ m.status = "CONNECTING"
    BY <1>2, <1>3, <1>4, MoveIs
  <1>6. Form(m) /\ Files(m) /\ m.ext.flag = 0
    BY <1>2, <1>3, <1>5, AlikeForm, NoneIsSeq DEF Alike
  <1>7. Ok(Connect(m), stale) /\ Ok(CloseForReconnect(r), stale)
    BY <1>2, <1>5, <1>6, ConnectOk, CloseOk DEF Silenced
  <1>8. stale' = stale /\ (Leave(CloseForReconnect(r)) \/ Leave(Connect(m)))
    BY <1>1, <1>4 DEF InitProc
  <1> QED
    BY <1>7, <1>8, Leaves

LEMMA ConnectingStep == ASSUME Inv, ConnectingProc, World' PROVE Inv'
  <1>1. PICK c : c = Close(Now)
    OBVIOUS
  <1>2. /\ Form(c) /\ Files(c) /\ Alike(c, Now) /\ c.net = "none" /\ c.asked = <<>>
        /\ c.stream = <<>> /\ c.status = "CONNECTING"
    <2>1. Form(c) /\ Alike(c, Now) /\ c.net = "none" /\ Silenced(c) /\ c.status = status
      BY <1>1, NowIs, NowFields, CloseIs
    <2> QED
      BY <2>1, NowIs DEF Alike, Files, Silenced, ConnectingProc
  <1>3. PICK k : k = c.fails + 1
    OBVIOUS
  <1>4. PICK w : w = [c EXCEPT !.fails = k]
    OBVIOUS
  <1>5. /\ Alike(w, c) /\ w.net = "none" /\ w.asked = <<>> /\ w.stream = <<>>
        /\ w.status = "CONNECTING"
    BY <1>2, <1>4 DEF Form, Alike, Shape
  <1>6. Form(w) /\ Files(w) /\ w.ext.flag = 0
    <2>1. ext.flag = 0
      BY NowIs, NowFields DEF ConnectingProc, Begins
    <2> QED
      BY <1>2, <1>5, <2>1, AlikeForm, NoneIsSeq, NowFields DEF Alike
  <1>7. PICK m : m = Move(w, "DATA_FINISH")
    OBVIOUS
  <1>8. /\ Alike(m, w) /\ m.net = "none" /\ m.asked = <<>> /\ m.stream = <<>>
        /\ m.status \in {"DATA_FINISH", "ERROR"}
    BY <1>5, <1>6, <1>7, MoveIs
  <1>9. Ok(m, stale)
    BY <1>6, <1>8, AlikeForm, NoneIsSeq DEF Ok, Rests, Silenced
  <1>10. Ok(Connect(w), stale)
    BY <1>5, <1>6, ConnectOk DEF Silenced
  <1>11. w = [Close(Now) EXCEPT !.fails = @ + 1]
    BY <1>1, <1>2, <1>3, <1>4 DEF Form, Shape
  <1>12. stale' = stale /\ (Leave(m) \/ Leave(Connect(w)))
    BY <1>7, <1>11 DEF ConnectingProc
  <1> QED
    BY <1>9, <1>10, <1>12, Leaves

LEMMA WorkStep == ASSUME Inv, WorkProc, World' PROVE Inv'
  <1>1. Works(Now) /\ Flow(Now, stale) /\ In(Now)
    BY NowIs DEF WorkProc, In
  <1>2. PICK c : c = CloseForReconnect(Now)
    OBVIOUS
  <1>3. Form(c) /\ Alike(c, Now) /\ Rests(c)
    BY <1>2, NowIs, CloseRests
  <1>4. Flow(c, stale)
    <2>1. /\ c.ext = Now.ext /\ c.extend = Now.extend /\ c.fifo = Now.fifo
          /\ c.asked = <<>> /\ c.stream = <<>>
      BY <1>3 DEF Alike, Rests, Silenced
    <2>2. Fetching(c, stale)
      BY <1>1, <2>1 DEF Flow, Fetching, Begun
    <2>3. ASSUME NEW m \in Msg, Coming(Now, m) PROVE Coming(c, m)
      <3>1. Len(Now.fifo) \in Nat /\ Len(Now.stream) \in Nat /\ Len(c.stream) = 0
        BY <2>1, NowIs DEF Form
      <3>2. Due(c, m)
        BY <2>1, <2>3 DEF Coming, Due
      <3>3. Len(c.fifo) + Len(c.stream) <= 2
        <4>1. PICK k \in Nat : k = Len(Now.fifo)
          BY <3>1
        <4>2. PICK l \in Nat : l = Len(Now.stream)
          BY <3>1
        <4>3. k + l <= 2
          BY <2>3, <4>1, <4>2 DEF Coming
        <4>4. Len(c.fifo) = k
          BY <2>1, <4>1
        <4> QED
          BY <3>1, <4>3, <4>4
      <3>4. \A i \in 1 .. Len(c.stream) : FALSE
        BY <3>1
      <3>5. \A i \in 1 .. Len(c.fifo) : c.fifo[i] = Half(m, i)
        BY <2>1, <2>3 DEF Coming
      <3> QED
        BY <2>1, <3>2, <3>3, <3>4, <3>5 DEF Coming
    <2>4. Single(Now) => Single(c)
      BY <2>1, <2>3 DEF Single, Asked, Nothing
    <2> QED
      BY <1>1, <2>2, <2>4 DEF Flow
  <1>5. In(c)
    BY <1>3, <1>4, NowIs, AlikeForm DEF In, Rests, Silenced, Form
  <1>6. PICK v : Leave(v) /\ (v \in Receive(c) \/ v \in Receive(Now)) /\ stale' = stale
    BY <1>2 DEF WorkProc
  <1>7. Ok(v, stale)
    BY <1>1, <1>5, <1>6, ReceiveOk
  <1> QED
    BY <1>6, <1>7, Leaves

LEMMA FinishStep == ASSUME Inv, DataFinishProc, World' PROVE Inv'
  <1>1. Rests(Now) /\ IsExtend(extend)
    BY NowIs, NowFields DEF DataFinishProc, DataFinish, Form
  <1>2. PICK q : q = (extend.required /\ ~(gps \in {"off", "fixed"}))
    OBVIOUS
  <1>3. PICK e : e = [extend EXCEPT !.required = q]
    OBVIOUS
  <1>4. PICK w : w = [Now EXCEPT !.extend = e]
    OBVIOUS
  <1>5. w = [Now EXCEPT !.extend.required = @ /\ ~(gps \in {"off", "fixed"})]
    BY <1>1, <1>2, <1>3, <1>4 DEF Now
  <1>6. /\ IsExtend(e) /\ e.start = extend.start /\ e.len = extend.len
        /\ e.timing = extend.timing
    BY <1>1, <1>3 DEF IsExtend
  <1>7. /\ Shape(w) /\ w.extend = e /\ w.status = status /\ w.fifo = fifo /\ w.ext = ext
        /\ w.inuse = inuse /\ w.disk = disk /\ w.net = net /\ w.asked = asked
        /\ w.stream = stream /\ w.clock = clock
    BY <1>4, NowFields DEF Shape
  <1>8. clock \in Nat
    BY NowIs, NowFields DEF Form
  <1>9. Ok(w, stale)
    BY <1>6, <1>7, <1>8, SameOk
  <1>10. Ok([w EXCEPT !.extend.timed = TRUE], stale)
    <2>1. PICK x : x = [e EXCEPT !.timed = TRUE]
      OBVIOUS
    <2>2. /\ IsExtend(x) /\ x.start = e.start /\ x.len = e.len /\ x.timing = e.timing
      BY <1>6, <2>1 DEF IsExtend
    <2>3. PICK v : v = [w EXCEPT !.extend = x]
      OBVIOUS
    <2>4. v = [w EXCEPT !.extend.timed = TRUE]
      BY <1>7, <2>1, <2>3 DEF Shape
    <2>5. /\ Shape(v) /\ v.extend = x /\ v.status = status /\ v.fifo = fifo /\ v.ext = ext
          /\ v.inuse = inuse /\ v.disk = disk /\ v.net = net /\ v.asked = asked
          /\ v.stream = stream /\ v.clock = clock
      BY <1>7, <2>3 DEF Shape
    <2> QED
      BY <1>6, <1>8, <2>2, <2>4, <2>5, SameOk
  <1>11. Ok(Move([w EXCEPT !.ext = NoDownload, !.extend.len = 0, !.extend.start = 1,
                           !.extend.timing = FALSE], "INIT"), stale)
    <2>1. PICK x : x = [e EXCEPT !.len = 0, !.start = 1, !.timing = FALSE]
      OBVIOUS
    <2>2. IsExtend(x) /\ x.start = 1
      BY <1>6, <2>1 DEF IsExtend
    <2>3. PICK v : v = [w EXCEPT !.ext = NoDownload, !.extend = x]
      OBVIOUS
    <2>4. v = [w EXCEPT !.ext = NoDownload, !.extend.len = 0, !.extend.start = 1,
                        !.extend.timing = FALSE]
      BY <1>7, <2>1, <2>3 DEF Shape
    <2>5. /\ Shape(v) /\ v.extend = x /\ v.status = status /\ v.fifo = fifo
          /\ v.ext = NoDownload /\ v.inuse = inuse /\ v.disk = disk /\ v.net = net
          /\ v.asked = asked /\ v.stream = stream /\ v.clock = clock
      BY <1>7, <2>3 DEF Shape
    <2>6. Form(v) /\ Files(v)
      BY <2>2, <2>5, NowIs, NowFields, NoFiles DEF Form, Files
    <2>7. PICK m : m = Move(v, "INIT")
      OBVIOUS
    <2>8. /\ Alike(m, v) /\ m.net = v.net /\ m.asked = v.asked /\ m.stream = v.stream
          /\ m.status \in {status, "INIT"}
      BY <2>5, <2>6, <2>7, MoveIs
    <2>9. Form(m) /\ Files(m)
      BY <2>6, <2>8, AlikeForm, NowIs, NowFields DEF Form
    <2>10. net = "none" /\ asked = <<>> /\ stream = <<>> /\ status \in {"DATA_FINISH", "ERROR"}
      BY <1>1, NowFields DEF Rests, Silenced
    <2>11. Rests(m) \/ Begins(m)
      BY <2>5, <2>8, <2>10, NoFiles DEF Rests, Begins, Silenced, Alike
    <2> QED
      BY <2>4, <2>7, <2>9, <2>11 DEF Ok
  <1>12. /\ stale' = stale
         /\ \/ Leave(w) \/ Leave([w EXCEPT !.extend.timed = TRUE])
            \/ Leave(Move([w EXCEPT !.ext = NoDownload, !.extend.len = 0, !.extend.start = 1,
                                    !.extend.timing = FALSE], "INIT"))
    BY <1>5, Zenon DEF DataFinishProc, DataFinish
  <1> QED
    BY <1>9, <1>10, <1>11, <1>12, Leaves

LEMMA ConnectedStep == ASSUME Inv, Connected, World' PROVE Inv'
  <1>1. /\ status = "CONNECTING" /\ ext.flag = 0 /\ asked = <<>> /\ stream = <<>>
        /\ stale' = (fifo # <<>>)
    BY NowIs, NowFields DEF Connected, Begins, Silenced
  <1>2. PICK b : b = [Now EXCEPT !.net = "open"]
    OBVIOUS
  <1>3. /\ Alike(b, Now) /\ b.asked = <<>> /\ b.stream = <<>> /\ b.status = "CONNECTING"
    BY <1>1, <1>2, NowFields DEF Alike, Shape
  <1>4. Form(b) /\ Files(b)
    BY <1>3, NowIs, AlikeForm, NoneIsSeq
  <1>5. PICK c : c = Move(b, "WORK")
    OBVIOUS
  <1>6. /\ Alike(c, b) /\ c.asked = <<>> /\ c.stream = <<>> /\ c.status = "WORK"
    BY <1>3, <1>4, <1>5, MoveIs
  <1>7. Form(c) /\ Files(c)
    BY <1>4, <1>6, AlikeForm, NoneIsSeq
  <1>8. c.ext.flag = 0 /\ c.fifo = fifo
    BY <1>1, <1>3, <1>6, NowFields DEF Alike
  <1>9. ~stale' => c.asked = <<>> /\ Nothing(c)
    BY <1>1, <1>6, <1>8 DEF Nothing
  <1>10. Ok(Ask(c, "time", 0), stale')
    BY <1>7, <1>8, <1>9, AskOk DEF Fetching
  <1>11. Leave(Ask(c, "time", 0))
    BY <1>2, <1>5 DEF Connected
  <1> QED
    BY <1>10, <1>11, Leaves

\* What arrives leaves the stream and follows what is in the buffer.
LEMMA Passing ==
    ASSUME NEW q \in Seq(Bit), NEW s \in Seq(Bit), NEW n \in 1 .. Len(s)
    PROVE  LET a == q \o SubSeq(s, 1, n)
               b == SubSeq(s, n + 1, Len(s))
           IN  /\ a \in Seq(Bit) /\ b \in Seq(Bit)
               /\ Len(a) = Len(q) + n /\ Len(b) = Len(s) - n
               /\ \A i \in 1 .. Len(q) : a[i] = q[i]
               /\ \A i \in Len(q) + 1 .. Len(q) + n : a[i] = s[i - Len(q)]
               /\ \A i \in 1 .. Len(s) - n : b[i] = s[i + n]
  OBVIOUS

LEMMA ArriveStep == ASSUME Inv, Arrive, World' PROVE Inv'
  <1>1. /\ Works(Now) /\ Flow(Now, stale) /\ stale' = stale
        /\ fifo \in Seq(Bit) /\ stream \in Seq(Bit) /\ stream # <<>>
    BY NowIs, NowFields DEF Arrive, Form
  <1>2. PICK n \in 1 .. Len(stream) :
            Leave(IF Fits(n) THEN [Now EXCEPT !.fifo = @ \o SubSeq(stream, 1, n),
                                              !.stream = SubSeq(@, n + 1, Len(@))]
                  ELSE Drop(Now))
    BY DEF Arrive
  <1>3. CASE ~Fits(n)
    BY <1>1, <1>2, <1>3, NowIs, DropOk, Leaves
  <1>4. CASE Fits(n)
    <2>1. PICK a : a = fifo \o SubSeq(stream, 1, n)
      OBVIOUS
    <2>2. PICK b : b = SubSeq(stream, n + 1, Len(stream))
      OBVIOUS
    <2>3. /\ a \in Seq(Bit) /\ b \in Seq(Bit)
          /\ Len(a) = Len(fifo) + n /\ Len(b) = Len(stream) - n
          /\ \A i \in 1 .. Len(fifo) : a[i] = fifo[i]
          /\ \A i \in Len(fifo) + 1 .. Len(fifo) + n : a[i] = stream[i - Len(fifo)]
          /\ \A i \in 1 .. Len(stream) - n : b[i] = stream[i + n]
      BY <1>1, <2>1, <2>2, Passing
    <2>4. PICK w : w = [Now EXCEPT !.fifo = a, !.stream = b]
      OBVIOUS
    <2>5. w = [Now EXCEPT !.fifo = @ \o SubSeq(stream, 1, n),
                          !.stream = SubSeq(@, n + 1, Len(@))]
      BY <2>1, <2>2, <2>4 DEF Now
    <2>6. /\ Shape(w) /\ w.fifo = a /\ w.stream = b /\ w.asked = asked /\ w.extend = extend
          /\ w.ext = ext /\ w.inuse = inuse /\ w.disk = disk /\ w.clock = clock
          /\ w.net = net /\ w.status = status
      BY <2>4, NowFields DEF Shape
    <2>7. Form(w) /\ Files(w) /\ Works(w)
      BY <1>1, <2>3, <2>6, NowIs, NowFields DEF Form, Files, Works
    <2>8. Fetching(w, stale)
      BY <1>1, <2>6, NowFields DEF Flow, Fetching, Begun
    <2>9. ASSUME ~stale PROVE Single(w)
      <3>1. PICK m \in Msg : Coming(Now, m)
        BY <1>1, <2>9, NowFields DEF Flow, Single, Asked, Nothing
      <3>2. PICK k \in Nat : k = Len(fifo)
        BY <1>1
      <3>3. PICK l \in Nat : l = Len(stream)
        BY <1>1
      <3>4. /\ asked = <<>> /\ Due(Now, m) /\ k + l <= 2
            /\ \A i \in 1 .. k : fifo[i] = Half(m, i)
            /\ \A i \in 1 .. l : stream[i] = Half(m, i + k)
        BY <3>1, <3>2, <3>3, NowFields DEF Coming
      <3>5. Len(a) = k + n /\ Len(b) = l - n /\ n \in 1 .. l
        BY <2>3, <3>2, <3>3
      <3>6. ASSUME NEW i \in 1 .. Len(a) PROVE a[i] = Half(m, i)
        <4>1. CASE i \in 1 .. k
          BY <2>3, <3>2, <3>4, <4>1
        <4>2. CASE i \in k + 1 .. k + n
          <5>1. a[i] = stream[i - k]
            BY <2>3, <3>2, <4>2
          <5>2. i - k \in 1 .. l /\ (i - k) + k = i
            BY <3>5, <4>2
          <5> QED
            BY <3>4, <5>1, <5>2
        <4> QED
          BY <3>5, <4>1, <4>2
      <3>7. ASSUME NEW i \in 1 .. Len(b) PROVE b[i] = Half(m, i + Len(a))
        <4>1. b[i] = stream[i + n]
          BY <2>3, <3>3, <3>5
        <4>2. i + n \in 1 .. l /\ (i + n) + k = i + Len(a)
          BY <3>5
        <4> QED
          BY <3>4, <4>1, <4>2
      <3>8. Len(a) + Len(b) <= 2
        BY <3>4, <3>5
      <3>9. Due(w, m)
        BY <2>6, <3>4, NowFields DEF Due
      <3> QED
        BY <2>6, <3>4, <3>6, <3>7, <3>8, <3>9 DEF Single, Coming
    <2>10. Ok(w, stale)
      BY <2>7, <2>8, <2>9 DEF Ok, Flow
    <2> QED
      BY <1>1, <1>2, <1>4, <2>5, <2>10, Leaves
  <1> QED
    BY <1>3, <1>4

LEMMA BothAre == ASSUME NEW m \in Msg
                 PROVE  /\ Both(m) \in Seq(Bit) /\ Len(Both(m)) = 2
                        /\ Both(m)[1] = Half(m, 1) /\ Both(m)[2] = Half(m, 2)
                        /\ Half(m, 1) \in Bit
  <1>1. (1 = 2) = FALSE /\ (2 = 2) = TRUE
    OBVIOUS
  <1>2. /\ Half(m, 1) = [of |-> m, last |-> FALSE]
        /\ Half(m, 2) = [of |-> m, last |-> TRUE]
    BY <1>1, Zenon DEF Half
  <1>3. [of |-> m, last |-> FALSE] \in Bit /\ [of |-> m, last |-> TRUE] \in Bit
    BY DEF Bit
  <1>4. Both(m) = <<Half(m, 1), Half(m, 2)>>
    BY <1>2, Zenon DEF Both
  <1>5. Half(m, 1) \in Bit /\ Half(m, 2) \in Bit
    BY <1>2, <1>3
  <1>6. ASSUME NEW x \in Bit, NEW y \in Bit
        PROVE  /\ <<x, y>> \in Seq(Bit) /\ Len(<<x, y>>) = 2
               /\ <<x, y>>[1] = x /\ <<x, y>>[2] = y
    OBVIOUS
  <1> QED
    BY <1>4, <1>5, <1>6

LEMMA AnswersAre ==
    ASSUME World, NEW r \in Req
    PROVE  Answers(r) = <<>> \/ \E m \in Msg : /\ Answers(r) = Both(m) /\ m.kind = r.kind
                                               /\ m.kind = "part" => m.at = r.at
  <1>1. /\ now \in Nat \ {0} /\ version \in Nat \ {0} /\ version \in 1 .. MaxTime
        /\ r.kind \in {"time", "part"}
    BY Constants DEF World, Req
  <1>2. CASE r.kind = "time"
    <2>1. PICK m : m = [kind |-> "time", version |-> 0, at |-> now]
      OBVIOUS
    <2>2. m \in Msg /\ m.kind = "time"
      BY <1>1, <2>1 DEF Msg
    <2> QED
      BY <1>2, <2>1, <2>2 DEF Answers
  <1>3. CASE r.kind = "part" /\ r.at \in Offsets
    <2>1. PICK m : m = [kind |-> "part", version |-> version, at |-> r.at]
      OBVIOUS
    <2>2. r.at \in Nat \ {0}
      BY <1>3 DEF Offsets, Req
    <2>3. m \in Msg /\ m.kind = "part" /\ m.at = r.at
      BY <1>1, <2>1, <2>2 DEF Msg
    <2> QED
      BY <1>3, <2>1, <2>3 DEF Answers
  <1>4. CASE r.kind = "part" /\ r.at \notin Offsets
    BY <1>4 DEF Answers
  <1> QED
    BY <1>1, <1>2, <1>3, <1>4

\* The server answers the only request, or has answered all of them.
LEMMA AnsweredStep ==
    ASSUME Inv, Answered \/ ServerLeavesHalfway, World'
    PROVE  Inv'
  <1>1. /\ Works(Now) /\ Flow(Now, stale) /\ stale' = stale /\ asked # <<>>
        /\ asked \in Seq(Req) /\ stream \in Seq(Bit) /\ World
    BY NowIs, NowFields DEF Answered, ServerLeavesHalfway, Form
  <1>2. PICK r : r = Head(asked)
    OBVIOUS
  <1>3. r \in Req /\ r = asked[1] /\ Tail(asked) \in Seq(Req)
    BY <1>1, <1>2
  <1>4. PICK a : a = stream' /\ \/ a = stream \o Answers(r)
                                \/ a = stream \o SubSeq(Answers(r), 1, 1) /\ Answers(r) # <<>>
    BY <1>2 DEF Answered, ServerLeavesHalfway
  <1>5. \/ a = stream \o <<>>
        \/ \E m \in Msg : /\ m.kind = r.kind /\ (m.kind = "part" => m.at = r.at)
                          /\ a = stream \o Both(m) \/ a = stream \o SubSeq(Both(m), 1, 1)
    BY <1>1, <1>3, <1>4, AnswersAre
  <1>6. ASSUME NEW m \in Msg, NEW t, t = Both(m) \/ t = SubSeq(Both(m), 1, 1)
        PROVE  /\ t \in Seq(Bit) /\ Len(t) <= 2 /\ Len(t) \in Nat
               /\ \A i \in 1 .. Len(t) : t[i] = Half(m, i)
    <2>1. CASE t = Both(m)
      <3>1. \A i \in 1 .. 2 : i = 1 \/ i = 2
        OBVIOUS
      <3>2. t \in Seq(Bit) /\ Len(t) = 2 /\ t[1] = Half(m, 1) /\ t[2] = Half(m, 2)
        BY <2>1, BothAre
      <3>3. ASSUME NEW i \in 1 .. 2 PROVE t[i] = Half(m, i)
        BY <3>1, <3>2
      <3> QED
        BY <3>2, <3>3
    <2>2. CASE t = SubSeq(Both(m), 1, 1)
      <3>1. t \in Seq(Bit) /\ Len(t) = 1 /\ t[1] = Both(m)[1]
        BY <2>2, BothAre
      <3>2. \A i \in 1 .. 1 : i = 1
        OBVIOUS
      <3> QED
        BY <3>1, <3>2, BothAre
    <2> QED
      BY <1>6, <2>1, <2>2
  <1>7. a \in Seq(Bit)
    <2>1. PICK t \in Seq(Bit) : a = stream \o t
      <3>1. CASE a = stream \o <<>>
        BY <3>1, NoneIsSeq
      <3>2. ASSUME NEW m \in Msg,
                   a = stream \o Both(m) \/ a = stream \o SubSeq(Both(m), 1, 1)
            PROVE  \E t \in Seq(Bit) : a = stream \o t
        <4>1. Both(m) \in Seq(Bit) /\ SubSeq(Both(m), 1, 1) \in Seq(Bit)
          BY <1>6
        <4> QED
          BY <3>2, <4>1
      <3> QED
        BY <1>5, <3>1, <3>2
    <2> QED
      BY <1>1, <2>1
  <1>8. PICK w : w = Now'
    OBVIOUS
  <1>9. /\ Shape(w) /\ w.fifo = fifo /\ w.stream = a /\ w.asked = asked'
        /\ w.extend = extend /\ w.ext = ext /\ w.inuse = inuse /\ w.disk = disk
        /\ w.clock = clock /\ w.net \in {"open", "gone"} /\ w.status = status
        /\ asked' \in {<<>>, Tail(asked)}
    BY <1>4, <1>8 DEF Answered, ServerLeavesHalfway, Now, Shape
  <1>10. asked' \in Seq(Req)
    BY <1>3, <1>9, NoneIsSeq
  <1>11. Form(w) /\ Files(w) /\ Works(w)
    BY <1>1, <1>7, <1>9, <1>10, NowIs, NowFields DEF Form, Files, Works
  <1>12. Fetching(w, stale)
    BY <1>1, <1>9, NowFields DEF Flow, Fetching, Begun
  <1>13. ASSUME ~stale PROVE Single(w)
    <2>1. Asked(Now)
      BY <1>1, <1>13, NowFields DEF Flow, Single, Coming
    <2>2. /\ fifo = <<>> /\ stream = <<>> /\ Len(asked) = 1 /\ Due(Now, r)
      BY <1>3, <2>1, NowFields DEF Asked, Nothing
    <2>3. asked' = <<>>
      BY <1>1, <1>9, <2>2
    <2>4. CASE a = stream \o <<>>
      BY <1>9, <2>2, <2>3, <2>4 DEF Single, Nothing
    <2>5. ASSUME NEW m \in Msg, m.kind = r.kind, m.kind = "part" => m.at = r.at, NEW t,
                 t = Both(m) \/ t = SubSeq(Both(m), 1, 1), a = stream \o t
          PROVE  Coming(w, m)
      <3>1. /\ t \in Seq(Bit) /\ Len(t) <= 2 /\ Len(t) \in Nat
            /\ \A i \in 1 .. Len(t) : t[i] = Half(m, i)
        BY <1>6, <2>5
      <3>2. a = t
        BY <2>2, <2>5, <3>1
      <3>3. Due(w, m)
        BY <1>9, <2>2, <2>5, NowFields DEF Due
      <3>4. Len(w.fifo) = 0 /\ w.stream = t /\ w.asked = <<>>
        BY <1>9, <2>2, <2>3, <3>2
      <3>5. \A i \in 1 .. Len(w.fifo) : FALSE
        BY <3>4
      <3>6. \A i \in 1 .. Len(t) : i + Len(w.fifo) = i
        BY <3>1, <3>4
      <3> QED
        BY <3>1, <3>3, <3>4, <3>5, <3>6 DEF Coming
    <2> QED
      BY <1>5, <2>4, <2>5 DEF Single
  <1>14. Ok(w, stale)
    BY <1>11, <1>12, <1>13 DEF Ok, Flow
  <1> QED
    BY <1>1, <1>8, <1>14 DEF Inv

LEMMA ServerLeavesStep == ASSUME Inv, ServerLeaves, World' PROVE Inv'
  <1>1. /\ Works(Now) /\ Flow(Now, stale) /\ stale' = stale
    BY NowIs DEF ServerLeaves
  <1>2. PICK w : w = Now'
    OBVIOUS
  <1>3. /\ Shape(w) /\ w.fifo = fifo /\ w.stream = stream /\ w.asked = <<>>
        /\ w.extend = extend /\ w.ext = ext /\ w.inuse = inuse /\ w.disk = disk
        /\ w.clock = clock /\ w.net = "gone" /\ w.status = status
    BY <1>2 DEF ServerLeaves, Now, Shape
  <1>4. Form(w) /\ Files(w) /\ Works(w)
    BY <1>1, <1>3, NowIs, NowFields, NoneIsSeq DEF Form, Files, Works
  <1>5. Fetching(w, stale)
    BY <1>1, <1>3, NowFields DEF Flow, Fetching, Begun
  <1>6. Single(Now) => Single(w)
    BY <1>3, NowFields DEF Single, Asked, Nothing, Coming, Due
  <1> QED
    BY <1>1, <1>2, <1>4, <1>5, <1>6 DEF Inv, Ok, Flow

LEMMA CloseStep == ASSUME Inv, Noticed \/ LinkLost, World' PROVE Inv'
  <1>1. PICK w : Leave(w) /\ (w = CloseForReconnect(Now) \/ w = Move(Close(Now), "ERROR"))
                 /\ stale' = stale
    BY DEF Noticed, LinkLost
  <1>2. CASE w = CloseForReconnect(Now)
    BY <1>1, <1>2, NowIs, CloseOk, Leaves
  <1>3. CASE w = Move(Close(Now), "ERROR")
    <2>1. Form(w) /\ Alike(w, Now) /\ Rests(w)
      BY <1>3, NowIs, MovedRests
    <2>2. Ok(w, stale)
      BY <2>1, NowIs DEF Ok, Alike, Files
    <2> QED
      BY <1>1, <2>2, Leaves
  <1> QED
    BY <1>1, <1>2, <1>3

\* After a start the file on the disk is the old one, none, or a torn one.
LEMMA BootStep == ASSUME Inv, PowerCut \/ CutWriting, World' PROVE Inv'
  <1>1. PICK d : Boot(d) /\ d \in {disk, NoFile, Torn}
    BY DEF PowerCut, CutWriting
  <1>2. PICK w : w = Now'
    OBVIOUS
  <1>3. /\ Shape(w) /\ w.fifo = <<>> /\ w.stream = <<>> /\ w.asked = <<>>
        /\ w.extend = Start /\ w.ext = NoDownload /\ w.inuse = NoFile /\ w.disk = d
        /\ w.clock = 0 /\ w.net = "none" /\ w.status = "INIT"
    BY <1>1, <1>2 DEF Boot, Now, Shape
  <1>4. Form(w)
    BY <1>3, NoFiles, NoneIsSeq DEF Form
  <1>5. Files(w)
    BY <1>1, <1>3, NoFiles, NowIs, NowFields DEF Files
  <1>6. Begins(w)
    BY <1>3, NoFiles DEF Begins, Silenced
  <1> QED
    BY <1>2, <1>4, <1>5, <1>6 DEF Inv, Ok

------------------------------------------------------------------------------
(* Together.                                                                 *)
LEMMA WorldStep == ASSUME Inv, [Next]_vars PROVE World'
  <1>1. World /\ MaxTime \in Nat
    BY Constants DEF Inv
  <1>2. stale' \in BOOLEAN
    <2>1. stale' = stale \/ stale' = FALSE \/ Connected
      BY DEF Next, TimerProc, InitProc, ConnectingProc, WorkProc, DataFinishProc, DataFinish,
         Server, Answered, Arrive, Noticed, Trouble, ServerLeaves, ServerLeavesHalfway,
         LinkLost, PowerCut, CutWriting, Boot, TenSeconds, ThreeSeconds, Gps, TimePasses,
         NewFile, vars
    <2>2. Connected => stale' \in BOOLEAN
      <3>1. (fifo # <<>>) \in BOOLEAN
        BY Zenon
      <3> QED
        BY <3>1 DEF Connected
    <2>3. stale \in BOOLEAN /\ FALSE \in BOOLEAN
      BY <1>1 DEF World
    <2> QED
      BY <2>1, <2>2, <2>3
  <1>3. now' \in 1 .. MaxTime /\ version' \in 1 .. MaxTime
    <2>1. UNCHANGED <<now, version>> \/ TimePasses \/ NewFile
      BY DEF Next, TimerProc, Server, Answered, Connected, Arrive, Noticed, Trouble,
         ServerLeaves, ServerLeavesHalfway, LinkLost, PowerCut, CutWriting, Boot, TenSeconds,
         ThreeSeconds, Gps, vars
    <2>2. now \in 1 .. MaxTime /\ version \in 1 .. MaxTime
      BY <1>1 DEF World
    <2>3. TimePasses => now' \in 1 .. MaxTime /\ version' = version
      BY <1>1, <2>2 DEF TimePasses
    <2>4. NewFile => version' \in 1 .. MaxTime /\ now' = now
      BY <1>1, <2>2 DEF NewFile
    <2> QED
      BY <2>1, <2>2, <2>3, <2>4
  <1> QED
    BY <1>2, <1>3 DEF World

LEMMA InitInv == Init => Inv
  <1> SUFFICES ASSUME Init PROVE Inv
    OBVIOUS
  <1>1. Form(Now) /\ Files(Now)
    BY NowFields, NoFiles, NoneIsSeq DEF Init, Form, Files
  <1>2. Begins(Now)
    BY NowFields, NoFiles DEF Init, Begins, Silenced
  <1>3. World
    <2>1. 1 \in 1 .. MaxTime
      BY Constants
    <2> QED
      BY <2>1 DEF Init, World
  <1> QED
    BY <1>1, <1>2, <1>3 DEF Inv, Ok

LEMMA NextInv == Inv /\ [Next]_vars => Inv'
  <1> SUFFICES ASSUME Inv, [Next]_vars PROVE Inv'
    OBVIOUS
  <1>1. World'
    BY WorldStep
  <1> QED
    BY <1>1, InitStep, ConnectingStep, WorkStep, FinishStep, AnsweredStep, ConnectedStep,
       ArriveStep, CloseStep, ServerLeavesStep, BootStep, IdleStep
       DEF Next, TimerProc, Server, Trouble

(* A file the receiver is given is one stretch of one version, in order,     *)
(* unless it was fetched over a connection that began with old remains.      *)
THEOREM FilesAreRight == Spec => []FileIsRight
  <1>1. Inv => FileIsRight
    BY NowFields DEF Inv, Ok, Files, RightFile, FileIsRight
  <1> QED
    BY <1>1, InitInv, NextInv, PTL DEF Spec

------------------------------------------------------------------------------
(* The types: those of the variables, the failed attempts below their limit, *)
(* and, until the work ends, a part to ask for that leaves room for the rest *)
(* of its stretch.                                                           *)
Statuses == {"INIT", "CONNECTING", "WORK", "DATA_FINISH", "ERROR"}
Part == (1 .. MaxTime) \X Offsets
Orbit == {f \in [seg : 0 .. Last, data : Seq(Part), stale : BOOLEAN] : Len(f.data) <= PARTS}
Wanted == [timing : BOOLEAN, timed : BOOLEAN, required : BOOLEAN,
           start : 1 .. Last * PARTS + 1, len : {0, PARTS}]
Fetched == [flag : 0 .. MaxTime, file : Orbit]
Service == [status : Statuses, fails : 0 .. MAX_CONNECT_REPEAT, fifo : Seq(Piece),
            half : {"no", "new", "old"}, late : BOOLEAN, extend : Wanted, ext : Fetched,
            inuse : Orbit, disk : Orbit, clock : 0 .. MaxTime,
            net : {"none", "opening", "open", "gone"}, asked : Seq(Request),
            stream : Seq(Piece)]

Ahead(w) ==
    w.ext.flag # 0 =>
        /\ Len(w.ext.file.data) < PARTS /\ w.extend.len = PARTS
        /\ w.extend.start <= (MaxTime - 1) * PARTS + 1 + Len(w.ext.file.data)
Sized(w) == w \in Service /\ Len(w.fifo) < FIFO_PIECES /\ w.fails < MAX_CONNECT_REPEAT
Connects(w) == w.status = "WORK" => w.net \in {"open", "gone"}
Ready(w) == Sized(w) /\ Connects(w) /\ Ahead(w)
Ended(w) == w.status \in {"DATA_FINISH", "ERROR"}
Typed(w) ==
    Sized(w) /\ Connects(w) /\ (w.status \notin {"DATA_FINISH", "ERROR"} => Ahead(w))
WorldTyped ==
    /\ gps \in {"off", "search", "fixed"} /\ now \in 1 .. MaxTime /\ version \in 1 .. MaxTime
    /\ faults \in 0 .. MaxFaults /\ stale \in BOOLEAN
TypeInv == Typed(Now) /\ WorldTyped

LEMMA NumbersAre ==
    /\ PARTS \in Nat \ {0} /\ MaxTime \in Nat \ {0} /\ SEGMENTS \in Nat \ {0}
    /\ FIFO_PIECES \in Nat /\ FIFO_PIECES >= 2 /\ MAX_CONNECT_REPEAT \in Nat \ {0}
    /\ MaxFaults \in Nat /\ Last \in Nat /\ Last >= MaxTime + 1 /\ Last * PARTS \in Nat
    /\ SEGMENTS * PARTS \in Nat
  <1>1. /\ PARTS \in Nat \ {0} /\ MaxTime \in Nat \ {0} /\ SEGMENTS \in Nat \ {0}
        /\ FIFO_PIECES \in Nat /\ FIFO_PIECES >= 2 /\ MAX_CONNECT_REPEAT \in Nat \ {0}
        /\ MaxFaults \in Nat
    BY EpoAssumption
  <1>2. Last \in Nat /\ Last >= MaxTime + 1
    BY <1>1 DEF Last
  <1> QED
    BY <1>1, <1>2

\* A stretch that begins below MaxTime ends within what can be asked for.
LEMMA RoomIs ==
    /\ (MaxTime - 1) * PARTS \in Nat
    /\ (MaxTime - 1) * PARTS + PARTS <= Last * PARTS
    /\ \A d \in 0 .. MaxTime - 1 : d * PARTS \in Nat /\ d * PARTS <= (MaxTime - 1) * PARTS
  <1>1. PARTS \in Nat /\ MaxTime \in Nat \ {0} /\ Last \in Nat /\ Last >= MaxTime
    BY NumbersAre
  <1>2. (MaxTime - 1) * PARTS + PARTS = MaxTime * PARTS
    BY <1>1
  <1>3. \A a, b \in Nat : a <= b => a * PARTS \in Nat /\ a * PARTS <= b * PARTS
    BY <1>1
  <1>4. MaxTime * PARTS <= Last * PARTS
    BY <1>1, <1>3
  <1>5. \A d \in 0 .. MaxTime - 1 : d * PARTS \in Nat /\ d * PARTS <= (MaxTime - 1) * PARTS
    BY <1>1, <1>3
  <1>6. (MaxTime - 1) * PARTS \in Nat
    BY <1>1, <1>3
  <1> QED
    BY <1>2, <1>4, <1>5, <1>6

LEMMA FilesTyped == /\ NoFile \in Orbit /\ Torn \in Orbit /\ NoDownload \in Fetched
                    /\ NoDownload.flag = 0 /\ Start \in Wanted
  <1>1. <<>> \in Seq(Part) /\ Len(<<>>) = 0
    BY NoneIsSeq
  <1>2. NoFile \in Orbit /\ Torn \in Orbit
    BY <1>1, NumbersAre DEF NoFile, Torn, Orbit
  <1>3. NoDownload \in Fetched /\ NoDownload.flag = 0
    BY <1>2, NumbersAre DEF NoDownload, Fetched
  <1>4. Start \in Wanted
    BY NumbersAre DEF Start, Wanted
  <1> QED
    BY <1>2, <1>3, <1>4

LEMMA MoveTyped ==
    ASSUME NEW w \in Service, NEW s \in Statuses
    PROVE  /\ Move(w, s) \in Service
           /\ Move(w, s).fifo = w.fifo /\ Move(w, s).ext = w.ext /\ Move(w, s).net = w.net
           /\ Move(w, s).extend = w.extend
           /\ \/ Move(w, s) = w
              \/ Move(w, s).status = s /\ Move(w, s).fails = 0
           /\ s = "DATA_FINISH" => Move(w, s).status \in {"DATA_FINISH", "ERROR"}
           /\ s = "ERROR" => Move(w, s).status = "ERROR"
           /\ s = "DATA_FINISH" /\ w.status = "CONNECTING" => Move(w, s).fails = 0
  <1>1. PICK m : m = [w EXCEPT !.status = s, !.fails = 0]
    OBVIOUS
  <1>2. /\ m \in Service /\ m.fifo = w.fifo /\ m.ext = w.ext /\ m.net = w.net
        /\ m.extend = w.extend /\ m.status = s /\ m.fails = 0
    <2>1. 0 \in 0 .. MAX_CONNECT_REPEAT
      BY NumbersAre
    <2>2. m \in Service
      BY <1>1, <2>1 DEF Service
    <2> QED
      BY <1>1, <2>2 DEF Service
  <1>3. w.status \in Statuses
    BY DEF Service
  <1>4. Move(w, s) = m \/ Move(w, s) = w
    BY <1>1 DEF Move
  <1>5. s = "DATA_FINISH" /\ w.status \notin {"DATA_FINISH", "ERROR"} => Move(w, s) = m
    BY <1>1, <1>3 DEF Move, Statuses
  <1>6. s = "ERROR" => Move(w, s) = m
    BY <1>1, <1>3 DEF Move, Statuses
  <1> QED
    BY <1>2, <1>3, <1>4, <1>5, <1>6 DEF Statuses

LEMMA CloseTyped ==
    ASSUME NEW w \in Service
    PROVE  /\ Close(w) \in Service /\ Close(w).fifo = w.fifo /\ Close(w).ext = w.ext
           /\ Close(w).extend = w.extend /\ Close(w).status = w.status
           /\ Close(w).fails = w.fails
  <1>1. <<>> \in Seq(Request) /\ <<>> \in Seq(Piece)
    BY NoneIsSeq
  <1> QED
    BY <1>1 DEF Close, Service

LEMMA FinishTyped ==
    ASSUME NEW w, Sized(w), NEW s \in {"DATA_FINISH", "ERROR"}
    PROVE  /\ Typed(Move(Close(w), s))
           /\ Move(Close(w), s).ext = w.ext /\ Move(Close(w), s).extend = w.extend
           /\ Move(Close(w), s).status \in {"DATA_FINISH", "ERROR"}
           /\ Move(Close(w), s).fifo = w.fifo
  <1>1. PICK c : c = Close(w)
    OBVIOUS
  <1>2. /\ c \in Service /\ c.fifo = w.fifo /\ c.ext = w.ext /\ c.extend = w.extend
        /\ c.fails = w.fails
    BY <1>1, CloseTyped DEF Sized
  <1>3. PICK m : m = Move(c, s)
    OBVIOUS
  <1>4. /\ m \in Service /\ m.fifo = c.fifo /\ m.ext = c.ext /\ m.extend = c.extend
        /\ m.status \in {"DATA_FINISH", "ERROR"} /\ (m = c \/ m.fails = 0)
    BY <1>2, <1>3, MoveTyped DEF Statuses
  <1>5. Sized(m)
    BY <1>2, <1>4, NumbersAre DEF Sized
  <1> QED
    BY <1>1, <1>2, <1>3, <1>4, <1>5 DEF Typed, Connects

LEMMA ReconnectTyped ==
    ASSUME NEW w, Sized(w)
    PROVE  /\ Typed(CloseForReconnect(w)) /\ (Ahead(w) => Ready(CloseForReconnect(w)))
           /\ CloseForReconnect(w).fifo = w.fifo
  BY FinishTyped DEF CloseForReconnect, Typed, Ready, Ahead

LEMMA DropTyped == ASSUME NEW w, Sized(w) PROVE Typed(Drop(w)) /\ Ended(Drop(w))
  <1>1. PICK d : d = [w EXCEPT !.fifo = <<>>]
    OBVIOUS
  <1>2. <<>> \in Seq(Piece) /\ Len(<<>>) = 0
    BY NoneIsSeq
  <1>3. Sized(d)
    <2>1. w \in Service /\ w.fails < MAX_CONNECT_REPEAT
      BY DEF Sized
    <2>2. d \in Service /\ d.fifo = <<>> /\ d.fails = w.fails
      BY <1>1, <1>2, <2>1 DEF Service
    <2> QED
      BY <1>2, <2>1, <2>2, NumbersAre DEF Sized
  <1>4. Drop(w) = Move(Close(d), "DATA_FINISH")
    BY <1>1 DEF Drop, CloseForReconnect
  <1> QED
    BY <1>3, <1>4, FinishTyped DEF Ended

LEMMA AskedTyped ==
    ASSUME NEW w, Typed(w), NEW kind, NEW at, [kind |-> kind, at |-> at] \in Request
    PROVE  Typed(Ask(w, kind, at))
  <1>1. CASE ~(w.status = "WORK" /\ w.net = "open")
    BY <1>1, ReconnectTyped DEF Ask, Typed
  <1>2. CASE w.status = "WORK" /\ w.net = "open"
    <2>1. PICK r : r = [kind |-> kind, at |-> at]
      OBVIOUS
    <2>2. PICK q : q = Append(w.asked, r)
      OBVIOUS
    <2>3. PICK t \in BOOLEAN : t = (w.extend.timing \/ kind = "time")
      BY Zenon
    <2>4. PICK x : x = [w.extend EXCEPT !.timing = t]
      OBVIOUS
    <2>5. PICK a : a = [w EXCEPT !.asked = q, !.late = FALSE, !.extend = x]
      OBVIOUS
    <2>6. w \in Service /\ w.extend \in Wanted /\ w.asked \in Seq(Request)
      BY DEF Typed, Sized, Service
    <2>7. Ask(w, kind, at) = a
      BY <1>2, <2>1, <2>2, <2>3, <2>4, <2>5, <2>6 DEF Ask, Service, Wanted
    <2>8. x \in Wanted /\ x.start = w.extend.start /\ x.len = w.extend.len
      BY <2>4, <2>6 DEF Wanted
    <2>9. q \in Seq(Request)
      BY <2>1, <2>2, <2>6
    <2>10. /\ a \in Service /\ a.fifo = w.fifo /\ a.fails = w.fails /\ a.ext = w.ext
           /\ a.extend = x /\ a.net = w.net
      BY <2>5, <2>6, <2>8, <2>9 DEF Service
    <2> QED
      BY <1>2, <2>7, <2>8, <2>10 DEF Sized, Typed, Connects, Ahead
  <1> QED
    BY <1>1, <1>2

LEMMA AskTyped ==
    ASSUME NEW w, Ready(w), NEW kind, NEW at, [kind |-> kind, at |-> at] \in Request
    PROVE  Typed(Ask(w, kind, at))
  BY AskedTyped DEF Ready, Typed

LEMMA RequestsAre ==
    /\ [kind |-> "time", at |-> 0] \in Request
    /\ \A n \in 1 .. Last * PARTS + 1 : [kind |-> "part", at |-> n] \in Request
    /\ 1 \in 1 .. Last * PARTS + 1
  <1>1. 1 \in 1 .. Last * PARTS + 1
    BY NumbersAre
  <1>2. [kind |-> "time", at |-> 0] \in Request
    BY DEF Request
  <1>3. \A n \in 1 .. Last * PARTS + 1 : [kind |-> "part", at |-> n] \in Request
    BY DEF Request
  <1> QED
    BY <1>1, <1>2, <1>3

LEMMA AnswerIs ==
    ASSUME NEW m \in Answer
    PROVE  /\ m.kind \in {"time", "part"}
           /\ m.kind = "time" => m.at \in 1 .. MaxTime
           /\ m.kind = "part" => m.version \in 1 .. MaxTime /\ m.at \in Offsets
  BY DEF Answer

LEMMA ReadTyped ==
    ASSUME TypeInv, NEW w, Ready(w)
    PROVE  Ready(ReadFile(w)) /\ ReadFile(w).extend = w.extend /\ ReadFile(w).ext = w.ext
           /\ ReadFile(w).status = w.status /\ ReadFile(w).fails = w.fails
  <1>1. PICK f \in Orbit : f = IF disk = Torn THEN NoFile ELSE disk
    BY FilesTyped DEF TypeInv, Typed, Sized, Service, Now
  <1>2. PICK r : r = [w EXCEPT !.inuse = f]
    OBVIOUS
  <1>3. ReadFile(w) = r \/ ReadFile(w) = w
    BY <1>1, <1>2 DEF ReadFile
  <1>4. w \in Service
    BY DEF Ready, Sized
  <1>5. /\ r \in Service /\ r.extend = w.extend /\ r.ext = w.ext /\ r.status = w.status
        /\ r.fails = w.fails /\ r.fifo = w.fifo /\ r.net = w.net
    BY <1>2, <1>4 DEF Service
  <1>6. Ready(r)
    BY <1>5 DEF Ready, Sized, Connects, Ahead
  <1> QED
    BY <1>3, <1>5, <1>6

LEMMA TimingTyped ==
    ASSUME TypeInv, NEW w, Ready(w), NEW m \in Answer, m.kind = "time"
    PROVE  Typed(TimingAck(w, m))
  <1>1. PICK c : c = IF gps = "fixed" THEN w.clock ELSE m.at
    OBVIOUS
  <1>2. PICK x : x = [w.extend EXCEPT !.timing = FALSE, !.timed = TRUE, !.start = 1, !.len = 0]
    OBVIOUS
  <1>3. PICK b : b = [w EXCEPT !.clock = c, !.extend = x, !.ext = NoDownload]
    OBVIOUS
  <1>4. w \in Service /\ w.extend \in Wanted /\ w.clock \in 0 .. MaxTime
    BY DEF Ready, Sized, Service
  <1>5. c \in 0 .. MaxTime
    BY <1>1, <1>4, AnswerIs, NumbersAre
  <1>6. x \in Wanted
    BY <1>2, <1>4, RequestsAre DEF Wanted
  <1>7. /\ b \in Service /\ b.extend = x /\ b.ext = NoDownload /\ b.fifo = w.fifo
        /\ b.fails = w.fails /\ b.status = w.status /\ b.net = w.net
    BY <1>3, <1>4, <1>5, <1>6, FilesTyped DEF Service
  <1>8. Ready(b)
    BY <1>7, FilesTyped DEF Ready, Sized, Connects, Ahead
  <1>9. PICK told : told = ReadFile(b)
    OBVIOUS
  <1>10. told = ReadFile([w EXCEPT !.clock = IF gps = "fixed" THEN @ ELSE m.at,
                                   !.extend.timing = FALSE, !.extend.timed = TRUE,
                                   !.extend.start = 1, !.extend.len = 0, !.ext = NoDownload])
    BY <1>1, <1>2, <1>3, <1>4, <1>9 DEF Service, Wanted
  <1>11. Ready(told)
    BY <1>8, <1>9, ReadTyped
  <1>12. Typed(w) /\ Typed(CloseForReconnect(told)) /\ Typed(Ask(told, "part", 1))
    BY <1>11, ReconnectTyped, AskTyped, RequestsAre DEF Ready, Typed
  <1> QED
    BY <1>10, <1>12 DEF TimingAck

LEMMA HoursTyped ==
    ASSUME NEW m \in Answer, m.kind = "part"
    PROVE  Hours(m) \subseteq 1 .. Last
  <1>1. PICK v \in 1 .. MaxTime : v = m.version
    BY AnswerIs
  <1>2. PICK a \in Nat : a = m.at - 1 /\ a < SEGMENTS * PARTS
    BY AnswerIs, NumbersAre DEF Offsets
  <1>3. PICK q : q = a \div PARTS
    OBVIOUS
  <1>4. q \in Nat /\ q * PARTS <= a
    BY <1>3, NumbersAre
  <1>5. q < SEGMENTS
    <2>1. SUFFICES ASSUME q >= SEGMENTS PROVE FALSE
      BY <1>4, NumbersAre
    <2>2. q * PARTS >= SEGMENTS * PARTS
      BY <1>4, <2>1, NumbersAre
    <2> QED
      BY <1>2, <1>4, <2>2, NumbersAre
  <1>6. v + q \in 1 .. Last
    BY <1>4, <1>5, NumbersAre DEF Last
  <1> QED
    BY <1>1, <1>2, <1>3, <1>6 DEF Hours

LEMMA FirstTyped ==
    ASSUME TypeInv, NEW w, Ready(w), NEW m \in Answer, m.kind = "part",
           NEW hour \in Hours(m)
    PROVE  Typed(FirstPart(w, m, hour))
  <1>1. w \in Service /\ w.extend \in Wanted /\ w.clock \in 0 .. MaxTime
    BY DEF Ready, Sized, Service
  <1>2. hour \in 1 .. Last
    BY HoursTyped
  <1>3. PICK seg : seg = IF w.clock < hour THEN hour ELSE w.clock
    OBVIOUS
  <1>4. seg \in 1 .. Last /\ seg - hour \in 0 .. MaxTime - 1
    BY <1>1, <1>2, <1>3, NumbersAre
  <1>5. PICK d : d = (seg - hour) * PARTS
    OBVIOUS
  <1>6. d \in Nat /\ d <= (MaxTime - 1) * PARTS
    BY <1>4, <1>5, RoomIs
  <1>7. d + 1 \in 1 .. Last * PARTS + 1 /\ d + 1 <= (MaxTime - 1) * PARTS + 1
    BY <1>6, RoomIs, NumbersAre
  <1>8. PICK f : f = [seg |-> seg, data |-> <<>>, stale |-> stale]
    OBVIOUS
  <1>9. <<>> \in Seq(Part) /\ Len(<<>>) = 0
    BY NoneIsSeq
  <1>10. f \in Orbit /\ Len(f.data) = 0
    BY <1>4, <1>8, <1>9, NumbersAre DEF TypeInv, WorldTyped, Orbit
  <1>11. PICK e : e = [flag |-> m.version, file |-> f]
    OBVIOUS
  <1>12. e \in Fetched /\ e.file = f
    BY <1>10, <1>11, AnswerIs DEF Fetched
  <1>13. PICK x : x = [w.extend EXCEPT !.start = d + 1, !.len = PARTS]
    OBVIOUS
  <1>14. x \in Wanted /\ x.start = d + 1 /\ x.len = PARTS
    BY <1>1, <1>7, <1>13 DEF Wanted
  <1>15. PICK b : b = [w EXCEPT !.extend = x, !.ext = e]
    OBVIOUS
  <1>16. /\ b \in Service /\ b.extend = x /\ b.ext = e /\ b.fifo = w.fifo
         /\ b.fails = w.fails /\ b.status = w.status /\ b.net = w.net
    BY <1>1, <1>12, <1>14, <1>15 DEF Service
  <1>17. Ahead(b)
    <2>1. b.ext.file = f /\ b.extend.start = d + 1 /\ b.extend.len = PARTS
      BY <1>12, <1>14, <1>16
    <2>2. Len(b.ext.file.data) = 0 /\ 0 < PARTS
      BY <1>10, <2>1, NumbersAre
    <2>3. PICK p \in Nat : p = (MaxTime - 1) * PARTS
      BY RoomIs
    <2>4. b.extend.start <= p + 1 + Len(b.ext.file.data)
      BY <1>7, <2>1, <2>2, <2>3
    <2> QED
      BY <2>1, <2>2, <2>3, <2>4 DEF Ahead
  <1>18. Ready(b)
    BY <1>16, <1>17 DEF Ready, Sized, Connects
  <1>19. Typed(Ask(b, "part", d + 1))
    BY <1>7, <1>18, AskTyped, RequestsAre
  <1>20. b = [w EXCEPT !.extend.start = (seg - hour) * PARTS + 1, !.extend.len = PARTS,
                       !.ext = [flag |-> m.version,
                                file |-> [seg |-> seg, data |-> <<>>, stale |-> stale]]]
    BY <1>1, <1>5, <1>8, <1>11, <1>13, <1>15 DEF Service, Wanted
  <1> QED
    BY <1>3, <1>5, <1>19, <1>20 DEF FirstPart

LEMMA Another ==
    ASSUME NEW s \in Nat, NEW l \in Nat, NEW p \in Nat, NEW q \in Nat, NEW n \in Nat,
           s <= p + 1 + l, l < n, p + n <= q
    PROVE  s + 1 <= p + 1 + (l + 1) /\ s + 1 \in 1 .. q + 1 /\ l + 1 <= n
  OBVIOUS

LEMMA NextPartTyped ==
    ASSUME NEW w, Ready(w), NEW m \in Answer, m.kind = "part", w.ext.flag # 0
    PROVE  Typed(NextPart(w, m))
  <1>1. /\ w \in Service /\ w.extend \in Wanted /\ w.ext \in Fetched /\ w.ext.file \in Orbit
        /\ w.ext.file.data \in Seq(Part)
    BY DEF Ready, Sized, Service, Fetched, Orbit
  <1>2. m.version \in 1 .. MaxTime /\ m.at \in Offsets
    BY AnswerIs
  <1>3. CASE m.version # w.ext.flag
    <2>1. PICK x : x = [w.extend EXCEPT !.start = 1, !.len = 0]
      OBVIOUS
    <2>2. x \in Wanted
      BY <1>1, <2>1, RequestsAre DEF Wanted
    <2>3. PICK b : b = [w EXCEPT !.ext = NoDownload, !.extend = x]
      OBVIOUS
    <2>4. /\ b \in Service /\ b.ext = NoDownload /\ b.fifo = w.fifo
          /\ b.fails = w.fails /\ b.status = w.status /\ b.net = w.net
      BY <1>1, <2>2, <2>3, FilesTyped DEF Service
    <2>5. Ready(b)
      BY <2>4, FilesTyped DEF Ready, Sized, Connects, Ahead
    <2>6. b = [w EXCEPT !.ext = NoDownload, !.extend.start = 1, !.extend.len = 0]
      BY <1>1, <2>1, <2>3 DEF Service, Wanted
    <2>7. Typed(Ask(b, "part", 1))
      BY <2>5, AskTyped, RequestsAre
    <2> QED
      BY <1>3, <2>6, <2>7 DEF NextPart
  <1>4. CASE m.version = w.ext.flag
    <2>1. PICK d : d = Append(w.ext.file.data, <<m.version, m.at>>)
      OBVIOUS
    <2>2. PICK l \in Nat : l = Len(w.ext.file.data)
      BY <1>1
    <2>3. <<m.version, m.at>> \in Part
      BY <1>2 DEF Part
    <2>4. d \in Seq(Part) /\ Len(d) = l + 1
      BY <1>1, <2>1, <2>2, <2>3
    <2>5. PICK s \in Nat : s = w.extend.start
      BY <1>1 DEF Wanted
    <2>6. l < PARTS /\ w.extend.len = PARTS /\ s >= 1 /\ s <= (MaxTime - 1) * PARTS + 1 + l
      BY <1>1, <2>2, <2>5 DEF Ready, Ahead, Wanted
    <2>7. s + 1 <= (MaxTime - 1) * PARTS + 1 + (l + 1) /\ s + 1 \in 1 .. Last * PARTS + 1
          /\ l + 1 <= PARTS
      <3>1. PICK p \in Nat : p = (MaxTime - 1) * PARTS
        BY RoomIs
      <3>2. PICK q \in Nat : q = Last * PARTS
        BY NumbersAre
      <3>3. p + PARTS <= q /\ PARTS \in Nat
        BY <3>1, <3>2, NumbersAre, RoomIs
      <3>4. s <= p + 1 + l
        BY <2>6, <3>1
      <3>5. s + 1 <= p + 1 + (l + 1) /\ s + 1 \in 1 .. q + 1 /\ l + 1 <= PARTS
        <4>1. l < PARTS
          BY <2>6
        <4> QED
          BY <3>3, <3>4, <4>1, Another
      <3> QED
        BY <3>1, <3>2, <3>5
    <2>8. PICK f : f = [w.ext.file EXCEPT !.data = d]
      OBVIOUS
    <2>9. f \in Orbit /\ f.data = d
      BY <1>1, <2>4, <2>7, <2>8 DEF Orbit
    <2>10. PICK e : e = [w.ext EXCEPT !.file = f]
      OBVIOUS
    <2>11. e \in Fetched /\ e.file = f
      BY <1>1, <2>9, <2>10 DEF Fetched
    <2>12. PICK x : x = [w.extend EXCEPT !.start = s + 1]
      OBVIOUS
    <2>13. x \in Wanted /\ x.start = s + 1 /\ x.len = PARTS
      BY <1>1, <2>6, <2>7, <2>12 DEF Wanted
    <2>14. PICK got : got = [w EXCEPT !.ext = e, !.extend = x]
      OBVIOUS
    <2>15. /\ got \in Service /\ got.ext = e /\ got.extend = x /\ got.fifo = w.fifo
           /\ got.fails = w.fails /\ got.status = w.status /\ got.net = w.net
      BY <1>1, <2>11, <2>13, <2>14 DEF Service
    <2>16. Sized(got) /\ Connects(got)
      BY <2>15 DEF Ready, Sized, Connects
    <2>17. got = [w EXCEPT !.ext.file.data = Append(@, <<m.version, m.at>>),
                           !.extend.start = @ + 1]
      BY <1>1, <2>1, <2>5, <2>8, <2>10, <2>12, <2>14 DEF Service, Wanted, Fetched, Orbit
    <2>18. CASE l + 1 < PARTS
      <3>1. Ready(got)
        BY <2>4, <2>7, <2>9, <2>11, <2>13, <2>15, <2>16, <2>18 DEF Ready, Ahead
      <3>2. Typed(Ask(got, "part", got.extend.start))
        BY <2>7, <2>13, <2>15, <3>1, AskTyped, RequestsAre
      <3> QED
        BY <1>4, <2>4, <2>9, <2>11, <2>13, <2>15, <2>17, <2>18, <3>2 DEF NextPart
    <2>19. CASE ~(l + 1 < PARTS)
      <3>1. PICK b : b = [got EXCEPT !.inuse = f, !.disk = f]
        OBVIOUS
      <3>2. b \in Service /\ b.fifo = got.fifo /\ b.fails = got.fails
        BY <2>9, <2>15, <3>1 DEF Service
      <3>3. Sized(b)
        BY <2>16, <3>2 DEF Sized
      <3>4. Typed(Store(got))
        BY <2>11, <2>15, <3>1, <3>3, ReconnectTyped DEF Store
      <3> QED
        BY <1>4, <2>4, <2>9, <2>11, <2>13, <2>15, <2>17, <2>19, <3>4 DEF NextPart
    <2> QED
      BY <2>18, <2>19
  <1> QED
    BY <1>3, <1>4

LEMMA ParsedTyped ==
    ASSUME TypeInv, NEW w, Ready(w), NEW m \in Answer, NEW v \in Parsed(w, m)
    PROVE  Typed(v)
  <1>1. m.kind \in {"time", "part"}
    BY AnswerIs
  <1>2. CASE m.kind = "time"
    BY <1>2, TimingTyped DEF Parsed
  <1>3. CASE m.kind = "part" /\ w.ext.flag = 0
    BY <1>3, FirstTyped DEF Parsed
  <1>4. CASE m.kind = "part" /\ w.ext.flag # 0
    BY <1>4, NextPartTyped DEF Parsed
  <1> QED
    BY <1>1, <1>2, <1>3, <1>4

LEMMA WaitTyped == ASSUME NEW w, Ready(w) PROVE Typed(Wait(w))
  <1>1. CASE w.half = "old"
    <2>1. PICK d : d = Drop(w)
      OBVIOUS
    <2>2. Typed(d) /\ Ended(d) /\ d \in Service
      BY <2>1, DropTyped DEF Ready, Typed, Sized
    <2>3. PICK v : v = [d EXCEPT !.half = "no"]
      OBVIOUS
    <2>4. /\ v \in Service /\ v.fifo = d.fifo /\ v.fails = d.fails /\ v.status = d.status
          /\ v.ext = d.ext /\ v.extend = d.extend /\ v.net = d.net
      BY <2>2, <2>3 DEF Service
    <2>5. Typed(v)
      BY <2>2, <2>4 DEF Typed, Sized, Connects, Ended
    <2> QED
      BY <1>1, <2>1, <2>3, <2>5 DEF Wait
  <1>2. CASE w.half # "old"
    <2>1. PICK v : v = [w EXCEPT !.half = "new"]
      OBVIOUS
    <2>2. /\ v \in Service /\ v.fifo = w.fifo /\ v.fails = w.fails /\ v.status = w.status
          /\ v.ext = w.ext /\ v.extend = w.extend /\ v.net = w.net
      BY <2>1 DEF Ready, Sized, Service
    <2>3. Typed(v)
      BY <2>2 DEF Ready, Typed, Sized, Connects, Ahead
    <2> QED
      BY <1>2, <2>1, <2>3 DEF Wait
  <1> QED
    BY <1>1, <1>2

LEMMA PoppedTyped ==
    ASSUME NEW w, Ready(w), NEW k \in 1 .. Len(w.fifo)
    PROVE  Ready(Popped(w, k))
  <1>1. PICK q : q = SubSeq(w.fifo, k + 1, Len(w.fifo))
    OBVIOUS
  <1>2. PICK v : v = [w EXCEPT !.fifo = q]
    OBVIOUS
  <1>3. w \in Service /\ w.fifo \in Seq(Piece) /\ Len(w.fifo) < FIFO_PIECES
    BY DEF Ready, Sized, Service
  <1>4. v = Popped(w, k)
    BY <1>1, <1>2, <1>3 DEF Popped, Service
  <1>5. q \in Seq(Piece) /\ Len(q) = Len(w.fifo) - k
    BY <1>1, <1>3
  <1>6. Len(q) < FIFO_PIECES
    <2>1. Len(w.fifo) \in Nat /\ FIFO_PIECES \in Nat
      BY <1>3, NumbersAre
    <2> QED
      BY <1>3, <1>5, <2>1
  <1>7. /\ v \in Service /\ v.fifo = q /\ v.fails = w.fails /\ v.status = w.status
        /\ v.ext = w.ext /\ v.extend = w.extend /\ v.net = w.net
    BY <1>2, <1>3, <1>5 DEF Service
  <1> QED
    BY <1>4, <1>6, <1>7 DEF Ready, Sized, Connects, Ahead

LEMMA ReceiveTyped ==
    ASSUME TypeInv, NEW w, Ready(w), NEW v \in Receive(w)
    PROVE  Typed(v)
  <1> DEFINE n == Len(w.fifo)
             aligned == n > 0 /\ ~w.fifo[1].last
             whole == n > 1 /\ w.fifo[2].last /\ w.fifo[2].of = w.fifo[1].of
  <1>1. n \in Nat /\ w.fifo \in Seq(Piece)
    BY DEF Ready, Sized, Service
  <1>2. \/ v = w
        \/ v = Wait(w)
        \/ n > 1 /\ v \in Parsed(Popped(w, 2), w.fifo[1].of)
        \/ \E k \in 1 .. n : v = Popped(w, k)
        \/ v = Drop(w)
    <2>1. CASE n = 0
      BY <2>1 DEF Receive
    <2>2. CASE n # 0 /\ aligned /\ n = 1
      BY <2>2 DEF Receive
    <2>3. CASE n # 0 /\ aligned /\ n # 1 /\ whole
      BY <1>1, <2>3 DEF Receive
    <2>4. CASE n # 0 /\ aligned /\ n # 1 /\ ~whole
      <3>1. v = Popped(w, 2)
        BY <2>4 DEF Receive
      <3>2. n # 0 /\ n # 1
        BY <2>4
      <3>3. 2 \in 1 .. n
        <4>1. n \in Nat
          BY <1>1
        <4> HIDE DEF n
        <4> QED
          BY <3>2, <4>1
      <3> QED
        BY <3>1, <3>3
    <2>5. CASE n # 0 /\ ~aligned
      BY <2>5 DEF Receive
    <2> QED
      BY <2>1, <2>2, <2>3, <2>4, <2>5
  <1>3. Typed(w) /\ Typed(Wait(w)) /\ Typed(Drop(w))
    BY WaitTyped, DropTyped DEF Ready, Typed
  <1>4. \A k \in 1 .. n : Typed(Popped(w, k))
    BY PoppedTyped DEF Ready, Typed
  <1>5. ASSUME n > 1, v \in Parsed(Popped(w, 2), w.fifo[1].of) PROVE Typed(v)
    <2>1. w.fifo[1].of \in Answer
      <3>1. 1 \in 1 .. Len(w.fifo)
        BY <1>1, <1>5
      <3>2. w.fifo[1] \in Piece
        BY <1>1, <3>1
      <3> QED
        BY <3>2 DEF Piece
    <2>2. 2 \in 1 .. n
      BY <1>1, <1>5
    <2>3. Ready(Popped(w, 2))
      BY <2>2, PoppedTyped
    <2> QED
      BY <1>5, <2>1, <2>3, ParsedTyped
  <1> QED
    BY <1>2, <1>3, <1>4, <1>5

\* One lemma for each kind of step.
LEMMA LeavesTyped == ASSUME NEW w, Typed(w), Leave(w), WorldTyped' PROVE TypeInv'
  <1>1. Now' = w
    BY DEF Leave, Now, Typed, Sized, Service
  <1> QED
    BY <1>1 DEF TypeInv

LEMMA NowTyped ==
    ASSUME TypeInv
    PROVE  /\ Typed(Now) /\ Sized(Now) /\ Now \in Service
           /\ status \notin {"DATA_FINISH", "ERROR"} => Ready(Now)
  BY NowFields DEF TypeInv, Typed, Ready, Sized

LEMMA InitProcTyped == ASSUME TypeInv, InitProc, WorldTyped' PROVE TypeInv'
  <1>1. PICK r : r = IF gps = "fixed" THEN ReadFile(Now) ELSE Now
    OBVIOUS
  <1>2. Ready(r) /\ r.status = "INIT"
    BY <1>1, NowTyped, NowFields, ReadTyped DEF InitProc
  <1>3. PICK m : m = Move(r, "CONNECTING")
    OBVIOUS
  <1>4. /\ m \in Service /\ m.fifo = r.fifo /\ m.ext = r.ext /\ m.extend = r.extend
        /\ m.status # "WORK" /\ m.fails < MAX_CONNECT_REPEAT
    BY <1>2, <1>3, MoveTyped, NumbersAre DEF Statuses, Ready, Sized
  <1>5. PICK c : c = Connect(m)
    OBVIOUS
  <1>6. /\ c \in Service /\ c.fifo = m.fifo /\ c.ext = m.ext /\ c.extend = m.extend
        /\ c.status = m.status /\ c.fails = m.fails
    BY <1>4, <1>5 DEF Connect, Service
  <1>7. Typed(c)
    BY <1>2, <1>4, <1>6 DEF Typed, Ready, Sized, Connects, Ahead
  <1>8. Typed(CloseForReconnect(r))
    BY <1>2, ReconnectTyped DEF Ready
  <1>9. Leave(CloseForReconnect(r)) \/ Leave(c)
    BY <1>1, <1>3, <1>5 DEF InitProc
  <1> QED
    BY <1>7, <1>8, <1>9, LeavesTyped

LEMMA ConnectingTyped == ASSUME TypeInv, ConnectingProc, WorldTyped' PROVE TypeInv'
  <1>1. PICK c : c = Close(Now)
    OBVIOUS
  <1>2. Ready(Now) /\ status = "CONNECTING"
    BY NowTyped DEF ConnectingProc
  <1>3. PICK k \in Nat : k = fails /\ k < MAX_CONNECT_REPEAT
    BY NowFields, NumbersAre, NowTyped DEF Sized, Service, Now
  <1>4. /\ c \in Service /\ c.fifo = fifo /\ c.ext = ext /\ c.extend = extend
        /\ c.status = "CONNECTING" /\ c.fails = k
    <2>1. Now.fails = fails
      BY DEF Now
    <2> QED
      BY <1>1, <1>2, <1>3, <2>1, CloseTyped, NowTyped, NowFields
  <1>5. PICK w : w = [c EXCEPT !.fails = k + 1]
    OBVIOUS
  <1>6. k + 1 \in 0 .. MAX_CONNECT_REPEAT
    BY <1>3, NumbersAre
  <1>7. /\ w \in Service /\ w.fifo = fifo /\ w.ext = ext /\ w.extend = extend
        /\ w.status = "CONNECTING" /\ w.fails = k + 1
    BY <1>4, <1>5, <1>6 DEF Service
  <1>8. w = [Close(Now) EXCEPT !.fails = @ + 1]
    BY <1>1, <1>4, <1>5 DEF Service
  <1>9. Len(fifo) < FIFO_PIECES /\ Ahead(Now)
    BY <1>2, NowFields DEF Ready, Sized
  <1>10. CASE fails + 1 >= MAX_CONNECT_REPEAT
    <2>1. PICK m : m = Move(w, "DATA_FINISH")
      OBVIOUS
    <2>2. /\ m \in Service /\ m.fifo = fifo /\ m.fails = 0
          /\ m.status \in {"DATA_FINISH", "ERROR"}
      BY <1>7, <2>1, MoveTyped DEF Statuses
    <2>3. Typed(m)
      BY <1>9, <2>2, NumbersAre DEF Typed, Sized, Connects
    <2>4. Leave(m)
      BY <1>8, <1>10, <2>1 DEF ConnectingProc
    <2> QED
      BY <2>3, <2>4, LeavesTyped
  <1>11. CASE ~(fails + 1 >= MAX_CONNECT_REPEAT)
    <2>1. PICK m : m = Connect(w)
      OBVIOUS
    <2>2. /\ m \in Service /\ m.fifo = fifo /\ m.ext = ext /\ m.extend = extend
          /\ m.status = "CONNECTING" /\ m.fails = k + 1
      BY <1>7, <2>1 DEF Connect, Service
    <2>3. k + 1 < MAX_CONNECT_REPEAT
      BY <1>3, <1>11, NumbersAre
    <2>4. Typed(m)
      BY <1>9, <2>2, <2>3, NowFields DEF Typed, Sized, Connects, Ahead
    <2>5. Leave(m)
      BY <1>8, <1>11, <2>1 DEF ConnectingProc
    <2> QED
      BY <2>4, <2>5, LeavesTyped
  <1> QED
    BY <1>10, <1>11

LEMMA WorkTyped == ASSUME TypeInv, WorkProc, WorldTyped' PROVE TypeInv'
  <1>1. Ready(Now)
    BY NowTyped DEF WorkProc
  <1>2. PICK c : c = CloseForReconnect(Now)
    OBVIOUS
  <1>3. Ready(c)
    BY <1>1, <1>2, ReconnectTyped DEF Ready
  <1>4. PICK v : Leave(v) /\ (v \in Receive(c) \/ v \in Receive(Now))
    BY <1>2 DEF WorkProc
  <1> QED
    BY <1>1, <1>3, <1>4, ReceiveTyped, LeavesTyped

LEMMA FinishProcTyped == ASSUME TypeInv, DataFinishProc, WorldTyped' PROVE TypeInv'
  <1>1. /\ Now \in Service /\ Sized(Now) /\ extend \in Wanted
        /\ status \in {"DATA_FINISH", "ERROR"}
    BY NowTyped, NowFields DEF DataFinishProc, DataFinish, Service
  <1>2. PICK q \in BOOLEAN : q = (extend.required /\ ~(gps \in {"off", "fixed"}))
    BY Zenon
  <1>3. PICK e : e = [extend EXCEPT !.required = q]
    OBVIOUS
  <1>4. PICK w : w = [Now EXCEPT !.extend = e]
    OBVIOUS
  <1>5. w = [Now EXCEPT !.extend.required = @ /\ ~(gps \in {"off", "fixed"})]
    BY <1>1, <1>2, <1>3, <1>4 DEF Now
  <1>6. e \in Wanted
    BY <1>1, <1>2, <1>3 DEF Wanted
  <1>7. w \in Service /\ w.fifo = Now.fifo /\ w.fails = Now.fails /\ w.extend = e
        /\ w.status = status
    BY <1>1, <1>4, <1>6, NowFields DEF Service
  <1>8. Sized(w) /\ Typed(w)
    BY <1>1, <1>7 DEF Sized, Typed, Connects
  <1>9. Typed([w EXCEPT !.extend.timed = TRUE])
    <2>1. PICK x : x = [e EXCEPT !.timed = TRUE]
      OBVIOUS
    <2>2. x \in Wanted
      BY <1>6, <2>1 DEF Wanted
    <2>3. PICK v : v = [w EXCEPT !.extend = x]
      OBVIOUS
    <2>4. v = [w EXCEPT !.extend.timed = TRUE]
      BY <1>7, <2>1, <2>3 DEF Service
    <2>5. v \in Service /\ v.fifo = w.fifo /\ v.fails = w.fails /\ v.status = w.status
      BY <1>7, <2>2, <2>3 DEF Service
    <2>6. Typed(v)
      BY <1>1, <1>7, <1>8, <2>5 DEF Sized, Typed, Connects
    <2> QED
      BY <2>4, <2>6
  <1>10. Typed(Move([w EXCEPT !.ext = NoDownload, !.extend.len = 0, !.extend.start = 1,
                              !.extend.timing = FALSE], "INIT"))
    <2>1. PICK x : x = [e EXCEPT !.len = 0, !.start = 1, !.timing = FALSE]
      OBVIOUS
    <2>2. x \in Wanted
      BY <1>6, <2>1, RequestsAre DEF Wanted
    <2>3. PICK v : v = [w EXCEPT !.ext = NoDownload, !.extend = x]
      OBVIOUS
    <2>4. v = [w EXCEPT !.ext = NoDownload, !.extend.len = 0, !.extend.start = 1,
                        !.extend.timing = FALSE]
      BY <1>7, <2>1, <2>3 DEF Service
    <2>5. /\ v \in Service /\ v.fifo = w.fifo /\ v.fails = w.fails /\ v.status = w.status
          /\ v.ext = NoDownload
      BY <1>7, <2>2, <2>3, FilesTyped DEF Service
    <2>6. PICK m : m = Move(v, "INIT")
      OBVIOUS
    <2>7. /\ m \in Service /\ m.fifo = v.fifo /\ m.ext = v.ext
          /\ m.status # "WORK" /\ m.fails < MAX_CONNECT_REPEAT
      BY <1>1, <1>7, <1>8, <2>5, <2>6, MoveTyped, NumbersAre DEF Statuses, Sized
    <2>8. Typed(m)
      BY <1>8, <2>5, <2>7, FilesTyped DEF Sized, Typed, Connects, Ahead
    <2> QED
      BY <2>4, <2>6, <2>8
  <1>11. \/ Leave(w) \/ Leave([w EXCEPT !.extend.timed = TRUE])
         \/ Leave(Move([w EXCEPT !.ext = NoDownload, !.extend.len = 0, !.extend.start = 1,
                                 !.extend.timing = FALSE], "INIT"))
    BY <1>5, Zenon DEF DataFinishProc, DataFinish
  <1> QED
    BY <1>8, <1>9, <1>10, <1>11, LeavesTyped

LEMMA ConnectedTyped == ASSUME TypeInv, Connected, WorldTyped' PROVE TypeInv'
  <1>1. PICK b : b = [Now EXCEPT !.net = "open"]
    OBVIOUS
  <1>2. /\ b \in Service /\ b.fifo = Now.fifo /\ b.ext = Now.ext /\ b.extend = Now.extend
        /\ b.status = Now.status /\ b.fails = Now.fails /\ b.net = "open"
    BY <1>1, NowTyped DEF Service
  <1>3. Typed(b)
    BY <1>2, NowTyped DEF Typed, Sized, Connects, Ahead
  <1>4. PICK c : c = Move(b, "WORK")
    OBVIOUS
  <1>5. Typed(c)
    <2>1. CASE b.status \in {"DATA_FINISH", "ERROR"}
      <3>1. c = b
        BY <1>4, <2>1 DEF Move
      <3> QED
        BY <1>3, <3>1
    <2>2. CASE b.status \notin {"DATA_FINISH", "ERROR"}
      <3>1. /\ c \in Service /\ c.fifo = b.fifo /\ c.ext = b.ext /\ c.extend = b.extend
            /\ c.net = "open" /\ c.fails < MAX_CONNECT_REPEAT
        BY <1>2, <1>3, <1>4, MoveTyped, NumbersAre DEF Statuses, Typed, Sized
      <3> QED
        BY <1>3, <2>2, <3>1 DEF Typed, Sized, Connects, Ahead
    <2> QED
      BY <2>1, <2>2
  <1>6. Typed(Ask(c, "time", 0))
    BY <1>5, AskedTyped, RequestsAre
  <1>7. Leave(Ask(c, "time", 0))
    BY <1>1, <1>4 DEF Connected
  <1> QED
    BY <1>6, <1>7, LeavesTyped

LEMMA ArriveTyped == ASSUME TypeInv, Arrive, WorldTyped' PROVE TypeInv'
  <1>1. /\ Ready(Now) /\ Now \in Service /\ fifo \in Seq(Piece) /\ stream \in Seq(Piece)
    BY NowTyped, NowFields DEF Arrive, Service
  <1>2. PICK n \in 1 .. Len(stream) :
            Leave(IF Fits(n) THEN [Now EXCEPT !.fifo = @ \o SubSeq(stream, 1, n),
                                              !.stream = SubSeq(@, n + 1, Len(@))]
                  ELSE Drop(Now))
    BY DEF Arrive
  <1>3. CASE ~Fits(n)
    BY <1>1, <1>2, <1>3, DropTyped, LeavesTyped DEF Ready
  <1>4. CASE Fits(n)
    <2>1. PICK a : a = fifo \o SubSeq(stream, 1, n)
      OBVIOUS
    <2>2. PICK b : b = SubSeq(stream, n + 1, Len(stream))
      OBVIOUS
    <2>3. a \in Seq(Piece) /\ b \in Seq(Piece) /\ Len(a) = Len(fifo) + n
      BY <1>1, <2>1, <2>2
    <2>4. PICK w : w = [Now EXCEPT !.fifo = a, !.stream = b]
      OBVIOUS
    <2>5. w = [Now EXCEPT !.fifo = @ \o SubSeq(stream, 1, n),
                          !.stream = SubSeq(@, n + 1, Len(@))]
      BY <2>1, <2>2, <2>4 DEF Now
    <2>6. /\ w \in Service /\ w.fifo = a /\ w.ext = Now.ext /\ w.extend = Now.extend
          /\ w.net = Now.net /\ w.status = Now.status /\ w.fails = Now.fails
      BY <1>1, <2>3, <2>4 DEF Service
    <2>7. Len(a) < FIFO_PIECES
      BY <1>4, <2>3 DEF Fits
    <2>8. Typed(w)
      BY <1>1, <2>6, <2>7 DEF Ready, Typed, Sized, Connects, Ahead
    <2> QED
      BY <1>2, <1>4, <2>5, <2>8, LeavesTyped
  <1> QED
    BY <1>3, <1>4

LEMMA AnsweredIs ==
    ASSUME NEW r \in Request, version \in 1 .. MaxTime, now \in 1 .. MaxTime
    PROVE  Answers(r) \in Seq(Piece)
  <1>1. \A m \in Answer : Both(m) \in Seq(Piece)
    <2>1. SUFFICES ASSUME NEW m \in Answer PROVE Both(m) \in Seq(Piece)
      OBVIOUS
    <2>2. [of |-> m, last |-> FALSE] \in Piece /\ [of |-> m, last |-> TRUE] \in Piece
      BY DEF Piece
    <2> QED
      BY <2>2 DEF Both
  <1>2. [kind |-> "time", version |-> 0, at |-> now] \in Answer
    BY DEF Answer
  <1>3. r.at \in Offsets => [kind |-> "part", version |-> version, at |-> r.at] \in Answer
    BY DEF Answer
  <1>4. <<>> \in Seq(Piece)
    BY NoneIsSeq
  <1> QED
    BY <1>1, <1>2, <1>3, <1>4 DEF Answers

\* The server's steps and the ones of time leave the handlers' state alone.
LEMMA LinkTyped ==
    ASSUME TypeInv, WorldTyped', asked' \in Seq(Request), stream' \in Seq(Piece),
           net' \in {"none", "opening", "open", "gone"},
           net \in {"open", "gone"} => net' \in {"open", "gone"},
           half' \in {"no", "new", "old"}, late' \in BOOLEAN, clock' \in 0 .. MaxTime,
           extend' \in Wanted, extend'.start = extend.start, extend'.len = extend.len,
           UNCHANGED <<status, fails, fifo, ext, inuse, disk>>
    PROVE  TypeInv'
  <1>1. PICK w : w = Now'
    OBVIOUS
  <1>2. /\ status \in Statuses /\ fails \in 0 .. MAX_CONNECT_REPEAT /\ fifo \in Seq(Piece)
        /\ ext \in Fetched /\ inuse \in Orbit /\ disk \in Orbit
    BY NowTyped DEF Now, Service
  <1>3. /\ w.fifo = fifo /\ w.fails = fails /\ w.status = status /\ w.ext = ext
        /\ w.extend = extend' /\ w.net = net'
    BY <1>1 DEF Now
  <1>4. w \in Service
    BY <1>1, <1>2 DEF Now, Service
  <1>5. /\ Len(fifo) < FIFO_PIECES /\ fails < MAX_CONNECT_REPEAT
        /\ status = "WORK" => net \in {"open", "gone"}
        /\ status \notin {"DATA_FINISH", "ERROR"} => Ahead(Now)
    BY NowTyped, NowFields DEF Typed, Sized, Connects, Now
  <1>6. Ahead(Now) => Ahead(w)
    BY <1>3, NowFields DEF Ahead
  <1>7. Typed(w)
    BY <1>3, <1>4, <1>5, <1>6 DEF Typed, Sized, Connects
  <1> QED
    BY <1>1, <1>7 DEF TypeInv

LEMMA LinkIs ==
    ASSUME TypeInv
    PROVE  /\ asked \in Seq(Request) /\ stream \in Seq(Piece) /\ clock \in 0 .. MaxTime
           /\ net \in {"none", "opening", "open", "gone"} /\ half \in {"no", "new", "old"}
           /\ late \in BOOLEAN /\ extend \in Wanted /\ disk \in Orbit
  BY NowTyped DEF Now, Service

LEMMA ServerTyped ==
    ASSUME TypeInv, Answered \/ ServerLeaves \/ ServerLeavesHalfway, WorldTyped'
    PROVE  TypeInv'
  <1>1. /\ UNCHANGED <<status, fails, fifo, half, late, extend, ext, inuse, disk, clock>>
        /\ net = "open" /\ net' \in {"open", "gone"}
    BY DEF Answered, ServerLeaves, ServerLeavesHalfway
  <1>2. asked' \in Seq(Request) /\ stream' \in Seq(Piece)
    <2>1. CASE ServerLeaves
      BY <2>1, LinkIs, NoneIsSeq DEF ServerLeaves
    <2>2. CASE Answered \/ ServerLeavesHalfway
      <3>1. asked # <<>>
        BY <2>2 DEF Answered, ServerLeavesHalfway
      <3>2. Head(asked) \in Request /\ Tail(asked) \in Seq(Request)
        BY <3>1, LinkIs
      <3>3. PICK a \in Seq(Piece) : a = Answers(Head(asked))
        BY <3>2, AnsweredIs DEF TypeInv, WorldTyped
      <3>4. a # <<>> => SubSeq(a, 1, 1) \in Seq(Piece)
        OBVIOUS
      <3>5. stream \in Seq(Piece) /\ <<>> \in Seq(Request)
        BY LinkIs, NoneIsSeq
      <3>6. CASE Answered
        BY <3>2, <3>3, <3>5, <3>6 DEF Answered
      <3>7. CASE ServerLeavesHalfway
        <4>1. a # <<>> /\ asked' = <<>> /\ stream' = stream \o SubSeq(a, 1, 1)
          BY <3>3, <3>7 DEF ServerLeavesHalfway
        <4> QED
          BY <3>4, <3>5, <4>1
      <3> QED
        BY <2>2, <3>6, <3>7
    <2> QED
      BY <2>1, <2>2
  <1> QED
    BY <1>1, <1>2, LinkIs, LinkTyped

LEMMA IdleTyped ==
    ASSUME TypeInv, TenSeconds \/ ThreeSeconds \/ Gps \/ TimePasses \/ NewFile \/ UNCHANGED vars,
           WorldTyped'
    PROVE  TypeInv'
  <1>1. UNCHANGED <<status, fails, fifo, ext, inuse, disk, net, asked, stream>>
    BY DEF TenSeconds, ThreeSeconds, Gps, TimePasses, NewFile, vars
  <1>2. half' \in {"no", "new", "old"} /\ late' \in BOOLEAN
    BY LinkIs DEF TenSeconds, ThreeSeconds, Gps, TimePasses, NewFile, vars
  <1>3. clock' \in 0 .. MaxTime
    <2>1. now \in 0 .. MaxTime
      BY NumbersAre DEF TypeInv, WorldTyped
    <2>2. clock' = clock \/ clock' = now \/ (clock' = clock + 1 /\ clock # MaxTime)
      BY Zenon DEF TenSeconds, ThreeSeconds, Gps, GpsOn, GpsAsks, GpsFixed, GpsOff, TimePasses,
                   NewFile, vars
    <2> QED
      BY <2>1, <2>2, LinkIs, NumbersAre
  <1>4. extend' \in Wanted /\ extend'.start = extend.start /\ extend'.len = extend.len
    <2>1. CASE extend' = extend
      BY <2>1, LinkIs
    <2>2. CASE GpsAsks
      <3>1. PICK u \in BOOLEAN : u = ~Usable(Now)
        BY Zenon
      <3>2. extend' = [extend EXCEPT !.required = u]
        BY <2>2, <3>1 DEF GpsAsks
      <3> QED
        BY <3>2, LinkIs DEF Wanted
    <2> QED
      BY <2>1, <2>2 DEF TenSeconds, ThreeSeconds, Gps, GpsOn, GpsFixed, GpsOff, TimePasses,
                        NewFile, vars
  <1> QED
    BY <1>1, <1>2, <1>3, <1>4, LinkIs, LinkTyped

LEMMA LostTyped == ASSUME TypeInv, Noticed \/ LinkLost, WorldTyped' PROVE TypeInv'
  <1>1. Leave(CloseForReconnect(Now)) \/ Leave(Move(Close(Now), "ERROR"))
    BY DEF Noticed, LinkLost
  <1> QED
    BY <1>1, NowTyped, ReconnectTyped, FinishTyped, LeavesTyped

LEMMA BootTyped == ASSUME TypeInv, PowerCut \/ CutWriting, WorldTyped' PROVE TypeInv'
  <1>1. PICK d \in Orbit : Boot(d)
    BY LinkIs, FilesTyped DEF PowerCut, CutWriting
  <1>2. PICK w : w = Now'
    OBVIOUS
  <1>3. <<>> \in Seq(Piece) /\ <<>> \in Seq(Request) /\ Len(<<>>) = 0
    BY NoneIsSeq
  <1>4. 0 \in 0 .. MAX_CONNECT_REPEAT /\ 0 \in 0 .. MaxTime
    BY NumbersAre
  <1>5. w = [status |-> "INIT", fails |-> 0, fifo |-> <<>>, half |-> "no", late |-> FALSE,
             extend |-> Start, ext |-> NoDownload, inuse |-> NoFile, disk |-> d, clock |-> 0,
             net |-> "none", asked |-> <<>>, stream |-> <<>>]
    BY <1>1, <1>2 DEF Boot, Now
  <1>6. w \in Service /\ w.fifo = <<>> /\ w.fails = 0 /\ w.status = "INIT" /\ w.ext = NoDownload
    BY <1>3, <1>4, <1>5, FilesTyped DEF Service, Statuses
  <1>7. Typed(w)
    BY <1>3, <1>6, FilesTyped, NumbersAre DEF Typed, Sized, Connects, Ahead
  <1> QED
    BY <1>2, <1>7 DEF TypeInv

LEMMA WorldStays == ASSUME TypeInv, Inv, [Next]_vars PROVE WorldTyped'
  <1>1. now' \in 1 .. MaxTime /\ version' \in 1 .. MaxTime /\ stale' \in BOOLEAN
    BY WorldStep DEF World
  <1>2. gps' \in {"off", "search", "fixed"}
    BY DEF TypeInv, WorldTyped, Next, TimerProc, Server, Answered, Connected, Arrive, Noticed,
           Trouble, ServerLeaves, ServerLeavesHalfway, LinkLost, PowerCut, CutWriting, Boot,
           TenSeconds, ThreeSeconds, Gps, GpsOn, GpsAsks, GpsFixed, GpsOff, TimePasses, NewFile,
           vars
  <1>3. faults' \in 0 .. MaxFaults
    <2>1. faults' = faults \/ Fault
      BY DEF Next, TimerProc, Server, Answered, Connected, Arrive, Noticed, Trouble,
             ServerLeaves, ServerLeavesHalfway, LinkLost, PowerCut, CutWriting, Boot,
             TenSeconds, ThreeSeconds, Slow, Gps, TimePasses, NewFile, vars
    <2> QED
      BY <2>1, NumbersAre DEF Fault, TypeInv, WorldTyped
  <1> QED
    BY <1>1, <1>2, <1>3 DEF WorldTyped

LEMMA InitTyped == Init => TypeInv
  <1> SUFFICES ASSUME Init PROVE TypeInv
    OBVIOUS
  <1>1. <<>> \in Seq(Piece) /\ <<>> \in Seq(Request) /\ Len(<<>>) = 0
    BY NoneIsSeq
  <1>2. 0 \in 0 .. MAX_CONNECT_REPEAT /\ 0 \in 0 .. MaxTime /\ 1 \in 1 .. MaxTime
        /\ 0 \in 0 .. MaxFaults
    BY NumbersAre
  <1>3. Now = [status |-> "INIT", fails |-> 0, fifo |-> <<>>, half |-> "no", late |-> FALSE,
               extend |-> Start, ext |-> NoDownload, inuse |-> NoFile, disk |-> NoFile,
               clock |-> 0, net |-> "none", asked |-> <<>>, stream |-> <<>>]
    BY DEF Init, Now
  <1>4. /\ Now \in Service /\ Now.fifo = <<>> /\ Now.fails = 0 /\ Now.status = "INIT"
        /\ Now.ext = NoDownload
    BY <1>1, <1>2, <1>3, FilesTyped DEF Service, Statuses
  <1>5. Typed(Now)
    BY <1>1, <1>4, FilesTyped, NumbersAre DEF Typed, Sized, Connects, Ahead
  <1>6. WorldTyped
    BY <1>2 DEF Init, WorldTyped
  <1> QED
    BY <1>5, <1>6 DEF TypeInv

LEMMA NextTyped == TypeInv /\ Inv /\ [Next]_vars => TypeInv'
  <1> SUFFICES ASSUME TypeInv, Inv, [Next]_vars PROVE TypeInv'
    OBVIOUS
  <1>1. WorldTyped'
    BY WorldStays
  <1> QED
    BY <1>1, InitProcTyped, ConnectingTyped, WorkTyped, FinishProcTyped, ConnectedTyped,
       ArriveTyped, ServerTyped, LostTyped, BootTyped, IdleTyped
       DEF Next, TimerProc, Server, Trouble

LEMMA FilesAre == ASSUME NEW f \in Orbit PROVE IsFile(f)
  <1>1. /\ f.seg \in 0 .. Last /\ f.stale \in BOOLEAN /\ Len(f.data) <= PARTS
        /\ f.data \in Seq(Part)
    BY DEF Orbit
  <1>2. \A i \in DOMAIN f.data : f.data[i] \in (1 .. MaxTime) \X Offsets
    BY <1>1 DEF Part
  <1> QED
    BY <1>1, <1>2 DEF IsFile

(* The variables of the orbit service keep their types, whatever pieces a    *)
(* buffer begins with: an attempt is given up at its limit, the receive      *)
(* buffer never fills up, and a part is asked for within the range the       *)
(* offset can take (agps_service.c:548-600, 1095-1164, fifo.c).              *)
THEOREM TypeCorrect == Spec => []TypeOK
  <1>1. TypeInv => TypeOK
    <2> SUFFICES ASSUME TypeInv PROVE TypeOK
      OBVIOUS
    <2>1. /\ status \in Statuses /\ fails \in 0 .. MAX_CONNECT_REPEAT /\ fifo \in Seq(Piece)
          /\ ext \in Fetched /\ inuse \in Orbit /\ disk \in Orbit
      BY NowTyped DEF Now, Service
    <2>2. Len(fifo) < FIFO_PIECES /\ (status = "WORK" => net \in {"open", "gone"})
      BY NowTyped, NowFields DEF Typed, Sized, Connects
    <2>3. \A i \in DOMAIN fifo : fifo[i] \in Piece
      BY <2>1
    <2>4. \A i \in DOMAIN asked : asked[i] \in Request
      BY LinkIs
    <2>5. \A i \in DOMAIN stream : stream[i] \in Piece
      BY LinkIs
    <2>6. ext.flag \in 0 .. MaxTime /\ IsFile(ext.file) /\ IsFile(inuse) /\ IsFile(disk)
      BY <2>1, FilesAre DEF Fetched
    <2>7. /\ extend.timing \in BOOLEAN /\ extend.timed \in BOOLEAN
          /\ extend.required \in BOOLEAN /\ extend.start \in 1 .. Last * PARTS + 1
          /\ extend.len \in {0, PARTS}
      BY LinkIs DEF Wanted
    <2>8. WorldTyped
      BY DEF TypeInv
    <2> QED
      BY <2>1, <2>2, <2>3, <2>4, <2>5, <2>6, <2>7, <2>8, LinkIs
         DEF TypeOK, Statuses, WorldTyped
  <1> QED
    BY <1>1, InitInv, NextInv, InitTyped, NextTyped, PTL DEF Spec
==============================================================================
