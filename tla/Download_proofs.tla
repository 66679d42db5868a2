--------------------------- MODULE Download_proofs ---------------------------
(* Proofs about the two images, for any files of any length, any number of   *)
(* faults and of other offers: Download implements Images, one cut of an     *)
(* installation leaves an image to boot, what the state file counts is in    *)
(* the file it resumes, and the variables keep their types.                  *)
EXTENDS Download, FiniteSetTheorems, TLAPS

------------------------------------------------------------------------------
(* What the images depend on: the file being fetched is one of the server's, *)
(* and "UPDATED" outlives an installation, but never with a file to install. *)
Wire == [ch : Channels, kind : {"READY", "NONE", "DATA"}, file : Files, block : Int]

IsExt(e) == e = [check |-> e.check, total |-> e.total, current |-> e.current, got |-> e.got,
                 open |-> e.open, new |-> e.new, result |-> e.result]

\* The fields of a handler's state that matter.
Record(w) == w = [getting |-> w.getting, ext |-> w.ext, fails |-> w.fails, fsock |-> w.fsock,
                  listed |-> w.listed, net |-> w.net, fifo |-> w.fifo, upgrade |-> w.upgrade,
                  flash |-> w.flash, saved |-> w.saved]

Sane(w) ==
    /\ Record(w) /\ IsExt(w.ext)
    /\ w.net \subseteq Wire /\ w.fifo \in [Channels -> Seq(Wire)]
    /\ w.ext.check \in Files \union {None}
    /\ w.getting => w.ext.check \in Files
    /\ w.ext.open => w.ext.check \in Files /\ w.ext.result # "UPDATED"

Spent(w) == w.ext.result = "UPDATED" => w.upgrade = None /\ rebooting

RamInv == Sane(Now) /\ Spent(Now) /\ offer \in Files

Bootables ==
    /\ {main, minor} \subseteq Files \union {Factory, None} /\ cuts \in 0 .. 2
    /\ cuts = 0 => main # None
    /\ cuts <= 1 => Bootable

Inv == RamInv /\ Bootables

Moves == Img!Next \/ UNCHANGED <<main, minor>>

LEMMA FailedSane == ASSUME NEW w, Sane(w)
                    PROVE  /\ Sane(Failed(w)) /\ Failed(w).ext.result = "FAILED"
                           /\ Failed(w).upgrade = w.upgrade
  BY DEF Sane, Failed, Record, IsExt

LEMMA LeaveSane == ASSUME NEW w, Sane(w), Leave(w)
                   PROVE  Sane(Now)' /\ ext' = w.ext /\ upgrade' = w.upgrade
  BY DEF Sane, Leave, Now, Record, IsExt

\* The first n calls of an installation, that is done whole and once, or counted.
LEMMA Installs ==
    ASSUME Bootables, NEW u, NEW n \in 1 .. 3, Install(u, n),
           u = None \/ Image(u) \in Files,
           Cut \/ (cuts' = cuts /\ n = 3 /\ u # None)
    PROVE  Bootables' /\ Moves
  <1>1. /\ cuts \in 0 .. 2 /\ cuts' \in 0 .. 2 /\ cuts <= cuts'
        /\ ~(n = 3 /\ u # None) => cuts' >= 1 /\ (cuts >= 1 => cuts' = 2)
    BY DEF Cut, Bootables
  <1>2. /\ minor' = IF n >= 2 /\ main # None THEN main ELSE None
        /\ main' = IF n = 3 /\ u # None THEN Image(u)
                   ELSE IF n >= 2 /\ main # None THEN None ELSE main
    BY DEF Install
  <1>3. CASE n = 3 /\ u # None
    <2>1. Image(u) \in Files /\ main' = Image(u) /\ main' # None
      BY <1>2, <1>3, FilesAssumption
    <2>2. Bootables'
      BY <1>1, <1>2, <1>3, <2>1 DEF Bootables, Bootable
    <2>3. CASE main = None
      <3>1. Img!Promote(Image(u))
        BY <1>2, <1>3, <2>1, <2>3 DEF Img!Promote
      <3> QED
        BY <2>1, <2>2, <3>1 DEF Moves, Img!Next
    <2>4. CASE main # None
      <3>1. Img!Replace(Image(u))
        BY <1>2, <1>3, <2>1, <2>4 DEF Img!Replace
      <3> QED
        BY <2>1, <2>2, <3>1 DEF Moves, Img!Next
    <2> QED
      BY <2>2, <2>3, <2>4
  <1>4. CASE ~(n = 3 /\ u # None) /\ n >= 2 /\ main # None
    <2>1. minor' = main /\ main' = None
      BY <1>2, <1>4
    <2> QED
      BY <1>1, <1>4, <2>1 DEF Bootables, Bootable, Moves, Img!Next, Img!Demote
  <1>5. CASE ~(n = 3 /\ u # None) /\ ~(n >= 2 /\ main # None)
    <2>1. minor' = None /\ main' = main
      BY <1>2, <1>5
    <2>3. cuts' <= 1 => main # None
      BY <1>1, <1>5 DEF Bootables
    <2> QED
      BY <1>1, <1>5, <2>1, <2>3 DEF Bootables, Bootable, Moves, Img!Next, Img!Drop
  <1> QED
    BY <1>3, <1>4, <1>5

LEMMA Stayed ==
    ASSUME Inv, NEW w, Sane(w), Spent(w), Stay(w), offer' = offer
    PROVE  Inv' /\ Moves
  <1>1. Leave(w) /\ UNCHANGED <<rebooting, main, minor, cuts>>
    BY DEF Stay
  <1>2. Sane(Now)' /\ ext' = w.ext /\ upgrade' = w.upgrade
    BY <1>1, LeaveSane
  <1>3. Spent(Now)'
    BY <1>1, <1>2 DEF Spent, Now
  <1>4. Bootables'
    BY <1>1 DEF Inv, Bootables, Bootable
  <1> QED
    BY <1>1, <1>2, <1>3, <1>4 DEF Inv, RamInv, Moves

LEMMA WholeIsThere == ASSUME NEW u, Image(u) \in Files PROVE u # None
  <1>1. PICK f \in Files : u = [b \in 0 .. Blocks[f] - 1 |-> f]
    BY ImageAssumption DEF Image
  <1>2. Blocks[f] \in 1 .. Blocks[f]
    BY FilesAssumption
  <1>3. u \in [0 .. Blocks[f] - 1 -> Files \union {None}]
    BY <1>1
  <1> QED
    BY <1>2, <1>3, ImageAssumption

\* A session that ends may install what it has fetched.
Ends(w) == w.ext.result = "UPDATED" => (w.upgrade = None /\ rebooting) \/ Image(w.upgrade) \in Files

LEMMA Concluded ==
    ASSUME Inv, NEW w, Sane(w), Ends(w), Conclude(w), offer' = offer
    PROVE  Inv' /\ Moves
  <1> DEFINE done == w.ext.result = "UPDATED"
             shut == IF w.ext.new THEN [w EXCEPT !.fsock = "none", !.fifo.file = <<>>,
                                                 !.fails.file = 0, !.net = {}]
                     ELSE [w EXCEPT !.net = Via("file")]
             last == [shut EXCEPT !.fails.upd = 0, !.upgrade = IF done THEN None ELSE @,
                                  !.flash = IF done THEN None ELSE @]
  <1>1. /\ Leave(last) /\ rebooting' = (rebooting \/ done)
        /\ IF done THEN Install(w.upgrade, 3) ELSE UNCHANGED <<main, minor>>
        /\ IF done /\ rebooting THEN Cut ELSE cuts' = cuts
    BY DEF Conclude
  <1>2. Via("file") \subseteq Wire
    BY DEF Inv, RamInv, Sane, Now, Via
  <1>3. Sane(shut) /\ shut.ext = w.ext /\ shut.upgrade = w.upgrade
    <2>1. CASE w.ext.new
      <3>1. [w.fifo EXCEPT !["file"] = <<>>] \in [Channels -> Seq(Wire)]
        BY DEF Sane, Channels
      <3> QED
        BY <2>1, <3>1 DEF Sane, Record, IsExt
    <2>2. CASE ~w.ext.new
      BY <2>2, <1>2 DEF Sane, Record, IsExt
    <2> QED
      BY <2>1, <2>2
  <1> HIDE DEF shut
  <1>4. Sane(last) /\ last.ext = w.ext /\ last.upgrade = IF done THEN None ELSE w.upgrade
    <2>1. Record(shut)
      BY <1>3 DEF Sane
    <2>2. last = [shut EXCEPT !.fails.upd = 0, !.upgrade = IF done THEN None ELSE shut.upgrade,
                              !.flash = IF done THEN None ELSE shut.flash]
      BY Zenon
    <2> HIDE DEF last, done
    <2>3. /\ Record(last) /\ last.ext = shut.ext /\ last.net = shut.net
          /\ last.fifo = shut.fifo /\ last.getting = shut.getting
          /\ last.upgrade = IF done THEN None ELSE shut.upgrade
      <3> DEFINE u == IF done THEN None ELSE shut.upgrade
                 f == IF done THEN None ELSE shut.flash
      <3>1. last = [shut EXCEPT !.fails.upd = 0, !.upgrade = u, !.flash = f]
        BY <2>2
      <3> HIDE DEF u, f
      <3>2. /\ Record(last) /\ last.ext = shut.ext /\ last.net = shut.net
            /\ last.fifo = shut.fifo /\ last.getting = shut.getting /\ last.upgrade = u
        BY <2>1, <3>1 DEF Record
      <3> QED
        BY <3>2 DEF u
    <2> QED
      BY <1>3, <2>3 DEF Sane
  <1> HIDE DEF last
  <1>5. Sane(Now)' /\ ext' = w.ext /\ upgrade' = IF done THEN None ELSE w.upgrade
    BY <1>1, <1>4, LeaveSane
  <1>6. Spent(Now)'
    BY <1>1, <1>5 DEF Spent, Now
  <1>7. Bootables' /\ Moves
    <2>1. CASE ~done
      BY <1>1, <2>1 DEF Inv, Bootables, Bootable, Moves
    <2>2. CASE done
      <3>1. w.upgrade = None \/ Image(w.upgrade) \in Files
        BY <2>2 DEF Ends
      <3>2. Cut \/ (cuts' = cuts /\ w.upgrade # None)
        BY <1>1, <2>2, WholeIsThere DEF Ends
      <3> QED
        BY <1>1, <2>2, <3>1, <3>2, Installs DEF Inv
    <2> QED
      BY <2>1, <2>2
  <1> QED
    BY <1>5, <1>6, <1>7 DEF Inv, RamInv

LEMMA Finished ==
    ASSUME Inv, NEW w, Sane(w), Spent(w), Finish(w), offer' = offer
    PROVE  Inv' /\ Moves
  <1>1. Via("file") \subseteq Wire
    BY DEF Inv, RamInv, Sane, Now, Via
  <1> DEFINE via == Via("file")
             last == [w EXCEPT !.net = via, !.fails.upd = 0]
  <1>2. Sane(last) /\ last.ext = w.ext /\ last.upgrade = w.upgrade
    <2> HIDE DEF via
    <2>1. Record(w)
      BY DEF Sane
    <2>2. PICK l : l = last
      OBVIOUS
    <2>3. Record(l) /\ l.ext = w.ext /\ l.net = via /\ l.fifo = w.fifo
          /\ l.getting = w.getting /\ l.upgrade = w.upgrade
      BY <2>1, <2>2 DEF Record
    <2> HIDE DEF last
    <2>4. via \subseteq Wire
      BY <1>1 DEF via
    <2> QED
      BY <2>2, <2>3, <2>4 DEF Sane
  <1>3. Leave(last) /\ UNCHANGED <<rebooting, main, minor, cuts>>
    BY DEF Finish
  <1> HIDE DEF last
  <1>4. Sane(Now)' /\ ext' = w.ext /\ upgrade' = w.upgrade
    BY <1>2, <1>3, LeaveSane
  <1>5. Spent(Now)'
    BY <1>3, <1>4 DEF Spent, Now
  <1>6. Bootables'
    BY <1>3 DEF Inv, Bootables, Bootable
  <1> QED
    BY <1>3, <1>4, <1>5, <1>6 DEF Inv, RamInv, Moves

LEMMA Sent ==
    ASSUME Inv, NEW w, Sane(w), Spent(w), w.ext.check \in Files, NEW ch \in Channels,
           Send(w, ch), offer' = offer
    PROVE  Inv' /\ Moves
  <1> DEFINE all == w.net \union Answers(w.ext, ch)
             sent == [w EXCEPT !.net = all]
  <1>1. Answers(w.ext, ch) \subseteq Wire
    BY DEF Answers, Wire, Wanted, Window
  <1>2. Sane(sent) /\ sent.ext = w.ext /\ sent.upgrade = w.upgrade
    <2>1. all \subseteq Wire
      BY <1>1 DEF Sane
    <2> HIDE DEF all
    <2>2. Record(sent) /\ sent.ext = w.ext /\ sent.net = all /\ sent.fifo = w.fifo
          /\ sent.getting = w.getting /\ sent.upgrade = w.upgrade
      BY DEF Sane, Record
    <2> QED
      BY <2>1, <2>2 DEF Sane
  <1>3. Spent(sent)
    BY <1>2 DEF Spent
  <1>4. CASE Stay(sent)
    <2> HIDE DEF sent
    <2> QED
      BY <1>2, <1>3, <1>4, Stayed
  <1>5. CASE Conclude(Failed(w))
    BY <1>5, FailedSane, Concluded DEF Ends
  <1> QED
    BY <1>4, <1>5 DEF Send

LEMMA Restarted ==
    ASSUME RamInv, Restart, offer' = offer
    PROVE  RamInv'
  <1>1. net' = {} /\ fifo' = Empty /\ getting' = FALSE /\ ext' = NoFile
    BY DEF Restart
  <1>2. Empty \in [Channels -> Seq(Wire)]
    BY DEF Empty
  <1>3. IsExt(NoFile) /\ NoFile.check = None /\ NoFile.open = FALSE /\ NoFile.result = "FINISH"
    BY DEF NoFile, IsExt
  <1>4. Sane(Now)'
    BY <1>1, <1>2, <1>3 DEF Sane, Now, Record
  <1>5. Spent(Now)'
    BY <1>1, <1>3 DEF Spent, Now
  <1> QED
    BY <1>4, <1>5 DEF RamInv

LEMMA PoppedSane == ASSUME RamInv, NEW ch \in Channels, fifo[ch] # <<>>
                    PROVE  /\ Sane(Popped(ch)) /\ Popped(ch).ext = ext
                           /\ Popped(ch).upgrade = upgrade /\ Popped(ch).getting = getting
                           /\ Head(fifo[ch]) \in Wire
  <1>1. fifo \in [Channels -> Seq(Wire)]
    BY DEF RamInv, Sane, Now
  <1>2. Tail(fifo[ch]) \in Seq(Wire) /\ Head(fifo[ch]) \in Wire
    BY <1>1
  <1> DEFINE f == [fifo EXCEPT ![ch] = Tail(@)]
             p == [Now EXCEPT !.fifo = f]
  <1>3. f \in [Channels -> Seq(Wire)]
    BY <1>1, <1>2
  <1>4. Popped(ch) = p
    BY DEF Popped, Now
  <1> HIDE DEF f
  <1>5. Record(p) /\ p.ext = ext /\ p.net = net /\ p.fifo = f /\ p.getting = getting
        /\ p.upgrade = upgrade
    BY DEF Record, Now
  <1>6. Sane(p)
    BY <1>3, <1>5 DEF RamInv, Sane, Now
  <1> QED
    BY <1>2, <1>4, <1>5, <1>6

LEMMA GotSane == ASSUME RamInv, NEW ch \in Channels, Takes(ch)
                 PROVE  /\ Sane(Got(ch)) /\ Got(ch).ext.check = ext.check
                        /\ ext.check \in Files /\ Got(ch).ext.result # "UPDATED"
  <1>1. fifo[ch] # <<>> /\ ext.open
    BY DEF Takes, Reads
  <1>2. Sane(Popped(ch)) /\ Popped(ch).ext = ext
    BY <1>1, PoppedSane
  <1>3. ext.check \in Files /\ ext.result # "UPDATED"
    BY <1>1 DEF RamInv, Sane, Now
  <1> DEFINE m == Head(fifo[ch])
             p == Popped(ch)
             u == Written(m.block, m.file)
             e == [ext EXCEPT !.got = @ \union {m.block}]
             g == [p EXCEPT !.ext = e, !.upgrade = u]
  <1>4. Got(ch) = g
    BY <1>2 DEF Got, Sane, Record
  <1>5. IsExt(e) /\ e.check = ext.check /\ e.result = ext.result
    <2>1. IsExt(ext)
      BY DEF RamInv, Sane, Now
    <2> DEFINE s == ext.got \union {m.block}
    <2> HIDE DEF s
    <2> QED
      BY <2>1 DEF IsExt
  <1>6. Sane(g) /\ g.ext.check = ext.check /\ g.ext.result = ext.result
    <2> HIDE DEF p, u, e
    <2>1. Sane(p) /\ Record(p)
      BY <1>2 DEF p, Sane
    <2>2. PICK l : l = g
      OBVIOUS
    <2>3. Record(l) /\ l.ext = e /\ l.net = p.net /\ l.fifo = p.fifo /\ l.getting = p.getting
      BY <2>1, <2>2 DEF Record
    <2> HIDE DEF g
    <2> QED
      BY <2>1, <2>2, <2>3, <1>3, <1>5 DEF Sane
  <1> QED
    BY <1>3, <1>4, <1>6

\* A download that starts, or goes on, has nothing to install yet.
LEMMA Started ==
    ASSUME Inv, NEW w, Sane(w), w.ext.check \in Files, NEW ch \in Channels,
           Start(w, ch), offer' = offer
    PROVE  Inv' /\ Moves
  <1> DEFINE n == Blocks[w.ext.check]
             e == [w.ext EXCEPT !.total = n, !.got = {}, !.current = 0, !.result = "FAILED"]
  <1>1. IsExt(e) /\ e.check = w.ext.check /\ e.result = "FAILED"
    <2>1. IsExt(w.ext)
      BY DEF Sane
    <2> HIDE DEF n
    <2>2. PICK l : l = e
      OBVIOUS
    <2>3. IsExt(l) /\ l.check = w.ext.check /\ l.result = "FAILED"
      BY <2>1, <2>2 DEF IsExt
    <2> QED
      BY <2>2, <2>3
  <1>2. Record(w) /\ w.ext.check \in Files
    BY DEF Sane
  <1>3. ASSUME NEW l, Record(l), IsExt(l.ext), l.ext.check = w.ext.check,
               l.ext.result = "FAILED", l.net = w.net, l.fifo = w.fifo
        PROVE  Sane(l) /\ Spent(l) /\ l.ext.check \in Files
    BY <1>2, <1>3 DEF Sane, Spent
  <1>4. ASSUME Send([w EXCEPT !.ext = Resumed(e), !.flash = upgrade], ch)
        PROVE  Inv' /\ Moves
    <2>1. IsExt(Resumed(e)) /\ Resumed(e).check = w.ext.check /\ Resumed(e).result = "FAILED"
      <3> HIDE DEF e
      <3> DEFINE c == saved.current
      <3>1. Resumed(e) = [e EXCEPT !.current = c, !.open = TRUE]
        BY DEF Resumed
      <3> HIDE DEF c
      <3> QED
        BY <1>1, <3>1 DEF IsExt
    <2>2. PICK r : r = Resumed(e)
      OBVIOUS
    <2>3. PICK l : l = [w EXCEPT !.ext = r, !.flash = upgrade]
      OBVIOUS
    <2>4. Record(l) /\ l.ext = r /\ l.net = w.net /\ l.fifo = w.fifo
      BY <1>2, <2>3 DEF Record
    <2>5. Sane(l) /\ Spent(l) /\ l.ext.check \in Files
      BY <1>3, <2>1, <2>2, <2>4
    <2> QED
      BY <1>4, <2>2, <2>3, <2>5, Sent
  <1>5. ASSUME NEW l, Record(l), IsExt(l.ext), l.ext.check = w.ext.check,
               l.ext.result = "FAILED", l.net = w.net, l.fifo = w.fifo, Send(Fresh(l, n), ch)
        PROVE  Inv' /\ Moves
    <2> DEFINE b == Blank(n)
    <2> HIDE DEF n
    <2>1. PICK f : f = [l EXCEPT !.upgrade = b, !.flash = b, !.ext.open = TRUE]
      OBVIOUS
    <2>2. f = Fresh(l, n)
      BY <2>1 DEF Fresh
    <2> HIDE DEF b
    <2>3. Record(f) /\ f.ext = [l.ext EXCEPT !.open = TRUE] /\ f.net = l.net /\ f.fifo = l.fifo
      BY <1>5, <2>1 DEF Record
    <2>4. PICK x : x = [l.ext EXCEPT !.open = TRUE]
      OBVIOUS
    <2>5. IsExt(x) /\ x.check = w.ext.check /\ x.result = "FAILED"
      BY <1>5, <2>4 DEF IsExt
    <2>6. Sane(f) /\ Spent(f) /\ f.ext.check \in Files
      BY <1>3, <1>5, <2>3, <2>4, <2>5
    <2> QED
      BY <1>5, <2>2, <2>6, Sent
  <1>6. ASSUME Send(Fresh([w EXCEPT !.ext = e, !.saved = NoState], n), ch)
        PROVE  Inv' /\ Moves
    <2>1. PICK x : x = e
      OBVIOUS
    <2>2. PICK l : l = [w EXCEPT !.ext = x, !.saved = NoState]
      OBVIOUS
    <2>3. Record(l) /\ l.ext = x /\ l.net = w.net /\ l.fifo = w.fifo
      BY <1>2, <2>2 DEF Record
    <2> HIDE DEF n, e
    <2>4. Send(Fresh(l, n), ch)
      BY <1>6, <2>1, <2>2
    <2> QED
      BY <1>1, <1>5, <2>1, <2>3, <2>4
  <1>7. ASSUME Send(Fresh([w EXCEPT !.ext = e], n), ch)
        PROVE  Inv' /\ Moves
    <2>1. PICK x : x = e
      OBVIOUS
    <2>2. PICK l : l = [w EXCEPT !.ext = x]
      OBVIOUS
    <2>3. Record(l) /\ l.ext = x /\ l.net = w.net /\ l.fifo = w.fifo
      BY <1>2, <2>2 DEF Record
    <2> HIDE DEF n, e
    <2>4. Send(Fresh(l, n), ch)
      BY <1>7, <2>1, <2>2
    <2> QED
      BY <1>1, <1>5, <2>1, <2>3, <2>4
  <1>8. ASSUME NEW st, Conclude([w EXCEPT !.ext = [e EXCEPT !.open = FALSE], !.upgrade = None,
                                          !.flash = None, !.saved = st])
        PROVE  Inv' /\ Moves
    <2> HIDE DEF e
    <2>1. PICK x : x = [e EXCEPT !.open = FALSE]
      OBVIOUS
    <2>2. IsExt(x) /\ x.check = w.ext.check /\ x.result = "FAILED"
      BY <1>1, <2>1 DEF IsExt
    <2>3. PICK l : l = [w EXCEPT !.ext = x, !.upgrade = None, !.flash = None, !.saved = st]
      OBVIOUS
    <2>4. Record(l) /\ l.ext = x /\ l.net = w.net /\ l.fifo = w.fifo
      BY <1>2, <2>3 DEF Record
    <2>5. Sane(l) /\ Ends(l)
      BY <1>3, <2>2, <2>4 DEF Ends
    <2> QED
      BY <1>8, <2>1, <2>3, <2>5, Concluded
  <1> QED
    <2> DEFINE there == upgrade # None /\ Cardinality(DOMAIN upgrade) = n
    <2>1. \/ Send([w EXCEPT !.ext = Resumed(e), !.flash = upgrade], ch)
          \/ Send(Fresh([w EXCEPT !.ext = e, !.saved = NoState], n), ch)
          \/ Send(Fresh([w EXCEPT !.ext = e], n), ch)
          \/ Conclude([w EXCEPT !.ext = [e EXCEPT !.open = FALSE], !.upgrade = None,
                                !.flash = None, !.saved = IF Same(e) THEN NoState ELSE saved])
      BY Zenon DEF Start
    <2> HIDE DEF n, e
    <2> QED
      BY <2>1, <1>4, <1>6, <1>7, <1>8

LEMMA StartMakes ==
    ASSUME NEW w, Sane(w), NEW ch, Start(w, ch)
    PROVE  made' \in {made, w.ext.check}
  <1>1. PICK n : n = Blocks[w.ext.check]
    OBVIOUS
  <1>2. PICK e : e = [w.ext EXCEPT !.total = n, !.got = {}, !.current = 0, !.result = "FAILED"]
    OBVIOUS
  <1>3. e.check = w.ext.check
    BY <1>2 DEF Sane, IsExt
  <1>4. made' \in {made, e.check}
    BY <1>1, <1>2, Zenon DEF Start
  <1> QED
    BY <1>3, <1>4

------------------------------------------------------------------------------
(* One lemma for each kind of step.                                          *)
LEMMA NowSane == ASSUME Inv
                 PROVE  /\ Sane(Now) /\ Spent(Now) /\ Ends(Now) /\ Record(Now) /\ offer \in Files
                        /\ Now.ext = ext /\ Now.upgrade = upgrade /\ Now.net = net
                        /\ Now.fifo = fifo /\ Now.getting = getting
  BY DEF Inv, RamInv, Sane, Spent, Ends, Now

\* A handler that leaves the file alone.
LEMMA SameFile ==
    ASSUME Inv, NEW l, Record(l), l.ext = ext, l.upgrade = upgrade, l.getting = getting,
           l.net \subseteq Wire, l.fifo \in [Channels -> Seq(Wire)]
    PROVE  Sane(l) /\ Spent(l) /\ Ends(l)
  BY NowSane DEF Sane, Spent, Ends

LEMMA UnansweredSane ==
    ASSUME Inv, NEW ch \in Channels
    PROVE  /\ Sane(Unanswered(ch)) /\ Spent(Unanswered(ch)) /\ Record(Unanswered(ch))
           /\ Unanswered(ch).ext = ext /\ Unanswered(ch).upgrade = upgrade
           /\ Unanswered(ch).getting = getting /\ Unanswered(ch).net = net
           /\ Unanswered(ch).fifo = fifo
  <1>1. PICK f : f = [fails EXCEPT ![ch] = @ + 1]
    OBVIOUS
  <1>2. PICK l : l = [Now EXCEPT !.fails = f]
    OBVIOUS
  <1>3. Unanswered(ch) = l
    BY <1>1, <1>2 DEF Unanswered, Now
  <1>4. Record(l) /\ l.ext = ext /\ l.upgrade = upgrade /\ l.getting = getting /\ l.net = net
        /\ l.fifo = fifo
    BY <1>2 DEF Record, Now
  <1>5. net \subseteq Wire /\ fifo \in [Channels -> Seq(Wire)]
    BY NowSane DEF Sane
  <1> QED
    BY <1>3, <1>4, <1>5, SameFile

LEMMA ReadyStep == ASSUME Inv, Ready PROVE Inv' /\ Moves /\ made' \in Files \union {made}
  <1>0. /\ offer' = offer /\ fifo["upd"] # <<>> /\ "upd" \in Channels
        /\ Head(fifo["upd"]).kind = "READY"
    BY DEF Ready, Reads, Channels
  <1>1. /\ Sane(Popped("upd")) /\ Popped("upd").ext = ext /\ Popped("upd").upgrade = upgrade
        /\ Popped("upd").getting = getting /\ Head(fifo["upd"]) \in Wire
    BY <1>0, PoppedSane DEF Inv
  <1> DEFINE f == Head(fifo["upd"]).file
             new == Home[f] = "file"
             p == Popped("upd")
             w == [p EXCEPT !.ext.check = f, !.ext.new = new, !.getting = TRUE]
             x == IF new THEN [w EXCEPT !.fsock = "INIT", !.listed = TRUE, !.fails.file = 0,
                                        !.fifo.file = <<>>, !.net = Via("upd")]
                         ELSE w
  <1>2. IF getting \/ new THEN Stay(x) /\ made' = made ELSE Start(x, "upd")
    BY DEF Ready
  <1>3. f \in Files
    BY <1>1 DEF Wire
  <1>4. Sane(w) /\ Spent(w) /\ w.ext.check = f
    <2>1. Record(p) /\ IsExt(ext) /\ p.ext = ext /\ p.net \subseteq Wire
          /\ p.fifo \in [Channels -> Seq(Wire)] /\ p.upgrade = upgrade
      BY <1>1 DEF Sane
    <2> HIDE DEF p, f, new
    <2>2. PICK e : e = [ext EXCEPT !.check = f, !.new = new]
      OBVIOUS
    <2>3. IsExt(e) /\ e.check = f /\ e.open = ext.open /\ e.result = ext.result
      BY <2>1, <2>2 DEF IsExt
    <2>4. PICK l : l = [p EXCEPT !.ext = e, !.getting = TRUE]
      OBVIOUS
    <2>5. w = l
      BY <2>1, <2>2, <2>4 DEF Record
    <2>6. Record(l) /\ l.ext = e /\ l.net = p.net /\ l.fifo = p.fifo /\ l.upgrade = upgrade
      BY <2>1, <2>4 DEF Record
    <2> HIDE DEF w
    <2>7. ext.open => ext.result # "UPDATED"
      BY NowSane DEF Sane
    <2>8. ext.result = "UPDATED" => upgrade = None /\ rebooting
      BY NowSane DEF Spent
    <2> QED
      BY <2>1, <2>3, <2>5, <2>6, <2>7, <2>8, <1>3 DEF Sane, Spent
  <1> HIDE DEF w, p, f
  <1>5. Sane(x) /\ Spent(x) /\ x.ext.check = f
    <2>1. CASE ~new
      BY <1>4, <2>1
    <2>2. CASE new
      <3>1. PICK v : v = Via("upd")
        OBVIOUS
      <3>2. PICK q : q = [w.fifo EXCEPT !["file"] = <<>>]
        OBVIOUS
      <3>3. PICK l : l = [w EXCEPT !.fsock = "INIT", !.listed = TRUE, !.fails.file = 0,
                                   !.fifo.file = <<>>, !.net = v]
        OBVIOUS
      <3>4. Record(w)
        BY <1>4 DEF Sane
      <3>5. Record(l) /\ l.ext = w.ext /\ l.net = v /\ l.fifo = q /\ l.upgrade = w.upgrade
            /\ l.getting = w.getting
        BY <3>2, <3>3, <3>4 DEF Record
      <3>6. v \subseteq Wire
        BY <3>1, NowSane DEF Sane, Via
      <3>7. q \in [Channels -> Seq(Wire)]
        BY <3>2, <1>4 DEF Sane, Channels
      <3>8. x = l
        BY <2>2, <3>1, <3>3
      <3> HIDE DEF x
      <3> QED
        BY <1>4, <3>5, <3>6, <3>7, <3>8 DEF Sane, Spent
    <2> QED
      BY <2>1, <2>2
  <1> HIDE DEF x, new
  <1> QED
    BY <1>0, <1>2, <1>3, <1>5, Stayed, Started, StartMakes

LEMMA ReceiveStep == ASSUME Inv, NEW ch \in Channels, Receive(ch) PROVE Inv' /\ Moves
  <1>0. /\ offer' = offer /\ fifo[ch] # <<>> /\ Reads(ch, "DATA")
    BY DEF Receive, Ignore, Block, NextWindow, FileEnds, WriteFails, After, Takes, Reads
  <1>1. /\ Sane(Popped(ch)) /\ Popped(ch).ext = ext /\ Popped(ch).upgrade = upgrade
        /\ Popped(ch).getting = getting
    BY <1>0, PoppedSane DEF Inv
  <1>2. CASE Ignore(ch)
    <2>1. Spent(Popped(ch))
      BY <1>1, NowSane DEF Spent
    <2> QED
      BY <1>0, <1>1, <1>2, <2>1, Stayed DEF Ignore
  <1>3. ASSUME Takes(ch)
        PROVE  /\ Sane(Got(ch)) /\ Spent(Got(ch)) /\ Ends(Got(ch)) /\ Got(ch).ext.check \in Files
               /\ Got(ch).ext.result # "UPDATED" /\ Record(Got(ch)) /\ IsExt(Got(ch).ext)
    BY <1>3, GotSane DEF Inv, Spent, Ends, Sane
  <1>4. CASE Block(ch)
    BY <1>0, <1>3, <1>4, Stayed DEF Block
  <1>5. CASE NextWindow(ch)
    <2>1. PICK g : g = Got(ch)
      OBVIOUS
    <2>2. Sane(g) /\ g.ext.check \in Files /\ g.ext.result # "UPDATED" /\ Record(g)
          /\ IsExt(g.ext)
      BY <1>3, <1>5, <2>1 DEF NextWindow
    <2>3. PICK c : c = g.ext.current + ONE_SEND
      OBVIOUS
    <2>4. PICK e : e = [g.ext EXCEPT !.current = c, !.got = {}]
      OBVIOUS
    <2>5. PICK s : s = [check |-> e.check, total |-> e.total, current |-> e.current]
      OBVIOUS
    <2>6. PICK l : l = [g EXCEPT !.ext = e, !.flash = g.upgrade, !.fails.upd = 0, !.saved = s]
      OBVIOUS
    <2>7. Saved(g) = l
      BY <2>3, <2>4, <2>5, <2>6 DEF Saved
    <2>8. IsExt(e) /\ e.check = g.ext.check /\ e.result = g.ext.result
      BY <2>2, <2>4 DEF IsExt
    <2>9. Record(l) /\ l.ext = e /\ l.net = g.net /\ l.fifo = g.fifo /\ l.getting = g.getting
      BY <2>2, <2>6 DEF Record
    <2>10. Sane(l) /\ Spent(l) /\ l.ext.check \in Files
      BY <2>2, <2>8, <2>9 DEF Sane, Spent
    <2>11. Send(l, "upd") /\ "upd" \in Channels
      BY <1>5, <2>1, <2>7 DEF NextWindow, Channels
    <2> QED
      BY <1>0, <2>10, <2>11, Sent
  <1>6. CASE FileEnds(ch)
    <2>1. PICK g : g = Got(ch)
      OBVIOUS
    <2>2. Sane(g) /\ g.ext.check \in Files /\ Record(g) /\ IsExt(g.ext)
      BY <1>3, <1>6, <2>1 DEF FileEnds
    <2>3. PICK r : r = IF Image(g.upgrade) = g.ext.check THEN "UPDATED" ELSE "FINISH"
      OBVIOUS
    <2>4. PICK e : e = [g.ext EXCEPT !.current = g.ext.total, !.got = {}, !.open = FALSE,
                                     !.result = r]
      OBVIOUS
    <2>5. PICK l : l = [g EXCEPT !.ext = e, !.flash = g.upgrade]
      OBVIOUS
    <2>6. Complete(g) = l
      BY <2>3, <2>4, <2>5 DEF Complete
    <2>7. IsExt(e) /\ e.check = g.ext.check /\ e.result = r /\ e.open = FALSE
      BY <2>2, <2>4 DEF IsExt
    <2>8. Record(l) /\ l.ext = e /\ l.net = g.net /\ l.fifo = g.fifo /\ l.getting = g.getting
          /\ l.upgrade = g.upgrade
      BY <2>2, <2>5 DEF Record
    <2>9. Sane(l)
      BY <2>2, <2>7, <2>8 DEF Sane
    <2>10. Ends(l)
      BY <2>2, <2>3, <2>7, <2>8 DEF Ends
    <2>11. Conclude(l)
      BY <1>6, <2>1, <2>6 DEF FileEnds
    <2> QED
      BY <1>0, <2>9, <2>10, <2>11, Concluded
  <1>7. CASE WriteFails(ch)
    <2>1. PICK p : p = Popped(ch)
      OBVIOUS
    <2>2. Sane(p) /\ Record(p) /\ IsExt(p.ext)
      BY <1>1, <2>1 DEF Sane
    <2>3. PICK e : e = [p.ext EXCEPT !.open = FALSE]
      OBVIOUS
    <2>4. PICK l : l = [p EXCEPT !.ext = e, !.flash = upgrade]
      OBVIOUS
    <2>5. l = [p EXCEPT !.ext.open = FALSE, !.flash = upgrade]
      BY <2>2, <2>3, <2>4 DEF Record
    <2>6. IsExt(e) /\ e.check = p.ext.check /\ e.open = FALSE
      BY <2>2, <2>3 DEF IsExt
    <2>7. Record(l) /\ l.ext = e /\ l.net = p.net /\ l.fifo = p.fifo /\ l.getting = p.getting
      BY <2>2, <2>4 DEF Record
    <2>8. Sane(l)
      BY <2>2, <2>6, <2>7 DEF Sane
    <2>9. Sane(Failed(l)) /\ Ends(Failed(l))
      BY <2>8, FailedSane DEF Ends
    <2>10. Conclude(Failed(l))
      BY <1>7, <2>1, <2>5 DEF WriteFails
    <2> QED
      BY <1>0, <2>9, <2>10, Concluded
  <1> QED
    BY <1>2, <1>4, <1>5, <1>6, <1>7 DEF Receive

LEMMA ResponseType == ASSUME offer \in Files PROVE Response \in Wire
  BY DEF Response, Wire, Channels

LEMMA AskStep == ASSUME Inv, AsksAgain \/ AsksNoMore PROVE Inv' /\ Moves
  <1>0. offer' = offer /\ "upd" \in Channels
    BY DEF AsksAgain, AsksNoMore, Timed, Channels
  <1>1. CASE AsksAgain
    <2>1. PICK w : w = Unanswered("upd")
      OBVIOUS
    <2>2. PICK n : n = w.net \union {Response}
      OBVIOUS
    <2>3. PICK l : l = [w EXCEPT !.net = n]
      OBVIOUS
    <2>4. l = Asking(w)
      BY <2>2, <2>3 DEF Asking
    <2>5. Sane(w) /\ Record(w) /\ w.ext = ext /\ w.upgrade = upgrade /\ w.getting = getting
          /\ w.net = net /\ w.fifo = fifo
      BY <1>0, <2>1, UnansweredSane
    <2>6. Record(l) /\ l.ext = ext /\ l.upgrade = upgrade /\ l.getting = getting
          /\ l.net = n /\ l.fifo = fifo
      BY <2>3, <2>5 DEF Record
    <2>7. n \subseteq Wire /\ fifo \in [Channels -> Seq(Wire)]
      BY <2>2, <2>5, NowSane, ResponseType DEF Sane
    <2>8. Sane(l) /\ Spent(l)
      BY <2>6, <2>7, SameFile
    <2>9. Stay(l)
      BY <1>1, <2>1, <2>4 DEF AsksAgain
    <2> QED
      BY <1>0, <2>8, <2>9, Stayed
  <1>2. CASE AsksNoMore
    BY <1>0, <1>2, UnansweredSane, Finished DEF AsksNoMore
  <1> QED
    BY <1>1, <1>2

LEMMA TimeoutStep == ASSUME Inv, NEW ch \in Channels, Timeout(ch) PROVE Inv' /\ Moves
  <1>0. offer' = offer /\ ext.check \in Files
    BY NowSane DEF Timeout, RequestsAgain, GivesUp, Timed, Fetching, Sane
  <1>1. CASE RequestsAgain(ch)
    BY <1>0, <1>1, UnansweredSane, Sent DEF RequestsAgain
  <1>2. CASE GivesUp(ch)
    BY <1>0, <1>2, NowSane, FailedSane, Concluded DEF GivesUp, Ends
  <1> QED
    BY <1>1, <1>2 DEF Timeout

LEMMA FileSocketStep == ASSUME Inv, FileInit \/ FileConnected \/ FileStrike
                        PROVE Inv' /\ Moves /\ made' \in Files \union {made}
  <1>0. offer' = offer /\ "file" \in Channels
    BY DEF FileInit, FileConnected, FileStrike, Quietly, Channels
  <1>1. FileInit \/ FileStrike => made' = made
    BY DEF FileInit, FileStrike, Quietly
  <1>2. ASSUME NEW st, NEW l, l = [Now EXCEPT !.fsock = st, !.fails.file = 0]
        PROVE  Sane(l) /\ Spent(l) /\ l.ext = ext
    <2>1. Record(l) /\ l.ext = ext /\ l.upgrade = upgrade /\ l.getting = getting /\ l.net = net
          /\ l.fifo = fifo
      BY <1>2, NowSane DEF Record
    <2>2. net \subseteq Wire /\ fifo \in [Channels -> Seq(Wire)]
      BY NowSane DEF Sane
    <2> QED
      BY <2>1, <2>2, SameFile
  <1>3. CASE FileInit
    <2>1. PICK l : l = [Now EXCEPT !.fsock = "CONNECTING", !.fails.file = 0]
      OBVIOUS
    <2>2. Stay(l)
      BY <1>3, <2>1 DEF FileInit
    <2> QED
      BY <1>0, <1>2, <1>3, <1>1, <2>1, <2>2, Stayed
  <1>4. CASE FileConnected
    <2>1. PICK l : l = [Now EXCEPT !.fsock = "WORK", !.fails.file = 0]
      OBVIOUS
    <2>2. Start(l, "file")
      BY <1>4, <2>1 DEF FileConnected
    <2>3. ext.check \in Files
      BY <1>4, NowSane DEF FileConnected, Sane
    <2>4. Sane(l) /\ l.ext.check \in Files
      BY <1>2, <2>1, <2>3
    <2> QED
      BY <1>0, <2>2, <2>4, Started, StartMakes
  <1>5. CASE FileStrike
    <2>1. CASE Conclude(Failed(Now))
      BY <1>0, <1>5, <1>1, <2>1, NowSane, FailedSane, Concluded DEF Ends
    <2>2. CASE Leave(Unanswered("file")) /\ UNCHANGED <<status, rebooting, main, minor, cuts>>
      <3>1. Sane(Now)' /\ ext' = ext /\ upgrade' = upgrade
        BY <1>0, <2>2, UnansweredSane, LeaveSane
      <3>2. Spent(Now)' /\ Bootables'
        BY <2>2, <3>1 DEF Inv, RamInv, Spent, Now, Bootables, Bootable
      <3> QED
        BY <1>0, <1>5, <1>1, <2>2, <3>1, <3>2 DEF Inv, RamInv, Moves
    <2> QED
      BY <1>5, <2>1, <2>2 DEF FileStrike
  <1> QED
    BY <1>3, <1>4, <1>5, <1>1

LEMMA BeginStep == ASSUME Inv, Begin PROVE Inv' /\ Moves
  <1>1. PICK q : q = [fifo EXCEPT !["file"] = <<>>]
    OBVIOUS
  <1>2. PICK w : w = [Now EXCEPT !.ext = NoFile, !.getting = FALSE, !.flash = upgrade,
                                 !.fails.upd = 0, !.fifo.file = <<>>, !.net = {}]
    OBVIOUS
  <1>3. Record(w) /\ w.ext = NoFile /\ w.getting = FALSE /\ w.net = {} /\ w.fifo = q
    BY <1>1, <1>2, NowSane DEF Record
  <1>4. PICK n : n = w.net \union {Response}
    OBVIOUS
  <1>5. PICK l : l = [w EXCEPT !.net = n]
    OBVIOUS
  <1>6. Record(l) /\ l.ext = NoFile /\ l.getting = FALSE /\ l.net = n /\ l.fifo = q
    BY <1>3, <1>5 DEF Record
  <1>7. l = Asking(w)
    BY <1>4, <1>5 DEF Asking
  <1>8. n \subseteq Wire /\ q \in [Channels -> Seq(Wire)]
    BY <1>1, <1>3, <1>4, NowSane, ResponseType DEF Sane, Channels
  <1>9. IsExt(NoFile) /\ NoFile.check = None /\ NoFile.open = FALSE /\ NoFile.result = "FINISH"
    BY DEF NoFile, IsExt
  <1>10. Sane(l)
    BY <1>6, <1>8, <1>9 DEF Sane
  <1>11. Leave(l) /\ UNCHANGED <<rebooting, main, minor, offer, cuts>>
    BY <1>2, <1>7 DEF Begin
  <1>12. Sane(Now)' /\ ext' = NoFile
    BY <1>6, <1>10, <1>11, LeaveSane
  <1>13. Spent(Now)' /\ Bootables'
    BY <1>9, <1>11, <1>12 DEF Inv, Spent, Now, Bootables, Bootable
  <1> QED
    BY <1>11, <1>12, <1>13 DEF Inv, RamInv, Moves

LEMMA ArriveStep == ASSUME Inv, NEW m \in net, Arrive(m) PROVE Inv' /\ Moves
  <1>0. /\ offer' = offer /\ net \subseteq Wire /\ fifo \in [Channels -> Seq(Wire)]
    BY NowSane DEF Arrive, Quietly, Sane
  <1>1. m \in Wire /\ m.ch \in Channels
    BY <1>0 DEF Wire
  <1>2. CASE Len(fifo[m.ch]) < FIFO_MESSAGES
    <2>1. /\ fifo' = [fifo EXCEPT ![m.ch] = Append(@, m)] /\ net' \subseteq net
          /\ UNCHANGED <<getting, ext, fails, fsock, listed, rebooting, disk, cuts>>
      BY <1>2 DEF Arrive
    <2>2. Append(fifo[m.ch], m) \in Seq(Wire)
      BY <1>0, <1>1
    <2>3. fifo' \in [Channels -> Seq(Wire)]
      BY <1>0, <2>1, <2>2
    <2>4. Sane(Now)' /\ Spent(Now)'
      <3>1. Record(Now)'
        BY DEF Record, Now
      <3>2. net' \subseteq Wire /\ ext' = ext /\ getting' = getting /\ upgrade' = upgrade
            /\ rebooting' = rebooting
        BY <1>0, <2>1 DEF disk
      <3> QED
        BY <2>3, <3>1, <3>2, NowSane DEF Sane, Spent, Now
    <2>5. Bootables' /\ Moves
      BY <2>1 DEF Inv, Bootables, Bootable, Moves, disk
    <2> QED
      BY <1>0, <2>4, <2>5, NowSane DEF Inv, RamInv
  <1>3. CASE Conclude(Now)
    BY <1>0, <1>3, NowSane, Concluded
  <1>4. CASE Stay([Now EXCEPT !.net = @ \ {m}])
    <2>1. PICK n : n = net \ {m}
      OBVIOUS
    <2>2. PICK l : l = [Now EXCEPT !.net = n]
      OBVIOUS
    <2>3. l = [Now EXCEPT !.net = @ \ {m}]
      BY <2>1, <2>2, NowSane DEF Record
    <2>4. Record(l) /\ l.ext = ext /\ l.upgrade = upgrade /\ l.getting = getting /\ l.net = n
          /\ l.fifo = fifo
      BY <2>2, NowSane DEF Record
    <2>5. Sane(l) /\ Spent(l)
      BY <1>0, <2>1, <2>4, SameFile
    <2> QED
      BY <1>0, <1>4, <2>3, <2>5, Stayed
  <1> QED
    BY <1>2, <1>3, <1>4 DEF Arrive

LEMMA QuietStep ==
    ASSUME Inv, Slow \/ Switch \/ (\E m \in net : Lose(m)) \/ UNCHANGED vars
    PROVE  Inv' /\ Moves
  <1>1. /\ net' \subseteq net /\ UNCHANGED <<getting, ext, fifo, upgrade, rebooting, cuts>>
        /\ UNCHANGED <<main, minor>> /\ offer' \in Files
    BY NowSane DEF Slow, Switch, Lose, vars, ram, disk
  <1>2. Record(Now)'
    BY DEF Record, Now
  <1>3. Sane(Now)' /\ Spent(Now)'
    BY <1>1, <1>2, NowSane DEF Sane, Spent, Now
  <1>4. Bootables'
    BY <1>1 DEF Inv, Bootables, Bootable
  <1> QED
    BY <1>1, <1>3, <1>4 DEF Inv, RamInv, Moves

LEMMA CloseStep ==
    ASSUME Inv, LinkLost \/ \E ch \in Channels : ServerCloses(ch)
    PROVE  Inv' /\ Moves
  <1>0. offer' = offer
    BY DEF LinkLost, ServerCloses, Quietly
  <1>1. PICK l : l = [Now EXCEPT !.net = {}]
    OBVIOUS
  <1>2. Record(l) /\ l.ext = ext /\ l.upgrade = upgrade /\ l.getting = getting /\ l.net = {}
        /\ l.fifo = fifo
    BY <1>1, NowSane DEF Record
  <1>3. Sane(l) /\ Spent(l) /\ Ends(l)
    BY <1>2, NowSane, SameFile DEF Sane
  <1>4. Conclude(l) \/ Finish(l) \/ Conclude(Now) \/ Finish(Now)
    BY <1>1 DEF LinkLost, ServerCloses
  <1> QED
    BY <1>0, <1>3, <1>4, NowSane, Concluded, Finished

LEMMA RebootStep ==
    ASSUME Inv, RebootTimer \/ PowerCut \/ \E ch \in Channels : CutSaving(ch)
    PROVE  Inv' /\ Moves
  <1>1. Restart /\ UNCHANGED <<main, minor, offer, cuts>>
    BY DEF RebootTimer, PowerCut, CutSaving
  <1>2. Bootables'
    BY <1>1 DEF Inv, Bootables, Bootable
  <1> QED
    BY <1>1, <1>2, Restarted DEF Inv, Moves

LEMMA CutInstallStep ==
    ASSUME Inv, NEW ch \in Channels, NEW n \in 1 .. 2, CutInstall(ch, n)
    PROVE  Inv' /\ Moves
  <1>1. /\ Takes(ch) /\ Complete(Got(ch)).ext.result = "UPDATED" /\ Cut
        /\ Install(Got(ch).upgrade, n) /\ Restart /\ offer' = offer
    BY DEF CutInstall
  <1>2. PICK g : g = Got(ch)
    OBVIOUS
  <1>3. Record(g) /\ IsExt(g.ext) /\ g.ext.check \in Files
    BY <1>1, <1>2, GotSane DEF Inv, Sane
  <1>4. Image(g.upgrade) \in Files
    <2>1. PICK r : r = IF Image(g.upgrade) = g.ext.check THEN "UPDATED" ELSE "FINISH"
      OBVIOUS
    <2>2. PICK e : e = [g.ext EXCEPT !.current = g.ext.total, !.got = {}, !.open = FALSE,
                                     !.result = r]
      OBVIOUS
    <2>3. PICK l : l = [g EXCEPT !.ext = e, !.flash = g.upgrade]
      OBVIOUS
    <2>4. Complete(g) = l
      BY <2>1, <2>2, <2>3 DEF Complete
    <2>5. e.result = r
      BY <1>3, <2>2 DEF IsExt
    <2>6. l.ext = e
      BY <1>3, <2>3 DEF Record
    <2> QED
      BY <1>1, <1>2, <1>3, <2>1, <2>4, <2>5, <2>6
  <1>5. Bootables' /\ Moves
    BY <1>1, <1>2, <1>4, Installs DEF Inv
  <1> QED
    BY <1>1, <1>5, Restarted DEF Inv

------------------------------------------------------------------------------
(* Together.                                                                 *)
LEMMA InitInv == Init => Inv
  <1> SUFFICES ASSUME Init PROVE Inv
    OBVIOUS
  <1>1. IsExt(NoFile) /\ NoFile.check = None /\ NoFile.open = FALSE /\ NoFile.result = "FINISH"
    BY DEF NoFile, IsExt
  <1>2. Empty \in [Channels -> Seq(Wire)]
    BY DEF Empty
  <1>3. RamInv
    BY <1>1, <1>2 DEF Init, RamInv, Sane, Spent, Now, Record
  <1>4. Bootables
    BY FilesAssumption DEF Init, Bootables, Bootable
  <1> QED
    BY <1>3, <1>4 DEF Inv

LEMMA NextInv == Inv /\ [Next]_vars => Inv' /\ Moves
  <1> SUFFICES ASSUME Inv, [Next]_vars PROVE Inv' /\ Moves
    OBVIOUS
  <1>1. CASE Ready
    BY <1>1, ReadyStep
  <1>2. CASE NothingNew
    <2>1. fifo["upd"] # <<>> /\ offer' = offer /\ Finish(Popped("upd")) /\ "upd" \in Channels
      BY <1>2 DEF NothingNew, Reads, Quietly, Channels
    <2>2. Sane(Popped("upd")) /\ Popped("upd").ext = ext /\ Popped("upd").upgrade = upgrade
      BY <2>1, PoppedSane DEF Inv
    <2>3. Spent(Popped("upd"))
      BY <2>2, NowSane DEF Spent
    <2> QED
      BY <2>1, <2>2, <2>3, Finished
  <1> QED
    BY <1>1, <1>2, BeginStep, FileSocketStep, RebootStep, AskStep, ReceiveStep, TimeoutStep,
       ArriveStep, QuietStep, CloseStep, CutInstallStep
       DEF Next, Unit, Delivery, Trouble

LEMMA AlwaysInv == Spec => []Inv
  BY InitInv, NextInv, PTL DEF Spec

(* Only a whole file of the server ever becomes an image. *)
THEOREM WholeImages == Spec => []ImagesAreWhole
  <1>1. Inv => ImagesAreWhole
    BY DEF Inv, Bootables, ImagesAreWhole
  <1> QED
    BY <1>1, AlwaysInv, PTL

(* An installation that is cut, or done twice, once leaves an image to boot. *)
THEOREM SurvivesOneCut == Spec => []OneCutIsHarmless
  <1>1. Inv => OneCutIsHarmless
    BY DEF Inv, Bootables, OneCutIsHarmless
  <1> QED
    BY <1>1, AlwaysInv, PTL

(* The whole download does with the images only what Images allows. *)
THEOREM ImplementsImages == Spec => Replaces
  <1>1. Init => Img!Init
    BY DEF Init, Img!Init
  <1>2. Inv /\ [Next]_vars => [Img!Next]_(Img!images)
    BY NextInv DEF Moves, Img!images
  <1> QED
    BY <1>1, <1>2, AlwaysInv, PTL DEF Spec, Replaces, Img!Spec
------------------------------------------------------------------------------
(* What the state file counts.  As long as no block of one file has been     *)
(* taken for a block of another: a block on its way fits its file, and what  *)
(* is before current or in the window is in the file as the program reads    *)
(* it.  What is counted is in both, in that and in what a cut leaves, when   *)
(* the upgrade file was made for the file d that the state file is about.    *)
Fit == {m \in Wire : m.kind = "DATA" => m.block \in 0 .. Blocks[m.file] - 1}

Sized(u, d) == u # None => d \in Files /\ DOMAIN u = 0 .. Blocks[d] - 1
Counts(s, u, d) ==
    s.check \in Files /\ s.check = d => \A b \in 0 .. s.current - 1 : u[b] = s.check
Counter(s) ==
    s = NoState \/ /\ s.check \in Files /\ s.total = Blocks[s.check]
                   /\ s.current \in 0 .. s.total
Fetched(e, u, d) ==
    /\ e.current \in Nat
    /\ e.open => /\ e.check \in Files /\ e.check = d /\ e.total = Blocks[e.check]
                 /\ DOMAIN u = 0 .. e.total - 1
                 /\ \A b \in DOMAIN u : b < e.current \/ b \in e.got => u[b] = e.check
Solid(e, u, v, s, d) ==
    /\ Sized(u, d) /\ Sized(v, d) /\ Counter(s) /\ Fetched(e, u, d)
    /\ e.open \/ u # None => Counts(s, u, d)
    /\ v # None => Counts(s, v, d)

Kept(w, d) == /\ w.net \subseteq Fit /\ w.fifo \in [Channels -> Seq(Fit)]
              /\ Solid(w.ext, w.upgrade, w.flash, w.saved, d)

CountInv == ~mixed => Kept(Now, made)

LEMMA NoStateIs == NoState.check = None /\ NoState.check \notin Files /\ Counter(NoState)
  BY FilesAssumption DEF NoState, Counter

LEMMA FilesSize == ASSUME NEW f \in Files
                   PROVE  Blocks[f] \in Nat \ {0}
  BY FilesAssumption

LEMMA NowFields == /\ Now.ext = ext /\ Now.net = net /\ Now.fifo = fifo /\ Now.saved = saved
                   /\ Now.upgrade = upgrade /\ Now.flash = flash
  BY DEF Now

LEMMA LeaveKept == ASSUME NEW w, Kept(w, made'), Leave(w) PROVE Kept(Now, made)'
  <1>1. /\ net' = w.net /\ fifo' = w.fifo /\ ext' = w.ext /\ upgrade' = w.upgrade
        /\ flash' = w.flash /\ saved' = w.saved
    BY DEF Leave
  <1> QED
    BY <1>1 DEF Kept, Now, Solid

LEMMA StayKept == ASSUME NEW w, Kept(w, made'), Stay(w) PROVE Kept(Now, made)'
  BY LeaveKept DEF Stay

LEMMA GoneIsKept == ASSUME NEW e, NEW s, NEW d, Counter(s), e.current \in Nat, ~e.open
                    PROVE  Solid(e, None, None, s, d)
  BY DEF Solid, Sized, Fetched

LEMMA FailedKept == ASSUME NEW w, NEW d, Sane(w), Kept(w, d)
                    PROVE  Kept(Failed(w), d) /\ Sane(Failed(w))
  <1>1. PICK e : e = [w.ext EXCEPT !.result = "FAILED"]
    OBVIOUS
  <1>2. PICK l : l = [w EXCEPT !.ext = e]
    OBVIOUS
  <1>3. Record(w) /\ IsExt(w.ext)
    BY DEF Sane
  <1>4. Failed(w) = l
    BY <1>1, <1>2, <1>3 DEF Failed, Record
  <1>5. /\ e.check = w.ext.check /\ e.current = w.ext.current /\ e.total = w.ext.total
        /\ e.open = w.ext.open /\ e.got = w.ext.got
    BY <1>1, <1>3 DEF IsExt
  <1>6. /\ l.ext = e /\ l.net = w.net /\ l.fifo = w.fifo /\ l.upgrade = w.upgrade
        /\ l.flash = w.flash /\ l.saved = w.saved
    BY <1>2, <1>3 DEF Record
  <1>7. Fetched(e, w.upgrade, d)
    BY <1>5 DEF Kept, Solid, Fetched
  <1>8. Solid(e, w.upgrade, w.flash, w.saved, d)
    BY <1>5, <1>7 DEF Kept, Solid
  <1> QED
    BY <1>4, <1>6, <1>8, FailedSane DEF Kept

LEMMA ConcludeKept ==
    ASSUME NEW w, Sane(w), Kept(w, made'), Kept(Now, made), Conclude(w)
    PROVE  Kept(Now, made)'
  <1> DEFINE done == w.ext.result = "UPDATED"
  <1>1. PICK via : via = Via("file")
    OBVIOUS
  <1>2. PICK shut : shut = IF w.ext.new THEN [w EXCEPT !.fsock = "none", !.fifo.file = <<>>,
                                                       !.fails.file = 0, !.net = {}]
                           ELSE [w EXCEPT !.net = via]
    OBVIOUS
  <1>3. PICK u : u = IF done THEN None ELSE shut.upgrade
    OBVIOUS
  <1>4. PICK v : v = IF done THEN None ELSE shut.flash
    OBVIOUS
  <1>5. PICK l : l = [shut EXCEPT !.fails.upd = 0, !.upgrade = u, !.flash = v]
    OBVIOUS
  <1>6. Record(w)
    BY DEF Sane
  <1>7. /\ Record(shut) /\ shut.ext = w.ext /\ shut.upgrade = w.upgrade /\ shut.flash = w.flash
        /\ shut.saved = w.saved /\ shut.net \in {{}, via}
        /\ shut.fifo \in {w.fifo, [w.fifo EXCEPT !["file"] = <<>>]}
    <2>1. CASE w.ext.new
      <3>1. PICK q : q = [w.fifo EXCEPT !["file"] = <<>>]
        OBVIOUS
      <3>2. PICK k : k = [w EXCEPT !.fsock = "none", !.fifo.file = <<>>,
                                   !.fails.file = 0, !.net = {}]
        OBVIOUS
      <3>3. /\ Record(k) /\ k.ext = w.ext /\ k.upgrade = w.upgrade /\ k.flash = w.flash
            /\ k.saved = w.saved /\ k.net = {} /\ k.fifo = q
        BY <1>6, <3>1, <3>2 DEF Record
      <3> QED
        BY <1>2, <2>1, <3>1, <3>2, <3>3
    <2>2. CASE ~w.ext.new
      <3>1. PICK k : k = [w EXCEPT !.net = via]
        OBVIOUS
      <3>2. /\ Record(k) /\ k.ext = w.ext /\ k.upgrade = w.upgrade /\ k.flash = w.flash
            /\ k.saved = w.saved /\ k.net = via /\ k.fifo = w.fifo
        BY <1>6, <3>1 DEF Record
      <3> QED
        BY <1>2, <2>2, <3>1, <3>2
    <2> QED
      BY <2>1, <2>2
  <1>8. /\ l.ext = w.ext /\ l.upgrade = u /\ l.flash = v /\ l.saved = w.saved
        /\ l.net = shut.net /\ l.fifo = shut.fifo
    BY <1>5, <1>7 DEF Record
  <1>9. Leave(l)
    BY <1>1, <1>2, <1>3, <1>4, <1>5 DEF Conclude
  <1>10. l.net \subseteq Fit
    BY <1>1, <1>7, <1>8, NowFields DEF Kept, Via
  <1>11. l.fifo \in [Channels -> Seq(Fit)]
    <2>1. w.fifo \in [Channels -> Seq(Fit)]
      BY DEF Kept
    <2>2. [w.fifo EXCEPT !["file"] = <<>>] \in [Channels -> Seq(Fit)]
      BY <2>1 DEF Channels
    <2> QED
      BY <1>7, <1>8, <2>1, <2>2
  <1>12. Solid(w.ext, u, v, w.saved, made')
    <2>1. CASE ~done
      BY <1>3, <1>4, <1>7, <2>1 DEF Kept
    <2>2. CASE done
      <3>1. ~w.ext.open
        BY <2>2 DEF Sane
      <3>2. Counter(w.saved) /\ w.ext.current \in Nat
        BY DEF Kept, Solid, Fetched
      <3> QED
        BY <1>3, <1>4, <2>2, <3>1, <3>2, GoneIsKept
    <2> QED
      BY <2>1, <2>2
  <1> QED
    BY <1>8, <1>9, <1>10, <1>11, <1>12, LeaveKept DEF Kept

LEMMA FinishKept ==
    ASSUME NEW w, Sane(w), Kept(w, made'), Kept(Now, made), Finish(w)
    PROVE  Kept(Now, made)'
  <1>1. PICK via : via = Via("file")
    OBVIOUS
  <1>2. PICK l : l = [w EXCEPT !.net = via, !.fails.upd = 0]
    OBVIOUS
  <1>3. /\ l.ext = w.ext /\ l.upgrade = w.upgrade /\ l.flash = w.flash /\ l.saved = w.saved
        /\ l.net = via /\ l.fifo = w.fifo
    BY <1>2 DEF Sane, Record
  <1>4. Leave(l)
    BY <1>1, <1>2 DEF Finish
  <1>5. via \subseteq Fit
    BY <1>1, NowFields DEF Kept, Via
  <1> QED
    BY <1>3, <1>4, <1>5, LeaveKept DEF Kept

LEMMA SendKept ==
    ASSUME NEW w, Sane(w), Kept(w, made'), Kept(Now, made), w.ext.check \in Files,
           NEW ch \in Channels, Send(w, ch)
    PROVE  Kept(Now, made)'
  <1>1. Answers(w.ext, ch) \subseteq Fit
    <2> SUFFICES ASSUME NEW m \in Answers(w.ext, ch) PROVE m \in Fit
      OBVIOUS
    <2>1. PICK b \in Wanted(w.ext) : /\ b < Blocks[w.ext.check]
                                     /\ m = [ch |-> ch, kind |-> "DATA", file |-> w.ext.check,
                                             block |-> b]
      BY DEF Answers
    <2>2. w.ext.current \in Nat /\ ONE_SEND \in Nat /\ Blocks[w.ext.check] \in Nat
      BY FilesSize, LimitsAssumption DEF Kept, Solid, Fetched
    <2>3. b \in Int /\ b >= w.ext.current
      BY <2>1, <2>2 DEF Wanted, Window
    <2>4. b \in 0 .. Blocks[w.ext.check] - 1
      BY <2>1, <2>2, <2>3
    <2> QED
      BY <2>1, <2>3, <2>4 DEF Fit, Wire
  <1>2. PICK n : n = w.net \union Answers(w.ext, ch)
    OBVIOUS
  <1>3. PICK l : l = [w EXCEPT !.net = n]
    OBVIOUS
  <1>4. Record(w)
    BY DEF Sane
  <1>5. /\ l.ext = w.ext /\ l.upgrade = w.upgrade /\ l.flash = w.flash /\ l.saved = w.saved
        /\ l.net = n /\ l.fifo = w.fifo
    BY <1>3, <1>4 DEF Record
  <1>6. Kept(l, made')
    BY <1>1, <1>2, <1>5 DEF Kept
  <1>7. CASE Stay(l)
    BY <1>6, <1>7, StayKept
  <1>8. CASE Conclude(Failed(w))
    BY <1>8, FailedKept, ConcludeKept
  <1>9. l = [w EXCEPT !.net = @ \union Answers(w.ext, ch)]
    BY <1>2, <1>3
  <1> QED
    BY <1>7, <1>8, <1>9 DEF Send

\* A download that goes on does so in the file that was made for it, unless it is
\* mixed up with another.
LEMMA StartKept ==
    ASSUME NEW w, Sane(w), Kept(w, made), Kept(Now, made), w.saved = saved, w.upgrade = upgrade,
           w.ext.check \in Files, NEW ch \in Channels, Start(w, ch), made' = w.ext.check
    PROVE  Kept(Now, made)'
  <1>1. PICK n : n = Blocks[w.ext.check]
    OBVIOUS
  <1>2. PICK e : e = [w.ext EXCEPT !.total = n, !.got = {}, !.current = 0, !.result = "FAILED"]
    OBVIOUS
  <1>3. /\ IsExt(e) /\ e.check = w.ext.check /\ e.total = n /\ e.got = {} /\ e.current = 0
        /\ e.result = "FAILED"
    BY <1>2 DEF Sane, IsExt
  <1>4. Record(w) /\ n \in Nat \ {0}
    BY <1>1, FilesSize DEF Sane
  <1>5. ASSUME NEW l, Record(l), IsExt(l.ext), l.ext.check = w.ext.check,
               l.ext.result = "FAILED", l.net = w.net, l.fifo = w.fifo
        PROVE  Sane(l) /\ (Solid(l.ext, l.upgrade, l.flash, l.saved, made') => Kept(l, made'))
    BY <1>4, <1>5 DEF Sane, Kept
  <1>6. Counter(saved) /\ Sized(upgrade, made) /\ (upgrade # None => Counts(saved, upgrade, made))
    BY NowFields DEF Kept, Solid
  <1>7. ASSUME Same(e), upgrade # None, made' = made,
               Send([w EXCEPT !.ext = Resumed(e), !.flash = upgrade], ch)
        PROVE  Kept(Now, made)'
    <2>1. PICK c : c = saved.current
      OBVIOUS
    <2>2. PICK r : r = [e EXCEPT !.current = c, !.open = TRUE]
      OBVIOUS
    <2>3. /\ IsExt(r) /\ r.check = w.ext.check /\ r.total = n /\ r.got = {} /\ r.current = c
          /\ r.result = "FAILED"
      BY <1>3, <2>2 DEF IsExt
    <2>4. r = Resumed(e)
      BY <2>1, <2>2 DEF Resumed
    <2>5. PICK l : l = [w EXCEPT !.ext = r, !.flash = upgrade]
      OBVIOUS
    <2>6. /\ Record(l) /\ l.ext = r /\ l.net = w.net /\ l.fifo = w.fifo
          /\ l.upgrade = upgrade /\ l.flash = upgrade /\ l.saved = saved
      BY <1>4, <2>5 DEF Record
    <2>7. DOMAIN upgrade = 0 .. n - 1
      BY <1>1, <1>6, <1>7 DEF Sized
    <2>8. saved.check = w.ext.check /\ saved.total = n
      BY <1>3, <1>7 DEF Same
    <2>9. c \in 0 .. n
      BY <1>6, <2>1, <2>8, NoStateIs DEF Counter
    <2>10. \A b \in 0 .. c - 1 : upgrade[b] = w.ext.check
      BY <1>6, <1>7, <2>1, <2>7, <2>8 DEF Counts
    <2>11. Fetched(r, upgrade, made')
      BY <1>1, <1>4, <2>3, <2>7, <2>9, <2>10 DEF Fetched
    <2>12. Solid(r, upgrade, upgrade, saved, made')
      BY <1>6, <1>7, <2>11 DEF Solid
    <2>13. Sane(l) /\ Kept(l, made') /\ l.ext.check \in Files
      BY <1>5, <2>3, <2>6, <2>12
    <2> QED
      BY <1>7, <2>4, <2>5, <2>13, SendKept
  <1>8. ASSUME NEW k, Record(k), k.ext = e, k.net = w.net, k.fifo = w.fifo, Counter(k.saved),
               k.saved.check # w.ext.check, Send(Fresh(k, n), ch)
        PROVE  Kept(Now, made)'
    <2>1. PICK u : u = Blank(n)
      OBVIOUS
    <2>2. DOMAIN u = 0 .. n - 1
      BY <2>1 DEF Blank
    <2>3. PICK r : r = [e EXCEPT !.open = TRUE]
      OBVIOUS
    <2>4. /\ IsExt(r) /\ r.check = w.ext.check /\ r.total = n /\ r.got = {} /\ r.current = 0
          /\ r.result = "FAILED"
      BY <1>3, <2>3 DEF IsExt
    <2>5. PICK l : l = [k EXCEPT !.ext = r, !.upgrade = u, !.flash = u]
      OBVIOUS
    <2>6. /\ Record(l) /\ l.ext = r /\ l.net = w.net /\ l.fifo = w.fifo
          /\ l.upgrade = u /\ l.flash = u /\ l.saved = k.saved
      BY <1>8, <2>5 DEF Record
    <2>7. l = Fresh(k, n)
      BY <1>8, <2>1, <2>3, <2>5 DEF Fresh, Record
    <2>8. Sized(u, made')
      BY <1>1, <2>2 DEF Sized
    <2>9. Counts(k.saved, u, made')
      BY <1>8 DEF Counts
    <2>10. Fetched(r, u, made')
      BY <1>1, <1>4, <2>2, <2>4 DEF Fetched
    <2>11. Solid(r, u, u, k.saved, made')
      BY <1>8, <2>8, <2>9, <2>10 DEF Solid
    <2>12. Sane(l) /\ Kept(l, made') /\ l.ext.check \in Files
      BY <1>5, <2>4, <2>6, <2>11
    <2> QED
      BY <1>8, <2>7, <2>12, SendKept
  <1>9. ASSUME Send(Fresh([w EXCEPT !.ext = e, !.saved = NoState], n), ch)
        PROVE  Kept(Now, made)'
    <2>1. PICK k : k = [w EXCEPT !.ext = e, !.saved = NoState]
      OBVIOUS
    <2>2. Record(k) /\ k.ext = e /\ k.net = w.net /\ k.fifo = w.fifo /\ k.saved = NoState
      BY <1>4, <2>1 DEF Record
    <2> QED
      BY <1>8, <1>9, <2>1, <2>2, NoStateIs
  <1>10. ASSUME ~Same(e), Send(Fresh([w EXCEPT !.ext = e], n), ch)
         PROVE  Kept(Now, made)'
    <2>1. PICK k : k = [w EXCEPT !.ext = e]
      OBVIOUS
    <2>2. Record(k) /\ k.ext = e /\ k.net = w.net /\ k.fifo = w.fifo /\ k.saved = saved
      BY <1>4, <2>1 DEF Record
    <2>3. saved.check # w.ext.check
      BY <1>1, <1>3, <1>6, <1>10, NoStateIs DEF Same, Counter
    <2> QED
      BY <1>6, <1>8, <1>10, <2>1, <2>2, <2>3
  <1>11. ASSUME NEW st, Counter(st),
                Conclude([w EXCEPT !.ext = [e EXCEPT !.open = FALSE], !.upgrade = None,
                                   !.flash = None, !.saved = st])
         PROVE  Kept(Now, made)'
    <2>1. PICK r : r = [e EXCEPT !.open = FALSE]
      OBVIOUS
    <2>2. /\ IsExt(r) /\ r.check = w.ext.check /\ r.open = FALSE /\ r.current = 0
          /\ r.result = "FAILED"
      BY <1>3, <2>1 DEF IsExt
    <2>3. PICK l : l = [w EXCEPT !.ext = r, !.upgrade = None, !.flash = None, !.saved = st]
      OBVIOUS
    <2>4. /\ Record(l) /\ l.ext = r /\ l.net = w.net /\ l.fifo = w.fifo
          /\ l.upgrade = None /\ l.flash = None /\ l.saved = st
      BY <1>4, <2>3 DEF Record
    <2>5. Solid(r, None, None, st, made')
      BY <1>11, <2>2, GoneIsKept
    <2>6. Sane(l) /\ Kept(l, made')
      BY <1>5, <2>2, <2>4, <2>5
    <2> QED
      BY <1>11, <2>1, <2>3, <2>6, ConcludeKept
  <1>12. \/ /\ Same(e) /\ upgrade # None /\ made' = made
            /\ Send([w EXCEPT !.ext = Resumed(e), !.flash = upgrade], ch)
         \/ Send(Fresh([w EXCEPT !.ext = e, !.saved = NoState], n), ch)
         \/ ~Same(e) /\ Send(Fresh([w EXCEPT !.ext = e], n), ch)
         \/ Conclude([w EXCEPT !.ext = [e EXCEPT !.open = FALSE], !.upgrade = None,
                               !.flash = None, !.saved = IF Same(e) THEN NoState ELSE saved])
    BY <1>1, <1>2, Zenon DEF Start
  <1>13. Counter(IF Same(e) THEN NoState ELSE saved)
    BY <1>6, NoStateIs
  <1> QED
    BY <1>7, <1>9, <1>10, <1>11, <1>12, <1>13

LEMMA RestartKept ==
    ASSUME Restart, Sized(upgrade', made'), Counter(saved'), flash' = upgrade',
           upgrade' # None => Counts(saved', upgrade', made')
    PROVE  Kept(Now, made)'
  <1>1. net' = {} /\ fifo' = Empty /\ ext' = NoFile
    BY DEF Restart
  <1>2. Empty \in [Channels -> Seq(Fit)]
    BY DEF Empty
  <1>3. Fetched(NoFile, upgrade', made') /\ ~NoFile.open
    BY DEF Fetched, NoFile
  <1>4. Solid(NoFile, upgrade', flash', saved', made')
    BY <1>3 DEF Solid
  <1> QED
    BY <1>1, <1>2, <1>4 DEF Kept, Now

\* What a handler starts from when it leaves the files alone.
LEMMA SameKept ==
    ASSUME Kept(Now, made), NEW l, l.ext = ext, l.upgrade = upgrade, l.flash = flash,
           l.saved = saved,
           l.net \subseteq Fit, l.fifo \in [Channels -> Seq(Fit)]
    PROVE  Kept(l, made)
  BY NowFields DEF Kept

LEMMA PoppedKept ==
    ASSUME Inv, Kept(Now, made), NEW ch \in Channels, fifo[ch] # <<>>
    PROVE  /\ Kept(Popped(ch), made) /\ Head(fifo[ch]) \in Fit
           /\ Popped(ch).flash = flash /\ Popped(ch).saved = saved
  <1>1. fifo \in [Channels -> Seq(Fit)] /\ net \subseteq Fit
    BY NowFields DEF Kept
  <1>2. Tail(fifo[ch]) \in Seq(Fit) /\ Head(fifo[ch]) \in Fit
    BY <1>1
  <1>3. PICK f : f = [fifo EXCEPT ![ch] = Tail(@)]
    OBVIOUS
  <1>4. PICK l : l = [Now EXCEPT !.fifo = f]
    OBVIOUS
  <1>5. l = Popped(ch)
    BY <1>3, <1>4 DEF Popped, Now
  <1>6. f \in [Channels -> Seq(Fit)]
    BY <1>1, <1>2, <1>3
  <1>7. /\ l.ext = ext /\ l.net = net /\ l.fifo = f /\ l.upgrade = upgrade /\ l.flash = flash
        /\ l.saved = saved
    BY <1>4 DEF Now
  <1> QED
    BY <1>1, <1>2, <1>5, <1>6, <1>7, SameKept

\* A block of the right file is in its place.
LEMMA GotKept ==
    ASSUME Inv, Kept(Now, made), NEW ch \in Channels, Takes(ch), Head(fifo[ch]).file = ext.check
    PROVE  /\ Kept(Got(ch), made) /\ Got(ch).saved = saved
           /\ Got(ch).ext.open
  <1>1. fifo[ch] # <<>> /\ ext.open /\ Head(fifo[ch]).kind = "DATA"
    BY DEF Takes, Reads
  <1>2. /\ Sane(Popped(ch)) /\ Popped(ch).ext = ext
        /\ Kept(Popped(ch), made) /\ Head(fifo[ch]) \in Fit
        /\ Popped(ch).flash = flash /\ Popped(ch).saved = saved
    BY <1>1, PoppedSane, PoppedKept DEF Inv
  <1>3. PICK m : m = Head(fifo[ch])
    OBVIOUS
  <1>4. PICK p : p = Popped(ch)
    OBVIOUS
  <1>5. PICK u : u = Written(m.block, m.file)
    OBVIOUS
  <1>6. PICK t : t = ext.got \union {m.block}
    OBVIOUS
  <1>7. PICK e : e = [ext EXCEPT !.got = t]
    OBVIOUS
  <1>8. PICK g : g = [p EXCEPT !.ext = e, !.upgrade = u]
    OBVIOUS
  <1>9. Record(p) /\ IsExt(ext)
    BY <1>2, <1>4 DEF Sane
  <1>10. g = Got(ch)
    BY <1>2, <1>3, <1>4, <1>5, <1>6, <1>7, <1>8, <1>9 DEF Got, Record
  <1>11. /\ e.check = ext.check /\ e.total = ext.total /\ e.current = ext.current
         /\ e.open = ext.open /\ e.got = t
    BY <1>7, <1>9 DEF IsExt
  <1>12. /\ g.ext = e /\ g.upgrade = u /\ g.flash = p.flash /\ g.saved = p.saved
         /\ g.net = p.net /\ g.fifo = p.fifo
    BY <1>8, <1>9 DEF Record
  <1>13. /\ Sized(flash, made) /\ Counter(saved) /\ (flash # None => Counts(saved, flash, made))
         /\ Counts(saved, upgrade, made) /\ Fetched(ext, upgrade, made)
    BY <1>1, NowFields DEF Kept, Solid
  <1>14. /\ ext.check \in Files /\ ext.check = made /\ ext.total = Blocks[ext.check]
         /\ DOMAIN upgrade = 0 .. ext.total - 1 /\ Blocks[ext.check] \in Nat \ {0}
    BY <1>1, <1>13, FilesSize DEF Fetched
  <1>15. m.block \in 0 .. ext.total - 1 /\ m.file = ext.check
    BY <1>1, <1>2, <1>3, <1>14 DEF Fit
  <1>16. /\ DOMAIN u = 0 .. ext.total - 1
         /\ \A b \in DOMAIN u : u[b] = IF b = m.block THEN ext.check ELSE upgrade[b]
    <2>1. DOMAIN upgrade \union 0 .. m.block = 0 .. ext.total - 1
      BY <1>14, <1>15
    <2> QED
      BY <1>5, <1>14, <1>15, <2>1 DEF Written
  <1>17. Fetched(e, u, made)
    BY <1>6, <1>11, <1>13, <1>14, <1>16 DEF Fetched
  <1>18. Counts(saved, u, made)
    <2> SUFFICES ASSUME saved.check \in Files, saved.check = made,
                        NEW b \in 0 .. saved.current - 1
                 PROVE  u[b] = saved.check
      BY DEF Counts
    <2>1. saved.total = Blocks[saved.check] /\ saved.current \in 0 .. saved.total
      BY <1>13, NoStateIs DEF Counter
    <2>2. saved.check = ext.check
      BY <1>14
    <2>3. b \in DOMAIN u /\ upgrade[b] = saved.check
      BY <1>13, <1>14, <1>16, <2>1, <2>2 DEF Counts
    <2> QED
      BY <1>16, <2>2, <2>3
  <1>19. Sized(u, made)
    BY <1>14, <1>16 DEF Sized
  <1>20. Solid(e, u, flash, saved, made)
    BY <1>13, <1>17, <1>18, <1>19 DEF Solid
  <1> QED
    BY <1>1, <1>2, <1>4, <1>10, <1>11, <1>12, <1>20 DEF Kept

LEMMA ReadyKept ==
    ASSUME Inv, Kept(Now, made), Ready, ~mixed'
    PROVE  Kept(Now, made)'
  <1>0. /\ fifo["upd"] # <<>> /\ "upd" \in Channels
        /\ ext.open => Head(fifo["upd"]).file = ext.check
    BY DEF Ready, Reads, Channels
  <1>1. /\ Sane(Popped("upd")) /\ Popped("upd").ext = ext /\ Popped("upd").upgrade = upgrade
        /\ Popped("upd").getting = getting /\ Head(fifo["upd"]) \in Wire
        /\ Kept(Popped("upd"), made) /\ Popped("upd").flash = flash /\ Popped("upd").saved = saved
    BY <1>0, PoppedSane, PoppedKept DEF Inv
  <1>2. PICK f : f = Head(fifo["upd"]).file
    OBVIOUS
  <1>3. PICK new : new = (Home[f] = "file")
    OBVIOUS
  <1>4. PICK p : p = Popped("upd")
    OBVIOUS
  <1>5. f \in Files
    BY <1>1, <1>2 DEF Wire
  <1>6. PICK e : e = [ext EXCEPT !.check = f, !.new = new]
    OBVIOUS
  <1>7. Record(p) /\ IsExt(ext)
    BY <1>1, <1>4 DEF Sane
  <1>8. /\ IsExt(e) /\ e.check = f /\ e.open = ext.open /\ e.result = ext.result
        /\ e.total = ext.total /\ e.current = ext.current /\ e.got = ext.got
    BY <1>6, <1>7 DEF IsExt
  <1>9. PICK w : w = [p EXCEPT !.ext = e, !.getting = TRUE]
    OBVIOUS
  <1>10. /\ Record(w) /\ w.ext = e /\ w.net = p.net /\ w.fifo = p.fifo /\ w.upgrade = upgrade
         /\ w.flash = flash /\ w.saved = saved
    BY <1>1, <1>4, <1>7, <1>9 DEF Record
  <1>11. Solid(e, upgrade, flash, saved, made)
    BY <1>0, <1>2, <1>8, NowFields DEF Kept, Solid, Fetched
  <1>12. Kept(w, made)
    BY <1>1, <1>4, <1>10, <1>11 DEF Kept
  <1>13. Sane(w)
    BY <1>1, <1>4, <1>5, <1>8, <1>10, NowSane DEF Sane
  <1>14. PICK x : x = IF new THEN [w EXCEPT !.fsock = "INIT", !.listed = TRUE, !.fails.file = 0,
                                            !.fifo.file = <<>>, !.net = Via("upd")]
                      ELSE w
    OBVIOUS
  <1>15. IF getting \/ new THEN Stay(x) /\ made' = made ELSE Start(x, "upd") /\ made' = f
    <2>1. w = [Popped("upd") EXCEPT !.ext.check = f, !.ext.new = new, !.getting = TRUE]
      BY <1>1, <1>4, <1>6, <1>7, <1>9 DEF Record
    <2> QED
      BY <1>2, <1>3, <1>14, <2>1 DEF Ready
  <1>16. CASE new
    <2>1. PICK v : v = Via("upd")
      OBVIOUS
    <2>2. PICK q : q = [w.fifo EXCEPT !["file"] = <<>>]
      OBVIOUS
    <2>3. PICK l : l = [w EXCEPT !.fsock = "INIT", !.listed = TRUE, !.fails.file = 0,
                                 !.fifo.file = <<>>, !.net = v]
      OBVIOUS
    <2>4. /\ l.ext = w.ext /\ l.net = v /\ l.fifo = q /\ l.upgrade = w.upgrade
          /\ l.flash = w.flash /\ l.saved = w.saved
      BY <1>10, <2>2, <2>3 DEF Record
    <2>5. v \subseteq Fit /\ q \in [Channels -> Seq(Fit)]
      BY <1>12, <2>1, <2>2, NowFields DEF Kept, Via, Channels
    <2>6. Kept(l, made)
      BY <1>12, <2>4, <2>5 DEF Kept
    <2> QED
      BY <1>14, <1>15, <1>16, <2>1, <2>3, <2>6, StayKept
  <1>17. CASE ~new
    <2>1. x = w
      BY <1>14, <1>17
    <2> QED
      BY <1>0, <1>5, <1>8, <1>10, <1>12, <1>13, <1>15, <1>17, <2>1, StayKept, StartKept
  <1> QED
    BY <1>16, <1>17

LEMMA ReceiveKept ==
    ASSUME Inv, Kept(Now, made), made' = made, NEW ch \in Channels, Receive(ch), ~mixed'
    PROVE  Kept(Now, made)'
  <1>0. fifo[ch] # <<>>
    BY DEF Receive, Ignore, Block, NextWindow, FileEnds, WriteFails, Takes, Reads
  <1>1. /\ Sane(Popped(ch)) /\ Popped(ch).ext = ext /\ Popped(ch).upgrade = upgrade
        /\ Kept(Popped(ch), made) /\ Popped(ch).flash = flash /\ Popped(ch).saved = saved
    BY <1>0, PoppedSane, PoppedKept DEF Inv
  <1>2. CASE Ignore(ch)
    BY <1>1, <1>2, StayKept DEF Ignore
  <1>3. ASSUME Takes(ch), Mixed(ch)
        PROVE  /\ Sane(Got(ch)) /\ Kept(Got(ch), made) /\ Got(ch).ext.check \in Files
               /\ Record(Got(ch)) /\ IsExt(Got(ch).ext) /\ Got(ch).ext.open
               /\ Got(ch).ext.result # "UPDATED"
    BY <1>3, GotSane, GotKept DEF Inv, Sane, Mixed
  <1>4. CASE Block(ch)
    BY <1>3, <1>4, StayKept DEF Block
  <1>5. PICK g : g = Got(ch)
    OBVIOUS
  <1>6. CASE NextWindow(ch)
    <2>1. /\ Sane(g) /\ Kept(g, made) /\ g.ext.check \in Files /\ Record(g) /\ IsExt(g.ext)
          /\ g.ext.open /\ g.ext.result # "UPDATED"
      BY <1>3, <1>5, <1>6 DEF NextWindow
    <2>2. PICK c : c = g.ext.current + ONE_SEND
      OBVIOUS
    <2>3. PICK e : e = [g.ext EXCEPT !.current = c, !.got = {}]
      OBVIOUS
    <2>4. PICK s : s = [check |-> e.check, total |-> e.total, current |-> e.current]
      OBVIOUS
    <2>5. PICK l : l = [g EXCEPT !.ext = e, !.flash = g.upgrade, !.fails.upd = 0, !.saved = s]
      OBVIOUS
    <2>6. Saved(g) = l
      BY <2>2, <2>3, <2>4, <2>5 DEF Saved
    <2>7. /\ IsExt(e) /\ e.check = g.ext.check /\ e.total = g.ext.total /\ e.current = c
          /\ e.got = {} /\ e.open = g.ext.open /\ e.result = g.ext.result
      BY <2>1, <2>3 DEF IsExt
    <2>8. /\ Record(l) /\ l.ext = e /\ l.net = g.net /\ l.fifo = g.fifo /\ l.getting = g.getting
          /\ l.upgrade = g.upgrade /\ l.flash = g.upgrade /\ l.saved = s
      BY <2>1, <2>5 DEF Record
    <2>9. Sane(l) /\ l.ext.check \in Files
      BY <2>1, <2>7, <2>8 DEF Sane
    <2>10. /\ g.ext.current \in Nat /\ g.ext.check = made /\ g.ext.total = Blocks[g.ext.check]
           /\ g.ext.total \in Nat /\ DOMAIN g.upgrade = 0 .. g.ext.total - 1
           /\ \A b \in DOMAIN g.upgrade :
                  b < g.ext.current \/ b \in g.ext.got => g.upgrade[b] = g.ext.check
           /\ Sized(g.upgrade, made) /\ ONE_SEND \in Nat
      BY <2>1, FilesSize, LimitsAssumption DEF Kept, Solid, Fetched
    <2>11. c \in Nat /\ c < g.ext.total
      BY <1>5, <1>6, <2>2, <2>10 DEF NextWindow, Last
    <2>12. \A b \in DOMAIN g.upgrade : b < c => g.upgrade[b] = g.ext.check
      <3> SUFFICES ASSUME NEW b \in DOMAIN g.upgrade, b < c, b >= g.ext.current
                   PROVE  b \in g.ext.got
        BY <2>10
      <3>1. b \in g.ext.current .. g.ext.current + ONE_SEND - 1 /\ b < g.ext.total
        BY <2>2, <2>10, <2>11
      <3>2. b \in Window(g.ext)
        BY <3>1 DEF Window
      <3> QED
        BY <1>5, <1>6, <3>2 DEF NextWindow, Full
    <2>13. Fetched(e, g.upgrade, made)
      BY <2>1, <2>7, <2>10, <2>11, <2>12 DEF Fetched
    <2>14. Counter(s) /\ Counts(s, g.upgrade, made)
      BY <2>1, <2>4, <2>7, <2>10, <2>11, <2>12 DEF Counter, Counts
    <2>15. Kept(l, made)
      BY <2>1, <2>8, <2>10, <2>13, <2>14 DEF Kept, Solid
    <2>16. Send(l, "upd") /\ "upd" \in Channels
      BY <1>5, <1>6, <2>6 DEF NextWindow, Channels
    <2> QED
      BY <2>9, <2>15, <2>16, SendKept
  <1>7. CASE FileEnds(ch)
    <2>1. /\ Sane(g) /\ Kept(g, made) /\ g.ext.check \in Files /\ Record(g) /\ IsExt(g.ext)
          /\ g.ext.open
      BY <1>3, <1>5, <1>7 DEF FileEnds
    <2>2. PICK r : r = IF Image(g.upgrade) = g.ext.check THEN "UPDATED" ELSE "FINISH"
      OBVIOUS
    <2>3. PICK e : e = [g.ext EXCEPT !.current = g.ext.total, !.got = {}, !.open = FALSE,
                                     !.result = r]
      OBVIOUS
    <2>4. PICK l : l = [g EXCEPT !.ext = e, !.flash = g.upgrade]
      OBVIOUS
    <2>5. Complete(g) = l
      BY <2>2, <2>3, <2>4 DEF Complete
    <2>6. /\ IsExt(e) /\ e.check = g.ext.check /\ e.open = FALSE /\ e.current = g.ext.total
      BY <2>1, <2>3 DEF IsExt
    <2>7. /\ Record(l) /\ l.ext = e /\ l.net = g.net /\ l.fifo = g.fifo /\ l.getting = g.getting
          /\ l.upgrade = g.upgrade /\ l.flash = g.upgrade /\ l.saved = g.saved
      BY <2>1, <2>4 DEF Record
    <2>8. Sane(l)
      BY <2>1, <2>6, <2>7 DEF Sane
    <2>9. g.ext.total \in Nat
      BY <2>1, FilesSize DEF Kept, Solid, Fetched
    <2>10. Fetched(e, g.upgrade, made)
      BY <2>6, <2>9 DEF Fetched
    <2>11. Kept(l, made)
      BY <2>1, <2>6, <2>7, <2>10 DEF Kept, Solid
    <2>12. Conclude(l)
      BY <1>5, <1>7, <2>5 DEF FileEnds
    <2> QED
      BY <2>8, <2>11, <2>12, ConcludeKept
  <1>8. CASE WriteFails(ch)
    <2>1. PICK p : p = Popped(ch)
      OBVIOUS
    <2>2. Sane(p) /\ Record(p) /\ IsExt(p.ext) /\ Kept(p, made)
      BY <1>1, <2>1 DEF Sane
    <2>3. PICK e : e = [p.ext EXCEPT !.open = FALSE]
      OBVIOUS
    <2>4. PICK l : l = [p EXCEPT !.ext = e, !.flash = upgrade]
      OBVIOUS
    <2>5. l = [p EXCEPT !.ext.open = FALSE, !.flash = upgrade]
      BY <2>2, <2>3, <2>4 DEF Record
    <2>6. IsExt(e) /\ e.check = p.ext.check /\ e.open = FALSE /\ e.current = p.ext.current
      BY <2>2, <2>3 DEF IsExt
    <2>7. /\ Record(l) /\ l.ext = e /\ l.net = p.net /\ l.fifo = p.fifo /\ l.getting = p.getting
          /\ l.upgrade = p.upgrade /\ l.flash = p.upgrade /\ l.saved = p.saved
      BY <1>1, <2>1, <2>2, <2>4 DEF Record
    <2>8. Sane(l)
      BY <2>2, <2>6, <2>7 DEF Sane
    <2>9. Fetched(e, p.upgrade, made)
      BY <2>2, <2>6 DEF Kept, Solid, Fetched
    <2>10. Kept(l, made)
      BY <2>2, <2>6, <2>7, <2>9 DEF Kept, Solid
    <2>11. Conclude(Failed(l))
      BY <1>8, <2>1, <2>5 DEF WriteFails
    <2> QED
      BY <2>8, <2>10, <2>11, FailedKept, ConcludeKept
  <1> QED
    BY <1>2, <1>4, <1>6, <1>7, <1>8 DEF Receive

LEMMA UnansweredKept ==
    ASSUME Inv, Kept(Now, made), NEW ch \in Channels
    PROVE  Kept(Unanswered(ch), made)
  <1>1. PICK f : f = [fails EXCEPT ![ch] = @ + 1]
    OBVIOUS
  <1>2. PICK l : l = [Now EXCEPT !.fails = f]
    OBVIOUS
  <1>3. Unanswered(ch) = l
    BY <1>1, <1>2 DEF Unanswered, Now
  <1>4. /\ l.ext = ext /\ l.upgrade = upgrade /\ l.flash = flash /\ l.saved = saved
        /\ l.net = net /\ l.fifo = fifo
    BY <1>2 DEF Now
  <1> QED
    BY <1>3, <1>4, NowFields, SameKept DEF Kept

LEMMA ResponseFits == ASSUME Inv PROVE Response \in Fit
  BY ResponseType, NowSane DEF Response, Fit

LEMMA ClockKept ==
    ASSUME Inv, Kept(Now, made), made' = made,
           AsksAgain \/ AsksNoMore \/ \E ch \in Channels : Timeout(ch)
    PROVE  Kept(Now, made)'
  <1>0. "upd" \in Channels
    BY DEF Channels
  <1>1. CASE AsksAgain
    <2>1. PICK w : w = Unanswered("upd")
      OBVIOUS
    <2>2. PICK n : n = w.net \union {Response}
      OBVIOUS
    <2>3. PICK l : l = [w EXCEPT !.net = n]
      OBVIOUS
    <2>4. l = Asking(w)
      BY <2>2, <2>3 DEF Asking
    <2>5. Record(w) /\ Kept(w, made)
      BY <1>0, <2>1, UnansweredSane, UnansweredKept
    <2>6. /\ l.ext = w.ext /\ l.upgrade = w.upgrade /\ l.flash = w.flash /\ l.saved = w.saved
          /\ l.net = n /\ l.fifo = w.fifo
      BY <2>3, <2>5 DEF Record
    <2>7. Kept(l, made)
      BY <2>2, <2>5, <2>6, ResponseFits DEF Kept
    <2> QED
      BY <1>1, <2>1, <2>4, <2>7, StayKept DEF AsksAgain
  <1>2. CASE AsksNoMore
    BY <1>0, <1>2, UnansweredSane, UnansweredKept, FinishKept DEF AsksNoMore
  <1>3. ASSUME NEW ch \in Channels, RequestsAgain(ch) PROVE Kept(Now, made)'
    <2>1. ext.check \in Files /\ Send(Unanswered(ch), ch)
      BY <1>3, NowSane DEF RequestsAgain, Fetching, Sane
    <2> QED
      BY <2>1, UnansweredSane, UnansweredKept, SendKept
  <1>4. ASSUME NEW ch \in Channels, GivesUp(ch) PROVE Kept(Now, made)'
    BY <1>4, NowSane, FailedKept, ConcludeKept DEF GivesUp
  <1> QED
    BY <1>1, <1>2, <1>3, <1>4 DEF Timeout

LEMMA FileSocketKept ==
    ASSUME Inv, Kept(Now, made), ~mixed', FileInit \/ FileConnected \/ FileStrike
    PROVE  Kept(Now, made)'
  <1>0. "file" \in Channels
    BY DEF Channels
  <1>1. ASSUME NEW st, NEW l, l = [Now EXCEPT !.fsock = st, !.fails.file = 0]
        PROVE  Sane(l) /\ Kept(l, made) /\ l.ext = ext /\ l.upgrade = upgrade /\ l.saved = saved
    <2>1. /\ Record(l) /\ l.ext = ext /\ l.upgrade = upgrade /\ l.getting = getting /\ l.net = net
          /\ l.fifo = fifo /\ l.flash = flash /\ l.saved = saved
      BY <1>1, NowSane DEF Record, Now
    <2>2. net \subseteq Wire /\ fifo \in [Channels -> Seq(Wire)]
      BY NowSane DEF Sane
    <2> QED
      BY <2>1, <2>2, SameFile, SameKept, NowFields DEF Kept
  <1>2. CASE FileInit
    BY <1>1, <1>2, StayKept DEF FileInit, Quietly
  <1>3. CASE FileConnected
    <2>1. PICK l : l = [Now EXCEPT !.fsock = "WORK", !.fails.file = 0]
      OBVIOUS
    <2>2. Start(l, "file") /\ made' = ext.check
      BY <1>3, <2>1 DEF FileConnected
    <2>3. ext.check \in Files
      BY <1>3, NowSane DEF FileConnected, Sane
    <2> QED
      BY <1>0, <1>1, <2>1, <2>2, <2>3, StartKept
  <1>4. CASE FileStrike
    <2>1. (Conclude(Failed(Now)) \/ Leave(Unanswered("file"))) /\ made' = made
      BY <1>4 DEF FileStrike, Quietly
    <2> QED
      BY <1>0, <2>1, NowSane, FailedKept, ConcludeKept, UnansweredKept, LeaveKept
  <1> QED
    BY <1>2, <1>3, <1>4

LEMMA BeginKept ==
    ASSUME Inv, Kept(Now, made), made' = made, Begin
    PROVE  Kept(Now, made)'
  <1>1. PICK q : q = [fifo EXCEPT !["file"] = <<>>]
    OBVIOUS
  <1>2. PICK w : w = [Now EXCEPT !.ext = NoFile, !.getting = FALSE, !.flash = upgrade,
                                 !.fails.upd = 0, !.fifo.file = <<>>, !.net = {}]
    OBVIOUS
  <1>3. /\ Record(w) /\ w.ext = NoFile /\ w.net = {} /\ w.fifo = q
        /\ w.upgrade = upgrade /\ w.flash = upgrade /\ w.saved = saved
    BY <1>1, <1>2, NowSane DEF Record, Now
  <1>4. PICK n : n = w.net \union {Response}
    OBVIOUS
  <1>5. PICK l : l = [w EXCEPT !.net = n]
    OBVIOUS
  <1>6. /\ l.ext = NoFile /\ l.net = n /\ l.fifo = q
        /\ l.upgrade = upgrade /\ l.flash = upgrade /\ l.saved = saved
    BY <1>3, <1>5 DEF Record
  <1>7. l = Asking(w)
    BY <1>4, <1>5 DEF Asking
  <1>8. n \subseteq Fit /\ q \in [Channels -> Seq(Fit)]
    BY <1>1, <1>3, <1>4, NowFields, ResponseFits DEF Kept, Channels
  <1>9. Fetched(NoFile, upgrade, made) /\ ~NoFile.open
    BY DEF NoFile, Fetched
  <1>10. Kept(l, made)
    BY <1>6, <1>8, <1>9, NowFields DEF Kept, Solid
  <1> QED
    BY <1>2, <1>7, <1>10, LeaveKept DEF Begin

LEMMA NetKept ==
    ASSUME Inv, Kept(Now, made), made' = made,
           Slow \/ Switch \/ UNCHANGED vars \/ \E m \in net : Lose(m) \/ Arrive(m)
    PROVE  Kept(Now, made)'
  <1>0. net \subseteq Fit /\ fifo \in [Channels -> Seq(Fit)]
    BY NowFields DEF Kept
  <1>1. CASE Slow \/ Switch \/ UNCHANGED vars \/ \E m \in net : Lose(m)
    <2>1. net' \subseteq net /\ UNCHANGED <<ext, fifo, upgrade, flash, saved>>
      BY <1>1 DEF Slow, Switch, Lose, vars, ram, disk
    <2> QED
      BY <2>1 DEF Kept, Now, Solid
  <1>2. ASSUME NEW m \in net, Arrive(m) PROVE Kept(Now, made)'
    <2>1. m \in Fit /\ m.ch \in Channels
      BY <1>0 DEF Fit, Wire
    <2>2. CASE Len(fifo[m.ch]) < FIFO_MESSAGES
      <3>1. /\ fifo' = [fifo EXCEPT ![m.ch] = Append(@, m)] /\ net' \subseteq net
            /\ UNCHANGED <<ext, upgrade, flash, saved>>
        BY <1>2, <2>2 DEF Arrive, disk
      <3>2. Append(fifo[m.ch], m) \in Seq(Fit)
        BY <1>0, <2>1
      <3>3. fifo' \in [Channels -> Seq(Fit)]
        BY <1>0, <3>1, <3>2
      <3> QED
        BY <3>1, <3>3 DEF Kept, Now, Solid
    <2>3. CASE Conclude(Now)
      BY <2>3, NowSane, ConcludeKept
    <2>4. CASE Stay([Now EXCEPT !.net = @ \ {m}])
      <3>1. PICK n : n = net \ {m}
        OBVIOUS
      <3>2. PICK l : l = [Now EXCEPT !.net = n]
        OBVIOUS
      <3>3. l = [Now EXCEPT !.net = @ \ {m}]
        BY <3>1, <3>2, NowSane DEF Record
      <3>4. /\ l.ext = ext /\ l.upgrade = upgrade /\ l.flash = flash /\ l.saved = saved
            /\ l.net = n /\ l.fifo = fifo
        BY <3>2 DEF Now
      <3>5. Kept(l, made)
        BY <1>0, <3>1, <3>4, SameKept
      <3> QED
        BY <2>4, <3>3, <3>5, StayKept
    <2> QED
      BY <1>2, <2>2, <2>3, <2>4 DEF Arrive
  <1> QED
    BY <1>1, <1>2

LEMMA CloseKept ==
    ASSUME Inv, Kept(Now, made), made' = made, LinkLost \/ \E ch \in Channels : ServerCloses(ch)
    PROVE  Kept(Now, made)'
  <1>1. PICK l : l = [Now EXCEPT !.net = {}]
    OBVIOUS
  <1>2. /\ Record(l) /\ l.ext = ext /\ l.upgrade = upgrade /\ l.getting = getting /\ l.net = {}
        /\ l.fifo = fifo /\ l.flash = flash /\ l.saved = saved
    BY <1>1 DEF Record, Now
  <1>3. Sane(l) /\ Kept(l, made)
    BY <1>2, NowSane, NowFields, SameFile, SameKept DEF Sane, Kept
  <1>4. Conclude(l) \/ Finish(l) \/ Conclude(Now) \/ Finish(Now)
    BY <1>1 DEF LinkLost, ServerCloses
  <1> QED
    BY <1>3, <1>4, NowSane, ConcludeKept, FinishKept

\* A cut leaves of each block what the program has written or what was there.
LEMMA CutKept ==
    ASSUME Inv, Kept(Now, made), made' = made, ~mixed',
           \/ RebootTimer \/ PowerCut
           \/ \E ch \in Channels : CutSaving(ch) \/ \E n \in 1 .. 2 : CutInstall(ch, n)
    PROVE  Kept(Now, made)'
  <1>1. /\ Sized(upgrade, made) /\ Sized(flash, made) /\ Counter(saved)
        /\ upgrade # None => Counts(saved, upgrade, made)
        /\ flash # None => Counts(saved, flash, made)
    BY NowFields DEF Kept, Solid
  <1>2. CASE RebootTimer
    BY <1>1, <1>2, RestartKept DEF RebootTimer
  <1>3. CASE PowerCut
    <2>1. upgrade' \in Survivors /\ flash' = upgrade' /\ saved' = saved /\ Restart
      BY <1>3 DEF PowerCut
    <2>2. CASE upgrade' \in {upgrade, flash}
      BY <1>1, <2>1, <2>2, RestartKept
    <2>3. CASE /\ upgrade # None /\ flash # None /\ DOMAIN upgrade = DOMAIN flash
               /\ upgrade' \in {[b \in DOMAIN flash |-> IF b \in kept THEN upgrade[b] ELSE flash[b]] :
                                kept \in SUBSET {b \in DOMAIN flash : upgrade[b] # flash[b]}}
      <3>1. PICK kept : upgrade' = [b \in DOMAIN flash |->
                                       IF b \in kept THEN upgrade[b] ELSE flash[b]]
        BY <2>3
      <3>2. /\ DOMAIN upgrade' = DOMAIN flash
            /\ \A b \in DOMAIN flash : upgrade'[b] \in {upgrade[b], flash[b]}
        BY <3>1
      <3>3. Sized(upgrade', made)
        BY <1>1, <2>3, <3>2 DEF Sized
      <3>4. Counts(saved, upgrade', made)
        <4> SUFFICES ASSUME saved.check \in Files, saved.check = made,
                            NEW b \in 0 .. saved.current - 1
                     PROVE  upgrade'[b] = saved.check
          BY DEF Counts
        <4>1. saved.total = Blocks[saved.check] /\ saved.current \in 0 .. saved.total
          BY <1>1, NoStateIs DEF Counter
        <4>2. b \in DOMAIN flash
          BY <1>1, <2>3, <4>1, FilesSize DEF Sized
        <4>3. upgrade[b] = saved.check /\ flash[b] = saved.check
          BY <1>1, <2>3, <3>2 DEF Counts
        <4> QED
          BY <3>2, <4>2, <4>3
      <3> QED
        BY <1>1, <2>1, <3>3, <3>4, RestartKept
    <2> QED
      BY <2>1, <2>2, <2>3 DEF Survivors
  <1>4. ASSUME NEW ch \in Channels, Takes(ch), Mixed(ch), Restart,
               upgrade' = Got(ch).upgrade, flash' = upgrade', saved' = NoState \/ saved' = saved
        PROVE  Kept(Now, made)'
    <2>1. Kept(Got(ch), made) /\ Got(ch).saved = saved /\ Got(ch).ext.open
      BY <1>4, GotKept DEF Mixed
    <2>2. Sized(upgrade', made) /\ Counts(saved, upgrade', made)
      BY <1>4, <2>1 DEF Kept, Solid
    <2>3. Counter(saved') /\ Counts(saved', upgrade', made)
      BY <1>1, <1>4, <2>2, NoStateIs DEF Counts
    <2> QED
      BY <1>4, <2>2, <2>3, RestartKept
  <1>5. ASSUME NEW ch \in Channels, CutSaving(ch) PROVE Kept(Now, made)'
    BY <1>4, <1>5 DEF CutSaving
  <1>6. ASSUME NEW ch \in Channels, NEW n \in 1 .. 2, CutInstall(ch, n) PROVE Kept(Now, made)'
    BY <1>4, <1>6 DEF CutInstall
  <1> QED
    BY <1>2, <1>3, <1>5, <1>6

LEMMA InitKept == Init => CountInv
  <1>1. Empty \in [Channels -> Seq(Fit)]
    BY DEF Empty
  <1>2. Fetched(NoFile, None, made) /\ ~NoFile.open /\ NoFile.current \in Nat
    BY DEF Fetched, NoFile
  <1>3. Solid(NoFile, None, None, NoState, made)
    BY <1>2, GoneIsKept, NoStateIs
  <1> QED
    BY <1>1, <1>3 DEF Init, CountInv, Kept, Now

\* Only a download that starts makes the upgrade file anew.
LEMMA NextMakes == ASSUME [Next]_vars PROVE Ready \/ FileConnected \/ made' = made
  BY DEF Next, Unit, Delivery, Trouble, NothingNew, Quietly, Begin, FileInit, RebootTimer,
         AsksAgain, AsksNoMore, Timed, Receive, Ignore, Block, NextWindow, FileEnds, WriteFails,
         After, Timeout, RequestsAgain, GivesUp, Arrive, Switch, FileStrike, Slow, LinkLost,
         PowerCut, Lose, ServerCloses, CutSaving, CutInstall, vars

LEMMA NextKept == Inv /\ CountInv /\ [Next]_vars => CountInv'
  <1> SUFFICES ASSUME Inv, CountInv, [Next]_vars, ~mixed' PROVE Kept(Now, made)'
    BY DEF CountInv
  <1>1. ~mixed
    BY DEF Next, Unit, Delivery, Trouble, Ready, NothingNew, Quietly, Begin, FileInit,
           FileConnected, RebootTimer, AsksAgain, AsksNoMore, Timed, Receive, Ignore, Block,
           NextWindow, FileEnds, WriteFails, Mixed, Timeout, RequestsAgain, GivesUp, Arrive,
           Switch, FileStrike, Slow, LinkLost, PowerCut, Lose, ServerCloses, CutSaving,
           CutInstall, vars
  <1>2. Kept(Now, made)
    BY <1>1 DEF CountInv
  <1>3. CASE NothingNew
    <2>1. fifo["upd"] # <<>> /\ Finish(Popped("upd")) /\ "upd" \in Channels /\ made' = made
      BY <1>3 DEF NothingNew, Reads, Channels, Quietly
    <2> QED
      BY <1>2, <2>1, PoppedSane, PoppedKept, FinishKept DEF Inv
  <1>4. Ready \/ FileConnected \/ made' = made
    BY NextMakes
  <1> QED
    BY <1>2, <1>3, <1>4, ReadyKept, ReceiveKept, ClockKept, FileSocketKept, BeginKept, NetKept,
       CloseKept, CutKept
       DEF Next, Unit, Delivery, Trouble

LEMMA AlwaysCounted == Spec => []CountInv
  BY InitKept, NextKept, AlwaysInv, PTL DEF Spec

(* A download that is resumed never skips a block a power cut has taken back. *)
THEOREM ResumesWhereItWas == Spec => []CountedIsThere
  <1>1. CountInv => CountedIsThere
    BY NowFields, NoStateIs DEF CountInv, Kept, Solid, Counter, Counts, CountedIsThere
  <1> QED
    BY <1>1, AlwaysCounted, PTL
------------------------------------------------------------------------------
(* The types.  A download that is open has a file to write to, and nothing   *)
(* that is on its way names a block its file does not have; the counts of    *)
(* failures stay below the limit of what is counted.                         *)
ExtOk(e) ==
    /\ e.check \in Files \union {None} /\ e.total \in Sizes \union {0}
    /\ e.current \in 0 .. e.total
    /\ \A b \in e.got : b \in Nat /\ \E n \in Sizes : b < n
    /\ e.open \in BOOLEAN /\ e.new \in BOOLEAN
    /\ e.result \in {"FINISH", "UPDATED", "FAILED"}
StateOk(s) == s = NoState \/ /\ s.check \in Files /\ s.total \in Sizes
                             /\ s.current \in 0 .. s.total - 1
Queues == {q \in [Channels -> Seq(Message)] : \A ch \in Channels : Len(q[ch]) <= FIFO_MESSAGES}
Typed(w) ==
    /\ w.getting \in BOOLEAN /\ w.listed \in BOOLEAN /\ ExtOk(w.ext)
    /\ w.fsock \in {"none", "INIT", "CONNECTING", "WORK"}
    /\ w.net \subseteq Message /\ w.fifo \in Queues
    /\ (w.upgrade = None <=> w.flash = None) /\ (w.ext.open => w.upgrade # None)
    /\ (w.upgrade # None => Content(w.upgrade) /\ Content(w.flash))
    /\ StateOk(w.saved)

\* Failures of one socket.
Limit(ch) == IF ch = "upd" THEN MAX_MESSAGE_REPEAT ELSE MAX_CONNECT_REPEAT
Few(ch, n) == n \in Nat /\ (n < BLOCK_REPEAT \/ n < Limit(ch))
FailCounts == {f \in [Channels -> Nat] : \A ch \in Channels : Few(ch, f[ch])}

Types ==
    /\ status \in {"WORK", "DATA_FINISH", "DEAD"} /\ pc \in {"idle", "receive"}
    /\ rebooting \in BOOLEAN /\ late \in BOOLEAN /\ mixed \in BOOLEAN
    /\ made \in Files \union {None}
    /\ faults \in 0 .. MaxFaults /\ switches \in 0 .. MaxSwitches
TypeInv == Typed(Now) /\ fails \in FailCounts /\ Types

LEMMA SizesAre == /\ Sizes \subseteq Nat \ {0}
                  /\ \A f \in Files : Blocks[f] \in Sizes
  BY FilesSize DEF Sizes

LEMMA Zero == ASSUME NEW ch \in Channels
              PROVE  Few(ch, 0)
  BY LimitsAssumption DEF Few, Limit

\* None is no file.
LEMMA SomeContent == ASSUME NEW u, Content(u), u = [b \in DOMAIN u |-> u[b]]
                     PROVE  u # None
  <1>0. PICK f \in Files : \E n \in 1 .. Blocks[f] : DOMAIN u = 0 .. n - 1
    BY DEF Content
  <1>1. PICK n \in 1 .. Blocks[f] : DOMAIN u = 0 .. n - 1
    BY <1>0
  <1>2. u \in [0 .. n - 1 -> Files \union {None}]
    BY <1>1 DEF Content
  <1> QED
    BY <1>1, <1>2, ImageAssumption

LEMMA BlankContent == ASSUME NEW f \in Files
                      PROVE  Content(Blank(Blocks[f])) /\ Blank(Blocks[f]) # None
  <1>1. Blocks[f] \in 1 .. Blocks[f]
    BY FilesSize
  <1>2. Content(Blank(Blocks[f]))
    BY <1>1 DEF Content, Blank
  <1> QED
    BY <1>2, SomeContent DEF Blank

\* A block beyond the end makes the file longer, and nothing between is lost.
LEMMA WrittenContent ==
    ASSUME Content(upgrade), NEW g \in Files, NEW b \in Nat, b < Blocks[g]
    PROVE  Content(Written(b, g)) /\ Written(b, g) # None
  <1>0. PICK f \in Files : \E n \in 1 .. Blocks[f] : DOMAIN upgrade = 0 .. n - 1
    BY DEF Content
  <1>1. PICK n \in 1 .. Blocks[f] : DOMAIN upgrade = 0 .. n - 1
    BY <1>0
  <1>2. Blocks[f] \in Nat /\ Blocks[g] \in Nat
    BY FilesSize
  <1>3. PICK u : u = Written(b, g)
    OBVIOUS
  <1>4. /\ DOMAIN u = DOMAIN upgrade \union 0 .. b /\ u = [x \in DOMAIN u |-> u[x]]
        /\ \A x \in DOMAIN u :
               u[x] = IF x = b THEN g ELSE IF x \in DOMAIN upgrade THEN upgrade[x] ELSE None
    BY <1>3 DEF Written
  <1>5. \A x \in DOMAIN u : u[x] \in Files \union {None}
    BY <1>4 DEF Content
  <1>6. \E h \in Files : \E k \in 1 .. Blocks[h] : DOMAIN u = 0 .. k - 1
    <2>1. CASE b < n
      <3>1. DOMAIN u = 0 .. n - 1
        BY <1>1, <1>2, <1>4, <2>1
      <3> QED
        BY <1>1, <3>1
    <2>2. CASE b >= n
      <3>1. DOMAIN u = 0 .. (b + 1) - 1 /\ b + 1 \in 1 .. Blocks[g]
        BY <1>1, <1>2, <1>4, <2>2
      <3> QED
        BY <3>1
    <2> QED
      BY <1>1, <1>2, <2>1, <2>2
  <1>7. Content(u)
    BY <1>5, <1>6 DEF Content
  <1> QED
    BY <1>3, <1>4, <1>7, SomeContent

LEMMA NowTyped ==
    /\ Now.getting = getting /\ Now.listed = listed /\ Now.fsock = fsock /\ Now.fails = fails
    /\ Now.ext = ext /\ Now.net = net /\ Now.fifo = fifo /\ Now.saved = saved
    /\ Now.upgrade = upgrade /\ Now.flash = flash
  BY DEF Now

LEMMA LeaveTyped ==
    ASSUME NEW w, Typed(w), w.fails \in FailCounts, Leave(w)
    PROVE  Typed(Now)' /\ fails' \in FailCounts
  <1>1. /\ getting' = w.getting /\ ext' = w.ext /\ fails' = w.fails /\ fsock' = w.fsock
        /\ listed' = w.listed /\ net' = w.net /\ fifo' = w.fifo
        /\ upgrade' = w.upgrade /\ flash' = w.flash /\ saved' = w.saved
    BY DEF Leave
  <1> QED
    BY <1>1 DEF Typed, Now

LEMMA StayTyped ==
    ASSUME NEW w, Typed(w), w.fails \in FailCounts, Stay(w)
    PROVE  Typed(Now)' /\ fails' \in FailCounts
  BY LeaveTyped DEF Stay

LEMMA FailedTyped ==
    ASSUME NEW w, Sane(w), Typed(w)
    PROVE  /\ Sane(Failed(w)) /\ Typed(Failed(w)) /\ Failed(w).fails = w.fails
           /\ Failed(w).ext.result = "FAILED"
  <1>1. PICK e : e = [w.ext EXCEPT !.result = "FAILED"]
    OBVIOUS
  <1>2. PICK l : l = [w EXCEPT !.ext = e]
    OBVIOUS
  <1>3. Record(w) /\ IsExt(w.ext)
    BY DEF Sane
  <1>4. Failed(w) = l
    BY <1>1, <1>2, <1>3 DEF Failed, Record
  <1>5. /\ e.check = w.ext.check /\ e.current = w.ext.current /\ e.total = w.ext.total
        /\ e.open = w.ext.open /\ e.got = w.ext.got /\ e.new = w.ext.new /\ e.result = "FAILED"
    BY <1>1, <1>3 DEF IsExt
  <1>6. /\ l.ext = e /\ l.net = w.net /\ l.fifo = w.fifo /\ l.upgrade = w.upgrade
        /\ l.flash = w.flash /\ l.saved = w.saved /\ l.getting = w.getting
        /\ l.listed = w.listed /\ l.fsock = w.fsock /\ l.fails = w.fails
    BY <1>2, <1>3 DEF Record
  <1>7. ExtOk(e)
    BY <1>5 DEF Typed, ExtOk
  <1>8. Typed(l)
    BY <1>5, <1>6, <1>7 DEF Typed
  <1> QED
    BY <1>4, <1>5, <1>6, <1>8, FailedSane

LEMMA EmptiedQueue == ASSUME NEW q \in Queues, NEW ch \in Channels
                      PROVE  [q EXCEPT ![ch] = <<>>] \in Queues
  <1>1. PICK k : k = [q EXCEPT ![ch] = <<>>]
    OBVIOUS
  <1>2. k \in [Channels -> Seq(Message)] /\ \A c \in Channels : k[c] \in {q[c], <<>>}
    BY <1>1 DEF Queues
  <1>3. Len(<<>>) = 0 /\ FIFO_MESSAGES \in Nat
    BY LimitsAssumption
  <1> QED
    BY <1>1, <1>2, <1>3 DEF Queues

\* The count of UPDATE is reset, whatever it has been.
LEMMA ConcludeTyped ==
    ASSUME NEW w, Sane(w), Typed(w), w.fails \in [Channels -> Nat], Few("file", w.fails["file"]),
           Typed(Now), Conclude(w)
    PROVE  Typed(Now)' /\ fails' \in FailCounts
  <1> DEFINE done == w.ext.result = "UPDATED"
  <1>0. {"upd", "file"} = Channels
    BY DEF Channels
  <1>1. PICK via : via = Via("file")
    OBVIOUS
  <1>2. PICK shut : shut = IF w.ext.new THEN [w EXCEPT !.fsock = "none", !.fifo.file = <<>>,
                                                       !.fails.file = 0, !.net = {}]
                           ELSE [w EXCEPT !.net = via]
    OBVIOUS
  <1>3. PICK u : u = IF done THEN None ELSE shut.upgrade
    OBVIOUS
  <1>4. PICK v : v = IF done THEN None ELSE shut.flash
    OBVIOUS
  <1>5. PICK l : l = [shut EXCEPT !.fails.upd = 0, !.upgrade = u, !.flash = v]
    OBVIOUS
  <1>6. Record(w)
    BY DEF Sane
  <1>7. /\ Record(shut) /\ shut.ext = w.ext /\ shut.upgrade = w.upgrade /\ shut.flash = w.flash
        /\ shut.saved = w.saved /\ shut.net \in {{}, via} /\ shut.getting = w.getting
        /\ shut.listed = w.listed /\ shut.fsock \in {w.fsock, "none"}
        /\ shut.fifo \in {w.fifo, [w.fifo EXCEPT !["file"] = <<>>]}
        /\ shut.fails \in {w.fails, [w.fails EXCEPT !["file"] = 0]}
    <2>1. CASE w.ext.new
      <3>1. PICK q : q = [w.fifo EXCEPT !["file"] = <<>>]
        OBVIOUS
      <3>2. PICK c : c = [w.fails EXCEPT !["file"] = 0]
        OBVIOUS
      <3>3. PICK k : k = [w EXCEPT !.fsock = "none", !.fifo.file = <<>>,
                                   !.fails.file = 0, !.net = {}]
        OBVIOUS
      <3>4. /\ Record(k) /\ k.ext = w.ext /\ k.upgrade = w.upgrade /\ k.flash = w.flash
            /\ k.saved = w.saved /\ k.net = {} /\ k.fifo = q /\ k.fails = c
            /\ k.getting = w.getting /\ k.listed = w.listed /\ k.fsock = "none"
        BY <1>6, <3>1, <3>2, <3>3 DEF Record
      <3> QED
        BY <1>2, <2>1, <3>1, <3>2, <3>3, <3>4
    <2>2. CASE ~w.ext.new
      <3>1. PICK k : k = [w EXCEPT !.net = via]
        OBVIOUS
      <3>2. /\ Record(k) /\ k.ext = w.ext /\ k.upgrade = w.upgrade /\ k.flash = w.flash
            /\ k.saved = w.saved /\ k.net = via /\ k.fifo = w.fifo /\ k.fails = w.fails
            /\ k.getting = w.getting /\ k.listed = w.listed /\ k.fsock = w.fsock
        BY <1>6, <3>1 DEF Record
      <3> QED
        BY <1>2, <2>2, <3>1, <3>2
    <2> QED
      BY <2>1, <2>2
  <1>8. PICK c : c = [shut.fails EXCEPT !["upd"] = 0]
    OBVIOUS
  <1>9. /\ l.ext = w.ext /\ l.upgrade = u /\ l.flash = v /\ l.saved = w.saved
        /\ l.net = shut.net /\ l.fifo = shut.fifo /\ l.fails = c /\ l.getting = w.getting
        /\ l.listed = w.listed /\ l.fsock = shut.fsock
    BY <1>5, <1>7, <1>8 DEF Record
  <1>10. Leave(l)
    BY <1>1, <1>2, <1>3, <1>4, <1>5 DEF Conclude
  <1>11. l.net \subseteq Message
    BY <1>1, <1>7, <1>9, NowTyped DEF Typed, Via
  <1>12. l.fifo \in Queues
    <2>1. w.fifo \in Queues
      BY DEF Typed
    <2>2. [w.fifo EXCEPT !["file"] = <<>>] \in Queues
      BY <1>0, <2>1, EmptiedQueue
    <2> QED
      BY <1>7, <1>9, <2>1, <2>2
  <1>13. l.fails \in FailCounts
    <2>1. shut.fails \in [Channels -> Nat] /\ Few("file", shut.fails["file"])
      BY <1>0, <1>7, Zero
    <2>2. c \in [Channels -> Nat] /\ Few("file", c["file"]) /\ c["upd"] = 0
      BY <1>0, <1>8, <2>1
    <2>3. Few("upd", 0)
      BY <1>0, Zero
    <2> QED
      BY <1>0, <1>9, <2>2, <2>3 DEF FailCounts
  <1>14. /\ (u = None <=> v = None) /\ (w.ext.open => u # None)
         /\ (u # None => Content(u) /\ Content(v))
    BY <1>3, <1>4, <1>7 DEF Typed, Sane
  <1>15. l.fsock \in {"none", "INIT", "CONNECTING", "WORK"}
    BY <1>7, <1>9 DEF Typed
  <1>16. Typed(l)
    BY <1>9, <1>11, <1>12, <1>14, <1>15 DEF Typed
  <1> QED
    BY <1>10, <1>13, <1>16, LeaveTyped

LEMMA FinishTyped ==
    ASSUME NEW w, Sane(w), Typed(w), w.fails \in [Channels -> Nat], Few("file", w.fails["file"]),
           Typed(Now), Finish(w)
    PROVE  Typed(Now)' /\ fails' \in FailCounts
  <1>0. {"upd", "file"} = Channels
    BY DEF Channels
  <1>1. PICK via : via = Via("file")
    OBVIOUS
  <1>2. PICK c : c = [w.fails EXCEPT !["upd"] = 0]
    OBVIOUS
  <1>3. PICK l : l = [w EXCEPT !.net = via, !.fails.upd = 0]
    OBVIOUS
  <1>4. /\ l.ext = w.ext /\ l.upgrade = w.upgrade /\ l.flash = w.flash /\ l.saved = w.saved
        /\ l.net = via /\ l.fifo = w.fifo /\ l.fails = c /\ l.getting = w.getting
        /\ l.listed = w.listed /\ l.fsock = w.fsock
    BY <1>2, <1>3 DEF Sane, Record
  <1>5. Leave(l)
    BY <1>1, <1>3 DEF Finish
  <1>6. via \subseteq Message
    BY <1>1, NowTyped DEF Typed, Via
  <1>7. c \in FailCounts
    BY <1>0, <1>2, Zero DEF FailCounts
  <1>8. Typed(l)
    BY <1>4, <1>6 DEF Typed
  <1> QED
    BY <1>4, <1>5, <1>7, <1>8, LeaveTyped

\* Only blocks that the file has are answered.
LEMMA SendTyped ==
    ASSUME NEW w, Sane(w), Typed(w), w.fails \in FailCounts, Typed(Now),
           w.ext.check \in Files, NEW ch \in Channels, Send(w, ch)
    PROVE  Typed(Now)' /\ fails' \in FailCounts
  <1>1. Answers(w.ext, ch) \subseteq Message
    <2> SUFFICES ASSUME NEW m \in Answers(w.ext, ch) PROVE m \in Message
      OBVIOUS
    <2>1. PICK b \in Wanted(w.ext) : /\ b < Blocks[w.ext.check]
                                     /\ m = [ch |-> ch, kind |-> "DATA", file |-> w.ext.check,
                                             block |-> b]
      BY DEF Answers
    <2>2. w.ext.current \in Nat /\ ONE_SEND \in Nat
      BY LimitsAssumption, SizesAre DEF Typed, ExtOk
    <2>3. b \in Nat
      BY <2>1, <2>2 DEF Wanted, Window
    <2> QED
      BY <2>1, <2>3 DEF Message
  <1>2. PICK n : n = w.net \union Answers(w.ext, ch)
    OBVIOUS
  <1>3. PICK l : l = [w EXCEPT !.net = n]
    OBVIOUS
  <1>4. Record(w)
    BY DEF Sane
  <1>5. /\ l.ext = w.ext /\ l.upgrade = w.upgrade /\ l.flash = w.flash /\ l.saved = w.saved
        /\ l.net = n /\ l.fifo = w.fifo /\ l.fails = w.fails /\ l.getting = w.getting
        /\ l.listed = w.listed /\ l.fsock = w.fsock
    BY <1>3, <1>4 DEF Record
  <1>6. Typed(l)
    BY <1>1, <1>2, <1>5 DEF Typed
  <1>7. CASE Stay(l)
    BY <1>5, <1>6, <1>7, StayTyped
  <1>8. CASE Conclude(Failed(w))
    <2>1. w.fails \in [Channels -> Nat] /\ Few("file", w.fails["file"])
      BY DEF FailCounts, Channels
    <2> QED
      BY <1>8, <2>1, FailedTyped, ConcludeTyped
  <1>9. l = [w EXCEPT !.net = @ \union Answers(w.ext, ch)]
    BY <1>2, <1>3
  <1> QED
    BY <1>7, <1>8, <1>9 DEF Send

LEMMA StartTyped ==
    ASSUME NEW w, Sane(w), Typed(w), w.fails \in FailCounts, Typed(Now), w.saved = saved,
           w.upgrade = upgrade, w.ext.check \in Files, NEW ch \in Channels, Start(w, ch)
    PROVE  Typed(Now)' /\ fails' \in FailCounts
  <1>1. PICK n : n = Blocks[w.ext.check]
    OBVIOUS
  <1>2. PICK e : e = [w.ext EXCEPT !.total = n, !.got = {}, !.current = 0, !.result = "FAILED"]
    OBVIOUS
  <1>3. /\ IsExt(e) /\ e.check = w.ext.check /\ e.total = n /\ e.got = {} /\ e.current = 0
        /\ e.result = "FAILED" /\ e.open = w.ext.open /\ e.new = w.ext.new
    BY <1>2 DEF Sane, IsExt
  <1>4. Record(w) /\ n \in Nat \ {0} /\ n \in Sizes
    BY <1>1, FilesSize, SizesAre DEF Sane
  <1>5. StateOk(saved) /\ StateOk(NoState)
    BY NowTyped DEF Typed, StateOk
  <1>6. ASSUME NEW l, NEW r, NEW u, NEW v, IsExt(r), r.check = w.ext.check, r.total = n,
               r.got = {}, r.current \in 0 .. n, r.result = "FAILED", r.open \in BOOLEAN,
               r.new = w.ext.new, StateOk(l.saved),
               l.getting = w.getting, l.listed = w.listed, l.fsock = w.fsock,
               l.net = w.net, l.fifo = w.fifo, l.ext = r, l.upgrade = u, l.flash = v,
               Record(l), u = None <=> v = None, r.open => u # None,
               u # None => Content(u) /\ Content(v)
        PROVE  Sane(l) /\ Typed(l) /\ l.ext.check \in Files
    <2>1. ExtOk(r)
      BY <1>4, <1>6 DEF ExtOk, Typed
    <2>2. Sane(l)
      BY <1>6 DEF Sane
    <2>3. Typed(l)
      BY <1>6, <2>1 DEF Typed
    <2> QED
      BY <1>6, <2>2, <2>3
  <1>7. ASSUME Same(e), upgrade # None,
               Send([w EXCEPT !.ext = Resumed(e), !.flash = upgrade], ch)
        PROVE  Typed(Now)' /\ fails' \in FailCounts
    <2>1. PICK c : c = saved.current
      OBVIOUS
    <2>2. PICK r : r = [e EXCEPT !.current = c, !.open = TRUE]
      OBVIOUS
    <2>3. r = Resumed(e)
      BY <2>1, <2>2 DEF Resumed
    <2>4. PICK l : l = [w EXCEPT !.ext = r, !.flash = upgrade]
      OBVIOUS
    <2>5. /\ Record(l) /\ l.ext = r /\ l.net = w.net /\ l.fifo = w.fifo
          /\ l.upgrade = upgrade /\ l.flash = upgrade /\ l.saved = saved /\ l.fails = w.fails
          /\ l.getting = w.getting /\ l.listed = w.listed /\ l.fsock = w.fsock
      BY <1>4, <2>4 DEF Record
    <2>6. saved.check = w.ext.check /\ saved.total = n
      BY <1>3, <1>7 DEF Same
    <2>7. c \in 0 .. n
      BY <1>4, <1>5, <2>1, <2>6, NoStateIs DEF StateOk
    <2>8. /\ IsExt(r) /\ r.check = w.ext.check /\ r.total = n /\ r.got = {}
          /\ r.current \in 0 .. n /\ r.result = "FAILED" /\ r.open = TRUE /\ r.new = w.ext.new
      BY <1>3, <2>2, <2>7 DEF IsExt
    <2>9. Content(upgrade)
      BY <1>7, NowTyped DEF Typed
    <2>10. Sane(l) /\ Typed(l) /\ l.ext.check \in Files
      BY <1>5, <1>6, <1>7, <2>5, <2>8, <2>9
    <2> QED
      BY <1>7, <2>3, <2>4, <2>5, <2>10, SendTyped
  <1>8. ASSUME NEW k, Record(k), k.ext = e, k.net = w.net, k.fifo = w.fifo, StateOk(k.saved),
               k.fails = w.fails, k.getting = w.getting, k.listed = w.listed, k.fsock = w.fsock,
               Send(Fresh(k, n), ch)
        PROVE  Typed(Now)' /\ fails' \in FailCounts
    <2>1. PICK u : u = Blank(n)
      OBVIOUS
    <2>2. Content(u) /\ u # None
      BY <1>1, <2>1, BlankContent
    <2>3. PICK r : r = [e EXCEPT !.open = TRUE]
      OBVIOUS
    <2>4. /\ IsExt(r) /\ r.check = w.ext.check /\ r.total = n /\ r.got = {} /\ r.current = 0
          /\ r.result = "FAILED" /\ r.open = TRUE /\ r.new = w.ext.new
      BY <1>3, <2>3 DEF IsExt
    <2>5. PICK l : l = [k EXCEPT !.ext = r, !.upgrade = u, !.flash = u]
      OBVIOUS
    <2>6. /\ Record(l) /\ l.ext = r /\ l.net = w.net /\ l.fifo = w.fifo
          /\ l.upgrade = u /\ l.flash = u /\ l.saved = k.saved /\ l.fails = w.fails
          /\ l.getting = w.getting /\ l.listed = w.listed /\ l.fsock = w.fsock
      BY <1>8, <2>5 DEF Record
    <2>7. l = Fresh(k, n)
      BY <1>8, <2>1, <2>3, <2>5 DEF Fresh, Record
    <2>8. 0 \in 0 .. n
      BY <1>4
    <2>9. Sane(l) /\ Typed(l) /\ l.ext.check \in Files
      BY <1>6, <1>8, <2>2, <2>4, <2>6, <2>8
    <2> QED
      BY <1>8, <2>6, <2>7, <2>9, SendTyped
  <1>9. ASSUME Send(Fresh([w EXCEPT !.ext = e, !.saved = NoState], n), ch)
        PROVE  Typed(Now)' /\ fails' \in FailCounts
    <2>1. PICK k : k = [w EXCEPT !.ext = e, !.saved = NoState]
      OBVIOUS
    <2>2. /\ Record(k) /\ k.ext = e /\ k.net = w.net /\ k.fifo = w.fifo /\ k.saved = NoState
          /\ k.fails = w.fails /\ k.getting = w.getting /\ k.listed = w.listed
          /\ k.fsock = w.fsock
      BY <1>4, <2>1 DEF Record
    <2> QED
      BY <1>5, <1>8, <1>9, <2>1, <2>2
  <1>10. ASSUME Send(Fresh([w EXCEPT !.ext = e], n), ch)
         PROVE  Typed(Now)' /\ fails' \in FailCounts
    <2>1. PICK k : k = [w EXCEPT !.ext = e]
      OBVIOUS
    <2>2. /\ Record(k) /\ k.ext = e /\ k.net = w.net /\ k.fifo = w.fifo /\ k.saved = saved
          /\ k.fails = w.fails /\ k.getting = w.getting /\ k.listed = w.listed
          /\ k.fsock = w.fsock
      BY <1>4, <2>1 DEF Record
    <2> QED
      BY <1>5, <1>8, <1>10, <2>1, <2>2
  <1>11. ASSUME NEW st, StateOk(st),
                Conclude([w EXCEPT !.ext = [e EXCEPT !.open = FALSE], !.upgrade = None,
                                   !.flash = None, !.saved = st])
         PROVE  Typed(Now)' /\ fails' \in FailCounts
    <2>1. PICK r : r = [e EXCEPT !.open = FALSE]
      OBVIOUS
    <2>2. /\ IsExt(r) /\ r.check = w.ext.check /\ r.total = n /\ r.got = {} /\ r.current = 0
          /\ r.result = "FAILED" /\ r.open = FALSE /\ r.new = w.ext.new
      BY <1>3, <2>1 DEF IsExt
    <2>3. PICK l : l = [w EXCEPT !.ext = r, !.upgrade = None, !.flash = None, !.saved = st]
      OBVIOUS
    <2>4. /\ Record(l) /\ l.ext = r /\ l.net = w.net /\ l.fifo = w.fifo
          /\ l.upgrade = None /\ l.flash = None /\ l.saved = st /\ l.fails = w.fails
          /\ l.getting = w.getting /\ l.listed = w.listed /\ l.fsock = w.fsock
      BY <1>4, <2>3 DEF Record
    <2>5. 0 \in 0 .. n
      BY <1>4
    <2>6. Sane(l) /\ Typed(l)
      BY <1>6, <1>11, <2>2, <2>4, <2>5
    <2>7. l.fails \in [Channels -> Nat] /\ Few("file", l.fails["file"])
      BY <2>4 DEF FailCounts, Channels
    <2> QED
      BY <1>11, <2>1, <2>3, <2>6, <2>7, ConcludeTyped
  <1>12. \/ /\ Same(e) /\ upgrade # None
            /\ Send([w EXCEPT !.ext = Resumed(e), !.flash = upgrade], ch)
         \/ Send(Fresh([w EXCEPT !.ext = e, !.saved = NoState], n), ch)
         \/ Send(Fresh([w EXCEPT !.ext = e], n), ch)
         \/ Conclude([w EXCEPT !.ext = [e EXCEPT !.open = FALSE], !.upgrade = None,
                               !.flash = None, !.saved = IF Same(e) THEN NoState ELSE saved])
    BY <1>1, <1>2, Zenon DEF Start
  <1>13. StateOk(IF Same(e) THEN NoState ELSE saved)
    BY <1>5
  <1> QED
    BY <1>7, <1>9, <1>10, <1>11, <1>12, <1>13

LEMMA RestartTyped ==
    ASSUME Restart, Typed(Now), StateOk(saved'), upgrade' = flash',
           upgrade' # None => Content(upgrade')
    PROVE  Typed(Now)' /\ fails' \in FailCounts
  <1>1. /\ getting' = FALSE /\ ext' = NoFile /\ fails' = [ch \in Channels |-> 0]
        /\ fsock' = "none" /\ listed' = FALSE /\ net' = {} /\ fifo' = Empty
    BY DEF Restart
  <1>2. Empty \in Queues
    BY LimitsAssumption DEF Empty, Queues
  <1>3. ExtOk(NoFile) /\ ~NoFile.open
    BY DEF ExtOk, NoFile
  <1>4. fails' \in FailCounts
    BY <1>1, Zero DEF FailCounts
  <1> QED
    BY <1>1, <1>2, <1>3, <1>4 DEF Typed, Now

LEMMA PoppedTyped ==
    ASSUME Inv, Typed(Now), NEW ch \in Channels, fifo[ch] # <<>>
    PROVE  /\ Typed(Popped(ch)) /\ Head(fifo[ch]) \in Message
           /\ Popped(ch).flash = flash /\ Popped(ch).saved = saved /\ Popped(ch).fails = fails
           /\ Popped(ch).fsock = fsock /\ Popped(ch).listed = listed
  <1>1. fifo \in Queues
    BY NowTyped DEF Typed
  <1>2. /\ Tail(fifo[ch]) \in Seq(Message) /\ Head(fifo[ch]) \in Message
        /\ Len(Tail(fifo[ch])) <= FIFO_MESSAGES
    <2>1. fifo[ch] \in Seq(Message) /\ Len(fifo[ch]) <= FIFO_MESSAGES
      BY <1>1 DEF Queues
    <2>2. /\ Tail(fifo[ch]) \in Seq(Message) /\ Head(fifo[ch]) \in Message
          /\ Len(Tail(fifo[ch])) = Len(fifo[ch]) - 1 /\ Len(fifo[ch]) \in Nat
      BY <2>1
    <2> QED
      BY <2>1, <2>2, LimitsAssumption
  <1>3. PICK f : f = [fifo EXCEPT ![ch] = Tail(@)]
    OBVIOUS
  <1>4. PICK l : l = [Now EXCEPT !.fifo = f]
    OBVIOUS
  <1>5. l = Popped(ch)
    BY <1>3, <1>4 DEF Popped, Now
  <1>6. f \in Queues
    BY <1>1, <1>2, <1>3 DEF Queues
  <1>7. /\ l.ext = ext /\ l.net = net /\ l.fifo = f /\ l.upgrade = upgrade /\ l.flash = flash
        /\ l.saved = saved /\ l.fails = fails /\ l.getting = getting /\ l.listed = listed
        /\ l.fsock = fsock
    BY <1>4 DEF Now
  <1> QED
    BY <1>2, <1>5, <1>6, <1>7, NowTyped DEF Typed

\* A block is one that a file of the server has, of whatever file it is.
LEMMA GotTyped ==
    ASSUME Inv, Typed(Now), NEW ch \in Channels, Takes(ch)
    PROVE  /\ Sane(Got(ch)) /\ Typed(Got(ch)) /\ Got(ch).fails = fails
           /\ Got(ch).ext.check \in Files /\ Got(ch).ext.open /\ Got(ch).ext.result # "UPDATED"
           /\ Got(ch).saved = saved
  <1>1. fifo[ch] # <<>> /\ ext.open
    BY DEF Takes, Reads
  <1>2. /\ Sane(Popped(ch)) /\ Popped(ch).ext = ext /\ Popped(ch).upgrade = upgrade
        /\ Typed(Popped(ch)) /\ Head(fifo[ch]) \in Message
        /\ Popped(ch).flash = flash /\ Popped(ch).saved = saved /\ Popped(ch).fails = fails
    BY <1>1, PoppedSane, PoppedTyped DEF Inv
  <1>3. PICK m : m = Head(fifo[ch])
    OBVIOUS
  <1>4. PICK p : p = Popped(ch)
    OBVIOUS
  <1>5. PICK u : u = Written(m.block, m.file)
    OBVIOUS
  <1>6. PICK t : t = ext.got \union {m.block}
    OBVIOUS
  <1>7. PICK e : e = [ext EXCEPT !.got = t]
    OBVIOUS
  <1>8. PICK g : g = [p EXCEPT !.ext = e, !.upgrade = u]
    OBVIOUS
  <1>9. Record(p) /\ IsExt(ext)
    BY <1>2, <1>4 DEF Sane
  <1>10. g = Got(ch)
    BY <1>2, <1>3, <1>4, <1>5, <1>6, <1>7, <1>8, <1>9 DEF Got, Record
  <1>11. /\ e.check = ext.check /\ e.total = ext.total /\ e.current = ext.current
         /\ e.open = ext.open /\ e.got = t /\ e.new = ext.new /\ e.result = ext.result
    BY <1>7, <1>9 DEF IsExt
  <1>12. /\ g.ext = e /\ g.upgrade = u /\ g.flash = p.flash /\ g.saved = p.saved
         /\ g.net = p.net /\ g.fifo = p.fifo /\ g.fails = p.fails /\ g.getting = p.getting
         /\ g.listed = p.listed /\ g.fsock = p.fsock
    BY <1>8, <1>9 DEF Record
  <1>13. upgrade # None /\ flash # None /\ Content(upgrade) /\ Content(flash) /\ ExtOk(ext)
    BY <1>1, NowTyped DEF Typed
  <1>14. m.file \in Files /\ m.block \in Nat /\ m.block < Blocks[m.file]
    BY <1>2, <1>3 DEF Message
  <1>15. Content(u) /\ u # None
    BY <1>5, <1>13, <1>14, WrittenContent
  <1>16. ExtOk(e)
    BY <1>6, <1>11, <1>13, <1>14, SizesAre DEF ExtOk
  <1>17. Typed(g)
    BY <1>2, <1>4, <1>12, <1>13, <1>15, <1>16 DEF Typed
  <1> QED
    BY <1>1, <1>2, <1>4, <1>10, <1>11, <1>12, <1>17, GotSane DEF Inv

LEMMA ReadyTyped == ASSUME Inv, Typed(Now), fails \in FailCounts, Ready
                    PROVE  Typed(Now)' /\ fails' \in FailCounts
  <1>0. fifo["upd"] # <<>> /\ {"upd", "file"} = Channels
    BY DEF Ready, Reads, Channels
  <1>1. /\ Sane(Popped("upd")) /\ Popped("upd").ext = ext /\ Popped("upd").upgrade = upgrade
        /\ Popped("upd").getting = getting /\ Head(fifo["upd"]) \in Message
        /\ Typed(Popped("upd")) /\ Popped("upd").flash = flash /\ Popped("upd").saved = saved
        /\ Popped("upd").fails = fails /\ Popped("upd").fsock = fsock
        /\ Popped("upd").listed = listed
    BY <1>0, PoppedSane, PoppedTyped DEF Inv
  <1>2. PICK f : f = Head(fifo["upd"]).file
    OBVIOUS
  <1>3. PICK new \in BOOLEAN : new = (Home[f] = "file")
    BY Zenon
  <1>4. PICK p : p = Popped("upd")
    OBVIOUS
  <1>5. f \in Files
    BY <1>1, <1>2 DEF Message
  <1>6. PICK e : e = [ext EXCEPT !.check = f, !.new = new]
    OBVIOUS
  <1>7. Record(p) /\ IsExt(ext)
    BY <1>1, <1>4 DEF Sane
  <1>8. /\ IsExt(e) /\ e.check = f /\ e.open = ext.open /\ e.result = ext.result
        /\ e.total = ext.total /\ e.current = ext.current /\ e.got = ext.got /\ e.new = new
    BY <1>6, <1>7 DEF IsExt
  <1>9. PICK w : w = [p EXCEPT !.ext = e, !.getting = TRUE]
    OBVIOUS
  <1>10. /\ Record(w) /\ w.ext = e /\ w.net = p.net /\ w.fifo = p.fifo /\ w.upgrade = upgrade
         /\ w.flash = flash /\ w.saved = saved /\ w.fails = fails /\ w.getting = TRUE
         /\ w.listed = listed /\ w.fsock = fsock
    BY <1>1, <1>4, <1>7, <1>9 DEF Record
  <1>11. ExtOk(e)
    <2>1. ExtOk(ext)
      BY NowTyped DEF Typed
    <2> QED
      BY <1>3, <1>5, <1>8, <2>1 DEF ExtOk
  <1>12. Typed(w)
    BY <1>1, <1>4, <1>8, <1>10, <1>11, NowTyped DEF Typed
  <1>13. Sane(w)
    <2>1. p.net \subseteq Wire /\ p.fifo \in [Channels -> Seq(Wire)]
      BY <1>1, <1>4 DEF Sane
    <2>2. ext.open => ext.result # "UPDATED"
      BY NowSane DEF Sane
    <2> QED
      BY <1>5, <1>8, <1>10, <2>1, <2>2 DEF Sane
  <1>14. PICK x : x = IF new THEN [w EXCEPT !.fsock = "INIT", !.listed = TRUE, !.fails.file = 0,
                                            !.fifo.file = <<>>, !.net = Via("upd")]
                      ELSE w
    OBVIOUS
  <1>15. IF getting \/ new THEN Stay(x) ELSE Start(x, "upd")
    <2>1. w = [Popped("upd") EXCEPT !.ext.check = f, !.ext.new = new, !.getting = TRUE]
      BY <1>1, <1>4, <1>6, <1>7, <1>9 DEF Record
    <2> QED
      BY <1>2, <1>3, <1>14, <2>1 DEF Ready
  <1>16. CASE new
    <2>1. PICK v : v = Via("upd")
      OBVIOUS
    <2>2. PICK q : q = [w.fifo EXCEPT !["file"] = <<>>]
      OBVIOUS
    <2>3. PICK c : c = [fails EXCEPT !["file"] = 0]
      OBVIOUS
    <2>4. PICK l : l = [w EXCEPT !.fsock = "INIT", !.listed = TRUE, !.fails.file = 0,
                                 !.fifo.file = <<>>, !.net = v]
      OBVIOUS
    <2>5. /\ l.ext = w.ext /\ l.net = v /\ l.fifo = q /\ l.upgrade = w.upgrade
          /\ l.flash = w.flash /\ l.saved = w.saved /\ l.fails = c /\ l.getting = w.getting
          /\ l.listed = TRUE /\ l.fsock = "INIT"
      BY <1>10, <2>2, <2>3, <2>4 DEF Record
    <2>6. v \subseteq Message
      BY <2>1, NowTyped DEF Typed, Via
    <2>7. q \in Queues
      BY <1>0, <1>12, <2>2, EmptiedQueue DEF Typed
    <2>8. c \in FailCounts
      BY <1>0, <2>3, Zero DEF FailCounts
    <2>9. Typed(l)
      BY <1>12, <2>5, <2>6, <2>7 DEF Typed
    <2> QED
      BY <1>14, <1>15, <1>16, <2>1, <2>4, <2>5, <2>8, <2>9, StayTyped
  <1>17. CASE ~new
    <2>1. x = w
      BY <1>14, <1>17
    <2> QED
      BY <1>0, <1>5, <1>8, <1>10, <1>12, <1>13, <1>15, <1>17, <2>1, StayTyped, StartTyped
  <1> QED
    BY <1>16, <1>17

LEMMA ReceiveTyped ==
    ASSUME Inv, Typed(Now), fails \in FailCounts, NEW ch \in Channels, Receive(ch)
    PROVE  Typed(Now)' /\ fails' \in FailCounts
  <1>0. fifo[ch] # <<>> /\ {"upd", "file"} = Channels
    BY DEF Receive, Ignore, Block, NextWindow, FileEnds, WriteFails, Takes, Reads, Channels
  <1>1. /\ Sane(Popped(ch)) /\ Popped(ch).ext = ext /\ Popped(ch).upgrade = upgrade
        /\ Typed(Popped(ch)) /\ Popped(ch).flash = flash /\ Popped(ch).saved = saved
        /\ Popped(ch).fails = fails
    BY <1>0, PoppedSane, PoppedTyped DEF Inv
  <1>2. CASE Ignore(ch)
    BY <1>1, <1>2, StayTyped DEF Ignore
  <1>3. ASSUME NEW f \in FailCounts
        PROVE  f \in [Channels -> Nat] /\ Few("file", f["file"])
    BY <1>0 DEF FailCounts
  <1>4. CASE Block(ch)
    BY <1>4, GotTyped, StayTyped DEF Block
  <1>5. PICK g : g = Got(ch)
    OBVIOUS
  <1>6. ASSUME Takes(ch)
        PROVE  /\ Sane(g) /\ Typed(g) /\ g.fails = fails /\ g.ext.check \in Files /\ g.ext.open
               /\ g.ext.result # "UPDATED" /\ Record(g) /\ IsExt(g.ext) /\ g.ext.total \in Nat
               /\ g.ext.current \in Nat /\ ExtOk(g.ext)
    <2>1. /\ Sane(g) /\ Typed(g) /\ g.fails = fails /\ g.ext.check \in Files /\ g.ext.open
          /\ g.ext.result # "UPDATED"
      BY <1>5, <1>6, GotTyped
    <2>2. ExtOk(g.ext)
      BY <2>1 DEF Typed
    <2>3. g.ext.total \in Sizes \union {0} /\ g.ext.current \in 0 .. g.ext.total
      BY <2>2 DEF ExtOk
    <2>4. g.ext.total \in Nat /\ g.ext.current \in Nat
      <3>1. ASSUME NEW t \in Sizes \union {0}, NEW n \in 0 .. t PROVE t \in Nat /\ n \in Nat
        BY SizesAre
      <3> QED
        BY <2>3, <3>1
    <2> QED
      BY <2>1, <2>2, <2>4 DEF Sane
  <1>7. CASE NextWindow(ch)
    <2>1. PICK c : c = g.ext.current + ONE_SEND
      OBVIOUS
    <2>2. PICK e : e = [g.ext EXCEPT !.current = c, !.got = {}]
      OBVIOUS
    <2>3. PICK s : s = [check |-> e.check, total |-> e.total, current |-> e.current]
      OBVIOUS
    <2>4. PICK k : k = [fails EXCEPT !["upd"] = 0]
      OBVIOUS
    <2>5. PICK l : l = [g EXCEPT !.ext = e, !.flash = g.upgrade, !.fails.upd = 0, !.saved = s]
      OBVIOUS
    <2>6. Saved(g) = l
      BY <2>1, <2>2, <2>3, <2>5 DEF Saved
    <2>7. Takes(ch) /\ ~Last(g)
      BY <1>5, <1>7 DEF NextWindow
    <2>8. /\ IsExt(e) /\ e.check = g.ext.check /\ e.total = g.ext.total /\ e.current = c
          /\ e.got = {} /\ e.open = g.ext.open /\ e.result = g.ext.result /\ e.new = g.ext.new
      BY <1>6, <2>2, <2>7 DEF IsExt
    <2>9. /\ Record(l) /\ l.ext = e /\ l.net = g.net /\ l.fifo = g.fifo /\ l.getting = g.getting
          /\ l.upgrade = g.upgrade /\ l.flash = g.upgrade /\ l.saved = s /\ l.fails = k
          /\ l.listed = g.listed /\ l.fsock = g.fsock
      BY <1>6, <2>4, <2>5, <2>7 DEF Record
    <2>10. Sane(l) /\ l.ext.check \in Files
      BY <1>6, <2>7, <2>8, <2>9 DEF Sane
    <2>11. c \in Nat /\ c < g.ext.total
      BY <1>6, <2>1, <2>7, LimitsAssumption DEF Last
    <2>12. ExtOk(e)
      BY <1>6, <2>7, <2>8, <2>11 DEF ExtOk
    <2>13. StateOk(s)
      <3>1. g.ext.total \in Sizes
        BY <1>6, <2>7, <2>11 DEF ExtOk
      <3>2. c \in 0 .. g.ext.total - 1
        BY <1>6, <2>7, <2>11
      <3> QED
        BY <1>6, <2>3, <2>7, <2>8, <3>1, <3>2 DEF StateOk
    <2>14. k \in FailCounts
      BY <1>0, <2>4, Zero DEF FailCounts
    <2>15. Typed(l)
      BY <1>6, <2>7, <2>8, <2>9, <2>12, <2>13 DEF Typed
    <2>16. Send(l, "upd")
      BY <1>5, <1>7, <2>6 DEF NextWindow
    <2> QED
      BY <1>0, <2>9, <2>10, <2>14, <2>15, <2>16, SendTyped
  <1>8. CASE FileEnds(ch)
    <2>1. Takes(ch)
      BY <1>8 DEF FileEnds
    <2>2. PICK r : r = IF Image(g.upgrade) = g.ext.check THEN "UPDATED" ELSE "FINISH"
      OBVIOUS
    <2>3. PICK e : e = [g.ext EXCEPT !.current = g.ext.total, !.got = {}, !.open = FALSE,
                                     !.result = r]
      OBVIOUS
    <2>4. PICK l : l = [g EXCEPT !.ext = e, !.flash = g.upgrade]
      OBVIOUS
    <2>5. Complete(g) = l
      BY <2>2, <2>3, <2>4 DEF Complete
    <2>6. /\ IsExt(e) /\ e.check = g.ext.check /\ e.open = FALSE /\ e.current = g.ext.total
          /\ e.total = g.ext.total /\ e.got = {} /\ e.new = g.ext.new
          /\ e.result \in {"UPDATED", "FINISH"}
      BY <1>6, <2>1, <2>2, <2>3 DEF IsExt
    <2>7. /\ Record(l) /\ l.ext = e /\ l.net = g.net /\ l.fifo = g.fifo /\ l.getting = g.getting
          /\ l.upgrade = g.upgrade /\ l.flash = g.upgrade /\ l.saved = g.saved
          /\ l.fails = fails /\ l.listed = g.listed /\ l.fsock = g.fsock
      BY <1>6, <2>1, <2>4 DEF Record
    <2>8. Sane(l)
      BY <1>6, <2>1, <2>6, <2>7 DEF Sane
    <2>9. ExtOk(e)
      <3>1. ExtOk(g.ext) /\ g.ext.total \in Nat
        BY <1>6, <2>1
      <3>2. \A t \in Nat : t \in 0 .. t
        OBVIOUS
      <3>3. e.current \in 0 .. e.total
        BY <2>6, <3>1, <3>2, Zenon
      <3> QED
        BY <2>6, <3>1, <3>3 DEF ExtOk
    <2>10. Typed(l)
      BY <1>6, <2>1, <2>6, <2>7, <2>9 DEF Typed
    <2>11. Conclude(l)
      BY <1>5, <1>8, <2>5 DEF FileEnds
    <2> QED
      BY <1>3, <2>7, <2>8, <2>10, <2>11, ConcludeTyped
  <1>9. CASE WriteFails(ch)
    <2>1. PICK p : p = Popped(ch)
      OBVIOUS
    <2>2. Sane(p) /\ Record(p) /\ IsExt(p.ext) /\ Typed(p) /\ ExtOk(p.ext)
      BY <1>1, <2>1 DEF Sane, Typed
    <2>3. PICK e : e = [p.ext EXCEPT !.open = FALSE]
      OBVIOUS
    <2>4. PICK l : l = [p EXCEPT !.ext = e, !.flash = upgrade]
      OBVIOUS
    <2>5. l = [p EXCEPT !.ext.open = FALSE, !.flash = upgrade]
      BY <2>2, <2>3, <2>4 DEF Record
    <2>6. /\ IsExt(e) /\ e.check = p.ext.check /\ e.open = FALSE /\ e.current = p.ext.current
          /\ e.total = p.ext.total /\ e.got = p.ext.got /\ e.new = p.ext.new
          /\ e.result = p.ext.result
      BY <2>2, <2>3 DEF IsExt
    <2>7. /\ Record(l) /\ l.ext = e /\ l.net = p.net /\ l.fifo = p.fifo /\ l.getting = p.getting
          /\ l.upgrade = p.upgrade /\ l.flash = p.upgrade /\ l.saved = p.saved
          /\ l.fails = fails /\ l.listed = p.listed /\ l.fsock = p.fsock
      BY <1>1, <2>1, <2>2, <2>4 DEF Record
    <2>8. Sane(l)
      BY <2>2, <2>6, <2>7 DEF Sane
    <2>9. ExtOk(e)
      BY <2>2, <2>6 DEF ExtOk
    <2>10. Typed(l)
      BY <2>2, <2>6, <2>7, <2>9 DEF Typed
    <2>11. Conclude(Failed(l))
      BY <1>9, <2>1, <2>5 DEF WriteFails
    <2> QED
      BY <1>3, <2>7, <2>8, <2>10, <2>11, FailedTyped, ConcludeTyped
  <1> QED
    BY <1>2, <1>4, <1>7, <1>8, <1>9 DEF Receive

LEMMA UnansweredTyped ==
    ASSUME Typed(Now), fails \in FailCounts, NEW ch \in Channels
    PROVE  /\ Typed(Unanswered(ch)) /\ Unanswered(ch).fails = [fails EXCEPT ![ch] = @ + 1]
           /\ Unanswered(ch).fails \in [Channels -> Nat]
           /\ \A c \in Channels \ {ch} : Few(c, Unanswered(ch).fails[c])
           /\ Few(ch, fails[ch] + 1) => Unanswered(ch).fails \in FailCounts
  <1>1. PICK f : f = [fails EXCEPT ![ch] = @ + 1]
    OBVIOUS
  <1>2. PICK l : l = [Now EXCEPT !.fails = f]
    OBVIOUS
  <1>3. Unanswered(ch) = l
    BY <1>1, <1>2 DEF Unanswered, Now
  <1>4. /\ l.ext = ext /\ l.upgrade = upgrade /\ l.flash = flash /\ l.saved = saved
        /\ l.net = net /\ l.fifo = fifo /\ l.fails = f /\ l.getting = getting
        /\ l.listed = listed /\ l.fsock = fsock
    BY <1>2 DEF Now
  <1>5. Typed(l)
    BY <1>4, NowTyped DEF Typed
  <1>6. f \in [Channels -> Nat]
    BY <1>1 DEF FailCounts
  <1>7. \A c \in Channels \ {ch} : Few(c, f[c])
    BY <1>1 DEF FailCounts
  <1>8. Few(ch, fails[ch] + 1) => f \in FailCounts
    BY <1>1, <1>6, <1>7 DEF FailCounts
  <1> QED
    BY <1>1, <1>3, <1>4, <1>5, <1>6, <1>7, <1>8

LEMMA ResponseTyped == ASSUME Inv PROVE Response \in Message
  <1>1. offer \in Files /\ Blocks[offer] \in Nat \ {0}
    BY NowSane, FilesSize
  <1> QED
    BY <1>1 DEF Response, Message, Channels

LEMMA ClockTyped ==
    ASSUME Inv, Typed(Now), fails \in FailCounts,
           AsksAgain \/ AsksNoMore \/ \E ch \in Channels : Timeout(ch)
    PROVE  Typed(Now)' /\ fails' \in FailCounts
  <1>0. {"upd", "file"} = Channels /\ \A ch \in Channels : fails[ch] \in Nat
    BY DEF Channels, FailCounts
  <1>1. CASE AsksAgain
    <2>1. PICK w : w = Unanswered("upd")
      OBVIOUS
    <2>2. PICK n : n = w.net \union {Response}
      OBVIOUS
    <2>3. PICK l : l = [w EXCEPT !.net = n]
      OBVIOUS
    <2>4. l = Asking(w)
      BY <2>2, <2>3 DEF Asking
    <2>5. Few("upd", fails["upd"] + 1)
      BY <1>0, <1>1 DEF AsksAgain, Few, Limit
    <2>6. Record(w) /\ Typed(w) /\ w.fails \in FailCounts
      BY <1>0, <2>1, <2>5, UnansweredSane, UnansweredTyped
    <2>7. /\ l.ext = w.ext /\ l.upgrade = w.upgrade /\ l.flash = w.flash /\ l.saved = w.saved
          /\ l.net = n /\ l.fifo = w.fifo /\ l.fails = w.fails /\ l.getting = w.getting
          /\ l.listed = w.listed /\ l.fsock = w.fsock
      BY <2>3, <2>6 DEF Record
    <2>8. Typed(l)
      BY <2>2, <2>6, <2>7, ResponseTyped DEF Typed
    <2> QED
      BY <1>1, <2>1, <2>4, <2>6, <2>7, <2>8, StayTyped DEF AsksAgain
  <1>2. CASE AsksNoMore
    BY <1>0, <1>2, UnansweredSane, UnansweredTyped, FinishTyped DEF AsksNoMore
  <1>3. ASSUME NEW ch \in Channels, RequestsAgain(ch)
        PROVE  Typed(Now)' /\ fails' \in FailCounts
    <2>1. ext.check \in Files /\ Send(Unanswered(ch), ch)
      BY <1>3, NowSane DEF RequestsAgain, Fetching, Sane
    <2>2. Few(ch, fails[ch] + 1)
      BY <1>0, <1>3 DEF RequestsAgain, Few
    <2> QED
      BY <2>1, <2>2, UnansweredSane, UnansweredTyped, SendTyped
  <1>4. ASSUME NEW ch \in Channels, GivesUp(ch)
        PROVE  Typed(Now)' /\ fails' \in FailCounts
    <2>1. fails \in [Channels -> Nat] /\ Few("file", fails["file"])
      BY <1>0 DEF FailCounts
    <2> QED
      BY <1>4, <2>1, NowSane, NowTyped, FailedTyped, ConcludeTyped DEF GivesUp
  <1> QED
    BY <1>1, <1>2, <1>3, <1>4 DEF Timeout

LEMMA FileSocketTyped ==
    ASSUME Inv, Typed(Now), fails \in FailCounts, FileInit \/ FileConnected \/ FileStrike
    PROVE  Typed(Now)' /\ fails' \in FailCounts
  <1>0. /\ {"upd", "file"} = Channels /\ \A ch \in Channels : fails[ch] \in Nat
        /\ fails \in [Channels -> Nat] /\ Few("file", fails["file"])
    BY DEF Channels, FailCounts
  <1>1. ASSUME NEW st \in {"CONNECTING", "WORK"},
               NEW l, l = [Now EXCEPT !.fsock = st, !.fails.file = 0]
        PROVE  /\ Sane(l) /\ Typed(l) /\ l.ext = ext /\ l.upgrade = upgrade /\ l.saved = saved
               /\ l.fails \in FailCounts
    <2>1. PICK c : c = [fails EXCEPT !["file"] = 0]
      OBVIOUS
    <2>2. /\ Record(l) /\ l.ext = ext /\ l.upgrade = upgrade /\ l.getting = getting /\ l.net = net
          /\ l.fifo = fifo /\ l.flash = flash /\ l.saved = saved /\ l.listed = listed
          /\ l.fsock = st /\ l.fails = c
      BY <1>1, <2>1, NowSane DEF Record, Now
    <2>3. net \subseteq Wire /\ fifo \in [Channels -> Seq(Wire)]
      BY NowSane DEF Sane
    <2>4. Sane(l)
      BY <2>2, <2>3, SameFile
    <2>5. c \in FailCounts
      BY <1>0, <2>1, Zero DEF FailCounts
    <2>6. Typed(l)
      BY <1>1, <2>2, NowTyped DEF Typed
    <2> QED
      BY <2>2, <2>4, <2>5, <2>6
  <1>2. CASE FileInit
    BY <1>1, <1>2, StayTyped DEF FileInit
  <1>3. CASE FileConnected
    <2>1. PICK l : l = [Now EXCEPT !.fsock = "WORK", !.fails.file = 0]
      OBVIOUS
    <2>2. Start(l, "file")
      BY <1>3, <2>1 DEF FileConnected
    <2>3. ext.check \in Files
      BY <1>3, NowSane DEF FileConnected, Sane
    <2> QED
      BY <1>0, <1>1, <2>1, <2>2, <2>3, StartTyped
  <1>4. CASE FileStrike
    <2>1. CASE Conclude(Failed(Now))
      BY <1>0, <2>1, NowSane, NowTyped, FailedTyped, ConcludeTyped
    <2>2. CASE Leave(Unanswered("file")) /\ ~(fails["file"] + 1 >= MAX_CONNECT_REPEAT)
      <3>1. Few("file", fails["file"] + 1)
        BY <1>0, <2>2, LimitsAssumption DEF Few, Limit
      <3> QED
        BY <1>0, <2>2, <3>1, UnansweredTyped, LeaveTyped
    <2> QED
      BY <1>4, <2>1, <2>2 DEF FileStrike
  <1> QED
    BY <1>2, <1>3, <1>4

LEMMA BeginTyped == ASSUME Inv, Typed(Now), fails \in FailCounts, Begin
                    PROVE  Typed(Now)' /\ fails' \in FailCounts
  <1>0. {"upd", "file"} = Channels
    BY DEF Channels
  <1>1. PICK q : q = [fifo EXCEPT !["file"] = <<>>]
    OBVIOUS
  <1>2. PICK c : c = [fails EXCEPT !["upd"] = 0]
    OBVIOUS
  <1>3. PICK w : w = [Now EXCEPT !.ext = NoFile, !.getting = FALSE, !.flash = upgrade,
                                 !.fails.upd = 0, !.fifo.file = <<>>, !.net = {}]
    OBVIOUS
  <1>4. /\ Record(w) /\ w.ext = NoFile /\ w.net = {} /\ w.fifo = q /\ w.fails = c
        /\ w.upgrade = upgrade /\ w.flash = upgrade /\ w.saved = saved
        /\ w.getting = FALSE /\ w.listed = listed /\ w.fsock = fsock
    BY <1>1, <1>2, <1>3, NowSane DEF Record, Now
  <1>5. PICK n : n = w.net \union {Response}
    OBVIOUS
  <1>6. PICK l : l = [w EXCEPT !.net = n]
    OBVIOUS
  <1>7. /\ l.ext = NoFile /\ l.net = n /\ l.fifo = q /\ l.fails = c
        /\ l.upgrade = upgrade /\ l.flash = upgrade /\ l.saved = saved
        /\ l.getting = FALSE /\ l.listed = listed /\ l.fsock = fsock
    BY <1>4, <1>6 DEF Record
  <1>8. l = Asking(w)
    BY <1>5, <1>6 DEF Asking
  <1>9. n \subseteq Message
    BY <1>4, <1>5, ResponseTyped
  <1>10. q \in Queues
    BY <1>0, <1>1, NowTyped, EmptiedQueue DEF Typed
  <1>11. c \in FailCounts
    BY <1>0, <1>2, Zero DEF FailCounts
  <1>12. ExtOk(NoFile) /\ ~NoFile.open
    BY DEF ExtOk, NoFile
  <1>13. Typed(l)
    BY <1>7, <1>9, <1>10, <1>12, NowTyped DEF Typed
  <1> QED
    BY <1>3, <1>7, <1>8, <1>11, <1>13, LeaveTyped DEF Begin

LEMMA NetTyped ==
    ASSUME Inv, Typed(Now), fails \in FailCounts,
           Slow \/ Switch \/ UNCHANGED vars \/ \E m \in net : Lose(m) \/ Arrive(m)
    PROVE  Typed(Now)' /\ fails' \in FailCounts
  <1>0. /\ net \subseteq Message /\ fifo \in Queues /\ {"upd", "file"} = Channels
        /\ fails \in [Channels -> Nat] /\ Few("file", fails["file"])
    BY NowTyped DEF Typed, Channels, FailCounts
  <1>1. CASE Slow \/ Switch \/ UNCHANGED vars \/ \E m \in net : Lose(m)
    <2>1. /\ net' \subseteq net /\ UNCHANGED <<getting, ext, fails, fsock, listed, fifo>>
          /\ UNCHANGED <<upgrade, flash, saved>>
      BY <1>1 DEF Slow, Switch, Lose, vars, ram, disk
    <2> QED
      BY <2>1 DEF Typed, Now
  <1>2. ASSUME NEW m \in net, Arrive(m)
        PROVE  Typed(Now)' /\ fails' \in FailCounts
    <2>1. m \in Message /\ m.ch \in Channels
      BY <1>0 DEF Message
    <2>2. CASE Len(fifo[m.ch]) < FIFO_MESSAGES
      <3>1. /\ fifo' = [fifo EXCEPT ![m.ch] = Append(@, m)] /\ net' \subseteq net
            /\ UNCHANGED <<getting, ext, fails, fsock, listed, upgrade, flash, saved>>
        BY <1>2, <2>2 DEF Arrive, disk
      <3>2. fifo[m.ch] \in Seq(Message)
        BY <1>0, <2>1 DEF Queues
      <3>3. /\ Append(fifo[m.ch], m) \in Seq(Message)
            /\ Len(Append(fifo[m.ch], m)) = Len(fifo[m.ch]) + 1 /\ Len(fifo[m.ch]) \in Nat
        BY <2>1, <3>2
      <3>4. Len(Append(fifo[m.ch], m)) <= FIFO_MESSAGES
        BY <2>2, <3>3, LimitsAssumption
      <3>5. fifo' \in Queues
        BY <1>0, <2>1, <3>1, <3>3, <3>4 DEF Queues
      <3> QED
        BY <3>1, <3>5 DEF Typed, Now
    <2>3. CASE Conclude(Now)
      BY <1>0, <2>3, NowSane, NowTyped, ConcludeTyped
    <2>4. CASE Stay([Now EXCEPT !.net = @ \ {m}])
      <3>1. PICK n : n = net \ {m}
        OBVIOUS
      <3>2. PICK l : l = [Now EXCEPT !.net = n]
        OBVIOUS
      <3>3. l = [Now EXCEPT !.net = @ \ {m}]
        BY <3>1, <3>2, NowSane DEF Record
      <3>4. /\ l.ext = ext /\ l.upgrade = upgrade /\ l.flash = flash /\ l.saved = saved
            /\ l.net = n /\ l.fifo = fifo /\ l.fails = fails /\ l.getting = getting
            /\ l.listed = listed /\ l.fsock = fsock
        BY <3>2 DEF Now
      <3>5. Typed(l)
        BY <1>0, <3>1, <3>4, NowTyped DEF Typed
      <3> QED
        BY <2>4, <3>3, <3>4, <3>5, StayTyped
    <2> QED
      BY <1>2, <2>2, <2>3, <2>4 DEF Arrive
  <1> QED
    BY <1>1, <1>2

LEMMA CloseTyped ==
    ASSUME Inv, Typed(Now), fails \in FailCounts,
           NothingNew \/ LinkLost \/ \E ch \in Channels : ServerCloses(ch)
    PROVE  Typed(Now)' /\ fails' \in FailCounts
  <1>0. fails \in [Channels -> Nat] /\ Few("file", fails["file"])
    BY DEF Channels, FailCounts
  <1>1. PICK l : l = [Now EXCEPT !.net = {}]
    OBVIOUS
  <1>2. /\ Record(l) /\ l.ext = ext /\ l.upgrade = upgrade /\ l.getting = getting /\ l.net = {}
        /\ l.fifo = fifo /\ l.flash = flash /\ l.saved = saved /\ l.fails = fails
        /\ l.listed = listed /\ l.fsock = fsock
    BY <1>1 DEF Record, Now
  <1>3. Sane(l)
    BY <1>2, NowSane, SameFile DEF Sane
  <1>4. Typed(l)
    BY <1>2, NowTyped DEF Typed
  <1>5. CASE NothingNew
    <2>1. fifo["upd"] # <<>> /\ Finish(Popped("upd")) /\ "upd" \in Channels
      BY <1>5 DEF NothingNew, Reads, Channels
    <2> QED
      BY <1>0, <2>1, PoppedSane, PoppedTyped, FinishTyped DEF Inv
  <1>6. CASE Conclude(l) \/ Finish(l) \/ Conclude(Now) \/ Finish(Now)
    BY <1>0, <1>2, <1>3, <1>4, <1>6, NowSane, NowTyped, ConcludeTyped, FinishTyped
  <1> QED
    BY <1>1, <1>5, <1>6 DEF LinkLost, ServerCloses

\* A cut leaves of each block what the program has written or what was there.
LEMMA CutTyped ==
    ASSUME Inv, Typed(Now), fails \in FailCounts,
           \/ RebootTimer \/ PowerCut
           \/ \E ch \in Channels : CutSaving(ch) \/ \E n \in 1 .. 2 : CutInstall(ch, n)
    PROVE  Typed(Now)' /\ fails' \in FailCounts
  <1>1. /\ StateOk(saved) /\ StateOk(NoState) /\ (upgrade = None <=> flash = None)
        /\ upgrade # None => Content(upgrade) /\ Content(flash)
    BY NowTyped DEF Typed, StateOk
  <1>2. CASE RebootTimer
    BY <1>1, <1>2, RestartTyped DEF RebootTimer
  <1>3. CASE PowerCut
    <2>1. upgrade' \in Survivors /\ flash' = upgrade' /\ saved' = saved /\ Restart
      BY <1>3 DEF PowerCut
    <2>2. CASE upgrade' \in {upgrade, flash}
      BY <1>1, <2>1, <2>2, RestartTyped
    <2>3. CASE /\ upgrade # None /\ flash # None /\ DOMAIN upgrade = DOMAIN flash
               /\ upgrade' \in {[b \in DOMAIN flash |-> IF b \in kept THEN upgrade[b] ELSE flash[b]] :
                                kept \in SUBSET {b \in DOMAIN flash : upgrade[b] # flash[b]}}
      <3>1. PICK kept : upgrade' = [b \in DOMAIN flash |->
                                       IF b \in kept THEN upgrade[b] ELSE flash[b]]
        BY <2>3
      <3>2. /\ DOMAIN upgrade' = DOMAIN flash
            /\ \A b \in DOMAIN flash : upgrade'[b] \in {upgrade[b], flash[b]}
        BY <3>1
      <3>3. Content(upgrade')
        BY <1>1, <2>3, <3>2 DEF Content
      <3> QED
        BY <1>1, <2>1, <3>3, RestartTyped
    <2> QED
      BY <2>1, <2>2, <2>3 DEF Survivors
  <1>4. ASSUME NEW ch \in Channels, Takes(ch), Restart,
               upgrade' = Got(ch).upgrade, flash' = upgrade', saved' = NoState \/ saved' = saved
        PROVE  Typed(Now)' /\ fails' \in FailCounts
    <2>1. Content(upgrade')
      BY <1>4, GotTyped DEF Typed
    <2> QED
      BY <1>1, <1>4, <2>1, RestartTyped
  <1>5. ASSUME NEW ch \in Channels, CutSaving(ch) PROVE Typed(Now)' /\ fails' \in FailCounts
    BY <1>4, <1>5 DEF CutSaving
  <1>6. ASSUME NEW ch \in Channels, NEW n \in 1 .. 2, CutInstall(ch, n)
        PROVE  Typed(Now)' /\ fails' \in FailCounts
    BY <1>4, <1>6 DEF CutInstall
  <1> QED
    BY <1>2, <1>3, <1>5, <1>6

LEMMA TypesStep == ASSUME Inv, Types, [Next]_vars PROVE Types'
  <1>1. /\ faults' \in 0 .. MaxFaults /\ switches' \in 0 .. MaxSwitches
        /\ late' \in BOOLEAN /\ mixed' \in BOOLEAN
    <2>1. faults' = faults \/ Fault
      BY DEF Next, Unit, Delivery, Trouble, Ready, NothingNew, Begin, FileInit,
             FileConnected, RebootTimer, AsksAgain, AsksNoMore, Receive, Ignore, Block,
             NextWindow, FileEnds, WriteFails, Timeout, RequestsAgain, GivesUp, Arrive,
             Switch, FileStrike, Slow, LinkLost, PowerCut, Lose, ServerCloses, CutSaving,
             CutInstall, vars, NoFault, Stay, Send, Start
    <2>2. switches' = switches \/ Switch
      BY DEF Next, Unit, Delivery, Trouble, Ready, NothingNew, Quietly, Begin, FileInit,
             FileConnected, RebootTimer, AsksAgain, AsksNoMore, Timed, Receive, Ignore, Block,
             NextWindow, FileEnds, WriteFails, After, Timeout, RequestsAgain, GivesUp, Arrive,
             FileStrike, Slow, LinkLost, PowerCut, Lose, ServerCloses, CutSaving,
             CutInstall, vars
    <2>3. late' = late \/ late' \in BOOLEAN
      BY DEF Next, Unit, Delivery, Trouble, Ready, NothingNew, Quietly, Begin, FileInit,
             FileConnected, RebootTimer, AsksAgain, AsksNoMore, Timed, Receive, Ignore, Block,
             NextWindow, FileEnds, WriteFails, After, Timeout, RequestsAgain, GivesUp, Arrive,
             Switch, ram, FileStrike, Slow, LinkLost, PowerCut, Lose, ServerCloses, CutSaving,
             CutInstall, vars, Restart
    <2>4. mixed' \in BOOLEAN
      BY DEF Types, Next, Unit, Delivery, Trouble, Ready, NothingNew, Quietly, Begin, FileInit,
             FileConnected, RebootTimer, AsksAgain, AsksNoMore, Timed, Receive, Ignore, Block,
             NextWindow, FileEnds, WriteFails, Mixed, Timeout, RequestsAgain, GivesUp, Arrive,
             Switch, FileStrike, Slow, LinkLost, PowerCut, Lose, ServerCloses, CutSaving,
             CutInstall, vars
    <2>5. MaxFaults \in Nat /\ MaxSwitches \in Nat
      BY LimitsAssumption
    <2>6. faults' \in 0 .. MaxFaults
      BY <2>1, <2>5 DEF Types, Fault
    <2>7. switches' \in 0 .. MaxSwitches
      BY <2>2, <2>5 DEF Types, Switch
    <2> QED
      BY <2>3, <2>4, <2>6, <2>7 DEF Types
  <1>2. ASSUME NEW w, Stay(w) \/ Finish(w) \/ Conclude(w)
        PROVE  /\ status' \in {"WORK", "DATA_FINISH", "DEAD"}
               /\ rebooting' = rebooting \/ rebooting' \in BOOLEAN
    BY <1>2 DEF Stay, Finish, Conclude, Types
  <1>3. ASSUME NEW w, NEW ch, Send(w, ch) \/ Start(w, ch)
        PROVE  /\ status' \in {"WORK", "DATA_FINISH", "DEAD"}
               /\ rebooting' = rebooting \/ rebooting' \in BOOLEAN
    BY <1>2, <1>3 DEF Send, Start
  <1>4. /\ status' \in {"WORK", "DATA_FINISH", "DEAD"}
        /\ rebooting' = rebooting \/ rebooting' \in BOOLEAN
    <2>1. CASE Unit
      BY <1>2, <1>3, <2>1
         DEF Types, Unit, Ready, NothingNew, Begin, FileInit, FileConnected, RebootTimer,
             AsksAgain, AsksNoMore, Receive, Ignore, Block, NextWindow, FileEnds, WriteFails,
             Timeout, RequestsAgain, GivesUp, Restart
    <2>2. CASE Delivery \/ Switch \/ Trouble \/ UNCHANGED vars
      BY <1>2, <1>3, <2>2
         DEF Types, Delivery, Trouble, Arrive, Switch, ram, FileStrike, Slow, LinkLost, PowerCut,
             Lose, ServerCloses, CutSaving, CutInstall, vars, Restart
    <2> QED
      BY <2>1, <2>2 DEF Next
  <1>5. pc' \in {"idle", "receive"}
    BY DEF Types, Next, Unit, Delivery, Trouble, Ready, NothingNew, Begin, FileInit,
           FileConnected, RebootTimer, AsksAgain, AsksNoMore, Timed, Receive, Ignore, Block,
           NextWindow, FileEnds, WriteFails, After, Rest, Timeout, RequestsAgain, GivesUp, Arrive,
           Switch, ram, FileStrike, Slow, LinkLost, PowerCut, Lose, ServerCloses, CutSaving,
           CutInstall, vars, Restart
  <1>6. made' \in Files \union {None}
    <2>1. Ready \/ FileConnected \/ made' = made
      BY NextMakes
    <2> QED
      BY <2>1, ReadyStep, FileSocketStep DEF Types
  <1> QED
    BY <1>1, <1>4, <1>5, <1>6 DEF Types

LEMMA InitTyped == Init => TypeInv
  <1> SUFFICES ASSUME Init PROVE TypeInv
    OBVIOUS
  <1>1. Empty \in Queues
    BY LimitsAssumption DEF Empty, Queues
  <1>2. ExtOk(NoFile) /\ ~NoFile.open
    BY DEF ExtOk, NoFile
  <1>3. Typed(Now)
    BY <1>1, <1>2 DEF Init, Typed, Now, StateOk
  <1>4. fails \in FailCounts
    BY Zero DEF Init, FailCounts
  <1>5. 0 \in 0 .. MaxFaults /\ 0 \in 0 .. MaxSwitches
    BY LimitsAssumption
  <1>6. Types
    BY <1>5 DEF Init, Types
  <1> QED
    BY <1>3, <1>4, <1>6 DEF TypeInv

LEMMA NextTyped == Inv /\ TypeInv /\ [Next]_vars => TypeInv'
  <1> SUFFICES ASSUME Inv, TypeInv, [Next]_vars PROVE TypeInv'
    OBVIOUS
  <1>1. Typed(Now) /\ fails \in FailCounts
    BY DEF TypeInv
  <1>2. Typed(Now)' /\ fails' \in FailCounts
    BY <1>1, ReadyTyped, ReceiveTyped, ClockTyped, FileSocketTyped, BeginTyped, NetTyped,
       CloseTyped, CutTyped
       DEF Next, Unit, Delivery, Trouble
  <1> QED
    BY <1>2, TypesStep DEF TypeInv

(* The variables keep their types: counts of failures stay below their       *)
(* limits, the receive buffers within their room, and an open download has a *)
(* file to write to, also when another offer has come between.               *)
THEOREM TypeCorrect == Spec => []TypeOK
  <1>1. Inv /\ TypeInv => TypeOK
    <2> SUFFICES ASSUME Inv, TypeInv PROVE TypeOK
      OBVIOUS
    <2>1. ExtOk(ext) /\ StateOk(saved) /\ fifo \in Queues
      BY NowTyped DEF TypeInv, Typed
    <2>2. Few("upd", fails["upd"]) /\ Few("file", fails["file"])
      BY DEF TypeInv, FailCounts, Channels
    <2>3. /\ getting \in BOOLEAN /\ listed \in BOOLEAN
          /\ fsock \in {"none", "INIT", "CONNECTING", "WORK"}
          /\ net \subseteq Message /\ (upgrade = None <=> flash = None)
          /\ (ext.open => upgrade # None)
          /\ (upgrade # None => Content(upgrade) /\ Content(flash))
      BY NowTyped DEF TypeInv, Typed
    <2>4. /\ fails.upd \in Nat /\ (fails.upd < BLOCK_REPEAT \/ fails.upd < MAX_MESSAGE_REPEAT)
          /\ fails.file \in Nat /\ (fails.file < BLOCK_REPEAT \/ fails.file < MAX_CONNECT_REPEAT)
      BY <2>2 DEF Few, Limit
    <2>5. \A ch \in Channels : fifo[ch] \in Seq(Message) /\ Len(fifo[ch]) <= FIFO_MESSAGES
      BY <2>1 DEF Queues
    <2>6. /\ {main, minor} \subseteq Files \union {Factory, None, "mixed"} /\ cuts \in 0 .. 2
          /\ offer \in Files
      BY DEF Inv, RamInv, Bootables
    <2> QED
      BY <2>1, <2>3, <2>4, <2>5, <2>6 DEF TypeInv, Types, TypeOK, ExtOk, StateOk
  <1> QED
    BY <1>1, AlwaysInv, InitTyped, NextTyped, PTL DEF Spec
==============================================================================
