------------------------------ MODULE Download -------------------------------
(* The download of a firmware file: update_file.c and the part of            *)
(* update_service.c that drives it.  The tracker asks the server for an      *)
(* update; READY names a file, and possibly another server that has it.  The *)
(* file is fetched in windows of ONE_SEND blocks, written to the upgrade     *)
(* file in any order; after each window the state file says how far the      *)
(* download is, so that it resumes after a failure or a reboot.  A complete  *)
(* file whose check sum is right becomes the main image.  Net models how the *)
(* socket of the service connects; here it is connected or not.              *)
EXTENDS Integers, Sequences, FiniteSets

CONSTANTS
    Files, Factory, None,
    Blocks,             \* the number of blocks of each file, which stands for its length
    Home,               \* "upd" or "file": the server that has the file
    ONE_SEND,           \* blocks of a window
    MAX_MESSAGE_REPEAT, \* unanswered requests for an update before giving up
    BLOCK_REPEAT,       \* the same for blocks, MAX_MESSAGE_REPEAT * one_send in the code
    MAX_CONNECT_REPEAT, \* failures after which a connection is given up
    FIFO_MESSAGES,      \* messages the receive buffer of a socket has room for
    MaxFaults,          \* bound: messages lost, late or doubled, links lost, power cuts
    MaxSwitches         \* bound: how often the server offers another file

ASSUME FilesAssumption ==
    /\ Blocks \in [Files -> Nat \ {0}] /\ Home \in [Files -> {"upd", "file"}]
    /\ Factory \notin Files /\ None \notin Files \union {Factory}
ASSUME ImageAssumption ==
    /\ "mixed" \notin Files \union {Factory, None}
    /\ \A f \in Files : \A n \in 1 .. Blocks[f] : None \notin [0 .. n - 1 -> Files \union {None}]
ASSUME LimitsAssumption ==
    /\ {ONE_SEND, MAX_MESSAGE_REPEAT, BLOCK_REPEAT, MAX_CONNECT_REPEAT} \subseteq Nat \ {0}
    /\ {FIFO_MESSAGES, MaxFaults, MaxSwitches} \subseteq Nat

VARIABLES
    status,     \* s_update_socket: "WORK", "DATA_FINISH"; "DEAD": the tracker does not boot
    getting,    \* getting_data
    ext,        \* s_file_extend
    fails,      \* status_fail_count of the socket of UPDATE and of the file socket
    fsock,      \* s_file_socket.status, "none" when its buffer is not allocated
    listed,     \* s_file_socket is one of s_all_sockets
    rebooting,  \* GM_TIMER_HARDWARE_REBOOT runs
    pc,         \* "receive": the rest of a call of work_proc, "idle" between two calls
    net, fifo,  \* messages on their way, and in the receive buffers
    late,       \* send_time is long ago although an answer is on its way
    upgrade,    \* the upgrade file as the program reads it: a file of origin for each block
    flash,      \* the upgrade file as a power cut would leave it
    saved,      \* the state file, NoState when there is none or a torn one
    main, minor,\* the two images
    offer,      \* the file the server offers
    faults, switches,
    cuts,       \* history: installations that were interrupted or done twice, 2 for more
    made,       \* history: the file the upgrade file was made for, the last time it was made
    mixed       \* history: a block of one file was taken for a block of another

ram == <<status, getting, ext, fails, fsock, listed, rebooting, pc, net, fifo, late>>
disk == <<upgrade, flash, saved, main, minor>>
vars == <<status, getting, ext, fails, fsock, listed, rebooting, pc, net, fifo, late,
          upgrade, flash, saved, main, minor, offer, faults, switches, cuts, made, mixed>>

Channels == {"upd", "file"}
Sizes == {Blocks[f] : f \in Files}
Message == {m \in [ch : Channels, kind : {"READY", "NONE", "DATA"}, file : Files, block : Nat] :
               m.block < Blocks[m.file] /\ (m.kind # "DATA" => m.block = 0)}
Content(u) == /\ \E f \in Files : \E n \in 1 .. Blocks[f] : DOMAIN u = 0 .. n - 1
              /\ \A b \in DOMAIN u : u[b] \in Files \union {None}

NoState == [check |-> None, total |-> 0, current |-> 0]

TypeOK ==
    /\ status \in {"WORK", "DATA_FINISH", "DEAD"} /\ getting \in BOOLEAN
    /\ ext.check \in Files \union {None} /\ ext.total \in Sizes \union {0}
    /\ ext.current \in 0 .. ext.total
    /\ \A b \in ext.got : b \in Nat /\ \E n \in Sizes : b < n
    /\ ext.open \in BOOLEAN /\ ext.new \in BOOLEAN
    /\ ext.result \in {"FINISH", "UPDATED", "FAILED"}
    /\ fails.upd \in Nat /\ (fails.upd < BLOCK_REPEAT \/ fails.upd < MAX_MESSAGE_REPEAT)
    /\ fails.file \in Nat /\ (fails.file < BLOCK_REPEAT \/ fails.file < MAX_CONNECT_REPEAT)
    /\ fsock \in {"none", "INIT", "CONNECTING", "WORK"}
    /\ listed \in BOOLEAN /\ rebooting \in BOOLEAN /\ pc \in {"idle", "receive"}
    /\ net \subseteq Message /\ late \in BOOLEAN
    /\ \A ch \in Channels : fifo[ch] \in Seq(Message) /\ Len(fifo[ch]) <= FIFO_MESSAGES
    /\ (upgrade = None) <=> (flash = None)
    /\ upgrade # None => Content(upgrade) /\ Content(flash)
    /\ ext.open => upgrade # None
    /\ saved = NoState \/ /\ saved.check \in Files /\ saved.total \in Sizes
                          /\ saved.current \in 0 .. saved.total - 1
    /\ {main, minor} \subseteq Files \union {Factory, None, "mixed"}
    /\ offer \in Files /\ faults \in 0 .. MaxFaults /\ switches \in 0 .. MaxSwitches
    /\ cuts \in 0 .. 2 /\ made \in Files \union {None} /\ mixed \in BOOLEAN

------------------------------------------------------------------------------
(* The state the program starts from, and init_file_extend.                  *)
NoFile == [check |-> None, total |-> 0, current |-> 0, got |-> {}, open |-> FALSE,
           new |-> FALSE, result |-> "FINISH"]
Empty == [ch \in Channels |-> <<>>]
Blank(n) == [b \in 0 .. n - 1 |-> None]
Bootable == main # None \/ minor # None

Init ==
    /\ status = "DATA_FINISH" /\ getting = FALSE /\ ext = NoFile
    /\ fails = [ch \in Channels |-> 0] /\ fsock = "none" /\ listed = FALSE
    /\ rebooting = FALSE /\ pc = "idle" /\ net = {} /\ fifo = Empty /\ late = FALSE
    /\ upgrade = None /\ flash = None /\ saved = NoState
    /\ main = Factory /\ minor = None
    /\ offer \in Files /\ faults = 0 /\ switches = 0 /\ cuts = 0
    /\ made = None /\ mixed = FALSE

(* A reboot: the memory is lost, the disk stays.                             *)
Restart ==
    /\ status' = IF main' = None /\ minor' = None THEN "DEAD" ELSE "DATA_FINISH"
    /\ getting' = FALSE /\ ext' = NoFile
    /\ fails' = [ch \in Channels |-> 0] /\ fsock' = "none" /\ listed' = FALSE
    /\ rebooting' = FALSE /\ pc' = "idle" /\ net' = {} /\ fifo' = Empty /\ late' = FALSE

Fault == faults < MaxFaults /\ faults' = faults + 1
NoFault == faults' = faults

(* What a handler has made of the state when it reaches its last call.       *)
Now == [getting |-> getting, ext |-> ext, fails |-> fails, fsock |-> fsock, listed |-> listed,
        net |-> net, fifo |-> fifo, upgrade |-> upgrade, flash |-> flash, saved |-> saved]
Leave(w) == \E x \in {w} :
    /\ getting' = x.getting /\ ext' = x.ext /\ fails' = x.fails /\ fsock' = x.fsock
    /\ listed' = x.listed /\ net' = x.net /\ fifo' = x.fifo
    /\ upgrade' = x.upgrade /\ flash' = x.flash /\ saved' = x.saved
Stay(w) == Leave(w) /\ NoFault /\ UNCHANGED <<status, rebooting, main, minor, cuts>>

Via(ch) == {m \in net : m.ch = ch}
Failed(w) == [w EXCEPT !.ext.result = "FAILED"]

(* update_service_finish                                                     *)
Finish(w) ==
    /\ Leave([w EXCEPT !.net = Via("file"), !.fails.upd = 0])
    /\ status' = "DATA_FINISH" /\ UNCHANGED <<rebooting, main, minor, cuts>>

------------------------------------------------------------------------------
(* update_service_result_to_server: the first n of its three calls of the    *)
(* file system.  A rename fails when there is nothing to rename.             *)
Image(u) == IF \E f \in Files : u = [b \in 0 .. Blocks[f] - 1 |-> f]
            THEN CHOOSE f \in Files : u = [b \in 0 .. Blocks[f] - 1 |-> f] ELSE "mixed"
Install_DeletesBoth(u, n) ==
    /\ minor' = IF n >= 2 /\ main # None THEN main ELSE None
    /\ main' = IF n = 3 /\ u # None THEN Image(u) ELSE None
Install_NoBackup(u, n) ==
    /\ minor' = minor
    /\ main' = IF n = 3 /\ u # None THEN Image(u) ELSE main
Install(u, n) ==
    LET moved == n >= 2 /\ main # None
    IN  /\ minor' = IF moved THEN main ELSE None
        /\ main' = IF n = 3 /\ u # None THEN Image(u) ELSE IF moved THEN None ELSE main
Taken(u, n) == IF n = 3 THEN None ELSE u
Cut == cuts' = IF cuts = 2 THEN 2 ELSE cuts + 1

(* update_filemod_destroy, that reports the result and ends the session.     *)
Conclude(w) == \E x \in {w} :
    LET done == x.ext.result = "UPDATED"
        shut == IF x.ext.new THEN [x EXCEPT !.fsock = "none", !.fifo.file = <<>>,
                                            !.fails.file = 0, !.net = {}]
                             ELSE [x EXCEPT !.net = Via("file")]
    IN  /\ Leave([shut EXCEPT !.fails.upd = 0, !.upgrade = IF done THEN None ELSE @,
                              !.flash = IF done THEN None ELSE @])
        /\ status' = "DATA_FINISH" /\ rebooting' = (rebooting \/ done)
        /\ IF done THEN Install(x.upgrade, 3) ELSE UNCHANGED <<main, minor>>
        /\ IF done /\ rebooting THEN Cut ELSE cuts' = cuts

(* update_msg_send_data_block_request: the window's missing blocks, and its  *)
(* last one in any case.  A server answers for the files that it has.        *)
Window(e) == {b \in e.current .. e.current + ONE_SEND - 1 : b = e.current \/ b < e.total}
Wanted_OneShort(e) == {b \in Window(e) : b \notin e.got /\ b < e.current + ONE_SEND - 1}
Wanted(e) == {b \in Window(e) : b \notin e.got \/ b = e.current + ONE_SEND - 1}
Answers(e, ch) == {[ch |-> ch, kind |-> "DATA", file |-> e.check, block |-> b] :
                   b \in {x \in Wanted(e) : Home[e.check] = ch /\ x < Blocks[e.check]}}
Send(w, ch) ==
    LET up == IF ch = "upd" THEN status = "WORK" ELSE w.fsock = "WORK"
    IN  \/ up /\ Stay([w EXCEPT !.net = @ \union Answers(w.ext, ch)])
        \/ Conclude(Failed(w)) /\ IF up THEN Fault ELSE NoFault

(* update_msg_start_data_block_request: the download goes on where the state *)
(* file says, if that is about the same file and there is an upgrade file of *)
(* its length, be it the one that was made for another file.                 *)
Same(e) == saved.check = e.check /\ saved.total = e.total
Resumed(e) == [e EXCEPT !.current = saved.current, !.open = TRUE]
Fresh(w, n) == [w EXCEPT !.upgrade = Blank(n), !.flash = Blank(n), !.ext.open = TRUE]
Start(w, ch) ==
    LET n == Blocks[w.ext.check]
        e == [w.ext EXCEPT !.total = n, !.got = {}, !.current = 0, !.result = "FAILED"]
        there == upgrade # None /\ Cardinality(DOMAIN upgrade) = n
    IN  \/ /\ Same(e) /\ there /\ made' = made
           /\ Send([w EXCEPT !.ext = Resumed(e), !.flash = upgrade], ch)
        \/ /\ Same(e) /\ ~there /\ made' = e.check
           /\ Send(Fresh([w EXCEPT !.ext = e, !.saved = NoState], n), ch)
        \/ /\ ~Same(e) /\ made' = e.check
           /\ Send(Fresh([w EXCEPT !.ext = e], n), ch)
        \/ /\ ~Same(e) \/ ~there                           \* the disk is full
           /\ Fault /\ made' = e.check
           /\ Conclude([w EXCEPT !.ext = [e EXCEPT !.open = FALSE], !.upgrade = None,
                                 !.flash = None, !.saved = IF Same(e) THEN NoState ELSE saved])

------------------------------------------------------------------------------
(* update_msg_receive takes a message from the buffer of a socket.  A call   *)
(* of work_proc looks into that of UPDATE even when it has ended the session *)
(* before.                                                                   *)
Rest == pc' = IF status' = "DATA_FINISH" /\ fifo'.upd # <<>> THEN "receive" ELSE "idle"
Working == pc = "idle" /\ status = "WORK"
Reads(ch, kind) ==
    /\ fifo[ch] # <<>> /\ Head(fifo[ch]).kind = kind
    /\ IF ch = "upd" THEN pc = "receive" \/ Working
                     ELSE Working /\ getting /\ ext.new /\ fsock = "WORK"
Popped(ch) == [Now EXCEPT !.fifo[ch] = Tail(@)]
Quietly == UNCHANGED <<offer, switches, late, made, mixed>>

(* update_msg_parse_response.  Its file replaces the one being fetched.      *)
Ready ==
    /\ Reads("upd", "READY") /\ pc' = "idle" /\ UNCHANGED <<offer, switches, late>>
    /\ LET f == Head(fifo.upd).file
           new == Home[f] = "file"
           other == ext.open /\ f # ext.check
           w == [Popped("upd") EXCEPT !.ext.check = f, !.ext.new = new, !.getting = TRUE]
           x == IF new THEN [w EXCEPT !.fsock = "INIT", !.listed = TRUE, !.fails.file = 0,
                                      !.fifo.file = <<>>, !.net = Via("upd")]
                       ELSE w
       IN  IF getting \/ new THEN Stay(x) /\ made' = made /\ mixed' = (mixed \/ other)
           ELSE Start(x, "upd") /\ mixed' = (mixed \/ other \/ made' # f)

NothingNew == Reads("upd", "NONE") /\ pc' = "idle" /\ Finish(Popped("upd")) /\ NoFault /\ Quietly

(* update_msg_parse_file_data and update_msg_parse_check_block_bits          *)
Stale(b) == b < ext.current \/ (b \in ext.got /\ b < ext.current + ONE_SEND - 1)
Written(b, f) ==
    [x \in DOMAIN upgrade \union 0 .. b |->
        IF x = b THEN f ELSE IF x \in DOMAIN upgrade THEN upgrade[x] ELSE None]
Got(ch) ==
    LET m == Head(fifo[ch])
    IN  [Popped(ch) EXCEPT !.ext.got = @ \union {m.block}, !.upgrade = Written(m.block, m.file)]
Full(w) == Window(w.ext) \subseteq w.ext.got
Last(w) == w.ext.current + ONE_SEND >= w.ext.total
Saved_Uncommitted(w) ==
    LET e == [w.ext EXCEPT !.current = @ + ONE_SEND, !.got = {}]
    IN  [w EXCEPT !.ext = e, !.fails.upd = 0,
                  !.saved = [check |-> e.check, total |-> e.total, current |-> e.current]]
Saved(w) ==
    LET e == [w.ext EXCEPT !.current = @ + ONE_SEND, !.got = {}]
    IN  [w EXCEPT !.ext = e, !.flash = w.upgrade, !.fails.upd = 0,
                  !.saved = [check |-> e.check, total |-> e.total, current |-> e.current]]
Complete_Unchecked(w) ==
    [w EXCEPT !.ext = [w.ext EXCEPT !.current = w.ext.total, !.got = {}, !.open = FALSE,
                                    !.result = "UPDATED"],
              !.flash = w.upgrade]
Complete(w) ==
    [w EXCEPT !.ext = [w.ext EXCEPT !.current = w.ext.total, !.got = {}, !.open = FALSE,
                !.result = IF Image(w.upgrade) = w.ext.check THEN "UPDATED" ELSE "FINISH"],
              !.flash = w.upgrade]
Takes(ch) == Reads(ch, "DATA") /\ ~Stale(Head(fifo[ch]).block) /\ ext.open
Mixed(ch) == mixed' = (mixed \/ Head(fifo[ch]).file # ext.check)
After(ch) == /\ IF ch = "upd" THEN pc' = "idle" ELSE Rest
             /\ UNCHANGED <<offer, switches, late, made>>

Ignore(ch) == /\ Reads(ch, "DATA") /\ Stale(Head(fifo[ch]).block)
              /\ Stay(Popped(ch)) /\ After(ch) /\ mixed' = mixed
Block(ch) == Takes(ch) /\ ~Full(Got(ch)) /\ Stay(Got(ch)) /\ After(ch) /\ Mixed(ch)
NextWindow(ch) == /\ Takes(ch) /\ Full(Got(ch)) /\ ~Last(Got(ch))
                  /\ Send(Saved(Got(ch)), "upd") /\ After(ch) /\ Mixed(ch)
FileEnds(ch) == /\ Takes(ch) /\ Full(Got(ch)) /\ Last(Got(ch))
                /\ Conclude(Complete(Got(ch))) /\ NoFault /\ After(ch) /\ Mixed(ch)
WriteFails(ch) == /\ Reads(ch, "DATA") /\ ~Stale(Head(fifo[ch]).block)
                  /\ IF ext.open THEN Fault ELSE NoFault
                  /\ Conclude(Failed([Popped(ch) EXCEPT !.ext.open = FALSE, !.flash = upgrade]))
                  /\ After(ch) /\ mixed' = mixed

------------------------------------------------------------------------------
(* The clocks of the two sockets.                                            *)
Silent == late \/ (/\ Via("upd") = {} /\ fifo.upd = <<>>
                   /\ ext.new => net = {} /\ fifo.file = <<>>)
Unanswered(ch) == [Now EXCEPT !.fails[ch] = @ + 1]
Timed == Rest /\ late' = FALSE /\ UNCHANGED <<offer, switches, made, mixed>>

(* The server answers a request for an update at once, or never.             *)
Response == [ch |-> "upd", kind |-> IF main = offer THEN "NONE" ELSE "READY",
             file |-> offer, block |-> 0]
Asking(w) == [w EXCEPT !.net = @ \union {Response}]

AsksAgain ==
    /\ Working /\ ~getting /\ Silent /\ fails.upd + 1 < MAX_MESSAGE_REPEAT
    /\ Stay(Asking(Unanswered("upd"))) /\ Timed
AsksNoMore ==
    /\ Working /\ ~getting /\ Silent /\ fails.upd + 1 >= MAX_MESSAGE_REPEAT
    /\ Finish(Unanswered("upd")) /\ NoFault /\ Timed

Fetching(ch) == /\ Working /\ getting /\ ext.new = (ch = "file")
                /\ ch = "file" => fsock = "WORK"
RequestsAgain(ch) ==
    /\ Fetching(ch) /\ Silent /\ fails[ch] + 1 < BLOCK_REPEAT
    /\ Send(Unanswered(ch), ch) /\ Timed
GivesUp(ch) ==
    /\ Fetching(ch) /\ Silent /\ fails[ch] + 1 >= BLOCK_REPEAT
    /\ Conclude(Failed(Now)) /\ NoFault /\ Timed

(* update_filemod_timer_proc: the second socket connects.                    *)
FileInit == /\ Working /\ getting /\ ext.new /\ fsock = "INIT" /\ pc' = "idle" /\ Quietly
            /\ Stay([Now EXCEPT !.fsock = "CONNECTING", !.fails.file = 0])
FileConnected == /\ pc = "idle" /\ fsock = "CONNECTING" /\ ext.check # None /\ pc' = "idle"
                 /\ Start([Now EXCEPT !.fsock = "WORK", !.fails.file = 0], "file")
                 /\ mixed' = (mixed \/ made' # ext.check) /\ UNCHANGED <<offer, switches, late>>
FileStrike == /\ Working /\ getting /\ ext.new /\ fsock = "CONNECTING" /\ Fault
              /\ IF fails.file + 1 >= MAX_CONNECT_REPEAT THEN Conclude(Failed(Now))
                 ELSE /\ Leave(Unanswered("file"))
                      /\ UNCHANGED <<status, rebooting, main, minor, cuts>>
              /\ Rest /\ Quietly

(* update_service_data_finish_proc, and the connection that follows.  What   *)
(* a former file socket has received is never read: the next one has a       *)
(* buffer of its own.                                                        *)
Begin ==
    /\ pc = "idle" /\ status = "DATA_FINISH" /\ ~rebooting /\ status' = "WORK"
    /\ Leave(Asking([Now EXCEPT !.ext = NoFile, !.getting = FALSE, !.flash = upgrade,
                                !.fails.upd = 0, !.fifo.file = <<>>, !.net = {}]))
    /\ late' = FALSE /\ NoFault /\ UNCHANGED <<rebooting, pc, main, minor, offer, switches, cuts, made, mixed>>

------------------------------------------------------------------------------
(* The network, the server and the power.                                    *)
Open(ch) == IF ch = "upd" THEN status = "WORK" ELSE fsock = "WORK"
Arrive(m) ==
    /\ pc = "idle" /\ m \in net /\ Open(m.ch) /\ pc' = "idle" /\ Quietly
    /\ IF Len(fifo[m.ch]) < FIFO_MESSAGES
       THEN /\ fifo' = [fifo EXCEPT ![m.ch] = Append(@, m)]
            /\ \/ net' = net \ {m} /\ NoFault
               \/ net' = net /\ Fault
            /\ UNCHANGED <<status, getting, ext, fails, fsock, listed, rebooting, disk, cuts>>
       ELSE /\ NoFault                        \* fifo_insert fails
            /\ IF m.ch = "upd" THEN Stay([Now EXCEPT !.net = @ \ {m}]) ELSE Conclude(Now)
Lose(m) == /\ pc = "idle" /\ m \in net /\ Fault /\ net' = net \ {m}
           /\ UNCHANGED <<status, getting, ext, fails, fsock, listed, rebooting, pc, fifo, late,
                          disk, offer, switches, cuts, made, mixed>>
Slow == /\ pc = "idle" /\ net # {} /\ ~late /\ Fault /\ late' = TRUE
        /\ UNCHANGED <<status, getting, ext, fails, fsock, listed, rebooting, pc, net, fifo,
                       disk, offer, switches, cuts, made, mixed>>
ServerCloses(ch) == /\ Working /\ Open(ch) /\ Fault /\ pc' = "idle" /\ Quietly
                    /\ IF ch = "upd" THEN Finish(Now) ELSE Conclude(Now)
Switch == /\ switches < MaxSwitches /\ switches' = switches + 1 /\ status # "DEAD"
          /\ offer' \in Files \ {offer} /\ UNCHANGED <<ram, disk, faults, cuts, made, mixed>>

(* gprs_destroy: update_service_destroy, then update_filemod_destroy when    *)
(* there has been a file socket since the boot.                              *)
LinkLost == /\ pc = "idle" /\ status # "DEAD" /\ (status = "WORK" \/ ext.result = "UPDATED")
            /\ Fault /\ pc' = "idle" /\ Quietly
            /\ IF listed THEN Conclude([Now EXCEPT !.net = {}]) ELSE Finish([Now EXCEPT !.net = {}])

Survivors ==
    IF None \in {upgrade, flash} \/ DOMAIN upgrade # DOMAIN flash THEN {upgrade, flash}
    ELSE {[b \in DOMAIN flash |-> IF b \in kept THEN upgrade[b] ELSE flash[b]] :
          kept \in SUBSET {b \in DOMAIN flash : upgrade[b] # flash[b]}}
PowerCut == /\ pc = "idle" /\ status # "DEAD" /\ Fault
            /\ upgrade' \in Survivors /\ flash' = upgrade'
            /\ UNCHANGED <<saved, main, minor, offer, switches, cuts, made, mixed>> /\ Restart
CutSaving(ch) == /\ Takes(ch) /\ Full(Got(ch)) /\ ~Last(Got(ch)) /\ Fault
                 /\ saved' = NoState /\ upgrade' = Got(ch).upgrade /\ flash' = upgrade'
                 /\ UNCHANGED <<main, minor, offer, switches, cuts, made>> /\ Mixed(ch) /\ Restart
CutInstall(ch, n) == /\ Takes(ch) /\ Full(Got(ch)) /\ Last(Got(ch))
                     /\ Complete(Got(ch)).ext.result = "UPDATED" /\ Fault /\ Cut
                     /\ Install(Got(ch).upgrade, n)
                     /\ upgrade' = Got(ch).upgrade /\ flash' = upgrade'
                     /\ UNCHANGED <<saved, offer, switches, made>> /\ Mixed(ch) /\ Restart
RebootTimer == /\ pc = "idle" /\ rebooting /\ upgrade' = flash /\ NoFault
               /\ UNCHANGED <<flash, saved, main, minor, offer, switches, cuts, made, mixed>> /\ Restart

Receive(ch) == Ignore(ch) \/ Block(ch) \/ NextWindow(ch) \/ FileEnds(ch) \/ WriteFails(ch)
Timeout(ch) == RequestsAgain(ch) \/ GivesUp(ch)
Unit ==
    \/ Ready \/ NothingNew \/ Begin \/ FileInit \/ FileConnected \/ RebootTimer
    \/ AsksAgain \/ AsksNoMore
    \/ \E ch \in Channels : Receive(ch) \/ Timeout(ch)
Delivery == \E m \in net : Arrive(m)
Trouble ==
    \/ FileStrike \/ Slow \/ LinkLost \/ PowerCut
    \/ \E m \in net : Lose(m)
    \/ \E ch \in Channels : ServerCloses(ch) \/ CutSaving(ch) \/ \E n \in 1 .. 2 : CutInstall(ch, n)

Next == Unit \/ Delivery \/ Switch \/ Trouble

Spec == Init /\ [][Next]_vars

(* The timer of 10 ms never stops: it reads the buffers and looks at the     *)
(* clocks; a message that is not lost arrives.                               *)
FairSpec == Spec /\ WF_vars(Unit) /\ WF_vars(Delivery)

------------------------------------------------------------------------------
(* What the state file counts as received is on the disk, in the upgrade     *)
(* file that was made for it: a resumed download never skips a block that a  *)
(* power cut has taken back (update_filemod_state_file_save commits the file *)
(* first).  It holds until a block of one file is taken for another's: an    *)
(* answer names no file, and a download resumed in an upgrade file made for  *)
(* another file of the same length counts the blocks of that one.            *)
CountedIsThere ==
    ~mixed /\ saved # NoState /\ made = saved.check /\ flash # None
    => \A b \in 0 .. saved.current - 1 : flash[b] = saved.check

(* Only whole files of the server become images, whatever was lost, resumed  *)
(* or replaced by another offer on the way (update_filemod_file_finish).     *)
ImagesAreWhole == {main, minor} \subseteq Files \union {Factory, None}

(* As long as at most one installation is cut by a power failure, or done    *)
(* twice, there is an image to boot (update_service_result_to_server).       *)
OneCutIsHarmless == cuts <= 1 => Bootable

(* The main image gives way to a whole file only, and not before it has      *)
(* taken the place of the minor one.                                         *)
Img == INSTANCE Images WITH Files <- Files, Factory <- Factory, None <- None,
                            main <- main, minor <- minor
Replaces == Img!Spec

(* Once the server has made up its mind and the faults are over, its file is *)
(* the main image for good, through every resumed session.                   *)
Installed == <>[](main = offer) \/ <>(status = "DEAD" \/ mixed)

(* "received completely, and updated" (REPORT_RESULT_UPDATED): while the     *)
(* tracker waits for its reboot the main image is the file it has reported.  *)
(* The code does not keep this: a link lost before the reboot has            *)
(* update_service_result_to_server called again.                             *)
UpdatedIsMain == rebooting => main = ext.check
=============================================================================
