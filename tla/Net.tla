-------------------------------- MODULE Net ----------------------------------
(* The network layer of the tracker: gprs.c and the services it drives.      *)
(* gprs_timer_proc runs every 10 ms.  While the network is up (TIME_PROC) it *)
(* calls the resolver, then the timer_proc of every service; each service is *)
(* a socket with a status.  When the link is given up, gprs_destroy destroys *)
(* every socket, and the network is attached anew.  Everything is a callback *)
(* of one thread: between two calls of gprs_timer_proc the modem may notify  *)
(* a socket event, commands may change the server or the access point, and   *)
(* other modules hand over reports.  A command that MAIN receives is carried *)
(* out later, by a timer of 3 s; one of an SMS or the serial line at once.   *)
(* Time is kept as flags: a flag is set by the passage of time (Expire...)   *)
(* and cleared when the code stores the clock.                               *)
EXTENDS Integers, FiniteSets, SocketStatus

CONSTANTS
    Services,           \* the services modelled
    Domains,            \* those whose server is configured by a domain name
    Moves,              \* the servers MAIN may be moved to: a domain (TRUE), an address
    SmsCommands,        \* what commands by SMS or serial line change
    MainCommands,       \* what commands by the server of MAIN change
    PowerUps,           \* may a boot be a power-up (TRUE), or a wake-up (FALSE)?
    MAX_CONNECT_REPEAT, \* failures after which a connection is given up
    MAX_MESSAGE_REPEAT, \* unanswered update requests before giving up
    BLOCK_REPEAT,       \* the same for requests of file blocks
    REPORT_REPEAT,      \* unanswered reports after which the link is given up
    FAIL_WRAP,          \* status_fail_count is an unsigned char: it wraps here
    MaxBatches          \* bound: batches of blocks of an update file

ASSUME ServicesAssumption ==
    "MAIN" \in Services /\ Services \subseteq {"MAIN", "CONFIG", "UPDATE", "LOG"}
ASSUME DomainsAssumption == Domains \subseteq Services
ASSUME EnvironmentAssumption ==
    Moves \subseteq BOOLEAN /\ PowerUps \subseteq BOOLEAN /\ PowerUps # {}
ASSUME CommandsAssumption ==
    SmsCommands \union MainCommands \subseteq {"server", "apn", "both"}
ASSUME LimitsAssumption ==
    /\ {MAX_CONNECT_REPEAT, MAX_MESSAGE_REPEAT, BLOCK_REPEAT, REPORT_REPEAT, MaxBatches} \subseteq Nat \ {0}
    /\ FAIL_WRAP \in Nat
    /\ \A n \in {MAX_CONNECT_REPEAT, MAX_MESSAGE_REPEAT, BLOCK_REPEAT, REPORT_REPEAT} : n < FAIL_WRAP

VARIABLES
    gprs,       \* s_gprs.status
    waited,     \* the status has lasted as long as it may
    goodOld,    \* last_good_time is so old that the device must reboot
    sock,       \* the sockets of the services
    ipCache,    \* services with an address in system_state's ip_cache
    request,    \* s_get_host_list: "no", "wanted", or "asked" at least once
    outdated,   \* the configuration names another server than MAIN's socket
    oldIp,      \* the address of MAIN in ip_cache is that of a former server
    delayed,    \* GM_TIMER_GPRS_DESTORY_LATER: "no", "destroy" or "move"
    turn,       \* what gprs_timer_proc calls next, "idle" between two calls
    waitSend,   \* gps_service: wait_send_count > 0, a report waits to be acknowledged
    startSend,  \* gps_service: start_send_flg
    batches,    \* update: batches of blocks to come; 0 unless getting_data
    powerOn     \* is_expmu_power_on()

link == <<gprs, waited, goodOld>>
orders == <<outdated, oldIp, delayed>>
names == <<ipCache, request, outdated, oldIp, delayed>>
report == <<waitSend, startSend>>
vars == <<gprs, waited, goodOld, sock, ipCache, request, outdated, oldIp, delayed, turn,
          waitSend, startSend, batches, powerOn>>

(* SocketType and the extension of each service: open, id >= 0; fail,        *)
(* status_fail_count; executed, excuted_get_host; named, addr is not empty;  *)
(* fifo, the receive buffer is allocated; late, the clock that the status    *)
(* looks at has run out: the time since send_time in CONNECTING and WORK,    *)
(* the time since data_finish_time or last_ok_time in the end states.        *)
Socket == [status : Statuses, open : BOOLEAN, fail : 0 .. FAIL_WRAP - 1, executed : BOOLEAN,
           named : BOOLEAN, late : BOOLEAN, fifo : BOOLEAN]

TypeOK ==
    /\ gprs \in {"INIT", "CALL_OK", "ACTIVATED", "TIME_PROC", "FAILED"}
    /\ waited \in BOOLEAN /\ goodOld \in BOOLEAN
    /\ sock \in [Services -> Socket]
    /\ ipCache \subseteq Services /\ request \in [Services -> {"no", "wanted", "asked"}]
    /\ outdated \in BOOLEAN /\ oldIp \in BOOLEAN /\ delayed \in {"no", "destroy", "move"}
    /\ turn \in Services \union {"DNS", "idle"}
    /\ waitSend \in BOOLEAN /\ startSend \in BOOLEAN
    /\ batches \in 0 .. MaxBatches
    /\ powerOn \in BOOLEAN

------------------------------------------------------------------------------
(* Sockets.                                                                  *)

(* gm_socket_init and the address that the *_service_create functions give.  *)
Fresh(n) == [status |-> "INIT", open |-> FALSE, fail |-> 0, executed |-> FALSE,
             named |-> n, late |-> FALSE, fifo |-> TRUE]

Close(r) == [r EXCEPT !.open = FALSE]
Stamp(r) == [r EXCEPT !.late = FALSE]                     \* the clock is stored
Torn(r) == Stamp(Close(r))
Opened(r) == [Stamp(r) EXCEPT !.open = TRUE]
Freed(r) == [Torn(r) EXCEPT !.fifo = FALSE]
Asked(r) == [r EXCEPT !.executed = TRUE]
Expired(r) == [r EXCEPT !.late = TRUE]
Nameless(r) == [r EXCEPT !.named = FALSE]
Cleared(r) == [r EXCEPT !.fail = 0]
(* Mutant: the counter is wider than an unsigned char. *)
Failure_Unwrapped(r) == [r EXCEPT !.fail = r.fail + 1]
Failure(r) == [r EXCEPT !.fail = (r.fail + 1) % FAIL_WRAP]

(* gps_service_close_for_reconnect, config_service_finish,                   *)
(* update_service_finish, log_service_close_for_reconnect.                   *)
Finish(s, r) == Transfer(s, Torn(r), "DATA_FINISH")

(* Mutant: the socket stays open.                                            *)
Destroy_Open(s, r) == Transfer(s, Stamp(r), "ERROR")

(* gps_service_destroy, config_service_destroy, update_service_destroy,      *)
(* log_service_destroy.  CONFIG goes back to INIT if it had not finished.    *)
(* UPDATE and LOG do not store the clock: it may run out at once.            *)
Destroy(s, r) ==
    IF r.status = "ERROR" THEN r
    ELSE Transfer(s, IF s = "MAIN" THEN Freed(r) ELSE Torn(r),
                  IF s = "CONFIG" /\ r.status # "DATA_FINISH" THEN "INIT" ELSE "ERROR")

(* gm_socket_close_for_reconnect *)
CloseForReconnect(s, r) == IF s = "CONFIG" THEN Destroy(s, r) ELSE Finish(s, r)

(* A request put to the server: sent, or the service is finished with.       *)
Request(s, r) == {Stamp(r), Finish(s, r)}

(* gm_socket_connect of a closed socket with an address, and what it calls:  *)
(* no socket, or the connection is refused; or, the connections being UDP,   *)
(* *_connection_ok at once, in which CONFIG and UPDATE send their request.   *)
Connect(s, r) ==
    LET up == Transfer(s, Opened(r), "WORK")
    IN  {Stamp(r)} \union
        IF s \in {"CONFIG", "UPDATE"} THEN Request(s, up) ELSE {up}

Settle(s, r) == sock' = [sock EXCEPT ![s] = r]

------------------------------------------------------------------------------
(* The link.                                                                 *)

(* gprs_destroy, on the sockets ss. *)
GprsDestroy(ss) ==
    /\ sock' = [s \in Services |-> Destroy(s, ss[s])]
    /\ gprs' = "FAILED" /\ waited' = FALSE /\ UNCHANGED goodOld

UpdateIdle == "UPDATE" \in Services => sock["UPDATE"].status \in {"DATA_FINISH", "ERROR"}

(* Mutant: a download in progress is cut. *)
LoseLink_CutsUpdate(r) == GprsDestroy([sock EXCEPT !["MAIN"] = r])

(* gps_service_destroy_gprs, MAIN being in state r: the whole link is given  *)
(* up, or only MAIN while an update is going on.                             *)
LoseLink(r) ==
    \/ UpdateIdle /\ GprsDestroy([sock EXCEPT !["MAIN"] = r])
    \/ ~UpdateIdle /\ Settle("MAIN", Destroy("MAIN", r)) /\ UNCHANGED link

(* gps_service_create(false) for a domain (n) or an address: nothing happens *)
(* to a socket that is alive; an address is stored at once.                  *)
Created(r, n) == IF r.fifo THEN r ELSE Fresh(n)
CachedBy(r, n) == IF r.fifo \/ n THEN {} ELSE {"MAIN"}

(* Mutant: only a socket that is up is torn down before it is made anew.     *)
MoveMain_Lazy(ss, n) ==
    LET old == IF ss["MAIN"].open
               THEN Nameless(Destroy("MAIN", ss["MAIN"])) ELSE Nameless(ss["MAIN"])
    IN  /\ sock' = [ss EXCEPT !["MAIN"] = Created(old, n)]
        /\ ipCache' = (ipCache \ {"MAIN"}) \union CachedBy(old, n)
        /\ outdated' = FALSE /\ oldIp' = FALSE

(* gps_service_change_config, the configuration naming another server. *)
MoveMain(ss, n) ==
    LET old == Nameless(Destroy("MAIN", ss["MAIN"]))
    IN  /\ sock' = [ss EXCEPT !["MAIN"] = Created(old, n)]
        /\ ipCache' = (ipCache \ {"MAIN"}) \union CachedBy(old, n)
        /\ outdated' = FALSE /\ oldIp' = FALSE

(* gps_service_change_config, the configuration having got a server: another *)
(* one, or the one that MAIN has.                                            *)
Configured(ss) ==
    \/ \E n \in Moves : MoveMain(ss, n)
    \/ sock' = ss /\ outdated' = FALSE /\ UNCHANGED <<ipCache, oldIp>>

(* gps_service_create(false), MAIN not having been moved: the configuration  *)
(* may name a server of kind n that change_config has not been called for.   *)
(* A domain leaves ip_cache as it is, whose address it is then.              *)
Configurable == IF outdated THEN Moves ELSE {sock["MAIN"].named}

Recreate(ss, n) ==
    LET m == ss["MAIN"]
    IN  /\ sock' = [ss EXCEPT !["MAIN"] = Created(m, n)]
        /\ ipCache' = ipCache \union CachedBy(m, n)
        /\ IF m.fifo THEN UNCHANGED <<outdated, oldIp>>
           ELSE outdated' = FALSE /\ oldIp' = (n /\ "MAIN" \in ipCache /\ (outdated \/ oldIp))

(* gprs_create, from the entry of the program: the state after a boot.       *)
Booted(named) == [s \in Services |-> Fresh(named[s])]

Init ==
    /\ gprs = "INIT" /\ waited = FALSE /\ goodOld = FALSE
    /\ sock = Booted([s \in Services |-> s \in Domains])
    /\ ipCache \in {Services} \union IF "MAIN" \in Domains THEN {Services \ {"MAIN"}} ELSE {}
    /\ request = [s \in Services |-> "no"] /\ turn = "idle"
    /\ outdated = FALSE /\ oldIp = FALSE /\ delayed = "no"
    /\ waitSend = FALSE /\ startSend = FALSE /\ batches = 0
    /\ powerOn \in PowerUps

(* hard_ware_reboot: the configuration and the ip_cache are in files.        *)
Reboot ==
    /\ gprs' = "INIT" /\ waited' = FALSE /\ goodOld' = FALSE
    /\ \E n \in Configurable :
         /\ sock' = Booted([s \in Services |-> IF s = "MAIN" THEN n ELSE sock[s].named])
         /\ ipCache' = ipCache \union IF n THEN {} ELSE {"MAIN"}
         /\ oldIp' = (n /\ "MAIN" \in ipCache /\ (outdated \/ oldIp))
    /\ outdated' = FALSE /\ delayed' = "no"
    /\ request' = [s \in Services |-> "no"] /\ turn' = "idle"
    /\ waitSend' = FALSE /\ startSend' = FALSE /\ batches' = 0
    /\ powerOn' \in PowerUps

------------------------------------------------------------------------------
(* gprs_timer_proc while the network is not up.                              *)

Offline(status) == turn = "idle" /\ gprs = status
Services_ == <<sock, names, turn, report, batches, powerOn>>
GiveUp == GprsDestroy(sock) /\ UNCHANGED <<names, turn, report, batches, powerOn>>

(* gprs_init_proc *)
Attach == /\ Offline("INIT") /\ gprs' = "CALL_OK" /\ waited' = FALSE
          /\ UNCHANGED <<goodOld, Services_>>
AttachTimeout == Offline("INIT") /\ waited /\ GiveUp

(* gprs_call_ok_proc *)
Bearer == /\ Offline("CALL_OK") /\ gprs' = "ACTIVATED"
          /\ UNCHANGED <<waited, goodOld, Services_>>
BearerTimeout == Offline("CALL_OK") /\ waited /\ GiveUp

Activate == /\ Offline("ACTIVATED") /\ gprs' = "TIME_PROC"
            /\ UNCHANGED <<waited, goodOld, Services_>>

(* gprs_failed_proc *)
Retry == /\ Offline("FAILED") /\ ~goodOld /\ waited
         /\ gprs' = "INIT" /\ waited' = FALSE
         /\ UNCHANGED <<goodOld, Services_>>
RetryByReboot == Offline("FAILED") /\ goodOld /\ Reboot

------------------------------------------------------------------------------
(* gprs_timer_proc in TIME_PROC: the order of the calls.                     *)

Rank == [s \in {"CONFIG", "UPDATE", "MAIN", "LOG"} |->
            CASE s = "CONFIG" -> 1 [] s = "UPDATE" -> 2 [] s = "MAIN" -> 3 [] s = "LOG" -> 4]
Later(k) == {s \in Services : Rank[s] > k}
First(S) == IF S = {} THEN "idle" ELSE CHOOSE s \in S : \A t \in S : Rank[s] <= Rank[t]

Tick == /\ turn = "idle" /\ gprs = "TIME_PROC"
        /\ turn' = "DNS" /\ goodOld' = FALSE
        /\ UNCHANGED <<gprs, waited, sock, names, report, batches, powerOn>>

(* gm_socket_get_host_timer_proc, whose detail is module Resolver: it may    *)
(* put the question of one service.                                          *)
Ask(s) ==
    /\ turn = "DNS" /\ turn' = First(Later(0))
    /\ request[s] # "no" /\ sock[s].named
    /\ request' = [request EXCEPT ![s] = "asked"]
    /\ Settle(s, Asked(sock[s]))
    /\ UNCHANGED <<link, ipCache, orders, report, batches, powerOn>>
AskNothing ==
    /\ turn = "DNS" /\ turn' = First(Later(0))
    /\ UNCHANGED <<link, sock, names, report, batches, powerOn>>

(* A *_timer_proc, called on a socket with that status.                      *)
Proc(s, status) ==
    /\ turn = s /\ turn' = First(Later(Rank[s]))
    /\ sock[s].fifo /\ sock[s].status = status
    /\ UNCHANGED powerOn

(* The socket of MAIN has been destroyed: its timer_proc returns.            *)
Dead(s) == /\ turn = s /\ turn' = First(Later(Rank[s])) /\ ~sock[s].fifo
           /\ UNCHANGED <<link, sock, names, report, batches, powerOn>>

(* *_init_proc.  The second way to an address in the code, socket->ip set    *)
(* and no address in ip_cache, does not occur: what stores one stores both.  *)
InitProc(s) ==
    /\ Proc(s, "INIT") /\ (s = "CONFIG" => powerOn)
    /\ request' = IF sock[s].named /\ request[s] = "no"
                  THEN [request EXCEPT ![s] = "wanted"] ELSE request
    /\ IF s \in ipCache
       THEN \E r \in Connect(s, Transfer(s, sock[s], "CONNECTING")) : Settle(s, r)
       ELSE UNCHANGED sock
    /\ UNCHANGED <<link, ipCache, orders, report, batches>>

(* config_service_timer_proc: the server is asked once per power-up only.    *)
SkipQuery ==
    /\ Proc("CONFIG", "INIT") /\ ~powerOn
    /\ Settle("CONFIG", Transfer("CONFIG", sock["CONFIG"], "DATA_FINISH"))
    /\ UNCHANGED <<link, names, report, batches>>

(* *_connecting_proc with *_connection_failed.                               *)
Waiting(s) == /\ Proc(s, "CONNECTING") /\ ~sock[s].late
              /\ UNCHANGED <<link, sock, names, report, batches>>

Reconnect(s) ==
    LET r == Failure(Close(sock[s]))
    IN  /\ Proc(s, "CONNECTING") /\ sock[s].late
        /\ r.fail < MAX_CONNECT_REPEAT
        /\ \E c \in Connect(s, r) : Settle(s, c)
        /\ UNCHANGED <<link, names, report, batches>>

(* Mutant: whether the name has been asked for makes no difference.          *)
StrikesOut_Asked(s) ==
    LET r == Failure(Close(sock[s]))
    IN  /\ Proc(s, "CONNECTING") /\ sock[s].late
        /\ r.fail >= MAX_CONNECT_REPEAT
        /\ CASE r.named -> Settle(s, Transfer(s, r, "INIT")) /\ UNCHANGED link
             [] ~r.named /\ s = "MAIN" -> LoseLink(r)
             [] OTHER -> Settle(s, Finish(s, r)) /\ UNCHANGED link
        /\ UNCHANGED <<names, report, batches>>

StrikesOut(s) ==
    LET r == Failure(Close(sock[s]))
    IN  /\ Proc(s, "CONNECTING") /\ sock[s].late
        /\ r.fail >= MAX_CONNECT_REPEAT
        /\ CASE r.named /\ ~r.executed -> Settle(s, Transfer(s, r, "INIT")) /\ UNCHANGED link
             [] (~r.named \/ r.executed) /\ s = "MAIN" -> LoseLink(r)
             [] OTHER -> Settle(s, Finish(s, r)) /\ UNCHANGED link
        /\ UNCHANGED <<names, report, batches>>

------------------------------------------------------------------------------
(* gps_service_work_proc.                                                    *)

(* old_2929_cmd_set: the configuration gets another server, or that of MAIN. *)
Stored(what) == outdated' \in IF what = "apn" \/ Moves = {} THEN {outdated} ELSE {TRUE, ~outdated}

(* The timer, of which there is one, is started again by every command.      *)
Delay(what) == Stored(what) /\ delayed' = IF what = "server" THEN "move" ELSE "destroy"

(* protocol_msg_receive on MAIN in state r: nothing, another message, an     *)
(* acknowledgement (gps_service_clear_one_gps), a malformed message, or a    *)
(* command, whose answer may fail to be sent.                                *)
MainReceives(r) ==
    \/ /\ UNCHANGED <<link, names>>
       /\ \/ Settle("MAIN", r) /\ UNCHANGED waitSend
          \/ Settle("MAIN", r) /\ waitSend' = FALSE
          \/ Settle("MAIN", CloseForReconnect("MAIN", r)) /\ UNCHANGED waitSend
    \/ /\ \E what \in MainCommands : Delay(what)
       /\ \/ Settle("MAIN", r) /\ UNCHANGED link
          \/ LoseLink(r)
       /\ UNCHANGED <<ipCache, request, oldIp, waitSend>>

MainLost(r) == LoseLink(r) /\ UNCHANGED <<names, waitSend>>

MainWaits ==
    /\ Proc("MAIN", "WORK") /\ (waitSend => startSend /\ ~sock["MAIN"].late)
    /\ MainReceives(sock["MAIN"])
    /\ UNCHANGED <<startSend, batches>>

MainSends ==
    /\ Proc("MAIN", "WORK") /\ waitSend /\ ~startSend
    /\ \/ MainReceives(Stamp(sock["MAIN"])) /\ startSend' = TRUE
       \/ MainLost(sock["MAIN"]) /\ UNCHANGED startSend
    /\ UNCHANGED batches

Unanswered == Failure(sock["MAIN"])

(* Mutant: the repetitions are not counted.                                  *)
MainResends_Forever ==
    /\ Proc("MAIN", "WORK") /\ waitSend /\ startSend /\ sock["MAIN"].late
    /\ \/ MainReceives(Stamp(sock["MAIN"])) /\ UNCHANGED startSend
       \/ MainLost(sock["MAIN"]) /\ startSend' = FALSE
    /\ UNCHANGED batches

MainResends ==
    /\ Proc("MAIN", "WORK") /\ waitSend /\ startSend /\ sock["MAIN"].late
    /\ Unanswered.fail < REPORT_REPEAT
    /\ \/ MainReceives(Stamp(Unanswered)) /\ UNCHANGED startSend
       \/ MainLost(Unanswered) /\ startSend' = FALSE
    /\ UNCHANGED batches

MainGivesUp ==
    /\ Proc("MAIN", "WORK") /\ waitSend /\ startSend /\ sock["MAIN"].late
    /\ Unanswered.fail >= REPORT_REPEAT
    /\ MainLost(Transfer("MAIN", Cleared(Unanswered), "DATA_FINISH"))
    /\ startSend' = FALSE
    /\ UNCHANGED batches

------------------------------------------------------------------------------
(* config_service_work_proc.                                                 *)

(* config_msg_receive, CONFIG being in state r: nothing, a malformed         *)
(* message, or the configuration, which may bring another server.            *)
ConfigReceives(r) ==
    \/ Settle("CONFIG", r) /\ UNCHANGED <<ipCache, outdated, oldIp>>
    \/ /\ r.status = "WORK"
       /\ \/ /\ Settle("CONFIG", CloseForReconnect("CONFIG", r)) \/ Settle("CONFIG", Finish("CONFIG", r))
             /\ UNCHANGED <<ipCache, outdated, oldIp>>
          \/ Configured([sock EXCEPT !["CONFIG"] = Finish("CONFIG", r)])

(* Mutant: the failures are not counted.                                     *)
ConfigWork_Uncounted ==
    LET r == sock["CONFIG"]
    IN  /\ Proc("CONFIG", "WORK")
        /\ \/ ~r.late /\ ConfigReceives(r)
           \/ r.late /\ \E c \in Request("CONFIG", r) : ConfigReceives(c)
        /\ UNCHANGED <<link, request, delayed, report, batches>>

ConfigWork ==
    LET r == sock["CONFIG"]
        f == Failure(r)
    IN  /\ Proc("CONFIG", "WORK")
        /\ \/ ~r.late /\ ConfigReceives(r)
           \/ r.late /\ f.fail < MAX_CONNECT_REPEAT
                /\ \E c \in Request("CONFIG", f) : ConfigReceives(c)
           \/ r.late /\ f.fail >= MAX_CONNECT_REPEAT /\ ConfigReceives(Finish("CONFIG", f))
        /\ UNCHANGED <<link, request, delayed, report, batches>>

(* config_service_finish_proc: gps_service_create(false), which brings MAIN  *)
(* back, then config_service_retry_config.                                   *)
ConfigFinished(status) ==
    LET r == IF sock["CONFIG"].late THEN Transfer("CONFIG", sock["CONFIG"], "INIT") ELSE sock["CONFIG"]
    IN  /\ Proc("CONFIG", status)
        /\ IF gprs = "TIME_PROC"
           THEN \E n \in Configurable : Recreate([sock EXCEPT !["CONFIG"] = r], n)
           ELSE UNCHANGED <<sock, ipCache, outdated, oldIp>>
        /\ UNCHANGED <<link, request, delayed, report, batches>>

------------------------------------------------------------------------------
(* update_service_work_proc, the blocks coming over the same socket.         *)

(* update_msg_send_data_block_request: sent, or a send fails (the result is  *)
(* reported and the service finishes), or there is no block to ask for.      *)
RequestBlocks(r) ==
    {Finish("UPDATE", r), r} \union IF r.status = "WORK" THEN {Stamp(r)} ELSE {}

(* update_msg_receive, whatever the status r has by then.                    *)
UpdateReceives(r) ==
    \/ Settle("UPDATE", r) /\ UNCHANGED batches
    \* malformed; no update, or queued; the file is too long
    \/ Settle("UPDATE", Finish("UPDATE", r)) /\ UNCHANGED batches
    \* update_service_after_response: a file to fetch
    \/ /\ batches = 0 /\ batches' \in 1 .. MaxBatches
       /\ \E c \in RequestBlocks(r) : Settle("UPDATE", c)
    \* the last block of a batch, update_service_after_blocks_finish
    \/ /\ batches > 1 /\ batches' = batches - 1
       /\ \E c \in RequestBlocks(Cleared(r)) : Settle("UPDATE", c)
    \* the last block of the file, update_service_result_to_server
    \/ /\ batches = 1 /\ UNCHANGED batches
       /\ Settle("UPDATE", Finish("UPDATE", r))

(* Mutant: failures are forgotten whenever blocks are asked for again.       *)
UpdateWork_Patient ==
    LET r == sock["UPDATE"]
    IN  /\ Proc("UPDATE", "WORK")
        /\ \/ ~r.late /\ UpdateReceives(r)
           \/ r.late /\ \E c \in IF batches = 0 THEN Request("UPDATE", r) ELSE RequestBlocks(r) :
                         UpdateReceives(c)
        /\ UNCHANGED <<link, names, report>>

UpdateWork ==
    LET r == sock["UPDATE"]
        f == Failure(r)
        limit == IF batches = 0 THEN MAX_MESSAGE_REPEAT ELSE BLOCK_REPEAT
        again == IF batches = 0 THEN Request("UPDATE", f) ELSE RequestBlocks(f)
    IN  /\ Proc("UPDATE", "WORK")
        /\ \/ ~r.late /\ UpdateReceives(r)
           \/ r.late /\ f.fail < limit /\ \E c \in again : UpdateReceives(c)
           \/ r.late /\ f.fail >= limit /\ UpdateReceives(Finish("UPDATE", f))
        /\ UNCHANGED <<link, names, report>>

(* update_service_data_finish_proc *)
UpdateFinished(status) ==
    LET r == sock["UPDATE"]
    IN  /\ Proc("UPDATE", status)
        /\ IF r.late
           THEN Settle("UPDATE", Transfer("UPDATE", Stamp(r), "INIT")) /\ batches' = 0
           ELSE UNCHANGED <<sock, batches>>
        /\ UNCHANGED <<link, names, report>>

------------------------------------------------------------------------------
(* log_service_work_proc: a record is sent, or the send fails; and the       *)
(* finish procs of LOG and MAIN.                                             *)
LogWork ==
    /\ Proc("LOG", "WORK")
    /\ \E r \in {sock["LOG"], Finish("LOG", sock["LOG"])} : Settle("LOG", r)
    /\ UNCHANGED <<link, names, report, batches>>

(* Mutant: LOG does not look whether the network is still up.                *)
LogFinished_Unasked(status) ==
    /\ Proc("LOG", status)
    /\ IF sock["LOG"].late
       THEN Settle("LOG", Transfer("LOG", sock["LOG"], "INIT")) ELSE UNCHANGED sock
    /\ UNCHANGED <<link, names, report, batches>>

LogFinished(status) ==
    /\ Proc("LOG", status)
    /\ IF gprs = "TIME_PROC" /\ sock["LOG"].late
       THEN Settle("LOG", Transfer("LOG", sock["LOG"], "INIT")) ELSE UNCHANGED sock
    /\ UNCHANGED <<link, names, report, batches>>

MainFinished(status) ==
    /\ Proc("MAIN", status)
    /\ IF sock["MAIN"].late
       THEN Settle("MAIN", Transfer("MAIN", sock["MAIN"], "INIT")) ELSE UNCHANGED sock
    /\ UNCHANGED <<link, names, report, batches>>

------------------------------------------------------------------------------
(* Between two calls of gprs_timer_proc.                                     *)

(* gprs_socket_notify with result 0, for an open socket.                     *)
LinkError(s) ==
    /\ turn = "idle" /\ sock[s].open
    /\ IF s = "MAIN" THEN LoseLink(sock[s]) ELSE Settle(s, Destroy(s, sock[s])) /\ UNCHANGED link
    /\ UNCHANGED <<names, turn, report, batches, powerOn>>

(* gm_socket_recv that overruns the fifo (UPDATE takes the loss) or meets    *)
(* the end of the stream.  What it stores is received by the work_procs.     *)
ReadError(s) ==
    /\ turn = "idle" /\ sock[s].open /\ sock[s].status = "WORK"
    /\ Settle(s, CloseForReconnect(s, sock[s]))
    /\ UNCHANGED <<link, names, turn, report, batches, powerOn>>

(* socket_get_host_by_name_callback and the resolver's drop of a request.    *)
DnsAnswer(s) ==
    /\ turn = "idle" /\ request[s] = "asked"
    /\ request' = [request EXCEPT ![s] = "no"]
    /\ \/ UNCHANGED <<ipCache, oldIp>>
       \/ sock[s].named /\ ipCache' = ipCache \union {s} /\ oldIp' = (oldIp /\ s # "MAIN")
    /\ UNCHANGED <<link, sock, outdated, delayed, turn, report, batches, powerOn>>

(* old_2929_cmd_set, the command having come by SMS or serial line: another  *)
(* server, or another access point, which destroys MAIN alone.               *)
SmsServer ==
    /\ turn = "idle" /\ "server" \in SmsCommands
    /\ Configured(sock)
    /\ UNCHANGED <<link, request, delayed, turn, report, batches, powerOn>>
SmsAccessPoint(what) ==
    /\ turn = "idle"
    /\ Settle("MAIN", Destroy("MAIN", sock["MAIN"])) /\ Stored(what)
    /\ UNCHANGED <<link, ipCache, request, oldIp, delayed, turn, report, batches, powerOn>>

(* The timer: gprs_destroy, whatever is going on, or                         *)
(* gps_service_change_config, for which MAIN may have got its server since.  *)
DelayedDestroy ==
    /\ turn = "idle" /\ delayed = "destroy" /\ delayed' = "no"
    /\ GprsDestroy(sock)
    /\ UNCHANGED <<ipCache, request, outdated, oldIp, turn, report, batches, powerOn>>
(* Mutant: MAIN is moved only if it is connected at that moment. *)
DelayedMove_Connected ==
    /\ turn = "idle" /\ delayed = "move" /\ delayed' = "no"
    /\ IF outdated /\ sock["MAIN"].open
       THEN \E n \in Moves : MoveMain(sock, n) ELSE UNCHANGED <<sock, ipCache, outdated, oldIp>>
    /\ UNCHANGED <<link, request, turn, report, batches, powerOn>>
DelayedMove ==
    /\ turn = "idle" /\ delayed = "move" /\ delayed' = "no"
    /\ IF outdated THEN \E n \in Moves : MoveMain(sock, n) ELSE UNCHANGED <<sock, ipCache, outdated, oldIp>>
    /\ UNCHANGED <<link, request, turn, report, batches, powerOn>>

(* gps_service_push_one_gps, gps_service_push_lbs. *)
Report ==
    /\ turn = "idle" /\ ~waitSend /\ waitSend' = TRUE
    /\ UNCHANGED <<link, sock, names, turn, startSend, batches, powerOn>>

(* Time passes. *)
ExpireLink ==
    /\ gprs # "TIME_PROC" /\ ~waited /\ waited' = TRUE
    /\ UNCHANGED <<gprs, goodOld, Services_>>
ExpireGood ==
    /\ gprs # "TIME_PROC" /\ ~goodOld /\ goodOld' = TRUE
    /\ UNCHANGED <<gprs, waited, Services_>>
Expire(s) ==
    /\ sock[s].status # "INIT" /\ ~sock[s].late
    /\ Settle(s, Expired(sock[s]))
    /\ UNCHANGED <<link, names, turn, report, batches, powerOn>>

------------------------------------------------------------------------------
Ended == {"DATA_FINISH", "ERROR"}

Connection(s) == InitProc(s) \/ Waiting(s) \/ Reconnect(s) \/ StrikesOut(s) \/ Dead(s)

TimerProc ==
    \/ AttachTimeout \/ BearerTimeout \/ Activate \/ Retry \/ RetryByReboot
    \/ Tick \/ AskNothing
    \/ \E s \in Services : Ask(s) \/ Connection(s)
    \/ "CONFIG" \in Services /\ (SkipQuery \/ ConfigWork)
    \/ MainWaits \/ MainSends \/ MainResends \/ MainGivesUp
    \/ "UPDATE" \in Services /\ UpdateWork
    \/ "LOG" \in Services /\ LogWork
    \/ \E status \in Ended :
         \/ MainFinished(status)
         \/ "CONFIG" \in Services /\ ConfigFinished(status)
         \/ "UPDATE" \in Services /\ UpdateFinished(status)
         \/ "LOG" \in Services /\ LogFinished(status)

Environment ==
    \/ Attach \/ Bearer \/ Report
    \/ SmsServer \/ DelayedDestroy \/ DelayedMove
    \/ \E what \in SmsCommands \ {"server"} : SmsAccessPoint(what)
    \/ \E s \in Services : LinkError(s) \/ ReadError(s) \/ DnsAnswer(s)

Time == \/ ExpireLink \/ ExpireGood
        \/ \E s \in Services : Expire(s)

Next == TimerProc \/ Environment \/ Time

Spec == Init /\ [][Next]_vars

(* The 10 ms timer keeps firing and time passes.  A question that a service  *)
(* has asked for is put as long as MAIN does not keep asking for an address  *)
(* of its own: MAIN comes first in s_get_host_list (module Resolver).        *)
MainQuiet == "MAIN" \in ipCache \/ sock["MAIN"].status # "INIT"

FairSpec ==
    /\ Spec
    /\ WF_vars(TimerProc) /\ WF_vars(ExpireLink) /\ WF_vars(ExpireGood)
    /\ \A s \in Services :
         /\ WF_vars(Expire(s))
         /\ SF_vars(Ask(s) /\ MainQuiet)

------------------------------------------------------------------------------
(* Properties.                                                               *)

(* While the network is not up, no service has a socket open or is about to  *)
(* use one: gprs_destroy leaves none behind, and what runs in the rest of    *)
(* its tick opens none.                                                      *)
OfflineIsQuiet ==
    gprs # "TIME_PROC" =>
        \A s \in Services : ~sock[s].open /\ sock[s].status \in {"INIT", "DATA_FINISH", "ERROR"}

(* No descriptor leaks and none is missing: a service has a socket exactly   *)
(* while it works, whichever handler took it there or away.                  *)
OpenIsWorking == \A s \in Services : sock[s].open <=> sock[s].status = "WORK"

(* The buffer of MAIN is gone exactly when its status says so; otherwise     *)
(* gps_service_create(false) would do nothing, for ever.                     *)
DeadIsError == \A s \in Services : ~sock[s].fifo <=> s = "MAIN" /\ sock[s].status = "ERROR"

(* A connection is given up at the limit.  UPDATE and LOG overrun it, their  *)
(* tables refusing the way back to INIT, but only while the name of their    *)
(* server has not been asked for, and with no socket open.                   *)
OverrunOnlyUnasked ==
    \A s \in Services :
        sock[s].status = "CONNECTING" /\ sock[s].fail >= MAX_CONNECT_REPEAT =>
            /\ s \in {"UPDATE", "LOG"} /\ sock[s].named
            /\ turn = "idle" => ~sock[s].executed

(* A service that waits in INIT can get an address: it has one in the cache, *)
(* or a name to ask for.  gps_service_change_config erases both.             *)
ServerKnown ==
    \A s \in Services : sock[s].status = "INIT" /\ s \notin ipCache => sock[s].named

(* A server that was configured is not forgotten, whatever happens to the    *)
(* timer that should move MAIN there: the timer runs, or MAIN is destroyed,  *)
(* to be made anew for that server.                                          *)
MoveIsRemembered == outdated => delayed # "no" \/ sock["MAIN"].status = "ERROR"

Busy == "UPDATE" \in Services /\ sock["UPDATE"].status \in {"INIT", "CONNECTING", "WORK"}

(* The troubles of MAIN never cut an update: gps_service_destroy_gprs gives  *)
(* up the link only when UPDATE has ended.                                   *)
UpdateSurvivesMain == [][turn = "MAIN" /\ Busy => sock'["UPDATE"].status = sock["UPDATE"].status]_vars

(* From the moment the link is given up until it is up again, the services   *)
(* other than MAIN stay where gprs_destroy left them, the rest of that tick  *)
(* included.  (MAIN may be moved to another server.)                         *)
NothingWakesOffline ==
    [][gprs # "TIME_PROC" /\ gprs' # "TIME_PROC" =>
           \/ gprs = "FAILED" /\ goodOld  \* a reboot
           \/ \A s \in Services \ {"MAIN"} : sock'[s].status = "INIT" => sock[s].status = "INIT"]_vars

(* The connection of CONFIG is cut while it asks for the configuration.      *)
ConfigCut == /\ sock["CONFIG"].status \in {"CONNECTING", "WORK"}
             /\ sock'["CONFIG"].status = "INIT"
             /\ turn = "idle" \/ sock["CONFIG"].status = "WORK"

(* A MAIN that was destroyed is created again, by the finish proc of CONFIG  *)
(* or by a reboot, whatever the network does; unless every query of CONFIG   *)
(* is cut, or commands change the access point without end.                  *)
MainComesBack ==
    <>[][~ConfigCut /\ ~DelayedDestroy]_vars => [](sock["MAIN"].status = "ERROR" => <>(sock["MAIN"].status # "ERROR"))

(* An update ends, whatever the servers do: the device must not sleep while  *)
(* one goes on (expmu_service), nor does it give up a broken link.           *)
UpdateEnds == <>[]MainQuiet => [](Busy => <>~Busy)

(* A report handed over while MAIN works is acknowledged, or MAIN gives up   *)
(* that connection.                                                          *)
ReportResolved ==
    waitSend /\ sock["MAIN"].status = "WORK" ~> ~waitSend \/ sock["MAIN"].status # "WORK"

(* config_service.c, where CONFIG becomes ERROR: "created in gprs_create,     *)
(* later the connection is rebuilt"; config_service_retry_config is what     *)
(* should take it from ERROR to INIT.                                        *)
ConfigRetries ==
    <>[][~DelayedDestroy]_vars =>
        [](sock["CONFIG"].status = "ERROR" => <>(sock["CONFIG"].status # "ERROR"))

(* gps_service_change_config: "clear previous connection info".  MAIN never  *)
(* uses the address of a server that it has been moved away from.  The code  *)
(* does not keep this: gps_service_create reads the cache of the former one. *)
RightServer == oldIp => sock["MAIN"].status \notin {"CONNECTING", "WORK"}

(* socket.h, the life of a socket, of the connecting state: "on a timeout    *)
(* the connection is rebuilt; three times, and the error state is entered".  *)
(* The code does not keep this for UPDATE and LOG (OverrunOnlyUnasked).      *)
StrikesEnd ==
    \A s \in Services :
        turn = "idle" /\ sock[s].status = "CONNECTING" => sock[s].fail < MAX_CONNECT_REPEAT

==============================================================================
