# A verification of the WirelessGPSTracker firmware

The program is the firmware of a battery-powered tracker: a GSM modem with an
application (`mtk/src`) and a small power management unit (`mcu/User/src`, "the
unit" below) that wakes it up, cuts its power and keeps the time.  The tracker
sleeps, wakes, attaches to the network, reports its position to a server,
perhaps fetches its configuration, satellite orbits or a new firmware, or
uploads logs, and sleeps again.

This directory holds TLA+ models of the core of that program, the TLC runs that
check them, and the theorems that TLAPS proves about them.  Chinese comments of
the source are quoted with a translation.

## 1. Inventory

| part | state it keeps | operations | talks to |
|---|---|---|---|
| resolver (`socket.c`) | `s_get_host_list` (flag, failures, time per socket), `current_get_host` (one slot) | trigger, timer, modem callback | the services (flag), `system_state` (`ip_cache`), the modem |
| sockets (`socket.c`, `inc/socket.h`) | a `SocketType` per service: status, descriptor, address, name, failures, buffer | init, connect, receive, send, close for reconnect, destroy | the `*_service` handlers, by a switch over `access_id` |
| link (`gprs.c`) | `s_gprs.status`, times | timer, destroy, socket notification | everything: its timer calls every service's timer |
| MAIN (`gps_service.c`, `protocol*.c`) | a waiting report, `start_send_flg` | report, acknowledge, create, change server, destroy link | gprs (gives the link up), UPDATE (asks its status), commands |
| CONFIG (`config_service.c`) | parameters, time of the next query | query, receive, finish, retry | MAIN (creates it again, moves it) |
| UPDATE (`update_service.c`, `update_file.c`) | the file, its state file, two images, a second socket | request, windows of blocks, result, renames | file system, reboot |
| EPO (`agps_service.c`) | the orbit file and the one being fetched | time, parts, framing | GPS receiver |
| LOG (`log_service.c`) | records | upload | the rest of a tick |
| commands (`command.c`, `sms.c`, `uart.c`) | one delayed operation (`GM_TIMER_GPRS_DESTORY_LATER`) | set server, access point, mode, number; resets; sleep | MAIN, gprs, parameters, life cycle |
| life cycle (`expmu_service.c`) | stage of going to sleep, error | report, set the next time, sleep, retry, close | SMSP, GPS, UPDATE's status |
| SMSP (`expmu.c`, `slave_mem_share_protocol.c`) | ring of frames, copy of the registers | insert, send, acknowledge, discover | serial line to the unit |
| the unit (`mcu/User/src`) | its event, registers, alarm, two copies of its parameters in FRAM | main loop, interrupts, frames, halt | the tracker's power |
| stores (`config_save.c`, `system_state.c`) | memory image, main and minor file, NVRAM | start with repairs, save | file system, the unit (mode) |
| wake-up times (`calc_wkp_time.c`, `app_calc_next_wkp_time.c`) | none | next wake-up of each work mode, on both processors | settings, clock, alarm |
| queues (`fifo.c`, `circular_queue.c`) | ring buffers | insert, peek, pop | sockets, LOG, GPS |

Everything in `mtk/src` runs as callbacks of one thread: a callback is atomic,
but a tick of `gprs_timer_proc` is a *sequence* of calls to handlers that
change each other's state (MAIN gives up the link, and LOG still runs in that
tick), and what comes between two ticks (socket notifications, DNS answers,
SMS, serial commands, one-shot timers) comes in any order.  The unit is a second
processor with interrupts of its own, and it may take the tracker's power away
between any two steps.

What is hard in this code, and to test:

* answers and acknowledgements that arrive late, after a timeout, and carry no
  identification (DNS), only a mark (SMSP), or not the place they belong to (EPO);
* failure counters shared by several phases, and status tables that silently
  refuse a transition a handler relies on;
* a MAIN that, once destroyed, only another service (CONFIG) brings back;
* a loss of the link in the middle of a tick, of an update, of a command;
* a handshake between two processors over a line that loses frames, at whose
  end one of them is switched off until a time that only the other knows;
* power cuts between any two file operations: of a save, of an installation;
* state kept in several places: the server in the configuration, in the socket
  and in `ip_cache`; the settings in memory, two files, NVRAM and the unit;
* calendar arithmetic done twice, for an alarm that knows no date.

`PROJECT.json` lists them line by line under `hazards`, with the properties
that cover each one, or the reason why none does.

## 2. The project and its order

| modules | what | abstract specification |
|---|---|---|
| `NameCache`, `Resolver`, `MCResolver`, `Resolver_proofs` | the resolver | `NameCache`: an address is its socket's server's, or late, or of a socket moved unannounced |
| `SocketStatus`, `Net`, `Net_proofs` | the link with MAIN, CONFIG, UPDATE and LOG; commands; reboot | |
| `Smsp`, `Pmu`, `Expmu`, `Power`, `Power_proofs` | tracker and unit: frames, handshake, sleep, alarm | |
| `Images`, `Download`, `MCDownload`, `Download_proofs` | the firmware file and its installation | `Images`: an image gives way to whole files only |
| `Copies`, `ParamStore`, `Fram`, `Stores`, `Stores_proofs` | the settings, their copies, and the unit's | |
| `Epo`, `Epo_proofs` | the orbit file over a stream | |
| `WakeTime`, `MCWakeTime`, `WakeTime_proofs` | wake-up times and the alarm | the moments a mode asks for (`Asked`) |

Modules that compose others: `Power` puts the tracker's program (`Expmu`) on top
of the unit's (`Pmu`), both over `Smsp`; `Stores` puts the tracker's store and
the unit's FRAM together with the frames between them and the power they
share; `Net` composes five components by the tick that calls them.

Left for later: the composition of `Resolver` with `Net`, so that the former's
mix-ups are seen by the latter; servers in `Net` that do not convert.

## 3. The models

### NameCache and Resolver

`NameCache` says what services may rely on: the address kept for a socket is
its present server's, with two exceptions that the code makes and the
specification names.  An answer does not say which question it belongs to, so
one to a question that was given up (`overdue`) may be taken for another
socket's; and a socket that is made anew for a server which
`gps_service_change_config` was not told of (`moved`) keeps the old address
until its name is resolved.  A domain name stands for the address it resolves
to.

`Resolver` is the resolver part of `mtk/src/socket.c`.  `addr`, `executed` are
the sockets' fields, `ipCache` is `system_state`'s, `requested` and `failCount`
are `s_get_host_list`, and `current`, `asked`, `gstatus`, `age` the slot and
its question's age.  `owing` says that the network still owes the answer to the
slot's question.  `overdue` and `moved` are histories: names whose question was
given up with the answer out, and sockets moved unannounced.  How many late
answers are still to come is not counted: once overdue, a name may be answered
at any time, as often as the network likes.

| action | code |
|---|---|
| `Trigger` | `gm_socket_get_host_by_name_trigger` |
| `TimerStart`, `TimerAnswered`, `TimerTimeout` | the three outcomes of `gm_socket_get_host_timer_proc`, each with the hand-over of the slot |
| `Callback` | `socket_get_host_by_name_callback` |
| `ChangeServer`, `Recreate` | `gps_service_change_config`; `gps_service_create(false)` |
| `Second` | `util_timer_proc` |

### SocketStatus and Net

`SocketStatus` holds the four transition tables as data and `Transfer`, which
does what the four `*_transfer_status` functions do: an accepted transition
clears `status_fail_count`, a refused one changes nothing.

`Net` is a tick of `gprs_timer_proc` with everything it calls.  `turn` says
which handler the tick calls next, so that a handler sees what an earlier one
of the same tick did; at `turn = "idle"` the environment may act.  A socket is a
record `[status, open, fail, executed, named, late, fifo]`.

* `Attach`, `Bearer`, `Activate`, `Retry`, `AttachTimeout`, `BearerTimeout`,
  `RetryByReboot`: the states of `s_gprs`.  `Tick` starts a tick in the state
  `TIME_PROC`.
* `InitProc`, `Waiting`, `Reconnect`, `StrikesOut`, `Dead`: `*_init_proc`,
  `*_connecting_proc` and `*_connection_failed` of all services.  They differ
  between services only where the action says so.
* `MainWaits`, `MainSends`, `MainResends`, `MainGivesUp`: the branches of
  `gps_service_work_proc`, each with the message that `protocol_msg_receive`
  may take from the buffer at its end (`MainReceives`).
* `ConfigWork`, `UpdateWork`, `LogWork` and `*Finished`: the work and finish
  procs of the others.  `ConfigFinished` brings MAIN back (`Recreate`).
* `GprsDestroy`, `LoseLink`, `Destroy`, `Finish`: operators, since the code
  calls them from many handlers: `gprs_destroy`, `gps_service_destroy_gprs`,
  `*_destroy`, `*_finish`.
* `LinkError`, `ReadError`, `DnsAnswer`, `Report`: the notifications.
* `SmsServer`, `SmsAccessPoint`: `old_2929_cmd_set` by SMS or serial line, at
  once.  By MAIN's server (in `MainReceives`) it starts the timer, whose end is
  `DelayedDestroy` or `DelayedMove`.
* `Reboot`: memory is lost, the configuration and `ip_cache` are not.

`outdated` and `oldIp` say of the configuration and of `ip_cache` what the code
finds out by comparing texts: that the configured server is not that of MAIN's
socket, and that the address kept for MAIN is a former server's.  Time is a set
of flags: `late` (per socket), `waited`, `goodOld` are raised by the passing of
time and lowered where the code stores the clock.  So every timeout may come at
any time after the clock was stored, also at once: a superset of what the second
counter allows.

Abstractions: message contents; the number of blocks of a file (batches of
blocks, at most `MaxBatches`); the descriptor number; statistics and logging.
Of the resolver `Net` keeps only that a question may be put and answered, and
its answers are always for the right socket; what can go wrong there is the
subject of `Resolver`.  Configured servers are well formed.  All services use
UDP, as `config_service_update_socket_type` and the creation of MAIN choose.

### Smsp, Pmu, Expmu and Power

`Smsp` is the ring of `expmu.c` as a sequence of frames `[kind, next, mark,
retry]`.  `Insert` keeps the code's full ring: the frame that takes the last
slot makes `in` meet `out`, and everything that waits is forgotten.  `FreshMark`
stands for the counter: 256 marks for 20 slots, so that a new frame has a mark
that nothing in the ring and nothing on the line has.  `Delete` asks, as the
code does, whether the oldest frame has the mark; the code does not ask whether
there is one (`expmu.c:1041`), so that an answer that comes after the ring has
forgotten its frames would move `out` past `in` and bring old frames back.  That
case is left out.

`Pmu` is the unit's `main`.  `event` is `g_evt_ctrl.event`; `pc` says whether it
is at its loop, between the last statement and `halt`, or halted: an interrupt
in between is the hazard.  `reg` are the registers the tracker writes, `alarm`
is `g_para.next_time` with the clock's alarm while the tracker is off.

| action | code |
|---|---|
| `PowerUp`, `PrepareLpm`, `EnterLpm`, `Halt`, `FromAlarm`, `FromLight`, `ExitLpm` | the switch of `main.c` and the `app_*`, `bsp_*` functions it calls |
| `Serve` | `slave_mem_share_protocol_prase` with the write to the register and the answer |
| `CountedDown`, `HoldTimeout` | `is_need_change_event_to_lpm` |
| `AlarmRings`, `Light` | the two interrupt handlers, which set the event only in `ENTER_LPM` |

`Expmu` is the tracker's program: `InitAgain` ... `WorkRead` are
`expmu_init_proc`, `expmu_query_proc`, `expmu_work_proc`; `Push` and `Receive`
the ends of the line; `SrvInit` ... `LastCallEnds` one action per outcome of
`expmu_service_timer_proc`, where `NextAgain`, `NextFails`, `NextDone` set the
wake-up time and `IntoAgain`, `IntoFails`, `IntoDone` order the sleep; `Orders`
are a change of the work mode, an order to sleep and a reboot.  The tracker
knows the unit's registers only by `copy`.  `Power` puts both together:
when the unit takes the tracker's power (`UnitSleeps`, `UnitCounts`), the
program's state is a fresh start's (`Boot`).

Abstractions: each frame fits the line whole; frames that write parameters only
delay others; how long a stage lasts is reduced to whether its wait is over.
The line loses any frame or answer (`Lossy`).  With `Prompt` a timeout comes only
when ring and line are empty and the tracker does nothing between a frame and
its answer: the unit answers within milliseconds, the timeouts are 3 s and more.

### Images and Download

`Images` says what an installation promises of the two images: the main one
gives way to a whole file only, and not before it is the minor one.

`Download` is `update_file.c` and the part of `update_service.c` that drives it.
`ext` is `s_file_extend`, `saved` the state file, `upgrade` the upgrade file as
the program reads it and `flash` what a power cut would leave of it: a file is
a function from block numbers to the file each block came from, so a mixed file
is seen.  `net` and `fifo` are the messages on their way and in the buffers.

| action | code |
|---|---|
| `AsksAgain`, `AsksNoMore`, `Ready`, `NothingNew` | `update_service_work_proc` before a file is known; READY goes through `Start`, which resumes or begins anew |
| `Ignore`, `Block`, `NextWindow`, `FileEnds`, `WriteFails` | the outcomes of a block: `update_filemod_*`, the state file after each window, check sum and end of the file |
| `RequestsAgain`, `GivesUp` | the repetition of a window's request |
| `FileInit`, `FileConnected`, `FileStrike` | the second socket |
| `Install`, `Conclude` (operators) | `update_service_result_to_server`: delete the minor image, rename the main one, rename the file |
| `CutSaving`, `CutInstall`, `PowerCut` | the power fails at a step of these or between calls |
| `LinkLost`, `ServerCloses`, `Lose`, `Slow`, `Switch` | the network and the server |

Abstractions: a check sum is right exactly for the blocks of one file, in order;
the connection of UPDATE's own socket is `Net`'s subject; the second server's
name is taken to resolve.  Files may have the same length: the code compares
only the size of a file it resumes (`update_file.c:1112`), so a download may go
on in an upgrade file made for another file.  `made` is the history variable
that says for which file the upgrade file was made.  The check sum keeps such a
mixture from becoming an image.

### Copies, ParamStore, Fram and Stores

`ParamStore` is `config_save.c`: `settings` in use, and its images `mem` (memory
that a reset does not clear), `main`, `minor`, with the number in `nvram`.  An
image is a mode, `Blank` (settings that do not convert, saved as an empty image
with a good check sum) or `Torn`.  `pc` is the step of the start (`Read`,
`FixMain`, `FixMinor`, `FixMem`, `Load`) or of the save (`SaveMem`, `SaveMain`,
`SaveMinor`, `SaveNvram`) that comes next: only a stop comes between two steps.
`Choice` is the order in which the start trusts the three copies.  A write that
fails is counted in `errors`; the code ignores that of the main file.

`Fram` is `app_fram_manger.c`: two copies written one after the other, and the
start that takes a good first copy without mending the second.  `Stores` adds
the commands that change mode, server and number, the two resets, the frames
that tell the unit of a new mode, and the stops, which hit one or both.

### Epo

`agps_service.c` with its buffer, framing and socket.  Half messages are the
point: an answer is two pieces of a stream, the buffer holds `FIFO_PIECES`, and
`half` is `packet_error_start`.  `Receive` is the loop of `agps_service` over
the buffer with `Parsed` for a whole message (`TimingAck`, `FirstPart`,
`NextPart`); `TimerProc` is one second of the service.  Time is counted in
stretches of six hours, and version v of the server's file covers the stretches
`v .. v + SEGMENTS - 1`; a part of a file is `<<version, place>>`, so a file of
mixed or misplaced parts is seen.  An answer does not say which part it is, and
what a piece out of step is taken for is any hour (`Hours`).  `stale` records
that a connection began with an older one's pieces in the buffer.

### WakeTime

Both calculations, the tracker's (`NextPoint`) and the unit's (`OwnPoint`), with
the time that is handed over and put off for the handshake (`Calculate`), the
alarm that knows hour, minute and weekday (`SetAlarm`, `Rings`), and the check
when it rings (`Matches`).  `Asked(t)` is the reference: the moments at which
a mode wants the tracker awake, said without a calculation.  Months and leap
years are left out, since a local time is a count of ticks.

The constants are assumed to be what the code makes them: times of day and the
repetition gap are whole minutes, zones go from -12 to 12 hours, the tracker
hands its time over within a minute (`HANDSHAKE`), and the clock is past its
first 176 hours, so that no time is 0 by accident, which means "no sleep", even
on a unit that takes its zone for another.

A weekday's moment at 00:00 is a special case on the unit.  Its calculation
returns the time of day, here 0 (`app_calc_next_wkp_time.c:204`), which
`app_enter_lpm_init` takes for a mode without sleep (`app.c:490`): it sets its
alarm five minutes ahead.  So does `OwnPoint`.  The tracker is then woken too
often, never too late.

`Matches` takes the clock as set since the unit's power-on.  With one that was
not, `app.c:596` wakes the tracker at every alarm.

Four things the code does keep the two properties from holding without
exception, and the properties name them:

* `Misjudged`: the unit takes an odd or western zone for another one
  (`app_calc_next_wkp_time.h:78`), or its alarm still has an earlier weekday
  (`app.c:511`);
* `alarm.lost`: a clock that is set on a Sunday has the weekday 0 (`time.c:74`);
* `TooSoon`: with a repetition gap of one minute the alarm, which is set to the
  minute, may already be past, and then rings a day later;
* `DayTooSoon`: a weekday's moment at 23:59 that is put off by a minute
  (`calc_wkp_time.c:502`) is sent with the weekday of the day that has ended;
  the alarm rings in a week, at the beginning of that day.

## 4. The runs

Constants that count repetitions are 2 in the runs (1 for the settings of
`Power`), so that there is a failure that is repeated and a last one.  In the
code they are 3 (`MAX_CONNECT_REPEAT`, `MAX_MESSAGE_REPEAT`,
`MAX_GET_HOST_REPEAT`), 5 (reports) and 30 (blocks).  `FAIL_WRAP = 4` stands for
256: it lies above every limit, and a counter that overruns its limit wraps
within the run.

| run | asks | result |
|---|---|---|
| `Resolver` | Do slot, flags and counts stay consistent, and is a request served once lower ones are quiet, under late answers and unannounced moves? | holds |
| `Resolver_cache` | Three sockets, the lowest movable, every late answer and unannounced move: does the slot never leak, is an address its own server's but for the two exceptions, is `NameCache` implemented? | holds |
| `Net` | MAIN and CONFIG: does MAIN come back, is a report resolved? | holds |
| `Net_commands` | commands at every moment of a tick: is a server known, is no move forgotten? | holds |
| `Net_update` | MAIN and UPDATE: no descriptor leaks, an update is not cut by MAIN and ends? | holds |
| `Net_log` | MAIN, CONFIG, LOG: the rest of the tick in which the link dies | holds |
| `Net_config` | does CONFIG leave ERROR, as its retry wants? | **violated** |
| `Power` | Is a tracker that lets go woken at its time, is its unit going to switch it off, do handshake and sleep end? | holds |
| `Download` | Three files, two of one length, a server that changes its mind twice: does a download resume without holes, are images whole, is one interrupted installation harmless, is the file installed in the end? | holds |
| `Stores` | Under a stop at any write: does a file with a good check sum (perhaps the empty image) remain, does a start after one stop find the old or the new settings, does the unit follow?  These speak of runs in which no write has failed; that the number is kept, and that the unit's copies are old or new, of one failed write too. | holds |
| `Epo` | Is the orbit file one stretch of one version, and does it arrive? | holds |
| `WakeTime` | Is no moment slept through, and no alarm for nothing? | holds |

Bounds, and why they are enough:

* `Resolver` (124 926 states), `Resolver_cache` (1 100 341, the two names taken as
  symmetric): the socket indices 0 (MAIN, whose server may move) and 4, with a
  third between them for the cache, and two names, which two sockets may share.
  Late answers are not bounded.  `GET_HOST_TIME_OUT = 1` gives a question one
  second in which it is not yet late; for the cache it is 0, since there a
  timeout may come at any tick anyway.
* `Net*`: two or three services each: the services touch each other pairwise
  (MAIN with CONFIG, MAIN with UPDATE), and LOG, which nobody asks, is checked
  with both that act before it.
* `Power` (327 599 states): a ring of 5 slots, which the longest queue (two reads
  of the registers and a setting) fills, so that the code's full ring, which
  forgets all frames, occurs; 7 marks (the ring's and two on the line), one time
  of the tracker's and another of the unit's own, a query and a setting repeated
  once.  `MAX_QUEUED = 0`: a new order waits for an empty ring.
* `Download` (362 843): A of three blocks (two windows, the second one short) on
  UPDATE's own server, C of three and B of one on the second one.  A partial C
  looks like a partial A.  The server changes its mind twice, so that it may come
  back to a file that was begun, and any two things go wrong.
* `Stores` (1 858 754): three modes (old, new, default), one failed write, two
  cuts, two changes: a second cut can meet what the first left.
* `Epo` (271 942): a file of two stretches of two parts, a buffer of two
  messages, two faults, and the time and the server's file move on twice.
* `WakeTime` (8 945 795): twelve days, so a week, both its ends and the day on
  which an alarm of a week ago comes round (`DayTooSoon`); three zones
  (even, odd, western); an hour of 6 ticks, that is of two minutes, which scales
  nothing but the number of minutes in an hour; modes with points before, at and
  after midnight, more than a week ahead, and with none.

Deadlock is not checked where the system may really come to rest: `Download`
(after two interrupted installations the tracker may not boot), `WakeTime` (time
ends), `Power` and `Epo` (nobody gives an order, the bound on faults and time is
reached).

### What the violated run shows

`gprs_destroy` takes a finished CONFIG to ERROR; its table refuses the INIT that
`config_service_retry_config` asks for.  After the first loss of the link the
configuration is not queried again until a reboot.

### What the code does not keep

Some modules define a property that a reader would expect and that has a
counterexample.  They are in no run; the properties that are checked say what
remains true.

| definition | why not | what holds instead |
|---|---|---|
| `Resolver!EveryRequestServed` | the search begins at index 0 in each tick: a MAIN whose name does not resolve starves the others | `ServedWhenLowest` |
| an address is always its own server's | the callback is not told which question is answered; it compares the name that was asked with that of the socket in the slot, which differ only if the server has changed meanwhile, so the answer to an earlier question is stored for another server | `CacheIsOwn`, which names the two exceptions |
| `Net!RightServer` | a command that sets both server and access point destroys MAIN but does not clear `ip_cache`: MAIN is created with the new name and the old address | `MoveIsRemembered` |
| `Net!StrikesEnd` | UPDATE and LOG ask for INIT after the last failure if the name was not asked yet, and their tables refuse it | `OverrunOnlyUnasked` |
| `Power!FailureSleeps` | after a setting that failed the device is to sleep all the same (`expmu_service.c:804`); if the mode was changed while `is_sleep` was set, the order to sleep is never pushed and the closed timer never tries again | `StoppedMeansOff` |
| `Download!UpdatedIsMain` | the link is lost in the 5 s before the reboot: the result is reported again, the minor image deleted, the new main one renamed to minor, and the main one is missing | `OneCutIsHarmless` |

Other places where a condition in a property tells of the code:

* `ConfirmedAlarm` holds for the first time that is set (`settings = 1`): after
  a change of mode in the handshake the copy may still show the former time.
* `OldOrNew`, `UnitOldOrNew` allow one stop: after a second one the minor file
  may be older, and the unit may take its defaults, since a start mends neither.
* `NeverForgets` says that a good check sum remains, not settings: see the next
  item.  It, `OldOrNew`, `SavedIsInForce` and `InStep` need `errors = 0`: the code
  ignores a failed write of the main file.
* `SavedIsInForce`: a server's address that does not convert is saved as an
  empty image with a good check sum (`command.c:371`), and the next start takes
  the defaults.
* `Installed` excludes `mixed`: two servers' blocks in one upgrade file fail the
  check sum, but the state file stays (`update_file.c:1018-1024`), and the file
  is resumed and refused for ever.  The same becomes of a file resumed in an
  upgrade file made for another one of its length.
* `CountedIsThere` excludes `mixed` too, and speaks of an upgrade file that was
  made for the file which the state file names.
* `OneCutIsHarmless` counts a second report of the same installation as a cut.  A
  second report and a power cut together may leave no image.
* `Served` counts a message that is split after a remembered half as one of its
  bounded faults (`protocol.c:65`).
* `FileIsRight` excludes `stale`: the buffer is not emptied when the connection
  is made again (`agps_service.c:322-323`), and a stale answer is taken for
  another part.
* `NothingSleptThrough` excludes `Misjudged` and `alarm.lost`: the unit's own time
  keeps the weekday byte of an earlier alarm (`app.c:511`, `527`); the macro
  `g_para.zone&0x80 > 0` tests the lowest bit
  (`app_calc_next_wkp_time.h:78`), so odd and western zones are misjudged; a
  clock set on a Sunday has weekday 0 (`time.c:74`).  `LastRound`: the last
  round of a loop before its stop is skipped when no whole interval is left.
* Found in the same reading and not stated as properties: a mode with a single
  weekday may give a past time (`calc_wkp_time.c:191`), `REPGAP` is not
  validated (`command.c:2023`), `expmu_query_proc` counts nothing and never
  reaches ERROR (`expmu.c:719`), an update may start after the check that no
  update is under way (`expmu_service.c:676`).

## 5. Fairness

* `Resolver`, `Net`: `WF(TimerProc)`: the 10 ms timer is started again by its own
  handler.  `WF` of the `Expire` actions: the clock does not stop.  Nothing is
  assumed of the network: `Attach`, `Bearer`, answers, acknowledgements and
  notifications need never happen.  `SF(Ask(s) /\ MainQuiet)`: a question that is
  enabled again and again while MAIN is not waiting for an address of its own is
  put some time.  That is what `ServedWhenLowest` of `Resolver` shows with weak
  fairness only; it is strong here since `Ask` is enabled in one step of each
  tick.  `UpdateEnds` has `<>[]MainQuiet` as its premise for the same reason.
  The premises of `MainComesBack` (`~ConfigCut`, `~DelayedDestroy` from some time
  on) exclude a network that cuts every query of CONFIG, and a server that
  changes the access point without end: both really keep MAIN away.
* `Power`: weak fairness of the loops of both programs, of the alarm and of time;
  strong fairness of `SrvProc`, since a service's turn is enabled again and again
  between exchanges with the unit.  No order, key or light is assumed, and the
  line may lose everything.
* `Download`: `WF(Unit)`, the timer that reads buffers and clocks, and
  `WF(Delivery)`: what is not lost (a bounded fault) arrives.
* `Epo`: `WF(TimerProc)` and the two clocks, and of a server that has not gone
  that it answers; it may go at any time, which is a fault.
* `Stores`, `WakeTime` and the other runs state no liveness.

## 6. The theorems

The `*_proofs` modules state for all constants that satisfy the named
assumptions what the runs check on small instances.  Bounds on the environment
(`MaxFaults`, `MaxCuts`, ...) are constants too, so the theorems hold for any
number of faults.

**Resolver.**  `TypeCorrect` is inductive by itself; `SlotInv` adds that a holder
is flagged, in each outcome of `HandOver`, and that an entry without a flag has a
clean count.  `SlotNeverLeaks`, `FailCountsFresh` and `LeavesAsHolder` follow.
`CacheStaysOwn` and `ResolverImplementsNameCache` assume nothing of the network
and of the commands: answers may be late, doubled or missing and servers change
at any time.  Their invariant is `TypeOK`, `HolderAsked` (the slot is held for a
name, so a holder whose server has become a literal address fails the
callback's comparison) and `CacheIsOwn` itself.  The heart is `CallbackStores`: what
the callback stores is the name that is asked now, which is the holder's, or one
that is overdue.  Each step is then one of `NameCache` or a stutter; a timeout is
its `GiveUp`.

**Net.**  The inductive invariant is `IInv == TypeOK /\ Sockets /\ Tail /\ Served`:

* `Sockets`: each socket is `Sound` (open exactly in WORK, buffer lost exactly
  by a destroyed MAIN, GET_HOST never entered), and quiet while the link is
  down.  No single property is inductive without the others: that no descriptor
  leaks in a destroyed link needs that only working sockets are open;
* `Tail`: if the link is lost and the tick goes on, only LOG is left to run and
  it has been destroyed.  Without it `OfflineIsQuiet` and `NothingWakesOffline`
  do not follow, for LOG's handlers would have to look at the link;
* `Served`: a service in INIT has an address or a name.

Each operator on a socket has a lemma that it keeps `Sound`, each action a step
lemma, and `Step` puts them together.  `NoMoveIsForgotten` adds that a delayed
operation stays pending or leaves MAIN in ERROR (`DeadStays`, `OrdersKept`).
`LimitOverrunUnasked` adds `LimitInv`: a socket that is CONNECTING at its limit is
UPDATE's or LOG's, has a name and is out of time, and if that name has been asked
for, its timer function is still to run in this tick (`Ahead`) and will end the
connection.  Every other step leaves a socket alone or not connecting (`Rested`).

**Power.**  `SleepsUntilItsTime` is the theorem the handshake exists for.  Its
invariant says, beside the types:

* `Seen`: whoever has seen the unit counting down was right: the register, or
  the event, still says so.  `StoppedMeansOff` follows;
* `Staged`, `Off`, `Woken`: the service starts only when the registers are
  known, a tracker without power has no state, a unit that wakes has it off;
* `RingFits`: marks in the ring are distinct, and a frame or answer on the line
  that has a ring frame's mark is of that frame; times written are only this
  start's.  `AnswersMatch` follows.  That a fresh mark exists is a
  cardinality argument from `RingAssumption`;
* `LineWrites`: a frame of an earlier start can only wait at the unit while the
  tracker has not learnt anything (`Stale`);
* `Trusted`: a time that was read back may be trusted, as the register has it
  and no frame on its way could change it.

**Stores.**  The store's invariant has four parts, each about one promise: what
runs is what was saved (`InForce`), one file is intact and the start or save works
from that one (`Whole`), before any counted stop the copies agree (`Fresh`), and
after one they are of the last or the interrupted save (`Recent`).  `FramInv` says
the same of the unit's two copies.  `UnitFollows` adds what the frames on their
way will make of the unit's mode (`Told`), and that a tracker which has finished
its start agrees with that (`Agree`, `Settled`).

**Download.**  `RamInv` (what is fetched is consistent with the file that is open,
an installed file is gone) and `Bootables` (how many cuts it takes to have no
image) are inductive; `ImplementsImages` maps each renaming to a step of `Images`
and everything else to a stutter.  `ResumesWhereItWas` adds `CountInv`, which speaks
of the time before blocks of two files were `mixed`:

* `Fit`: a block on its way lies within the length of its file;
* `Sized`: what is on the disk has the length of the file it was made for, `made`;
  files may have equal lengths, so the length does not tell which file that is;
* `Fetched`: every block before the window, and those of it that are marked, are
  in the file as it is read;
* `Counts`: if the state file is about `made`, the blocks it counts are in it too,
  and in what a cut leaves of it, for the state is written after the file is
  flushed.

A download resumed in an upgrade file made for another file is `mixed` at once
(`Ready`, `FileConnected`): the blocks before it are another file's.

`TypeCorrect` needs more than the types (`TypeInv`): while a file is open there is
one to write to, a message on its way or in a buffer is one of the file it names,
and the count of failures of each channel is below one of the two limits it is
compared with (`FailCounts`): blocks that are asked for again and requests, or
connections, share it.  `None` must not itself be a content of a file
(`ImageAssumption`).

**Epo.**  `FilesAreRight` needs to know that answers come to the questions they
are for, although nothing in an answer says so.  Its invariant `Inv` has:

* `Single`: on a connection that began with an empty buffer there is one request,
  or the pieces of its one answer, in their order, in the stream and the buffer;
* `Due`: that request is for the time while it is asked for, and then for the part
  that comes next;
* `Begun`: what has been fetched is the beginning of a stretch of the version the
  file began with, and `extend.start` is the next part of it; on any other
  connection, the file being fetched carries its flag `stale`;
* `Files`: the file in use and the one on the disk are right, or stale, or torn.

`TypeCorrect` holds on every connection, even when the buffer began with
another's pieces and they were taken for anything.  That a part asked for stays
in range is not inductive alone: `Ahead` says that before the work ends what has
been fetched is shorter than a stretch, and that the part to ask for lies no
further from the beginning than the clock can be from the file's first hour.
`MAX_CONNECT_REPEAT` is never reached (`Sized`): the attempt that would is the
one that gives up.

**WakeTime.**  Both theorems hold for an hour of any length, every set of moments
and every zone, and without an end of time.  The argument has three layers:

* division: a local time is the r-th tick of day q, for one q and r (`DayOf`,
  `DivisionIs`), and `Midnight`, `Weekday` and the time of day are functions of
  those (`DayIs`).  `Least` says what the community modules' `Min` returns;
* calculation: what each mode computes from the time c is `Good`: later than c,
  not later than any moment asked for from c + 10 on (`NoneBefore`), and close to
  a moment or at half past twelve of a mode without moments (`ClockGood`,
  `LoopGood`, `PointsGood`, `TrackGood`).  A weekday's time may be of today and
  past (`WeekTimeIs`), so for that mode the alarm is looked at, not the time;
* alarm: it `Reaches` a moment if it rings at a tick between now and that moment,
  and is `Meant` if it rings for something each time (`GoodAlarm`, `WeekAlarm`).
  A repetition comes before what was planned (`RetryIs`); the unit's own time is
  the tracker's, moved by the difference of their zones, or five minutes ahead
  where the calculation gives 0 (`OwnIs`).

The invariant `Inv` says of a tracker on its way to sleep (`GoingRight`) and asleep
(`AsleepRight`) that its alarm `Reaches` every moment that lies `FAR` from the
calculation, and if it was planned, is `Meant`; a tick that does not wake the
tracker leaves both true because every ring of the alarm does.  TLC was run on
`Inv` with moments up to two weeks ahead before it was proved.  The proof does
not go through for a gap of one minute, nor for a moment at 23:59 that is put off:
that is how `TooSoon` and `DayTooSoon` were found.

Model-checked only: all liveness (`MainComesBack`, `ReportResolved`, `UpdateEnds`,
`ServedWhenLowest`, `SleeperWakes`, `HandshakeEnds`, `Installed`, `WorkEnds`,
`Served`), which TLAPS does not reach.

## 7. Not modelled

* GSM state (`Net` sees it as the conditions of `Attach` and `Bearer`),
  indicators, wifi, JSON, statistics and logging: polling, output, formatting.
* Self test, test mode and `gps_service_restart`: factory use.
* The parsing and filtering of positions and the bytes of the 2929 protocol:
  floating point and layout.  `circular_queue.c` serves those filters.
* The queue of LOG's records: text.
* AGPS for the receivers taidou and zkw, whose parts have other lengths;
  `agps_service_reset`, whose only caller is commented out (`gps.c:464`).
* The unit's light sensor debouncing, its debug port and its tick timer.
* An answer that comes after the ring of `Smsp` has been emptied (section 3), and
  the unit's clock before it is set for the first time (`app.c:596`).
* A settings' server that does not convert is seen by `Stores` but not by `Net`.
* The delay of one second before the reset is none in `Net`.
* The vendored STM8 library and the modem's SDK headers are nearly two thirds of
  the repository's lines and no logic of this program.  The map stands for about
  9 100 lines, some 30 % of the firmware's own 30 300 (`mtk/src`, `mcu/User`,
  `mcu/Bsp`), and a tenth of all.

Hazards with a `note` in `PROJECT.json` are not covered by a property, for the
reason the note gives.
