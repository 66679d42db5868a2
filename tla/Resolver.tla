------------------------------- MODULE Resolver ------------------------------
(* The domain name resolver of mtk/src/socket.c.  Every service asks for its *)
(* name by raising a flag in s_get_host_list; one slot, current_get_host,    *)
(* holds the request being asked of the network; gprs_timer_proc calls       *)
(* gm_socket_get_host_timer_proc, which gives the slot to the lowest index   *)
(* that has asked, and the modem answers through                             *)
(* socket_get_host_by_name_callback, which is not told which question it     *)
(* answers.  util_clock ticks once a second.                                 *)
EXTENDS Integers, FiniteSets

CONSTANTS
    Sockets,            \* the registered sockets, by SocketIndexEnum
    Movable,            \* those whose server may change while the program runs
    Domains,            \* domain names; a name stands for the address it resolves to
    NoName,             \* socket->addr is empty
    NoIp, LiteralIp,    \* ip_cache: 0.0.0.0, or an address configured literally
    NoSocket,           \* current_get_host.socket == NULL
    GET_HOST_TIME_OUT,  \* seconds a question may stay unanswered
    MAX_GET_HOST_REPEAT \* unanswered questions after which a request is dropped

ASSUME SocketsAssumption == Sockets \subseteq Nat /\ Movable \subseteq Sockets
ASSUME NamesAssumption ==
    /\ NoName \notin Domains /\ NoSocket \notin Sockets
    /\ NoIp \notin Domains /\ LiteralIp \notin Domains /\ NoIp # LiteralIp
ASSUME BoundsAssumption ==
    GET_HOST_TIME_OUT \in Nat /\ MAX_GET_HOST_REPEAT \in Nat \ {0}

VARIABLES
    addr,       \* socket->addr
    executed,   \* socket->excuted_get_host
    ipCache,    \* system_state's ip_cache
    requested,  \* s_get_host_list[i].requested
    failCount,  \* s_get_host_list[i].fail_count
    current,    \* current_get_host.socket
    asked,      \* current_get_host.addr
    gstatus,    \* current_get_host.status
    age,        \* util_clock() - s_get_host_list[current].send_time, saturating
    owing,      \* the network still owes the answer to the slot's question
    overdue,    \* names a question for which was given up with its answer out
    moved       \* sockets made anew for a server that was not announced

clients == <<addr, executed, ipCache>>
list == <<requested, failCount>>
slot == <<current, asked, gstatus, age>>
history == <<overdue, moved>>
vars == <<clients, list, slot, owing, history>>

Names == Domains \union {NoName}
Expired == GET_HOST_TIME_OUT + 1

TypeOK ==
    /\ addr \in [Sockets -> Names]
    /\ executed \in [Sockets -> BOOLEAN]
    /\ ipCache \in [Sockets -> Domains \union {NoIp, LiteralIp}]
    /\ requested \in [Sockets -> BOOLEAN]
    /\ failCount \in [Sockets -> 0 .. MAX_GET_HOST_REPEAT - 1]
    /\ current \in Sockets \union {NoSocket}
    /\ asked \in Names
    /\ gstatus \in {"INIT", "CONTINUE", "SUCCESS", "FAILED"}
    /\ age \in 0 .. Expired
    /\ owing \in BOOLEAN /\ (owing => asked \in Domains)
    /\ overdue \subseteq Domains /\ moved \subseteq Movable

(* gprs_create: every service has created its socket, with the name or the   *)
(* literal address of its server and the address of an earlier start.        *)
Init ==
    /\ addr \in [Sockets -> Names]
    /\ ipCache \in [Sockets -> Domains \union {NoIp, LiteralIp}]
    /\ \A s \in Sockets :
         ipCache[s] \in IF addr[s] = NoName THEN {LiteralIp} ELSE {addr[s], NoIp}
    /\ executed = [s \in Sockets |-> FALSE]
    /\ requested = [s \in Sockets |-> FALSE]
    /\ failCount = [s \in Sockets |-> 0]
    /\ current = NoSocket /\ asked = NoName /\ gstatus = "INIT" /\ age = 0
    /\ owing = FALSE /\ overdue = {} /\ moved = {}

------------------------------------------------------------------------------
(* The services.                                                             *)

(* gm_socket_get_host_by_name_trigger: called by a service that is in its    *)
(* INIT state.                                                               *)
Trigger(s) ==
    /\ addr[s] # NoName
    /\ requested' = [requested EXCEPT ![s] = TRUE]
    /\ UNCHANGED <<clients, failCount, slot, owing, history>>

(* Mutant: the address of the old server is kept. *)
ChangeServer_KeepsIp(s, n) ==
    /\ addr' = [addr EXCEPT ![s] = n]
    /\ executed' = [executed EXCEPT ![s] = FALSE]
    /\ moved' = moved \ {s}
    /\ UNCHANGED <<ipCache, list, slot, owing, overdue>>

(* gps_service_change_config: the socket is created anew (gm_socket_init)    *)
(* with another server; a domain starts with no address, a literal address   *)
(* is stored at once.                                                        *)
ChangeServer(s, n) ==
    /\ addr' = [addr EXCEPT ![s] = n]
    /\ executed' = [executed EXCEPT ![s] = FALSE]
    /\ ipCache' = [ipCache EXCEPT ![s] = IF n = NoName THEN LiteralIp ELSE NoIp]
    /\ moved' = moved \ {s}
    /\ UNCHANGED <<list, slot, owing, overdue>>

(* gps_service_create(false): the socket is created anew for the configured  *)
(* server n.  If gps_service_change_config was not called for n, a domain    *)
(* finds the address of the former server (module Net: RightServer).         *)
Recreate(s, n) ==
    /\ addr' = [addr EXCEPT ![s] = n]
    /\ executed' = [executed EXCEPT ![s] = FALSE]
    /\ \/ /\ n = NoName
          /\ ipCache' = [ipCache EXCEPT ![s] = LiteralIp]
          /\ moved' = moved \ {s}
       \/ /\ n # NoName /\ UNCHANGED ipCache
          /\ moved' = IF n = addr[s] THEN moved ELSE moved \union {s}
    /\ UNCHANGED <<list, slot, owing, overdue>>

------------------------------------------------------------------------------
(* gm_socket_get_host_timer_proc.                                            *)

Lowest(i) == requested[i] /\ \A j \in Sockets : j < i => ~requested[j]

(* current_get_host_init *)
FreeSlot ==
    /\ current' = NoSocket /\ asked' = NoName /\ gstatus' = "INIT" /\ age' = 0
    /\ owing' = FALSE

(* gm_socket_get_host_by_name: ask for the name of i, unless it has none.    *)
GetHostByName(i) ==
    \/ addr[i] = NoName /\ FreeSlot /\ UNCHANGED executed
    \/ /\ addr[i] # NoName
       /\ current' = i /\ asked' = addr[i] /\ gstatus' = "CONTINUE" /\ age' = 0
       /\ executed' = [executed EXCEPT ![i] = TRUE]
       /\ owing' = TRUE

(* The slot's question is given up; if its answer is out, it may still come. *)
GiveUp == overdue' = IF owing THEN overdue \union {asked} ELSE overdue

(* Mutants: the failures of the request are not forgotten; only they are.    *)
Withdraw_KeepsCount(c) ==
    /\ requested' = [requested EXCEPT ![c] = FALSE]
    /\ UNCHANGED failCount
Withdraw_KeepsFlag(c) ==
    /\ failCount' = [failCount EXCEPT ![c] = 0]
    /\ UNCHANGED requested

(* The request of the slot's holder is done with.                            *)
Withdraw(c) ==
    /\ requested' = [requested EXCEPT ![c] = FALSE]
    /\ failCount' = [failCount EXCEPT ![c] = 0]

(* Mutant: the slot is not freed when its holder is the lowest asker. *)
HandOver_KeepsSlot(c, i) ==
    \/ c = i /\ UNCHANGED <<slot, owing, executed>>
    \/ c # i /\ GetHostByName(i)

(* Give the slot on to i, unless i itself was just done with.                *)
HandOver(c, i) ==
    \/ c = i /\ FreeSlot /\ UNCHANGED executed
    \/ c # i /\ GetHostByName(i)

TimerStart(i) ==
    /\ Lowest(i) /\ current = NoSocket
    /\ GetHostByName(i)
    /\ UNCHANGED <<addr, ipCache, list, history>>

TimerAnswered(i) ==
    /\ Lowest(i) /\ current # NoSocket
    /\ gstatus \in {"SUCCESS", "FAILED"}
    /\ Withdraw(current)
    /\ HandOver(current, i)
    /\ GiveUp
    /\ UNCHANGED <<addr, ipCache, moved>>

(* Mutants: one failure too many is counted; the lowest asker is withdrawn   *)
(* in place of the slot's holder.                                            *)
TimerTimeout_OneMore(i) ==
    /\ Lowest(i) /\ current # NoSocket
    /\ gstatus \notin {"SUCCESS", "FAILED"} /\ age > GET_HOST_TIME_OUT
    /\ failCount' = [failCount EXCEPT ![current] = @ + 1]
    /\ \/ /\ failCount[current] < MAX_GET_HOST_REPEAT
          /\ UNCHANGED requested
          /\ GetHostByName(i)
       \/ /\ failCount[current] >= MAX_GET_HOST_REPEAT
          /\ requested' = [requested EXCEPT ![current] = FALSE]
          /\ HandOver(current, i)
    /\ GiveUp
    /\ UNCHANGED <<addr, ipCache, moved>>
TimerTimeout_WrongOne(i) ==
    /\ Lowest(i) /\ current # NoSocket
    /\ gstatus \notin {"SUCCESS", "FAILED"} /\ age > GET_HOST_TIME_OUT
    /\ Withdraw(i)
    /\ HandOver(current, i)
    /\ GiveUp
    /\ UNCHANGED <<addr, ipCache, moved>>

TimerTimeout(i) ==
    /\ Lowest(i) /\ current # NoSocket
    /\ gstatus \notin {"SUCCESS", "FAILED"} /\ age > GET_HOST_TIME_OUT
    /\ \/ /\ failCount[current] + 1 < MAX_GET_HOST_REPEAT
          /\ failCount' = [failCount EXCEPT ![current] = @ + 1]
          /\ UNCHANGED requested
          /\ GetHostByName(i)
       \/ /\ failCount[current] + 1 >= MAX_GET_HOST_REPEAT
          /\ Withdraw(current)
          /\ HandOver(current, i)
    /\ GiveUp
    /\ UNCHANGED <<addr, ipCache, moved>>

TimerProc == \E i \in Sockets : TimerStart(i) \/ TimerAnswered(i) \/ TimerTimeout(i)

------------------------------------------------------------------------------
(* The network and the clock.                                                *)

(* An answer for n: to the slot's question, or to one that was given up; of  *)
(* those there may be several, and how many are still to come is not counted. *)
Answer(n) ==
    \/ owing /\ n = asked /\ owing' = FALSE
    \/ n \in overdue /\ UNCHANGED owing

(* system_state_set_ip_cache, for the holder of the slot. *)
Store(n) ==
    /\ ipCache' = [ipCache EXCEPT ![current] = n]
    /\ moved' = IF n = addr[current] THEN moved \ {current} ELSE moved

(* Mutant: the name that was asked is not compared with the socket's name. *)
Callback_Unchecked(n, valid) ==
    /\ Answer(n)
    /\ \/ current = NoSocket /\ gstatus' = "INIT" /\ UNCHANGED <<ipCache, moved>>
       \/ /\ current # NoSocket /\ ~valid
          /\ gstatus' = "FAILED" /\ UNCHANGED <<ipCache, moved>>
       \/ current # NoSocket /\ valid /\ gstatus' = "SUCCESS" /\ Store(n)
    /\ UNCHANGED <<addr, executed, list, current, asked, age, overdue>>

(* socket_get_host_by_name_callback with an answer to a question for n, which *)
(* the callback is not told.  valid: the answer is an address                *)
(* (gm_is_valid_ip), not an error.                                           *)
Callback(n, valid) ==
    /\ Answer(n)
    /\ \/ current = NoSocket /\ gstatus' = "INIT" /\ UNCHANGED <<ipCache, moved>>
       \/ /\ current # NoSocket /\ asked # addr[current]
          /\ gstatus' = "INIT" /\ UNCHANGED <<ipCache, moved>>
       \/ /\ current # NoSocket /\ asked = addr[current] /\ ~valid
          /\ gstatus' = "FAILED" /\ UNCHANGED <<ipCache, moved>>
       \/ /\ current # NoSocket /\ asked = addr[current] /\ valid
          /\ gstatus' = "SUCCESS"
          /\ Store(n)
    /\ UNCHANGED <<addr, executed, list, current, asked, age, overdue>>

(* util_timer_proc: a second passes while a question is out.                 *)
Second ==
    /\ current # NoSocket /\ age < Expired
    /\ age' = age + 1
    /\ UNCHANGED <<clients, list, current, asked, gstatus, owing, history>>

Next ==
    \/ \E s \in Sockets : Trigger(s)
    \/ \E s \in Movable, n \in Names : ChangeServer(s, n) \/ Recreate(s, n)
    \/ TimerProc
    \/ \E n \in Domains, valid \in BOOLEAN : Callback(n, valid)
    \/ Second

Spec == Init /\ [][Next]_vars

(* The 10 ms timer and the clock never stop; the network owes nothing.       *)
FairSpec == Spec /\ WF_vars(TimerProc) /\ WF_vars(Second)

------------------------------------------------------------------------------
(* Properties.                                                               *)

(* The slot is only ever held for a request that is still flagged.  The      *)
(* timer returns at once when no flag is up, so a holder without a flag      *)
(* would keep the slot for ever.                                             *)
SlotIsRequested == current # NoSocket => requested[current]

(* A request starts with a clean failure count and is dropped at the limit,  *)
(* whatever requests of other sockets come between its repetitions.          *)
FailCountFresh ==
    \A s \in Sockets :
      failCount[s] < MAX_GET_HOST_REPEAT /\ (~requested[s] => failCount[s] = 0)

(* The address kept for a socket is its own server's, with two exceptions,   *)
(* which are the code's: it is the answer to a question that was given up,   *)
(* which the callback takes for that of the slot's holder, or the socket was *)
(* made anew unannounced and has not resolved its name since.  An answer in  *)
(* time is never mixed up, whichever servers change while it is out, and a   *)
(* server with a literal address is touched by neither.                      *)
CacheIsOwn ==
    \A s \in Sockets :
      \/ ipCache[s] \in IF addr[s] = NoName THEN {LiteralIp} ELSE {addr[s], NoIp}
      \/ addr[s] # NoName /\ (ipCache[s] \in overdue \/ s \in moved)

(* A request leaves the list only as the holder of the slot.                 *)
OnlyHolderLeaves ==
    [][\A s \in Sockets : requested[s] /\ ~requested'[s] =>
          s = current /\ current' # s]_vars

(* A comment on gm_socket_get_host_timer_proc says that it processes all      *)
(* requests in turn: once no server changes any more, every request leaves   *)
(* the list.  The code does not keep this: a low index asks again for ever.  *)
EveryRequestServed ==
    <>[][UNCHANGED addr]_vars => \A s \in Sockets : requested[s] ~> ~requested[s]

(* What holds: a request is served, or its socket has lost its name, once    *)
(* the sockets of lower index have stopped asking.                           *)
ServedWhenLowest ==
    \A s \in Sockets :
      <>[](\A t \in Sockets : t < s => ~requested[t]) =>
        (requested[s] ~> (~requested[s] \/ addr[s] = NoName))

NC == INSTANCE NameCache WITH
        Sockets <- Sockets, Movable <- Movable, Domains <- Domains, NoName <- NoName, NoIp <- NoIp,
        LiteralIp <- LiteralIp, addr <- addr, ipCache <- ipCache, overdue <- overdue, moved <- moved

(* The resolver implements NameCache: an address enters the cache as the     *)
(* answer for its socket's name or as that of a question given up before,    *)
(* and an announced change of server always erases it.                       *)
ImplementsNameCache == NC!Spec
==============================================================================
