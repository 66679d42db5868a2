------------------------------ MODULE NameCache ------------------------------
(* What the name resolver of socket.c promises the services, without saying  *)
(* how.  The address kept for a socket (system_state's ip_cache) is that of  *)
(* the server the socket has now, with two exceptions, which the promise     *)
(* names: a question the resolver has given up may still be answered, and    *)
(* the answer does not say to which question it belongs; and a socket may be *)
(* made anew for a server that nobody announced.  A domain name stands for   *)
(* the address it resolves to, so "the address of n" is n itself.            *)
EXTENDS Naturals

CONSTANTS
    Sockets,    \* the SocketIndexEnum values in use
    Movable,    \* the sockets whose server a command or the config server may change
    Domains,    \* domain names
    NoName,     \* socket->addr is empty: the server is given by a literal address
    NoIp,       \* ip_cache is 0.0.0.0
    LiteralIp   \* ip_cache holds the address that was configured literally

VARIABLES
    addr,       \* addr[s]: the name in socket->addr
    ipCache,    \* ipCache[s]: the address kept by system_state for s
    overdue,    \* names a question for which was given up with its answer out
    moved       \* sockets made anew for a server that was not announced

ncvars == <<addr, ipCache, overdue, moved>>

(* The address a socket may use once it has the name n. *)
OwnAddress(n) == IF n = NoName THEN {LiteralIp} ELSE {n, NoIp}

Init ==
    /\ addr \in [Sockets -> Domains \union {NoName}]
    /\ ipCache \in [Sockets -> Domains \union {NoIp, LiteralIp}]
    /\ \A s \in Sockets : ipCache[s] \in OwnAddress(addr[s])
    /\ overdue = {} /\ moved = {}

(* The name of s has been resolved. *)
Learn(s) ==
    /\ addr[s] # NoName
    /\ ipCache' = [ipCache EXCEPT ![s] = addr[s]]
    /\ moved' = moved \ {s}
    /\ UNCHANGED <<addr, overdue>>

(* A question for n is given up. *)
GiveUp(n) ==
    /\ overdue' = overdue \union {n}
    /\ UNCHANGED <<addr, ipCache, moved>>

(* The answer to a question that was given up is taken for that of s. *)
Mislead(s, n) ==
    /\ addr[s] # NoName /\ n \in overdue
    /\ ipCache' = [ipCache EXCEPT ![s] = n]
    /\ UNCHANGED <<addr, overdue, moved>>

(* s gets another server; what was known of the old one is forgotten. *)
ChangeServer(s, n) ==
    /\ addr' = [addr EXCEPT ![s] = n]
    /\ ipCache' = [ipCache EXCEPT ![s] = IF n = NoName THEN LiteralIp ELSE NoIp]
    /\ moved' = moved \ {s}
    /\ UNCHANGED overdue

(* s is made anew for a server that has a name, unannounced. *)
Move(s, n) ==
    /\ addr' = [addr EXCEPT ![s] = n]
    /\ moved' = moved \union {s}
    /\ UNCHANGED <<ipCache, overdue>>

(* s is made anew for a literal address, unannounced: it is stored at once. *)
MoveToLiteral(s) ==
    /\ addr' = [addr EXCEPT ![s] = NoName]
    /\ ipCache' = [ipCache EXCEPT ![s] = LiteralIp]
    /\ moved' = moved \ {s}
    /\ UNCHANGED overdue

Next ==
    \/ \E s \in Sockets : Learn(s) \/ \E n \in Domains : Mislead(s, n)
    \/ \E n \in Domains : GiveUp(n)
    \/ \E s \in Movable :
         \/ \E n \in Domains \union {NoName} : ChangeServer(s, n)
         \/ \E n \in Domains : Move(s, n)
         \/ MoveToLiteral(s)

Spec == Init /\ [][Next]_ncvars
==============================================================================
