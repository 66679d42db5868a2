----------------------------- MODULE Net_proofs ------------------------------
(* Proofs about the network layer, for every set of services and every limit.*)
EXTENDS Net, TLAPS

(* A failure counter stays within an unsigned char.                          *)
LEMMA CounterWraps == ASSUME NEW n \in Nat, FAIL_WRAP > 0 PROVE (n + 1) % FAIL_WRAP \in 0 .. FAIL_WRAP - 1
  BY LimitsAssumption

------------------------------------------------------------------------------
(* One socket.                                                               *)

(* What every handler keeps of a socket: it is open exactly while it works,  *)
(* it has lost its buffer exactly if it is a destroyed MAIN, and GET_HOST is *)
(* never entered.                                                            *)
Sound(s, r) ==
    /\ r \in Socket
    /\ r.status # "GET_HOST"
    /\ r.open <=> r.status = "WORK"
    /\ ~r.fifo <=> s = "MAIN" /\ r.status = "ERROR"

(* Less than that, where MAIN is finished with before it is closed.           *)
Alive(s, r) ==
    /\ r \in Socket
    /\ r.status = "ERROR" => ~r.open
    /\ ~r.fifo <=> s = "MAIN" /\ r.status = "ERROR"

LEMMA SoundIsAlive == ASSUME NEW s, NEW r, Sound(s, r) PROVE Alive(s, r)
  BY DEF Sound, Alive

Quiet(r) == ~r.open /\ r.status \in {"INIT", "DATA_FINISH", "ERROR"}

LEMMA ServicesAre == Services \subseteq {"MAIN", "CONFIG", "UPDATE", "LOG"} /\ "MAIN" \in Services
  BY ServicesAssumption

LEMMA LimitsAre ==
    /\ MAX_CONNECT_REPEAT \in Nat \ {0} /\ MAX_MESSAGE_REPEAT \in Nat \ {0}
    /\ BLOCK_REPEAT \in Nat \ {0} /\ REPORT_REPEAT \in Nat \ {0} /\ MaxBatches \in Nat \ {0}
    /\ FAIL_WRAP \in Nat \ {0}
  BY LimitsAssumption

(* The tables, read as cases. *)
LEMMA Tables ==
    ASSUME NEW s \in Services, NEW from \in Statuses, NEW to \in Statuses
    PROVE  /\ to = "ERROR" => to \in May(s)[from]
           /\ to = "INIT" => (to \in May(s)[from] <=>
                 \/ s = "MAIN"
                 \/ s = "CONFIG" /\ from # "ERROR"
                 \/ s \in {"UPDATE", "LOG"} /\ from \in {"DATA_FINISH", "ERROR"})
           /\ to = "CONNECTING" => (to \in May(s)[from] <=> from \in {"INIT", "GET_HOST"})
           /\ to = "WORK" => (to \in May(s)[from] <=> from = "CONNECTING")
           /\ to = "DATA_FINISH" => (to \in May(s)[from] <=> from \notin {"DATA_FINISH", "ERROR"})
  BY ServicesAre DEF Statuses, May, GpsMay, ConfigMay, UpdateMay, LogMay

(* What a transition leaves alone. *)
LEMMA TransferFields ==
    ASSUME NEW s \in Services, NEW r \in Socket, NEW new \in Statuses
    PROVE  LET q == Transfer(s, r, new)
           IN  /\ q \in Socket
               /\ q.status = IF new \in May(s)[r.status] THEN new ELSE r.status
               /\ q.open = r.open /\ q.fifo = r.fifo
               /\ q.named = r.named /\ q.executed = r.executed /\ q.late = r.late
  <1>1. 0 \in 0 .. FAIL_WRAP - 1
    BY LimitsAre
  <1>2. CASE new \in May(s)[r.status]
    BY <1>1, <1>2 DEF Transfer, Socket
  <1>3. CASE new \notin May(s)[r.status]
    BY <1>3 DEF Transfer
  <1> QED BY <1>2, <1>3

(* What the writes to single fields leave alone. *)
LEMMA FieldWrites ==
    ASSUME NEW r \in Socket
    PROVE  /\ \A q \in {Stamp(r), Asked(r), Expired(r), Cleared(r), Failure(r)} :
                 q \in Socket /\ q.status = r.status /\ q.open = r.open /\ q.fifo = r.fifo /\ q.named = r.named
           /\ /\ Close(r) \in Socket /\ ~Close(r).open
              /\ Close(r).status = r.status /\ Close(r).fifo = r.fifo /\ Close(r).named = r.named
           /\ /\ Nameless(r) \in Socket /\ ~Nameless(r).named
              /\ Nameless(r).status = r.status /\ Nameless(r).fifo = r.fifo /\ Nameless(r).open = r.open
  <1>1. 0 \in 0 .. FAIL_WRAP - 1 /\ (r.fail + 1) % FAIL_WRAP \in 0 .. FAIL_WRAP - 1
    <2>1. r.fail \in Nat
      BY LimitsAre DEF Socket
    <2> QED BY <2>1, LimitsAre, CounterWraps
  <1>2. \A q \in {Stamp(r), Asked(r), Expired(r)} :
           q \in Socket /\ q.status = r.status /\ q.open = r.open /\ q.fifo = r.fifo /\ q.named = r.named
    BY DEF Stamp, Asked, Expired, Socket
  <1>3. \A q \in {Cleared(r), Failure(r)} :
           q \in Socket /\ q.status = r.status /\ q.open = r.open /\ q.fifo = r.fifo /\ q.named = r.named
    BY <1>1 DEF Cleared, Failure, Socket
  <1>4. /\ Close(r) \in Socket /\ ~Close(r).open
        /\ Close(r).status = r.status /\ Close(r).fifo = r.fifo /\ Close(r).named = r.named
    BY DEF Close, Socket
  <1>5. /\ Nameless(r) \in Socket /\ ~Nameless(r).named
        /\ Nameless(r).status = r.status /\ Nameless(r).fifo = r.fifo /\ Nameless(r).open = r.open
    BY DEF Nameless, Socket
  <1> QED BY <1>2, <1>3, <1>4, <1>5

LEMMA TornFields ==
    ASSUME NEW r \in Socket
    PROVE  /\ Torn(r) \in Socket
           /\ ~Torn(r).open /\ Torn(r).status = r.status /\ Torn(r).fifo = r.fifo
           /\ Torn(r).named = r.named
  <1>1. Close(r) \in Socket
    BY FieldWrites
  <1> QED BY <1>1, FieldWrites DEF Torn

LEMMA FreedFields ==
    ASSUME NEW r \in Socket
    PROVE  /\ Freed(r) \in Socket
           /\ ~Freed(r).open /\ Freed(r).status = r.status /\ ~Freed(r).fifo
           /\ Freed(r).named = r.named
  <1> DEFINE t == Torn(r)
  <1>1. t \in Socket /\ ~t.open /\ t.status = r.status /\ t.named = r.named
    BY TornFields
  <1>2. Freed(r) = [t EXCEPT !.fifo = FALSE]
    BY DEF Freed
  <1> HIDE DEF t
  <1> QED BY <1>1, <1>2 DEF Socket

LEMMA OpenedFields ==
    ASSUME NEW r \in Socket
    PROVE  /\ Opened(r) \in Socket
           /\ Opened(r).open /\ Opened(r).status = r.status /\ Opened(r).fifo = r.fifo
           /\ Opened(r).named = r.named
  <1> DEFINE t == Stamp(r)
  <1>1. t \in Socket /\ t.status = r.status /\ t.fifo = r.fifo /\ t.named = r.named
    BY FieldWrites
  <1>2. Opened(r) = [t EXCEPT !.open = TRUE]
    BY DEF Opened
  <1> HIDE DEF t
  <1> QED BY <1>1, <1>2 DEF Socket

(* A finished socket is closed and has ended. *)
LEMMA FinishSound ==
    ASSUME NEW s \in Services, NEW r, Sound(s, r)
    PROVE  /\ Sound(s, Finish(s, r)) /\ Quiet(Finish(s, r))
           /\ Finish(s, r).named = r.named
           /\ Finish(s, r).status \in {"DATA_FINISH", "ERROR"}
  <1>1. r \in Socket /\ r.status \in Statuses /\ "DATA_FINISH" \in Statuses
    BY DEF Sound, Socket, Statuses
  <1>2. Torn(r) \in Socket
    BY <1>1, TornFields
  <1> DEFINE q == Finish(s, r)
  <1>3. /\ q \in Socket
        /\ q.status = IF "DATA_FINISH" \in May(s)[r.status] THEN "DATA_FINISH" ELSE r.status
        /\ ~q.open /\ q.fifo = r.fifo /\ q.named = r.named
    BY <1>1, <1>2, TornFields, TransferFields DEF Finish
  <1>4. q.status = IF r.status \notin {"DATA_FINISH", "ERROR"} THEN "DATA_FINISH" ELSE r.status
    BY <1>1, <1>3, Tables
  <1> QED BY <1>1, <1>3, <1>4 DEF Sound, Quiet

(* A destroyed socket is closed; CONFIG may be waiting to ask again. *)
LEMMA DestroySound ==
    ASSUME NEW s \in Services, NEW r, Alive(s, r)
    PROVE  /\ Sound(s, Destroy(s, r)) /\ Quiet(Destroy(s, r))
           /\ Destroy(s, r).named = r.named
           /\ s # "CONFIG" => Destroy(s, r).status = "ERROR"
           /\ Quiet(r) /\ Destroy(s, r).status = "INIT" => r.status = "INIT"
  <1> DEFINE q == Destroy(s, r)
             d == IF s = "MAIN" THEN Freed(r) ELSE Torn(r)
             to == IF s = "CONFIG" /\ r.status # "DATA_FINISH" THEN "INIT" ELSE "ERROR"
  <1>1. /\ r \in Socket /\ r.status \in Statuses
        /\ "INIT" \in Statuses /\ "ERROR" \in Statuses
    BY DEF Alive, Socket, Statuses
  <1>2. CASE r.status = "ERROR"
    <2>1. q = r
      BY <1>2 DEF Destroy
    <2> QED BY <1>2, <2>1 DEF Alive, Sound, Quiet
  <1>3. CASE r.status # "ERROR"
    <2>1. q = Transfer(s, d, to)
      BY <1>3 DEF Destroy
    <2>2. /\ d \in Socket /\ ~d.open /\ d.status = r.status /\ d.named = r.named
          /\ d.fifo = (s # "MAIN" /\ r.fifo)
      BY <1>1, TornFields, FreedFields DEF Socket
    <2>3. to \in May(s)[r.status] /\ to \in Statuses
      BY <1>1, <1>3, Tables
    <2> HIDE DEF d, to
    <2>4. q \in Socket /\ q.status = to /\ ~q.open /\ q.named = r.named /\ q.fifo = (s # "MAIN" /\ r.fifo)
      BY <2>1, <2>2, <2>3, TransferFields
    <2> QED BY <1>3, <2>4 DEF Alive, Sound, Quiet, to
  <1> QED BY <1>2, <1>3

(* Moving to a status in which the socket is closed. *)
LEMMA TransferSound ==
    ASSUME NEW s \in Services, NEW r, Sound(s, r), ~r.open,
           NEW to \in {"INIT", "CONNECTING", "DATA_FINISH"}, r.status # "ERROR" \/ s # "MAIN"
    PROVE  /\ Sound(s, Transfer(s, r, to)) /\ ~Transfer(s, r, to).open
           /\ Transfer(s, r, to).status \in {r.status, to}
           /\ Transfer(s, r, to).named = r.named
  <1>1. r \in Socket /\ to \in Statuses
    BY DEF Sound, Statuses
  <1>2. r.status # "WORK"
    BY DEF Sound
  <1> DEFINE q == Transfer(s, r, to)
  <1>3. q \in Socket /\ q.status \in {r.status, to} /\ q.open = r.open /\ q.fifo = r.fifo /\ q.named = r.named
    BY <1>1, TransferFields
  <1> HIDE DEF q
  <1>4. (q.status = "ERROR") = (r.status = "ERROR") \/ s # "MAIN"
    BY <1>3
  <1>5. Sound(s, q)
    BY <1>2, <1>3, <1>4 DEF Sound
  <1> QED BY <1>3, <1>5 DEF q

LEMMA FreshSound ==
    ASSUME NEW s \in Services, NEW n \in BOOLEAN
    PROVE  Sound(s, Fresh(n)) /\ Quiet(Fresh(n)) /\ Fresh(n).named = n
  BY LimitsAre DEF Fresh, Sound, Quiet, Socket, Statuses

LEMMA CloseForReconnectSound ==
    ASSUME NEW s \in Services, NEW r, Sound(s, r)
    PROVE  /\ Sound(s, CloseForReconnect(s, r)) /\ Quiet(CloseForReconnect(s, r))
           /\ CloseForReconnect(s, r).named = r.named
  BY FinishSound, DestroySound, SoundIsAlive DEF CloseForReconnect

LEMMA WriteSound ==
    ASSUME NEW s \in Services, NEW r, Sound(s, r)
    PROVE  \A q \in {Stamp(r), Asked(r), Expired(r), Cleared(r), Failure(r)} :
              Sound(s, q) /\ q.status = r.status /\ q.open = r.open /\ q.named = r.named
  <1> SUFFICES ASSUME NEW q \in {Stamp(r), Asked(r), Expired(r), Cleared(r), Failure(r)}
               PROVE  Sound(s, q) /\ q.status = r.status /\ q.open = r.open /\ q.named = r.named
    OBVIOUS
  <1>1. q \in Socket /\ q.status = r.status /\ q.open = r.open /\ q.fifo = r.fifo /\ q.named = r.named
    BY FieldWrites DEF Sound
  <1> QED BY <1>1 DEF Sound

(* A connection attempt: still connecting, working, or finished.             *)
LEMMA ConnectSound ==
    ASSUME NEW s \in Services, NEW r, Sound(s, r), r.status = "CONNECTING",
           NEW c \in Connect(s, r)
    PROVE  Sound(s, c) /\ c.named = r.named
  <1> DEFINE o == Opened(r)
             up == Transfer(s, o, "WORK")
  <1>1. o \in Socket /\ o.open /\ o.status = "CONNECTING" /\ o.fifo = r.fifo /\ o.named = r.named
    BY OpenedFields DEF Sound
  <1>2. "WORK" \in May(s)["CONNECTING"] /\ "WORK" \in Statuses
    BY Tables DEF Statuses
  <1>3. c = Stamp(r) \/ c = up \/ c \in Request(s, up)
    BY DEF Connect
  <1>4. up \in Socket /\ up.open /\ up.status = "WORK" /\ up.fifo = r.fifo /\ up.named = r.named
    BY <1>1, <1>2, TransferFields
  <1> HIDE DEF up
  <1>5. Sound(s, up)
    BY <1>4 DEF Sound
  <1>6. CASE c = Stamp(r)
    BY <1>6, WriteSound
  <1>7. CASE c = up
    BY <1>4, <1>5, <1>7
  <1>8. CASE c \in Request(s, up)
    BY <1>4, <1>5, <1>8, WriteSound, FinishSound DEF Request
  <1> QED BY <1>3, <1>6, <1>7, <1>8

------------------------------------------------------------------------------
(* The order of the calls in a tick.                                         *)

(* What is called next is a service, or nothing; after MAIN, LOG at most.    *)
LEMMA NextTurn ==
    /\ \A k \in 0 .. 4 : First(Later(k)) \in Services \union {"idle"}
    /\ First(Later(Rank["MAIN"])) \in {"LOG", "idle"}
    /\ First(Later(Rank["LOG"])) = "idle"
    /\ \A s \in Services : Rank[s] \in 0 .. 4
  <1>1. /\ Rank["CONFIG"] = 1 /\ Rank["UPDATE"] = 2 /\ Rank["MAIN"] = 3 /\ Rank["LOG"] = 4
        /\ \A s \in Services : Rank[s] \in 0 .. 4
    BY ServicesAre DEF Rank
  <1>2. ASSUME NEW S \in SUBSET Services, S # {}
        PROVE  First(S) \in S
    <2>1. \E s \in S : \A t \in S : Rank[s] <= Rank[t]
      <3>1. CASE "CONFIG" \in S
        BY <1>1, <3>1, ServicesAre
      <3>2. CASE "CONFIG" \notin S /\ "UPDATE" \in S
        BY <1>1, <3>2, ServicesAre
      <3>3. CASE "CONFIG" \notin S /\ "UPDATE" \notin S /\ "MAIN" \in S
        BY <1>1, <3>3, ServicesAre
      <3>4. CASE "CONFIG" \notin S /\ "UPDATE" \notin S /\ "MAIN" \notin S
        <4>1. S = {"LOG"}
          BY <1>2, <3>4, ServicesAre
        <4> QED BY <1>1, <4>1
      <3> QED BY <3>1, <3>2, <3>3, <3>4
    <2> QED BY <1>2, <2>1 DEF First
  <1>3. \A k \in 0 .. 4 : Later(k) \in SUBSET Services
    BY DEF Later
  <1>4. \A k \in 0 .. 4 : First(Later(k)) \in Services \union {"idle"}
    <2> TAKE k \in 0 .. 4
    <2>1. CASE Later(k) = {}
      BY <2>1 DEF First
    <2>2. CASE Later(k) # {}
      BY <1>2, <1>3, <2>2
    <2> QED BY <2>1, <2>2
  <1>5. Later(3) \subseteq {"LOG"} /\ Later(4) = {}
    <2>1. \A s \in Services : ~(Rank[s] > 4) /\ (Rank[s] > 3 => s = "LOG")
      BY <1>1, ServicesAre
    <2> QED BY <2>1 DEF Later
  <1>6. First(Later(3)) \in {"LOG", "idle"}
    <2>1. CASE Later(3) = {}
      BY <2>1 DEF First
    <2>2. CASE Later(3) # {}
      BY <1>2, <1>3, <1>5, <2>2
    <2> QED BY <2>1, <2>2
  <1>7. First(Later(4)) = "idle"
    BY <1>5 DEF First
  <1> QED BY <1>1, <1>4, <1>6, <1>7

------------------------------------------------------------------------------
(* The inductive invariant.                                                  *)

(* Once the link is given up, LOG at most is still called in that tick, and  *)
(* it has been destroyed.                                                    *)
Tail(g, t, ss) == g # "TIME_PROC" => t = "idle" \/ (t = "LOG" /\ ss["LOG"].status = "ERROR")

Sockets(g, ss) == \A s \in Services : Sound(s, ss[s]) /\ (g # "TIME_PROC" => Quiet(ss[s]))

(* A service without an address in the cache is MAIN, and it has a name.     *)
Served(c, ss) == \A s \in Services : s \notin c => s = "MAIN" /\ ss[s].named

IInv == TypeOK /\ Sockets(gprs, sock) /\ Tail(gprs, turn, sock) /\ Served(ipCache, sock)

(* What a step has to show of the sockets, the types of the rest apart.      *)
Kept ==
    /\ sock' \in [Services -> Socket] /\ ipCache' \subseteq Services
    /\ Sockets(gprs', sock') /\ Tail(gprs', turn', sock') /\ Served(ipCache', sock')

(* The types of the other variables. *)
TypedNext ==
    /\ gprs' \in {"INIT", "CALL_OK", "ACTIVATED", "TIME_PROC", "FAILED"}
    /\ waited' \in BOOLEAN /\ goodOld' \in BOOLEAN
    /\ request' \in [Services -> {"no", "wanted", "asked"}]
    /\ outdated' \in BOOLEAN /\ oldIp' \in BOOLEAN /\ delayed' \in {"no", "destroy", "move"}
    /\ turn' \in Services \union {"DNS", "idle"}
    /\ waitSend' \in BOOLEAN /\ startSend' \in BOOLEAN
    /\ batches' \in 0 .. MaxBatches
    /\ powerOn' \in BOOLEAN

LEMMA Both == Kept /\ TypedNext => IInv'
  BY DEF Kept, TypedNext, IInv, TypeOK

(* A service is called while the link is up, but for a LOG that was          *)
(* destroyed in the same tick.                                               *)
LEMMA Online ==
    ASSUME IInv, NEW s \in Services, turn = s, s # "LOG" \/ sock[s].status # "ERROR"
    PROVE  gprs = "TIME_PROC"
  BY ServicesAre DEF IInv, Tail

LEMMA OpenOnline ==
    ASSUME IInv, NEW s \in Services, sock[s].open
    PROVE  gprs = "TIME_PROC"
  BY DEF IInv, Sockets, Quiet

LEMMA SockSound ==
    ASSUME IInv, NEW s \in Services
    PROVE  /\ Sound(s, sock[s]) /\ Alive(s, sock[s]) /\ sock[s] \in Socket
           /\ gprs # "TIME_PROC" => Quiet(sock[s])
  BY SoundIsAlive DEF IInv, Sockets, TypeOK

(* No socket changes. *)
LEMMA Untouched ==
    ASSUME IInv, sock' = sock, ipCache \subseteq ipCache', ipCache' \subseteq Services,
           gprs' # "TIME_PROC" => gprs # "TIME_PROC" /\ turn' \in {"idle", turn}
    PROVE  Kept
  BY DEF IInv, TypeOK, Kept, Sockets, Tail, Served

(* One socket changes. *)
LEMMA Settling ==
    ASSUME IInv, NEW s \in Services, NEW r, Settle(s, r), Sound(s, r), r.named = sock[s].named,
           gprs' = gprs, ipCache' = ipCache,
           gprs # "TIME_PROC" =>
              /\ turn' \in {"idle", turn} /\ Quiet(r)
              /\ r.status = sock[s].status \/ s # "LOG"
    PROVE  Kept
  <1>1. /\ sock \in [Services -> Socket] /\ ipCache \subseteq Services
        /\ Sockets(gprs, sock) /\ Tail(gprs, turn, sock) /\ Served(ipCache, sock)
    BY DEF IInv, TypeOK
  <1>2. r \in Socket
    BY DEF Sound
  <1>3. sock' \in [Services -> Socket]
    BY <1>1, <1>2 DEF Settle
  <1>4. \A t \in Services : sock'[t] = IF t = s THEN r ELSE sock[t]
    BY <1>1 DEF Settle
  <1>5. Sockets(gprs', sock')
    BY <1>1, <1>4 DEF Sockets
  <1>6. Served(ipCache', sock')
    BY <1>1, <1>4 DEF Served
  <1>7. Tail(gprs', turn', sock')
    <2> SUFFICES ASSUME gprs # "TIME_PROC", turn' # "idle"
                 PROVE  turn' = "LOG" /\ sock'["LOG"].status = "ERROR"
      BY DEF Tail
    <2>1. turn' = turn /\ turn = "LOG" /\ sock["LOG"].status = "ERROR"
      BY <1>1 DEF Tail
    <2>2. "LOG" \in Services
      BY <2>1 DEF IInv, TypeOK
    <2> QED BY <1>4, <2>1, <2>2
  <1> QED BY <1>1, <1>3, <1>5, <1>6, <1>7 DEF Kept

(* gprs_destroy. *)
LEMMA Destroying ==
    ASSUME IInv, NEW ss \in [Services -> Socket], GprsDestroy(ss),
           \A s \in Services : Alive(s, ss[s]) /\ ss[s].named = sock[s].named,
           ipCache' = ipCache, turn' = "idle" \/ (turn' = "LOG" /\ "LOG" \in Services)
    PROVE  Kept
  <1>1. \A s \in Services : sock'[s] = Destroy(s, ss[s])
    BY DEF GprsDestroy
  <1>2. ASSUME NEW s \in Services
        PROVE  /\ Sound(s, sock'[s]) /\ Quiet(sock'[s]) /\ sock'[s].named = sock[s].named
               /\ s # "CONFIG" => sock'[s].status = "ERROR"
    BY <1>1, DestroySound
  <1>3. sock' \in [Services -> Socket]
    <2>1. \A s \in Services : Destroy(s, ss[s]) \in Socket
      BY <1>1, <1>2 DEF Sound
    <2> QED BY <2>1 DEF GprsDestroy
  <1>4. Sockets(gprs', sock') /\ Tail(gprs', turn', sock')
    BY <1>2 DEF Sockets, Tail
  <1>5. Served(ipCache', sock') /\ ipCache' \subseteq Services
    BY <1>2 DEF Served, IInv, TypeOK
  <1> QED BY <1>3, <1>4, <1>5 DEF Kept

(* gps_service_destroy_gprs. *)
LEMMA Losing ==
    ASSUME IInv, gprs = "TIME_PROC", NEW r, Alive("MAIN", r), r.named = sock["MAIN"].named, LoseLink(r),
           ipCache' = ipCache, turn' = "idle" \/ (turn' = "LOG" /\ "LOG" \in Services)
    PROVE  Kept
  <1>1. CASE UpdateIdle /\ GprsDestroy([sock EXCEPT !["MAIN"] = r])
    <2> DEFINE ss == [sock EXCEPT !["MAIN"] = r]
    <2>1. sock \in [Services -> Socket] /\ r \in Socket
      BY DEF IInv, TypeOK, Alive
    <2>2. /\ ss \in [Services -> Socket]
          /\ \A s \in Services : ss[s] = IF s = "MAIN" THEN r ELSE sock[s]
      BY <2>1
    <2>3. \A s \in Services : Alive(s, ss[s]) /\ ss[s].named = sock[s].named
      BY <2>2, SockSound
    <2>4. GprsDestroy(ss)
      BY <1>1
    <2> HIDE DEF ss
    <2> QED BY <2>2, <2>3, <2>4, Destroying
  <1>2. CASE ~UpdateIdle /\ Settle("MAIN", Destroy("MAIN", r)) /\ UNCHANGED link
    BY <1>2, ServicesAre, DestroySound, Settling DEF link
  <1> QED BY <1>1, <1>2 DEF LoseLink

(* MAIN is destroyed and created for another server. *)
LEMMA Moving ==
    ASSUME IInv, NEW ss \in [Services -> Socket], NEW n \in BOOLEAN, MoveMain(ss, n),
           \A s \in Services : Sound(s, ss[s]) /\ ss[s].named = sock[s].named,
           gprs' = gprs, gprs # "TIME_PROC" => ss = sock /\ turn' = turn
    PROVE  Kept /\ outdated' = FALSE /\ oldIp' = FALSE
  <1> DEFINE dead == Destroy("MAIN", ss["MAIN"])
             old == Nameless(dead)
  <1>1. "MAIN" \in Services
    BY ServicesAre
  <1>2. dead.status = "ERROR" /\ dead \in Socket /\ ~dead.fifo
    BY <1>1, SoundIsAlive, DestroySound DEF Sound
  <1>3. ~old.fifo
    BY <1>2, FieldWrites
  <1>4. Created(old, n) = Fresh(n) /\ CachedBy(old, n) = IF n THEN {} ELSE {"MAIN"}
    BY <1>3 DEF Created, CachedBy
  <1>5. /\ sock' = [ss EXCEPT !["MAIN"] = Fresh(n)]
        /\ ipCache' = (ipCache \ {"MAIN"}) \union IF n THEN {} ELSE {"MAIN"}
    BY <1>4 DEF MoveMain
  <1>6. Sound("MAIN", Fresh(n)) /\ Quiet(Fresh(n)) /\ Fresh(n).named = n /\ Fresh(n) \in Socket
    BY <1>1, FreshSound DEF Sound
  <1> HIDE DEF old, dead
  <1>7. sock' \in [Services -> Socket]
    BY <1>5, <1>6
  <1>8. \A s \in Services : sock'[s] = IF s = "MAIN" THEN Fresh(n) ELSE ss[s]
    BY <1>5
  <1>9. Sockets(gprs', sock')
    BY <1>6, <1>8, SockSound DEF Sockets
  <1>10. ipCache' \subseteq Services /\ Served(ipCache', sock')
    BY <1>1, <1>5, <1>6, <1>8 DEF IInv, TypeOK, Served
  <1>11. Tail(gprs', turn', sock')
    <2> SUFFICES ASSUME gprs # "TIME_PROC", turn' # "idle"
                 PROVE  turn' = "LOG" /\ sock'["LOG"].status = "ERROR"
      BY DEF Tail
    <2>1. turn' = turn /\ turn = "LOG" /\ sock["LOG"].status = "ERROR" /\ "LOG" \in Services
      BY DEF Tail, IInv, TypeOK
    <2> QED BY <1>8, <2>1
  <1>12. outdated' = FALSE /\ oldIp' = FALSE
    BY DEF MoveMain
  <1> QED BY <1>7, <1>9, <1>10, <1>11, <1>12 DEF Kept

(* The configuration gets a server: MAIN is moved, or nothing more changes.  *)
LEMMA Configuring ==
    ASSUME IInv, NEW ss \in [Services -> Socket], Configured(ss),
           \A s \in Services : Sound(s, ss[s]) /\ ss[s].named = sock[s].named,
           gprs' = gprs, turn' = turn \/ gprs = "TIME_PROC", gprs # "TIME_PROC" => ss = sock
    PROVE  Kept /\ outdated' = FALSE /\ oldIp' \in BOOLEAN
  <1>1. CASE \E n \in Moves : MoveMain(ss, n)
    <2>1. PICK n \in Moves : MoveMain(ss, n)
      BY <1>1
    <2>2. n \in BOOLEAN
      BY EnvironmentAssumption
    <2> QED BY <2>1, <2>2, Moving
  <1>2. CASE sock' = ss /\ outdated' = FALSE /\ UNCHANGED <<ipCache, oldIp>>
    <2>1. /\ ipCache \subseteq Services /\ Served(ipCache, sock) /\ oldIp \in BOOLEAN
          /\ Sockets(gprs, sock) /\ Tail(gprs, turn, sock)
      BY DEF IInv, TypeOK
    <2>2. Sockets(gprs', sock') /\ Tail(gprs', turn', sock') /\ Served(ipCache', sock')
      BY <1>2, <2>1 DEF Sockets, Tail, Served
    <2> QED BY <1>2, <2>1, <2>2 DEF Kept
  <1> QED BY <1>1, <1>2 DEF Configured


------------------------------------------------------------------------------
(* The steps.                                                                *)

(* What gprs_destroy writes of the link. *)
LEMMA DestroyedLink ==
    ASSUME NEW ss, GprsDestroy(ss)
    PROVE  gprs' = "FAILED" /\ waited' = FALSE /\ goodOld' = goodOld
  BY DEF GprsDestroy

LEMMA GiveUpStep == ASSUME IInv, GiveUp, turn = "idle" PROVE IInv'
  <1>1. sock \in [Services -> Socket] /\ \A s \in Services : Alive(s, sock[s])
    BY SockSound DEF IInv, TypeOK
  <1>2. Kept
    BY <1>1, Destroying DEF GiveUp, names
  <1>3. TypedNext
    BY DestroyedLink DEF GiveUp, names, report, IInv, TypeOK, TypedNext
  <1> QED BY <1>2, <1>3, Both

(* The steps that change the link alone. *)
LEMMA LinkStep ==
    ASSUME IInv, Attach \/ Bearer \/ Activate \/ Retry \/ ExpireLink \/ ExpireGood \/ Tick PROVE IInv'
  <1>1. Kept
    BY Untouched DEF Attach, Bearer, Activate, Retry, ExpireLink, ExpireGood, Tick, Offline, Services_, names, IInv, TypeOK
  <1>2. TypedNext
    <2>1. CASE Attach \/ Bearer \/ Activate \/ Retry
      BY <2>1 DEF Attach, Bearer, Activate, Retry, Services_, names, report, IInv, TypeOK, TypedNext
    <2>2. CASE ExpireLink \/ ExpireGood
      BY <2>2 DEF ExpireLink, ExpireGood, Services_, names, report, IInv, TypeOK, TypedNext
    <2>3. CASE Tick
      BY <2>3 DEF Tick, names, report, IInv, TypeOK, TypedNext
    <2> QED BY <2>1, <2>2, <2>3
  <1> QED BY <1>1, <1>2, Both

LEMMA BootSound ==
    ASSUME NEW b \in [Services -> BOOLEAN]
    PROVE  /\ Booted(b) \in [Services -> Socket]
           /\ \A s \in Services : Sound(s, Booted(b)[s]) /\ Quiet(Booted(b)[s]) /\ Booted(b)[s].named = b[s]
  <1>1. \A s \in Services : /\ Fresh(b[s]) \in Socket
                            /\ Sound(s, Fresh(b[s])) /\ Quiet(Fresh(b[s])) /\ Fresh(b[s]).named = b[s]
    BY FreshSound DEF Sound
  <1> QED BY <1>1 DEF Booted

(* The server that a socket of MAIN made anew gets. *)
LEMMA ConfigurableIs == ASSUME IInv PROVE Configurable \subseteq BOOLEAN
  <1>1. sock["MAIN"].named \in BOOLEAN
    BY ServicesAre, SockSound DEF Socket
  <1> QED BY <1>1, EnvironmentAssumption DEF Configurable

LEMMA RebootStep == ASSUME IInv, Reboot PROVE IInv'
  <1>1. PICK n \in Configurable :
           /\ sock' = Booted([s \in Services |-> IF s = "MAIN" THEN n ELSE sock[s].named])
           /\ ipCache' = ipCache \union IF n THEN {} ELSE {"MAIN"}
           /\ oldIp' = (n /\ "MAIN" \in ipCache /\ (outdated \/ oldIp))
    BY DEF Reboot
  <1>2. n \in BOOLEAN
    BY <1>1, ConfigurableIs
  <1> DEFINE b == [s \in Services |-> IF s = "MAIN" THEN n ELSE sock[s].named]
  <1>3. b \in [Services -> BOOLEAN]
    BY <1>2 DEF IInv, TypeOK, Socket
  <1>4. \A s \in Services : b[s] = IF s = "MAIN" THEN n ELSE sock[s].named
    OBVIOUS
  <1>5. sock' = Booted(b)
    BY <1>1
  <1> HIDE DEF b
  <1>6. /\ sock' \in [Services -> Socket]
        /\ \A s \in Services : Sound(s, sock'[s]) /\ Quiet(sock'[s]) /\ sock'[s].named = b[s]
    BY <1>3, <1>5, BootSound
  <1>7. ipCache' \subseteq Services /\ Served(ipCache', sock')
    BY <1>1, <1>2, <1>4, <1>6, ServicesAre DEF IInv, TypeOK, Served
  <1>8. Kept
    BY <1>6, <1>7 DEF Reboot, Kept, Sockets, Tail
  <1>9. TypedNext
    <2>1. powerOn' \in BOOLEAN
      BY EnvironmentAssumption, Zenon DEF Reboot
    <2>2. batches' \in 0 .. MaxBatches
      BY LimitsAre DEF Reboot
    <2>3. request' \in [Services -> {"no", "wanted", "asked"}]
      BY DEF Reboot
    <2>4. oldIp' \in BOOLEAN
      BY <1>1
    <2> QED BY <2>1, <2>2, <2>3, <2>4 DEF Reboot, TypedNext
  <1> QED BY <1>8, <1>9, Both

LEMMA InitInv == Init => IInv
  <1> SUFFICES ASSUME Init PROVE IInv
    OBVIOUS
  <1> DEFINE b == [s \in Services |-> s \in Domains]
  <1>1. b \in [Services -> BOOLEAN] /\ \A s \in Services : b[s] = (s \in Domains)
    OBVIOUS
  <1>2. sock = Booted(b)
    BY DEF Init
  <1> HIDE DEF b
  <1>3. sock \in [Services -> Socket] /\ Sockets(gprs, sock) /\ Tail(gprs, turn, sock)
    BY <1>1, <1>2, BootSound DEF Sockets, Tail, Init
  <1>4. Served(ipCache, sock)
    BY <1>1, <1>2, BootSound DEF Served, Init
  <1>5. TypeOK
    <2>1. powerOn \in BOOLEAN
      BY EnvironmentAssumption, Zenon DEF Init
    <2>2. batches \in 0 .. MaxBatches
      BY LimitsAre DEF Init
    <2>3. request \in [Services -> {"no", "wanted", "asked"}]
      BY DEF Init
    <2>4. ipCache \subseteq Services
      BY DEF Init
    <2> QED BY <1>3, <2>1, <2>2, <2>3, <2>4 DEF Init, TypeOK
  <1> QED BY <1>3, <1>4, <1>5 DEF IInv

(* The turn passes on, the link being up. *)
LEMMA TurnTyped == \A s \in Services : First(Later(Rank[s])) \in Services \union {"DNS", "idle"}
  BY NextTurn

LEMMA DnsStep == ASSUME IInv, AskNothing \/ \E s \in Services : Ask(s) PROVE IInv'
  <1>1. gprs = "TIME_PROC" /\ turn = "DNS"
    BY DEF AskNothing, Ask, IInv, Tail
  <1>2. turn' \in Services \union {"DNS", "idle"}
    BY NextTurn DEF AskNothing, Ask
  <1>3. CASE AskNothing
    <2>1. Kept
      BY <1>1, <1>3, Untouched DEF AskNothing, names, link, IInv, TypeOK
    <2>2. TypedNext
      BY <1>2, <1>3 DEF AskNothing, names, link, report, IInv, TypeOK, TypedNext
    <2> QED BY <2>1, <2>2, Both
  <1>4. ASSUME NEW s \in Services, Ask(s) PROVE IInv'
    <2>1. Sound(s, Asked(sock[s])) /\ Asked(sock[s]).named = sock[s].named
      BY SockSound, WriteSound
    <2>2. Kept
      BY <1>1, <1>4, <2>1, Settling DEF Ask, link
    <2>3. TypedNext
      BY <1>2, <1>4 DEF Ask, link, orders, report, IInv, TypeOK, TypedNext
    <2> QED BY <2>2, <2>3, Both
  <1> QED BY <1>3, <1>4

(* The commands, at once or delayed. *)
LEMMA StoredTyped == ASSUME IInv, NEW what, Stored(what) PROVE outdated' \in BOOLEAN
  BY DEF Stored, IInv, TypeOK

LEMMA CommandStep ==
    ASSUME IInv, \/ SmsServer \/ DelayedDestroy \/ DelayedMove
                 \/ \E what \in {"apn", "both"} : SmsAccessPoint(what)
    PROVE  IInv'
  <1>1. sock \in [Services -> Socket] /\ \A s \in Services : Sound(s, sock[s]) /\ Alive(s, sock[s])
    BY SockSound DEF IInv, TypeOK
  <1>2. CASE SmsServer
    <2>1. Kept /\ outdated' = FALSE /\ oldIp' \in BOOLEAN
      BY <1>1, <1>2, Configuring DEF SmsServer, link
    <2>2. TypedNext
      BY <1>2, <2>1 DEF SmsServer, link, report, IInv, TypeOK, TypedNext
    <2> QED BY <2>1, <2>2, Both
  <1>3. CASE DelayedDestroy
    <2>1. Kept
      BY <1>1, <1>3, Destroying DEF DelayedDestroy
    <2>2. TypedNext
      BY <1>3, DestroyedLink DEF DelayedDestroy, report, IInv, TypeOK, TypedNext
    <2> QED BY <2>1, <2>2, Both
  <1>4. CASE DelayedMove
    <2>1. CASE outdated
      <3>1. PICK n \in Moves : MoveMain(sock, n)
        BY <1>4, <2>1 DEF DelayedMove
      <3>2. n \in BOOLEAN
        BY EnvironmentAssumption
      <3>3. Kept /\ outdated' = FALSE /\ oldIp' = FALSE
        BY <1>1, <1>4, <3>1, <3>2, Moving DEF DelayedMove, link
      <3>4. TypedNext
        BY <1>4, <3>3 DEF DelayedMove, link, report, IInv, TypeOK, TypedNext
      <3> QED BY <3>3, <3>4, Both
    <2>2. CASE ~outdated
      <3>1. Kept
        BY <1>4, <2>2, Untouched DEF DelayedMove, link, IInv, TypeOK
      <3>2. TypedNext
        BY <1>4, <2>2 DEF DelayedMove, link, report, IInv, TypeOK, TypedNext
      <3> QED BY <3>1, <3>2, Both
    <2> QED BY <2>1, <2>2
  <1>5. ASSUME NEW what \in {"apn", "both"}, SmsAccessPoint(what) PROVE IInv'
    <2> DEFINE r == Destroy("MAIN", sock["MAIN"])
    <2>1. Sound("MAIN", r) /\ Quiet(r) /\ r.named = sock["MAIN"].named
      BY <1>1, ServicesAre, DestroySound
    <2> HIDE DEF r
    <2>2. Settle("MAIN", r) /\ Stored(what)
      BY <1>5 DEF SmsAccessPoint, r
    <2>3. Kept
      BY <1>5, <2>1, <2>2, ServicesAre, Settling DEF SmsAccessPoint, link
    <2>4. TypedNext
      BY <1>5, <2>2, StoredTyped DEF SmsAccessPoint, link, report, IInv, TypeOK, TypedNext
    <2> QED BY <2>3, <2>4, Both
  <1> QED BY <1>2, <1>3, <1>4, <1>5

LEMMA OutsideStep ==
    ASSUME IInv, \/ Report
                 \/ \E s \in Services : LinkError(s) \/ ReadError(s) \/ DnsAnswer(s) \/ Expire(s)
    PROVE  IInv'
  <1>1. CASE Report
    <2>1. Kept
      BY <1>1, Untouched DEF Report, link, names, IInv, TypeOK
    <2>2. TypedNext
      BY <1>1 DEF Report, link, names, IInv, TypeOK, TypedNext
    <2> QED BY <2>1, <2>2, Both
  <1>2. ASSUME NEW s \in Services, LinkError(s) PROVE IInv'
    <2>1. gprs = "TIME_PROC" /\ Alive(s, sock[s])
      BY <1>2, OpenOnline, SockSound DEF LinkError
    <2>2. CASE s = "MAIN"
      <3>1. LoseLink(sock["MAIN"]) /\ ipCache' = ipCache /\ turn' = "idle"
        BY <1>2, <2>2 DEF LinkError, names
      <3>2. Kept
        BY <2>1, <2>2, <3>1, Losing
      <3>3. gprs' \in {"FAILED", gprs} /\ waited' \in {FALSE, waited} /\ goodOld' = goodOld
        BY <3>1, DestroyedLink DEF LoseLink, link
      <3>4. TypedNext
        BY <1>2, <3>3 DEF LinkError, names, report, IInv, TypeOK, TypedNext
      <3> QED BY <3>2, <3>4, Both
    <2>3. CASE s # "MAIN"
      <3>1. Settle(s, Destroy(s, sock[s])) /\ UNCHANGED link
        BY <1>2, <2>3 DEF LinkError
      <3>2. Kept
        BY <1>2, <2>1, <3>1, DestroySound, Settling DEF LinkError, link, names
      <3>3. TypedNext
        BY <1>2, <3>1 DEF LinkError, link, names, report, IInv, TypeOK, TypedNext
      <3> QED BY <3>2, <3>3, Both
    <2> QED BY <2>2, <2>3
  <1>3. ASSUME NEW s \in Services, ReadError(s) PROVE IInv'
    <2>1. gprs = "TIME_PROC" /\ Sound(s, sock[s])
      BY <1>3, OpenOnline, SockSound DEF ReadError
    <2>2. Kept
      BY <1>3, <2>1, CloseForReconnectSound, Settling DEF ReadError, link, names
    <2>3. TypedNext
      BY <1>3 DEF ReadError, link, names, report, IInv, TypeOK, TypedNext
    <2> QED BY <2>2, <2>3, Both
  <1>4. ASSUME NEW s \in Services, DnsAnswer(s) PROVE IInv'
    <2>1. ipCache \subseteq ipCache' /\ ipCache' \subseteq Services
      BY <1>4 DEF DnsAnswer, IInv, TypeOK
    <2>2. Kept
      BY <1>4, <2>1, Untouched DEF DnsAnswer, link
    <2>3. TypedNext
      BY <1>4 DEF DnsAnswer, link, report, IInv, TypeOK, TypedNext
    <2> QED BY <2>2, <2>3, Both
  <1>5. ASSUME NEW s \in Services, Expire(s) PROVE IInv'
    <2> DEFINE q == Expired(sock[s])
    <2>1. Sound(s, q) /\ q.status = sock[s].status /\ q.open = sock[s].open /\ q.named = sock[s].named
      BY SockSound, WriteSound
    <2>2. gprs # "TIME_PROC" => Quiet(q)
      BY <2>1, SockSound DEF Quiet
    <2>3. Settle(s, q) /\ gprs' = gprs /\ ipCache' = ipCache /\ turn' = turn
      BY <1>5 DEF Expire, link, names
    <2> HIDE DEF q
    <2>4. Kept
      BY <2>1, <2>2, <2>3, Settling
    <2>5. TypedNext
      BY <1>5 DEF Expire, link, names, report, IInv, TypeOK, TypedNext
    <2> QED BY <2>4, <2>5, Both
  <1> QED BY <1>1, <1>2, <1>3, <1>4, <1>5


------------------------------------------------------------------------------
(* The timer_procs of the services, in a tick.                               *)

(* The frame of a timer_proc: the link is up, the turn passes on.            *)
LEMMA Frame ==
    ASSUME IInv, NEW s \in Services, NEW status, Proc(s, status), s # "LOG" \/ status # "ERROR"
    PROVE  /\ gprs = "TIME_PROC" /\ powerOn' = powerOn /\ powerOn' \in BOOLEAN
           /\ turn' \in Services \union {"DNS", "idle"}
           /\ sock[s].status = status /\ sock[s].fifo
           /\ Sound(s, sock[s]) /\ sock[s] \in Socket
  <1>1. turn = s /\ sock[s].status = status /\ sock[s].fifo /\ turn' = First(Later(Rank[s]))
    BY DEF Proc
  <1>2. gprs = "TIME_PROC"
    BY <1>1, Online
  <1>3. powerOn' = powerOn /\ powerOn' \in BOOLEAN
    BY DEF Proc, IInv, TypeOK
  <1> QED BY <1>1, <1>2, <1>3, TurnTyped, SockSound

(* One socket changes, the link being up. *)
LEMMA SettlesOnline ==
    ASSUME IInv, gprs = "TIME_PROC", NEW s \in Services, NEW r, Settle(s, r),
           Sound(s, r), r.named = sock[s].named, UNCHANGED link, ipCache' = ipCache
    PROVE  Kept
  BY Settling DEF link

LEMMA DeadStep == ASSUME IInv, NEW s \in Services, Dead(s) PROVE IInv'
  <1>1. s # "LOG"
    BY SockSound DEF Dead, Sound
  <1>2. gprs = "TIME_PROC"
    BY <1>1, Online DEF Dead
  <1>3. Kept
    BY <1>2, Untouched DEF Dead, link, names, IInv, TypeOK
  <1>4. turn' \in Services \union {"DNS", "idle"}
    BY TurnTyped DEF Dead
  <1>5. TypedNext
    BY <1>4 DEF Dead, link, names, report, IInv, TypeOK, TypedNext
  <1> QED BY <1>3, <1>5, Both

LEMMA InitProcStep == ASSUME IInv, NEW s \in Services, InitProc(s) PROVE IInv'
  <1>1. /\ Proc(s, "INIT") /\ UNCHANGED <<link, ipCache, orders, report, batches>>
        /\ request' = IF sock[s].named /\ request[s] = "no" THEN [request EXCEPT ![s] = "wanted"] ELSE request
    BY DEF InitProc
  <1>2. /\ gprs = "TIME_PROC" /\ turn' \in Services \union {"DNS", "idle"} /\ powerOn' \in BOOLEAN
        /\ Sound(s, sock[s]) /\ sock[s].status = "INIT"
    BY <1>1, Frame
  <1>3. Kept
    <2>1. CASE s \notin ipCache
      <3>1. sock' = sock
        BY <2>1 DEF InitProc
      <3> QED BY <1>1, <1>2, <3>1, Untouched DEF link, IInv, TypeOK
    <2>2. CASE s \in ipCache
      <3> DEFINE q == Transfer(s, sock[s], "CONNECTING")
      <3>1. PICK r \in Connect(s, q) : Settle(s, r)
        BY <2>2 DEF InitProc
      <3>2. Sound(s, q) /\ q.named = sock[s].named
        BY <1>2, TransferSound DEF Sound
      <3>3. q.status = "CONNECTING"
        <4>1. "CONNECTING" \in May(s)["INIT"] /\ "CONNECTING" \in Statuses /\ "INIT" \in Statuses
          BY Tables DEF Statuses
        <4> QED BY <1>2, <4>1, SockSound, TransferFields
      <3> HIDE DEF q
      <3>4. Sound(s, r) /\ r.named = sock[s].named
        BY <3>1, <3>2, <3>3, ConnectSound
      <3> QED BY <1>1, <1>2, <3>1, <3>4, SettlesOnline
    <2> QED BY <2>1, <2>2
  <1>4. TypedNext
    BY <1>1, <1>2 DEF link, orders, report, IInv, TypeOK, TypedNext
  <1> QED BY <1>3, <1>4, Both

(* A timer_proc that changes one socket, and perhaps the count of batches.   *)
LEMMA ProcStep ==
    ASSUME IInv, NEW s \in Services, NEW status, Proc(s, status), s # "LOG" \/ status # "ERROR",
           NEW r, Settle(s, r), Sound(s, r), r.named = sock[s].named,
           UNCHANGED <<link, names, report>>, batches' \in 0 .. MaxBatches
    PROVE  IInv'
  <1>1. /\ gprs = "TIME_PROC" /\ turn' \in Services \union {"DNS", "idle"} /\ powerOn' \in BOOLEAN
    BY Frame
  <1>2. Kept
    BY <1>1, SettlesOnline DEF names
  <1>3. TypedNext
    BY <1>1 DEF link, names, report, IInv, TypeOK, TypedNext
  <1> QED BY <1>2, <1>3, Both

(* A timer_proc that changes no socket. *)
LEMMA IdleProc ==
    ASSUME IInv, NEW s \in Services, NEW status, Proc(s, status),
           sock' = sock, UNCHANGED <<link, names, report, batches>>
    PROVE  IInv'
  <1>1. turn = s /\ turn' = First(Later(Rank[s])) /\ powerOn' = powerOn
    BY DEF Proc
  <1>2. gprs # "TIME_PROC" => turn' = "idle"
    BY <1>1, ServicesAre, NextTurn DEF IInv, Tail
  <1>3. Kept
    BY <1>2, Untouched DEF link, names, IInv, TypeOK
  <1>4. TypedNext
    BY <1>1, TurnTyped DEF link, names, report, IInv, TypeOK, TypedNext
  <1> QED BY <1>3, <1>4, Both

(* gps_service_destroy_gprs, called by the timer_proc of MAIN.               *)
LEMMA LosingStep ==
    ASSUME IInv, NEW status, Proc("MAIN", status), NEW r, LoseLink(r), Alive("MAIN", r), r.named = sock["MAIN"].named,
           UNCHANGED <<ipCache, request, oldIp>>, outdated' \in BOOLEAN, delayed' \in {"no", "destroy", "move"},
           waitSend' \in BOOLEAN, startSend' \in BOOLEAN, UNCHANGED batches
    PROVE  IInv'
  <1>1. "MAIN" \in Services /\ "MAIN" # "LOG"
    BY ServicesAre
  <1>2. gprs = "TIME_PROC" /\ turn' \in Services \union {"DNS", "idle"} /\ powerOn' \in BOOLEAN
    BY <1>1, Frame
  <1>3. CASE UpdateIdle /\ GprsDestroy([sock EXCEPT !["MAIN"] = r])
    <2>1. turn' \in {"LOG", "idle"} /\ turn' \in Services \union {"idle"}
      BY <1>1, NextTurn DEF Proc
    <2>2. turn' = "idle" \/ (turn' = "LOG" /\ "LOG" \in Services)
      BY <2>1, ServicesAre
    <2>3. Kept
      BY <1>2, <2>2, Losing
    <2>4. gprs' = "FAILED" /\ waited' = FALSE /\ goodOld' = goodOld
      BY <1>3, DestroyedLink
    <2>5. TypedNext
      BY <1>2, <2>4 DEF IInv, TypeOK, TypedNext
    <2> QED BY <2>3, <2>5, Both
  <1>4. CASE ~UpdateIdle /\ Settle("MAIN", Destroy("MAIN", r)) /\ UNCHANGED link
    <2>1. Sound("MAIN", Destroy("MAIN", r)) /\ Destroy("MAIN", r).named = sock["MAIN"].named
      BY <1>1, DestroySound
    <2>2. Kept
      BY <1>1, <1>2, <1>4, <2>1, SettlesOnline
    <2>3. TypedNext
      BY <1>2, <1>4 DEF link, IInv, TypeOK, TypedNext
    <2> QED BY <2>2, <2>3, Both
  <1> QED BY <1>3, <1>4 DEF LoseLink

LEMMA ReconnectStep == ASSUME IInv, NEW s \in Services, Reconnect(s) PROVE IInv'
  <1> DEFINE r == Failure(Close(sock[s]))
  <1>1. /\ Proc(s, "CONNECTING") /\ UNCHANGED <<link, names, report, batches>>
        /\ \E c \in Connect(s, r) : Settle(s, c)
    BY DEF Reconnect
  <1>2. PICK c \in Connect(s, r) : Settle(s, c)
    BY <1>1
  <1>3. Sound(s, Close(sock[s])) /\ Close(sock[s]).status = "CONNECTING" /\ Close(sock[s]).named = sock[s].named
    BY <1>1, Frame, FieldWrites DEF Sound
  <1>4. Sound(s, r) /\ r.status = "CONNECTING" /\ r.named = sock[s].named
    BY <1>3, WriteSound
  <1> HIDE DEF r
  <1>5. Sound(s, c) /\ c.named = sock[s].named
    BY <1>2, <1>4, ConnectSound
  <1> QED BY <1>1, <1>2, <1>5, ProcStep DEF IInv, TypeOK

LEMMA StrikesOutStep == ASSUME IInv, NEW s \in Services, StrikesOut(s) PROVE IInv'
  <1> DEFINE r == Failure(Close(sock[s]))
  <1>1. Proc(s, "CONNECTING") /\ UNCHANGED <<names, report, batches>>
    BY DEF StrikesOut
  <1>2. \/ Settle(s, Transfer(s, r, "INIT")) /\ UNCHANGED link
        \/ s = "MAIN" /\ LoseLink(r)
        \/ Settle(s, Finish(s, r)) /\ UNCHANGED link
    BY DEF StrikesOut
  <1>3. /\ Sound(s, Close(sock[s])) /\ Close(sock[s]).status = "CONNECTING"
        /\ Close(sock[s]).named = sock[s].named /\ ~Close(sock[s]).open
    BY <1>1, Frame, FieldWrites DEF Sound
  <1>4. Sound(s, r) /\ r.status = "CONNECTING" /\ r.named = sock[s].named /\ ~r.open
    BY <1>3, WriteSound
  <1> HIDE DEF r
  <1>5. CASE Settle(s, Transfer(s, r, "INIT")) /\ UNCHANGED link
    BY <1>1, <1>4, <1>5, TransferSound, ProcStep DEF IInv, TypeOK
  <1>6. CASE s = "MAIN" /\ LoseLink(r)
    BY <1>1, <1>4, <1>6, SoundIsAlive, LosingStep DEF names, report, IInv, TypeOK
  <1>7. CASE Settle(s, Finish(s, r)) /\ UNCHANGED link
    BY <1>1, <1>4, <1>7, FinishSound, ProcStep DEF IInv, TypeOK
  <1> QED BY <1>2, <1>5, <1>6, <1>7

LEMMA ConnectionStep == ASSUME IInv, NEW s \in Services, Connection(s) PROVE IInv'
  <1>1. CASE Waiting(s)
    BY <1>1, IdleProc DEF Waiting
  <1> QED BY <1>1, InitProcStep, ReconnectStep, StrikesOutStep, DeadStep DEF Connection


(* The reports of MAIN. *)
LEMMA MainReceivesStep ==
    ASSUME IInv, Proc("MAIN", "WORK"), NEW r, Sound("MAIN", r), r.named = sock["MAIN"].named,
           MainReceives(r), startSend' \in BOOLEAN, UNCHANGED batches
    PROVE  IInv'
  <1>1. "MAIN" \in Services /\ "MAIN" # "LOG"
    BY ServicesAre
  <1>2. gprs = "TIME_PROC" /\ turn' \in Services \union {"DNS", "idle"} /\ powerOn' \in BOOLEAN
    BY <1>1, Frame
  <1>3. ASSUME NEW q, Settle("MAIN", q), Sound("MAIN", q), q.named = sock["MAIN"].named,
               UNCHANGED <<link, ipCache, request, oldIp>>,
               outdated' \in BOOLEAN, delayed' \in {"no", "destroy", "move"}, waitSend' \in BOOLEAN
        PROVE  IInv'
    <2>1. Kept
      BY <1>1, <1>2, <1>3, SettlesOnline
    <2>2. TypedNext
      BY <1>2, <1>3 DEF link, IInv, TypeOK, TypedNext
    <2> QED BY <2>1, <2>2, Both
  <1>4. CASE /\ UNCHANGED <<link, names>>
             /\ \/ Settle("MAIN", r) /\ UNCHANGED waitSend
                \/ Settle("MAIN", r) /\ waitSend' = FALSE
                \/ Settle("MAIN", CloseForReconnect("MAIN", r)) /\ UNCHANGED waitSend
    <2> DEFINE q == CloseForReconnect("MAIN", r)
    <2>1. Sound("MAIN", q) /\ q.named = sock["MAIN"].named
      BY <1>1, CloseForReconnectSound
    <2>2. /\ UNCHANGED <<link, ipCache, request, oldIp>> /\ outdated' \in BOOLEAN
          /\ delayed' \in {"no", "destroy", "move"} /\ waitSend' \in BOOLEAN
      BY <1>4 DEF names, IInv, TypeOK
    <2> HIDE DEF q
    <2>3. Settle("MAIN", r) \/ Settle("MAIN", q)
      BY <1>4 DEF q
    <2> QED BY <1>3, <2>1, <2>2, <2>3
  <1>5. CASE /\ \E what \in MainCommands : Delay(what)
             /\ \/ Settle("MAIN", r) /\ UNCHANGED link
                \/ LoseLink(r)
             /\ UNCHANGED <<ipCache, request, oldIp, waitSend>>
    <2>1. /\ outdated' \in BOOLEAN /\ delayed' \in {"no", "destroy", "move"}
          /\ waitSend' \in BOOLEAN
      BY <1>5, StoredTyped DEF Delay, IInv, TypeOK
    <2>2. CASE Settle("MAIN", r) /\ UNCHANGED link
      BY <1>3, <1>5, <2>1, <2>2
    <2>3. CASE LoseLink(r)
      BY <1>1, <1>5, <2>1, <2>3, SoundIsAlive, LosingStep
    <2> QED BY <1>5, <2>2, <2>3
  <1> QED BY <1>4, <1>5 DEF MainReceives

LEMMA MainLostStep ==
    ASSUME IInv, Proc("MAIN", "WORK"), NEW r, Alive("MAIN", r), r.named = sock["MAIN"].named,
           MainLost(r), startSend' \in BOOLEAN, UNCHANGED batches
    PROVE  IInv'
  <1>1. waitSend' \in BOOLEAN
    BY DEF MainLost, IInv, TypeOK
  <1> QED BY <1>1, LosingStep DEF MainLost, names, IInv, TypeOK

LEMMA MainStep == ASSUME IInv, MainWaits \/ MainSends \/ MainResends \/ MainGivesUp PROVE IInv'
  <1>1. Proc("MAIN", "WORK") /\ UNCHANGED batches
    BY DEF MainWaits, MainSends, MainResends, MainGivesUp
  <1>2. Sound("MAIN", sock["MAIN"]) /\ "MAIN" \in Services
    BY ServicesAre, SockSound
  <1>3. /\ Sound("MAIN", Stamp(sock["MAIN"])) /\ Stamp(sock["MAIN"]).named = sock["MAIN"].named
        /\ Sound("MAIN", Unanswered) /\ Unanswered.named = sock["MAIN"].named
    BY <1>2, WriteSound DEF Unanswered
  <1>4. /\ Sound("MAIN", Stamp(Unanswered)) /\ Stamp(Unanswered).named = sock["MAIN"].named
        /\ Sound("MAIN", Cleared(Unanswered)) /\ Cleared(Unanswered).named = sock["MAIN"].named
        /\ Cleared(Unanswered).status = "WORK" /\ Cleared(Unanswered).open
    <2>1. Unanswered.status = "WORK" /\ Unanswered.open
      BY <1>1, <1>2, WriteSound DEF Unanswered, Proc, Sound
    <2> QED BY <1>2, <1>3, <2>1, WriteSound
  <1>5. startSend' \in BOOLEAN
    BY DEF MainWaits, MainSends, MainResends, MainGivesUp, IInv, TypeOK
  <1>6. CASE MainWaits
    BY <1>1, <1>2, <1>5, <1>6, MainReceivesStep DEF MainWaits
  <1>7. CASE MainSends
    BY <1>1, <1>2, <1>3, <1>5, <1>7, SoundIsAlive, MainReceivesStep, MainLostStep DEF MainSends
  <1>8. CASE MainResends
    BY <1>1, <1>3, <1>4, <1>5, <1>8, SoundIsAlive, MainReceivesStep, MainLostStep DEF MainResends
  <1>9. CASE MainGivesUp
    \* the descriptor is still open when the status is DATA_FINISH
    <2> DEFINE c == Cleared(Unanswered)
               q == Transfer("MAIN", c, "DATA_FINISH")
    <2>1. MainLost(q) /\ startSend' = FALSE
      BY <1>9 DEF MainGivesUp
    <2>2. c \in Socket /\ c.status = "WORK" /\ c.fifo /\ c.named = sock["MAIN"].named
      BY <1>4 DEF Sound
    <2> HIDE DEF c
    <2>3. q \in Socket /\ q.status \in {"WORK", "DATA_FINISH"} /\ q.fifo /\ q.named = sock["MAIN"].named
      <3>1. "DATA_FINISH" \in Statuses
        BY DEF Statuses
      <3> QED BY <1>2, <2>2, <3>1, TransferFields
    <2> HIDE DEF q
    <2>4. Alive("MAIN", q)
      BY <2>3 DEF Alive
    <2> QED BY <1>1, <1>5, <2>1, <2>3, <2>4, MainLostStep
  <1> QED BY <1>6, <1>7, <1>8, <1>9


(* The query of CONFIG. *)
LEMMA ConfigReceivesStep ==
    ASSUME IInv, "CONFIG" \in Services, Proc("CONFIG", "WORK"), NEW r, Sound("CONFIG", r),
           r.named = sock["CONFIG"].named, ConfigReceives(r), UNCHANGED <<link, request, delayed, report, batches>>
    PROVE  IInv'
  <1>1. gprs = "TIME_PROC" /\ turn' \in Services \union {"DNS", "idle"} /\ powerOn' \in BOOLEAN
    BY Frame
  <1>2. /\ Sound("CONFIG", Finish("CONFIG", r)) /\ Finish("CONFIG", r).named = r.named
        /\ Sound("CONFIG", CloseForReconnect("CONFIG", r)) /\ CloseForReconnect("CONFIG", r).named = r.named
    BY FinishSound, CloseForReconnectSound
  <1> DEFINE q == Finish("CONFIG", r)
             d == CloseForReconnect("CONFIG", r)
             ss == [sock EXCEPT !["CONFIG"] = q]
  <1>3. \/ (Settle("CONFIG", r) \/ Settle("CONFIG", d) \/ Settle("CONFIG", q)) /\ UNCHANGED <<ipCache, outdated, oldIp>>
        \/ Configured(ss)
    BY DEF ConfigReceives
  <1>4. /\ sock \in [Services -> Socket] /\ q \in Socket
        /\ Sound("CONFIG", q) /\ q.named = sock["CONFIG"].named
        /\ Sound("CONFIG", d) /\ d.named = sock["CONFIG"].named
    BY <1>2 DEF IInv, TypeOK, Sound
  <1> HIDE DEF q, d
  <1>5. ss \in [Services -> Socket] /\ \A s \in Services : ss[s] = IF s = "CONFIG" THEN q ELSE sock[s]
    BY <1>4
  <1>6. \A s \in Services : Sound(s, ss[s]) /\ ss[s].named = sock[s].named
    BY <1>4, <1>5, SockSound
  <1> HIDE DEF ss
  <1>7. Kept /\ outdated' \in BOOLEAN /\ oldIp' \in BOOLEAN
    <2>1. CASE Configured(ss)
      BY <1>1, <1>5, <1>6, <2>1, Configuring DEF link
    <2>2. CASE (Settle("CONFIG", r) \/ Settle("CONFIG", d) \/ Settle("CONFIG", q)) /\ UNCHANGED <<ipCache, outdated, oldIp>>
      <3>1. Kept
        BY <1>1, <1>4, <2>2, SettlesOnline
      <3> QED BY <2>2, <3>1 DEF IInv, TypeOK
    <2> QED BY <1>3, <2>1, <2>2
  <1>8. TypedNext
    BY <1>1, <1>7 DEF link, report, IInv, TypeOK, TypedNext
  <1> QED BY <1>7, <1>8, Both

LEMMA ConfigWorkStep == ASSUME IInv, "CONFIG" \in Services, ConfigWork PROVE IInv'
  <1> DEFINE r == sock["CONFIG"]
             f == Failure(r)
  <1>1. Proc("CONFIG", "WORK") /\ UNCHANGED <<link, request, delayed, report, batches>>
    BY DEF ConfigWork
  <1>2. \/ ConfigReceives(r)
        \/ \E c \in Request("CONFIG", f) : ConfigReceives(c)
        \/ ConfigReceives(Finish("CONFIG", f))
    BY DEF ConfigWork
  <1>3. Sound("CONFIG", r)
    BY SockSound
  <1>4. Sound("CONFIG", f) /\ f.named = r.named
    BY <1>3, WriteSound
  <1>5. \A c \in Request("CONFIG", f) \union {Finish("CONFIG", f)} : Sound("CONFIG", c) /\ c.named = r.named
    BY <1>4, WriteSound, FinishSound DEF Request
  <1> HIDE DEF f
  <1> QED BY <1>1, <1>2, <1>3, <1>5, ConfigReceivesStep

LEMMA SkipQueryStep == ASSUME IInv, "CONFIG" \in Services, SkipQuery PROVE IInv'
  <1>1. Proc("CONFIG", "INIT") /\ UNCHANGED <<link, names, report, batches>>
    BY DEF SkipQuery
  <1>2. Sound("CONFIG", sock["CONFIG"]) /\ ~sock["CONFIG"].open
    BY <1>1, Frame DEF Sound
  <1> QED BY <1>1, <1>2, TransferSound, ProcStep DEF SkipQuery, IInv, TypeOK

(* Its finish proc, which may create MAIN. *)
LEMMA ConfigFinishedStep ==
    ASSUME IInv, "CONFIG" \in Services, NEW status \in Ended, ConfigFinished(status) PROVE IInv'
  <1> DEFINE c == sock["CONFIG"]
             r == IF c.late THEN Transfer("CONFIG", c, "INIT") ELSE c
             m == sock["MAIN"]
             ss == [sock EXCEPT !["CONFIG"] = r]
  <1>1. Proc("CONFIG", status) /\ UNCHANGED <<link, request, delayed, report, batches>>
    BY DEF ConfigFinished
  <1>2. /\ gprs = "TIME_PROC" /\ turn' \in Services \union {"DNS", "idle"} /\ powerOn' \in BOOLEAN
        /\ Sound("CONFIG", c) /\ c.status = status
    BY <1>1, Frame
  <1>3. PICK n \in Configurable : Recreate(ss, n)
    BY <1>2 DEF ConfigFinished
  <1>4. Sound("CONFIG", r) /\ r \in Socket /\ r.named = c.named
    <2>1. ~c.open
      BY <1>2 DEF Ended, Sound
    <2> QED BY <1>2, <2>1, TransferSound DEF Sound
  <1>5. n \in BOOLEAN
    BY ConfigurableIs
  <1> DEFINE k == Created(m, n)
  <1>6. Sound("MAIN", k) /\ k \in Socket /\ k.named = IF m.fifo THEN m.named ELSE n
    <2>1. "MAIN" \in Services /\ Sound("MAIN", m)
      BY ServicesAre, SockSound
    <2>2. CASE m.fifo
      BY <2>1, <2>2 DEF Created, Sound
    <2>3. CASE ~m.fifo
      BY <1>5, <2>1, <2>3, FreshSound DEF Created, Sound
    <2> QED BY <2>2, <2>3
  <1>7. sock \in [Services -> Socket] /\ "MAIN" \in Services /\ ss["MAIN"] = m
    BY ServicesAre DEF IInv, TypeOK
  <1>8. /\ sock' = [ss EXCEPT !["MAIN"] = k] /\ ipCache' = ipCache \union CachedBy(m, n)
        /\ outdated' \in BOOLEAN /\ oldIp' \in BOOLEAN
    <2>1. Recreate(ss, n) /\ ss["MAIN"] = m
      BY <1>3, <1>7
    <2> HIDE DEF ss, m
    <2> QED BY <2>1 DEF Recreate, IInv, TypeOK
  <1> HIDE DEF r, k
  <1>9. sock' \in [Services -> Socket]
    BY <1>4, <1>6, <1>7, <1>8
  <1>10. \A s \in Services : sock'[s] = CASE s = "MAIN" -> k [] s = "CONFIG" -> r [] OTHER -> sock[s]
    BY <1>7, <1>8
  <1>11. Sockets(gprs', sock') /\ Tail(gprs', turn', sock')
    BY <1>1, <1>2, <1>4, <1>6, <1>10, SockSound DEF Sockets, Tail, link
  <1>12. ipCache \subseteq ipCache' /\ ipCache' \subseteq Services
    BY <1>7, <1>8 DEF CachedBy, IInv, TypeOK
  <1>13. Served(ipCache', sock')
    <2> SUFFICES ASSUME NEW s \in Services, s \notin ipCache' PROVE s = "MAIN" /\ sock'[s].named
      BY DEF Served
    <2>1. s = "MAIN" /\ m.named
      BY <1>12 DEF IInv, Served
    <2>2. m.fifo \/ n
      BY <1>8, <2>1 DEF CachedBy
    <2> QED BY <1>6, <1>10, <2>1, <2>2
  <1>14. Kept
    BY <1>9, <1>11, <1>12, <1>13 DEF Kept
  <1>15. TypedNext
    BY <1>1, <1>2, <1>8 DEF link, report, IInv, TypeOK, TypedNext
  <1> QED BY <1>14, <1>15, Both

(* The update. *)
LEMMA RequestBlocksSound ==
    ASSUME "UPDATE" \in Services, NEW r, Sound("UPDATE", r), NEW c \in RequestBlocks(r)
    PROVE  Sound("UPDATE", c) /\ c.named = r.named
  <1>1. c = Finish("UPDATE", r) \/ c = r \/ c = Stamp(r)
    BY DEF RequestBlocks
  <1> QED BY <1>1, FinishSound, WriteSound

LEMMA UpdateReceivesStep ==
    ASSUME IInv, "UPDATE" \in Services, Proc("UPDATE", "WORK"), NEW r, Sound("UPDATE", r),
           r.named = sock["UPDATE"].named, UpdateReceives(r), UNCHANGED <<link, names, report>>
    PROVE  IInv'
  <1>1. batches' \in 0 .. MaxBatches
    <2>1. batches \in 0 .. MaxBatches
      BY DEF IInv, TypeOK
    <2> QED BY <2>1, LimitsAre DEF UpdateReceives
  <1>2. Sound("UPDATE", Cleared(r)) /\ Cleared(r).named = r.named
    BY WriteSound
  <1>3. \E c \in {r, Finish("UPDATE", r)} \union RequestBlocks(r) \union RequestBlocks(Cleared(r)) :
            Settle("UPDATE", c)
    BY DEF UpdateReceives
  <1>4. PICK c \in {r, Finish("UPDATE", r)} \union RequestBlocks(r) \union RequestBlocks(Cleared(r)) :
            Settle("UPDATE", c)
    BY <1>3
  <1>5. Sound("UPDATE", c) /\ c.named = r.named
    BY <1>2, FinishSound, RequestBlocksSound
  <1> QED BY <1>1, <1>4, <1>5, ProcStep

LEMMA UpdateWorkStep == ASSUME IInv, "UPDATE" \in Services, UpdateWork PROVE IInv'
  <1> DEFINE r == sock["UPDATE"]
             f == Failure(r)
  <1>1. Proc("UPDATE", "WORK") /\ UNCHANGED <<link, names, report>>
    BY DEF UpdateWork
  <1>2. \E c \in {r, Finish("UPDATE", f)} \union Request("UPDATE", f) \union RequestBlocks(f) : UpdateReceives(c)
    BY DEF UpdateWork
  <1>3. PICK c \in {r, Finish("UPDATE", f)} \union Request("UPDATE", f) \union RequestBlocks(f) : UpdateReceives(c)
    BY <1>2
  <1>4. Sound("UPDATE", r)
    BY SockSound
  <1>5. Sound("UPDATE", f) /\ f.named = r.named
    BY <1>4, WriteSound
  <1>6. Sound("UPDATE", c) /\ c.named = r.named
    BY <1>4, <1>5, WriteSound, FinishSound, RequestBlocksSound DEF Request
  <1> QED BY <1>1, <1>3, <1>6, UpdateReceivesStep

(* The other finish procs, and the work of LOG. *)
LEMMA UpdateFinishedStep ==
    ASSUME IInv, "UPDATE" \in Services, NEW status \in Ended, UpdateFinished(status) PROVE IInv'
  <1> DEFINE r == sock["UPDATE"]
  <1>1. Proc("UPDATE", status) /\ UNCHANGED <<link, names, report>>
    BY DEF UpdateFinished
  <1>2. CASE r.late
    <2>1. Sound("UPDATE", r) /\ ~r.open
      BY <1>1, Frame DEF Ended, Sound
    <2>2. Sound("UPDATE", Stamp(r)) /\ ~Stamp(r).open /\ Stamp(r).named = r.named
      BY <2>1, WriteSound
    <2>3. Settle("UPDATE", Transfer("UPDATE", Stamp(r), "INIT")) /\ batches' = 0 /\ 0 \in 0 .. MaxBatches
      BY <1>2, LimitsAre DEF UpdateFinished
    <2> QED BY <1>1, <2>2, <2>3, TransferSound, ProcStep
  <1>3. CASE ~r.late
    BY <1>1, <1>3, IdleProc DEF UpdateFinished
  <1> QED BY <1>2, <1>3

LEMMA LogWorkStep == ASSUME IInv, "LOG" \in Services, LogWork PROVE IInv'
  <1>1. Proc("LOG", "WORK") /\ UNCHANGED <<link, names, report, batches>>
    BY DEF LogWork
  <1>2. PICK r \in {sock["LOG"], Finish("LOG", sock["LOG"])} : Settle("LOG", r)
    BY DEF LogWork
  <1>3. Sound("LOG", r) /\ r.named = sock["LOG"].named
    BY SockSound, FinishSound
  <1> QED BY <1>1, <1>2, <1>3, ProcStep DEF IInv, TypeOK

LEMMA LogFinishedStep ==
    ASSUME IInv, "LOG" \in Services, NEW status \in Ended, LogFinished(status) PROVE IInv'
  <1> DEFINE r == sock["LOG"]
  <1>1. Proc("LOG", status) /\ UNCHANGED <<link, names, report, batches>>
    BY DEF LogFinished
  <1>2. CASE gprs = "TIME_PROC" /\ r.late
    <2>1. Sound("LOG", r) /\ ~r.open
      BY <1>1, SockSound DEF Proc, Ended, Sound
    <2>2. /\ Sound("LOG", Transfer("LOG", r, "INIT")) /\ Transfer("LOG", r, "INIT").named = r.named
          /\ Settle("LOG", Transfer("LOG", r, "INIT"))
      BY <1>2, <2>1, TransferSound DEF LogFinished
    <2>3. Kept
      BY <1>1, <1>2, <2>2, SettlesOnline DEF names
    <2>4. TypedNext
      BY <1>1, TurnTyped DEF Proc, link, names, report, IInv, TypeOK, TypedNext
    <2> QED BY <2>3, <2>4, Both
  <1>3. CASE ~(gprs = "TIME_PROC" /\ r.late)
    BY <1>1, <1>3, IdleProc DEF LogFinished
  <1> QED BY <1>2, <1>3

LEMMA MainFinishedStep == ASSUME IInv, NEW status \in Ended, MainFinished(status) PROVE IInv'
  <1> DEFINE r == sock["MAIN"]
  <1>1. Proc("MAIN", status) /\ UNCHANGED <<link, names, report, batches>> /\ "MAIN" \in Services
    BY ServicesAre DEF MainFinished
  <1>2. CASE r.late
    <2>1. Sound("MAIN", r) /\ ~r.open /\ r.status # "ERROR"
      BY <1>1, Frame DEF Ended, Sound
    <2>2. Sound("MAIN", Transfer("MAIN", r, "INIT")) /\ Transfer("MAIN", r, "INIT").named = r.named
      BY <1>1, <2>1, TransferSound
    <2>3. Settle("MAIN", Transfer("MAIN", r, "INIT"))
      BY <1>2 DEF MainFinished
    <2> QED BY <1>1, <2>2, <2>3, ProcStep DEF IInv, TypeOK
  <1>3. CASE ~r.late
    BY <1>1, <1>3, IdleProc DEF MainFinished
  <1> QED BY <1>2, <1>3

------------------------------------------------------------------------------
(* The theorems.                                                             *)

LEMMA Step == IInv /\ [Next]_vars => IInv'
  <1> SUFFICES ASSUME IInv, [Next]_vars PROVE IInv'
    OBVIOUS
  <1>1. CASE UNCHANGED vars
    BY <1>1 DEF vars, IInv, TypeOK
  <1>2. CASE AttachTimeout \/ BearerTimeout
    BY <1>2, GiveUpStep DEF AttachTimeout, BearerTimeout, Offline
  <1>3. CASE Activate \/ Retry \/ Tick \/ Attach \/ Bearer \/ ExpireLink \/ ExpireGood
    BY <1>3, LinkStep
  <1>4. CASE RetryByReboot
    BY <1>4, RebootStep DEF RetryByReboot
  <1>5. CASE AskNothing \/ \E s \in Services : Ask(s)
    BY <1>5, DnsStep
  <1>6. CASE \E s \in Services : Connection(s)
    BY <1>6, ConnectionStep
  <1>7. CASE "CONFIG" \in Services /\ (SkipQuery \/ ConfigWork)
    BY <1>7, SkipQueryStep, ConfigWorkStep
  <1>8. CASE MainWaits \/ MainSends \/ MainResends \/ MainGivesUp
    BY <1>8, MainStep
  <1>9. CASE ("UPDATE" \in Services /\ UpdateWork) \/ ("LOG" \in Services /\ LogWork)
    BY <1>9, UpdateWorkStep, LogWorkStep
  <1>10. CASE \E status \in Ended : \/ MainFinished(status)
                                    \/ "CONFIG" \in Services /\ ConfigFinished(status)
                                    \/ "UPDATE" \in Services /\ UpdateFinished(status)
                                    \/ "LOG" \in Services /\ LogFinished(status)
    BY <1>10, MainFinishedStep, ConfigFinishedStep, UpdateFinishedStep, LogFinishedStep
  <1>11. CASE \/ Report
              \/ \E s \in Services : LinkError(s) \/ ReadError(s) \/ DnsAnswer(s) \/ Expire(s)
    BY <1>11, OutsideStep
  <1>12. CASE \/ SmsServer \/ DelayedDestroy \/ DelayedMove
              \/ \E what \in {"apn", "both"} : SmsAccessPoint(what)
    BY <1>12, CommandStep
  <1>13. SmsCommands \ {"server"} \subseteq {"apn", "both"}
    BY CommandsAssumption
  <1> QED BY <1>1, <1>2, <1>3, <1>4, <1>5, <1>6, <1>7, <1>8, <1>9, <1>10, <1>11, <1>12, <1>13
          DEF Next, TimerProc, Environment, Time

LEMMA Invariance == Spec => []IInv
  <1> QED BY InitInv, Step, PTL DEF Spec

(* Every variable keeps the range of its C type, whatever the order of       *)
(* callbacks: the failure counters stay unsigned chars.                      *)
THEOREM TypeCorrect == Spec => []TypeOK
  <1>1. IInv => TypeOK
    BY DEF IInv
  <1> QED BY <1>1, Invariance, PTL

(* A service has a descriptor exactly while its status is WORK: every        *)
(* handler that leaves WORK closes it, and none keeps one from before.       *)
THEOREM NoDescriptorLeaks == Spec => []OpenIsWorking
  <1>1. IInv => OpenIsWorking
    BY DEF IInv, Sockets, Sound, OpenIsWorking
  <1> QED BY <1>1, Invariance, PTL

(* MAIN has lost its buffer exactly when it is in ERROR, so that             *)
(* gps_service_create(false) does create it.                                 *)
THEOREM DeadMainIsError == Spec => []DeadIsError
  <1>1. IInv => DeadIsError
    BY DEF IInv, Sockets, Sound, DeadIsError
  <1> QED BY <1>1, Invariance, PTL

(* Between gprs_destroy and the next attachment no socket is open or about   *)
(* to be, the rest of that tick included.                                    *)
THEOREM QuietOffline == Spec => []OfflineIsQuiet
  <1>1. IInv => OfflineIsQuiet
    BY DEF IInv, Sockets, Quiet, OfflineIsQuiet
  <1> QED BY <1>1, Invariance, PTL

(* No service waits in INIT with neither an address nor a name to ask for.   *)
THEOREM EveryServerKnown == Spec => []ServerKnown
  <1>1. IInv => ServerKnown
    BY DEF IInv, Served, ServerKnown
  <1> QED BY <1>1, Invariance, PTL

(* A destroyed MAIN stays so until it is made anew, which gives it the       *)
(* configured server.                                                        *)
LEMMA DeadStays ==
    ASSUME IInv, Next, sock["MAIN"].status = "ERROR", outdated'
    PROVE  sock'["MAIN"].status = "ERROR"
  <1>1. /\ "MAIN" \in Services /\ sock \in [Services -> Socket]
        /\ Sound("MAIN", sock["MAIN"]) /\ Alive("MAIN", sock["MAIN"]) /\ ~sock["MAIN"].fifo
    BY ServicesAre, SockSound DEF IInv, TypeOK, Sound
  <1>2. ASSUME NEW ss, GprsDestroy(ss), Alive("MAIN", ss["MAIN"]) PROVE sock'["MAIN"].status = "ERROR"
    BY <1>1, <1>2, DestroySound DEF GprsDestroy
  <1>3. ASSUME NEW s \in Services, s # "MAIN", NEW r, Settle(s, r) PROVE sock'["MAIN"].status = "ERROR"
    BY <1>1, <1>3 DEF Settle
  <1>4. \A status : ~Proc("MAIN", status)
    BY <1>1 DEF Proc
  <1>5. CASE AttachTimeout \/ BearerTimeout \/ DelayedDestroy
    BY <1>1, <1>2, <1>5 DEF AttachTimeout, BearerTimeout, DelayedDestroy, GiveUp
  <1>6. CASE \/ Activate \/ Retry \/ Tick \/ AskNothing \/ Attach \/ Bearer \/ Report \/ ExpireLink \/ ExpireGood
             \/ \E s \in Services : Dead(s) \/ DnsAnswer(s) \/ Waiting(s)
    BY <1>6 DEF Activate, Retry, Tick, AskNothing, Attach, Bearer, Report, ExpireLink, ExpireGood,
                Services_, Dead, DnsAnswer, Waiting
  <1>7. CASE \E s \in Services : Ask(s) \/ Expire(s)
    <2>1. PICK s \in Services : Settle(s, Asked(sock[s])) \/ Settle(s, Expired(sock[s]))
      BY <1>7 DEF Ask, Expire
    <2>2. Asked(sock["MAIN"]).status = "ERROR" /\ Expired(sock["MAIN"]).status = "ERROR"
      BY <1>1, FieldWrites
    <2> QED BY <1>1, <2>1, <2>2 DEF Settle
  <1>8. CASE \E s \in Services : InitProc(s) \/ Reconnect(s) \/ StrikesOut(s)
    <2>1. PICK s \in Services : InitProc(s) \/ Reconnect(s) \/ StrikesOut(s)
      BY <1>8
    <2>2. s # "MAIN"
      BY <1>4, <2>1 DEF InitProc, Reconnect, StrikesOut
    <2>3. sock' = sock \/ \E r : Settle(s, r)
      BY <2>1, <2>2 DEF InitProc, Reconnect, StrikesOut
    <2> QED BY <1>3, <2>2, <2>3
  <1>9. CASE "CONFIG" \in Services /\ ConfigWork
    <2>1. \E r : ConfigReceives(r)
      BY <1>9 DEF ConfigWork
    <2>2. (\E r : Settle("CONFIG", r)) \/ \E ss : Configured(ss)
      BY <2>1 DEF ConfigReceives
    <2>3. ~\E ss : Configured(ss)
      BY DEF Configured, MoveMain
    <2> QED BY <1>3, <1>9, <2>2, <2>3
  <1>10. CASE \E status \in Ended : "CONFIG" \in Services /\ ConfigFinished(status)
    <2>1. gprs = "TIME_PROC"
      BY <1>10, Online DEF ConfigFinished, Proc
    <2>2. PICK r, n : Recreate([sock EXCEPT !["CONFIG"] = r], n)
      BY <1>10, <2>1 DEF ConfigFinished
    <2>3. ([sock EXCEPT !["CONFIG"] = r])["MAIN"] = sock["MAIN"]
      BY <1>1
    <2>4. outdated' = FALSE
      BY <1>1, <2>2, <2>3 DEF Recreate
    <2> QED BY <2>4
  <1>11. CASE \/ "UPDATE" \in Services /\ (UpdateWork \/ \E status \in Ended : UpdateFinished(status))
              \/ "LOG" \in Services /\ (LogWork \/ \E status \in Ended : LogFinished(status))
              \/ "CONFIG" \in Services /\ SkipQuery
    <2>1. \/ sock' = sock
          \/ \E s \in Services \ {"MAIN"} : \E r : Settle(s, r)
      <3>1. CASE "UPDATE" \in Services /\ UpdateWork
        <4>1. \E r : UpdateReceives(r)
          BY <3>1 DEF UpdateWork
        <4> QED BY <3>1, <4>1 DEF UpdateReceives
      <3>2. CASE "UPDATE" \in Services /\ \E status \in Ended : UpdateFinished(status)
        BY <3>2 DEF UpdateFinished
      <3>3. CASE "LOG" \in Services /\ (LogWork \/ \E status \in Ended : LogFinished(status))
        BY <3>3 DEF LogWork, LogFinished
      <3>4. CASE "CONFIG" \in Services /\ SkipQuery
        BY <3>4 DEF SkipQuery
      <3> QED BY <1>11, <3>1, <3>2, <3>3, <3>4
    <2> QED BY <1>3, <2>1
  <1>12. CASE \E s \in Services : LinkError(s) \/ ReadError(s)
    <2>1. PICK s \in Services : LinkError(s) \/ ReadError(s)
      BY <1>12
    <2>2. s # "MAIN"
      BY <1>1, <2>1 DEF LinkError, ReadError, Sound
    <2> QED BY <1>3, <2>1, <2>2 DEF LinkError, ReadError
  <1>13. CASE \E what \in {"apn", "both"} : SmsAccessPoint(what)
    <2>1. Settle("MAIN", Destroy("MAIN", sock["MAIN"]))
      BY <1>13 DEF SmsAccessPoint
    <2> QED BY <1>1, <2>1, DestroySound DEF Settle
  <1>14. ~(MainWaits \/ MainSends \/ MainResends \/ MainGivesUp \/ \E status \in Ended : MainFinished(status))
    BY <1>4 DEF MainWaits, MainSends, MainResends, MainGivesUp, MainFinished
  <1>15. ~(RetryByReboot \/ SmsServer)
    BY DEF RetryByReboot, Reboot, SmsServer, Configured, MoveMain
  <1>16. CASE DelayedMove
    <2>1. ~\E n \in Moves : MoveMain(sock, n)
      BY DEF MoveMain
    <2> QED BY <1>16, <2>1 DEF DelayedMove
  <1>17. SmsCommands \ {"server"} \subseteq {"apn", "both"}
    BY CommandsAssumption
  <1> QED BY <1>5, <1>6, <1>7, <1>8, <1>9, <1>10, <1>11, <1>12, <1>13, <1>14, <1>15, <1>16, <1>17
          DEF Next, TimerProc, Environment, Time, Connection

(* What the orders may become. *)
LEMMA OrdersKept ==
    ASSUME IInv, Next, outdated', ~(outdated /\ delayed' = delayed)
    PROVE  delayed' # "no" \/ sock'["MAIN"].status = "ERROR"
  <1>1. "MAIN" \in Services /\ sock \in [Services -> Socket] /\ Alive("MAIN", sock["MAIN"])
    BY ServicesAre, SockSound DEF IInv, TypeOK
  <1>2. CASE DelayedDestroy
    BY <1>1, <1>2, DestroySound DEF DelayedDestroy, GprsDestroy
  <1>3. CASE \E what \in SmsCommands : SmsAccessPoint(what)
    BY <1>1, <1>3, DestroySound DEF SmsAccessPoint, Settle
  <1>4. CASE MainWaits \/ MainSends \/ MainResends \/ MainGivesUp
    <2>1. (\E r : MainReceives(r)) \/ UNCHANGED names
      BY <1>4 DEF MainWaits, MainSends, MainResends, MainGivesUp, MainLost
    <2>2. UNCHANGED names \/ \E what \in MainCommands : Delay(what)
      BY <2>1 DEF MainReceives
    <2> QED BY <2>2 DEF names, Delay
  <1>5. CASE DelayedMove
    <2>1. outdated \/ ~outdated'
      BY <1>5 DEF DelayedMove
    <2>2. ~\E n \in Moves : MoveMain(sock, n)
      BY DEF MoveMain
    <2> QED BY <1>5, <2>1, <2>2 DEF DelayedMove
  <1>6. CASE "CONFIG" \in Services /\ ConfigWork
    <2>1. (\E r : ConfigReceives(r)) /\ delayed' = delayed
      BY <1>6 DEF ConfigWork
    <2>2. outdated' = outdated \/ ~outdated'
      BY <2>1 DEF ConfigReceives, Configured, MoveMain
    <2> QED BY <2>1, <2>2
  <1>7. CASE \E status \in Ended : ConfigFinished(status)
    BY <1>7 DEF ConfigFinished, Recreate
  <1>8. CASE \/ AttachTimeout \/ BearerTimeout \/ Activate \/ Retry \/ Tick \/ AskNothing
             \/ Attach \/ Bearer \/ Report \/ ExpireLink \/ ExpireGood
    BY <1>8 DEF AttachTimeout, BearerTimeout, Activate, Retry, Tick, AskNothing, GiveUp,
                Attach, Bearer, Report, ExpireLink, ExpireGood, Services_, names
  <1>9. CASE RetryByReboot \/ SmsServer
    BY <1>9 DEF RetryByReboot, Reboot, SmsServer, Configured, MoveMain
  <1>10. CASE \E s \in Services : \/ Ask(s) \/ Connection(s)
                                  \/ LinkError(s) \/ ReadError(s) \/ DnsAnswer(s) \/ Expire(s)
    BY <1>10 DEF Ask, Connection, InitProc, Waiting, Reconnect, StrikesOut, Dead,
                 LinkError, ReadError, DnsAnswer, Expire, names, orders
  <1>11. CASE SkipQuery \/ UpdateWork \/ LogWork
    BY <1>11 DEF SkipQuery, UpdateWork, LogWork, names
  <1>12. CASE \E status \in Ended : MainFinished(status) \/ UpdateFinished(status) \/ LogFinished(status)
    BY <1>12 DEF MainFinished, UpdateFinished, LogFinished, names
  <1> QED BY <1>2, <1>3, <1>4, <1>5, <1>6, <1>7, <1>8, <1>9, <1>10, <1>11, <1>12
          DEF Next, TimerProc, Environment, Time

(* A server that was configured is not forgotten, however commands follow    *)
(* each other on their one timer and the link comes and goes.                *)
THEOREM NoMoveIsForgotten == Spec => []MoveIsRemembered
  <1>1. Init => MoveIsRemembered
    BY DEF Init, MoveIsRemembered
  <1>2. IInv /\ MoveIsRemembered /\ [Next]_vars => MoveIsRemembered'
    <2> SUFFICES ASSUME IInv, MoveIsRemembered, [Next]_vars PROVE MoveIsRemembered'
      OBVIOUS
    <2>1. CASE UNCHANGED vars
      BY <2>1 DEF vars, MoveIsRemembered
    <2>2. CASE Next
      BY <2>2, DeadStays, OrdersKept DEF MoveIsRemembered
    <2> QED BY <2>1, <2>2
  <1> QED BY <1>1, <1>2, Invariance, PTL DEF Spec

(* While MAIN has the turn, an update that goes on keeps its status.         *)
LEMMA MainSpares ==
    ASSUME IInv, Next, turn = "MAIN", Busy
    PROVE  sock'["UPDATE"].status = sock["UPDATE"].status
  <1>1. "UPDATE" \in Services /\ "MAIN" \in Services /\ sock \in [Services -> Socket] /\ ~UpdateIdle
    BY ServicesAre DEF Busy, UpdateIdle, IInv, TypeOK
  <1>2. ASSUME NEW r, Settle("MAIN", r) PROVE sock'["UPDATE"] = sock["UPDATE"]
    BY <1>1, <1>2 DEF Settle
  <1>3. ASSUME NEW r, LoseLink(r) PROVE sock'["UPDATE"] = sock["UPDATE"]
    BY <1>1, <1>2, <1>3 DEF LoseLink
  <1>4. ASSUME NEW r, MainReceives(r) PROVE sock'["UPDATE"] = sock["UPDATE"]
    BY <1>2, <1>3, <1>4 DEF MainReceives
  <1>5. CASE \E s \in Services : Connection(s)
    <2>1. PICK s \in Services : Connection(s)
      BY <1>5
    <2>2. s = "MAIN"
      BY <2>1 DEF Connection, InitProc, Waiting, Reconnect, StrikesOut, Dead, Proc
    <2>3. sock' = sock \/ (\E r : Settle("MAIN", r)) \/ (\E r : LoseLink(r))
      BY <2>1, <2>2 DEF Connection, InitProc, Waiting, Reconnect, StrikesOut, Dead
    <2> QED BY <1>2, <1>3, <2>3
  <1>6. CASE MainWaits \/ MainSends \/ MainResends \/ MainGivesUp
    <2>1. (\E r : MainReceives(r)) \/ (\E r : LoseLink(r))
      BY <1>6 DEF MainWaits, MainSends, MainResends, MainGivesUp, MainLost
    <2> QED BY <1>3, <1>4, <2>1
  <1>7. CASE \E status \in Ended : MainFinished(status)
    <2>1. sock' = sock \/ \E r : Settle("MAIN", r)
      BY <1>7 DEF MainFinished
    <2> QED BY <1>2, <2>1
  <1>8. CASE \E s \in Services : Expire(s)
    <2>1. PICK s \in Services : Settle(s, Expired(sock[s]))
      BY <1>8 DEF Expire
    <2>2. Expired(sock[s]).status = sock[s].status
      BY <1>1, FieldWrites
    <2>3. sock'["UPDATE"] = IF s = "UPDATE" THEN Expired(sock[s]) ELSE sock["UPDATE"]
      BY <1>1, <2>1 DEF Settle
    <2> QED BY <2>2, <2>3
  <1>9. CASE ExpireLink \/ ExpireGood
    BY <1>9 DEF ExpireLink, ExpireGood, Services_
  <1>10. ~(AttachTimeout \/ BearerTimeout \/ Activate \/ Retry \/ RetryByReboot \/ Tick \/ AskNothing \/ Attach \/ Bearer)
    BY DEF AttachTimeout, BearerTimeout, Activate, Retry, RetryByReboot, Tick, AskNothing, Attach, Bearer, Offline
  <1>11. ~(Report \/ SmsServer \/ DelayedDestroy \/ DelayedMove \/ \E what \in SmsCommands : SmsAccessPoint(what))
    BY DEF Report, SmsServer, DelayedDestroy, DelayedMove, SmsAccessPoint
  <1>12. ~\E s \in Services : Ask(s) \/ LinkError(s) \/ ReadError(s) \/ DnsAnswer(s)
    BY DEF Ask, LinkError, ReadError, DnsAnswer
  <1>13. ~(SkipQuery \/ ConfigWork \/ UpdateWork \/ LogWork)
    BY DEF SkipQuery, ConfigWork, UpdateWork, LogWork, Proc
  <1>14. ~\E status \in Ended : ConfigFinished(status) \/ UpdateFinished(status) \/ LogFinished(status)
    BY DEF ConfigFinished, UpdateFinished, LogFinished, Proc
  <1> QED BY <1>5, <1>6, <1>7, <1>8, <1>9, <1>10, <1>11, <1>12, <1>13, <1>14
          DEF Next, TimerProc, Environment, Time

(* The troubles of MAIN never cut an update in progress.                     *)
THEOREM MainNeverCutsUpdate == Spec => UpdateSurvivesMain
  <1>1. IInv /\ [Next]_vars => [turn = "MAIN" /\ Busy => sock'["UPDATE"].status = sock["UPDATE"].status]_vars
    BY MainSpares
  <1> QED BY <1>1, Invariance, PTL DEF Spec, UpdateSurvivesMain

(* While the network stays down, a service other than MAIN enters INIT in a  *)
(* reboot only.                                                              *)
LEMMA SleepsOffline ==
    ASSUME IInv, Next, gprs # "TIME_PROC", gprs' # "TIME_PROC", ~(gprs = "FAILED" /\ goodOld),
           NEW s \in Services \ {"MAIN"}, sock'[s].status = "INIT"
    PROVE  sock[s].status = "INIT"
  <1>1. /\ turn = "idle" \/ (turn = "LOG" /\ sock["LOG"].status = "ERROR")
        /\ sock \in [Services -> Socket]
    BY DEF IInv, Tail, TypeOK
  <1>2. \A t \in Services : Alive(t, sock[t]) /\ Quiet(sock[t]) /\ sock[t] \in Socket
    BY SockSound
  <1>3. CASE AttachTimeout \/ BearerTimeout \/ DelayedDestroy
    <2>1. sock'[s] = Destroy(s, sock[s])
      BY <1>3 DEF AttachTimeout, BearerTimeout, DelayedDestroy, GiveUp, GprsDestroy
    <2> QED BY <1>2, <2>1, DestroySound
  <1>4. CASE Retry \/ Attach \/ Bearer \/ ExpireLink \/ ExpireGood \/ Report \/ \E t \in Services : DnsAnswer(t)
    BY <1>4 DEF Retry, Attach, Bearer, ExpireLink, ExpireGood, Report, DnsAnswer, Services_
  <1>5. CASE SmsServer \/ DelayedMove \/ \E what \in SmsCommands : SmsAccessPoint(what)
    <2>1. sock'[s] = sock[s]
      BY <1>1, <1>5 DEF SmsServer, DelayedMove, SmsAccessPoint, Configured, MoveMain, Settle
    <2> QED BY <2>1
  <1>6. CASE \E t \in Services : Expire(t)
    <2>1. PICK t \in Services : Settle(t, Expired(sock[t]))
      BY <1>6 DEF Expire
    <2>2. Expired(sock[t]).status = sock[t].status
      BY <1>2, FieldWrites
    <2>3. sock'[s] = IF s = t THEN Expired(sock[t]) ELSE sock[s]
      BY <1>1, <2>1 DEF Settle
    <2> QED BY <2>2, <2>3
  <1>7. CASE \E status \in Ended : LogFinished(status)
    BY <1>7 DEF LogFinished
  <1>8. CASE \E t \in Services : Connection(t)
    <2>1. PICK t \in Services : Connection(t)
      BY <1>8
    <2>2. t = "LOG" /\ sock[t].status = "ERROR"
      BY <1>1, <2>1, ServicesAre DEF Connection, InitProc, Waiting, Reconnect, StrikesOut, Dead, Proc
    <2>3. sock' = sock
      BY <2>1, <2>2 DEF Connection, InitProc, Waiting, Reconnect, StrikesOut, Dead, Proc
    <2> QED BY <2>3
  <1>9. ~(Activate \/ Tick \/ RetryByReboot \/ AskNothing \/ \E t \in Services : Ask(t))
    BY <1>1 DEF Activate, Tick, RetryByReboot, AskNothing, Ask, Offline
  <1>10. ~(SkipQuery \/ ConfigWork \/ UpdateWork \/ LogWork \/ MainWaits \/ MainSends \/ MainResends \/ MainGivesUp)
    BY <1>1 DEF SkipQuery, ConfigWork, UpdateWork, LogWork, MainWaits, MainSends, MainResends, MainGivesUp, Proc
  <1>11. ~\E status \in Ended : MainFinished(status) \/ ConfigFinished(status) \/ UpdateFinished(status)
    BY <1>1 DEF MainFinished, ConfigFinished, UpdateFinished, Proc
  <1>12. ~\E t \in Services : LinkError(t) \/ ReadError(t)
    BY <1>2 DEF LinkError, ReadError, Quiet
  <1> QED BY <1>3, <1>4, <1>5, <1>6, <1>7, <1>8, <1>9, <1>10, <1>11, <1>12
          DEF Next, TimerProc, Environment, Time

(* Nothing comes to life between gprs_destroy and the next attachment.       *)
THEOREM OfflineSleeps == Spec => NothingWakesOffline
  <1> DEFINE A == gprs # "TIME_PROC" /\ gprs' # "TIME_PROC" =>
                      \/ gprs = "FAILED" /\ goodOld
                      \/ \A s \in Services \ {"MAIN"} : sock'[s].status = "INIT" => sock[s].status = "INIT"
  <1>1. IInv /\ [Next]_vars => [A]_vars
    <2> SUFFICES ASSUME IInv, Next PROVE A
      OBVIOUS
    <2> QED BY SleepsOffline
  <1>2. NothingWakesOffline <=> [][A]_vars
    BY DEF NothingWakesOffline
  <1> HIDE DEF A
  <1> QED BY <1>1, <1>2, Invariance, PTL DEF Spec

------------------------------------------------------------------------------
(* The limit of a connection.                                                *)

(* A connection beyond its limit, and when it may be: it is one of UPDATE or *)
(* LOG with a name, whose time is over; and if the name has been asked for,  *)
(* its timer_proc is still to come in this tick, and will give it up.        *)
Strike(r) == r.status = "CONNECTING" /\ r.fail >= MAX_CONNECT_REPEAT
Ahead(t, s) == t \in Services /\ Rank[t] <= Rank[s]
Excused(s, r, t) ==
    Strike(r) => s \in {"UPDATE", "LOG"} /\ r.named /\ r.late /\ (r.executed => Ahead(t, s))
LimitInv == \A s \in Services : Excused(s, sock[s], turn)

(* A socket that is left alone, or does not connect any more. *)
Rested(s) == sock'[s] = sock[s] \/ sock'[s].status # "CONNECTING"

(* The turn is never given to a service beyond the next one.                 *)
LEMMA TurnPasses ==
    ASSUME NEW s \in Services
    PROVE  /\ Ahead(First(Later(0)), s)
           /\ \A t \in Services \ {s} : Ahead(t, s) => Ahead(First(Later(Rank[t])), s)
  <1>1. /\ Rank["CONFIG"] = 1 /\ Rank["UPDATE"] = 2 /\ Rank["MAIN"] = 3 /\ Rank["LOG"] = 4
    BY DEF Rank
  <1>2. ASSUME NEW S \in SUBSET Services, NEW x \in S
        PROVE  First(S) \in S /\ Rank[First(S)] <= Rank[x]
    <2>1. \E y \in S : \A z \in S : Rank[y] <= Rank[z]
      <3>1. CASE "CONFIG" \in S
        BY <1>1, <3>1, ServicesAre
      <3>2. CASE "CONFIG" \notin S /\ "UPDATE" \in S
        BY <1>1, <3>2, ServicesAre
      <3>3. CASE "CONFIG" \notin S /\ "UPDATE" \notin S /\ "MAIN" \in S
        BY <1>1, <3>3, ServicesAre
      <3>4. CASE "CONFIG" \notin S /\ "UPDATE" \notin S /\ "MAIN" \notin S
        <4>1. S = {"LOG"}
          BY <1>2, <3>4, ServicesAre
        <4> QED BY <1>1, <4>1
      <3> QED BY <3>1, <3>2, <3>3, <3>4
    <2>2. First(S) \in S /\ \A z \in S : Rank[First(S)] <= Rank[z]
      BY <1>2, <2>1 DEF First
    <2> QED BY <2>2
  <1>3. ASSUME NEW k \in 0 .. 4, Rank[s] > k PROVE Ahead(First(Later(k)), s)
    <2>1. Later(k) \in SUBSET Services /\ s \in Later(k)
      BY <1>3 DEF Later
    <2> QED BY <1>2, <2>1 DEF Ahead
  <1>4. Rank[s] > 0 /\ \A t \in Services \ {s} : Rank[t] \in 0 .. 4 /\ (Rank[t] <= Rank[s] => Rank[s] > Rank[t])
    BY <1>1, ServicesAre
  <1> QED BY <1>3, <1>4 DEF Ahead

LEMMA SettleRests ==
    ASSUME IInv, NEW s \in Services, NEW t \in Services, NEW r, Settle(t, r),
           t = s => r.status # "CONNECTING"
    PROVE  Rested(s)
  BY DEF Settle, Rested, IInv, TypeOK

LEMMA DestroyRests ==
    ASSUME NEW ss, GprsDestroy(ss), NEW s \in Services, Alive(s, ss[s])
    PROVE  Rested(s)
  <1>1. sock'[s] = Destroy(s, ss[s]) /\ Quiet(Destroy(s, ss[s]))
    BY DestroySound DEF GprsDestroy
  <1> QED BY <1>1 DEF Quiet, Rested

LEMMA LoseRests ==
    ASSUME IInv, NEW s \in Services, NEW r, Alive("MAIN", r), LoseLink(r)
    PROVE  Rested(s)
  <1>1. "MAIN" \in Services /\ sock \in [Services -> Socket]
    BY ServicesAre DEF IInv, TypeOK
  <1>2. Quiet(Destroy("MAIN", r))
    BY <1>1, DestroySound
  <1>3. CASE GprsDestroy([sock EXCEPT !["MAIN"] = r])
    <2> DEFINE ss == [sock EXCEPT !["MAIN"] = r]
    <2>1. ss[s] = IF s = "MAIN" THEN r ELSE sock[s]
      BY <1>1
    <2>2. Alive(s, ss[s]) /\ GprsDestroy(ss)
      BY <1>3, <2>1, SockSound
    <2> HIDE DEF ss
    <2> QED BY <2>2, DestroyRests
  <1>4. CASE Settle("MAIN", Destroy("MAIN", r))
    BY <1>1, <1>2, <1>4, SettleRests DEF Quiet
  <1> QED BY <1>3, <1>4 DEF LoseLink

LEMMA MoveRests ==
    ASSUME NEW ss \in [Services -> Socket], NEW n, MoveMain(ss, n), Alive("MAIN", ss["MAIN"]),
           NEW s \in Services, ss[s] = sock[s] \/ ss[s].status # "CONNECTING"
    PROVE  Rested(s)
  <1> DEFINE dead == Destroy("MAIN", ss["MAIN"])
             old == Nameless(dead)
  <1>1. "MAIN" \in Services
    BY ServicesAre
  <1>2. dead \in Socket /\ ~dead.fifo
    BY <1>1, DestroySound DEF Sound
  <1>3. ~old.fifo
    BY <1>2, FieldWrites
  <1>4. Created(old, n) = Fresh(n)
    BY <1>3 DEF Created
  <1>5. sock' = [ss EXCEPT !["MAIN"] = Fresh(n)]
    BY <1>4 DEF MoveMain
  <1>6. Fresh(n).status = "INIT"
    BY DEF Fresh
  <1> HIDE DEF old, dead
  <1>7. sock'[s] = IF s = "MAIN" THEN Fresh(n) ELSE ss[s]
    BY <1>5
  <1> QED BY <1>6, <1>7 DEF Rested

LEMMA ConfiguredRests ==
    ASSUME NEW ss \in [Services -> Socket], Configured(ss), Alive("MAIN", ss["MAIN"]),
           NEW s \in Services, ss[s] = sock[s] \/ ss[s].status # "CONNECTING"
    PROVE  Rested(s)
  BY MoveRests DEF Configured, Rested

(* How the turn moves in a step. *)
Passes(s) ==
    \/ turn' = turn
    \/ turn = "idle"
    \/ turn' = First(Later(0))
    \/ \E t \in Services : /\ turn = t /\ turn' = First(Later(Rank[t]))
                           /\ t = s => ~Strike(sock[s])

LEMMA Resting ==
    ASSUME LimitInv, NEW s \in Services, Rested(s), Passes(s)
    PROVE  Excused(s, sock'[s], turn')
  <1>1. CASE sock'[s].status # "CONNECTING"
    BY <1>1 DEF Excused, Strike
  <1>2. CASE sock'[s] = sock[s]
    <2> SUFFICES ASSUME Strike(sock[s])
                 PROVE  /\ s \in {"UPDATE", "LOG"} /\ sock[s].named /\ sock[s].late
                        /\ sock[s].executed => Ahead(turn', s)
      BY <1>2 DEF Excused
    <2>1. /\ s \in {"UPDATE", "LOG"} /\ sock[s].named /\ sock[s].late
          /\ sock[s].executed => Ahead(turn, s)
      BY DEF LimitInv, Excused
    <2>2. ~Ahead("idle", s)
      BY ServicesAre DEF Ahead
    <2>3. Ahead(turn, s) => Ahead(turn', s)
      BY <2>2, TurnPasses DEF Passes
    <2> QED BY <2>1, <2>3
  <1> QED BY <1>1, <1>2 DEF Rested

LEMMA ConnectStrikes ==
    ASSUME NEW s \in Services, NEW r \in Socket, r.status = "CONNECTING", r.fail < MAX_CONNECT_REPEAT,
           NEW c \in Connect(s, r)
    PROVE  ~Strike(c)
  <1> DEFINE o == Opened(r)
             up == Transfer(s, o, "WORK")
  <1>1. o \in Socket /\ o.status = "CONNECTING"
    BY OpenedFields
  <1>2. "WORK" \in May(s)["CONNECTING"] /\ "WORK" \in Statuses
    BY Tables DEF Statuses
  <1>3. c = Stamp(r) \/ c = up \/ c = Stamp(up) \/ c = Finish(s, up)
    BY DEF Connect, Request
  <1>4. up \in Socket /\ up.status = "WORK"
    BY <1>1, <1>2, TransferFields
  <1> HIDE DEF up
  <1>5. Stamp(r).fail = r.fail
    BY DEF Stamp, Socket
  <1>6. ~(MAX_CONNECT_REPEAT <= r.fail)
    BY LimitsAre DEF Socket
  <1>7. CASE c = Stamp(r)
    BY <1>5, <1>6, <1>7 DEF Strike
  <1>8. CASE c = up \/ c = Stamp(up)
    BY <1>4, <1>8, FieldWrites DEF Strike
  <1>9. CASE c = Finish(s, up)
    <2>1. Torn(up) \in Socket /\ Torn(up).status = "WORK"
      BY <1>4, TornFields
    <2>2. "DATA_FINISH" \in May(s)["WORK"] /\ "DATA_FINISH" \in Statuses
      BY Tables DEF Statuses
    <2>3. c.status = "DATA_FINISH"
      BY <1>9, <2>1, <2>2, TransferFields DEF Finish
    <2> QED BY <2>3 DEF Strike
  <1> QED BY <1>3, <1>7, <1>8, <1>9

(* The connection procedures: the only place where a limit is met. *)
LEMMA InitExcused ==
    ASSUME IInv, LimitInv, NEW s \in Services, NEW t \in Services, InitProc(t)
    PROVE  Excused(s, sock'[s], turn')
  <1>1. /\ turn = t /\ turn' = First(Later(Rank[t])) /\ sock[t].status = "INIT"
        /\ sock[t] \in Socket /\ sock \in [Services -> Socket]
    BY DEF InitProc, Proc, IInv, TypeOK
  <1>2. Passes(s)
    BY <1>1 DEF Passes, Strike
  <1>3. CASE sock' = sock
    BY <1>2, <1>3, Resting DEF Rested
  <1>4. ASSUME t \in ipCache PROVE Excused(s, sock'[s], turn')
    <2> DEFINE q == Transfer(t, sock[t], "CONNECTING")
    <2>1. PICK r \in Connect(t, q) : Settle(t, r)
      BY <1>4 DEF InitProc
    <2>2. "CONNECTING" \in May(t)["INIT"] /\ "CONNECTING" \in Statuses /\ "INIT" \in Statuses
      BY Tables DEF Statuses
    <2>3. q \in Socket /\ q.status = "CONNECTING"
      BY <1>1, <2>2, TransferFields
    <2>4. q.fail = 0 /\ 0 < MAX_CONNECT_REPEAT
      BY <1>1, <2>2, LimitsAre DEF Transfer, Socket
    <2> HIDE DEF q
    <2>5. ~Strike(r)
      BY <2>1, <2>3, <2>4, ConnectStrikes
    <2>6. CASE t = s
      BY <1>1, <2>1, <2>5, <2>6 DEF Settle, Excused
    <2>7. CASE t # s
      BY <1>2, <2>1, <2>7, SettleRests, Resting
    <2> QED BY <2>6, <2>7
  <1>5. t \notin ipCache => sock' = sock
    BY DEF InitProc
  <1> QED BY <1>3, <1>4, <1>5

LEMMA WaitingExcused ==
    ASSUME IInv, LimitInv, NEW s \in Services, NEW t \in Services, Waiting(t) \/ Dead(t)
    PROVE  Excused(s, sock'[s], turn')
  <1>1. /\ turn = t /\ turn' = First(Later(Rank[t])) /\ sock' = sock
        /\ ~sock[t].late \/ ~sock[t].fifo
    BY DEF Waiting, Dead, Proc
  <1>2. ~sock[t].fifo => sock[t].status = "ERROR"
    BY SockSound DEF Sound
  <1>3. ~Strike(sock[t])
    BY <1>1, <1>2 DEF LimitInv, Excused, Strike
  <1> QED BY <1>1, <1>3, Resting DEF Rested, Passes

(* A failure is counted. *)
LEMMA Struck ==
    ASSUME IInv, NEW t \in Services
    PROVE  LET r == Failure(Close(sock[t]))
           IN  /\ r \in Socket /\ r.status = sock[t].status /\ r.late = sock[t].late
               /\ r.named = sock[t].named /\ ~r.open /\ r.fifo = sock[t].fifo
  <1> DEFINE c == Close(sock[t])
  <1>1. sock[t] \in Socket
    BY SockSound
  <1>2. /\ c \in Socket /\ ~c.open /\ c.status = sock[t].status
        /\ c.named = sock[t].named /\ c.fifo = sock[t].fifo
    BY <1>1, FieldWrites
  <1>3. c.late = sock[t].late
    BY <1>1 DEF Close, Socket
  <1> HIDE DEF c
  <1>4. /\ Failure(c) \in Socket /\ Failure(c).status = c.status /\ Failure(c).open = c.open
        /\ Failure(c).named = c.named /\ Failure(c).fifo = c.fifo
    BY <1>2, FieldWrites
  <1>5. Failure(c).late = c.late
    BY <1>2 DEF Failure, Socket
  <1> QED BY <1>2, <1>3, <1>4, <1>5 DEF c

LEMMA ReconnectExcused ==
    ASSUME IInv, LimitInv, NEW s \in Services, NEW t \in Services, Reconnect(t)
    PROVE  Excused(s, sock'[s], turn')
  <1> DEFINE r == Failure(Close(sock[t]))
  <1>1. turn = t /\ turn' = First(Later(Rank[t])) /\ sock[t].status = "CONNECTING"
    BY DEF Reconnect, Proc
  <1>2. r \in Socket /\ r.status = "CONNECTING" /\ r.fail < MAX_CONNECT_REPEAT
    BY <1>1, Struck DEF Reconnect
  <1>3. PICK c \in Connect(t, r) : Settle(t, c)
    BY DEF Reconnect
  <1> HIDE DEF r
  <1>4. ~Strike(c)
    BY <1>2, <1>3, ConnectStrikes
  <1>5. CASE t = s
    BY <1>3, <1>4, <1>5 DEF Settle, Excused, IInv, TypeOK
  <1>6. CASE t # s
    BY <1>1, <1>3, <1>6, SettleRests, Resting DEF Passes
  <1> QED BY <1>5, <1>6

LEMMA StrikesOutExcused ==
    ASSUME IInv, LimitInv, NEW s \in Services, NEW t \in Services, StrikesOut(t)
    PROVE  Excused(s, sock'[s], turn')
  <1> DEFINE r == Failure(Close(sock[t]))
  <1>1. /\ turn = t /\ turn' = First(Later(Rank[t])) /\ sock[t].status = "CONNECTING"
        /\ sock[t].late /\ sock[t].fifo
    BY DEF StrikesOut, Proc
  <1>2. /\ r \in Socket /\ r.status = "CONNECTING" /\ r.late /\ ~r.open /\ r.fifo
    BY <1>1, Struck
  <1>3. Sound(t, r) /\ Alive(t, r)
    BY <1>2 DEF Sound, Alive
  <1>4. \/ r.named /\ ~r.executed /\ Settle(t, Transfer(t, r, "INIT"))
        \/ t = "MAIN" /\ LoseLink(r)
        \/ Settle(t, Finish(t, r))
    BY DEF StrikesOut
  <1> HIDE DEF r
  <1>5. CASE t # s /\ \E q : Settle(t, q)
    BY <1>1, <1>5, SettleRests, Resting DEF Passes
  <1>6. CASE t = s /\ r.named /\ ~r.executed /\ Settle(t, Transfer(t, r, "INIT"))
    <2> DEFINE q == Transfer(t, r, "INIT")
    <2>1. "INIT" \in Statuses /\ "CONNECTING" \in Statuses
      BY DEF Statuses
    <2>2. CASE "INIT" \in May(t)["CONNECTING"]
      <3>1. q.status = "INIT"
        BY <1>2, <2>1, <2>2, TransferFields
      <3> QED BY <1>6, <3>1 DEF Settle, Excused, Strike, IInv, TypeOK
    <2>3. CASE "INIT" \notin May(t)["CONNECTING"]
      <3>1. t \in {"UPDATE", "LOG"}
        BY <2>1, <2>3, Tables, ServicesAre
      <3>2. q = r
        BY <1>2, <2>3 DEF Transfer
      <3> QED BY <1>2, <1>6, <3>1, <3>2 DEF Settle, Excused, IInv, TypeOK
    <2> QED BY <2>2, <2>3
  <1>7. CASE t = "MAIN" /\ LoseLink(r)
    <2>1. ~Strike(sock["MAIN"])
      BY ServicesAre DEF LimitInv, Excused
    <2>2. Passes(s)
      BY <1>1, <1>7, <2>1 DEF Passes
    <2> QED BY <1>3, <1>7, <2>2, LoseRests, Resting
  <1>8. CASE t = s /\ Settle(t, Finish(t, r))
    BY <1>3, <1>8, FinishSound DEF Settle, Quiet, Excused, Strike, IInv, TypeOK
  <1> QED BY <1>4, <1>5, <1>6, <1>7, <1>8

(* The procedures of a socket that works or has ended. *)
LEMMA EndsWorking ==
    ASSUME NEW t \in Services, NEW r, Sound(t, r), r.status # "CONNECTING"
    PROVE  /\ \A q \in {r, Stamp(r), Cleared(r), Failure(r), Finish(t, r), CloseForReconnect(t, r)} :
                 Sound(t, q) /\ q.status # "CONNECTING"
           /\ Transfer(t, r, "INIT").status # "CONNECTING"
  <1>1. \A q \in {Stamp(r), Cleared(r), Failure(r)} : Sound(t, q) /\ q.status # "CONNECTING"
    BY WriteSound
  <1>2. \A q \in {Finish(t, r), CloseForReconnect(t, r)} : Sound(t, q) /\ q.status # "CONNECTING"
    BY FinishSound, CloseForReconnectSound DEF Quiet
  <1>3. Transfer(t, r, "INIT").status \in {r.status, "INIT"}
    BY TransferFields DEF Sound, Statuses
  <1> QED BY <1>1, <1>2, <1>3

LEMMA MainRests ==
    ASSUME IInv, NEW s \in Services, MainWaits \/ MainSends \/ MainResends \/ MainGivesUp
    PROVE  Rested(s)
  <1> DEFINE m == sock["MAIN"]
  <1>1. "MAIN" \in Services /\ Sound("MAIN", m) /\ m.status = "WORK" /\ Sound("MAIN", Unanswered)
        /\ Unanswered.status = "WORK"
    BY ServicesAre, SockSound, WriteSound
       DEF MainWaits, MainSends, MainResends, MainGivesUp, Proc, Unanswered
  <1>2. ASSUME NEW r, Sound("MAIN", r), r.status = "WORK", MainReceives(r) \/ MainLost(r)
        PROVE  Rested(s)
    <2>1. \/ Settle("MAIN", r) \/ Settle("MAIN", CloseForReconnect("MAIN", r)) \/ LoseLink(r)
      BY <1>2 DEF MainReceives, MainLost
    <2>2. CASE LoseLink(r)
      BY <1>2, <2>2, SoundIsAlive, LoseRests
    <2>3. CASE Settle("MAIN", r) \/ Settle("MAIN", CloseForReconnect("MAIN", r))
      BY <1>1, <1>2, <2>3, EndsWorking, SettleRests
    <2> QED BY <2>1, <2>2, <2>3
  <1>3. CASE MainGivesUp
    <2> DEFINE c == Cleared(Unanswered)
               q == Transfer("MAIN", c, "DATA_FINISH")
    <2>1. LoseLink(q)
      BY <1>3 DEF MainGivesUp, MainLost
    <2>2. Sound("MAIN", c) /\ c.status = "WORK"
      BY <1>1, WriteSound
    <2>3. q \in Socket /\ q.status \in {"WORK", "DATA_FINISH"} /\ q.fifo = c.fifo
      BY <1>1, <2>2, TransferFields DEF Sound, Statuses
    <2>4. c.fifo
      BY <2>2 DEF Sound
    <2> HIDE DEF q, c
    <2>5. Alive("MAIN", q)
      BY <2>3, <2>4 DEF Alive
    <2> QED BY <2>1, <2>5, LoseRests
  <1>4. CASE MainWaits \/ MainSends \/ MainResends
    <2>1. \A q \in {m, Stamp(m), Unanswered, Stamp(Unanswered)} : Sound("MAIN", q) /\ q.status = "WORK"
      BY <1>1, WriteSound
    <2>2. \E q \in {m, Stamp(m), Unanswered, Stamp(Unanswered)} : MainReceives(q) \/ MainLost(q)
      BY <1>4 DEF MainWaits, MainSends, MainResends
    <2> QED BY <1>2, <2>1, <2>2
  <1> QED BY <1>3, <1>4

LEMMA ConfigRests ==
    ASSUME IInv, "CONFIG" \in Services, NEW s \in Services,
           SkipQuery \/ ConfigWork \/ \E status \in Ended : ConfigFinished(status)
    PROVE  Rested(s)
  <1> DEFINE c == sock["CONFIG"]
  <1>1. /\ sock \in [Services -> Socket] /\ "MAIN" \in Services /\ Sound("CONFIG", c)
        /\ \A t \in Services : Alive(t, sock[t]) /\ sock[t] \in Socket
    BY ServicesAre, SockSound DEF IInv, TypeOK
  <1>2. CASE SkipQuery
    <2>1. c.status = "INIT" /\ Settle("CONFIG", Transfer("CONFIG", c, "DATA_FINISH"))
      BY <1>2 DEF SkipQuery, Proc
    <2>2. Transfer("CONFIG", c, "DATA_FINISH").status # "CONNECTING"
      BY <1>1, <2>1, TransferFields DEF Statuses
    <2> QED BY <2>1, <2>2, SettleRests
  <1>3. CASE ConfigWork
    <2> DEFINE f == Failure(c)
               all == {c, Stamp(f), Finish("CONFIG", f)}
    <2>1. c.status = "WORK"
      BY <1>3 DEF ConfigWork, Proc
    <2>2. Sound("CONFIG", f) /\ f.status # "CONNECTING"
      BY <1>1, <2>1, EndsWorking
    <2>3. \A r \in all : Sound("CONFIG", r) /\ r.status # "CONNECTING"
      BY <1>1, <2>1, <2>2, EndsWorking
    <2>4. \E r \in all : ConfigReceives(r)
      BY <1>3 DEF ConfigWork, Request
    <2> HIDE DEF all
    <2>5. PICK r \in all : ConfigReceives(r)
      BY <2>4
    <2>6. Sound("CONFIG", r) /\ r.status # "CONNECTING"
      BY <2>3
    <2>7. CASE Settle("CONFIG", r) \/ Settle("CONFIG", CloseForReconnect("CONFIG", r))
               \/ Settle("CONFIG", Finish("CONFIG", r))
      BY <2>6, <2>7, EndsWorking, SettleRests
    <2>8. CASE Configured([sock EXCEPT !["CONFIG"] = Finish("CONFIG", r)])
      <3> DEFINE q == Finish("CONFIG", r)
                 ss == [sock EXCEPT !["CONFIG"] = q]
      <3>1. q \in Socket /\ q.status # "CONNECTING"
        BY <2>6, EndsWorking DEF Sound
      <3> HIDE DEF q
      <3>2. ss \in [Services -> Socket] /\ ss["MAIN"] = sock["MAIN"]
            /\ ss[s] = IF s = "CONFIG" THEN q ELSE sock[s]
        BY <1>1, <3>1
      <3>3. Configured(ss)
        BY <2>8 DEF q
      <3> HIDE DEF ss
      <3> QED BY <1>1, <3>1, <3>2, <3>3, ConfiguredRests
    <2> QED BY <2>5, <2>7, <2>8 DEF ConfigReceives
  <1>4. ASSUME NEW status \in Ended, ConfigFinished(status) PROVE Rested(s)
    <2> DEFINE r == IF c.late THEN Transfer("CONFIG", c, "INIT") ELSE c
               ss == [sock EXCEPT !["CONFIG"] = r]
    <2>1. c.status \in {"DATA_FINISH", "ERROR"}
      BY <1>4 DEF ConfigFinished, Proc, Ended
    <2>2. r.status # "CONNECTING" /\ r \in Socket
      BY <1>1, <2>1, TransferFields DEF Statuses
    <2>3. sock' = sock \/ \E n \in Configurable : Recreate(ss, n)
      BY <1>4 DEF ConfigFinished
    <2> HIDE DEF r
    <2>4. ss["MAIN"] = sock["MAIN"] /\ ss[s] = IF s = "CONFIG" THEN r ELSE sock[s]
      BY <1>1
    <2> HIDE DEF ss
    <2>5. ASSUME NEW n, Recreate(ss, n) PROVE Rested(s)
      <3>1. sock' = [ss EXCEPT !["MAIN"] = Created(sock["MAIN"], n)]
        BY <2>4, <2>5 DEF Recreate
      <3>2. Created(sock["MAIN"], n) = sock["MAIN"] \/ Created(sock["MAIN"], n).status = "INIT"
        BY DEF Created, Fresh
      <3>3. sock'[s] \in {sock[s], ss[s], Created(sock["MAIN"], n)} /\ (sock'[s] = Created(sock["MAIN"], n) => s = "MAIN" \/ sock'[s] = ss[s])
        BY <3>1, <2>4
      <3> QED BY <2>2, <2>4, <3>1, <3>2, <3>3 DEF Rested
    <2> QED BY <2>3, <2>5 DEF Rested
  <1> QED BY <1>2, <1>3, <1>4

LEMMA UpdateRests ==
    ASSUME IInv, "UPDATE" \in Services, NEW s \in Services,
           UpdateWork \/ \E status \in Ended : UpdateFinished(status)
    PROVE  Rested(s)
  <1> DEFINE u == sock["UPDATE"]
  <1>1. Sound("UPDATE", u)
    BY SockSound
  <1>2. CASE UpdateWork
    <2> DEFINE f == Failure(u)
               all == {u, f, Stamp(f), Finish("UPDATE", f)}
    <2>1. u.status = "WORK"
      BY <1>2 DEF UpdateWork, Proc
    <2>2. Sound("UPDATE", f) /\ f.status # "CONNECTING"
      BY <1>1, <2>1, EndsWorking
    <2>3. \A r \in all : Sound("UPDATE", r) /\ r.status # "CONNECTING"
      BY <1>1, <2>1, <2>2, EndsWorking
    <2>4. \E r \in all : UpdateReceives(r)
      BY <1>2 DEF UpdateWork, Request, RequestBlocks
    <2> HIDE DEF all
    <2>5. PICK r \in all : UpdateReceives(r)
      BY <2>4
    <2>6. Sound("UPDATE", r) /\ r.status # "CONNECTING"
      BY <2>3
    <2>7. Sound("UPDATE", Cleared(r)) /\ Cleared(r).status # "CONNECTING"
      BY <2>6, EndsWorking
    <2> DEFINE ends == {r, Stamp(r), Finish("UPDATE", r), Cleared(r), Stamp(Cleared(r)), Finish("UPDATE", Cleared(r))}
    <2>8. \E q \in ends : Settle("UPDATE", q)
      BY <2>5 DEF UpdateReceives, RequestBlocks
    <2>9. \A q \in ends : q.status # "CONNECTING"
      BY <2>6, <2>7, EndsWorking
    <2> HIDE DEF ends
    <2> QED BY <2>8, <2>9, SettleRests
  <1>3. ASSUME NEW status \in Ended, UpdateFinished(status) PROVE Rested(s)
    <2>1. u.status \in {"DATA_FINISH", "ERROR"}
      BY <1>3 DEF UpdateFinished, Proc, Ended
    <2>2. Sound("UPDATE", Stamp(u)) /\ Stamp(u).status # "CONNECTING"
      BY <1>1, <2>1, EndsWorking
    <2>3. Transfer("UPDATE", Stamp(u), "INIT").status # "CONNECTING"
      BY <2>2, EndsWorking
    <2>4. sock' = sock \/ Settle("UPDATE", Transfer("UPDATE", Stamp(u), "INIT"))
      BY <1>3 DEF UpdateFinished
    <2> QED BY <2>3, <2>4, SettleRests DEF Rested
  <1> QED BY <1>2, <1>3

LEMMA EndRests ==
    ASSUME IInv, NEW s \in Services,
           \/ "LOG" \in Services /\ (LogWork \/ \E status \in Ended : LogFinished(status))
           \/ \E status \in Ended : MainFinished(status)
    PROVE  Rested(s)
  <1>1. CASE "LOG" \in Services /\ (LogWork \/ \E status \in Ended : LogFinished(status))
    <2> DEFINE r == sock["LOG"]
    <2>1. Sound("LOG", r) /\ r.status # "CONNECTING"
      BY <1>1, SockSound DEF LogWork, LogFinished, Proc, Ended
    <2>2. sock' = sock \/ \E q \in {r, Finish("LOG", r), Transfer("LOG", r, "INIT")} : Settle("LOG", q)
      BY <1>1 DEF LogWork, LogFinished
    <2>3. \A q \in {r, Finish("LOG", r), Transfer("LOG", r, "INIT")} : q.status # "CONNECTING"
      BY <1>1, <2>1, EndsWorking
    <2> QED BY <1>1, <2>2, <2>3, SettleRests DEF Rested
  <1>2. CASE \E status \in Ended : MainFinished(status)
    <2> DEFINE r == sock["MAIN"]
    <2>1. "MAIN" \in Services /\ Sound("MAIN", r) /\ r.status # "CONNECTING"
      BY <1>2, ServicesAre, SockSound DEF MainFinished, Proc, Ended
    <2>2. sock' = sock \/ Settle("MAIN", Transfer("MAIN", r, "INIT"))
      BY <1>2 DEF MainFinished
    <2>3. Transfer("MAIN", r, "INIT").status # "CONNECTING"
      BY <2>1, EndsWorking
    <2> QED BY <2>1, <2>2, <2>3, SettleRests DEF Rested
  <1> QED BY <1>1, <1>2

(* What comes between two ticks. *)
LEMMA OutsideRests ==
    ASSUME IInv, NEW s \in Services,
           \/ AttachTimeout \/ BearerTimeout \/ RetryByReboot
           \/ SmsServer \/ DelayedDestroy \/ DelayedMove \/ \E what \in SmsCommands : SmsAccessPoint(what)
           \/ \E t \in Services : LinkError(t) \/ ReadError(t)
    PROVE  Rested(s)
  <1>1. /\ sock \in [Services -> Socket] /\ "MAIN" \in Services
        /\ \A t \in Services : Alive(t, sock[t]) /\ Sound(t, sock[t])
    BY ServicesAre, SockSound DEF IInv, TypeOK
  <1>2. CASE AttachTimeout \/ BearerTimeout \/ DelayedDestroy
    BY <1>1, <1>2, DestroyRests DEF AttachTimeout, BearerTimeout, DelayedDestroy, GiveUp
  <1>3. CASE RetryByReboot
    <2>1. \E b : sock' = Booted(b)
      BY <1>3 DEF RetryByReboot, Reboot
    <2> QED BY <2>1 DEF Booted, Fresh, Rested
  <1>4. CASE SmsServer
    BY <1>1, <1>4, ConfiguredRests DEF SmsServer
  <1>5. CASE DelayedMove
    BY <1>1, <1>5, MoveRests DEF DelayedMove, Rested
  <1>6. CASE \E what \in SmsCommands : SmsAccessPoint(what)
    BY <1>1, <1>6, DestroySound, SettleRests DEF SmsAccessPoint, Quiet
  <1>7. ASSUME NEW t \in Services, LinkError(t) \/ ReadError(t) PROVE Rested(s)
    <2>1. \/ LoseLink(sock["MAIN"]) \/ Settle(t, Destroy(t, sock[t]))
          \/ Settle(t, CloseForReconnect(t, sock[t]))
      BY <1>7 DEF LinkError, ReadError
    <2>2. Quiet(Destroy(t, sock[t])) /\ Quiet(CloseForReconnect(t, sock[t]))
      BY <1>1, DestroySound, CloseForReconnectSound
    <2> QED BY <1>1, <2>1, <2>2, LoseRests, SettleRests DEF Quiet
  <1> QED BY <1>2, <1>3, <1>4, <1>5, <1>6, <1>7

(* A question is put, or a socket's time runs out. *)
LEMMA AskExcused ==
    ASSUME IInv, LimitInv, NEW s \in Services, NEW t \in Services, Ask(t) \/ Expire(t)
    PROVE  Excused(s, sock'[s], turn')
  <1>1. sock \in [Services -> Socket] /\ sock[t] \in Socket
    BY DEF IInv, TypeOK
  <1>2. /\ Asked(sock[t]).status = sock[t].status /\ Asked(sock[t]).fail = sock[t].fail
        /\ Asked(sock[t]).named = sock[t].named /\ Asked(sock[t]).late = sock[t].late
        /\ Expired(sock[t]).status = sock[t].status /\ Expired(sock[t]).fail = sock[t].fail
        /\ Expired(sock[t]).named = sock[t].named /\ Expired(sock[t]).late
        /\ Expired(sock[t]).executed = sock[t].executed
    BY <1>1 DEF Asked, Expired, Socket
  <1>3. CASE Ask(t)
    <2>1. /\ turn' = First(Later(0)) /\ sock'[s] = IF s = t THEN Asked(sock[t]) ELSE sock[s]
      BY <1>1, <1>3 DEF Ask, Settle
    <2>2. Ahead(turn', s)
      BY <2>1, TurnPasses
    <2> QED BY <1>2, <2>1, <2>2 DEF LimitInv, Excused, Strike
  <1>4. CASE Expire(t)
    <2>1. turn' = turn /\ sock'[s] = IF s = t THEN Expired(sock[t]) ELSE sock[s]
      BY <1>1, <1>4 DEF Expire, Settle
    <2> QED BY <1>2, <2>1 DEF LimitInv, Excused, Strike
  <1> QED BY <1>3, <1>4

LEMMA LimitStep == ASSUME IInv, LimitInv, Next, NEW s \in Services PROVE Excused(s, sock'[s], turn')
  <1>1. CASE \E t \in Services : Ask(t) \/ Expire(t)
    BY <1>1, AskExcused
  <1>2. CASE \E t \in Services : Connection(t)
    BY <1>2, InitExcused, WaitingExcused, ReconnectExcused, StrikesOutExcused DEF Connection
  <1>3. ASSUME NEW t \in Services, NEW status, Proc(t, status), status # "CONNECTING" PROVE Passes(s)
    BY <1>3 DEF Proc, Passes, Strike
  <1>4. CASE MainWaits \/ MainSends \/ MainResends \/ MainGivesUp
    <2>1. Proc("MAIN", "WORK") /\ "MAIN" \in Services
      BY <1>4, ServicesAre DEF MainWaits, MainSends, MainResends, MainGivesUp
    <2> QED BY <1>3, <1>4, <2>1, MainRests, Resting
  <1>5. CASE "CONFIG" \in Services /\ (SkipQuery \/ ConfigWork \/ \E status \in Ended : ConfigFinished(status))
    <2>1. \E status \in {"INIT", "WORK", "DATA_FINISH", "ERROR"} : Proc("CONFIG", status)
      BY <1>5 DEF SkipQuery, ConfigWork, ConfigFinished, Ended
    <2> QED BY <1>3, <1>5, <2>1, ConfigRests, Resting
  <1>6. CASE "UPDATE" \in Services /\ (UpdateWork \/ \E status \in Ended : UpdateFinished(status))
    <2>1. \E status \in {"WORK", "DATA_FINISH", "ERROR"} : Proc("UPDATE", status)
      BY <1>6 DEF UpdateWork, UpdateFinished, Ended
    <2> QED BY <1>3, <1>6, <2>1, UpdateRests, Resting
  <1>7. CASE \/ "LOG" \in Services /\ (LogWork \/ \E status \in Ended : LogFinished(status))
             \/ \E status \in Ended : MainFinished(status)
    <2>1. \E t \in Services, status \in {"WORK", "DATA_FINISH", "ERROR"} : Proc(t, status)
      BY <1>7, ServicesAre DEF LogWork, LogFinished, MainFinished, Ended
    <2> QED BY <1>3, <1>7, <2>1, EndRests, Resting
  <1>8. CASE \/ AttachTimeout \/ BearerTimeout \/ RetryByReboot
             \/ SmsServer \/ DelayedDestroy \/ DelayedMove \/ \E what \in SmsCommands : SmsAccessPoint(what)
             \/ \E t \in Services : LinkError(t) \/ ReadError(t)
    <2>1. turn = "idle"
      BY <1>8 DEF AttachTimeout, BearerTimeout, RetryByReboot, Offline, SmsServer, DelayedDestroy,
                  DelayedMove, SmsAccessPoint, LinkError, ReadError
    <2> QED BY <1>8, <2>1, OutsideRests, Resting DEF Passes
  <1>9. CASE \/ Activate \/ Retry \/ Tick \/ Attach \/ Bearer \/ AskNothing
             \/ Report \/ ExpireLink \/ ExpireGood \/ \E t \in Services : DnsAnswer(t)
    <2>1. sock' = sock /\ Passes(s)
      BY <1>9 DEF Activate, Retry, Tick, Attach, Bearer, AskNothing, Report, ExpireLink, ExpireGood,
                  DnsAnswer, Services_, Offline, Passes
    <2> QED BY <2>1, Resting DEF Rested
  <1> QED BY <1>1, <1>2, <1>4, <1>5, <1>6, <1>7, <1>8, <1>9 DEF Next, TimerProc, Environment, Time

(* A connection beyond its limit is one of UPDATE or LOG whose server has a  *)
(* name that nobody has asked for; MAIN and CONFIG always give up in time.   *)
THEOREM LimitOverrunUnasked == Spec => []OverrunOnlyUnasked
  <1>1. Init => LimitInv
    BY DEF Init, Booted, Fresh, LimitInv, Excused, Strike
  <1>2. IInv /\ LimitInv /\ [Next]_vars => LimitInv'
    <2> SUFFICES ASSUME IInv, LimitInv, [Next]_vars PROVE LimitInv'
      OBVIOUS
    <2>1. CASE UNCHANGED vars
      BY <2>1 DEF vars, LimitInv, Excused, Strike, Ahead
    <2>2. CASE Next
      BY <2>2, LimitStep DEF LimitInv, Excused, Strike, Ahead
    <2> QED BY <2>1, <2>2
  <1>3. IInv /\ LimitInv => OverrunOnlyUnasked
    BY ServicesAre DEF LimitInv, Excused, Strike, Ahead, OverrunOnlyUnasked
  <1> QED BY <1>1, <1>2, <1>3, Invariance, PTL DEF Spec

==============================================================================
