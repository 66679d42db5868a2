--------------------------- MODULE Resolver_proofs ---------------------------
(* Proofs about the resolver for any number of sockets and names, any        *)
(* timeout and any repeat limit.                                             *)
EXTENDS Resolver, TLAPS

------------------------------------------------------------------------------
(* Type correctness.                                                         *)

(* What the two sub-handlers of the timer keep of the type invariant.        *)
SlotType ==
    /\ executed \in [Sockets -> BOOLEAN]
    /\ current \in Sockets \union {NoSocket}
    /\ asked \in Names
    /\ gstatus \in {"INIT", "CONTINUE", "SUCCESS", "FAILED"}
    /\ age \in 0 .. Expired
    /\ owing \in BOOLEAN /\ (owing => asked \in Domains)

LEMMA FreeSlotType ==
    ASSUME TypeOK, FreeSlot, UNCHANGED executed
    PROVE  SlotType'
  <1>1. owing' \in BOOLEAN /\ ~owing'
    BY DEF FreeSlot
  <1>2. age' \in 0 .. Expired
    BY BoundsAssumption DEF FreeSlot, Expired
  <1> QED
    BY <1>1, <1>2 DEF TypeOK, SlotType, FreeSlot, Names

LEMMA GetHostByNameType ==
    ASSUME TypeOK, NEW i \in Sockets, GetHostByName(i)
    PROVE  SlotType'
  <1>1. CASE addr[i] = NoName
    BY <1>1, FreeSlotType DEF GetHostByName
  <1>2. CASE addr[i] # NoName
    <2>1. addr[i] \in Domains
      BY <1>2 DEF TypeOK, Names
    <2>2. /\ current' = i /\ asked' = addr[i] /\ gstatus' = "CONTINUE" /\ age' = 0
          /\ executed' = [executed EXCEPT ![i] = TRUE] /\ owing' = TRUE
      BY <1>2 DEF GetHostByName
    <2>3. executed' \in [Sockets -> BOOLEAN]
      BY <2>2 DEF TypeOK
    <2>4. age' \in 0 .. Expired
      BY <2>2, BoundsAssumption DEF Expired
    <2> QED
      BY <2>1, <2>2, <2>3, <2>4 DEF SlotType, Names
  <1> QED
    BY <1>1, <1>2

LEMMA HandOverType ==
    ASSUME TypeOK, NEW c \in Sockets, NEW i \in Sockets, HandOver(c, i)
    PROVE  SlotType'
  <1>1. CASE c = i
    BY <1>1, FreeSlotType DEF HandOver
  <1>2. CASE c # i
    BY <1>2, GetHostByNameType DEF HandOver
  <1> QED
    BY <1>1, <1>2

LEMMA InitType == Init => TypeOK
  <1> SUFFICES ASSUME Init PROVE TypeOK
    OBVIOUS
  <1>1. owing \in BOOLEAN /\ ~owing
    BY DEF Init
  <1>2. age \in 0 .. Expired /\ failCount \in [Sockets -> 0 .. MAX_GET_HOST_REPEAT - 1]
    BY BoundsAssumption DEF Init, Expired
  <1> QED
    BY <1>1, <1>2 DEF Init, TypeOK, Names

LEMMA NextType == TypeOK /\ [Next]_vars => TypeOK'
  <1> SUFFICES ASSUME TypeOK, [Next]_vars PROVE TypeOK'
    OBVIOUS
  <1>1. ASSUME NEW s \in Sockets, Trigger(s) PROVE TypeOK'
    BY <1>1 DEF TypeOK, Trigger, clients, slot, history
  <1>2. ASSUME NEW s \in Movable, NEW n \in Names, ChangeServer(s, n) PROVE TypeOK'
    BY <1>2, SocketsAssumption DEF TypeOK, ChangeServer, list, slot
  <1>3. ASSUME NEW s \in Movable, NEW n \in Names, Recreate(s, n) PROVE TypeOK'
    BY <1>3, SocketsAssumption DEF TypeOK, Recreate, list, slot
  <1>4. ASSUME NEW i \in Sockets, TimerStart(i) PROVE TypeOK'
    <2>1. SlotType'
      BY <1>4, GetHostByNameType DEF TimerStart
    <2> QED
      BY <1>4, <2>1 DEF TypeOK, SlotType, TimerStart, list, history
  <1>5. ASSUME NEW i \in Sockets, TimerAnswered(i) PROVE TypeOK'
    <2>1. current \in Sockets
      BY <1>5 DEF TypeOK, TimerAnswered
    <2>2. SlotType'
      BY <1>5, <2>1, HandOverType DEF TimerAnswered
    <2>3. failCount' \in [Sockets -> 0 .. MAX_GET_HOST_REPEAT - 1]
      BY <1>5, <2>1, BoundsAssumption DEF TypeOK, TimerAnswered, Withdraw
    <2>4. requested' \in [Sockets -> BOOLEAN]
      BY <1>5, <2>1 DEF TypeOK, TimerAnswered, Withdraw
    <2> QED
      BY <1>5, <2>2, <2>3, <2>4 DEF TypeOK, SlotType, TimerAnswered, GiveUp
  <1>6. ASSUME NEW i \in Sockets, TimerTimeout(i) PROVE TypeOK'
    <2>1. current \in Sockets
      BY <1>6 DEF TypeOK, TimerTimeout
    <2>2. SlotType'
      BY <1>6, <2>1, HandOverType, GetHostByNameType DEF TimerTimeout
    <2>3. failCount' \in [Sockets -> 0 .. MAX_GET_HOST_REPEAT - 1]
      BY <1>6, <2>1, BoundsAssumption DEF TypeOK, TimerTimeout, Withdraw
    <2>4. requested' \in [Sockets -> BOOLEAN]
      BY <1>6, <2>1 DEF TypeOK, TimerTimeout, Withdraw
    <2> QED
      BY <1>6, <2>2, <2>3, <2>4 DEF TypeOK, SlotType, TimerTimeout, GiveUp
  <1>7. ASSUME NEW n \in Domains, NEW valid \in BOOLEAN, Callback(n, valid) PROVE TypeOK'
    <2>1. ipCache' \in [Sockets -> Domains \union {NoIp, LiteralIp}] /\ moved' \subseteq Movable
      BY <1>7 DEF TypeOK, Callback, Store
    <2>2. owing' = FALSE \/ owing' = owing
      BY <1>7 DEF Callback, Answer
    <2>3. owing' \in BOOLEAN /\ (owing' => asked' \in Domains)
      <3>1. asked' = asked /\ owing \in BOOLEAN /\ (owing => asked \in Domains)
        BY <1>7 DEF TypeOK, Callback
      <3>2. CASE owing' = FALSE
        BY <3>2
      <3>3. CASE owing' = owing
        <4>1. owing' \in BOOLEAN
          BY <3>1, <3>3
        <4>2. owing' => asked' \in Domains
          BY <3>1, <3>3, Zenon
        <4> QED
          BY <4>1, <4>2
      <3> QED
        BY <2>2, <3>2, <3>3
    <2> QED
      BY <1>7, <2>1, <2>3 DEF TypeOK, Callback, list
  <1>8. CASE Second
    BY <1>8, BoundsAssumption DEF TypeOK, Second, Expired, clients, list, history
  <1>9. CASE UNCHANGED vars
    BY <1>9 DEF TypeOK, vars, clients, list, slot, history
  <1> QED
    BY <1>1, <1>2, <1>3, <1>4, <1>5, <1>6, <1>7, <1>8, <1>9 DEF Next, TimerProc

(* Every variable keeps its type; in particular no failure count reaches the *)
(* repeat limit of s_get_host_list.                                          *)
THEOREM TypeCorrect == Spec => []TypeOK
  BY InitType, NextType, PTL DEF Spec
------------------------------------------------------------------------------
(* The slot and its flag.                                                    *)

(* TypeOK already bounds the counts; what is added is that a socket that     *)
(* does not ask has none, and that an empty slot is in its first state.      *)
SlotInv ==
    /\ TypeOK
    /\ SlotIsRequested
    /\ \A s \in Sockets : ~requested[s] => failCount[s] = 0
    /\ current = NoSocket => gstatus = "INIT"

LEMMA InitSlot == Init => SlotInv
  BY InitType, NamesAssumption DEF Init, SlotInv, SlotIsRequested

LEMMA NextSlot == SlotInv /\ [Next]_vars => SlotInv'
  <1> SUFFICES ASSUME SlotInv, [Next]_vars PROVE SlotInv'
    OBVIOUS
  <1>0. TypeOK'
    BY NextType DEF SlotInv
  <1> USE DEF SlotInv, SlotIsRequested
  <1>1. ASSUME NEW s \in Sockets, Trigger(s) PROVE SlotInv'
    BY <1>0, <1>1 DEF TypeOK, Trigger, slot
  <1>2. ASSUME NEW s \in Movable, NEW n \in Names, ChangeServer(s, n) PROVE SlotInv'
    BY <1>0, <1>2 DEF ChangeServer, list, slot
  <1>3. ASSUME NEW s \in Movable, NEW n \in Names, Recreate(s, n) PROVE SlotInv'
    BY <1>0, <1>3 DEF Recreate, list, slot
  <1>4. ASSUME NEW i \in Sockets, TimerStart(i) PROVE SlotInv'
    BY <1>0, <1>4, NamesAssumption
       DEF TimerStart, GetHostByName, FreeSlot, Lowest, list
  <1>5. ASSUME NEW i \in Sockets, TimerAnswered(i) PROVE SlotInv'
    <2>1. current \in Sockets
      BY <1>5 DEF TypeOK, TimerAnswered
    <2>2. /\ requested' = [requested EXCEPT ![current] = FALSE]
          /\ failCount' = [failCount EXCEPT ![current] = 0]
      BY <1>5 DEF TimerAnswered, Withdraw
    <2>3. \A s \in Sockets : ~requested'[s] => failCount'[s] = 0
      BY <2>1, <2>2 DEF TypeOK
    <2>4. /\ current' # NoSocket => current' = i /\ i # current
          /\ current' = NoSocket => gstatus' = "INIT"
      BY <1>5, NamesAssumption DEF TimerAnswered, HandOver, GetHostByName, FreeSlot
    <2>5. current' # NoSocket => requested'[current']
      BY <1>5, <2>1, <2>2, <2>4 DEF TypeOK, TimerAnswered, Lowest
    <2> QED
      BY <1>0, <2>3, <2>4, <2>5
  <1>6. ASSUME NEW i \in Sockets, TimerTimeout(i) PROVE SlotInv'
    <2>1. current \in Sockets /\ requested[i] /\ requested[current]
      BY <1>6 DEF TypeOK, TimerTimeout, Lowest
    <2>2. CASE failCount[current] + 1 < MAX_GET_HOST_REPEAT
      <3>1. /\ failCount' = [failCount EXCEPT ![current] = @ + 1]
            /\ requested' = requested
            /\ GetHostByName(i)
        BY <1>6, <2>1, <2>2, BoundsAssumption DEF TypeOK, TimerTimeout
      <3>2. \A s \in Sockets : ~requested'[s] => failCount'[s] = 0
        BY <2>1, <3>1 DEF TypeOK
      <3>3. /\ current' # NoSocket => current' = i
            /\ current' = NoSocket => gstatus' = "INIT"
        BY <3>1, NamesAssumption DEF GetHostByName, FreeSlot
      <3> QED
        BY <1>0, <2>1, <3>1, <3>2, <3>3
    <2>3. CASE ~(failCount[current] + 1 < MAX_GET_HOST_REPEAT)
      <3>1. /\ requested' = [requested EXCEPT ![current] = FALSE]
            /\ failCount' = [failCount EXCEPT ![current] = 0]
            /\ HandOver(current, i)
        BY <1>6, <2>3 DEF TimerTimeout, Withdraw
      <3>2. \A s \in Sockets : ~requested'[s] => failCount'[s] = 0
        BY <2>1, <3>1 DEF TypeOK
      <3>3. /\ current' # NoSocket => current' = i /\ i # current
            /\ current' = NoSocket => gstatus' = "INIT"
        BY <3>1, NamesAssumption DEF HandOver, GetHostByName, FreeSlot
      <3>4. current' # NoSocket => requested'[current']
        BY <2>1, <3>1, <3>3 DEF TypeOK
      <3> QED
        BY <1>0, <3>2, <3>3, <3>4
    <2> QED
      BY <2>2, <2>3
  <1>7. ASSUME NEW n \in Domains, NEW valid \in BOOLEAN, Callback(n, valid) PROVE SlotInv'
    BY <1>0, <1>7 DEF Callback, list
  <1>8. CASE Second
    BY <1>0, <1>8 DEF Second, list
  <1>9. CASE UNCHANGED vars
    BY <1>0, <1>9 DEF vars, list, slot
  <1> QED
    BY <1>1, <1>2, <1>3, <1>4, <1>5, <1>6, <1>7, <1>8, <1>9 DEF Next, TimerProc

(* The slot's holder is always on the list, so the timer, which does nothing *)
(* when the list is empty, can always free the slot.                         *)
THEOREM SlotNeverLeaks == Spec => []SlotIsRequested
  <1>1. SlotInv => SlotIsRequested
    BY DEF SlotInv
  <1> QED
    BY <1>1, InitSlot, NextSlot, PTL DEF Spec

(* Requests of other sockets that come between the repetitions of one do not *)
(* disturb its count of failures.                                            *)
THEOREM FailCountsFresh == Spec => []FailCountFresh
  <1>1. SlotInv => FailCountFresh
    BY BoundsAssumption DEF SlotInv, TypeOK, FailCountFresh
  <1> QED
    BY <1>1, InitSlot, NextSlot, PTL DEF Spec

LEMMA AlwaysSlot == Spec => []SlotInv
  BY InitSlot, NextSlot, PTL DEF Spec

(* A request is only ever dropped by the timer that has tried it. *)
THEOREM LeavesAsHolder == Spec => OnlyHolderLeaves
  <1>1. SlotInv /\ [Next]_vars =>
          [\A s \in Sockets : requested[s] /\ ~requested'[s] => s = current /\ current' # s]_vars
    <2> SUFFICES ASSUME SlotInv, Next, NEW s \in Sockets, requested[s], ~requested'[s]
                 PROVE  s = current /\ current' # s
      OBVIOUS
    <2>0. requested \in [Sockets -> BOOLEAN] /\ current \in Sockets \union {NoSocket}
      BY DEF SlotInv, TypeOK
    <2>1. ASSUME NEW i \in Sockets, current # NoSocket, Withdraw(current),
                 HandOver(current, i)
          PROVE  s = current /\ current' # s
      BY <2>0, <2>1, NamesAssumption DEF Withdraw, HandOver, GetHostByName, FreeSlot
    <2>2. ASSUME NEW i \in Sockets, TimerAnswered(i) PROVE s = current /\ current' # s
      BY <2>1, <2>2 DEF TimerAnswered
    <2>3. ASSUME NEW i \in Sockets, TimerTimeout(i) PROVE s = current /\ current' # s
      BY <2>1, <2>3 DEF TimerTimeout
    <2>4. ASSUME NEW t \in Sockets, Trigger(t) PROVE FALSE
      BY <2>0, <2>4 DEF Trigger
    <2>5. ASSUME requested' = requested PROVE FALSE
      BY <2>5
    <2> QED
      BY <2>2, <2>3, <2>4, <2>5
         DEF Next, TimerProc, TimerStart, ChangeServer, Recreate, Callback, Second, list
  <1> QED
    BY <1>1, AlwaysSlot, PTL DEF Spec, OnlyHolderLeaves
------------------------------------------------------------------------------
(* The addresses kept by system_state.                                       *)

(* The slot is only held for a name, so a socket whose server has become a   *)
(* literal address is told from the one that asked.                          *)
HolderAsked == current # NoSocket => asked \in Domains

CacheInv == TypeOK /\ HolderAsked /\ CacheIsOwn

LEMMA InitCache == Init => CacheInv
  BY InitType DEF Init, CacheInv, HolderAsked, CacheIsOwn

LEMMA NextHolderAsked == TypeOK /\ HolderAsked /\ [Next]_vars => HolderAsked'
  <1> SUFFICES ASSUME TypeOK, HolderAsked, [Next]_vars PROVE HolderAsked'
    OBVIOUS
  <1>1. ASSUME NEW i \in Sockets, GetHostByName(i) PROVE HolderAsked'
    BY <1>1 DEF TypeOK, Names, GetHostByName, FreeSlot, HolderAsked
  <1>2. ASSUME NEW i \in Sockets, NEW c, HandOver(c, i) PROVE HolderAsked'
    BY <1>1, <1>2 DEF HandOver, FreeSlot, HolderAsked
  <1>3. ASSUME current' = current, asked' = asked PROVE HolderAsked'
    BY <1>3 DEF HolderAsked
  <1> QED
    BY <1>1, <1>2, <1>3
       DEF Next, Trigger, ChangeServer, Recreate, TimerProc, TimerStart, TimerAnswered,
           TimerTimeout, Callback, Second, vars, slot

(* What an answer does to the cache: nothing, or it is stored for the slot's *)
(* holder, whose name is then the one that was asked.                        *)
LEMMA CallbackStores ==
    ASSUME TypeOK, HolderAsked, NEW n \in Domains, NEW valid \in BOOLEAN, Callback(n, valid)
    PROVE  /\ addr' = addr /\ overdue' = overdue
           /\ \/ ipCache' = ipCache /\ moved' = moved
              \/ /\ current \in Sockets /\ addr[current] \in Domains
                 /\ addr[current] = n \/ n \in overdue
                 /\ Store(n)
  BY DEF TypeOK, HolderAsked, Callback, Answer

LEMMA NextCache == CacheInv /\ [Next]_vars => CacheIsOwn'
  <1> SUFFICES ASSUME CacheInv, [Next]_vars PROVE CacheIsOwn'
    OBVIOUS
  <1> USE DEF CacheInv, CacheIsOwn
  <1>1. ASSUME NEW s \in Movable, NEW n \in Names, ChangeServer(s, n) PROVE CacheIsOwn'
    BY <1>1, SocketsAssumption DEF TypeOK, ChangeServer
  <1>2. ASSUME NEW s \in Movable, NEW n \in Names, Recreate(s, n) PROVE CacheIsOwn'
    BY <1>2, SocketsAssumption DEF TypeOK, Recreate
  <1>3. ASSUME NEW n \in Domains, NEW valid \in BOOLEAN, Callback(n, valid)
        PROVE  CacheIsOwn'
    <2>1. CASE ipCache' = ipCache /\ moved' = moved
      BY <1>3, <2>1, CallbackStores
    <2>2. CASE /\ current \in Sockets /\ addr[current] \in Domains
               /\ addr[current] = n \/ n \in overdue
               /\ Store(n)
      <3> DEFINE c == current
      <3>1. /\ c \in Sockets /\ addr[c] # NoName /\ ipCache'[c] = n
            /\ n = addr[c] \/ n \in overdue
        BY <2>2, NamesAssumption DEF TypeOK, Store
      <3>2. \A s \in Sockets \ {c} : ipCache'[s] = ipCache[s] /\ (s \in moved' <=> s \in moved)
        BY <2>2 DEF TypeOK, Store
      <3>3. addr' = addr /\ overdue' = overdue
        BY <1>3, CallbackStores
      <3> HIDE DEF c
      <3> QED
        BY <3>1, <3>2, <3>3
    <2> QED
      BY <1>3, <2>1, <2>2, CallbackStores
  <1>4. ASSUME addr' = addr, ipCache' = ipCache, moved' = moved, overdue \subseteq overdue'
        PROVE  CacheIsOwn'
    BY <1>4
  <1> QED
    BY <1>1, <1>2, <1>3, <1>4
       DEF Next, Trigger, TimerProc, TimerStart, TimerAnswered, TimerTimeout, GiveUp,
           Second, vars, clients, history

(* An answer in time is never mixed up; what is not a socket's own address   *)
(* is the answer to a question given up, or its server changed unannounced.  *)
THEOREM CacheStaysOwn == Spec => []CacheIsOwn
  <1>1. CacheInv /\ [Next]_vars => CacheInv'
    BY NextType, NextHolderAsked, NextCache DEF CacheInv
  <1>2. CacheInv => CacheIsOwn
    BY DEF CacheInv
  <1> QED
    BY <1>1, <1>2, InitCache, PTL DEF Spec

------------------------------------------------------------------------------
(* The resolver implements NameCache.                                        *)

LEMMA InitRefines == Init => NC!Init
  BY DEF Init, NC!Init, NC!OwnAddress, Names

LEMMA NextRefines == TypeOK /\ HolderAsked /\ [Next]_vars => [NC!Next]_(NC!ncvars)
  <1> SUFFICES ASSUME TypeOK, HolderAsked, [Next]_vars PROVE [NC!Next]_(NC!ncvars)
    OBVIOUS
  <1>1. ASSUME NEW s \in Movable, NEW n \in Names, ChangeServer(s, n)
        PROVE  NC!Next
    BY <1>1 DEF ChangeServer, NC!Next, NC!ChangeServer, Names
  <1>2. ASSUME NEW s \in Movable, NEW n \in Names, Recreate(s, n)
        PROVE  [NC!Next]_(NC!ncvars)
    <2>1. CASE n = NoName
      <3>1. NC!MoveToLiteral(s)
        BY <1>2, <2>1 DEF Recreate, NC!MoveToLiteral
      <3> QED
        BY <3>1 DEF NC!Next
    <2>2. CASE n # NoName /\ n # addr[s]
      <3>1. n \in Domains /\ NC!Move(s, n)
        BY <1>2, <2>2 DEF Recreate, NC!Move, Names
      <3> QED
        BY <3>1 DEF NC!Next
    <2>3. CASE n # NoName /\ n = addr[s]
      <3>1. addr' = addr
        BY <1>2, <2>3, SocketsAssumption DEF Recreate, TypeOK
      <3> QED
        BY <1>2, <2>3, <3>1 DEF Recreate, NC!ncvars
    <2> QED
      BY <2>1, <2>2, <2>3
  <1>3. ASSUME NEW n \in Domains, NEW valid \in BOOLEAN, Callback(n, valid)
        PROVE  [NC!Next]_(NC!ncvars)
    <2>1. CASE ipCache' = ipCache /\ moved' = moved
      BY <1>3, <2>1, CallbackStores DEF NC!ncvars
    <2>2. CASE current \in Sockets /\ addr[current] = n /\ Store(n)
      <3>1. NC!Learn(current)
        BY <1>3, <2>2, CallbackStores, NamesAssumption DEF NC!Learn, Store
      <3> QED
        BY <2>2, <3>1 DEF NC!Next
    <2>3. CASE /\ current \in Sockets /\ addr[current] \in Domains /\ addr[current] # n
               /\ n \in overdue /\ Store(n)
      <3>1. addr[current] # NoName
        BY <2>3, NamesAssumption
      <3>2. NC!Mislead(current, n)
        BY <1>3, <2>3, <3>1, CallbackStores DEF NC!Mislead, Store
      <3> QED
        BY <2>3, <3>2 DEF NC!Next
    <2> QED
      BY <1>3, <2>1, <2>2, <2>3, CallbackStores
  <1>4. ASSUME GiveUp, addr' = addr, ipCache' = ipCache, moved' = moved
        PROVE  [NC!Next]_(NC!ncvars)
    <2>1. CASE ~owing
      BY <1>4, <2>1 DEF GiveUp, NC!ncvars
    <2>2. CASE owing
      <3>1. asked \in Domains /\ NC!GiveUp(asked)
        BY <1>4, <2>2 DEF GiveUp, NC!GiveUp, TypeOK
      <3> QED
        BY <3>1 DEF NC!Next
    <2> QED
      BY <2>1, <2>2
  <1>5. ASSUME addr' = addr, ipCache' = ipCache, moved' = moved, overdue' = overdue
        PROVE  [NC!Next]_(NC!ncvars)
    BY <1>5 DEF NC!ncvars
  <1> QED
    BY <1>1, <1>2, <1>3, <1>4, <1>5
       DEF Next, Trigger, TimerProc, TimerStart, TimerAnswered, TimerTimeout,
           Second, vars, clients, history

(* Every step of the resolver is a step of NameCache or changes none of its  *)
(* variables, whatever the network answers and whenever servers change.      *)
THEOREM ResolverImplementsNameCache == Spec => ImplementsNameCache
  <1>1. Init => HolderAsked
    BY DEF Init, HolderAsked
  <1> QED
    BY <1>1, TypeCorrect, NextHolderAsked, InitRefines, NextRefines, PTL
       DEF Spec, ImplementsNameCache, NC!Spec
==============================================================================
