----------------------------- MODULE CallProofs -----------------------------
(***************************************************************************)
(* What holds of service calls for every program of every number of        *)
(* threads, any services, boxes and calls.                                 *)
(***************************************************************************)
EXTENDS ServiceCall, FiniteSetTheorems, TLAPS

Steps == {"start", "new", "add", "init", "create", "put", "get", "write", "done", "killed"}
Phases == {"unsent", "open", "abandoned", "sent", "closed", "held", "handled", "lost"}

(* A receiving thread that calls has a call of its port in its hands.       *)
Receiving(s) ==
    /\ receiver[s].pc \in {"none", "bind", "failing", "receive", "call", "dead"}
    /\ receiver[s].pc = "call" =>
          /\ receiver[s].call \in Calls /\ receiver[s].call.to = ProxyOf[s]
          /\ phase[receiver[s].call] = "held"
          /\ receiver[s].to \in Services

(* Where the thread of a call is says where the call is, until it is sent.  *)
Sending(c) ==
    /\ pc[c] \in {"start", "create", "put", "get"} => phase[c] = "unsent"
    /\ pc[c] = "write" <=> phase[c] = "open"
    /\ phase[c] = "abandoned" => c.breaks
    /\ phase[c] = "closed" => c.breaks \/ pc[c] = "killed"

Typed ==
    /\ pc \in [Tasks -> Steps]
    /\ hashmap \in [Jvms -> SUBSET Range(Jar)]
    /\ puts \in [Tasks -> 0 .. Len(Jar)]
    /\ Is_Start \in [Proxies -> BOOLEAN]
    /\ recClient \in [Proxies -> Services \cup {None}]
    /\ calldata \in [Proxies -> Services \cup {None}]
    /\ theIServer_ \in [Services -> Services \cup {None}]
    /\ serverBox = [r \in Services |-> serverBox[r]]
    /\ \A r \in Services : \A n \in DOMAIN serverBox[r] : serverBox[r][n] \in Services
    /\ receiver = [s \in Services |-> receiver[s]]
    /\ \A s \in Services : receiver[s] =
          [pc |-> receiver[s].pc, call |-> receiver[s].call, to |-> receiver[s].to]
    /\ phase \in [Calls -> Phases]
    /\ posted \in Seq(Calls)
    /\ handled \subseteq Calls \X Services

(* A registration that is past InitServer has a RecDataCall, and only one   *)
(* that has ended has started a thread.                                     *)
Equipped ==
    /\ \A s \in Services : pc[s] = "init" => recClient[ProxyOf[s]] # None
    /\ \A s \in Services : pc[s] \in {"create", "put", "get"} => calldata[ProxyOf[s]] # None
    /\ \A s \in Services : receiver[s].pc # "none" => calldata[ProxyOf[s]] # None
    /\ \A s \in Services : receiver[s].pc # "none" => pc[s] = "done"
    /\ \A s \in Services : pc[s] \notin {"write", "killed"}

Held ==
    /\ \A s, u \in Services :
          receiver[s].pc = "call" /\ receiver[u].pc = "call" /\ receiver[s].call = receiver[u].call
              => s = u
    /\ \A c \in Calls : phase[c] = "held" =>
          \E s \in Services : receiver[s].pc = "call" /\ receiver[s].call = c

Posted ==
    /\ \A i \in DOMAIN posted : phase[posted[i]] # "unsent"
    /\ \A c \in Calls : phase[c] # "unsent" => \E i \in DOMAIN posted : posted[i] = c

Inv ==
    /\ Typed /\ Equipped /\ Held /\ Posted
    /\ \A s \in Services : Receiving(s)
    /\ \A c \in Calls : Sending(c)

-----------------------------------------------------------------------------
LEMMA TaskFacts ==
  /\ \A x \in Tasks : \A t \in Threads : Contains(Program[t], x) <=> t = ThreadOf[x]
  /\ \A x \in Tasks : ThreadOf[x] \in Threads
  /\ \A x \in Tasks : Jvm(x) \in Jvms
  /\ None \notin Services /\ None \notin Calls
  /\ \A s \in Services : ProxyOf[s] \in Proxies
  /\ \A c \in Calls : c.to \in Proxies
  <1>1. ASSUME NEW x \in Tasks
        PROVE  /\ ThreadOf[x] \in Threads
               /\ \A t \in Threads : Contains(Program[t], x) <=> t = ThreadOf[x]
    <2>1. PICK t \in Threads : \A u \in Threads : Contains(Program[u], x) <=> u = t
      BY CallAssumption DEF CallAssumption
    <2>2. ThreadOf[x] = CHOOSE u \in Threads : Contains(Program[u], x)
      BY DEF ThreadOf
    <2> QED BY <2>1, <2>2
  <1> QED BY <1>1, CallAssumption DEF CallAssumption, Jvm, Jvms, Tasks, Proxies

LEMMA RangeTyped ==
  /\ Len(Jar) \in Nat /\ \A i \in 1 .. Len(Jar) : Jar[i] \in Range(Jar)
  BY CallAssumption DEF CallAssumption, Range

LEMMA NoThreadTyped ==
  NoThread = [pc |-> "none", call |-> None, to |-> None]
  BY DEF NoThread

LEMMA InvTypeOK == Inv => TypeOK
  <1> SUFFICES ASSUME Inv PROVE TypeOK
    OBVIOUS
  <1>1. Range(posted) = {c \in Calls : phase[c] # "unsent"}
    BY DEF Inv, Typed, Posted, Range
  <1>2. {c \in Calls : phase[c] = "held"} =
            {receiver[s].call : s \in {r \in Services : receiver[r].pc = "call"}}
    BY DEF Inv, Held, Receiving
  <1>3. \A s \in Services : Range(serverBox[s]) \subseteq Services
    BY DEF Inv, Typed, Range
  <1> QED BY <1>1, <1>2, <1>3 DEF Inv, Typed, TypeOK, Steps, Phases, Receiving

LEMMA InitInv == Init => Inv
  <1> SUFFICES ASSUME Init PROVE Inv
    OBVIOUS
  <1>1. Typed
    BY RangeTyped DEF Init, Typed, Steps, Phases, NoThread
  <1>2. Equipped /\ Held /\ Posted
    BY DEF Init, Equipped, Held, Posted, Tasks, NoThread
  <1>3. \A s \in Services : Receiving(s)
    BY DEF Init, Receiving, NoThread
  <1>4. \A c \in Calls : Sending(c)
    BY DEF Init, Sending, Tasks
  <1> QED BY <1>1, <1>2, <1>3, <1>4 DEF Inv

-----------------------------------------------------------------------------
LEMMA Moved ==
  ASSUME Typed, NEW x \in Tasks, NEW to \in Steps, Goto(x, to)
  PROVE  /\ pc' \in [Tasks -> Steps] /\ pc'[x] = to
         /\ \A y \in Tasks \ {x} : pc'[y] = pc[y]
  BY DEF Typed, Goto

LEMMA Apart == \A s \in Services : s \in Tasks /\ s \notin Calls /\ ProxyOf[s] \in Proxies
  BY TaskFacts, CallAssumption DEF CallAssumption, Tasks

(* A registration's step, which leaves network and receiving threads.       *)
LEMMA Registering ==
  ASSUME Inv, NEW s \in Services, Typed', Equipped', UNCHANGED << receiver, wire >>,
         \A x \in Tasks \ {s} : pc'[x] = pc[x]
  PROVE  Inv'
  <1>1. Held' /\ Posted'
    BY DEF Inv, Held, Posted, wire
  <1>2. \A u \in Services : Receiving(u)'
    BY DEF Inv, Receiving, wire
  <1>3. \A c \in Calls : c \in Tasks /\ c # s
    BY Apart DEF Tasks
  <1>4. \A c \in Calls : Sending(c)'
    BY <1>3 DEF Inv, Sending, wire
  <1> QED BY <1>1, <1>2, <1>4 DEF Inv

LEMMA BoxTyped ==
  ASSUME Typed, NEW s \in Services, NEW r, Register(s, r)
  PROVE  /\ serverBox' = [u \in Services |-> serverBox'[u]]
         /\ \A u \in Services : \A n \in DOMAIN serverBox'[u] : serverBox'[u][n] \in Services
         /\ \A u \in Services : DOMAIN serverBox[u] \subseteq DOMAIN serverBox'[u]
         /\ \A u \in Services : \A n \in DOMAIN serverBox'[u] :
               \/ u = r /\ n = NameOf[s] /\ serverBox'[u][n] = s
               \/ n \in DOMAIN serverBox[u] /\ serverBox'[u][n] = serverBox[u][n]
         /\ r \in Services => NameOf[s] \in DOMAIN serverBox'[r]
  <1> DEFINE f == [n \in DOMAIN serverBox[r] \cup {NameOf[s]} |->
                      IF n = NameOf[s] THEN s ELSE serverBox[r][n]]
  <1>1. /\ DOMAIN f = {NameOf[s]} \cup DOMAIN serverBox[r]
        /\ \A n \in DOMAIN f : f[n] = IF n = NameOf[s] THEN s ELSE serverBox[r][n]
    OBVIOUS
  <1>2. serverBox' = [serverBox EXCEPT ![r] = f]
    BY DEF Register
  <1> HIDE DEF f
  <1>3. /\ serverBox' = [u \in Services |-> serverBox'[u]]
        /\ \A u \in Services : serverBox'[u] = IF u = r THEN f ELSE serverBox[u]
    BY <1>2 DEF Typed
  <1>4. ASSUME NEW u \in Services, NEW n \in DOMAIN serverBox'[u]
        PROVE  /\ \/ u = r /\ n = NameOf[s] /\ serverBox'[u][n] = s
                  \/ n \in DOMAIN serverBox[u] /\ serverBox'[u][n] = serverBox[u][n]
               /\ serverBox'[u][n] \in Services
    <2>1. CASE u = r
      <3>1. n \in DOMAIN f /\ serverBox'[u][n] = f[n]
        BY <1>3, <2>1
      <3>2. \/ n = NameOf[s] /\ f[n] = s
            \/ n \in DOMAIN serverBox[r] /\ f[n] = serverBox[r][n]
        BY <1>1, <3>1
      <3> QED BY <2>1, <3>1, <3>2 DEF Typed
    <2>2. CASE u # r
      <3>1. serverBox'[u] = serverBox[u]
        BY <1>3, <2>2
      <3> QED BY <3>1 DEF Typed
    <2> QED BY <2>1, <2>2
  <1>5. \A u \in Services : DOMAIN serverBox[u] \subseteq DOMAIN serverBox'[u]
    BY <1>1, <1>3
  <1>6. r \in Services => NameOf[s] \in DOMAIN serverBox'[r]
    BY <1>1, <1>3
  <1> QED BY <1>3, <1>4, <1>5, <1>6

LEMMA InvRegister ==
  ASSUME Inv, NEW s \in Services,
         CheckStart(s) \/ AddServer(s) \/ NewRecDataCall(s) \/ InitServer(s)
  PROVE  Inv'
  <1>1. Typed /\ Equipped /\ s \in Tasks /\ ProxyOf[s] \in Proxies /\ None \notin Services
    BY Apart, TaskFacts DEF Inv
  <1>2. PICK to \in {"add", "new", "done", "init", "create"} : Goto(s, to)
    BY DEF CheckStart, AddServer, NewRecDataCall, InitServer
  <1>3. /\ pc' \in [Tasks -> Steps] /\ pc'[s] = to
        /\ \A y \in Tasks \ {s} : pc'[y] = pc[y]
    BY <1>1, <1>2, Moved DEF Steps
  <1>4. CASE CheckStart(s)
    <2>1. pc'[s] \in {"add", "new"}
      BY <1>1, <1>3, <1>4 DEF CheckStart, Goto, Typed
    <2>2. Typed'
      BY <1>1, <1>3, <1>4 DEF CheckStart, Typed, wire, registry
    <2>3. Equipped'
      BY <1>1, <1>3, <1>4, <2>1, Apart DEF CheckStart, Begins, Equipped, wire, registry
    <2> QED BY <1>3, <1>4, <2>2, <2>3, Registering DEF CheckStart
  <1>5. CASE AddServer(s)
    <2>1. pc'[s] = "done" /\ Register(s, recClient[ProxyOf[s]])
      BY <1>1, <1>5 DEF AddServer, Goto, Typed
    <2>2. /\ serverBox' = [u \in Services |-> serverBox'[u]]
          /\ \A u \in Services : \A n \in DOMAIN serverBox'[u] : serverBox'[u][n] \in Services
      BY <1>1, <2>1, BoxTyped
    <2>3. Typed'
      BY <1>1, <1>3, <1>5, <2>2 DEF AddServer, Typed, wire
    <2>4. Equipped'
      BY <1>1, <1>3, <1>5, <2>1, Apart DEF AddServer, Equipped, wire
    <2> QED BY <1>3, <1>5, <2>3, <2>4, Registering DEF AddServer
  <1>6. CASE NewRecDataCall(s)
    <2>1. pc'[s] = "init" /\ Register(s, s) /\ recClient' = [recClient EXCEPT ![ProxyOf[s]] = s]
      BY <1>1, <1>6 DEF NewRecDataCall, Goto, Typed
    <2>2. /\ serverBox' = [u \in Services |-> serverBox'[u]]
          /\ \A u \in Services : \A n \in DOMAIN serverBox'[u] : serverBox'[u][n] \in Services
      BY <1>1, <2>1, BoxTyped
    <2>3. /\ recClient' \in [Proxies -> Services \cup {None}]
          /\ recClient'[ProxyOf[s]] = s
          /\ \A q \in Proxies \ {ProxyOf[s]} : recClient'[q] = recClient[q]
      BY <1>1, <2>1 DEF Typed
    <2>4. Typed'
      BY <1>1, <1>3, <1>6, <2>2, <2>3 DEF NewRecDataCall, Typed, wire
    <2>5. Equipped'
      BY <1>1, <1>3, <1>6, <2>1, <2>3, Apart DEF NewRecDataCall, Equipped, wire
    <2> QED BY <1>3, <1>6, <2>4, <2>5, Registering DEF NewRecDataCall
  <1>7. CASE InitServer(s)
    <2>1. /\ pc'[s] = "create" /\ recClient[ProxyOf[s]] # None
          /\ calldata' = [calldata EXCEPT ![ProxyOf[s]] = recClient[ProxyOf[s]]]
      BY <1>1, <1>7 DEF InitServer, Goto, Typed, Equipped
    <2>2. /\ calldata' \in [Proxies -> Services \cup {None}]
          /\ calldata'[ProxyOf[s]] # None
          /\ \A q \in Proxies \ {ProxyOf[s]} : calldata'[q] = calldata[q]
      BY <1>1, <2>1 DEF Typed
    <2>3. Typed'
      BY <1>1, <1>3, <1>7, <2>2 DEF InitServer, Typed, wire
    <2>4. Equipped'
      BY <1>1, <1>3, <1>7, <2>1, <2>2, Apart DEF InitServer, Equipped, wire
    <2> QED BY <1>3, <1>7, <2>3, <2>4, Registering DEF InitServer
  <1> QED BY <1>4, <1>5, <1>6, <1>7

LEMMA InvCreate == ASSUME Inv, NEW x \in Tasks, Create(x) PROVE Inv'
  <1>1. Typed /\ Equipped
    BY DEF Inv
  <1>2. /\ pc[x] \in {"create", "put"}
        /\ UNCHANGED << registry, theIServer_, receiver, wire, handled >>
    BY DEF Create, CheckSize, PutTransport
  <1>3. PICK to \in {"put", "get"} : Goto(x, to)
    BY DEF Create, CheckSize, PutTransport
  <1>4. /\ pc' \in [Tasks -> Steps] /\ pc'[x] = to
        /\ \A y \in Tasks \ {x} : pc'[y] = pc[y]
    BY <1>1, <1>3, Moved DEF Steps
  <1>5. hashmap' \in [Jvms -> SUBSET Range(Jar)] /\ puts' \in [Tasks -> 0 .. Len(Jar)]
    <2>1. CASE CheckSize(x)
      BY <1>1, <2>1 DEF CheckSize, Typed
    <2>2. CASE PutTransport(x)
      <3>1. /\ puts[x] < Len(Jar) /\ puts' = [puts EXCEPT ![x] = puts[x] + 1]
            /\ hashmap' = [hashmap EXCEPT ![Jvm(x)] = @ \cup {Jar[puts'[x]]}]
        BY <2>2 DEF PutTransport
      <3>2. puts[x] + 1 \in 1 .. Len(Jar)
        BY <1>1, <3>1, RangeTyped DEF Typed
      <3>3. puts' \in [Tasks -> 0 .. Len(Jar)] /\ puts'[x] = puts[x] + 1
        BY <1>1, <3>1, <3>2 DEF Typed
      <3>4. Jar[puts'[x]] \in Range(Jar)
        BY <3>2, <3>3, RangeTyped
      <3> QED BY <1>1, <3>1, <3>3, <3>4 DEF Typed
    <2> QED BY <2>1, <2>2 DEF Create
  <1>6. Typed'
    BY <1>1, <1>2, <1>4, <1>5 DEF Typed, registry, wire
  <1>7. Equipped'
    BY <1>1, <1>2, <1>4, Apart DEF Equipped, registry, wire
  <1>8. Held' /\ Posted' /\ \A u \in Services : Receiving(u)'
    BY <1>2 DEF Inv, Held, Posted, Receiving, wire
  <1>9. \A c \in Calls : Sending(c)'
    <2>1. \A c \in Calls : c \in Tasks
      BY DEF Tasks
    <2> QED BY <1>2, <1>4, <2>1 DEF Inv, Sending, wire
  <1> QED BY <1>6, <1>7, <1>8, <1>9 DEF Inv

-----------------------------------------------------------------------------
LEMMA ReceiverMoves ==
  ASSUME Typed, NEW s \in Services, NEW to, receiver' = [receiver EXCEPT ![s].pc = to]
  PROVE  /\ receiver' = [u \in Services |-> receiver'[u]]
         /\ \A u \in Services : receiver'[u] =
               [pc |-> receiver'[u].pc, call |-> receiver'[u].call, to |-> receiver'[u].to]
         /\ receiver'[s].pc = to
         /\ \A u \in Services \ {s} : receiver'[u] = receiver[u]
  <1> DEFINE r == [pc |-> to, call |-> receiver[s].call, to |-> receiver[s].to]
  <1>1. receiver[s] = [pc |-> receiver[s].pc, call |-> receiver[s].call, to |-> receiver[s].to]
    BY DEF Typed
  <1>2. [receiver[s] EXCEPT !.pc = to] = r
    BY <1>1
  <1>3. receiver' = [receiver EXCEPT ![s] = r]
    BY <1>2
  <1>4. r = [pc |-> r.pc, call |-> r.call, to |-> r.to] /\ r.pc = to
    OBVIOUS
  <1> HIDE DEF r
  <1> QED BY <1>3, <1>4 DEF Typed

LEMMA ReceiverSet ==
  ASSUME Typed, NEW s \in Services, NEW p, NEW c, NEW r,
         receiver' = [receiver EXCEPT ![s] = [pc |-> p, call |-> c, to |-> r]]
  PROVE  /\ receiver' = [u \in Services |-> receiver'[u]]
         /\ \A u \in Services : receiver'[u] =
               [pc |-> receiver'[u].pc, call |-> receiver'[u].call, to |-> receiver'[u].to]
         /\ receiver'[s].pc = p /\ receiver'[s].call = c /\ receiver'[s].to = r
         /\ \A u \in Services \ {s} : receiver'[u] = receiver[u]
  <1> DEFINE e == [pc |-> p, call |-> c, to |-> r]
  <1>1. e = [pc |-> e.pc, call |-> e.call, to |-> e.to] /\ e.pc = p /\ e.call = c /\ e.to = r
    OBVIOUS
  <1>2. receiver' = [receiver EXCEPT ![s] = e]
    OBVIOUS
  <1> HIDE DEF e
  <1> QED BY <1>1, <1>2 DEF Typed

(* A receiving thread is started, or binds: none is in a call by that.      *)
LEMMA InvStart ==
  ASSUME Inv, NEW s \in Services, StartReceiver(s) \/ Bind(s)
  PROVE  Inv'
  <1>1. Typed /\ Equipped /\ s \in Tasks /\ ProxyOf[s] \in Proxies
    BY Apart DEF Inv
  <1>2. receiver[s].pc \in {"none", "bind"}
    BY <1>1 DEF StartReceiver, Bind, Equipped
  <1>3. PICK p \in {"none", "bind", "failing", "receive"} :
            receiver' = [receiver EXCEPT ![s].pc = p]
    <2>1. CASE StartReceiver(s)
      <3>1. receiver' = [receiver EXCEPT ![s].pc = "bind"] \/ receiver' = receiver
        BY <2>1 DEF StartReceiver
      <3>2. receiver[s].pc = "none"
        BY <1>1, <2>1 DEF StartReceiver, Equipped
      <3>3. receiver[s] = [receiver[s] EXCEPT !.pc = "none"]
        <4>1. receiver[s] = [pc |-> receiver[s].pc, call |-> receiver[s].call, to |-> receiver[s].to]
          BY <1>1 DEF Typed
        <4> QED BY <3>2, <4>1
      <3>4. receiver = [receiver EXCEPT ![s].pc = "none"]
        BY <1>1, <3>3 DEF Typed
      <3> QED BY <3>1, <3>4
    <2>2. CASE Bind(s)
      <3>1. PICK p \in {"failing", "receive"} : receiver' = [receiver EXCEPT ![s].pc = p]
        BY <2>2 DEF Bind
      <3> QED BY <3>1
    <2> QED BY <2>1, <2>2
  <1>4. /\ receiver' = [u \in Services |-> receiver'[u]]
        /\ \A u \in Services : receiver'[u] =
              [pc |-> receiver'[u].pc, call |-> receiver'[u].call, to |-> receiver'[u].to]
        /\ receiver'[s].pc = p
        /\ \A u \in Services \ {s} : receiver'[u] = receiver[u]
    BY <1>1, <1>3, ReceiverMoves
  <1>5. UNCHANGED << wire, calldata, recClient, serverBox, theIServer_, hashmap, puts, handled >>
    BY DEF StartReceiver, Bind, registry
  <1>6. /\ pc' \in [Tasks -> Steps] /\ pc'[s] = "done"
        /\ \A y \in Tasks \ {s} : pc'[y] = pc[y]
    <2>1. CASE StartReceiver(s)
      BY <1>1, <2>1, Moved DEF StartReceiver, Steps
    <2>2. CASE Bind(s)
      BY <1>1, <2>2 DEF Bind, Typed, Equipped
    <2> QED BY <2>1, <2>2
  <1>7. Is_Start' \in [Proxies -> BOOLEAN]
    BY <1>1 DEF StartReceiver, Bind, Typed, registry
  <1>8. Typed'
    BY <1>1, <1>4, <1>5, <1>6, <1>7 DEF Typed, wire
  <1>9. calldata[ProxyOf[s]] # None
    BY <1>1 DEF StartReceiver, Bind, Equipped
  <1>10. Equipped'
    BY <1>1, <1>4, <1>5, <1>6, <1>9, Apart DEF Equipped
  <1>11. Held'
    BY <1>2, <1>4, <1>5 DEF Inv, Held, wire
  <1>12. Posted'
    BY <1>5 DEF Inv, Posted, wire
  <1>13. \A u \in Services : Receiving(u)'
    BY <1>4, <1>5 DEF Inv, Receiving, wire
  <1>14. \A c \in Calls : Sending(c)'
    <2>1. \A c \in Calls : c \in Tasks \ {s}
      BY Apart DEF Tasks
    <2> QED BY <1>5, <1>6, <2>1 DEF Inv, Sending, wire
  <1> QED BY <1>8, <1>10, <1>11, <1>12, <1>13, <1>14 DEF Inv

-----------------------------------------------------------------------------
(* What a receiving thread may read is for its port, and written or closed. *)
LEMMA ReadableFacts ==
  ASSUME Typed, NEW q, NEW c \in Readable(q)
  PROVE  c \in Calls /\ c.to = q /\ phase[c] \in {"sent", "closed"}
  <1>1. PICK i \in DOMAIN posted :
            c = posted[i] /\ Waiting(posted[i], q) /\ phase[posted[i]] \in {"sent", "closed"}
    BY DEF Readable
  <1>2. posted[i] \in Calls
    BY <1>1 DEF Typed
  <1> QED BY <1>1, <1>2 DEF Waiting

LEMMA Left ==
  ASSUME Typed, NEW c \in Calls, NEW to \in Phases, Leave(c, to)
  PROVE  /\ phase' \in [Calls -> Phases] /\ phase'[c] = to
         /\ \A d \in Calls \ {c} : phase'[d] = phase[d]
  BY DEF Typed, Leave

(* A call goes from the network to nothing or into a thread's hands.        *)
LEMMA InvReceive ==
  ASSUME Inv, NEW s \in Services, NEW c \in Calls, Receive(s, c)
  PROVE  Inv'
  <1>1. Typed /\ Equipped /\ Held /\ receiver[s].pc = "receive" /\ ProxyOf[s] \in Proxies
        /\ s \in Tasks
    BY Apart DEF Inv, Receive, Arrives
  <1>2. c.to = ProxyOf[s] /\ phase[c] \in {"sent", "closed"}
    BY <1>1, ReadableFacts DEF Receive, Arrives
  <1>3. UNCHANGED << pc, hashmap, puts, registry, posted, handled >>
    BY DEF Receive, Arrives
  <1> DEFINE r == calldata[ProxyOf[s]]
             o == Named(r, c.name)
  <1>4. r \in Services /\ o \in Services \cup {None}
    <2>1. r \in Services
      BY <1>1 DEF Typed, Equipped
    <2> QED BY <1>1, <2>1 DEF Typed, Named
  <1>5. Die(s, c) \/ Dispatch(s, c, r, o)
    BY DEF Receive
  <1> HIDE DEF r, o
  <1>6. theIServer_' \in [Services -> Services \cup {None}]
    BY <1>1, <1>4, <1>5 DEF Die, Dispatch, Typed
  <1>7. \/ /\ Leave(c, "lost")
           /\ receiver' = [receiver EXCEPT ![s].pc = "dead"]
        \/ Leave(c, "lost") /\ UNCHANGED receiver
        \/ /\ Leave(c, "held")
           /\ receiver' = [receiver EXCEPT ![s] = [pc |-> "call", call |-> c, to |-> r]]
    BY <1>5 DEF Die, Dispatch
  <1>8. /\ phase' \in [Calls -> Phases] /\ phase'[c] \in {"lost", "held"}
        /\ \A d \in Calls \ {c} : phase'[d] = phase[d]
    BY <1>1, <1>7, Left DEF Phases
  <1>9. /\ receiver' = [u \in Services |-> receiver'[u]]
        /\ \A u \in Services : receiver'[u] =
              [pc |-> receiver'[u].pc, call |-> receiver'[u].call, to |-> receiver'[u].to]
        /\ \A u \in Services \ {s} : receiver'[u] = receiver[u]
    <2>1. CASE receiver' = [receiver EXCEPT ![s].pc = "dead"]
      BY <1>1, <2>1, ReceiverMoves
    <2>2. CASE UNCHANGED receiver
      BY <1>1, <2>2 DEF Typed
    <2>3. CASE receiver' = [receiver EXCEPT ![s] = [pc |-> "call", call |-> c, to |-> r]]
      BY <1>1, <2>3, ReceiverSet
    <2> QED BY <1>7, <2>1, <2>2, <2>3
  <1>10. \/ phase'[c] = "lost" /\ receiver'[s].pc \in {"receive", "dead"}
         \/ /\ phase'[c] = "held" /\ receiver'[s].pc = "call"
            /\ receiver'[s].call = c /\ receiver'[s].to = r
    <2>1. CASE Leave(c, "lost") /\ receiver' = [receiver EXCEPT ![s].pc = "dead"]
      <3>1. receiver'[s].pc = "dead"
        BY <1>1, <2>1, ReceiverMoves
      <3>2. phase'[c] = "lost"
        BY <1>1, <2>1, Left DEF Phases
      <3> QED BY <3>1, <3>2
    <2>2. CASE Leave(c, "lost") /\ UNCHANGED receiver
      <3>1. phase'[c] = "lost"
        BY <1>1, <2>2, Left DEF Phases
      <3> QED BY <1>1, <2>2, <3>1
    <2>3. CASE /\ Leave(c, "held")
               /\ receiver' = [receiver EXCEPT ![s] = [pc |-> "call", call |-> c, to |-> r]]
      <3>1. /\ receiver'[s].pc = "call" /\ receiver'[s].call = c /\ receiver'[s].to = r
        BY <1>1, <2>3, ReceiverSet
      <3>2. phase'[c] = "held"
        BY <1>1, <2>3, Left DEF Phases
      <3> QED BY <3>1, <3>2
    <2> QED BY <1>7, <2>1, <2>2, <2>3
  <1>11. Typed'
    BY <1>1, <1>3, <1>6, <1>8, <1>9 DEF Typed, registry
  <1>12. Equipped'
    BY <1>1, <1>3, <1>9, <1>10 DEF Equipped, registry
  <1>13. Held'
    <2>1. \A u \in Services : receiver[u].pc = "call" => receiver[u].call # c
      BY <1>2 DEF Inv, Receiving
    <2> QED BY <1>1, <1>8, <1>9, <1>10, <2>1 DEF Held
  <1>14. Posted'
    BY <1>1, <1>2, <1>3, <1>8 DEF Inv, Posted, Typed
  <1>15. ASSUME NEW u \in Services PROVE Receiving(u)'
    <2>1. CASE u = s
      BY <1>2, <1>4, <1>10, <2>1 DEF Receiving
    <2>2. CASE u # s
      <3>1. receiver'[u] = receiver[u] /\ Receiving(u)
        BY <1>9, <2>2 DEF Inv
      <3>2. receiver[u].pc = "call" => receiver[u].call # c
        BY <1>2, <3>1 DEF Receiving
      <3> QED BY <1>8, <3>1, <3>2 DEF Receiving
    <2> QED BY <2>1, <2>2
  <1>16. ASSUME NEW d \in Calls PROVE Sending(d)'
    BY <1>2, <1>3, <1>8 DEF Inv, Sending
  <1> QED BY <1>11, <1>12, <1>13, <1>14, <1>15, <1>16 DEF Inv

LEMMA InvInvoke == ASSUME Inv, NEW s \in Services, Invoke(s) PROVE Inv'
  <1>1. Typed /\ Equipped /\ Held /\ s \in Tasks
    BY Apart DEF Inv
  <1>2. PICK c \in Calls, o \in Services \cup {None} :
            Return(s, c, o, "receive") /\ Leave(c, IF o = None THEN "lost" ELSE "handled")
    BY DEF Invoke
  <1>3. /\ receiver[s].pc = "call" /\ c = receiver[s].call
        /\ UNCHANGED << pc, hashmap, puts, registry, theIServer_, posted >>
        /\ handled' = handled \cup (IF o = None THEN {} ELSE {<< c, o >>})
    BY <1>2 DEF Return
  <1>4. PICK p \in {"dead", "receive"} :
            receiver' = [receiver EXCEPT ![s] = [pc |-> p, call |-> None, to |-> None]]
    <2>1. PICK p \in {"dead", "receive"} :
              receiver' = [receiver EXCEPT ![s] = [NoThread EXCEPT !.pc = p]]
      BY <1>2 DEF Return
    <2>2. [NoThread EXCEPT !.pc = p] = [pc |-> p, call |-> None, to |-> None]
      BY DEF NoThread
    <2> QED BY <2>1, <2>2
  <1>5. /\ receiver' = [u \in Services |-> receiver'[u]]
        /\ \A u \in Services : receiver'[u] =
              [pc |-> receiver'[u].pc, call |-> receiver'[u].call, to |-> receiver'[u].to]
        /\ receiver'[s].pc = p
        /\ \A u \in Services \ {s} : receiver'[u] = receiver[u]
    BY <1>1, <1>4, ReceiverSet
  <1>6. /\ phase' \in [Calls -> Phases] /\ phase'[c] \in {"lost", "handled"}
        /\ \A d \in Calls \ {c} : phase'[d] = phase[d]
    BY <1>1, <1>2, Left DEF Phases
  <1>7. phase[c] = "held" /\ \A u \in Services \ {s} : receiver[u].pc = "call" => receiver[u].call # c
    BY <1>1, <1>3 DEF Inv, Receiving, Held
  <1>8. handled' \subseteq Calls \X Services
    BY <1>1, <1>3 DEF Typed
  <1>9. Typed'
    BY <1>1, <1>3, <1>5, <1>6, <1>8 DEF Typed, registry
  <1>10. Equipped'
    BY <1>1, <1>3, <1>5 DEF Equipped, registry
  <1>11. Held'
    <2>1. ASSUME NEW d \in Calls, phase'[d] = "held"
          PROVE  \E u \in Services : receiver'[u].pc = "call" /\ receiver'[u].call = d
      <3>1. d # c /\ phase[d] = "held"
        BY <1>6, <2>1
      <3>2. PICK u \in Services : receiver[u].pc = "call" /\ receiver[u].call = d
        BY <1>1, <3>1 DEF Held
      <3>3. receiver'[u] = receiver[u]
        BY <1>3, <1>5, <3>1, <3>2
      <3> QED BY <3>2, <3>3
    <2>2. \A u \in Services : receiver'[u].pc = "call" => receiver'[u] = receiver[u]
      BY <1>5
    <2> QED BY <1>1, <2>1, <2>2 DEF Held
  <1>12. Posted'
    BY <1>1, <1>3, <1>6, <1>7 DEF Inv, Posted, Typed
  <1>13. ASSUME NEW u \in Services PROVE Receiving(u)'
    <2>1. CASE u = s
      BY <1>5, <2>1 DEF Receiving
    <2>2. CASE u # s
      <3>1. receiver'[u] = receiver[u] /\ Receiving(u)
        BY <1>5, <2>2 DEF Inv
      <3>2. receiver[u].pc = "call" => receiver[u].call # c
        BY <1>7, <2>2
      <3> QED BY <1>6, <3>1, <3>2 DEF Receiving
    <2> QED BY <2>1, <2>2
  <1>14. ASSUME NEW d \in Calls PROVE Sending(d)'
    BY <1>3, <1>6, <1>7 DEF Inv, Sending
  <1> QED BY <1>9, <1>10, <1>11, <1>12, <1>13, <1>14 DEF Inv

-----------------------------------------------------------------------------
(* Steps of callers: the registry and the receiving threads stay.           *)
LEMMA Calling ==
  ASSUME Inv, Typed', UNCHANGED << registry, receiver >>,
         \A s \in Services : pc'[s] = pc[s],
         \A d \in Calls : phase[d] = "held" <=> phase'[d] = "held",
         Posted', \A d \in Calls : Sending(d)'
  PROVE  Inv'
  <1>1. Equipped'
    BY DEF Inv, Equipped, registry
  <1>2. Held'
    BY DEF Inv, Held
  <1>3. \A s \in Services : Receiving(s)'
    BY DEF Inv, Receiving
  <1> QED BY <1>1, <1>2, <1>3 DEF Inv

LEMMA CallFacts == \A c \in Calls : c \in Tasks /\ c \notin Services
  BY CallAssumption DEF CallAssumption, Tasks

LEMMA InvUnsent ==
  ASSUME Inv, NEW c \in Calls, NewProxy(c) \/ SendNothing(c) \/ ConnectFails(c)
  PROVE  Inv'
  <1>1. Typed /\ c \in Tasks /\ c \notin Services
    BY CallFacts DEF Inv
  <1>2. PICK to \in {"create", "done"} : Goto(c, to)
    BY DEF NewProxy, SendNothing, ConnectFails
  <1>3. /\ pc' \in [Tasks -> Steps] /\ pc'[c] = to
        /\ \A y \in Tasks \ {c} : pc'[y] = pc[y]
    BY <1>1, <1>2, Moved DEF Steps
  <1>4. /\ pc[c] \in {"start", "get"}
        /\ UNCHANGED << hashmap, puts, registry, theIServer_, receiver, wire, handled >>
    BY DEF NewProxy, Begins, SendNothing, ConnectFails, Sends
  <1>5. Typed'
    BY <1>1, <1>3, <1>4 DEF Typed, registry, wire
  <1>6. Posted' /\ \A d \in Calls : phase[d] = "held" <=> phase'[d] = "held"
    BY <1>4 DEF Inv, Posted, wire
  <1>7. ASSUME NEW d \in Calls PROVE Sending(d)'
    BY <1>3, <1>4, CallFacts DEF Inv, Sending, wire
  <1>8. \A s \in Services : pc'[s] = pc[s]
    BY <1>1, <1>3 DEF Tasks
  <1> QED BY <1>4, <1>5, <1>6, <1>7, <1>8, Calling

LEMMA InvPost ==
  ASSUME Inv, NEW c \in Calls, Connect(c) \/ SendDatagram(c)
  PROVE  Inv'
  <1>1. Typed /\ c \in Tasks /\ c \notin Services
    BY CallFacts DEF Inv
  <1>2. PICK to \in {"write", "done"} :
            /\ Goto(c, to)
            /\ \/ to = "write" /\ Post(c, "open")
               \/ to = "done" /\ (Post(c, "sent") \/ UNCHANGED wire)
    BY DEF Connect, SendDatagram
  <1>3. /\ pc' \in [Tasks -> Steps] /\ pc'[c] = to
        /\ \A y \in Tasks \ {c} : pc'[y] = pc[y]
    BY <1>1, <1>2, Moved DEF Steps
  <1>4. /\ pc[c] = "get" /\ phase[c] = "unsent"
        /\ UNCHANGED << hashmap, puts, registry, theIServer_, receiver, handled >>
    BY DEF Connect, SendDatagram, Sends, Inv, Sending
  <1>5. \A s \in Services : pc'[s] = pc[s]
    BY <1>1, <1>3 DEF Tasks
  <1>6. CASE UNCHANGED wire
    <2>2. to = "done"
      BY <1>1, <1>2, <1>4, <1>6, Left DEF wire, Post, Phases
    <2>3. Typed'
      BY <1>1, <1>3, <1>4, <1>6 DEF Typed, registry, wire
    <2>4. Posted' /\ \A d \in Calls : phase[d] = "held" <=> phase'[d] = "held"
      BY <1>6 DEF Inv, Posted, wire
    <2>5. ASSUME NEW d \in Calls PROVE Sending(d)'
      BY <1>3, <1>4, <1>6, <2>2, CallFacts DEF Inv, Sending, wire
    <2> QED BY <1>4, <1>5, <2>3, <2>4, <2>5, Calling
  <1>7. ASSUME NEW as \in {"open", "sent"}, Post(c, as), (as = "open") <=> (to = "write")
        PROVE  Inv'
    <2>1. /\ phase' \in [Calls -> Phases] /\ phase'[c] = as
          /\ \A d \in Calls \ {c} : phase'[d] = phase[d]
      BY <1>1, <1>7, Left DEF Post, Phases
    <2>2. posted' = Append(posted, c) /\ posted \in Seq(Calls)
      BY <1>1, <1>7 DEF Post, Typed
    <2>3. /\ posted' \in Seq(Calls) /\ Len(posted') = Len(posted) + 1 /\ Len(posted) \in Nat
          /\ posted'[Len(posted) + 1] = c
          /\ \A i \in 1 .. Len(posted) : posted'[i] = posted[i]
      BY <2>2
    <2>4. Typed'
      BY <1>1, <1>3, <1>4, <2>1, <2>3 DEF Typed, registry
    <2>5. Posted'
      <3>1. ASSUME NEW i \in DOMAIN posted' PROVE phase'[posted'[i]] # "unsent"
        <4>1. CASE i = Len(posted) + 1
          BY <1>7, <2>1, <2>3, <4>1
        <4>2. CASE i # Len(posted) + 1
          <5>1. i \in DOMAIN posted /\ posted'[i] = posted[i] /\ posted[i] \in Calls
            BY <2>2, <2>3, <3>1, <4>2
          <5> QED BY <1>7, <2>1, <5>1 DEF Inv, Posted
        <4> QED BY <4>1, <4>2
      <3>2. ASSUME NEW d \in Calls, phase'[d] # "unsent" PROVE \E i \in DOMAIN posted' : posted'[i] = d
        <4>1. CASE d = c
          BY <2>3, <4>1
        <4>2. CASE d # c
          <5>1. PICK i \in DOMAIN posted : posted[i] = d
            BY <2>1, <3>2, <4>2 DEF Inv, Posted
          <5> QED BY <2>2, <2>3, <5>1
        <4> QED BY <4>1, <4>2
      <3> QED BY <3>1, <3>2 DEF Posted
    <2>6. \A d \in Calls : phase[d] = "held" <=> phase'[d] = "held"
      BY <1>4, <1>7, <2>1
    <2>7. ASSUME NEW d \in Calls PROVE Sending(d)'
      BY <1>2, <1>3, <1>4, <1>7, <2>1, CallFacts DEF Inv, Sending
    <2> QED BY <1>4, <1>5, <2>4, <2>5, <2>6, <2>7, Calling
  <1> QED BY <1>2, <1>6, <1>7

LEMMA InvWrite == ASSUME Inv, NEW c \in Calls, Write(c) \/ WriteFails(c) PROVE Inv'
  <1>1. Typed /\ c \in Tasks /\ c \notin Services
    BY CallFacts DEF Inv
  <1>2. /\ pc[c] = "write" /\ phase[c] = "open"
        /\ UNCHANGED << hashmap, puts, registry, theIServer_, receiver, posted, handled >>
    BY DEF Write, WriteFails, Inv, Sending
  <1>3. /\ pc' \in [Tasks -> Steps] /\ pc'[c] = "done"
        /\ \A y \in Tasks \ {c} : pc'[y] = pc[y]
    BY <1>1, Moved DEF Steps, Write, WriteFails
  <1>4. /\ phase' \in [Calls -> Phases]
        /\ phase'[c] = "sent" \/ (phase'[c] = "abandoned" /\ c.breaks)
        /\ \A d \in Calls \ {c} : phase'[d] = phase[d]
    BY <1>1, Left DEF Write, WriteFails, Phases
  <1>5. Typed'
    BY <1>1, <1>2, <1>3, <1>4 DEF Typed, registry
  <1>6. Posted'
    BY <1>1, <1>2, <1>4 DEF Inv, Posted, Typed
  <1>7. ASSUME NEW d \in Calls PROVE Sending(d)'
    BY <1>2, <1>3, <1>4, CallFacts DEF Inv, Sending
  <1>8. \A s \in Services : pc'[s] = pc[s]
    BY <1>1, <1>3 DEF Tasks
  <1>9. \A d \in Calls : phase[d] = "held" <=> phase'[d] = "held"
    BY <1>2, <1>4
  <1> QED BY <1>2, <1>5, <1>6, <1>7, <1>8, <1>9, Calling

LEMMA InvCollected == ASSUME Inv, NEW c \in Calls, Collected(c) PROVE Inv'
  <1>1. Typed /\ phase[c] = "abandoned"
        /\ UNCHANGED << pc, hashmap, puts, registry, theIServer_, receiver, posted, handled >>
    BY DEF Collected, Inv
  <1>2. /\ phase' \in [Calls -> Phases] /\ phase'[c] = "closed"
        /\ \A d \in Calls \ {c} : phase'[d] = phase[d]
    BY <1>1, Left DEF Collected, Phases
  <1>3. Typed'
    BY <1>1, <1>2 DEF Typed, registry
  <1>4. Posted'
    BY <1>1, <1>2 DEF Inv, Posted, Typed
  <1>5. \A d \in Calls : Sending(d)'
    BY <1>1, <1>2 DEF Inv, Sending
  <1>6. \A d \in Calls : phase[d] = "held" <=> phase'[d] = "held"
    BY <1>1, <1>2
  <1> QED BY <1>1, <1>3, <1>4, <1>5, <1>6, Calling

LEMMA InvKilled == ASSUME Inv, NEW c \in Calls, Killed(c) PROVE Inv'
  <1>1. Typed /\ Posted
    BY DEF Inv
  <1>2. UNCHANGED << hashmap, puts, registry, theIServer_, receiver, posted, handled >>
    BY DEF Killed
  <1>3. /\ pc' \in [Tasks -> Steps]
        /\ \A x \in Tasks : pc'[x] = IF Jvm(x) = Jvm(c) /\ ~Ended(x) THEN "killed" ELSE pc[x]
    BY <1>1 DEF Killed, Typed, Steps
  <1>4. /\ phase' \in [Calls -> Phases]
        /\ \A d \in Calls : phase'[d] =
              IF Jvm(d) = Jvm(c) /\ phase[d] \in {"open", "abandoned"} THEN "closed" ELSE phase[d]
    BY <1>1 DEF Killed, Typed, Phases
  <1>5. Typed'
    BY <1>1, <1>2, <1>3, <1>4 DEF Typed, registry
  <1>6. \A s \in Services : pc'[s] = pc[s]
    BY <1>3, Apart DEF Killed
  <1>7. ASSUME NEW d \in Calls
        PROVE  /\ Sending(d)' /\ (phase[d] = "held" <=> phase'[d] = "held")
               /\ phase[d] = "unsent" <=> phase'[d] = "unsent"
    <2>1. Sending(d) /\ d \in Tasks /\ pc[d] \in Steps
      BY <1>1, CallFacts DEF Inv, Typed
    <2> QED BY <1>3, <1>4, <2>1 DEF Sending, Ended
  <1>8. Posted'
    BY <1>1, <1>2, <1>7 DEF Posted, Typed
  <1> QED BY <1>2, <1>5, <1>6, <1>7, <1>8, Calling

LEMMA InvStep == Inv /\ [Next]_vars => Inv'
  <1> SUFFICES ASSUME Inv, [Next]_vars PROVE Inv'
    OBVIOUS
  <1>1. ASSUME NEW s \in Services, Registration(s) PROVE Inv'
    BY <1>1, InvRegister, InvCreate, InvStart, Apart DEF Registration
  <1>2. ASSUME NEW s \in Services, Reception(s) PROVE Inv'
    BY <1>2, InvStart, InvInvoke, InvReceive DEF Reception
  <1>3. ASSUME NEW c \in Calls, Call(c) PROVE Inv'
    BY <1>3, InvUnsent, InvCreate, InvPost, InvWrite, CallFacts DEF Call
  <1>4. ASSUME NEW c \in Calls, Collected(c) \/ Killed(c) PROVE Inv'
    BY <1>4, InvCollected, InvKilled
  <1>5. ASSUME UNCHANGED vars PROVE Inv'
    BY <1>5 DEF vars, registry, wire, Inv, Typed, Equipped, Held, Posted, Receiving,
       Sending
  <1> QED BY <1>1, <1>2, <1>3, <1>4, <1>5 DEF Next

(* The variables of a call keep their types for every program, and every    *)
(* call held is in the hands of one receiving thread.                       *)
THEOREM TypeCorrect == Spec => []TypeOK
  BY InitInv, InvStep, InvTypeOK, PTL DEF Spec

-----------------------------------------------------------------------------
(* The tasks of a thread are in an order.                                   *)
LEMMA EarlierFacts ==
  /\ \A x, y \in Tasks : ThreadOf[x] = ThreadOf[y] /\ x # y => x \in Earlier[y] \/ y \in Earlier[x]
  /\ \A y \in Tasks : \A x \in Earlier[y] : x \in Tasks /\ ThreadOf[x] = ThreadOf[y]
  <1>1. ASSUME NEW x \in Tasks
        PROVE  /\ Program[ThreadOf[x]] \in Seq(Tasks)
               /\ \E j \in DOMAIN Program[ThreadOf[x]] : Program[ThreadOf[x]][j] = x
    BY TaskFacts, CallAssumption DEF CallAssumption, Contains
  <1> DEFINE At(x) == CHOOSE j \in DOMAIN Program[ThreadOf[x]] : Program[ThreadOf[x]][j] = x
  <1>2. \A x \in Tasks : At(x) \in DOMAIN Program[ThreadOf[x]] /\ Program[ThreadOf[x]][At(x)] = x
    BY <1>1
  <1>3. \A x \in Tasks : Earlier[x] =
            {Program[ThreadOf[x]][i] : i \in {k \in DOMAIN Program[ThreadOf[x]] : k < At(x)}}
    BY DEF Earlier
  <1> HIDE DEF At
  <1>4. ASSUME NEW x \in Tasks, NEW y \in Tasks, ThreadOf[x] = ThreadOf[y], x # y
        PROVE  x \in Earlier[y] \/ y \in Earlier[x]
    <2>1. At(x) # At(y) /\ At(x) \in Nat /\ At(y) \in Nat
      BY <1>1, <1>2, <1>4
    <2>2. At(x) < At(y) \/ At(y) < At(x)
      BY <2>1
    <2> QED BY <1>2, <1>3, <1>4, <2>2
  <1>5. ASSUME NEW y \in Tasks, NEW x \in Earlier[y]
        PROVE  x \in Tasks /\ ThreadOf[x] = ThreadOf[y]
    <2>1. PICK i \in DOMAIN Program[ThreadOf[y]] : x = Program[ThreadOf[y]][i]
      BY <1>3, <1>5
    <2>2. x \in Tasks /\ Contains(Program[ThreadOf[y]], x)
      BY <1>1, <2>1 DEF Contains
    <2> QED BY <2>2, TaskFacts
  <1> QED BY <1>4, <1>5

(* The services of a proxy are registered by one thread.                    *)
OneRegistrar ==
    \A s, u \in Services : ProxyOf[s] = ProxyOf[u] => ThreadOf[s] = ThreadOf[u]

Sequenced ==
    \A x, y \in Tasks : x \in Earlier[y] /\ pc[y] # "start" => Ended(x)

(* The first registration of a proxy starts its only thread.                *)
Single ==
    /\ \A s \in Services : receiver[s].pc # "none" => Is_Start[ProxyOf[s]]
    /\ \A s \in Services :
          pc[s] \in {"new", "init", "create", "put", "get"} => ~Is_Start[ProxyOf[s]]
    /\ \A s, u \in Services :
          ProxyOf[s] = ProxyOf[u] /\ receiver[s].pc # "none" /\ receiver[u].pc # "none" => s = u

Offered(s) == pc[s] \notin {"start", "new", "add"}

(* A RecDataCall is of one proxy, and so are the objects in its box; the    *)
(* field a thread is about to read again has the object it looked up.       *)
Own ==
    /\ \A q \in Proxies : recClient[q] # None => ProxyOf[recClient[q]] = q
    /\ \A q \in Proxies : calldata[q] # None => ProxyOf[calldata[q]] = q
    /\ \A r \in Services : \A n \in DOMAIN serverBox[r] :
          LET o == serverBox[r][n]
          IN  NameOf[o] = n /\ ProxyOf[o] = ProxyOf[r] /\ Offered(o)
    /\ \A s \in Services : receiver[s].pc = "call" =>
          LET o == theIServer_[receiver[s].to]
          IN  /\ ProxyOf[receiver[s].to] = ProxyOf[s]
              /\ o # None /\ Offered(o) /\ Addressed(receiver[s].call, o)

(* Before a call in a thread's hands no other was connected that waits.     *)
Ordered ==
    /\ \A i, j \in DOMAIN posted : posted[i] = posted[j] => i = j
    /\ \A s \in Services : receiver[s].pc = "call" /\ TypeOf[ProxyOf[s]] = "tcp" =>
          \A i, j \in DOMAIN posted :
              i < j /\ posted[j] = receiver[s].call => ~Waiting(posted[i], ProxyOf[s])

OneInv == Inv /\ Sequenced /\ Single /\ Own /\ StaysUp /\ Ordered

-----------------------------------------------------------------------------
LEMMA InitOneInv == Init => OneInv
  <1> SUFFICES ASSUME Init PROVE OneInv
    OBVIOUS
  <1>1. Sequenced /\ Single /\ Own
    BY Apart DEF Init, Sequenced, Single, Own, NoThread, Tasks
  <1>2. StaysUp /\ Ordered
    BY DEF Init, StaysUp, Ordered, NoThread
  <1> QED BY <1>1, <1>2, InitInv DEF OneInv

(* A step leaves the tasks, moves one of them on, or kills some.            *)
Moves(x, to) ==
    /\ Goto(x, to) /\ ~Ended(x)
    /\ pc[x] = "start" => Begins(x)
    /\ to \in {"new", "add"} => pc[x] = "start"

LEMMA TaskMoves ==
  ASSUME Inv, [Next]_vars
  PROVE  \/ UNCHANGED pc
         \/ \E x \in Tasks, to \in Steps \ {"start"} : Moves(x, to)
         \/ \E c \in Calls : Killed(c)
  <1> USE DEF Collected
  <1>1. ASSUME NEW x \in Tasks, Create(x)
        PROVE  \E to \in Steps \ {"start"} : Moves(x, to)
    BY <1>1 DEF Create, CheckSize, PutTransport, Moves, Ended, Steps
  <1>2. ASSUME NEW s \in Services, Registration(s)
        PROVE  \E to \in Steps \ {"start"} : Moves(s, to)
    <2>1. CASE CheckStart(s)
      <3>1. pc[s] = "start" /\ Begins(s) /\ \E to \in {"add", "new"} : Goto(s, to)
        BY <2>1 DEF CheckStart, Begins
      <3> QED BY <3>1 DEF Moves, Ended, Steps
    <2>2. CASE AddServer(s) \/ NewRecDataCall(s) \/ InitServer(s) \/ StartReceiver(s)
      BY <2>2 DEF AddServer, NewRecDataCall, InitServer, StartReceiver, Moves, Ended,
         Steps
    <2> QED BY <1>1, <1>2, <2>1, <2>2, Apart DEF Registration
  <1>3. ASSUME NEW s \in Services, Reception(s) PROVE UNCHANGED pc
    BY <1>3 DEF Reception, Bind, Invoke, Return, Receive, Arrives
  <1>4. ASSUME NEW c \in Calls, Call(c)
        PROVE  \E to \in Steps \ {"start"} : Moves(c, to)
    <2>1. CASE NewProxy(c)
      BY <2>1 DEF NewProxy, Begins, Moves, Ended, Steps
    <2>2. CASE \/ SendNothing(c) \/ Connect(c) \/ ConnectFails(c)
               \/ Write(c) \/ WriteFails(c) \/ SendDatagram(c)
      BY <2>2 DEF SendNothing, Connect, ConnectFails, Write, WriteFails,
         SendDatagram, Sends, Moves, Ended, Steps
    <2> QED BY <1>1, <1>4, <2>1, <2>2, CallFacts DEF Call
  <1> QED BY <1>2, <1>3, <1>4, Apart, CallFacts DEF Next, vars

(* What a step does to the tasks.                                           *)
LEMMA TaskStep ==
  ASSUME Inv, Sequenced, [Next]_vars
  PROVE  /\ Sequenced'
         /\ \A s \in Services : Offered(s) => Offered(s)'
         /\ \A c \in Calls : Harmful(c) => Harmful(c)'
  <1>1. CASE UNCHANGED pc
    BY <1>1 DEF Sequenced, Offered, Harmful, Ended
  <1>2. CASE \E x \in Tasks, to \in Steps \ {"start"} : Moves(x, to)
    <2>1. PICK x \in Tasks, to \in Steps \ {"start"} : Moves(x, to)
      BY <1>2
    <2>2. pc'[x] = to /\ \A y \in Tasks \ {x} : pc'[y] = pc[y]
      BY <2>1, Moved DEF Inv, Moves
    <2>3. \A y \in Tasks : Ended(y) => y # x /\ pc'[y] = pc[y]
      BY <2>1, <2>2 DEF Moves
    <2>4. \A y \in Tasks : pc'[y] # "start" => pc[y] # "start" \/ Begins(y)
      BY <2>1, <2>2 DEF Moves
    <2>5. Sequenced'
      <3> SUFFICES ASSUME NEW y \in Tasks, NEW z \in Earlier[y], pc'[y] # "start"
                   PROVE  Ended(z)'
        BY DEF Sequenced
      <3>1. z \in Tasks /\ Ended(z)
        BY <2>4, EarlierFacts DEF Sequenced, Begins
      <3> QED BY <2>3, <3>1 DEF Ended
    <2>6. ASSUME NEW s \in Services, Offered(s) PROVE Offered(s)'
      BY <2>1, <2>2, <2>6, Apart DEF Offered, Moves
    <2>7. ASSUME NEW c \in Calls, Harmful(c) PROVE Harmful(c)'
      BY <2>3, <2>7, CallFacts DEF Harmful, Ended
    <2> QED BY <2>5, <2>6, <2>7
  <1>3. CASE \E c \in Calls : Killed(c)
    <2>1. PICK c \in Calls : Killed(c)
      BY <1>3
    <2>2. /\ \A s \in Services : Jvm(s) # Jvm(c)
          /\ \A x \in Tasks : pc'[x] = IF Jvm(x) = Jvm(c) /\ ~Ended(x) THEN "killed" ELSE pc[x]
      BY <2>1 DEF Killed
    <2>3. Sequenced'
      <3> SUFFICES ASSUME NEW y \in Tasks, NEW z \in Earlier[y], pc'[y] # "start"
                   PROVE  Ended(z)'
        BY DEF Sequenced
      <3>1. z \in Tasks /\ Jvm(z) = Jvm(y)
        BY EarlierFacts DEF Jvm
      <3>2. Ended(z) \/ Jvm(y) = Jvm(c)
        BY <2>2, <3>1 DEF Sequenced
      <3> QED BY <2>2, <3>1, <3>2 DEF Ended
    <2>4. \A s \in Services : Offered(s) => Offered(s)'
      BY <2>2, Apart DEF Offered
    <2>5. \A d \in Calls : Harmful(d) => Harmful(d)'
      BY <2>2, CallFacts DEF Harmful, Ended
    <2> QED BY <2>3, <2>4, <2>5
  <1> QED BY <1>1, <1>2, <1>3, TaskMoves

(* Two registrations of one proxy are not under way at once.                *)
LEMMA Alone ==
  ASSUME OneRegistrar, Inv, Sequenced, NEW s \in Services, NEW u \in Services,
         ProxyOf[s] = ProxyOf[u], pc[s] \notin {"start", "done"}, pc[u] \notin {"start", "done"}
  PROVE  s = u
  <1>1. s \in Tasks /\ u \in Tasks /\ ~Ended(s) /\ ~Ended(u)
    BY Apart DEF Inv, Equipped, Ended
  <1> QED BY <1>1, EarlierFacts DEF OneRegistrar, Sequenced

-----------------------------------------------------------------------------
(* What each action of the receiving threads does.                          *)
LEMMA ReceiveFacts ==
  ASSUME Inv, NEW s \in Services, NEW c \in Calls, Receive(s, c)
  PROVE  LET r == calldata[ProxyOf[s]]
         IN  /\ receiver[s].pc = "receive" /\ c \in Readable(ProxyOf[s])
             /\ c.to = ProxyOf[s] /\ phase[c] \in {"sent", "closed"}
             /\ UNCHANGED << pc, hashmap, puts, registry, posted, handled >>
             /\ \A d \in Calls \ {c} : phase'[d] = phase[d]
             /\ \A u \in Services \ {s} : receiver'[u] = receiver[u]
             /\ r \in Services
             /\ \A u \in Services \ {r} : theIServer_'[u] = theIServer_[u]
             /\ \/ /\ phase'[c] = "lost" /\ receiver'[s].pc = "receive"
                \/ /\ phase'[c] = "lost" /\ receiver'[s].pc = "dead" /\ Broken(c)
                \/ /\ phase'[c] = "held" /\ receiver'[s].pc = "call"
                   /\ receiver'[s].call = c /\ receiver'[s].to = r
                   /\ c.name \in DOMAIN serverBox[r]
                   /\ theIServer_'[r] = serverBox[r][c.name]
  <1> DEFINE r == calldata[ProxyOf[s]]
             o == Named(r, c.name)
  <1>1. Typed /\ Equipped /\ receiver[s].pc = "receive" /\ c \in Readable(ProxyOf[s])
        /\ UNCHANGED << pc, hashmap, puts, registry, posted, handled >>
        /\ ProxyOf[s] \in Proxies /\ None \notin Services
    BY Apart, TaskFacts DEF Inv, Receive, Arrives
  <1>2. c.to = ProxyOf[s] /\ phase[c] \in {"sent", "closed"}
    BY <1>1, ReadableFacts
  <1>3. r \in Services
    BY <1>1 DEF Typed, Equipped
  <1>4. o # None => c.name \in DOMAIN serverBox[r] /\ o = serverBox[r][c.name]
    BY DEF Named
  <1>5. \/ Die(s, c) /\ Broken(c)
        \/ Dispatch(s, c, r, o)
    BY DEF Receive
  <1> HIDE DEF r, o
  <1>6. CASE Die(s, c) /\ Broken(c)
    <2>1. /\ phase'[c] = "lost" /\ \A d \in Calls \ {c} : phase'[d] = phase[d]
      BY <1>1, <1>6, Left DEF Die, Phases
    <2>2. receiver'[s].pc = "dead" /\ \A u \in Services \ {s} : receiver'[u] = receiver[u]
      BY <1>1, <1>6, ReceiverMoves DEF Die
    <2> QED BY <1>1, <1>2, <1>3, <1>6, <2>1, <2>2 DEF Die, r
  <1>7. CASE Dispatch(s, c, r, o)
    <2>1. theIServer_'[r] = o /\ \A u \in Services \ {r} : theIServer_'[u] = theIServer_[u]
      BY <1>1, <1>3, <1>7 DEF Dispatch, Typed
    <2>2. CASE o = None
      <3>1. /\ phase'[c] = "lost" /\ \A d \in Calls \ {c} : phase'[d] = phase[d]
            /\ UNCHANGED receiver
        BY <1>1, <1>7, <2>2, Left DEF Dispatch, Phases
      <3> QED BY <1>1, <1>2, <1>3, <2>1, <3>1 DEF r
    <2>3. CASE o # None
      <3>1. /\ Leave(c, "held")
            /\ receiver' = [receiver EXCEPT ![s] = [pc |-> "call", call |-> c, to |-> r]]
        BY <1>7, <2>3 DEF Dispatch
      <3>2. phase'[c] = "held" /\ \A d \in Calls \ {c} : phase'[d] = phase[d]
        BY <1>1, <3>1, Left DEF Phases
      <3>3. /\ receiver'[s].pc = "call" /\ receiver'[s].call = c /\ receiver'[s].to = r
            /\ \A u \in Services \ {s} : receiver'[u] = receiver[u]
        <4>1. Typed /\ receiver' = [receiver EXCEPT ![s] = [pc |-> "call", call |-> c, to |-> r]]
          BY <1>1, <3>1
        <4> QED BY <4>1, ReceiverSet
      <3>4. c.name \in DOMAIN serverBox[r] /\ theIServer_'[r] = serverBox[r][c.name]
        BY <1>4, <2>1, <2>3
      <3> QED BY <1>1, <1>2, <1>3, <2>1, <3>2, <3>3, <3>4 DEF r
    <2> QED BY <2>2, <2>3
  <1> QED BY <1>5, <1>6, <1>7

LEMMA InvokeFacts ==
  ASSUME Inv, NEW s \in Services, Invoke(s)
  PROVE  LET c == receiver[s].call
             o == theIServer_[receiver[s].to]
         IN  /\ receiver[s].pc = "call" /\ c \in Calls /\ phase[c] = "held"
             /\ UNCHANGED << pc, hashmap, puts, registry, theIServer_, posted >>
             /\ \A d \in Calls \ {c} : phase'[d] = phase[d]
             /\ \A u \in Services \ {s} : receiver'[u] = receiver[u]
             /\ phase'[c] = IF o = None THEN "lost" ELSE "handled"
             /\ handled' = handled \cup (IF o = None THEN {} ELSE {<< c, o >>})
             /\ receiver'[s].pc = IF o = None \/ c.throws THEN "dead" ELSE "receive"
  <1> DEFINE c == receiver[s].call
             o == theIServer_[receiver[s].to]
             p == IF o = None \/ c.throws THEN "dead" ELSE "receive"
  <1>1. Return(s, c, o, "receive") /\ Leave(c, IF o = None THEN "lost" ELSE "handled")
    BY DEF Invoke, Return
  <1>2. Typed /\ receiver[s].pc = "call" /\ c \in Calls /\ phase[c] = "held"
    BY <1>1 DEF Inv, Return, Receiving
  <1>3. /\ phase'[c] = IF o = None THEN "lost" ELSE "handled"
        /\ \A d \in Calls \ {c} : phase'[d] = phase[d]
    BY <1>1, <1>2, Left DEF Phases
  <1>4. receiver' = [receiver EXCEPT ![s] = [pc |-> p, call |-> None, to |-> None]]
    <2>1. receiver' = [receiver EXCEPT ![s] = [NoThread EXCEPT !.pc = p]]
      BY <1>1 DEF Return
    <2>2. [NoThread EXCEPT !.pc = p] = [pc |-> p, call |-> None, to |-> None]
      BY DEF NoThread
    <2> QED BY <2>1, <2>2
  <1> HIDE DEF p
  <1>5. receiver'[s].pc = p /\ \A u \in Services \ {s} : receiver'[u] = receiver[u]
    BY <1>2, <1>4, ReceiverSet
  <1>6. /\ UNCHANGED << pc, hashmap, puts, registry, theIServer_, posted >>
        /\ handled' = handled \cup (IF o = None THEN {} ELSE {<< c, o >>})
    BY <1>1 DEF Return
  <1> HIDE DEF c, o
  <1> QED BY <1>2, <1>3, <1>5, <1>6 DEF c, o, p

(* A registration ends by starting its own thread, if it starts one.        *)
LEMMA RegistrationFacts ==
  ASSUME Inv, NEW s \in Services, Registration(s)
  PROVE  /\ UNCHANGED << theIServer_, wire, handled >>
         /\ \A u \in Services \ {s} : receiver'[u] = receiver[u] /\ pc'[u] = pc[u]
         /\ \/ UNCHANGED << receiver, Is_Start >>
            \/ /\ pc[s] = "get" /\ pc'[s] = "done" /\ receiver[s].pc = "none"
               /\ receiver'[s].pc \in {"none", "bind"}
               /\ Is_Start' = [Is_Start EXCEPT ![ProxyOf[s]] = TRUE]
  <1>1. Typed /\ Equipped /\ s \in Tasks /\ \A u \in Services : u \in Tasks
    BY Apart DEF Inv
  <1>2. PICK to \in Steps : Goto(s, to)
    BY DEF Registration, Create, CheckStart, AddServer, NewRecDataCall, InitServer,
           CheckSize, PutTransport, StartReceiver, Steps
  <1>3. pc'[s] = to /\ \A y \in Tasks \ {s} : pc'[y] = pc[y]
    BY <1>1, <1>2, Moved
  <1>4. CASE StartReceiver(s)
    <2>1. receiver[s].pc = "none" /\ pc'[s] = "done"
      BY <1>1, <1>4, Moved DEF StartReceiver, Equipped, Steps
    <2>2. receiver' = [receiver EXCEPT ![s].pc = "bind"] \/ UNCHANGED receiver
      BY <1>4 DEF StartReceiver
    <2>3. /\ receiver'[s].pc \in {"none", "bind"}
          /\ \A u \in Services \ {s} : receiver'[u] = receiver[u]
      BY <1>1, <2>1, <2>2, ReceiverMoves
    <2> QED BY <1>1, <1>3, <1>4, <2>1, <2>3 DEF StartReceiver
  <1>5. CASE ~StartReceiver(s)
    <2>1. UNCHANGED << receiver, Is_Start, theIServer_, wire, handled >>
      BY <1>5 DEF Registration, Create, CheckStart, AddServer, NewRecDataCall,
         InitServer,
                  CheckSize, PutTransport, registry
    <2> QED BY <1>1, <1>3, <2>1
  <1> QED BY <1>4, <1>5

LEMMA BindFacts ==
  ASSUME Inv, NEW s \in Services, Bind(s)
  PROVE  /\ UNCHANGED << pc, hashmap, puts, registry, theIServer_, wire, handled >>
         /\ receiver[s].pc = "bind" /\ receiver'[s].pc \in {"failing", "receive"}
         /\ receiver'[s].pc = "failing" => ProxyOf[s] \in Blocked \/ Bound(ProxyOf[s]) # {}
         /\ \A u \in Services \ {s} : receiver'[u] = receiver[u]
  <1>1. PICK p \in {"failing", "receive"} :
            /\ receiver' = [receiver EXCEPT ![s].pc = p]
            /\ p = "failing" => ProxyOf[s] \in Blocked \/ Bound(ProxyOf[s]) # {}
    BY DEF Bind
  <1> QED BY <1>1, ReceiverMoves DEF Bind, Inv

(* A caller's step gives at most one call to the network.                   *)
LEMMA CallerFacts ==
  ASSUME Inv, NEW c \in Calls, Call(c) \/ Collected(c) \/ Killed(c)
  PROVE  /\ UNCHANGED << registry, theIServer_, receiver, handled >>
         /\ \A u \in Services : pc'[u] = pc[u]
         /\ \/ UNCHANGED wire
            \/ UNCHANGED posted /\ \A d \in Calls :
                  \/ phase'[d] = phase[d]
                  \/ /\ phase[d] \in {"open", "abandoned"}
                     /\ phase'[d] \in {"sent", "abandoned", "closed"}
            \/ /\ phase[c] = "unsent" /\ phase'[c] \in {"open", "sent"}
               /\ posted' = Append(posted, c)
               /\ \A d \in Calls \ {c} : phase'[d] = phase[d]
  <1>1. Typed /\ c \in Tasks /\ c \notin Services /\ Sending(c) /\ \A u \in Services : u \in Tasks
    BY CallFacts, Apart DEF Inv
  <1>2. ASSUME NEW to \in Steps, Goto(c, to) PROVE \A u \in Services : pc'[u] = pc[u]
    BY <1>1, <1>2, Moved
  <1>3. CASE NewProxy(c) \/ SendNothing(c) \/ ConnectFails(c)
    <2>1. UNCHANGED << registry, theIServer_, receiver, wire, handled >>
      BY <1>3 DEF NewProxy, SendNothing, ConnectFails
    <2>2. Goto(c, "create") \/ Goto(c, "done")
      BY <1>3 DEF NewProxy, SendNothing, ConnectFails
    <2> QED BY <1>2, <2>1, <2>2 DEF Steps
  <1>4. CASE Create(c)
    <2>1. UNCHANGED << registry, theIServer_, receiver, wire, handled >>
      BY <1>4 DEF Create, CheckSize, PutTransport
    <2>2. Goto(c, "put") \/ Goto(c, "get")
      BY <1>4 DEF Create, CheckSize, PutTransport
    <2> QED BY <1>2, <2>1, <2>2 DEF Steps
  <1>5. CASE Connect(c) \/ SendDatagram(c)
    <2>1. UNCHANGED << registry, theIServer_, receiver, handled >>
      BY <1>5 DEF Connect, SendDatagram
    <2>2. Goto(c, "write") \/ Goto(c, "done")
      BY <1>5 DEF Connect, SendDatagram
    <2>3. phase[c] = "unsent"
      BY <1>1, <1>5 DEF Connect, SendDatagram, Sends, Sending
    <2>4. UNCHANGED wire \/ \E as \in {"open", "sent"} : Post(c, as)
      BY <1>5 DEF Connect, SendDatagram
    <2>5. ASSUME NEW as \in {"open", "sent"}, Post(c, as)
          PROVE  /\ phase'[c] \in {"open", "sent"} /\ posted' = Append(posted, c)
                 /\ \A d \in Calls \ {c} : phase'[d] = phase[d]
      BY <1>1, <2>5, Left DEF Post, Phases
    <2> QED BY <1>2, <2>1, <2>2, <2>3, <2>4, <2>5 DEF Steps
  <1>6. CASE Write(c) \/ WriteFails(c)
    <2>1. UNCHANGED << registry, theIServer_, receiver, posted, handled >> /\ Goto(c, "done")
      BY <1>6 DEF Write, WriteFails
    <2>2. phase[c] = "open"
      BY <1>1, <1>6 DEF Write, WriteFails, Sending
    <2>3. phase'[c] \in {"sent", "abandoned"} /\ \A d \in Calls \ {c} : phase'[d] = phase[d]
      BY <1>1, <1>6, Left DEF Write, WriteFails, Phases
    <2>4. \A u \in Services : pc'[u] = pc[u]
      BY <1>2, <2>1 DEF Steps
    <2> QED BY <2>1, <2>2, <2>3, <2>4
  <1>7. CASE Killed(c)
    <2>1. /\ UNCHANGED << registry, theIServer_, receiver, posted, handled >>
          /\ \A u \in Services : pc'[u] = pc[u]
      BY <1>1, <1>7 DEF Killed, Typed
    <2>2. \A d \in Calls :
              phase'[d] = IF Jvm(d) = Jvm(c) /\ phase[d] \in {"open", "abandoned"}
                          THEN "closed" ELSE phase[d]
      BY <1>1, <1>7 DEF Killed, Typed
    <2> QED BY <2>1, <2>2
  <1>8. CASE Collected(c)
    <2>1. /\ UNCHANGED << registry, theIServer_, receiver, posted, handled, pc >>
          /\ phase[c] = "abandoned"
      BY <1>8 DEF Collected
    <2>2. phase'[c] = "closed" /\ \A d \in Calls \ {c} : phase'[d] = phase[d]
      BY <1>1, <1>8, Left DEF Collected, Phases
    <2> QED BY <2>1, <2>2
  <1> QED BY <1>3, <1>4, <1>5, <1>6, <1>7, <1>8 DEF Call

-----------------------------------------------------------------------------
(* What the network and the calls go through in any step.                   *)
Over(c) == phase[c] \in {"held", "handled", "lost"}

LEMMA Onwards ==
  ASSUME Inv, [Next]_vars
  PROVE  /\ \A c \in Calls : Over(c) => Over(c)'
         /\ \A c \in Calls : phase[c] \in {"lost", "handled"} => phase'[c] = phase[c]
         /\ \/ UNCHANGED posted
            \/ \E c \in Calls : phase[c] = "unsent" /\ posted' = Append(posted, c)
  <1>1. ASSUME UNCHANGED wire
        PROVE  /\ \A c \in Calls : Over(c) => Over(c)'
               /\ \A c \in Calls : phase[c] \in {"lost", "handled"} => phase'[c] = phase[c]
               /\ UNCHANGED posted
    BY <1>1 DEF Over, wire
  <1>2. ASSUME NEW s \in Services, Registration(s) \/ Bind(s) PROVE UNCHANGED wire
    BY <1>2, RegistrationFacts, BindFacts
  <1>3. ASSUME NEW s \in Services, NEW c \in Calls, Receive(s, c)
        PROVE  /\ \A d \in Calls : Over(d) => Over(d)'
               /\ \A d \in Calls : phase[d] \in {"lost", "handled"} => phase'[d] = phase[d]
               /\ UNCHANGED posted
    <2>1. /\ UNCHANGED posted /\ \A d \in Calls \ {c} : phase'[d] = phase[d]
          /\ phase[c] \in {"sent", "closed"} /\ phase'[c] \in {"held", "lost"}
      BY <1>3, ReceiveFacts
    <2> QED BY <2>1 DEF Over
  <1>4. ASSUME NEW s \in Services, Invoke(s)
        PROVE  /\ \A d \in Calls : Over(d) => Over(d)'
               /\ \A d \in Calls : phase[d] \in {"lost", "handled"} => phase'[d] = phase[d]
               /\ UNCHANGED posted
    <2>1. PICK c \in Calls :
              /\ UNCHANGED posted /\ \A d \in Calls \ {c} : phase'[d] = phase[d]
              /\ phase[c] = "held" /\ phase'[c] \in {"handled", "lost"}
      BY <1>4, InvokeFacts
    <2> QED BY <2>1 DEF Over
  <1>5. ASSUME NEW c \in Calls, Call(c) \/ Collected(c) \/ Killed(c)
        PROVE  /\ \A d \in Calls : Over(d) => Over(d)'
               /\ \A d \in Calls : phase[d] \in {"lost", "handled"} => phase'[d] = phase[d]
               /\ \/ UNCHANGED posted
                  \/ phase[c] = "unsent" /\ posted' = Append(posted, c)
    BY <1>1, <1>5, CallerFacts DEF Over
  <1> QED BY <1>1, <1>2, <1>3, <1>4, <1>5 DEF Next, Reception, vars

(* A step that starts no call of a receiving thread, or starts it with what *)
(* could be read, keeps the order.                                          *)
LEMMA OrderedStep ==
  ASSUME Inv, Ordered, [Next]_vars,
         \A s \in Services : receiver'[s].pc = "call" =>
            \/ receiver'[s] = receiver[s]
            \/ UNCHANGED posted /\ receiver'[s].call \in Readable(ProxyOf[s])
  PROVE  Ordered'
  <1>1. posted \in Seq(Calls) /\ \A i \in DOMAIN posted : phase[posted[i]] # "unsent"
    BY DEF Inv, Typed, Posted
  <1>2. \/ UNCHANGED posted
        \/ \E c \in Calls : phase[c] = "unsent" /\ posted' = Append(posted, c)
    BY Onwards
  <1>3. \A i \in DOMAIN posted : i \in DOMAIN posted' /\ posted'[i] = posted[i]
    BY <1>1, <1>2
  <1>4. \A i \in DOMAIN posted' : i \notin DOMAIN posted =>
            /\ phase[posted'[i]] = "unsent"
            /\ \A j \in DOMAIN posted' : j # i => j \in DOMAIN posted /\ j < i
    BY <1>1, <1>2
  <1>5. ASSUME NEW i \in DOMAIN posted, NEW q, ~Waiting(posted[i], q)
        PROVE  ~Waiting(posted[i], q)'
    <2>1. posted[i] \in Calls /\ phase[posted[i]] \in Phases /\ phase[posted[i]] # "unsent"
      BY <1>1 DEF Inv, Typed
    <2>2. posted[i].to = q => Over(posted[i]) /\ Over(posted[i])'
      BY <1>5, <2>1, Onwards DEF Waiting, Over, Phases
    <2>3. posted'[i] = posted[i]
      BY <1>3
    <2> QED BY <1>5, <2>2, <2>3 DEF Waiting, Over
  <1>6. \A i, j \in DOMAIN posted' : posted'[i] = posted'[j] => i = j
    BY <1>1, <1>3, <1>4 DEF Ordered
  <1>7. ASSUME NEW s \in Services, receiver'[s].pc = "call", TypeOf[ProxyOf[s]] = "tcp",
               NEW i \in DOMAIN posted', NEW j \in DOMAIN posted',
               i < j, posted'[j] = receiver'[s].call
        PROVE  ~Waiting(posted[i], ProxyOf[s])'
    <2>1. CASE receiver'[s] = receiver[s]
      <3>1. phase[receiver[s].call] = "held"
        BY <1>7, <2>1 DEF Inv, Receiving
      <3>2. j \in DOMAIN posted
        BY <1>4, <1>7, <2>1, <3>1
      <3>3. i \in DOMAIN posted
        <4>1. posted' \in Seq(Calls)
          BY InvStep DEF Inv, Typed
        <4>2. i \in Nat /\ j \in Nat
          BY <1>7, <4>1
        <4> QED BY <1>4, <1>7, <3>2, <4>2
      <3>4. ~Waiting(posted[i], ProxyOf[s])
        BY <1>3, <1>7, <2>1, <3>2, <3>3 DEF Ordered
      <3> QED BY <1>5, <3>3, <3>4
    <2>2. CASE UNCHANGED posted /\ receiver'[s].call \in Readable(ProxyOf[s])
      <3>1. PICK k \in DOMAIN posted :
                /\ receiver'[s].call = posted[k]
                /\ \A l \in 1 .. k - 1 : ~Waiting(posted[l], ProxyOf[s])
        BY <1>7, <2>2 DEF Readable
      <3>2. k = j /\ i \in 1 .. k - 1
        BY <1>1, <1>7, <2>2, <3>1 DEF Ordered
      <3> QED BY <1>5, <2>2, <3>1, <3>2
    <2> QED BY <1>7, <2>1, <2>2
  <1> QED BY <1>6, <1>7 DEF Ordered

(* A step that ends a thread only by a harmful call that is over.           *)
LEMMA StaysUpStep ==
  ASSUME Inv, Sequenced, StaysUp, [Next]_vars,
         \A s \in Services : receiver'[s].pc = "dead" =>
            \/ receiver[s].pc = "dead"
            \/ \E c \in Calls :
                  c.to = ProxyOf[s] /\ Harmful(c) /\ phase'[c] \in {"lost", "handled"}
  PROVE  StaysUp'
  <1> SUFFICES ASSUME NEW s \in Services, receiver'[s].pc = "dead"
               PROVE  \E c \in Calls :
                        c.to = ProxyOf[s] /\ Harmful(c)' /\ phase'[c] \in {"lost", "handled"}
    BY DEF StaysUp
  <1>1. PICK c \in Calls :
            c.to = ProxyOf[s] /\ Harmful(c) /\ phase'[c] \in {"lost", "handled"}
    BY Onwards DEF StaysUp
  <1> QED BY <1>1, TaskStep

-----------------------------------------------------------------------------
(* Registrations and callers leave the fields of the threads that call.     *)
LEMMA OwnStays ==
  ASSUME Inv, Sequenced, Own, [Next]_vars, UNCHANGED << registry, theIServer_ >>,
         \A s \in Services : receiver'[s].pc = "call" => receiver'[s] = receiver[s]
  PROVE  Own'
  <1>1. /\ \A q \in Proxies : recClient'[q] # None => ProxyOf[recClient'[q]] = q
        /\ \A q \in Proxies : calldata'[q] # None => ProxyOf[calldata'[q]] = q
    BY DEF Own, registry
  <1>2. ASSUME NEW r \in Services, NEW n \in DOMAIN serverBox'[r]
        PROVE  (LET o == serverBox[r][n]
                IN  NameOf[o] = n /\ ProxyOf[o] = ProxyOf[r] /\ Offered(o))'
    <2>1. n \in DOMAIN serverBox[r] /\ serverBox'[r][n] = serverBox[r][n]
          /\ serverBox[r][n] \in Services
      BY <1>2 DEF registry, Inv, Typed
    <2> QED BY <2>1, TaskStep DEF Own, Offered
  <1>3. ASSUME NEW s \in Services, receiver'[s].pc = "call"
        PROVE  (LET o == theIServer_[receiver[s].to]
                IN  /\ ProxyOf[receiver[s].to] = ProxyOf[s]
                    /\ o # None /\ Offered(o) /\ Addressed(receiver[s].call, o))'
    <2>1. receiver'[s] = receiver[s] /\ receiver[s].to \in Services
      BY <1>3 DEF Inv, Receiving
    <2>2. theIServer_[receiver[s].to] # None => theIServer_[receiver[s].to] \in Services
      BY <2>1 DEF Inv, Typed
    <2> QED BY <1>3, <2>1, <2>2, TaskStep DEF Own, Offered, Addressed
  <1> QED BY <1>1, <1>2, <1>3 DEF Own

LEMMA SingleRegister ==
  ASSUME OneRegistrar, OneInv, NEW s \in Services, Registration(s), [Next]_vars
  PROVE  Single'
  <1>1. Inv /\ Typed /\ Equipped /\ Sequenced /\ Single /\ s \in Tasks /\ ProxyOf[s] \in Proxies
    BY Apart DEF OneInv, Inv
  <1>2. /\ \A u \in Services \ {s} : receiver'[u] = receiver[u] /\ pc'[u] = pc[u]
        /\ \/ UNCHANGED << receiver, Is_Start >>
           \/ /\ pc[s] = "get" /\ pc'[s] = "done" /\ receiver[s].pc = "none"
              /\ receiver'[s].pc \in {"none", "bind"}
              /\ Is_Start' = [Is_Start EXCEPT ![ProxyOf[s]] = TRUE]
    BY <1>1, RegistrationFacts
  <1>3. CASE UNCHANGED << receiver, Is_Start >>
    <2>1. ASSUME pc'[s] \in {"new", "init", "create", "put", "get"}
          PROVE  ~Is_Start[ProxyOf[s]]
      <3>1. CASE CheckStart(s)
        BY <1>1, <2>1, <3>1 DEF CheckStart, Goto, Typed
      <3>2. CASE NewRecDataCall(s) \/ InitServer(s) \/ Create(s)
        BY <1>1, <3>2 DEF NewRecDataCall, InitServer, Create, CheckSize,
           PutTransport, Single
      <3>3. CASE AddServer(s) \/ StartReceiver(s)
        BY <1>1, <2>1, <3>3 DEF AddServer, StartReceiver, Goto, Typed
      <3> QED BY <3>1, <3>2, <3>3 DEF Registration
    <2> QED BY <1>1, <1>2, <1>3, <2>1, Apart DEF Single
  <1>4. CASE /\ pc[s] = "get" /\ pc'[s] = "done" /\ receiver[s].pc = "none"
             /\ Is_Start' = [Is_Start EXCEPT ![ProxyOf[s]] = TRUE]
    <2>1. /\ Is_Start'[ProxyOf[s]]
          /\ \A q \in Proxies : q # ProxyOf[s] => Is_Start'[q] = Is_Start[q]
      BY <1>1, <1>4 DEF Typed
    <2>2. ASSUME NEW u \in Services, u # s, ProxyOf[u] = ProxyOf[s]
          PROVE  /\ pc'[u] \in {"start", "done"} \/ pc'[u] = "add"
                 /\ receiver'[u].pc = "none"
      <3>1. pc[u] \in {"start", "done"}
        BY <1>1, <1>4, <2>2, Alone
      <3>2. ~Is_Start[ProxyOf[s]]
        BY <1>1, <1>4 DEF Single
      <3>3. receiver[u].pc = "none"
        BY <1>1, <2>2, <3>2 DEF Single
      <3> QED BY <1>2, <2>2, <3>1, <3>3
    <2>3. \A u \in Services : receiver'[u].pc # "none" => Is_Start'[ProxyOf[u]]
      BY <1>1, <1>2, <2>1, Apart DEF Single
    <2>4. \A u \in Services :
              pc'[u] \in {"new", "init", "create", "put", "get"} => ~Is_Start'[ProxyOf[u]]
      <3> SUFFICES ASSUME NEW u \in Services, pc'[u] \in {"new", "init", "create", "put", "get"}
                   PROVE  ~Is_Start'[ProxyOf[u]]
        OBVIOUS
      <3>1. u # s /\ ProxyOf[u] # ProxyOf[s]
        BY <1>4, <2>2
      <3> QED BY <1>1, <1>2, <2>1, <3>1, Apart DEF Single
    <2>5. \A u, v \in Services :
              ProxyOf[u] = ProxyOf[v] /\ receiver'[u].pc # "none" /\ receiver'[v].pc # "none"
                => u = v
      <3> SUFFICES ASSUME NEW u \in Services, NEW v \in Services, ProxyOf[u] = ProxyOf[v],
                          receiver'[u].pc # "none", receiver'[v].pc # "none"
                   PROVE  u = v
        OBVIOUS
      <3>1. CASE u = s \/ v = s
        BY <2>2, <3>1
      <3>2. CASE u # s /\ v # s
        BY <1>1, <1>2, <3>2 DEF Single
      <3> QED BY <3>1, <3>2
    <2> QED BY <2>3, <2>4, <2>5 DEF Single
  <1> QED BY <1>2, <1>3, <1>4

LEMMA OwnRegister ==
  ASSUME OneInv, NEW s \in Services, Registration(s), [Next]_vars
  PROVE  Own'
  <1>1. Inv /\ Typed /\ Equipped /\ Sequenced /\ Own /\ s \in Tasks /\ ProxyOf[s] \in Proxies
        /\ None \notin Services
    BY Apart, TaskFacts DEF OneInv, Inv
  <1>2. /\ UNCHANGED theIServer_
        /\ \A u \in Services : receiver'[u].pc = "call" => receiver'[u] = receiver[u]
    BY <1>1, RegistrationFacts
  <1>3. /\ \A q \in Proxies : recClient'[q] # None => ProxyOf[recClient'[q]] = q
        /\ \A q \in Proxies : calldata'[q] # None => ProxyOf[calldata'[q]] = q
    <2>1. CASE NewRecDataCall(s)
      BY <1>1, <2>1 DEF NewRecDataCall, Own, Typed
    <2>2. CASE InitServer(s)
      BY <1>1, <2>2 DEF InitServer, Own, Typed
    <2>3. CASE CheckStart(s) \/ AddServer(s) \/ Create(s) \/ StartReceiver(s)
      BY <1>1, <2>3 DEF CheckStart, AddServer, Create, CheckSize, PutTransport,
         StartReceiver,
                        registry, Own
    <2> QED BY <2>1, <2>2, <2>3 DEF Registration
  <1>4. \A r \in Services : \A n \in DOMAIN serverBox'[r] :
            \/ /\ n = NameOf[s] /\ serverBox'[r][n] = s
               /\ ProxyOf[r] = ProxyOf[s] /\ Offered(s)'
            \/ n \in DOMAIN serverBox[r] /\ serverBox'[r][n] = serverBox[r][n]
    <2>1. CASE UNCHANGED serverBox
      BY <2>1
    <2>2. CASE AddServer(s)
      <3>1. Register(s, recClient[ProxyOf[s]]) /\ Offered(s)'
        BY <1>1, <2>2 DEF AddServer, Goto, Offered, Typed
      <3>2. recClient[ProxyOf[s]] \in Services => ProxyOf[recClient[ProxyOf[s]]] = ProxyOf[s]
        BY <1>1 DEF Own
      <3> QED BY <1>1, <3>1, <3>2, BoxTyped
    <2>3. CASE NewRecDataCall(s)
      <3>1. Register(s, s) /\ Offered(s)'
        BY <1>1, <2>3 DEF NewRecDataCall, Goto, Offered, Typed
      <3> QED BY <1>1, <3>1, BoxTyped
    <2> QED BY <2>1, <2>2, <2>3 DEF Registration, CheckStart, InitServer, Create, CheckSize,
                                    PutTransport, StartReceiver, registry
  <1>5. ASSUME NEW r \in Services, NEW n \in DOMAIN serverBox'[r]
        PROVE  (LET o == serverBox[r][n]
                IN  NameOf[o] = n /\ ProxyOf[o] = ProxyOf[r] /\ Offered(o))'
    <2>1. CASE n = NameOf[s] /\ serverBox'[r][n] = s /\ ProxyOf[r] = ProxyOf[s] /\ Offered(s)'
      BY <2>1 DEF Offered
    <2>2. CASE n \in DOMAIN serverBox[r] /\ serverBox'[r][n] = serverBox[r][n]
      <3>1. serverBox[r][n] \in Services
        BY <1>1, <2>2 DEF Typed
      <3> QED BY <1>1, <2>2, <3>1, TaskStep DEF Own, Offered
    <2> QED BY <1>4, <1>5, <2>1, <2>2
  <1>6. ASSUME NEW u \in Services, receiver'[u].pc = "call"
        PROVE  (LET o == theIServer_[receiver[u].to]
                IN  /\ ProxyOf[receiver[u].to] = ProxyOf[u]
                    /\ o # None /\ Offered(o) /\ Addressed(receiver[u].call, o))'
    <2>1. receiver'[u] = receiver[u] /\ receiver[u].to \in Services
      BY <1>1, <1>2, <1>6 DEF Inv, Receiving
    <2>2. theIServer_[receiver[u].to] # None => theIServer_[receiver[u].to] \in Services
      BY <1>1, <2>1 DEF Typed
    <2> QED BY <1>1, <1>2, <1>6, <2>1, <2>2, TaskStep DEF Own, Offered, Addressed
  <1> QED BY <1>3, <1>5, <1>6 DEF Own

(* A receiving thread alone sets the field it calls by.                     *)
LEMMA OwnReceive ==
  ASSUME OneInv, NEW s \in Services, NEW c \in Calls, Receive(s, c), [Next]_vars
  PROVE  Own'
  <1> DEFINE r == calldata[ProxyOf[s]]
  <1>1. Inv /\ Typed /\ Equipped /\ Sequenced /\ Single /\ Own /\ ProxyOf[s] \in Proxies
        /\ None \notin Services
    BY Apart, TaskFacts DEF OneInv, Inv
  <1>2. /\ receiver[s].pc = "receive" /\ c.to = ProxyOf[s] /\ UNCHANGED << pc, registry >>
        /\ \A u \in Services \ {s} : receiver'[u] = receiver[u]
        /\ r \in Services
        /\ \A u \in Services \ {r} : theIServer_'[u] = theIServer_[u]
        /\ receiver'[s].pc = "call" =>
              /\ receiver'[s].call = c /\ receiver'[s].to = r
              /\ c.name \in DOMAIN serverBox[r]
              /\ theIServer_'[r] = serverBox[r][c.name]
    BY <1>1, ReceiveFacts
  <1>3. ProxyOf[r] = ProxyOf[s]
    BY <1>1, <1>2 DEF Own
  <1> HIDE DEF r
  <1>4. ASSUME NEW u \in Services, receiver'[u].pc = "call"
        PROVE  (LET o == theIServer_[receiver[u].to]
                IN  /\ ProxyOf[receiver[u].to] = ProxyOf[u]
                    /\ o # None /\ Offered(o) /\ Addressed(receiver[u].call, o))'
    <2>1. CASE u = s
      <3>1. serverBox[r][c.name] \in Services
        BY <1>1, <1>2, <1>4, <2>1 DEF Typed
      <3>2. LET o == serverBox[r][c.name]
            IN  NameOf[o] = c.name /\ ProxyOf[o] = ProxyOf[r] /\ Offered(o)
        BY <1>1, <1>2, <1>4, <2>1 DEF Own
      <3> QED BY <1>1, <1>2, <1>3, <1>4, <2>1, <3>1, <3>2 DEF Addressed, Offered
    <2>2. CASE u # s
      <3>1. receiver'[u] = receiver[u] /\ receiver[u].to \in Services
            /\ ProxyOf[receiver[u].to] = ProxyOf[u]
        BY <1>1, <1>2, <1>4, <2>2 DEF Inv, Receiving, Own
      <3>2. ProxyOf[u] # ProxyOf[s]
        BY <1>1, <1>2, <1>4, <2>2, <3>1 DEF Single
      <3>3. theIServer_'[receiver[u].to] = theIServer_[receiver[u].to]
        BY <1>2, <1>3, <3>1, <3>2
      <3> QED BY <1>1, <1>2, <1>4, <3>1, <3>3 DEF Own, Offered, Addressed
    <2> QED BY <2>1, <2>2
  <1>5. ASSUME NEW u \in Services, NEW n \in DOMAIN serverBox[u]
        PROVE  (LET o == serverBox[u][n]
                IN  NameOf[o] = n /\ ProxyOf[o] = ProxyOf[u] /\ Offered(o))'
    BY <1>1, <1>2, <1>5 DEF Own, Offered, registry
  <1> QED BY <1>1, <1>2, <1>4, <1>5 DEF Own, registry

-----------------------------------------------------------------------------
LEMMA OneRegistration ==
  ASSUME OneRegistrar, OneInv, NEW s \in Services, Registration(s), [Next]_vars
  PROVE  OneInv'
  <1>1. Inv /\ Sequenced /\ StaysUp /\ Ordered
    BY DEF OneInv
  <1>2. \A u \in Services : receiver'[u].pc \in {"call", "dead"} => receiver'[u] = receiver[u]
    BY <1>1, RegistrationFacts
  <1>3. StaysUp' /\ Ordered'
    BY <1>1, <1>2, StaysUpStep, OrderedStep
  <1> QED BY <1>1, <1>3, InvStep, TaskStep, SingleRegister, OwnRegister DEF OneInv

LEMMA OneReception ==
  ASSUME OneInv, NEW s \in Services, Reception(s), [Next]_vars
  PROVE  OneInv'
  <1>1. Inv /\ Sequenced /\ Single /\ Own /\ StaysUp /\ Ordered
    BY DEF OneInv
  <1>2. UNCHANGED << pc, registry >> /\ receiver[s].pc # "none"
        /\ \A u \in Services \ {s} : receiver'[u] = receiver[u]
    BY <1>1, BindFacts, ReceiveFacts, InvokeFacts DEF Reception
  <1>3. Single'
    BY <1>1, <1>2 DEF Single, registry
  <1>4. Own'
    <2>1. CASE Bind(s)
      <3>1. /\ UNCHANGED << registry, theIServer_ >>
            /\ \A u \in Services : receiver'[u].pc = "call" => receiver'[u] = receiver[u]
        BY <1>1, <2>1, BindFacts
      <3> QED BY <1>1, <3>1, OwnStays
    <2>2. CASE Invoke(s)
      <3>1. /\ UNCHANGED << registry, theIServer_ >>
            /\ \A u \in Services : receiver'[u].pc = "call" => receiver'[u] = receiver[u]
        BY <1>1, <2>2, InvokeFacts
      <3> QED BY <1>1, <3>1, OwnStays
    <2> QED BY <2>1, <2>2, OwnReceive DEF Reception
  <1>5. StaysUp'
    <2>1. ASSUME receiver'[s].pc = "dead"
          PROVE  \E c \in Calls :
                   c.to = ProxyOf[s] /\ Harmful(c) /\ phase'[c] \in {"lost", "handled"}
      <3>1. CASE Bind(s)
        BY <1>1, <2>1, <3>1, BindFacts
      <3>2. CASE \E c \in Calls : Receive(s, c)
        <4>1. PICK c \in Calls : Receive(s, c)
          BY <3>2
        <4>2. c.to = ProxyOf[s] /\ phase'[c] = "lost" /\ Broken(c)
          BY <1>1, <2>1, <4>1, ReceiveFacts
        <4>3. Harmful(c)
          BY <1>1, <4>2 DEF Broken, Harmful, Inv, Sending
        <4> QED BY <4>2, <4>3
      <3>3. CASE Invoke(s)
        <4> DEFINE c == receiver[s].call
                   o == theIServer_[receiver[s].to]
        <4>1. /\ receiver[s].pc = "call" /\ c \in Calls /\ (o = None \/ c.throws)
              /\ phase'[c] \in {"lost", "handled"}
          BY <1>1, <2>1, <3>3, InvokeFacts
        <4>2. o # None /\ c.to = ProxyOf[s]
          BY <1>1, <4>1 DEF Own, Inv, Receiving
        <4> QED BY <4>1, <4>2 DEF Harmful
      <3> QED BY <3>1, <3>2, <3>3 DEF Reception
    <2> QED BY <1>1, <1>2, <2>1, StaysUpStep
  <1>6. Ordered'
    <2>1. ASSUME receiver'[s].pc = "call"
          PROVE  UNCHANGED posted /\ receiver'[s].call \in Readable(ProxyOf[s])
      BY <1>1, <2>1, BindFacts, ReceiveFacts, InvokeFacts DEF Reception
    <2> QED BY <1>1, <1>2, <2>1, OrderedStep
  <1> QED BY <1>1, <1>3, <1>4, <1>5, <1>6, InvStep, TaskStep DEF OneInv

LEMMA OneCalling ==
  ASSUME OneInv, NEW c \in Calls, Call(c) \/ Collected(c) \/ Killed(c), [Next]_vars
  PROVE  OneInv'
  <1>1. Inv /\ Sequenced /\ Single /\ Own /\ StaysUp /\ Ordered
    BY DEF OneInv
  <1>2. /\ UNCHANGED << registry, theIServer_, receiver >>
        /\ \A u \in Services : pc'[u] = pc[u]
    BY <1>1, CallerFacts
  <1>3. Single'
    BY <1>1, <1>2 DEF Single, registry
  <1>4. Own' /\ StaysUp' /\ Ordered'
    BY <1>1, <1>2, OwnStays, StaysUpStep, OrderedStep
  <1> QED BY <1>1, <1>3, <1>4, InvStep, TaskStep DEF OneInv

LEMMA OneInvStep == ASSUME OneRegistrar, OneInv, [Next]_vars PROVE OneInv'
  <1>1. ASSUME UNCHANGED vars PROVE OneInv'
    <2>1. UNCHANGED << pc, registry, theIServer_, receiver, wire >>
      BY <1>1 DEF vars
    <2>2. Single' /\ Own' /\ StaysUp' /\ Ordered'
      BY <2>1, OwnStays, StaysUpStep, OrderedStep DEF OneInv, Single, registry
    <2> QED BY <2>2, InvStep, TaskStep DEF OneInv
  <1> QED BY <1>1, OneRegistration, OneReception, OneCalling DEF Next

(* Where the services of a proxy are registered by one thread, whatever the *)
(* programs and the boxes, only a call that is cut, that its service        *)
(* refuses, whose write threw or whose caller was killed before writing     *)
(* ends a receiving thread (TCPProtocols.java:136-151).                     *)
THEOREM StaysUpSafe == ASSUME OneRegistrar PROVE Spec => []StaysUp
  <1>1. Init => OneInv
    BY InitOneInv
  <1>2. OneInv /\ [Next]_vars => OneInv'
    BY OneInvStep
  <1>3. OneInv => StaysUp
    BY DEF OneInv
  <1> QED BY <1>1, <1>2, <1>3, PTL DEF Spec

-----------------------------------------------------------------------------
pending == {c \in Calls : phase[c] \in {"open", "abandoned", "sent", "closed", "held"}}
offered == {s \in Services : pc[s] \notin {"start", "new", "add"}}

LEMMA MailboxInit == Init => AbstractMailbox!Init
  BY Apart DEF Init, AbstractMailbox!Init

(* A registration offers its object once NewRecDataCall or AddServer ran.   *)
LEMMA MailboxRegistration ==
  ASSUME OneInv, NEW s \in Services, Registration(s), [Next]_vars
  PROVE  [AbstractMailbox!Next]_(AbstractMailbox!vars)
  <1>1. Inv /\ Sequenced
    BY DEF OneInv
  <1>2. /\ UNCHANGED << posted, pending, handled >>
        /\ \A u \in Services \ {s} : pc'[u] = pc[u]
    BY <1>1, RegistrationFacts DEF wire, pending
  <1>3. Offered(s) => Offered(s)'
    BY <1>1, TaskStep
  <1>4. offered' = offered \/ offered' = offered \cup {s}
    BY <1>2, <1>3 DEF offered, Offered
  <1> QED BY <1>2, <1>4 DEF AbstractMailbox!Next, AbstractMailbox!Offer, AbstractMailbox!vars,
                            pending, offered

LEMMA MailboxReceive ==
  ASSUME OneInv, NEW s \in Services, NEW c \in Calls, Receive(s, c)
  PROVE  [AbstractMailbox!Next]_(AbstractMailbox!vars)
  <1>1. /\ UNCHANGED << posted, offered, handled >> /\ c \in pending
        /\ pending' = pending \ {c} \/ pending' = pending
    BY ReceiveFacts DEF OneInv, pending, offered
  <1> QED BY <1>1 DEF AbstractMailbox!Next, AbstractMailbox!Lose, AbstractMailbox!vars,
                      pending, offered

(* The call in hand came first of those that wait on its TCP port, and no   *)
(* other is in hand: the port has one thread.                               *)
LEMMA MailboxInvoke ==
  ASSUME OneInv, NEW s \in Services, Invoke(s)
  PROVE  [AbstractMailbox!Next]_(AbstractMailbox!vars)
  <1> DEFINE c == receiver[s].call
             o == theIServer_[receiver[s].to]
  <1>1. Inv /\ Single /\ Own /\ Ordered
    BY DEF OneInv
  <1>2. /\ receiver[s].pc = "call" /\ c \in Calls /\ phase[c] = "held"
        /\ UNCHANGED << pc, posted >>
        /\ \A d \in Calls \ {c} : phase'[d] = phase[d]
        /\ phase'[c] = IF o = None THEN "lost" ELSE "handled"
        /\ handled' = handled \cup (IF o = None THEN {} ELSE {<< c, o >>})
    BY <1>1, InvokeFacts
  <1>3. /\ o \in Services /\ Offered(o) /\ Addressed(c, o) /\ c.to = ProxyOf[s]
    BY <1>1, <1>2 DEF Own, Inv, Typed, Receiving
  <1> HIDE DEF c, o
  <1>4. c \in pending /\ o \in offered /\ UNCHANGED offered /\ pending' = pending \ {c}
        /\ handled' = handled \cup {<< c, o >>}
    BY <1>2, <1>3, TaskFacts DEF pending, offered, Offered
  <1>5. ASSUME NEW d \in pending, InOrder(d, c), NEW i \in DOMAIN posted, NEW j \in DOMAIN posted,
               i < j, posted[i] = d, posted[j] = c
        PROVE  FALSE
    <2>1. d.to = ProxyOf[s] /\ TypeOf[ProxyOf[s]] = "tcp" /\ posted[i] # posted[j]
      <3>1. i # j
        BY <1>1, <1>5 DEF Inv, Typed
      <3> QED BY <1>1, <1>3, <1>5, <3>1 DEF InOrder, Ordered
    <2>2. ~Waiting(d, ProxyOf[s])
      BY <1>1, <1>2, <1>5, <2>1 DEF Ordered, c
    <2>3. d \in Calls /\ phase[d] = "held"
      BY <1>5, <2>1, <2>2 DEF Waiting, pending
    <2>4. PICK u \in Services : receiver[u].pc = "call" /\ receiver[u].call = d
      BY <1>1, <2>3 DEF Inv, Held
    <2>5. ProxyOf[u] = ProxyOf[s]
      BY <1>1, <2>1, <2>4 DEF Inv, Receiving
    <2>6. u = s
      BY <1>1, <1>2, <2>4, <2>5 DEF Single
    <2> QED BY <1>5, <2>1, <2>4, <2>6 DEF c
  <1>6. \A d \in pending : InOrder(d, c) =>
            ~ \E i, j \in DOMAIN posted : i < j /\ posted[i] = d /\ posted[j] = c
    BY <1>5
  <1> QED BY <1>2, <1>3, <1>4, <1>6 DEF AbstractMailbox!Next, AbstractMailbox!Handle,
              AbstractMailbox!Before, AbstractMailbox!vars, pending, offered

LEMMA MailboxCalling ==
  ASSUME OneInv, NEW c \in Calls, Call(c) \/ Collected(c) \/ Killed(c)
  PROVE  [AbstractMailbox!Next]_(AbstractMailbox!vars)
  <1>1. Inv
    BY DEF OneInv
  <1>2. UNCHANGED << handled, offered >>
    BY <1>1, CallerFacts DEF offered
  <1>3. CASE /\ phase[c] = "unsent" /\ phase'[c] \in {"open", "sent"}
             /\ posted' = Append(posted, c)
             /\ \A d \in Calls \ {c} : phase'[d] = phase[d]
    <2>1. ~Contains(posted, c)
      <3>1. \A i \in DOMAIN posted : posted[i] # c
        BY <1>1, <1>3 DEF Inv, Posted
      <3> QED BY <3>1 DEF Contains
    <2>2. pending' = pending \cup {c}
      BY <1>3 DEF pending
    <2>3. AbstractMailbox!Post(c)
      BY <1>2, <1>3, <2>1, <2>2 DEF AbstractMailbox!Post, AbstractMailbox!Contains,
         Contains,
                                    pending, offered
    <2> QED BY <2>3 DEF AbstractMailbox!Next
  <1>4. CASE UNCHANGED << posted, pending >>
    BY <1>2, <1>4 DEF AbstractMailbox!Next, AbstractMailbox!vars, pending, offered
  <1>5. UNCHANGED << posted, pending >> \/
        /\ phase[c] = "unsent" /\ phase'[c] \in {"open", "sent"}
        /\ posted' = Append(posted, c)
        /\ \A d \in Calls \ {c} : phase'[d] = phase[d]
    BY <1>1, CallerFacts DEF pending, wire
  <1> QED BY <1>3, <1>4, <1>5

(* Under the same assumption a service is a mailbox, for any programs: a    *)
(* call is handled at most once, by an object of its name, and those of one *)
(* TCP port in the order they connected (TCPProtocols.java:131-154).        *)
THEOREM CallIsMailbox == ASSUME OneRegistrar PROVE Spec => ImplementsMailbox
  <1>1. Init => OneInv /\ AbstractMailbox!Init
    BY InitOneInv, MailboxInit
  <1>2. OneInv /\ [Next]_vars => OneInv'
    BY OneInvStep
  <1>3. OneInv /\ [Next]_vars => [AbstractMailbox!Next]_(AbstractMailbox!vars)
    <2> SUFFICES ASSUME OneInv, [Next]_vars PROVE [AbstractMailbox!Next]_(AbstractMailbox!vars)
      OBVIOUS
    <2>1. ASSUME NEW s \in Services, Bind(s) PROVE [AbstractMailbox!Next]_(AbstractMailbox!vars)
      <3>1. UNCHANGED << posted, pending, offered, handled >>
        BY <2>1, BindFacts DEF OneInv, wire, pending, offered
      <3> QED BY <3>1 DEF AbstractMailbox!vars, pending, offered
    <2>2. ASSUME UNCHANGED vars PROVE UNCHANGED AbstractMailbox!vars
      BY <2>2 DEF vars, wire, AbstractMailbox!vars
    <2> QED BY <2>1, <2>2, MailboxRegistration, MailboxReceive, MailboxInvoke, MailboxCalling
            DEF Next, Reception
  <1> QED BY <1>1, <1>2, <1>3, PTL DEF Spec, ImplementsMailbox, AbstractMailbox!Spec

-----------------------------------------------------------------------------
(* A thread that registers shares its JVM with no other, and the transports *)
(* asked for are in the jar.                                                *)
OwnJvm ==
    /\ \A s \in Services, x \in Tasks : Jvm(x) = Jvm(s) => ThreadOf[x] = ThreadOf[s]
    /\ \A q \in Proxies : TypeOf[q] \in Range(Jar)

Put(n) == {Jar[i] : i \in 1 .. n}

(* The map of such a JVM is empty, full, or being filled by one task.       *)
Filled ==
    \A s \in Services, x \in Tasks : Jvm(x) = Jvm(s) =>
        /\ \/ hashmap[Jvm(s)] \in {{}, Range(Jar)}
           \/ \E y \in Tasks : Jvm(y) = Jvm(s) /\ pc[y] = "put"
        /\ pc[x] \in {"start", "new", "add", "init", "create"} => puts[x] = 0
        /\ pc[x] = "put" => hashmap[Jvm(s)] = Put(puts[x])
        /\ pc[x] = "get" => hashmap[Jvm(s)] = Range(Jar)

(* What a registration has done to its proxy by each of its steps.          *)
Served ==
    /\ \A q \in Proxies : Is_Start[q] =>
          /\ calldata[q] = recClient[q] /\ calldata[q] # None
          /\ \E r \in Services : ProxyOf[r] = q /\ receiver[r].pc # "none"
    /\ \A s \in Services :
          /\ pc[s] \in {"add", "done"} => Is_Start[ProxyOf[s]]
          /\ pc[s] \in {"create", "put", "get"} => calldata[ProxyOf[s]] = recClient[ProxyOf[s]]
          /\ pc[s] \in {"init", "create", "put", "get", "done"} =>
                /\ recClient[ProxyOf[s]] # None
                /\ NameOf[s] \in DOMAIN serverBox[recClient[ProxyOf[s]]]

LEMMA PutFacts ==
  /\ Put(0) = {} /\ Put(Len(Jar)) = Range(Jar)
  /\ \A n \in Nat : Put(n + 1) = Put(n) \cup {Jar[n + 1]}
  <1>1. Put(Len(Jar)) = Range(Jar)
    BY CallAssumption DEF CallAssumption, Put, Range
  <1>2. ASSUME NEW n \in Nat PROVE Put(n + 1) = Put(n) \cup {Jar[n + 1]}
    <2>1. 1 .. n + 1 = (1 .. n) \cup {n + 1}
      OBVIOUS
    <2> QED BY <2>1 DEF Put
  <1> QED BY <1>1, <1>2 DEF Put

LEMMA OneTask ==
  ASSUME Sequenced, NEW x \in Tasks, NEW y \in Tasks, ThreadOf[x] = ThreadOf[y],
         pc[x] # "start", ~Ended(x), pc[y] # "start", ~Ended(y)
  PROVE  x = y
  BY EarlierFacts DEF Sequenced

(* Every step but those of CreateObject leaves the maps and goes past them. *)
LEMMA NotCreate ==
  ASSUME [Next]_vars, \A x \in Tasks : ~Create(x)
  PROVE  /\ UNCHANGED << hashmap, puts >>
         /\ \/ UNCHANGED pc
            \/ \E c \in Calls : Killed(c)
            \/ \E x \in Tasks, to \in {"new", "add", "init", "create", "write", "done"} :
                  /\ Goto(x, to) /\ pc[x] # "put"
                  /\ to \in {"new", "add", "init", "create"} => pc[x] \in {"start", "new", "init"}
  <1> DEFINE Past(x) == \E to \in {"new", "add", "init", "create", "write", "done"} :
                  /\ Goto(x, to) /\ pc[x] # "put"
                  /\ to \in {"new", "add", "init", "create"} => pc[x] \in {"start", "new", "init"}
  <1>1. ASSUME NEW s \in Services, Registration(s) PROVE UNCHANGED << hashmap, puts >> /\ Past(s)
    <2>1. CASE CheckStart(s)
      BY <2>1 DEF CheckStart, Begins
    <2>2. CASE AddServer(s) \/ NewRecDataCall(s) \/ InitServer(s) \/ StartReceiver(s)
      BY <2>2 DEF AddServer, NewRecDataCall, InitServer, StartReceiver
    <2> QED BY <1>1, <2>1, <2>2, Apart DEF Registration
  <1>2. ASSUME NEW s \in Services, Reception(s) PROVE UNCHANGED << hashmap, puts, pc >>
    BY <1>2 DEF Reception, Bind, Invoke, Return, Receive, Arrives
  <1>3. ASSUME NEW c \in Calls, Call(c) PROVE UNCHANGED << hashmap, puts >> /\ Past(c)
    <2>1. CASE NewProxy(c)
      BY <2>1 DEF NewProxy, Begins
    <2>2. CASE \/ SendNothing(c) \/ Connect(c) \/ ConnectFails(c)
               \/ Write(c) \/ WriteFails(c) \/ SendDatagram(c)
      BY <2>2 DEF SendNothing, Connect, ConnectFails, Write, WriteFails,
         SendDatagram, Sends
    <2> QED BY <1>3, <2>1, <2>2, CallFacts DEF Call
  <1>4. ASSUME NEW c \in Calls, Killed(c) PROVE UNCHANGED << hashmap, puts >>
    BY <1>4 DEF Killed
  <1>5. ASSUME NEW c \in Calls, Collected(c) PROVE UNCHANGED << hashmap, puts, pc >>
    BY <1>5 DEF Collected
  <1> QED BY <1>1, <1>2, <1>3, <1>4, <1>5, Apart, CallFacts DEF Next, vars

LEMMA FilledCreate ==
  ASSUME OwnJvm, Inv, Sequenced, Filled, NEW x \in Tasks, Create(x)
  PROVE  Filled'
  <1> SUFFICES ASSUME NEW s \in Services, NEW y \in Tasks, Jvm(y) = Jvm(s)
               PROVE  /\ \/ hashmap'[Jvm(s)] \in {{}, Range(Jar)}
                         \/ \E z \in Tasks : Jvm(z) = Jvm(s) /\ pc'[z] = "put"
                      /\ pc'[y] \in {"start", "new", "add", "init", "create"} => puts'[y] = 0
                      /\ pc'[y] = "put" => hashmap'[Jvm(s)] = Put(puts'[y])
                      /\ pc'[y] = "get" => hashmap'[Jvm(s)] = Range(Jar)
    BY DEF Filled
  <1>1. Typed /\ s \in Tasks /\ Jvm(s) \in Jvms /\ Jvm(x) \in Jvms
    BY Apart, TaskFacts DEF Inv
  <1>2. PICK to \in {"put", "get"} : Goto(x, to)
    BY DEF Create, CheckSize, PutTransport
  <1>3. pc'[x] = to /\ \A z \in Tasks \ {x} : pc'[z] = pc[z]
    BY <1>1, <1>2, Moved DEF Steps
  <1>4. CASE Jvm(x) # Jvm(s)
    <2>1. y # x /\ hashmap'[Jvm(s)] = hashmap[Jvm(s)] /\ puts'[y] = puts[y]
      BY <1>1, <1>4 DEF Create, CheckSize, PutTransport, Typed
    <2> QED BY <1>3, <1>4, <2>1 DEF Filled
  <1>5. CASE Jvm(x) = Jvm(s)
    <2>1. \A z \in Tasks : Jvm(z) = Jvm(s) /\ z # x => pc[z] = "start" \/ Ended(z)
      <3>1. pc[x] \in {"create", "put"} /\ pc[x] # "start" /\ ~Ended(x)
        BY DEF Create, CheckSize, PutTransport, Ended
      <3> QED BY <1>5, <3>1, OneTask DEF OwnJvm
    <2>2. CASE CheckSize(x)
      <3>1. UNCHANGED << hashmap, puts >> /\ puts[x] = 0 /\ pc[x] = "create"
            /\ to = IF hashmap[Jvm(s)] = {} THEN "put" ELSE "get"
        BY <1>1, <1>3, <1>5, <2>2, Moved DEF CheckSize, Filled, Steps
      <3>2. hashmap[Jvm(s)] \in {{}, Range(Jar)}
        BY <1>5, <2>1, <3>1 DEF Filled, Ended
      <3> QED BY <1>3, <1>5, <2>1, <3>1, <3>2, PutFacts DEF Filled, Ended
    <2>3. CASE PutTransport(x)
      <3>1. /\ pc[x] = "put" /\ puts[x] < Len(Jar) /\ puts' = [puts EXCEPT ![x] = puts[x] + 1]
            /\ hashmap' = [hashmap EXCEPT ![Jvm(x)] = @ \cup {Jar[puts'[x]]}]
            /\ to = IF puts'[x] = Len(Jar) THEN "get" ELSE "put"
        BY <1>1, <1>3, <2>3, Moved DEF PutTransport, Steps
      <3>2. /\ puts[x] \in Nat /\ puts'[x] = puts[x] + 1
            /\ \A z \in Tasks \ {x} : puts'[z] = puts[z]
        BY <1>1, <3>1 DEF Typed
      <3>3. hashmap'[Jvm(s)] = Put(puts'[x])
        BY <1>1, <1>5, <3>1, <3>2, PutFacts DEF Filled, Typed
      <3>4. y # x => pc'[y] = pc[y] /\ (pc[y] = "start" \/ Ended(y)) /\ puts'[y] = puts[y]
        BY <1>3, <2>1, <3>2
      <3> QED BY <1>3, <1>5, <3>1, <3>2, <3>3, <3>4, PutFacts DEF Filled, Ended
    <2> QED BY <2>2, <2>3 DEF Create
  <1> QED BY <1>4, <1>5

LEMMA FilledStep ==
  ASSUME OwnJvm, Inv, Sequenced, Filled, [Next]_vars
  PROVE  Filled'
  <1>1. CASE \E x \in Tasks : Create(x)
    BY <1>1, FilledCreate
  <1>2. CASE \A x \in Tasks : ~Create(x)
    <2>1. UNCHANGED << hashmap, puts >>
      BY <1>2, NotCreate
    <2>2. CASE UNCHANGED pc
      BY <2>1, <2>2 DEF Filled
    <2>3. CASE \E c \in Calls : Killed(c)
      <3>1. \A s \in Services, x \in Tasks : Jvm(x) = Jvm(s) => pc'[x] = pc[x]
        BY <2>3 DEF Killed, Inv, Typed
      <3> QED BY <2>1, <3>1 DEF Filled
    <2>4. CASE \E x \in Tasks, to \in {"new", "add", "init", "create", "write", "done"} :
                  /\ Goto(x, to) /\ pc[x] # "put"
                  /\ to \in {"new", "add", "init", "create"} => pc[x] \in {"start", "new", "init"}
      <3>1. PICK x \in Tasks, to \in {"new", "add", "init", "create", "write", "done"} :
                  /\ Goto(x, to) /\ pc[x] # "put"
                  /\ to \in {"new", "add", "init", "create"} => pc[x] \in {"start", "new", "init"}
        BY <2>4
      <3>2. pc'[x] = to /\ \A z \in Tasks \ {x} : pc'[z] = pc[z]
        BY <3>1, Moved DEF Inv, Steps
      <3> QED BY <2>1, <3>1, <3>2 DEF Filled
    <2> QED BY <1>2, <2>2, <2>3, <2>4, NotCreate
  <1> QED BY <1>1, <1>2

LEMMA ServedRegistration ==
  ASSUME OneRegistrar, OwnJvm, OneInv, Filled, Served, NEW s \in Services, Registration(s)
  PROVE  Served'
  <1> DEFINE q == ProxyOf[s]
  <1>1. Inv /\ Typed /\ Equipped /\ Sequenced /\ Single /\ s \in Tasks /\ q \in Proxies
        /\ None \notin Services
    BY Apart, TaskFacts DEF OneInv, Inv
  <1>2. /\ \A u \in Services \ {s} : receiver'[u] = receiver[u] /\ pc'[u] = pc[u]
    BY <1>1, RegistrationFacts
  <1>3. \A u \in Services : u # s /\ ProxyOf[u] = q /\ pc[s] \notin {"start", "done"} =>
            pc[u] \in {"start", "done"}
    BY <1>1, Alone
  <1>4. \A u \in Services : receiver[u].pc # "none" => receiver'[u].pc # "none"
    BY <1>1, <1>2, RegistrationFacts
  <1>5. CASE CheckStart(s)
    <2>1. pc[s] = "start" /\ pc'[s] = IF Is_Start[q] THEN "add" ELSE "new"
      BY <1>1, <1>5 DEF CheckStart, Begins, Goto, Typed
    <2> QED BY <1>2, <1>4, <1>5, <2>1 DEF CheckStart, Served, registry
  <1>6. CASE AddServer(s)
    <2>1. pc[s] = "add" /\ pc'[s] = "done" /\ Register(s, recClient[q])
          /\ UNCHANGED << Is_Start, recClient, calldata >>
      BY <1>1, <1>6 DEF AddServer, Goto, Typed
    <2>2. Is_Start[q] /\ recClient[q] \in Services
      BY <1>1, <2>1 DEF Served, Typed
    <2>3. /\ NameOf[s] \in DOMAIN serverBox'[recClient[q]]
          /\ \A u \in Services : DOMAIN serverBox[u] \subseteq DOMAIN serverBox'[u]
      BY <1>1, <2>1, <2>2, BoxTyped
    <2>4. \A u \in Services : recClient[ProxyOf[u]] # None => recClient[ProxyOf[u]] \in Services
      BY <1>1, Apart DEF Typed
    <2> QED BY <1>1, <1>2, <1>4, <2>1, <2>2, <2>3, <2>4 DEF Served
  <1>7. CASE NewRecDataCall(s)
    <2>1. pc[s] = "new" /\ pc'[s] = "init" /\ Register(s, s)
          /\ UNCHANGED << Is_Start, calldata >>
          /\ recClient' = [recClient EXCEPT ![q] = s]
      BY <1>1, <1>7 DEF NewRecDataCall, Goto, Typed
    <2>2. /\ recClient'[q] = s /\ \A p \in Proxies \ {q} : recClient'[p] = recClient[p]
          /\ ~Is_Start[q]
      BY <1>1, <2>1 DEF Typed, Single
    <2>3. /\ NameOf[s] \in DOMAIN serverBox'[s]
          /\ \A u \in Services : DOMAIN serverBox[u] \subseteq DOMAIN serverBox'[u]
      BY <1>1, <2>1, BoxTyped
    <2>4. \A u \in Services : recClient[ProxyOf[u]] # None => recClient[ProxyOf[u]] \in Services
      BY <1>1, Apart DEF Typed
    <2>5. \A p \in Proxies : Is_Start'[p] => p # q
      BY <2>1, <2>2
    <2>6. \A u \in Services : u # s /\ ProxyOf[u] = q => pc'[u] = "start"
      BY <1>2, <1>3, <2>1, <2>2 DEF Served
    <2>7. \A p \in Proxies : Is_Start'[p] =>
              /\ calldata'[p] = recClient'[p] /\ calldata'[p] # None
              /\ \E r \in Services : ProxyOf[r] = p /\ receiver'[r].pc # "none"
      BY <1>4, <2>1, <2>2, <2>5 DEF Served
    <2>8. ASSUME NEW u \in Services
          PROVE  /\ pc'[u] \in {"add", "done"} => Is_Start'[ProxyOf[u]]
                 /\ pc'[u] \in {"create", "put", "get"} =>
                        calldata'[ProxyOf[u]] = recClient'[ProxyOf[u]]
                 /\ pc'[u] \in {"init", "create", "put", "get", "done"} =>
                        /\ recClient'[ProxyOf[u]] # None
                        /\ NameOf[u] \in DOMAIN serverBox'[recClient'[ProxyOf[u]]]
      <3>1. CASE u = s
        BY <1>1, <2>1, <2>2, <2>3, <3>1
      <3>2. CASE u # s /\ ProxyOf[u] = q
        BY <2>6, <3>2
      <3>3. CASE ProxyOf[u] # q
        BY <1>2, <2>1, <2>2, <2>3, <2>4, <3>3, Apart DEF Served
      <3> QED BY <3>1, <3>2, <3>3
    <2> QED BY <2>7, <2>8 DEF Served
  <1>8. CASE InitServer(s)
    <2>1. pc[s] = "init" /\ pc'[s] = "create"
          /\ UNCHANGED << Is_Start, recClient, serverBox >>
          /\ calldata' = [calldata EXCEPT ![q] = recClient[q]]
      BY <1>1, <1>8 DEF InitServer, Goto, Typed
    <2>2. /\ calldata'[q] = recClient[q]
          /\ \A p \in Proxies \ {q} : calldata'[p] = calldata[p]
          /\ ~Is_Start[q]
      BY <1>1, <2>1 DEF Typed, Single
    <2> QED BY <1>1, <1>2, <1>4, <2>1, <2>2, Apart DEF Served
  <1>9. CASE Create(s)
    <2>1. /\ pc[s] \in {"create", "put"} /\ UNCHANGED registry
          /\ \E to \in {"put", "get"} : Goto(s, to)
      BY <1>9 DEF Create, CheckSize, PutTransport
    <2>2. pc'[s] \in {"put", "get"}
      BY <1>1, <2>1, Moved DEF Steps
    <2> QED BY <1>2, <1>4, <2>1, <2>2 DEF Served, registry
  <1>10. CASE StartReceiver(s)
    <2>1. /\ pc[s] = "get" /\ pc'[s] = "done" /\ UNCHANGED << recClient, calldata, serverBox >>
          /\ Is_Start' = [Is_Start EXCEPT ![q] = TRUE]
      BY <1>1, <1>10 DEF StartReceiver, Goto, Typed
    <2>2. /\ Is_Start'[q] /\ \A p \in Proxies \ {q} : Is_Start'[p] = Is_Start[p]
      BY <1>1, <2>1 DEF Typed
    <2>3. Found(s)
      BY <1>1, <2>1 DEF Found, Transport, Filled, OwnJvm
    <2>4. receiver'[s].pc = "bind"
      BY <1>1, <1>10, <2>3, ReceiverMoves DEF StartReceiver
    <2>5. \A p \in Proxies : Is_Start'[p] =>
              /\ calldata'[p] = recClient'[p] /\ calldata'[p] # None
              /\ \E r \in Services : ProxyOf[r] = p /\ receiver'[r].pc # "none"
      <3> SUFFICES ASSUME NEW p \in Proxies, Is_Start'[p]
                   PROVE  /\ calldata'[p] = recClient'[p] /\ calldata'[p] # None
                          /\ \E r \in Services : ProxyOf[r] = p /\ receiver'[r].pc # "none"
        OBVIOUS
      <3>1. CASE p = q
        BY <1>1, <2>1, <2>4, <3>1 DEF Served
      <3>2. CASE p # q
        BY <1>4, <2>1, <2>2, <3>2 DEF Served
      <3> QED BY <3>1, <3>2
    <2> QED BY <1>1, <1>2, <2>1, <2>2, <2>5, Apart DEF Served
  <1> QED BY <1>5, <1>6, <1>7, <1>8, <1>9, <1>10 DEF Registration

LEMMA ServedStep ==
  ASSUME OneRegistrar, OwnJvm, OneInv, Filled, Served, [Next]_vars
  PROVE  Served'
  <1>1. ASSUME UNCHANGED registry, \A s \in Services : pc'[s] = pc[s],
               \A s \in Services : receiver[s].pc # "none" => receiver'[s].pc # "none"
        PROVE  Served'
    BY <1>1 DEF Served, registry
  <1>2. ASSUME NEW s \in Services, Reception(s) PROVE Served'
    <2>1. /\ UNCHANGED << pc, registry >> /\ receiver'[s].pc # "none"
          /\ \A u \in Services \ {s} : receiver'[u] = receiver[u]
      BY <1>2, BindFacts, ReceiveFacts, InvokeFacts DEF Reception, OneInv
    <2> QED BY <1>1, <2>1
  <1>3. ASSUME NEW c \in Calls, Call(c) \/ Collected(c) \/ Killed(c) PROVE Served'
    BY <1>1, <1>3, CallerFacts DEF OneInv
  <1> QED BY <1>1, <1>2, <1>3, ServedRegistration DEF Next, vars

LEMMA InitServed == Init => Filled /\ Served
  BY Apart, TaskFacts DEF Init, Filled, Served, Put

(* Of one registering thread's proxies only the blocked ones fail to bind.  *)
Binding == \A s \in Services : receiver[s].pc = "failing" => ProxyOf[s] \in Blocked

LEMMA BindingStep == ASSUME OneInv, Binding, [Next]_vars PROVE Binding'
  <1>1. Inv /\ Single
    BY DEF OneInv
  <1>2. ASSUME NEW s \in Services, Registration(s) PROVE Binding'
    BY <1>1, <1>2, RegistrationFacts DEF Binding
  <1>3. ASSUME NEW s \in Services, Bind(s) PROVE Binding'
    <2>1. Bound(ProxyOf[s]) = {}
      BY <1>1, <1>3, BindFacts DEF Bound, Single
    <2> QED BY <1>1, <1>3, <2>1, BindFacts DEF Binding
  <1>4. ASSUME NEW s \in Services, Invoke(s) \/ \E c \in Calls : Receive(s, c) PROVE Binding'
    <2>1. /\ receiver'[s].pc # "failing"
          /\ \A u \in Services \ {s} : receiver'[u] = receiver[u]
      BY <1>1, <1>4, ReceiveFacts, InvokeFacts
    <2> QED BY <2>1 DEF Binding
  <1>5. ASSUME NEW c \in Calls, Call(c) \/ Collected(c) \/ Killed(c) PROVE Binding'
    BY <1>1, <1>5, CallerFacts DEF Binding
  <1> QED BY <1>2, <1>3, <1>4, <1>5 DEF Next, Reception, vars, Binding

(* A service whose registration has returned can be called, for any number  *)
(* of services, when one thread registers and its JVM is its own, unless    *)
(* its address could not be bound or a harmful call came: a thread binds or *)
(* receives for its proxy - it has not ended and its bind did not fail -,   *)
(* and the RecDataCall behind it finds the name (ServerPorxy.java:35-47,    *)
(* TransferProtocolObj.java:31-43).                                         *)
THEOREM CallableSafe == ASSUME OneRegistrar, OwnJvm PROVE Spec => []Callable
  <1> DEFINE SInv == OneInv /\ Filled /\ Served /\ Binding
  <1>1. Init => SInv
    <2>1. Init => Binding
      BY DEF Init, Binding, NoThread
    <2> QED BY <2>1, InitOneInv, InitServed
  <1>2. SInv /\ [Next]_vars => SInv'
    BY OneInvStep, FilledStep, ServedStep, BindingStep DEF OneInv
  <1>3. ASSUME SInv PROVE Callable
    <2> SUFFICES ASSUME NEW s \in Services, NEW q, q = ProxyOf[s],
                        pc[s] = "done", q \notin Blocked, ~Spoilt(q)
                 PROVE  /\ \E r \in Services :
                             ProxyOf[r] = q /\ receiver[r].pc \in {"bind", "receive", "call"}
                        /\ calldata[q] # None /\ NameOf[s] \in DOMAIN serverBox[calldata[q]]
      BY DEF Callable
    <2>1. q \in Proxies /\ Is_Start[q]
      BY <1>3, Apart DEF Served
    <2>2. PICK r \in Services : ProxyOf[r] = q /\ receiver[r].pc # "none"
      BY <1>3, <2>1 DEF Served
    <2>3. receiver[r].pc # "dead"
      BY <1>3, <2>2 DEF OneInv, StaysUp, Spoilt
    <2>4. receiver[r].pc # "failing"
      BY <1>3, <2>2 DEF Binding
    <2>5. receiver[r].pc \in {"bind", "receive", "call"}
      BY <1>3, <2>2, <2>3, <2>4 DEF OneInv, Inv, Receiving
    <2> QED BY <1>3, <2>1, <2>2, <2>5 DEF Served
  <1> QED BY <1>1, <1>2, <1>3, PTL DEF Spec

(* Where one thread registers the services of a proxy and its JVM is its     *)
(* own, a started proxy has exactly one receiving thread, as the comments    *)
(* of ServerPorxy.java:15 and ServerBox.java:11 say: only a second thread    *)
(* that tests Is_Start before the first sets it can start another.           *)
THEOREM OneReceiverSafe == ASSUME OneRegistrar, OwnJvm PROVE Spec => []OneReceiver
  <1> DEFINE SInv == OneInv /\ Filled /\ Served
  <1>1. Init => SInv
    BY InitOneInv, InitServed
  <1>2. SInv /\ [Next]_vars => SInv'
    BY OneInvStep, FilledStep, ServedStep DEF OneInv
  <1>3. ASSUME SInv PROVE OneReceiver
    <2> SUFFICES ASSUME NEW q \in Proxies, Is_Start[q]
                 PROVE  Cardinality({s \in Services : ProxyOf[s] = q /\ receiver[s].pc # "none"}) = 1
      BY DEF OneReceiver
    <2>1. PICK r \in Services : ProxyOf[r] = q /\ receiver[r].pc # "none"
      BY <1>3 DEF Served
    <2>2. {s \in Services : ProxyOf[s] = q /\ receiver[s].pc # "none"} = {r}
      BY <1>3, <2>1 DEF OneInv, Single
    <2> QED BY <2>2, FS_Singleton
  <1> QED BY <1>1, <1>2, <1>3, PTL DEF Spec
=============================================================================
