----------------------------- MODULE ServiceCall -----------------------------
(***************************************************************************)
(* A call from a client's proxy to the object registered under its name.   *)
(* Threads register services and make calls, one after the other.  Each    *)
(* registration goes through a ServerPorxy, one of its own or the one of   *)
(* its box, whose first registration makes the RecDataCall and starts a    *)
(* receiving thread; each call makes its own proxy, as CastObj does.  Both *)
(* get their transport from TransferProtocolObj, which fills its map at    *)
(* the first use in a JVM.  Only IOExceptions are caught in a receiving    *)
(* thread.                                                                 *)
(***************************************************************************)
EXTENDS Integers, Sequences, FiniteSets, SequencesExt

CONSTANTS
    Threads,
    Program,       \* Program[t]: the sequence of a thread's tasks
    JvmOf,         \* JvmOf[t]
    Services,      \* registrations, and the objects they register
    NameOf,        \* NameOf[s]
    ProxyOf,       \* ProxyOf[s]: the ServerPorxy that serves s
    Calls,         \* records: to, name, fun, fits (a read), throws, breaks, an id
    TypeOf,        \* TypeOf[q]: the transport asked for, and the port is q's
    Blocked,       \* proxies whose address cannot be bound
    Jar,           \* transports in the order Init finds them
    None

Tasks == Services \cup Calls
Proxies == {ProxyOf[s] : s \in Services}
Jvms == {JvmOf[t] : t \in Threads}

ASSUME CallAssumption ==
    /\ \A t \in Threads : Program[t] \in Seq(Tasks) /\ IsInjective(Program[t])
    /\ Blocked \subseteq Proxies
    /\ Services \cap Calls = {} /\ None \notin Tasks /\ Jar \in Seq({"tcp", "udp"})
    /\ \A x \in Tasks : \E t \in Threads : \A u \in Threads : Contains(Program[u], x) <=> u = t
    /\ \A c \in Calls : c.to \in Proxies /\ c.fun \in {"GetData", "SetData", "CallData"}

ThreadOf == [x \in Tasks |-> CHOOSE t \in Threads : Contains(Program[t], x)]
Jvm(x) == JvmOf[ThreadOf[x]]

(* The tasks a thread ends before it begins x.                              *)
Earlier ==
    [x \in Tasks |-> LET prog == Program[ThreadOf[x]]
                     IN  {prog[i] : i \in {k \in DOMAIN prog : k < (CHOOSE j \in DOMAIN prog : prog[j] = x)}}]
Transport(x) == TypeOf[IF x \in Services THEN ProxyOf[x] ELSE x.to]

VARIABLES
    pc,            \* pc[x]: how far the thread is with task x
    hashmap,       \* hashmap[j]: transports in TransferProtocolObj's map
    puts,          \* puts[x]: transports task x has put
    Is_Start,      \* of a ServerPorxy
    recClient,     \* of a ServerPorxy: its RecDataCall, named by its maker
    calldata,      \* of its ClientToServer's DataRecvice
    serverBox,     \* of a RecDataCall: name to object
    theIServer_,   \* of a RecDataCall
    receiver,      \* receiver[s]: the thread s started - pc, call, RecDataCall
    posted,        \* calls given to the network, in the order they were
    phase,         \* phase[c]: where call c is
    handled        \* history: << call, object >>

registry == << Is_Start, recClient, calldata, serverBox >>
wire == << posted, phase >>
vars == << pc, hashmap, puts, registry, theIServer_, receiver, wire, handled >>

NoThread == [pc |-> "none", call |-> None, to |-> None]

Init ==
    /\ pc = [x \in Tasks |-> "start"]
    /\ hashmap = [j \in Jvms |-> {}]
    /\ puts = [x \in Tasks |-> 0]
    /\ Is_Start = [q \in Proxies |-> FALSE]
    /\ recClient = [q \in Proxies |-> None]
    /\ calldata = [q \in Proxies |-> None]
    /\ serverBox = [s \in Services |-> << >>]
    /\ theIServer_ = [s \in Services |-> None]
    /\ receiver = [s \in Services |-> NoThread]
    /\ posted = << >>
    /\ phase = [c \in Calls |-> "unsent"]
    /\ handled = {}

Ended(x) == pc[x] \in {"done", "killed"}
Goto(x, to) == pc' = [pc EXCEPT ![x] = to]

Begins(x) == pc[x] = "start" /\ \A y \in Earlier[x] : Ended(y)

-----------------------------------------------------------------------------
(* TransferProtocolObj.CreateObject, for a registration or a proxy.         *)

CheckSize(x) ==
    /\ pc[x] = "create"
    /\ Goto(x, IF hashmap[Jvm(x)] = {} THEN "put" ELSE "get")
    /\ UNCHANGED << hashmap, puts, registry, theIServer_, receiver, wire, handled >>

PutTransport(x) ==
    /\ pc[x] = "put" /\ puts[x] < Len(Jar)
    /\ puts' = [puts EXCEPT ![x] = @ + 1]
    /\ hashmap' = [hashmap EXCEPT ![Jvm(x)] = @ \cup {Jar[puts'[x]]}]
    /\ Goto(x, IF puts'[x] = Len(Jar) THEN "get" ELSE "put")
    /\ UNCHANGED << registry, theIServer_, receiver, wire, handled >>

Found(x) == Transport(x) \in hashmap[Jvm(x)]

-----------------------------------------------------------------------------
(* ServerPorxy.InitServerThread.                                            *)

(* Mutant of CheckStart: every registration makes a RecDataCall.            *)
CheckStartNever(s) ==
    /\ Begins(s)
    /\ Goto(s, "new")
    /\ UNCHANGED << hashmap, puts, registry, theIServer_, receiver, wire, handled >>

CheckStart(s) ==
    /\ Begins(s)
    /\ Goto(s, IF Is_Start[ProxyOf[s]] THEN "add" ELSE "new")
    /\ UNCHANGED << hashmap, puts, registry, theIServer_, receiver, wire, handled >>

Register(s, r) ==
    serverBox' = [serverBox EXCEPT ![r] =
        [n \in DOMAIN @ \cup {NameOf[s]} |-> IF n = NameOf[s] THEN s ELSE @[n]]]

AddServer(s) ==
    /\ pc[s] = "add"
    /\ Register(s, recClient[ProxyOf[s]])
    /\ Goto(s, "done")
    /\ UNCHANGED << hashmap, puts, Is_Start, recClient, calldata, theIServer_, receiver, wire, handled >>

NewRecDataCall(s) ==
    /\ pc[s] = "new"
    /\ Register(s, s)
    /\ recClient' = [recClient EXCEPT ![ProxyOf[s]] = s]
    /\ Goto(s, "init")
    /\ UNCHANGED << hashmap, puts, Is_Start, calldata, theIServer_, receiver, wire, handled >>

InitServer(s) ==
    /\ pc[s] = "init"
    /\ calldata' = [calldata EXCEPT ![ProxyOf[s]] = recClient[ProxyOf[s]]]
    /\ Goto(s, "create")
    /\ UNCHANGED << hashmap, puts, Is_Start, recClient, serverBox, theIServer_, receiver, wire, handled >>

(* Without a transport nothing is started, and Is_Start says it was.        *)
StartReceiver(s) ==
    /\ pc[s] = "get"
    /\ IF Found(s)
       THEN receiver' = [receiver EXCEPT ![s].pc = "bind"]
       ELSE UNCHANGED receiver
    /\ Is_Start' = [Is_Start EXCEPT ![ProxyOf[s]] = TRUE]
    /\ Goto(s, "done")
    /\ UNCHANGED << hashmap, puts, recClient, calldata, serverBox, theIServer_, wire, handled >>

-----------------------------------------------------------------------------
(* The receiving threads of TCPProtocols and UDPProtocols.                  *)

Bound(q) == {s \in Services : ProxyOf[s] = q /\ receiver[s].pc \in {"receive", "call", "dead"}}
Up(q) == \E s \in Bound(q) : receiver[s].pc # "dead"

(* A port another program has cannot be bound, nor "*" on UDP, where the     *)
(* socket is bound already.  UDP sockets share a port; a second TCP bind     *)
(* fails.  The loop goes on and receives no call.                            *)
Bind(s) ==
    /\ receiver[s].pc = "bind"
    /\ LET q == ProxyOf[s]
           taken == q \in Blocked \/ (Transport(s) = "tcp" /\ Bound(q) # {})
       IN  receiver' = [receiver EXCEPT ![s].pc = IF taken THEN "failing" ELSE "receive"]
    /\ UNCHANGED << pc, hashmap, puts, registry, theIServer_, wire, handled >>

Waiting(c, q) == c.to = q /\ phase[c] \in {"open", "abandoned", "sent", "closed"}

(* What accept and read or receive can return: of TCP the connection that   *)
(* came first, once it was written to or closed; of UDP any datagram.       *)
Readable(q) ==
    {posted[i] : i \in {j \in DOMAIN posted :
        /\ Waiting(posted[j], q) /\ phase[posted[j]] \in {"sent", "closed"}
        /\ TypeOf[q] = "tcp" => \A k \in 1 .. j - 1 : ~Waiting(posted[k], q)}}

(* An empty read makes an array of length -1; what does not fit in 1024      *)
(* bytes arrives cut, does not deserialise and is dereferenced.              *)
Broken(c) == phase[c] = "closed" \/ ~c.fits

Leave(c, to) == phase' = [phase EXCEPT ![c] = to]
Named(r, n) == IF n \in DOMAIN serverBox[r] THEN serverBox[r][n] ELSE None

Die(s, c) ==
    /\ Leave(c, "lost")
    /\ receiver' = [receiver EXCEPT ![s].pc = "dead"]
    /\ UNCHANGED theIServer_

Dispatch(s, c, r, o) ==
    /\ theIServer_' = [theIServer_ EXCEPT ![r] = o]
    /\ IF o = None
       THEN Leave(c, "lost") /\ UNCHANGED receiver
       ELSE /\ Leave(c, "held")
            /\ receiver' = [receiver EXCEPT ![s] = [pc |-> "call", call |-> c, to |-> r]]

Arrives(s, c) ==
    /\ receiver[s].pc = "receive" /\ c \in Readable(ProxyOf[s])
    /\ UNCHANGED << pc, hashmap, puts, registry, posted, handled >>

(* Mutant of Receive: the field is set only when the name is found.          *)
ReceiveStale(s, c) ==
    /\ Arrives(s, c)
    /\ LET r == calldata[ProxyOf[s]]
           o == Named(r, c.name)
       IN  IF Broken(c) THEN Die(s, c)
           ELSE Dispatch(s, c, r, IF o = None THEN theIServer_[r] ELSE o)

(* Mutant of Receive: no test for a name that is not found.                 *)
ReceiveUntested(s, c) ==
    /\ Arrives(s, c)
    /\ LET r == calldata[ProxyOf[s]]
           o == Named(r, c.name)
       IN  IF Broken(c) \/ o = None THEN Die(s, c) ELSE Dispatch(s, c, r, o)

Receive(s, c) ==
    /\ Arrives(s, c)
    /\ LET r == calldata[ProxyOf[s]]
       IN  IF Broken(c) THEN Die(s, c) ELSE Dispatch(s, c, r, Named(r, c.name))

(* DataSys reads its field again.  An exception of the service, or of a      *)
(* field another thread has set to null, ends the receiving thread.          *)
Return(s, c, o, to) ==
    /\ receiver[s].pc = "call"
    /\ c = receiver[s].call /\ o = theIServer_[receiver[s].to]
    /\ handled' = handled \cup (IF o = None THEN {} ELSE {<< c, o >>})
    /\ receiver' = [receiver EXCEPT ![s] =
          [NoThread EXCEPT !.pc = IF o = None \/ c.throws THEN "dead" ELSE to]]
    /\ UNCHANGED << pc, hashmap, puts, registry, theIServer_, posted >>

(* Mutant of Invoke: a call whose service throws stays in hand.             *)
InvokeKeeps(s) ==
    \E c \in Calls, o \in Services \cup {None} :
        /\ Return(s, c, o, "receive")
        /\ IF c.throws THEN UNCHANGED phase
           ELSE Leave(c, IF o = None THEN "lost" ELSE "handled")

(* Mutant of Invoke: the loop has no second turn.                           *)
InvokeLast(s) ==
    \E c \in Calls, o \in Services \cup {None} :
        /\ Return(s, c, o, "failing")
        /\ Leave(c, IF o = None THEN "lost" ELSE "handled")

Invoke(s) ==
    \E c \in Calls, o \in Services \cup {None} :
        /\ Return(s, c, o, "receive")
        /\ Leave(c, IF o = None THEN "lost" ELSE "handled")

-----------------------------------------------------------------------------
(* ServerClient, BridgeClient and SendMsg.                                  *)

NewProxy(c) ==
    /\ Begins(c)
    /\ Goto(c, "create")
    /\ UNCHANGED << hashmap, puts, registry, theIServer_, receiver, wire, handled >>

(* GetData goes by a socket that is never made; a proxy without transport   *)
(* sends nothing.                                                           *)
SendNothing(c) ==
    /\ pc[c] = "get" /\ (c.fun = "GetData" \/ ~Found(c))
    /\ Goto(c, "done")
    /\ UNCHANGED << hashmap, puts, registry, theIServer_, receiver, wire, handled >>

Sends(c) == pc[c] = "get" /\ c.fun # "GetData" /\ Found(c)

Post(c, as) ==
    /\ posted' = Append(posted, c)
    /\ Leave(c, as)

Connect(c) ==
    /\ Sends(c) /\ Transport(c) = "tcp" /\ Bound(c.to) # {}
    /\ Post(c, "open")
    /\ Goto(c, "write")
    /\ UNCHANGED << hashmap, puts, registry, theIServer_, receiver, handled >>

(* The IOException is printed and SendData returns true.                    *)
ConnectFails(c) ==
    /\ Sends(c) /\ Transport(c) = "tcp" /\ ~Up(c.to)
    /\ Goto(c, "done")
    /\ UNCHANGED << hashmap, puts, registry, theIServer_, receiver, wire, handled >>

Write(c) ==
    /\ pc[c] = "write" /\ ~c.breaks
    /\ Leave(c, "sent")
    /\ Goto(c, "done")
    /\ UNCHANGED << hashmap, puts, registry, theIServer_, receiver, posted, handled >>

(* What did not serialise is null, and write throws: nothing closes the     *)
(* socket.                                                                  *)
WriteFails(c) ==
    /\ pc[c] = "write" /\ c.breaks
    /\ Leave(c, "abandoned")
    /\ Goto(c, "done")
    /\ UNCHANGED << hashmap, puts, registry, theIServer_, receiver, posted, handled >>

(* The collector may find the socket, or its process ends.                  *)
Collected(c) ==
    /\ phase[c] = "abandoned"
    /\ Leave(c, "closed")
    /\ UNCHANGED << pc, hashmap, puts, registry, theIServer_, receiver, posted, handled >>

(* A client's process is killed between connect and write.                  *)
Killed(c) ==
    /\ pc[c] = "write" /\ \A s \in Services : Jvm(s) # Jvm(c)
    /\ phase' = [d \in Calls |->
          IF Jvm(d) = Jvm(c) /\ phase[d] \in {"open", "abandoned"} THEN "closed" ELSE phase[d]]
    /\ pc' = [x \in Tasks |-> IF Jvm(x) = Jvm(c) /\ ~Ended(x) THEN "killed" ELSE pc[x]]
    /\ UNCHANGED << hashmap, puts, registry, theIServer_, receiver, posted, handled >>

SendDatagram(c) ==
    /\ Sends(c) /\ Transport(c) = "udp"
    /\ \/ Bound(c.to) # {} /\ ~c.breaks /\ Post(c, "sent")
       \/ UNCHANGED wire
    /\ Goto(c, "done")
    /\ UNCHANGED << hashmap, puts, registry, theIServer_, receiver, handled >>

-----------------------------------------------------------------------------
Create(x) == CheckSize(x) \/ PutTransport(x)

Registration(s) ==
    \/ CheckStart(s) \/ AddServer(s) \/ NewRecDataCall(s) \/ InitServer(s)
    \/ Create(s) \/ StartReceiver(s)

Reception(s) ==
    \/ Bind(s) \/ Invoke(s)
    \/ \E c \in Calls : Receive(s, c)

Call(c) ==
    \/ NewProxy(c) \/ Create(c) \/ SendNothing(c)
    \/ Connect(c) \/ ConnectFails(c) \/ Write(c) \/ WriteFails(c)
    \/ SendDatagram(c)

Next ==
    \/ \E s \in Services : Registration(s) \/ Reception(s)
    \/ \E c \in Calls : Call(c) \/ Collected(c) \/ Killed(c)

(* What a thread does when its turn comes.                                  *)
Run(t) ==
    \/ \E s \in Services : ThreadOf[s] = t /\ Registration(s)
    \/ \E c \in Calls : ThreadOf[c] = t /\ Call(c)

Spec == Init /\ [][Next]_vars

(* Started threads run on; nothing makes a process be killed, or the        *)
(* collector run.                                                           *)
FairSpec ==
    /\ Spec
    /\ \A t \in Threads : WF_vars(Run(t))
    /\ \A s \in Services : WF_vars(Reception(s))

-----------------------------------------------------------------------------
(* Type correctness; the calls held are those of the receiving threads.     *)
TypeOK ==
    /\ pc \in [Tasks -> {"start", "new", "add", "init", "create", "put", "get",
                         "write", "done", "killed"}]
    /\ hashmap \in [Jvms -> SUBSET Range(Jar)]
    /\ puts \in [Tasks -> 0 .. Len(Jar)]
    /\ Is_Start \in [Proxies -> BOOLEAN]
    /\ recClient \in [Proxies -> Services \cup {None}]
    /\ calldata \in [Proxies -> Services \cup {None}]
    /\ theIServer_ \in [Services -> Services \cup {None}]
    /\ \A s \in Services :
          /\ Range(serverBox[s]) \subseteq Services
          /\ receiver[s].pc \in {"none", "bind", "failing", "receive", "call", "dead"}
    /\ phase \in [Calls -> {"unsent", "open", "abandoned", "sent", "closed", "held",
                            "handled", "lost"}]
    /\ Range(posted) = {c \in Calls : phase[c] # "unsent"}
    /\ {c \in Calls : phase[c] = "held"} =
          {receiver[s].call : s \in {r \in Services : receiver[r].pc = "call"}}
    /\ handled \subseteq Calls \X Services

(* What ends a receiving thread, or keeps it: a call that is cut, that its  *)
(* service refuses, whose caller was killed before writing, or whose write  *)
(* threw (TCPProtocols.java:31-41, 136-151).                                *)
Harmful(c) == ~c.fits \/ c.throws \/ c.breaks \/ pc[c] = "killed"
Spoilt(q) ==
    \E c \in Calls :
        c.to = q /\ Harmful(c) /\ phase[c] \in {"abandoned", "lost", "handled"}

(* A service whose registration has returned can be called, unless its      *)
(* address could not be bound or a harmful call came: a thread binds or     *)
(* receives for its proxy, and the RecDataCall behind it finds the name -   *)
(* when one thread registers and shares its JVM with no caller              *)
(* (ServerPorxy.java:35-47, TransferProtocolObj.java:31-43).                *)
Callable ==
    \A s \in Services :
        LET q == ProxyOf[s]
        IN  pc[s] = "done" /\ q \notin Blocked /\ ~Spoilt(q) =>
                /\ \E r \in Services :
                      ProxyOf[r] = q /\ receiver[r].pc \in {"bind", "receive", "call"}
                /\ calldata[q] # None /\ NameOf[s] \in DOMAIN serverBox[calldata[q]]

(* Only a harmful call ends a receiving thread (TCPProtocols.java:136-151   *)
(* catches nothing else); one for an unknown name, however late its service *)
(* is added, does not (RecDataCall.java:51).                                *)
StaysUp ==
    \A s \in Services : receiver[s].pc = "dead" =>
        \E c \in Calls :
            c.to = ProxyOf[s] /\ Harmful(c) /\ phase[c] \in {"lost", "handled"}

(* A connection accepted before that of call c is open and will not be      *)
(* written to: read waits for it.                                           *)
Behind(c) ==
    \E i, j \in DOMAIN posted :
        i < j /\ posted[j] = c /\ posted[i].to = c.to /\ phase[posted[i]] = "abandoned"

(* Every call written to the network is taken and answered for: when all is *)
(* done none waits, unless the receiving thread has ended, or waits for a   *)
(* connection its client has abandoned (TCPProtocols.java:131-154).         *)
Taken ==
    <>[](\A c \in Calls : phase[c] = "sent" =>
            \/ \E s \in Services : ProxyOf[s] = c.to /\ receiver[s].pc = "dead"
            \/ Behind(c))

(* A started proxy has exactly one receiving thread: the comments of        *)
(* ServerPorxy.java:15 and ServerBox.java:11.                               *)
OneReceiver ==
    \A q \in Proxies : Is_Start[q] =>
        Cardinality({s \in Services : ProxyOf[s] = q /\ receiver[s].pc # "none"}) = 1

(* What the two operators of Mailbox are here.                              *)
Addressed(c, s) == c.to = ProxyOf[s] /\ c.name = NameOf[s]
InOrder(d, c) == d.to = c.to /\ TypeOf[c.to] = "tcp"

(* Each service is a mailbox: a call is handled at most once, by an object  *)
(* of its name, and those of one TCP port in the order they connected.      *)
AbstractMailbox == INSTANCE Mailbox WITH
    Objects <- Services,
    pending <- {c \in Calls : phase[c] \in {"open", "abandoned", "sent", "closed", "held"}},
    offered <- {s \in Services : pc[s] \notin {"start", "new", "add"}}
ImplementsMailbox == AbstractMailbox!Spec
=============================================================================
