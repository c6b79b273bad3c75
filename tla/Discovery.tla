------------------------------ MODULE Discovery ------------------------------
(***************************************************************************)
(* How a client program finds a service.  A server JVM asks for a          *)
(* transport, which a thread of its own may or may not open, multicasts    *)
(* the service's ServerBinds (port 223) whatever came of that, and then    *)
(* saves it in its static table ServersContains; a thread of the same JVM  *)
(* (port 224) answers a client's request by multicasting the whole table.  *)
(* A client JVM starts a receiver of those multicasts on its first         *)
(* ProxyClient.CastObj, multicasts a request, sleeps, and looks the name   *)
(* up in its own static table.                                             *)
(*                                                                         *)
(* Threads: one registering thread per server JVM, one request listener    *)
(* per server JVM, any number of calling threads in a JVM, and one         *)
(* receiver for each calling thread that found ServerSave.plugin null.     *)
(* The tables are a ConcurrentHashMap of unsynchronised ArrayLists.        *)
(***************************************************************************)
EXTENDS Naturals, Sequences, FiniteSets

CONSTANTS
    Jvms,          \* the processes
    Callers,       \* client threads that call ProxyClient.CastObj
    Services,      \* one element for each registration, i.e. for each sid
    Names,         \* service names; registrations may share one
    Boxes,         \* names of service boxes
    NameOf,        \* the name a service is registered under
    HostOf,        \* the JVM that registers it
    BoxOf,         \* the box it is put into, or None: it has a port of its own
    JvmOf,         \* the JVM a calling thread runs in
    MaxLoss,       \* bound: datagrams the network or a full buffer may drop
    None           \* null

ASSUME DiscoveryAssumption ==
    /\ NameOf \in [Services -> Names]
    /\ HostOf \in [Services -> Jvms]
    /\ BoxOf \in [Services -> Boxes \cup {None}]
    /\ JvmOf \in [Callers -> Jvms]
    /\ MaxLoss \in Nat
    /\ Jvms \cap Callers = {}
    /\ None \notin Jvms \cup Callers \cup Services \cup Names \cup Boxes
    /\ IsFiniteSet(Callers) /\ IsFiniteSet(Jvms)

(* The threads that add to a table: the registering thread of a JVM, named  *)
(* by the JVM, and the receivers, named by the caller that started them.    *)
Adders == Jvms \cup Callers

Home(a) == IF a \in Callers THEN JvmOf[a] ELSE a

(* A ServerBinds as ServerInfoSave sees it.  ref is the identity of its sid *)
(* String, which is what "==" compares: the registering thread and every    *)
(* deserialisation make a new one.                                          *)
Entry == [svc : Services, ref : Adders \X Nat]

(* An ArrayList with the modification count its iterators check.            *)
ArrayList == [items : Seq(Entry), mods : Nat]
EmptyList == [items |-> << >>, mods |-> 0]

Idle == [pc |-> "idle", entry |-> None, list |-> None, size |-> 0, mods |-> 0]

VARIABLES
    listener,   \* thread of port 224 in a JVM: ServiceRegistry.reqInfo
    requests,   \* requests waiting in its socket
    answer,     \* its two nested iterators, None while it waits for a request
    receiver,   \* thread of port 223 that a caller started
    infobox,    \* the services whose multicast waits in its socket
    boxes,      \* ServerBoxSet.serverBox
    registered,  \* services their JVM has begun to announce, open or not
    adding,     \* how far a thread is in AddServers and ServerInfoSave.Add
    allocs,     \* String objects a thread has made, the source of refs
    servers,    \* ServersContains.servers: name -> the adder of its list
    lists,      \* the ArrayLists, by the thread that made them and by name
    instances,  \* ServerInstances.servers
    plugin,     \* ServerSave.plugin is set
    caller,     \* how far a thread is in CastObj, and for which name
    found,      \* the service of the last proxy CastObj gave it
    losses,     \* datagrams dropped so far
    unsent      \* history: saved when the answer began and not yet sent by it

serverVars == << listener, requests, answer, boxes, registered, instances, unsent >>
tableVars == << adding, allocs, servers, lists >>
clientVars == << plugin, caller, found >>
vars == << listener, requests, answer, receiver, infobox, boxes, registered,
           adding, allocs, servers, lists, instances, plugin, caller, found,
           losses, unsent >>

-----------------------------------------------------------------------------
(* The list the table of JVM j holds for a name, and what the table holds.  *)
List(j, n) == lists[servers[j][n]][n]

Present(j) == {n \in Names : servers[j][n] # None}

Listed(L) == {L.items[i].svc : i \in DOMAIN L.items}

Known(j) == UNION {Listed(List(j, n)) : n \in Present(j)}

(* MulticastSend.SendData on port 223: every receiver that has joined gets  *)
(* the datagram, but for those in the lost set.                             *)
Multicast(s, lost) ==
    /\ infobox' = [c \in Callers |->
          IF receiver[c] = "up" /\ c \notin lost THEN Append(infobox[c], s)
                                                 ELSE infobox[c]]
    /\ losses' = losses + Cardinality(lost)

Droppable(S) == {L \in SUBSET S : losses + Cardinality(L) <= MaxLoss}

Joined == {c \in Callers : receiver[c] = "up"}

-----------------------------------------------------------------------------
Init ==
    /\ listener = [j \in Jvms |-> "none"]
    /\ requests = [j \in Jvms |-> 0]
    /\ answer = [j \in Jvms |-> None]
    /\ receiver = [c \in Callers |-> "none"]
    /\ infobox = [c \in Callers |-> << >>]
    /\ boxes = [j \in Jvms |-> {}]
    /\ registered = {}
    /\ adding = [a \in Adders |-> Idle]
    /\ allocs = [a \in Adders |-> 0]
    /\ servers = [j \in Jvms |-> [n \in Names |-> None]]
    /\ lists = [a \in Adders |-> [n \in Names |-> EmptyList]]
    /\ instances = [j \in Jvms |-> [n \in Names |-> None]]
    /\ plugin = [j \in Jvms |-> FALSE]
    /\ caller = [c \in Callers |-> [pc |-> "idle", name |-> None]]
    /\ found = [c \in Callers |-> None]
    /\ losses = 0
    /\ unsent = [j \in Jvms |-> {}]

-----------------------------------------------------------------------------
(* Registration, in the thread that calls ServiceRegistry.                  *)

(* ServerBoxSet.AddServerBox: the box is known from here on. *)
AddServerBox(j, b) ==
    /\ adding[j].pc = "idle"
    /\ boxes' = [boxes EXCEPT ![j] = @ \cup {b}]
    /\ UNCHANGED << listener, requests, answer, registered, instances, unsent,
                    receiver, infobox, losses, tableVars, clientVars >>

(* The first registration of a JVM starts its listener, and only the first. *)
StartListener(j) ==
    listener' = [listener EXCEPT ![j] = IF @ = "none" THEN "starting" ELSE @]

(* The ServerBinds with its fresh sid, about to be multicast. *)
Describe(a, s, pc) ==
    /\ allocs' = [allocs EXCEPT ![a] = @ + 1]
    /\ adding' = [adding EXCEPT ![a] =
          [pc |-> pc, entry |-> [svc |-> s, ref |-> << a, allocs[a] + 1 >>],
           list |-> None, size |-> 0, mods |-> 0]]

(* ServiceRegistry.AddServers up to the call of NoticeServerInfo.           *)
(* InitServerThread returns before its thread has bound the port, or        *)
(* without a thread when there is no such transport, and nothing here asks. *)
AddServers(s) ==
    LET j == HostOf[s] IN
    /\ BoxOf[s] = None
    /\ s \notin registered
    /\ adding[j].pc = "idle"
    /\ StartListener(j)
    /\ registered' = registered \cup {s}
    /\ Describe(j, s, "notice")
    /\ UNCHANGED << requests, answer, boxes, instances, unsent, receiver,
                    infobox, losses, servers, lists, clientVars >>

(* Mutant: a service is announced although its box does not exist. *)
AddServeBoxUnchecked(s) ==
    LET j == HostOf[s] IN
    /\ BoxOf[s] # None
    /\ s \notin registered
    /\ adding[j].pc = "idle"
    /\ StartListener(j)
    /\ registered' = registered \cup {s}
    /\ Describe(j, s, "notice")
    /\ UNCHANGED << requests, answer, boxes, instances, unsent, receiver,
                    infobox, losses, servers, lists, clientVars >>

(* ServiceRegistry.AddServeBox up to the same call.  Without the box,       *)
(* AddServer returns false, which AddServeBox ignores.                      *)
AddServeBox(s) ==
    LET j == HostOf[s] IN
    /\ BoxOf[s] # None
    /\ s \notin registered
    /\ adding[j].pc = "idle"
    /\ StartListener(j)
    /\ IF BoxOf[s] \in boxes[j]
         THEN /\ registered' = registered \cup {s}
              /\ Describe(j, s, "notice")
         ELSE UNCHANGED << registered, adding, allocs >>
    /\ UNCHANGED << requests, answer, boxes, instances, unsent, receiver,
                    infobox, losses, servers, lists, clientVars >>

(* The multicast comes before the table is written. *)
NoticeServerInfo(j) ==
    /\ adding[j].pc = "notice"
    /\ \E lost \in Droppable(Joined) : Multicast(adding[j].entry.svc, lost)
    /\ adding' = [adding EXCEPT ![j] = [@ EXCEPT !.pc = "check"]]
    /\ UNCHANGED << serverVars, receiver, allocs, servers, lists, clientVars >>

(* AddServers keeps the service and its proxy; AddServeBox has no such line. *)
KeepInstance(j) ==
    /\ adding[j].pc = "keep"
    /\ LET s == adding[j].entry.svc IN
       instances' = [instances EXCEPT ![j][NameOf[s]] =
                        IF BoxOf[s] = None THEN s ELSE @]
    /\ adding' = [adding EXCEPT ![j] = Idle]
    /\ UNCHANGED << listener, requests, answer, boxes, registered, unsent,
                    receiver, infobox, losses, allocs, servers, lists,
                    clientVars >>

-----------------------------------------------------------------------------
(* ServerInfoSave.Add, in a registering thread or in a receiver.            *)

(* What follows it: the rest of AddServers, or the receiver's next message. *)
AfterAdd(a) ==
    adding' = [adding EXCEPT ![a] =
        IF a \in Jvms THEN [Idle EXCEPT !.pc = "keep", !.entry = adding[a].entry]
                      ELSE Idle]

(* Mutant: without containsKey, every entry starts a new list. *)
AddCheckBlind(a) ==
    /\ adding[a].pc = "check"
    /\ adding' = [adding EXCEPT ![a] = [@ EXCEPT !.pc = "put"]]
    /\ UNCHANGED << serverVars, receiver, infobox, losses, allocs, servers,
                    lists, clientVars >>

(* containsKey, get and the scan for the same sid object. *)
AddCheck(a) ==
    LET j == Home(a)
        e == adding[a].entry
        n == NameOf[e.svc]
    IN
    /\ adding[a].pc = "check"
    /\ IF n \notin Present(j)
         THEN adding' = [adding EXCEPT ![a] = [@ EXCEPT !.pc = "put"]]
         ELSE IF \E i \in DOMAIN List(j, n).items :
                      List(j, n).items[i].ref = e.ref
                THEN AfterAdd(a)
                ELSE adding' = [adding EXCEPT ![a] =
                        [pc |-> "add", entry |-> e, list |-> servers[j][n],
                         size |-> Len(List(j, n).items),
                         mods |-> List(j, n).mods]]
    /\ UNCHANGED << serverVars, receiver, infobox, losses, allocs, servers,
                    lists, clientVars >>

(* Mutant: the new list is in the table before its element is in the list.  *)
AddPutEmpty(a) ==
    LET n == NameOf[adding[a].entry.svc] IN
    /\ adding[a].pc = "put"
    /\ lists' = [lists EXCEPT ![a][n] = [items |-> << >>, mods |-> 0]]
    /\ servers' = [servers EXCEPT ![Home(a)][n] = a]
    /\ adding' = [adding EXCEPT ![a] =
          [@ EXCEPT !.pc = "add", !.list = a, !.size = 0, !.mods = 0]]
    /\ UNCHANGED << serverVars, receiver, infobox, losses, allocs, clientVars >>

(* A new list with one element takes the name, whoever took it meanwhile. *)
AddPut(a) ==
    LET e == adding[a].entry
        n == NameOf[e.svc]
    IN
    /\ adding[a].pc = "put"
    /\ lists' = [lists EXCEPT ![a][n] = [items |-> << e >>, mods |-> 1]]
    /\ servers' = [servers EXCEPT ![Home(a)][n] = a]
    /\ AfterAdd(a)
    /\ UNCHANGED << serverVars, receiver, infobox, losses, allocs, clientVars >>

(* listObj.add: elementData[size++] = e.  Of two unsynchronised additions,  *)
(* the later store may use a size read before the earlier one, k.           *)
AddAppend(a) ==
    LET e == adding[a].entry
        n == NameOf[e.svc]
        o == adding[a].list
        L == lists[o][n]
    IN
    /\ adding[a].pc = "add"
    /\ \E k \in (adding[a].size .. Len(L.items)) \cup {Len(L.items)} :
         lists' = [lists EXCEPT ![o][n] =
                     [items |-> Append(SubSeq(L.items, 1, k), e),
                      mods |-> L.mods + 1]]
    /\ AfterAdd(a)
    /\ UNCHANGED << serverVars, receiver, infobox, losses, allocs, servers,
                    clientVars >>

(* The list changed under the scan: ConcurrentModificationException.  The   *)
(* receiver catches it and drops the message; in a registering thread it    *)
(* ends AddServers, and the service is never saved.                         *)
AddFails(a) ==
    /\ adding[a].pc = "add"
    /\ lists[adding[a].list][NameOf[adding[a].entry.svc]].mods # adding[a].mods
    /\ adding' = [adding EXCEPT ![a] = Idle]
    /\ UNCHANGED << serverVars, receiver, infobox, losses, allocs, servers,
                    lists, clientVars >>

-----------------------------------------------------------------------------
(* The listener thread: MulticastRec on port 224 calling RecRequestInfo.    *)

(* MulticastRec.Start opens the socket and joins the group; an exception of *)
(* either is printed and ends the thread.                                   *)
JoinRequests(j) ==
    /\ listener[j] = "starting"
    /\ \E to \in {"up", "failed"} : listener' = [listener EXCEPT ![j] = to]
    /\ UNCHANGED << requests, answer, boxes, registered, instances, unsent,
                    receiver, infobox, losses, tableVars, clientVars >>

(* Mutant: the listener answers without waiting for a request. *)
TakeRequestUnasked(j) ==
    /\ listener[j] = "up" /\ answer[j] = None
    /\ requests' = [requests EXCEPT ![j] = @ - 1]
    /\ answer' = [answer EXCEPT ![j] =
          [must |-> Present(j), done |-> {}, name |-> None, list |-> None,
           cursor |-> 0, mods |-> 0]]
    /\ unsent' = [unsent EXCEPT ![j] = Known(j)]
    /\ UNCHANGED << listener, boxes, registered, instances, receiver, infobox,
                    losses, tableVars, clientVars >>

(* entrySet().iterator(): weakly consistent.  It visits every name present  *)
(* now, and may visit a name that is put while it runs.                     *)
TakeRequest(j) ==
    /\ listener[j] = "up" /\ answer[j] = None /\ requests[j] > 0
    /\ requests' = [requests EXCEPT ![j] = @ - 1]
    /\ answer' = [answer EXCEPT ![j] =
          [must |-> Present(j), done |-> {}, name |-> None, list |-> None,
           cursor |-> 0, mods |-> 0]]
    /\ unsent' = [unsent EXCEPT ![j] = Known(j)]
    /\ UNCHANGED << listener, boxes, registered, instances, receiver, infobox,
                    losses, tableVars, clientVars >>

(* The next map entry, and an iterator over its live list. *)
NextName(j) ==
    /\ answer[j] # None
    /\ answer[j].name = None
    /\ \E n \in Present(j) \ answer[j].done :
         answer' = [answer EXCEPT ![j] =
            [must |-> @.must, done |-> @.done \cup {n}, name |-> n,
             list |-> servers[j][n], cursor |-> 0, mods |-> List(j, n).mods]]
    /\ UNCHANGED << listener, requests, boxes, registered, instances, unsent,
                    receiver, infobox, losses, tableVars, clientVars >>

AnswerList(j) == lists[answer[j].list][answer[j].name]

(* Mutant: the last element of a list is left out. *)
EndOfListEarly(j) ==
    /\ answer[j] # None
    /\ answer[j].name # None
    /\ answer[j].cursor + 1 >= Len(AnswerList(j).items)
    /\ answer' = [answer EXCEPT ![j] =
          [must |-> @.must, done |-> @.done, name |-> None, list |-> None,
           cursor |-> 0, mods |-> 0]]
    /\ UNCHANGED << listener, requests, boxes, registered, instances, unsent,
                    receiver, infobox, losses, tableVars, clientVars >>

(* hasNext() compares the cursor with the current size ... *)
EndOfList(j) ==
    /\ answer[j] # None
    /\ answer[j].name # None
    /\ answer[j].cursor = Len(AnswerList(j).items)
    /\ answer' = [answer EXCEPT ![j] =
          [must |-> @.must, done |-> @.done, name |-> None, list |-> None,
           cursor |-> 0, mods |-> 0]]
    /\ UNCHANGED << listener, requests, boxes, registered, instances, unsent,
                    receiver, infobox, losses, tableVars, clientVars >>

(* ... and next() the modification counts. *)
SendNext(j) ==
    LET L == AnswerList(j)
        s == L.items[answer[j].cursor + 1].svc
    IN
    /\ answer[j] # None
    /\ answer[j].name # None
    /\ answer[j].cursor # Len(L.items)
    /\ L.mods = answer[j].mods
    /\ \E lost \in Droppable(Joined) : Multicast(s, lost)
    /\ answer' = [answer EXCEPT ![j].cursor = @ + 1]
    /\ unsent' = [unsent EXCEPT ![j] = @ \ {s}]
    /\ UNCHANGED << listener, requests, boxes, registered, instances, receiver,
                    tableVars, clientVars >>

(* The exception leaves MulticastRec's loop: the thread ends, and nothing   *)
(* starts another.                                                          *)
ListenerDies(j) ==
    /\ answer[j] # None
    /\ answer[j].name # None
    /\ answer[j].cursor # Len(AnswerList(j).items)
    /\ AnswerList(j).mods # answer[j].mods
    /\ listener' = [listener EXCEPT ![j] = "dead"]
    /\ answer' = [answer EXCEPT ![j] = None]
    /\ unsent' = [unsent EXCEPT ![j] = {}]
    /\ UNCHANGED << requests, boxes, registered, instances, receiver, infobox,
                    losses, tableVars, clientVars >>

(* Mutant: an answer ends before it has come to every name. *)
EndAnswerEarly(j) ==
    /\ answer[j] # None
    /\ answer[j].name = None
    /\ answer' = [answer EXCEPT ![j] = None]
    /\ unsent' = [unsent EXCEPT ![j] = {}]
    /\ UNCHANGED << listener, requests, boxes, registered, instances, receiver,
                    infobox, losses, tableVars, clientVars >>

EndAnswer(j) ==
    /\ answer[j] # None
    /\ answer[j].name = None
    /\ answer[j].must \subseteq answer[j].done
    /\ answer' = [answer EXCEPT ![j] = None]
    /\ unsent' = [unsent EXCEPT ![j] = {}]
    /\ UNCHANGED << listener, requests, boxes, registered, instances, receiver,
                    infobox, losses, tableVars, clientVars >>

-----------------------------------------------------------------------------
(* A receiver thread: MulticastRec on port 223 calling RecServerInfo.       *)

(* It may fail like the listener; plugin stays set, and nothing tries again. *)
JoinInfo(c) ==
    /\ receiver[c] = "starting"
    /\ \E to \in {"up", "failed"} : receiver' = [receiver EXCEPT ![c] = to]
    /\ UNCHANGED << serverVars, infobox, losses, tableVars, clientVars >>

(* Mutant: one receive drains the socket and keeps its first datagram. *)
ReceiveInfoDrains(c) ==
    /\ receiver[c] = "up" /\ adding[c].pc = "idle" /\ infobox[c] # << >>
    /\ infobox' = [infobox EXCEPT ![c] = << >>]
    /\ Describe(c, Head(infobox[c]), "check")
    /\ UNCHANGED << serverVars, receiver, losses, servers, lists, clientVars >>

ReceiveInfo(c) ==
    /\ receiver[c] = "up" /\ adding[c].pc = "idle" /\ infobox[c] # << >>
    /\ infobox' = [infobox EXCEPT ![c] = Tail(@)]
    /\ Describe(c, Head(infobox[c]), "check")
    /\ UNCHANGED << serverVars, receiver, losses, servers, lists, clientVars >>

-----------------------------------------------------------------------------
(* A calling thread: ProxyClient.CastObj and ServerSave.GetServerInfo.      *)

CallerAt(c, pc) == [caller EXCEPT ![c] = [@ EXCEPT !.pc = pc]]

CastObj(c, n) ==
    /\ caller[c].pc = "idle"
    /\ caller' = [caller EXCEPT ![c] =
          [pc |-> IF plugin[JvmOf[c]] THEN "look" ELSE "init", name |-> n]]
    /\ UNCHANGED << serverVars, receiver, infobox, losses, tableVars, plugin,
                    found >>

(* plugin is published before the receiver runs and before the request. *)
InitRecSeverInfo(c) ==
    /\ caller[c].pc = "init"
    /\ plugin' = [plugin EXCEPT ![JvmOf[c]] = TRUE]
    /\ receiver' = [receiver EXCEPT ![c] = "starting"]
    /\ caller' = CallerAt(c, "ask")
    /\ UNCHANGED << serverVars, infobox, losses, tableVars, found >>

ReqServerInfo(c) ==
    LET up == {j \in Jvms : listener[j] = "up"} IN
    /\ caller[c].pc = "ask"
    /\ \E lost \in Droppable(up) :
         /\ requests' = [j \in Jvms |->
               IF j \in up \ lost THEN requests[j] + 1 ELSE requests[j]]
         /\ losses' = losses + Cardinality(lost)
    /\ caller' = CallerAt(c, "sleep")
    /\ UNCHANGED << listener, answer, boxes, registered, instances, unsent,
                    receiver, infobox, tableVars, plugin, found >>

(* Thread.sleep(3000): anything may have happened, or nothing. *)
WakeUp(c) ==
    /\ caller[c].pc = "sleep"
    /\ caller' = CallerAt(c, "look")
    /\ UNCHANGED << serverVars, receiver, infobox, losses, tableVars, plugin,
                    found >>

(* Mutant: only a name with a single service is looked up. *)
GetCurOnly(c) ==
    LET j == JvmOf[c]
        n == caller[c].name
        known == IF n \in Present(j) THEN Listed(List(j, n)) ELSE {}
    IN
    /\ caller[c].pc = "look"
    /\ found' = [found EXCEPT ![c] =
          IF Cardinality(known) = 1 THEN CHOOSE s \in known : TRUE ELSE None]
    /\ caller' = CallerAt(c, "idle")
    /\ UNCHANGED << serverVars, receiver, infobox, losses, tableVars, plugin >>

(* InitPlugin.GetCur: the only entry, or the one cirALL takes. *)
GetCur(c) ==
    LET j == JvmOf[c]
        n == caller[c].name
        known == IF n \in Present(j) THEN Listed(List(j, n)) ELSE {}
    IN
    /\ caller[c].pc = "look"
    /\ IF known = {} THEN found' = [found EXCEPT ![c] = None]
                     ELSE \E s \in known : found' = [found EXCEPT ![c] = s]
    /\ caller' = CallerAt(c, "idle")
    /\ UNCHANGED << serverVars, receiver, infobox, losses, tableVars, plugin >>

-----------------------------------------------------------------------------
Register(j) == NoticeServerInfo(j) \/ KeepInstance(j)

Add(a) == AddCheck(a) \/ AddPut(a) \/ AddAppend(a) \/ AddFails(a)

Listen(j) ==
    \/ JoinRequests(j) \/ TakeRequest(j) \/ NextName(j) \/ EndOfList(j)
    \/ SendNext(j) \/ ListenerDies(j) \/ EndAnswer(j)

Receive(c) == JoinInfo(c) \/ ReceiveInfo(c)

Call(c) == InitRecSeverInfo(c) \/ ReqServerInfo(c) \/ WakeUp(c) \/ GetCur(c)

Next ==
    \/ \E j \in Jvms : \/ \E b \in Boxes : AddServerBox(j, b)
                       \/ Register(j)
                       \/ Listen(j)
    \/ \E s \in Services : AddServers(s) \/ AddServeBox(s)
    \/ \E a \in Adders : Add(a)
    \/ \E c \in Callers : \/ Receive(c)
                          \/ Call(c)
                          \/ \E n \in Names : CastObj(c, n)

Spec == Init /\ [][Next]_vars

(* Every thread the JVM runs is scheduled; whether and when an application  *)
(* registers a service or asks for one is its own affair.                   *)
Fairness ==
    /\ \A j \in Jvms : WF_vars(Register(j)) /\ WF_vars(Listen(j))
    /\ \A a \in Adders : WF_vars(Add(a))
    /\ \A c \in Callers : WF_vars(Receive(c)) /\ WF_vars(Call(c))

FairSpec == Spec /\ Fairness

-----------------------------------------------------------------------------
Pending == [pc : {"idle", "notice", "check", "put", "add", "keep"},
            entry : Entry \cup {None}, list : Adders \cup {None},
            size : Nat, mods : Nat]

Answering == [must : SUBSET Names, done : SUBSET Names,
              name : Names \cup {None}, list : Adders \cup {None},
              cursor : Nat, mods : Nat]

TypeOK ==
    /\ listener \in [Jvms -> {"none", "starting", "up", "failed", "dead"}]
    /\ requests \in [Jvms -> Nat]
    /\ answer \in [Jvms -> Answering \cup {None}]
    /\ receiver \in [Callers -> {"none", "starting", "up", "failed"}]
    /\ infobox \in [Callers -> Seq(Services)]
    /\ boxes \in [Jvms -> SUBSET Boxes]
    /\ registered \in SUBSET Services
    /\ adding \in [Adders -> Pending]
    /\ allocs \in [Adders -> Nat]
    /\ servers \in [Jvms -> [Names -> Adders \cup {None}]]
    /\ lists \in [Adders -> [Names -> ArrayList]]
    /\ instances \in [Jvms -> [Names -> Services \cup {None}]]
    /\ plugin \in [Jvms -> BOOLEAN]
    /\ caller \in [Callers -> [pc : {"idle", "init", "ask", "sleep", "look"},
                               name : Names \cup {None}]]
    /\ found \in [Callers -> Services \cup {None}]
    /\ losses \in Nat
    /\ unsent \in [Jvms -> SUBSET Services]
-----------------------------------------------------------------------------
(* A table has one writer when no two of its JVM's threads add to it: a     *)
(* client JVM with one calling thread, or a server JVM that is no client.   *)
Writers == Callers \cup {HostOf[s] : s \in Services}
OneWriter == \A a, b \in Writers : Home(a) = Home(b) => a = b

(* A service that some JVM registers, and whose box, if it is put into one,  *)
(* that JVM has.  Whether its transport is open is another matter.          *)
Offered(s) == s \in registered /\ (BoxOf[s] # None => BoxOf[s] \in boxes[HostOf[s]])

(* Whatever way an entry came into a table - a registration, a notice, an   *)
(* answer, a list written while it is sent - it stands under its own name   *)
(* and its service is one that a process registered; one for a box its      *)
(* process does not have is nowhere announced (ServerBoxSet.java:42-69).  A *)
(* proxy is for such a service and for the name the call asked for          *)
(* (ProxyClient.java:32).                                                   *)
Authentic ==
    /\ \A j \in Jvms : \A n \in Present(j) : \A s \in Listed(List(j, n)) :
          Offered(s) /\ NameOf[s] = n
    /\ \A c \in Callers : found[c] # None =>
          /\ Offered(found[c])
          /\ caller[c].pc = "idle" => NameOf[found[c]] = caller[c].name

(* No table ever loses a service it held: neither a second registration of  *)
(* a name nor any message removes one (ServerInfoSave.Add).  Two writers of *)
(* one table break it, see RacyTables in the README.                        *)
NothingForgotten == [][\A j \in Jvms : Known(j) \subseteq Known(j)']_vars

(* An answer that runs to its end has multicast every service its JVM had   *)
(* saved when the request was taken, whatever was registered meanwhile      *)
(* (RecRequestInfo.java:36-44 over live collections).                       *)
AnswerIsComplete == [][\A j \in Jvms : EndAnswer(j) => unsent[j] = {}]_vars

(* A service announced while a receiver listens is eventually in the        *)
(* receiver's table, unless a datagram is lost (ServiceRegistry.java:58).   *)
AnnouncedIsLearnt ==
    \A s \in Services, c \in Callers :
        ( /\ adding[HostOf[s]].pc = "notice"
          /\ adding[HostOf[s]].entry.svc = s
          /\ receiver[c] = "up" ) ~> (s \in Known(JvmOf[c]) \/ losses > 0)

(* A service that was saved before a waiting request is answered is         *)
(* eventually in the table of every client whose receiver listens by then,  *)
(* unless a datagram is lost or the answering thread dies (RecRequestInfo,  *)
(* RecServerInfo).                                                          *)
RequestIsAnswered ==
    \A s \in Services, c \in Callers :
        (requests[HostOf[s]] > 0 /\ s \in Known(HostOf[s]) /\ receiver[c] = "up")
          ~> ( \/ s \in Known(JvmOf[c])
               \/ listener[HostOf[s]] = "dead"
               \/ losses > 0 )

(* The services a table holds under a name, in the order they were added    *)
(* and as often as they were.                                               *)
Held(j, n) ==
    IF n \in Present(j) THEN [i \in DOMAIN List(j, n).items |-> List(j, n).items[i].svc]
                        ELSE << >>

(* Discovery implements the directory: the tables are what is known.        *)
Abstract == INSTANCE Directory WITH
    known <- [j \in Jvms |-> [n \in Names |-> Held(j, n)]],
    asked <- [c \in Callers |-> caller[c].name], found <- found
ImplementsDirectory == Abstract!Spec

-----------------------------------------------------------------------------
(* What the code's comments say and the code does not always do.            *)

(* "receives the clients' requests for service information"                 *)
(* (ReqServerInfo.java:18): the listener that a registration starts goes on *)
(* answering.                                                               *)
ListenerStaysUp == \A j \in Jvms : listener[j] # "dead"

(* "keep the service's information for the clients' requests"               *)
(* (ServiceRegistry.java:59): with no datagram lost, a request that a       *)
(* client sends once a service is being registered, while the listener      *)
(* answers and the client's receiver listens, makes the client learn it.    *)
(* The notice goes out before the table is written, so a client that joins  *)
(* and is answered between the two never learns it.                         *)
EveryClientLearns ==
    \A s \in Services, c \in Callers :
        ( /\ s \in registered /\ listener[HostOf[s]] = "up"
          /\ receiver[c] = "up" /\ caller[c].pc = "ask" )
          ~> (s \in Known(JvmOf[c]) \/ listener[HostOf[s]] = "dead")
=============================================================================
