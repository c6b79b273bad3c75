-------------------------- MODULE DiscoveryProofs --------------------------
(***************************************************************************)
(* What holds of discovery for every number of processes, calling threads, *)
(* services and names, and whatever datagrams are lost.                    *)
(***************************************************************************)
EXTENDS Discovery, FiniteSetTheorems, TLAPS

(* The name a thread in ServerInfoSave.Add adds to. *)
NameAdded(a) == NameOf[adding[a].entry.svc]

(* A list has an element once it is in the table, and not before.           *)
TablesInv ==
    /\ \A j \in Jvms : \A n \in Present(j) : lists[servers[j][n]][n].mods > 0
    /\ \A a \in Adders : \A n \in Names :
          lists[a][n].mods > 0 => servers[Home(a)][n] # None

(* A thread in Add has its entry, of a service that was registered; it      *)
(* makes its own list of a name once, and adds to a list of the table.      *)
AddingInv ==
    \A a \in Adders : adding[a].pc # "idle" =>
        /\ adding[a].entry \in Entry
        /\ adding[a].entry.svc \in registered
        /\ adding[a].pc = "put" => lists[a][NameAdded(a)].mods = 0
        /\ adding[a].pc = "add" =>
              /\ adding[a].list \in Adders
              /\ lists[adding[a].list][NameAdded(a)].mods > 0

(* While the list is unchanged, the iterator is within it.                  *)
AnswerInv ==
    \A j \in Jvms : answer[j] # None /\ answer[j].name # None =>
        /\ answer[j].list \in Adders
        /\ AnswerList(j).mods > 0
        /\ answer[j].mods <= AnswerList(j).mods
        /\ answer[j].mods = AnswerList(j).mods =>
              answer[j].cursor <= Len(AnswerList(j).items)

(* What a list holds, a datagram carries and a proxy is for.                *)
Genuine(L, n) ==
    \A i \in DOMAIN L.items : L.items[i].svc \in registered /\ NameOf[L.items[i].svc] = n

ListsInv == \A a \in Adders : \A n \in Names : Genuine(lists[a][n], n)

InfoboxInv ==
    \A c \in Callers : \A i \in DOMAIN infobox[c] : infobox[c][i] \in registered

FoundInv ==
    \A c \in Callers : found[c] # None =>
        /\ found[c] \in registered
        /\ caller[c].pc = "idle" => NameOf[found[c]] = caller[c].name

(* A service is registered for a box only where the box is.                 *)
BoxesInv ==
    \A s \in registered : BoxOf[s] # None => BoxOf[s] \in boxes[HostOf[s]]

Inv == /\ TypeOK /\ TablesInv /\ AddingInv /\ AnswerInv
       /\ ListsInv /\ InfoboxInv /\ FoundInv

-----------------------------------------------------------------------------
(* Every list a table holds is some thread's, and is genuine.               *)
LEMMA TableGenuine ==
  ASSUME Inv, NEW j \in Jvms, NEW n \in Present(j)
  PROVE  Genuine(List(j, n), n)
  <1>1. n \in Names /\ servers[j][n] \in Adders
    BY DEF Inv, Present, TypeOK
  <1> QED BY <1>1 DEF Inv, ListsInv, List

LEMMA InvAuthentic == Inv /\ BoxesInv => Authentic
  <1> SUFFICES ASSUME Inv, BoxesInv PROVE Authentic
    OBVIOUS
  <1>1. \A s \in registered : Offered(s)
    BY DEF BoxesInv, Offered
  <1>2. ASSUME NEW j \in Jvms, NEW n \in Present(j), NEW s \in Listed(List(j, n))
        PROVE  Offered(s) /\ NameOf[s] = n
    BY <1>1, <1>2, TableGenuine DEF Genuine, Listed
  <1>3. \A c \in Callers : found[c] # None =>
            /\ Offered(found[c])
            /\ caller[c].pc = "idle" => NameOf[found[c]] = caller[c].name
    BY <1>1 DEF Inv, FoundInv
  <1> QED BY <1>2, <1>3 DEF Authentic

LEMMA InitInv == Init => Inv
  <1> SUFFICES ASSUME Init PROVE Inv
    OBVIOUS
  <1> USE DEF Init
  <1>1. TypeOK
    BY DiscoveryAssumption DEF TypeOK, Adders, Idle, Pending, ArrayList, EmptyList
  <1>2. TablesInv /\ ListsInv
    BY DEF TablesInv, ListsInv, Genuine, Present, EmptyList, Adders, Home
  <1>3. AddingInv /\ AnswerInv /\ InfoboxInv /\ FoundInv
    BY DEF AddingInv, AnswerInv, InfoboxInv, FoundInv, Idle
  <1> QED BY <1>1, <1>2, <1>3 DEF Inv

-----------------------------------------------------------------------------
(* Facts about lists and sequences.                                         *)

LEMMA AppendGenuine ==
  ASSUME NEW L \in ArrayList, NEW e \in Entry, NEW k \in 0 .. Len(L.items),
         NEW m \in Nat, NEW n, Genuine(L, n),
         e.svc \in registered, NameOf[e.svc] = n
  PROVE  /\ [items |-> Append(SubSeq(L.items, 1, k), e), mods |-> m] \in ArrayList
         /\ Genuine([items |-> Append(SubSeq(L.items, 1, k), e), mods |-> m], n)
  <1> DEFINE q == SubSeq(L.items, 1, k)
             N == [items |-> Append(q, e), mods |-> m]
  <1>1. L.items \in Seq(Entry)
    BY DEF ArrayList
  <1>2. /\ q \in Seq(Entry) /\ Len(q) = k
        /\ \A i \in 1 .. k : q[i] = L.items[i]
    BY <1>1
  <1>3. /\ Append(q, e) \in Seq(Entry) /\ Len(Append(q, e)) = k + 1
        /\ Append(q, e)[k + 1] = e
        /\ \A i \in 1 .. k : Append(q, e)[i] = q[i]
    BY <1>2
  <1>4. N \in ArrayList
    BY <1>3 DEF ArrayList
  <1>5. ASSUME NEW i \in DOMAIN Append(q, e)
        PROVE  Append(q, e)[i].svc \in registered /\ NameOf[Append(q, e)[i].svc] = n
    <2>1. i \in 1 .. k + 1
      BY <1>3
    <2>2. CASE i = k + 1
      BY <2>2, <1>3
    <2>3. CASE i \in 1 .. k
      BY <2>3, <1>1, <1>2, <1>3 DEF Genuine
    <2> QED BY <2>1, <2>2, <2>3
  <1>6. Genuine(N, n)
    BY <1>5 DEF Genuine
  <1> HIDE DEF q
  <1> QED BY <1>4, <1>6 DEF q

(* A service that was registered may be multicast.                          *)
LEMMA MulticastGenuine ==
  ASSUME TypeOK, InfoboxInv, NEW s \in registered, NEW lost \in SUBSET Callers,
         Multicast(s, lost), registered' = registered
  PROVE  /\ infobox' \in [Callers -> Seq(Services)]
         /\ losses' \in Nat
         /\ InfoboxInv'
  <1>1. s \in Services /\ infobox \in [Callers -> Seq(Services)] /\ losses \in Nat
    BY DEF TypeOK
  <1>2. Cardinality(lost) \in Nat
    BY FS_Subset, FS_CardinalityType, DiscoveryAssumption DEF DiscoveryAssumption
  <1>3. \A c \in Callers : infobox'[c] \in {infobox[c], Append(infobox[c], s)}
    BY DEF Multicast
  <1>4. ASSUME NEW c \in Callers, NEW i \in DOMAIN infobox'[c]
        PROVE  infobox'[c][i] \in registered
    <2>1. infobox[c] \in Seq(Services) /\ \A k \in DOMAIN infobox[c] : infobox[c][k] \in registered
      BY <1>1 DEF InfoboxInv
    <2>2. CASE infobox'[c] = infobox[c]
      BY <2>1, <2>2, <1>4
    <2>3. CASE infobox'[c] = Append(infobox[c], s)
      BY <2>1, <2>3, <1>4, <1>1
    <2> QED BY <1>3, <2>2, <2>3
  <1>5. InfoboxInv'
    BY <1>4 DEF InfoboxInv
  <1>6. losses' \in Nat
    BY <1>1, <1>2 DEF Multicast
  <1>7. infobox' \in [Callers -> Seq(Services)]
    BY <1>1 DEF Multicast
  <1> QED BY <1>5, <1>6, <1>7
-----------------------------------------------------------------------------
(* One lemma for each group of actions that change the same variables.      *)

LEMMA DescribeTyped ==
  ASSUME TypeOK, NEW a \in Adders, NEW s \in Services,
         NEW pc \in {"notice", "check"}, Describe(a, s, pc)
  PROVE  /\ allocs' \in [Adders -> Nat]
         /\ adding' \in [Adders -> Pending]
         /\ \E p \in Pending :
               /\ adding' = [adding EXCEPT ![a] = p]
               /\ p.pc = pc /\ p.entry \in Entry /\ p.entry.svc = s
  <1>1. allocs \in [Adders -> Nat] /\ adding \in [Adders -> Pending]
    BY DEF TypeOK
  <1> DEFINE e == [svc |-> s, ref |-> << a, allocs[a] + 1 >>]
             p == [pc |-> pc, entry |-> e, list |-> None, size |-> 0, mods |-> 0]
  <1>2. e \in Entry
    BY <1>1 DEF Entry
  <1>3. p \in Pending
    BY <1>2 DEF Pending
  <1>4. adding' = [adding EXCEPT ![a] = p] /\ allocs' = [allocs EXCEPT ![a] = @ + 1]
    BY DEF Describe
  <1>5. p.pc = pc /\ p.entry = e /\ e.svc = s
    OBVIOUS
  <1> HIDE DEF p, e
  <1>6. allocs' \in [Adders -> Nat] /\ adding' \in [Adders -> Pending]
    BY <1>1, <1>3, <1>4
  <1> QED BY <1>2, <1>3, <1>4, <1>5, <1>6

LEMMA InvRegister ==
  ASSUME Inv, NEW s \in Services, AddServers(s) \/ AddServeBox(s)
  PROVE  Inv'
  <1> DEFINE j == HostOf[s]
  <1> USE DEF Inv
  <1>1. j \in Jvms /\ j \in Adders
    BY DiscoveryAssumption DEF DiscoveryAssumption, Adders
  <1>2. /\ UNCHANGED << servers, lists, answer, infobox, found, caller >>
        /\ registered \subseteq registered'
    BY DEF AddServers, AddServeBox, clientVars
  <1>3. \/ adding' = adding /\ allocs' = allocs
        \/ s \in registered' /\ adding[j].pc = "idle" /\ Describe(j, s, "notice")
    <2>1. CASE AddServers(s)
      BY <2>1 DEF AddServers
    <2>2. CASE AddServeBox(s)
      <3>1. CASE BoxOf[s] \in boxes[j]
        BY <2>2, <3>1 DEF AddServeBox
      <3>2. CASE BoxOf[s] \notin boxes[j]
        BY <2>2, <3>2 DEF AddServeBox
      <3> QED BY <3>1, <3>2
    <2> QED BY <2>1, <2>2
  <1>4. TypeOK'
    <2>1. StartListener(j)
      BY DEF AddServers, AddServeBox
    <2>2. registered' = registered \/ registered' = registered \cup {s}
      BY DEF AddServers, AddServeBox
    <2>3. adding' \in [Adders -> Pending] /\ allocs' \in [Adders -> Nat]
      BY <1>1, <1>3, DescribeTyped DEF TypeOK
    <2>4. listener' \in [Jvms -> {"none", "starting", "up", "failed", "dead"}]
      <3>1. listener \in [Jvms -> {"none", "starting", "up", "failed", "dead"}]
        BY DEF TypeOK
      <3> HIDE DEF Inv, j
      <3> QED BY <1>1, <2>1, <3>1 DEF StartListener
    <2>5. registered' \in SUBSET Services
      BY <2>2 DEF TypeOK
    <2>6. UNCHANGED << requests, answer, boxes, instances, unsent, receiver,
                       infobox, losses, servers, lists, clientVars >>
      BY DEF AddServers, AddServeBox
    <2> QED BY <2>3, <2>4, <2>5, <2>6 DEF TypeOK, clientVars
  <1>5. AddingInv'
    <2>1. CASE adding' = adding /\ allocs' = allocs
      BY <1>2, <2>1 DEF AddingInv, NameAdded
    <2>2. CASE s \in registered' /\ Describe(j, s, "notice")
      <3>1. PICK p \in Pending :
               /\ adding' = [adding EXCEPT ![j] = p]
               /\ p.pc = "notice" /\ p.entry \in Entry /\ p.entry.svc = s
        BY <1>1, <2>2, DescribeTyped
      <3>2. adding \in [Adders -> Pending]
        BY DEF TypeOK
      <3> HIDE DEF j
      <3> QED BY <1>1, <1>2, <2>2, <3>1, <3>2 DEF AddingInv, NameAdded
    <2> QED BY <1>3, <2>1, <2>2
  <1>6. TablesInv'
    BY <1>2 DEF TablesInv, Present
  <1>7. AnswerInv'
    BY <1>2 DEF AnswerInv, AnswerList
  <1>8. ListsInv' /\ InfoboxInv' /\ FoundInv'
    BY <1>2 DEF ListsInv, Genuine, InfoboxInv, FoundInv
  <1> QED BY <1>4, <1>5, <1>6, <1>7, <1>8

LEMMA InvNotice == ASSUME Inv, NEW j \in Jvms, NoticeServerInfo(j) PROVE Inv'
  <1> USE DEF Inv
  <1> DEFINE s == adding[j].entry.svc
  <1>1. j \in Adders /\ s \in registered
    BY DEF AddingInv, Adders, NoticeServerInfo
  <1>2. PICK lost \in Droppable(Joined) : Multicast(s, lost)
    BY DEF NoticeServerInfo
  <1>3. lost \in SUBSET Callers
    BY <1>2 DEF Droppable, Joined
  <1>4. UNCHANGED << listener, requests, answer, receiver, boxes, registered, allocs,
                     servers, lists, instances, plugin, caller, found, unsent >>
    BY DEF NoticeServerInfo, serverVars, clientVars
  <1>5. /\ infobox' \in [Callers -> Seq(Services)]
        /\ losses' \in Nat
        /\ InfoboxInv'
    BY <1>1, <1>2, <1>3, <1>4, MulticastGenuine
  <1>6. adding' = [adding EXCEPT ![j] = [@ EXCEPT !.pc = "check"]]
    BY DEF NoticeServerInfo
  <1>7. TypeOK'
    <2>1. adding[j] \in Pending /\ adding \in [Adders -> Pending]
      BY <1>1 DEF TypeOK
    <2>2. [adding[j] EXCEPT !.pc = "check"] \in Pending
      BY <2>1 DEF Pending
    <2>3. adding' \in [Adders -> Pending]
      BY <2>1, <2>2, <1>6
    <2> QED BY <1>4, <1>5, <2>3 DEF TypeOK
  <1>8. AddingInv'
    <2>1. /\ adding'[j].pc = "check" /\ adding'[j].entry = adding[j].entry
          /\ \A a \in Adders \ {j} : adding'[a] = adding[a]
      BY <1>1, <1>6 DEF TypeOK, Pending
    <2>2. adding[j].entry \in Entry
      BY <1>1 DEF AddingInv, NoticeServerInfo
    <2> QED BY <1>1, <1>4, <2>1, <2>2 DEF AddingInv, NameAdded
  <1>9. TablesInv' /\ AnswerInv' /\ ListsInv' /\ FoundInv'
    BY <1>4 DEF TablesInv, Present, AnswerInv, AnswerList, ListsInv, Genuine, FoundInv
  <1> QED BY <1>5, <1>7, <1>8, <1>9

(* Steps that change only how far a thread is, and what nothing depends on. *)
LEMMA InvAdvance ==
  ASSUME Inv, NEW a \in Adders, AddCheck(a) \/ AddFails(a) \/ KeepInstance(a)
  PROVE  Inv'
  <1> USE DEF Inv
  <1>1. UNCHANGED << listener, requests, answer, receiver, boxes, registered, allocs,
                     servers, lists, infobox, plugin, caller, found, unsent, losses >>
    BY DEF AddCheck, AddFails, KeepInstance, serverVars, clientVars
  <1>2. adding[a].pc # "idle" /\ adding[a].entry \in Entry
        /\ adding[a].entry.svc \in registered /\ NameAdded(a) \in Names
    BY DiscoveryAssumption
       DEF AddingInv, AddCheck, AddFails, KeepInstance, Entry, NameAdded, DiscoveryAssumption
  <1>3. \E p \in Pending :
            /\ adding' = [adding EXCEPT ![a] = p]
            /\ p.pc # "idle" =>
                  /\ p.entry = adding[a].entry
                  /\ p.pc = "put" => lists[a][NameAdded(a)].mods = 0
                  /\ p.pc = "add" => /\ p.list \in Adders
                                     /\ lists[p.list][NameAdded(a)].mods > 0
    <2> DEFINE e == adding[a].entry
               n == NameAdded(a)
               h == Home(a)
    <2>0. Idle \in Pending /\ Idle.pc = "idle"
      BY DEF Idle, Pending
    <2>1. CASE AddFails(a) \/ KeepInstance(a)
      BY <2>0, <2>1 DEF AddFails, KeepInstance
    <2>2. CASE AddCheck(a)
      <3>1. h \in Jvms
        BY DiscoveryAssumption DEF Home, Adders, DiscoveryAssumption
      <3>2. lists[a][n].mods \in Nat /\ lists \in [Adders -> [Names -> ArrayList]]
        BY <1>2 DEF TypeOK, ArrayList
      <3>3. CASE n \notin Present(h)
        <4> DEFINE p == [adding[a] EXCEPT !.pc = "put"]
        <4>1. adding' = [adding EXCEPT ![a] = p]
          BY <2>2, <3>3 DEF AddCheck, NameAdded
        <4>2. lists[a][n].mods = 0
          BY <3>2, <3>3, <1>2 DEF TablesInv, Present
        <4>3. p \in Pending /\ p.pc = "put" /\ p.entry = adding[a].entry
          <5>1. adding[a] \in Pending
            BY DEF TypeOK
          <5> QED BY <5>1 DEF Pending
        <4> HIDE DEF p
        <4> QED BY <4>1, <4>2, <4>3
      <3>4. CASE n \in Present(h)
        <4> DEFINE o == servers[h][n]
                   L == List(h, n)
        <4>1. o \in Adders /\ lists[o][n].mods > 0
          BY <3>1, <3>4 DEF Present, TypeOK, TablesInv
        <4>2. L = lists[o][n] /\ L \in ArrayList
          BY <4>1, <1>2, <3>2 DEF List
        <4>3. Len(L.items) \in Nat /\ L.mods \in Nat
          BY <4>2 DEF ArrayList
        <4> DEFINE p == [pc |-> "add", entry |-> e, list |-> o,
                         size |-> Len(L.items), mods |-> L.mods]
                   q == IF a \in Jvms
                        THEN [Idle EXCEPT !.pc = "keep", !.entry = adding[a].entry]
                        ELSE Idle
        <4>4. \/ adding' = [adding EXCEPT ![a] = p]
              \/ adding' = [adding EXCEPT ![a] = q]
          BY <2>2, <3>4 DEF AddCheck, NameAdded, AfterAdd
        <4>5. p \in Pending /\ q \in Pending
          BY <1>2, <4>1, <4>3 DEF Pending, Idle
        <4>6. /\ q.pc # "put" /\ q.pc # "add"
              /\ q.pc # "idle" => q.entry = adding[a].entry
          BY DEF Idle
        <4>7. p.pc = "add" /\ p.entry = adding[a].entry /\ p.list = o
          OBVIOUS
        <4> HIDE DEF p, q, o, L
        <4> QED BY <4>1, <4>4, <4>5, <4>6, <4>7
      <3> QED BY <3>3, <3>4
    <2> QED BY <2>1, <2>2
  <1>4. adding' \in [Adders -> Pending]
    BY <1>3 DEF TypeOK
  <1>5. instances' \in [Jvms -> [Names -> Services \cup {None}]]
    <2>1. instances \in [Jvms -> [Names -> Services \cup {None}]]
      BY DEF TypeOK
    <2>2. CASE AddCheck(a) \/ AddFails(a)
      BY <2>1, <2>2 DEF AddCheck, AddFails, serverVars
    <2>3. CASE KeepInstance(a)
      <3>1. adding[a].entry.svc \in Services
        BY <1>2 DEF Entry
      <3>2. PICK t : /\ instances' = [instances EXCEPT ![a][NameAdded(a)] = t]
                     /\ t \in {adding[a].entry.svc, instances[a][NameAdded(a)]}
        BY <2>3 DEF KeepInstance, NameAdded
      <3> QED BY <1>2, <2>1, <3>1, <3>2
    <2> QED BY <2>2, <2>3
  <1>6. TypeOK'
    BY <1>1, <1>4, <1>5 DEF TypeOK
  <1>7. AddingInv'
    <2>1. /\ \A b \in Adders \ {a} : adding'[b] = adding[b]
          /\ adding'[a].pc # "idle" =>
                /\ adding'[a].entry = adding[a].entry
                /\ adding'[a].pc = "put" => lists[a][NameAdded(a)].mods = 0
                /\ adding'[a].pc = "add" =>
                      /\ adding'[a].list \in Adders
                      /\ lists[adding'[a].list][NameAdded(a)].mods > 0
      BY <1>3 DEF TypeOK
    <2> QED BY <1>1, <1>2, <2>1 DEF AddingInv, NameAdded
  <1>8. TablesInv' /\ AnswerInv' /\ ListsInv' /\ FoundInv' /\ InfoboxInv'
    BY <1>1 DEF TablesInv, Present, AnswerInv, AnswerList, ListsInv, Genuine, FoundInv,
                InfoboxInv
  <1> QED BY <1>6, <1>7, <1>8

(* Both ways to write a list; the adder's next state is the same.           *)
LEMMA AfterAddTyped ==
  ASSUME Inv, NEW a \in Adders, adding[a].pc # "idle", AfterAdd(a)
  PROVE  \E p \in Pending :
            /\ adding' = [adding EXCEPT ![a] = p]
            /\ p.pc \in {"idle", "keep"}
            /\ p.pc = "keep" => p.entry = adding[a].entry
  <1>1. adding[a].entry \in Entry
    BY DEF Inv, AddingInv
  <1> DEFINE q == [Idle EXCEPT !.pc = "keep", !.entry = adding[a].entry]
  <1>2. Idle \in Pending /\ Idle.pc = "idle"
    BY DEF Idle, Pending
  <1>3. q \in Pending /\ q.pc = "keep" /\ q.entry = adding[a].entry
    BY <1>1 DEF Idle, Pending
  <1>4. adding' = [adding EXCEPT ![a] = q] \/ adding' = [adding EXCEPT ![a] = Idle]
    BY DEF AfterAdd
  <1> HIDE DEF q
  <1> QED BY <1>2, <1>3, <1>4

LEMMA InvPut == ASSUME Inv, NEW a \in Adders, AddPut(a) PROVE Inv'
  <1> USE DEF Inv
  <1> DEFINE e == adding[a].entry
             n == NameAdded(a)
             h == Home(a)
             N == [items |-> << e >>, mods |-> 1]
  <1>1. /\ e \in Entry /\ e.svc \in registered /\ e.svc \in Services /\ n \in Names
        /\ h \in Jvms /\ lists[a][n].mods = 0 /\ adding[a].pc = "put"
    BY DiscoveryAssumption
       DEF AddingInv, AddPut, Entry, NameAdded, DiscoveryAssumption, Home, Adders
  <1>2. UNCHANGED << listener, requests, answer, receiver, boxes, registered, allocs, instances,
                     infobox, plugin, caller, found, unsent, losses >>
    BY DEF AddPut, serverVars, clientVars
  <1>3. /\ lists' = [lists EXCEPT ![a][n] = N]
        /\ servers' = [servers EXCEPT ![h][n] = a]
        /\ AfterAdd(a)
    BY DEF AddPut, NameAdded
  <1>4. PICK p \in Pending :
            /\ adding' = [adding EXCEPT ![a] = p]
            /\ p.pc \in {"idle", "keep"}
            /\ p.pc = "keep" => p.entry = adding[a].entry
    BY <1>1, <1>3, AfterAddTyped
  <1>5. /\ lists \in [Adders -> [Names -> ArrayList]]
        /\ servers \in [Jvms -> [Names -> Adders \cup {None}]]
        /\ adding \in [Adders -> Pending]
    BY DEF TypeOK
  <1>6. N \in ArrayList /\ N.mods = 1 /\ Genuine(N, n)
    BY <1>1 DEF ArrayList, Genuine, NameAdded
  <1> HIDE DEF e, n, h, N
  <1>7. /\ lists' \in [Adders -> [Names -> ArrayList]]
        /\ servers' \in [Jvms -> [Names -> Adders \cup {None}]]
        /\ adding' \in [Adders -> Pending]
    BY <1>1, <1>3, <1>4, <1>5, <1>6
  <1>8. TypeOK'
    BY <1>2, <1>7 DEF TypeOK
  (* The list that is new was empty, so that nobody had it yet.             *)
  <1>9. \A b \in Adders : \A m \in Names :
           lists'[b][m] = IF b = a /\ m = n THEN N ELSE lists[b][m]
    BY <1>1, <1>3, <1>5
  <1>10. \A j \in Jvms : \A m \in Names :
           servers'[j][m] = IF j = h /\ m = n THEN a ELSE servers[j][m]
    BY <1>1, <1>3, <1>5
  <1>11. ASSUME NEW b \in Adders, NEW m \in Names, lists[b][m].mods > 0
         PROVE  lists'[b][m] = lists[b][m]
    BY <1>1, <1>9, <1>11
  <1>12. a # None
    BY DiscoveryAssumption DEF DiscoveryAssumption, Adders
  <1>13. TablesInv'
    <2>1. ASSUME NEW j \in Jvms, NEW m \in Names, servers'[j][m] # None
          PROVE  lists'[servers'[j][m]][m].mods > 0
      <3>1. CASE j = h /\ m = n
        BY <1>6, <1>9, <1>10, <3>1
      <3>2. CASE ~(j = h /\ m = n)
        <4>1. servers'[j][m] = servers[j][m] /\ servers[j][m] \in Adders
          BY <1>5, <1>10, <2>1, <3>2
        <4>2. lists[servers[j][m]][m].mods > 0
          BY <2>1, <4>1 DEF TablesInv, Present
        <4> QED BY <1>11, <4>1, <4>2
      <3> QED BY <3>1, <3>2
    <2>2. ASSUME NEW b \in Adders, NEW m \in Names, lists'[b][m].mods > 0
          PROVE  servers'[Home(b)][m] # None
      <3>0. Home(b) \in Jvms
        BY DiscoveryAssumption DEF DiscoveryAssumption, Home, Adders
      <3>1. CASE b = a /\ m = n
        BY <1>10, <1>12, <3>1, <3>0 DEF h
      <3>2. CASE ~(b = a /\ m = n)
        <4>1. servers[Home(b)][m] # None
          BY <1>9, <2>2, <3>2 DEF TablesInv
        <4> QED BY <1>10, <1>12, <3>0, <4>1
      <3> QED BY <3>1, <3>2
    <2> QED BY <2>1, <2>2 DEF TablesInv, Present
  <1>14. AddingInv'
    <2>1. ASSUME NEW b \in Adders, adding'[b].pc # "idle"
          PROVE  /\ adding'[b].entry \in Entry
                 /\ adding'[b].entry.svc \in registered
                 /\ adding'[b].pc = "put" => lists'[b][NameAdded(b)'].mods = 0
                 /\ adding'[b].pc = "add" =>
                      /\ adding'[b].list \in Adders
                      /\ lists'[adding'[b].list][NameAdded(b)'].mods > 0
      <3>1. CASE b = a
        BY <1>1, <1>4, <1>5, <2>1, <3>1 DEF e
      <3>2. CASE b # a
        <4>1. adding'[b] = adding[b] /\ NameAdded(b)' = NameAdded(b)
          BY <1>4, <1>5, <3>2 DEF NameAdded
        <4>2. adding[b].entry \in Entry /\ NameAdded(b) \in Names
          BY DiscoveryAssumption, <2>1, <4>1
             DEF AddingInv, NameAdded, Entry, DiscoveryAssumption
        <4> QED BY <1>9, <1>11, <2>1, <3>2, <4>1, <4>2 DEF AddingInv
      <3> QED BY <3>1, <3>2
    <2> QED BY <1>2, <2>1 DEF AddingInv
  <1>15. AnswerInv'
    <2>1. ASSUME NEW j \in Jvms, answer[j] # None, answer[j].name # None
          PROVE  AnswerList(j)' = AnswerList(j)
      <3>1. /\ answer[j].list \in Adders /\ answer[j].name \in Names
            /\ AnswerList(j).mods > 0
        BY <2>1 DEF AnswerInv, TypeOK, Answering
      <3> QED BY <1>2, <1>11, <3>1 DEF AnswerList
    <2> QED BY <1>2, <2>1 DEF AnswerInv
  <1>16. ListsInv'
    BY <1>2, <1>6, <1>9 DEF ListsInv, Genuine
  <1>17. FoundInv' /\ InfoboxInv'
    BY <1>2 DEF FoundInv, InfoboxInv
  <1> QED BY <1>8, <1>13, <1>14, <1>15, <1>16, <1>17

LEMMA InvAppend == ASSUME Inv, NEW a \in Adders, AddAppend(a) PROVE Inv'
  <1> USE DEF Inv
  <1> DEFINE e == adding[a].entry
             n == NameAdded(a)
             o == adding[a].list
             L == lists[o][n]
  <1>1. /\ e \in Entry /\ e.svc \in registered /\ n \in Names /\ NameOf[e.svc] = n
        /\ o \in Adders /\ L.mods > 0 /\ adding[a].pc = "add"
    BY DiscoveryAssumption
       DEF AddingInv, AddAppend, Entry, NameAdded, DiscoveryAssumption
  <1>2. UNCHANGED << listener, requests, answer, receiver, boxes, registered, allocs, instances,
                     infobox, plugin, caller, found, unsent, losses, servers >>
    BY DEF AddAppend, serverVars, clientVars
  <1>3. PICK k \in (adding[a].size .. Len(L.items)) \cup {Len(L.items)} :
           lists' = [lists EXCEPT ![o][n] =
                        [items |-> Append(SubSeq(L.items, 1, k), e), mods |-> L.mods + 1]]
    BY DEF AddAppend, NameAdded
  <1>4. AfterAdd(a)
    BY DEF AddAppend
  <1>5. PICK p \in Pending :
            /\ adding' = [adding EXCEPT ![a] = p]
            /\ p.pc \in {"idle", "keep"}
            /\ p.pc = "keep" => p.entry = adding[a].entry
    BY <1>1, <1>4, AfterAddTyped
  <1>6. /\ lists \in [Adders -> [Names -> ArrayList]]
        /\ adding \in [Adders -> Pending]
    BY DEF TypeOK
  <1> DEFINE N == [items |-> Append(SubSeq(L.items, 1, k), e), mods |-> L.mods + 1]
  <1>7. L \in ArrayList /\ Genuine(L, n) /\ L.mods \in Nat /\ Len(L.items) \in Nat
    BY <1>1, <1>6 DEF ListsInv, ArrayList
  <1>8. adding[a].size \in Nat
    BY <1>6 DEF Pending
  <1>9. k \in 0 .. Len(L.items)
    BY <1>7, <1>8
  <1>10. N \in ArrayList /\ Genuine(N, n) /\ N.mods = L.mods + 1
    <2>1. L.mods + 1 \in Nat
      BY <1>7
    <2> HIDE DEF Inv, L, e, n, o
    <2>2. N \in ArrayList /\ Genuine(N, n)
      BY <1>1, <1>7, <1>9, <2>1, AppendGenuine
    <2> QED BY <2>2
  <1>11. lists' = [lists EXCEPT ![o][n] = N]
    BY <1>3
  <1> HIDE DEF e, n, o, N
  <1>12. /\ lists' \in [Adders -> [Names -> ArrayList]]
         /\ adding' \in [Adders -> Pending]
    BY <1>1, <1>5, <1>6, <1>10, <1>11
  <1>13. TypeOK'
    BY <1>2, <1>12 DEF TypeOK
  <1>14. \A b \in Adders : \A m \in Names :
            lists'[b][m] = IF b = o /\ m = n THEN N ELSE lists[b][m]
    BY <1>1, <1>6, <1>11
  <1>15. \A b \in Adders : \A m \in Names :
            /\ lists[b][m].mods \in Nat /\ lists'[b][m].mods \in Nat
            /\ lists[b][m].mods <= lists'[b][m].mods
            /\ lists'[b][m].mods = lists[b][m].mods => lists'[b][m] = lists[b][m]
            /\ lists[b][m].mods > 0 <=> lists'[b][m].mods > 0
    <2>1. ASSUME NEW b \in Adders, NEW m \in Names
          PROVE  /\ lists[b][m].mods \in Nat /\ lists'[b][m].mods \in Nat
                 /\ lists[b][m].mods <= lists'[b][m].mods
                 /\ lists'[b][m].mods = lists[b][m].mods => lists'[b][m] = lists[b][m]
                 /\ lists[b][m].mods > 0 <=> lists'[b][m].mods > 0
      <3>1. lists[b][m].mods \in Nat
        BY <1>6 DEF ArrayList
      <3>2. CASE b = o /\ m = n
        <4>1. lists'[b][m].mods = L.mods + 1 /\ lists[b][m] = L
          BY <1>10, <1>14, <3>2
        <4> HIDE DEF L
        <4> QED BY <1>1, <1>7, <3>1, <4>1
      <3>3. CASE ~(b = o /\ m = n)
        BY <1>14, <3>1, <3>3
      <3> QED BY <3>2, <3>3
    <2> QED BY <2>1
  <1> HIDE DEF L
  <1>16. TablesInv'
    <2>1. \A j \in Jvms : servers[j] \in [Names -> Adders \cup {None}]
      BY DEF TypeOK
    <2> QED BY <1>2, <1>15, <2>1 DEF TablesInv, Present
  <1>17. AddingInv'
    <2>1. ASSUME NEW b \in Adders, adding'[b].pc # "idle"
          PROVE  /\ adding'[b].entry \in Entry
                 /\ adding'[b].entry.svc \in registered
                 /\ adding'[b].pc = "put" => lists'[b][NameAdded(b)'].mods = 0
                 /\ adding'[b].pc = "add" =>
                      /\ adding'[b].list \in Adders
                      /\ lists'[adding'[b].list][NameAdded(b)'].mods > 0
      <3>1. CASE b = a
        BY <1>1, <1>5, <1>6, <2>1, <3>1 DEF e
      <3>2. CASE b # a
        <4>1. adding'[b] = adding[b] /\ NameAdded(b)' = NameAdded(b)
          BY <1>5, <1>6, <3>2 DEF NameAdded
        <4>2. adding[b].entry \in Entry /\ NameAdded(b) \in Names
          BY DiscoveryAssumption, <2>1, <4>1
             DEF AddingInv, NameAdded, Entry, DiscoveryAssumption
        <4>3. \A c \in Adders : lists[c][NameAdded(b)].mods = 0 =>
                                lists'[c][NameAdded(b)].mods = 0
          BY <1>15, <4>2
        <4> QED BY <1>15, <2>1, <4>1, <4>2, <4>3 DEF AddingInv
      <3> QED BY <3>1, <3>2
    <2> QED BY <1>2, <2>1 DEF AddingInv
  <1>18. AnswerInv'
    <2>1. ASSUME NEW j \in Jvms, answer[j] # None, answer[j].name # None
          PROVE  /\ AnswerList(j)'.mods > 0
                 /\ answer[j].mods <= AnswerList(j)'.mods
                 /\ answer[j].mods = AnswerList(j)'.mods =>
                       answer[j].cursor <= Len(AnswerList(j)'.items)
      <3>1. /\ answer[j].list \in Adders /\ answer[j].name \in Names
            /\ answer[j].mods \in Nat
        BY <2>1 DEF AnswerInv, TypeOK, Answering
      <3>2. AnswerList(j)' = lists'[answer[j].list][answer[j].name]
        BY <1>2 DEF AnswerList
      <3>3. /\ AnswerList(j).mods > 0
            /\ answer[j].mods <= AnswerList(j).mods
            /\ answer[j].mods = AnswerList(j).mods =>
                   answer[j].cursor <= Len(AnswerList(j).items)
        BY <2>1 DEF AnswerInv
      <3>4. /\ AnswerList(j).mods \in Nat /\ AnswerList(j)'.mods \in Nat
            /\ AnswerList(j).mods <= AnswerList(j)'.mods
            /\ AnswerList(j)'.mods = AnswerList(j).mods => AnswerList(j)' = AnswerList(j)
        BY <1>15, <3>1, <3>2 DEF AnswerList
      <3>5. answer[j].mods = AnswerList(j)'.mods => AnswerList(j)'.mods = AnswerList(j).mods
        BY <3>1, <3>3, <3>4
      <3> QED BY <3>1, <3>3, <3>4, <3>5
    <2> QED BY <1>2, <2>1 DEF AnswerInv
  <1>19. ListsInv'
    BY <1>2, <1>10, <1>14 DEF ListsInv, Genuine
  <1>20. FoundInv' /\ InfoboxInv'
    BY <1>2 DEF FoundInv, InfoboxInv
  <1> QED BY <1>13, <1>16, <1>17, <1>18, <1>19, <1>20

(* The listener: its iterators, and what it multicasts.                     *)
LEMMA InvListen == ASSUME Inv, NEW j \in Jvms, Listen(j) PROVE Inv'
  <1> USE DEF Inv
  <1>1. UNCHANGED << boxes, registered, instances, receiver, adding, allocs, servers,
                     lists, plugin, caller, found >>
    BY DEF Listen, JoinRequests, TakeRequest, NextName, EndOfList, SendNext,
           ListenerDies, EndAnswer, tableVars, clientVars
  <1>2. TablesInv' /\ AddingInv' /\ ListsInv' /\ FoundInv'
    BY <1>1 DEF TablesInv, Present, AddingInv, NameAdded, ListsInv, Genuine, FoundInv
  <1>3. /\ infobox' \in [Callers -> Seq(Services)]
        /\ losses' \in Nat
        /\ InfoboxInv'
    <2>1. CASE UNCHANGED << infobox, losses >>
      BY <1>1, <2>1 DEF TypeOK, InfoboxInv
    <2>2. CASE SendNext(j)
      <3> DEFINE L == AnswerList(j)
                 s == L.items[answer[j].cursor + 1].svc
      <3>1. /\ answer[j] # None /\ answer[j].name # None
            /\ answer[j].cursor # Len(L.items) /\ L.mods = answer[j].mods
            /\ \E lost \in Droppable(Joined) : Multicast(s, lost)
        BY <2>2 DEF SendNext
      <3>2. /\ answer[j].list \in Adders /\ answer[j].name \in Names
            /\ answer[j].cursor \in Nat
        BY <3>1 DEF AnswerInv, TypeOK, Answering
      <3>3. L \in ArrayList /\ Genuine(L, answer[j].name)
        BY <3>2 DEF TypeOK, ListsInv, AnswerList
      <3>4. L.items \in Seq(Entry) /\ Len(L.items) \in Nat
        BY <3>3 DEF ArrayList
      <3>5. answer[j].cursor <= Len(L.items)
        BY <3>1 DEF AnswerInv
      <3>6. answer[j].cursor + 1 \in DOMAIN L.items
        BY <3>1, <3>2, <3>4, <3>5
      <3>7. s \in registered
        BY <3>3, <3>6 DEF Genuine
      <3>8. PICK lost \in Droppable(Joined) : Multicast(s, lost)
        BY <3>1
      <3>9. lost \in SUBSET Callers
        BY <3>8 DEF Droppable, Joined
      <3> HIDE DEF s, L
      <3> QED BY <1>1, <3>7, <3>8, <3>9, MulticastGenuine
    <2> QED BY <2>1, <2>2 DEF Listen, JoinRequests, TakeRequest, NextName, EndOfList,
               ListenerDies, EndAnswer
  <1>4. listener' \in [Jvms -> {"none", "starting", "up", "failed", "dead"}]
    BY DEF Listen, JoinRequests, TakeRequest, NextName, EndOfList, SendNext,
           ListenerDies, EndAnswer, TypeOK
  <1>5. requests' \in [Jvms -> Nat]
    <2>1. requests \in [Jvms -> Nat]
      BY DEF TypeOK
    <2>2. CASE TakeRequest(j)
      <3>1. requests[j] > 0 /\ requests' = [requests EXCEPT ![j] = requests[j] - 1]
        BY <2>2 DEF TakeRequest
      <3>2. requests[j] - 1 \in Nat
        BY <2>1, <3>1
      <3> QED BY <2>1, <3>1, <3>2
    <2>3. CASE ~TakeRequest(j)
      BY <2>1, <2>3 DEF Listen, JoinRequests, NextName, EndOfList, SendNext,
                        ListenerDies, EndAnswer
    <2> QED BY <2>2, <2>3
  <1>6. unsent' \in [Jvms -> SUBSET Services]
    <2>1. unsent \in [Jvms -> SUBSET Services]
      BY DEF TypeOK
    <2>2. CASE UNCHANGED unsent
      BY <2>1, <2>2
    <2>3. CASE SendNext(j) \/ ListenerDies(j) \/ EndAnswer(j)
      BY <2>1, <2>3 DEF SendNext, ListenerDies, EndAnswer
    <2>4. CASE TakeRequest(j)
      <3>1. Known(j) \subseteq Services
        <4>1. ASSUME NEW n \in Present(j), NEW s \in Listed(List(j, n)) PROVE s \in Services
          <5>1. n \in Names /\ servers[j][n] \in Adders
            BY DEF Present, TypeOK
          <5>2. Genuine(List(j, n), n)
            BY <5>1 DEF ListsInv, List
          <5>3. s \in registered
            BY <5>2, <4>1 DEF Genuine, Listed
          <5> QED BY <5>3 DEF TypeOK
        <4> QED BY <4>1 DEF Known
      <3> QED BY <2>1, <2>4, <3>1 DEF TakeRequest
    <2> QED BY <2>2, <2>3, <2>4 DEF Listen, JoinRequests, NextName, EndOfList
  <1>7. answer' \in [Jvms -> Answering \cup {None}] /\ AnswerInv'
    <2>1. answer \in [Jvms -> Answering \cup {None}]
      BY DEF TypeOK
    <2>2. \E x \in Answering \cup {None} :
             /\ answer' = [answer EXCEPT ![j] = x]
             /\ x # None /\ x.name # None =>
                  /\ x.list \in Adders
                  /\ lists[x.list][x.name].mods > 0
                  /\ x.mods <= lists[x.list][x.name].mods
                  /\ x.mods = lists[x.list][x.name].mods =>
                        x.cursor <= Len(lists[x.list][x.name].items)
      <3>1. CASE JoinRequests(j)
        <4>1. answer' = [answer EXCEPT ![j] = answer[j]]
          BY <2>1, <3>1 DEF JoinRequests
        <4> QED BY <2>1, <4>1 DEF AnswerInv, AnswerList
      <3>2. CASE ListenerDies(j) \/ EndAnswer(j)
        BY <3>2 DEF ListenerDies, EndAnswer
      <3>3. CASE TakeRequest(j)
        <4> DEFINE x == [must |-> Present(j), done |-> {}, name |-> None,
                         list |-> None, cursor |-> 0, mods |-> 0]
        <4>1. answer' = [answer EXCEPT ![j] = x]
          BY <3>3 DEF TakeRequest
        <4>2. x \in Answering /\ x.name = None
          BY DEF Answering, Present
        <4> HIDE DEF x
        <4> QED BY <4>1, <4>2
      <3>4. CASE EndOfList(j)
        <4> DEFINE x == [must |-> answer[j].must, done |-> answer[j].done, name |-> None,
                         list |-> None, cursor |-> 0, mods |-> 0]
        <4>1. answer' = [answer EXCEPT ![j] = x] /\ answer[j] # None
          BY <3>4 DEF EndOfList
        <4>2. x \in Answering /\ x.name = None
          BY <2>1, <4>1 DEF Answering
        <4> HIDE DEF x
        <4> QED BY <4>1, <4>2
      <3>5. CASE NextName(j)
        <4>1. answer[j] # None
          BY <3>5 DEF NextName
        <4>2. PICK n \in Present(j) \ answer[j].done :
                answer' = [answer EXCEPT ![j] =
                  [must |-> @.must, done |-> @.done \cup {n}, name |-> n,
                   list |-> servers[j][n], cursor |-> 0, mods |-> List(j, n).mods]]
          BY <3>5 DEF NextName
        <4> DEFINE x == [must |-> answer[j].must, done |-> answer[j].done \cup {n},
                         name |-> n, list |-> servers[j][n], cursor |-> 0,
                         mods |-> List(j, n).mods]
        <4>3. answer' = [answer EXCEPT ![j] = x]
          BY <4>2
        <4>4. /\ n \in Names /\ servers[j][n] \in Adders
              /\ lists[servers[j][n]][n].mods > 0
          BY DEF Present, TypeOK, TablesInv
        <4>5. List(j, n) = lists[servers[j][n]][n] /\ List(j, n) \in ArrayList
          BY <4>4 DEF List, TypeOK
        <4>6. List(j, n).mods \in Nat /\ 0 <= Len(List(j, n).items)
          BY <4>5 DEF ArrayList
        <4>7. x \in Answering
          BY <2>1, <4>1, <4>4, <4>6 DEF Answering
        <4>8. x.name = n /\ x.list = servers[j][n] /\ x.cursor = 0 /\ x.mods = List(j, n).mods
          OBVIOUS
        <4>9. /\ x.list \in Adders
              /\ lists[x.list][x.name].mods > 0
              /\ x.mods <= lists[x.list][x.name].mods
              /\ x.cursor <= Len(lists[x.list][x.name].items)
          <5> HIDE DEF x
          <5> QED BY <4>4, <4>5, <4>6, <4>8
        <4> HIDE DEF x
        <4> QED BY <4>3, <4>7, <4>9
      <3>6. CASE SendNext(j)
        <4> DEFINE x == [answer[j] EXCEPT !.cursor = @ + 1]
                   L == AnswerList(j)
        <4>1. /\ answer[j] # None /\ answer[j].name # None
              /\ answer[j].cursor # Len(L.items) /\ L.mods = answer[j].mods
          BY <3>6 DEF SendNext
        <4>0. answer' = [answer EXCEPT ![j] = x]
          BY <2>1, <3>6 DEF SendNext
        <4>2. answer[j] \in Answering
          BY <2>1, <4>1
        <4>3. x \in Answering /\ x.cursor = answer[j].cursor + 1 /\ x.name = answer[j].name
              /\ x.list = answer[j].list /\ x.mods = answer[j].mods
          BY <4>2 DEF Answering
        <4>4. /\ answer[j].list \in Adders /\ L.mods > 0
              /\ answer[j].cursor <= Len(L.items) /\ answer[j].name \in Names
          BY <4>1, <4>2 DEF AnswerInv, Answering
        <4>5. L = lists[answer[j].list][answer[j].name] /\ L \in ArrayList
          BY <4>4 DEF AnswerList, TypeOK
        <4>6. Len(L.items) \in Nat /\ answer[j].cursor \in Nat /\ L.mods \in Nat
          BY <4>2, <4>5 DEF ArrayList, Answering
        <4>7. x.cursor <= Len(L.items)
          <5> HIDE DEF L, x
          <5> QED BY <4>1, <4>3, <4>4, <4>6
        <4>8. /\ x.list \in Adders
              /\ lists[x.list][x.name].mods > 0
              /\ x.mods <= lists[x.list][x.name].mods
              /\ x.cursor <= Len(lists[x.list][x.name].items)
          <5> HIDE DEF x, L
          <5> QED BY <4>1, <4>3, <4>4, <4>5, <4>6, <4>7
        <4> HIDE DEF x, L
        <4> QED BY <4>0, <4>3, <4>8
      <3> QED BY <3>1, <3>2, <3>3, <3>4, <3>5, <3>6 DEF Listen
    <2>3. PICK x \in Answering \cup {None} :
             /\ answer' = [answer EXCEPT ![j] = x]
             /\ x # None /\ x.name # None =>
                  /\ x.list \in Adders
                  /\ lists[x.list][x.name].mods > 0
                  /\ x.mods <= lists[x.list][x.name].mods
                  /\ x.mods = lists[x.list][x.name].mods =>
                        x.cursor <= Len(lists[x.list][x.name].items)
      BY <2>2
    <2>4. answer' \in [Jvms -> Answering \cup {None}]
      BY <2>1, <2>3
    <2>5. \A i \in Jvms : answer'[i] = IF i = j THEN x ELSE answer[i]
      BY <2>1, <2>3
    <2>6. AnswerInv'
      BY <1>1, <2>3, <2>5 DEF AnswerInv, AnswerList
    <2> QED BY <2>4, <2>6
  <1>8. TypeOK'
    BY <1>1, <1>3, <1>4, <1>5, <1>6, <1>7 DEF TypeOK
  <1> QED BY <1>2, <1>3, <1>7, <1>8

LEMMA InvReceive == ASSUME Inv, NEW c \in Callers, Receive(c) PROVE Inv'
  <1> USE DEF Inv
  <1>1. UNCHANGED << listener, requests, answer, boxes, registered, instances, losses,
                     servers, lists, plugin, caller, found, unsent >>
    BY DEF Receive, JoinInfo, ReceiveInfo, serverVars, tableVars, clientVars
  <1>2. TablesInv' /\ AnswerInv' /\ ListsInv' /\ FoundInv'
    BY <1>1 DEF TablesInv, Present, AnswerInv, AnswerList, ListsInv, Genuine, FoundInv
  <1>3. CASE JoinInfo(c)
    <2>1. UNCHANGED << infobox, adding, allocs >>
      BY <1>3 DEF JoinInfo, tableVars
    <2>2. receiver' \in [Callers -> {"none", "starting", "up", "failed"}]
      BY <1>3 DEF JoinInfo, TypeOK
    <2>3. TypeOK'
      BY <1>1, <2>1, <2>2 DEF TypeOK
    <2>4. AddingInv' /\ InfoboxInv'
      BY <1>1, <2>1 DEF AddingInv, NameAdded, InfoboxInv
    <2> QED BY <1>2, <2>3, <2>4
  <1>4. CASE ReceiveInfo(c)
    <2> DEFINE s == Head(infobox[c])
    <2>1. /\ infobox[c] # << >> /\ infobox' = [infobox EXCEPT ![c] = Tail(@)]
          /\ Describe(c, s, "check") /\ receiver' = receiver
      BY <1>4 DEF ReceiveInfo
    <2>2. infobox \in [Callers -> Seq(Services)] /\ infobox[c] \in Seq(Services)
      BY DEF TypeOK
    <2>3. s \in Services /\ s \in registered
      BY <2>1, <2>2 DEF InfoboxInv
    <2>4. c \in Adders
      BY DEF Adders
    <2>5. /\ allocs' \in [Adders -> Nat]
          /\ adding' \in [Adders -> Pending]
          /\ \E p \in Pending :
                /\ adding' = [adding EXCEPT ![c] = p]
                /\ p.pc = "check" /\ p.entry \in Entry /\ p.entry.svc = s
      <3> HIDE DEF s
      <3> QED BY <2>1, <2>3, <2>4, DescribeTyped
    <2>6. PICK p \in Pending :
                /\ adding' = [adding EXCEPT ![c] = p]
                /\ p.pc = "check" /\ p.entry \in Entry /\ p.entry.svc = s
      BY <2>5
    <2>7. adding \in [Adders -> Pending]
      BY DEF TypeOK
    <2> HIDE DEF s
    <2>8. AddingInv'
      BY <1>1, <2>3, <2>4, <2>6, <2>7 DEF AddingInv, NameAdded
    <2>9. infobox' \in [Callers -> Seq(Services)]
      BY <2>1, <2>2
    <2>10. InfoboxInv'
      <3>1. ASSUME NEW d \in Callers, NEW i \in DOMAIN infobox'[d]
            PROVE  infobox'[d][i] \in registered
        <4>1. CASE d = c
          <5>1. infobox'[d] = Tail(infobox[c])
            BY <2>1, <2>2, <4>1
          <5>2. i + 1 \in DOMAIN infobox[c] /\ infobox'[d][i] = infobox[c][i + 1]
            BY <2>1, <2>2, <3>1, <5>1
          <5> QED BY <5>2 DEF InfoboxInv
        <4>2. CASE d # c
          BY <2>1, <2>2, <3>1, <4>2 DEF InfoboxInv
        <4> QED BY <4>1, <4>2
      <3> QED BY <1>1, <3>1 DEF InfoboxInv
    <2>11. TypeOK'
      BY <1>1, <2>1, <2>5, <2>9 DEF TypeOK
    <2> QED BY <1>2, <2>8, <2>10, <2>11
  <1> QED BY <1>3, <1>4 DEF Receive

LEMMA InvCall ==
  ASSUME Inv, NEW c \in Callers, Call(c) \/ \E n \in Names : CastObj(c, n)
  PROVE  Inv'
  <1> USE DEF Inv
  <1>1. UNCHANGED << listener, answer, boxes, registered, instances, infobox, adding,
                     allocs, servers, lists, unsent >>
    BY DEF Call, CastObj, InitRecSeverInfo, ReqServerInfo, WakeUp, GetCur,
           serverVars, tableVars
  <1>2. TablesInv' /\ AddingInv' /\ AnswerInv' /\ ListsInv' /\ InfoboxInv'
    BY <1>1 DEF TablesInv, Present, AddingInv, NameAdded, AnswerInv, AnswerList,
                ListsInv, Genuine, InfoboxInv
  <1>3. /\ found \in [Callers -> Services \cup {None}]
        /\ caller \in [Callers -> [pc : {"idle", "init", "ask", "sleep", "look"},
                                   name : Names \cup {None}]]
        /\ receiver \in [Callers -> {"none", "starting", "up", "failed"}]
        /\ plugin \in [Jvms -> BOOLEAN] /\ requests \in [Jvms -> Nat] /\ losses \in Nat
    BY DEF TypeOK
  <1>4. receiver' \in [Callers -> {"none", "starting", "up", "failed"}] /\ plugin' \in [Jvms -> BOOLEAN]
    BY <1>3 DEF Call, CastObj, InitRecSeverInfo, ReqServerInfo, WakeUp, GetCur
  <1>5. requests' \in [Jvms -> Nat] /\ losses' \in Nat
    <2>1. CASE ReqServerInfo(c)
      <3> DEFINE up == {j \in Jvms : listener[j] = "up"}
      <3>1. PICK lost \in Droppable(up) :
              /\ requests' = [j \in Jvms |->
                    IF j \in up \ lost THEN requests[j] + 1 ELSE requests[j]]
              /\ losses' = losses + Cardinality(lost)
        BY <2>1 DEF ReqServerInfo
      <3>2. lost \in SUBSET Jvms
        BY <3>1 DEF Droppable
      <3>3. Cardinality(lost) \in Nat
        BY <3>2, FS_Subset, FS_CardinalityType, DiscoveryAssumption DEF DiscoveryAssumption
      <3> QED BY <1>3, <3>1, <3>3
    <2>2. CASE ~ReqServerInfo(c)
      BY <1>3, <2>2 DEF Call, CastObj, InitRecSeverInfo, WakeUp, GetCur, serverVars
    <2> QED BY <2>1, <2>2
  <1>6. /\ found' \in [Callers -> Services \cup {None}]
        /\ caller' \in [Callers -> [pc : {"idle", "init", "ask", "sleep", "look"},
                                    name : Names \cup {None}]]
        /\ FoundInv'
    <2>1. CASE GetCur(c)
      <3> DEFINE j == JvmOf[c]
                 n == caller[c].name
                 known == IF n \in Present(j) THEN Listed(List(j, n)) ELSE {}
      <3>1. /\ caller' = [caller EXCEPT ![c] = [@ EXCEPT !.pc = "idle"]]
            /\ \/ found' = [found EXCEPT ![c] = None]
               \/ \E s \in known : found' = [found EXCEPT ![c] = s]
        BY <2>1 DEF GetCur, CallerAt
      <3>2. \A s \in known : s \in registered /\ s \in Services /\ NameOf[s] = n
        <4>1. j \in Jvms
          BY DiscoveryAssumption DEF DiscoveryAssumption
        <4>2. ASSUME NEW s \in known PROVE s \in registered /\ NameOf[s] = n
          BY <4>1, <4>2, TableGenuine DEF Genuine, Listed
        <4> QED BY <4>2 DEF TypeOK
      <3> HIDE DEF known, n, j
      <3>3. PICK x \in {None} \cup known : found' = [found EXCEPT ![c] = x]
        BY <3>1
      <3> DEFINE r == [caller[c] EXCEPT !.pc = "idle"]
      <3>4. r \in [pc : {"idle", "init", "ask", "sleep", "look"}, name : Names \cup {None}]
            /\ r.name = n
        BY <1>3 DEF n
      <3>5. caller' = [caller EXCEPT ![c] = r]
        BY <3>1
      <3> HIDE DEF r
      <3>6. FoundInv'
        BY <1>1, <1>3, <3>2, <3>3, <3>4, <3>5 DEF FoundInv
      <3> QED BY <1>3, <3>2, <3>3, <3>4, <3>5, <3>6
    <2>2. CASE ~GetCur(c)
      <3>1. found' = found
        BY <2>2 DEF Call, CastObj, InitRecSeverInfo, ReqServerInfo, WakeUp, clientVars
      <3>2. \E r \in [pc : {"init", "ask", "sleep", "look"}, name : Names \cup {None}] :
              caller' = [caller EXCEPT ![c] = r]
        <4>1. CASE \E n \in Names : CastObj(c, n)
          <5>1. PICK n \in Names : CastObj(c, n)
            BY <4>1
          <5> DEFINE r == [pc |-> IF plugin[JvmOf[c]] THEN "look" ELSE "init", name |-> n]
          <5>2. caller' = [caller EXCEPT ![c] = r]
            BY <5>1 DEF CastObj
          <5>3. r \in [pc : {"init", "ask", "sleep", "look"}, name : Names \cup {None}]
            OBVIOUS
          <5> HIDE DEF r
          <5> QED BY <5>2, <5>3
        <4>2. CASE Call(c)
          <5>1. PICK pc \in {"ask", "sleep", "look"} :
                  caller' = [caller EXCEPT ![c] = [@ EXCEPT !.pc = pc]]
            BY <2>2, <4>2 DEF Call, InitRecSeverInfo, ReqServerInfo, WakeUp, CallerAt
          <5> DEFINE r == [caller[c] EXCEPT !.pc = pc]
          <5>2. r \in [pc : {"init", "ask", "sleep", "look"}, name : Names \cup {None}]
            BY <1>3
          <5>3. caller' = [caller EXCEPT ![c] = r]
            BY <5>1
          <5> QED BY <5>2, <5>3
        <4> QED BY <4>1, <4>2
      <3>3. PICK r \in [pc : {"init", "ask", "sleep", "look"}, name : Names \cup {None}] :
              caller' = [caller EXCEPT ![c] = r]
        BY <3>2
      <3>4. FoundInv'
        BY <1>1, <1>3, <3>1, <3>3 DEF FoundInv
      <3> QED BY <1>3, <3>1, <3>3, <3>4
    <2> QED BY <2>1, <2>2
  <1>7. TypeOK'
    BY <1>1, <1>4, <1>5, <1>6 DEF TypeOK
  <1> QED BY <1>2, <1>6, <1>7

(* A step that makes at most a box.                                         *)
LEMMA InvSame ==
  ASSUME Inv, boxes' \in [Jvms -> SUBSET Boxes],
         UNCHANGED << listener, requests, answer, receiver, infobox, registered, adding,
             allocs, servers, lists, instances, plugin, caller, found, losses, unsent >>
  PROVE  Inv'
  <1>1. TypeOK'
    BY DEF Inv, TypeOK
  <1>2. TablesInv'
    BY DEF Inv, TablesInv, Present
  <1>3. AddingInv'
    BY DEF Inv, AddingInv, NameAdded
  <1>4. AnswerInv'
    BY DEF Inv, AnswerInv, AnswerList
  <1>5. ListsInv'
    BY DEF Inv, ListsInv, Genuine
  <1>6. InfoboxInv' /\ FoundInv'
    BY DEF Inv, InfoboxInv, FoundInv
  <1> QED BY <1>1, <1>2, <1>3, <1>4, <1>5, <1>6 DEF Inv

LEMMA InvStep == Inv /\ [Next]_vars => Inv'
  <1> SUFFICES ASSUME Inv, [Next]_vars PROVE Inv'
    OBVIOUS
  <1>1. ASSUME NEW j \in Jvms, NEW b \in Boxes, AddServerBox(j, b) PROVE Inv'
    <2>1. boxes' \in [Jvms -> SUBSET Boxes]
      BY <1>1 DEF AddServerBox, Inv, TypeOK
    <2>2. UNCHANGED << listener, requests, answer, receiver, infobox, registered, adding,
             allocs, servers, lists, instances, plugin, caller, found, losses, unsent >>
      BY <1>1 DEF AddServerBox, tableVars, clientVars
    <2> QED BY <2>1, <2>2, InvSame
  <1>2. ASSUME NEW j \in Jvms, Register(j) PROVE Inv'
    <2>1. j \in Adders
      BY DEF Adders
    <2> QED BY <1>2, <2>1, InvNotice, InvAdvance DEF Register
  <1>3. ASSUME NEW j \in Jvms, Listen(j) PROVE Inv'
    BY <1>3, InvListen
  <1>4. ASSUME NEW s \in Services, AddServers(s) \/ AddServeBox(s) PROVE Inv'
    BY <1>4, InvRegister
  <1>5. ASSUME NEW a \in Adders, Add(a) PROVE Inv'
    BY <1>5, InvAdvance, InvPut, InvAppend DEF Add
  <1>6. ASSUME NEW c \in Callers, Receive(c) PROVE Inv'
    BY <1>6, InvReceive
  <1>7. ASSUME NEW c \in Callers, Call(c) \/ \E n \in Names : CastObj(c, n) PROVE Inv'
    BY <1>7, InvCall
  <1>8. ASSUME UNCHANGED vars PROVE Inv'
    <2>1. boxes' = boxes /\ UNCHANGED << listener, requests, answer, receiver, infobox,
             registered, adding, allocs, servers, lists, instances, plugin, caller, found,
             losses, unsent >>
      BY <1>8 DEF vars
    <2>2. boxes' \in [Jvms -> SUBSET Boxes]
      BY <2>1 DEF Inv, TypeOK
    <2> QED BY <2>1, <2>2, InvSame
  <1> QED BY <1>1, <1>2, <1>3, <1>4, <1>5, <1>6, <1>7, <1>8 DEF Next

-----------------------------------------------------------------------------
(* The variables of discovery keep their types: in particular the iterator  *)
(* of an answer stays within its list, and a thread in Add has an entry.    *)
THEOREM TypeCorrect == Spec => []TypeOK
  <1>1. Inv => TypeOK
    BY DEF Inv
  <1> QED BY InitInv, InvStep, <1>1, PTL DEF Spec

LEMMA BoxesStep == Inv /\ BoxesInv /\ [Next]_vars => BoxesInv'
  <1> SUFFICES ASSUME Inv, BoxesInv, [Next]_vars PROVE BoxesInv'
    OBVIOUS
  <1>1. ASSUME NEW j \in Jvms, NEW b \in Boxes, AddServerBox(j, b) PROVE BoxesInv'
    BY <1>1, DiscoveryAssumption DEF DiscoveryAssumption, AddServerBox, BoxesInv, Inv, TypeOK
  <1>2. ASSUME NEW s \in Services, AddServers(s) PROVE BoxesInv'
    BY <1>2 DEF AddServers, BoxesInv
  <1>3. ASSUME NEW s \in Services, AddServeBox(s) PROVE BoxesInv'
    BY <1>3 DEF AddServeBox, BoxesInv
  <1>4. ASSUME UNCHANGED << boxes, registered >> PROVE BoxesInv'
    BY <1>4 DEF BoxesInv
  <1>5. ASSUME NEW j \in Jvms, Register(j) \/ Listen(j) PROVE BoxesInv'
    BY <1>4, <1>5 DEF Register, NoticeServerInfo, KeepInstance, Listen, JoinRequests,
       TakeRequest, NextName, EndOfList, SendNext, ListenerDies, EndAnswer, serverVars
  <1>6. ASSUME NEW a \in Adders, Add(a) PROVE BoxesInv'
    BY <1>4, <1>6 DEF Add, AddCheck, AddPut, AddAppend, AddFails, serverVars
  <1>7. ASSUME NEW c \in Callers,
               Receive(c) \/ Call(c) \/ \E n \in Names : CastObj(c, n)
        PROVE  BoxesInv'
    BY <1>4, <1>7 DEF Receive, JoinInfo, ReceiveInfo, Call, CastObj, InitRecSeverInfo,
       ReqServerInfo, WakeUp, GetCur, serverVars
  <1>8. CASE UNCHANGED vars
    BY <1>4, <1>8 DEF vars
  <1> QED BY <1>1, <1>2, <1>3, <1>5, <1>6, <1>7, <1>8 DEF Next

(* Whatever is lost, and however many threads write a table, every entry of *)
(* it is under its own name and of a service that was registered, for a box *)
(* that its process has if for one, and so is the service of a proxy        *)
(* (ServerInfoSave.Add, ServerBoxSet.java:42-69, ProxyClient.java:32).      *)
THEOREM AuthenticSafe == Spec => []Authentic
  <1>1. Init => BoxesInv
    BY DEF Init, BoxesInv
  <1> QED BY <1>1, InitInv, InvStep, BoxesStep, InvAuthentic, PTL DEF Spec

-----------------------------------------------------------------------------
(* Tables with one writer.  Who adds to a table is its writer, so that what *)
(* a thread has seen of its table in Add is still so when it writes.        *)
OwnTable ==
    /\ \A a \in Adders : adding[a].pc # "idle" => a \in Writers
    /\ \A j \in Jvms : \A n \in Present(j) :
          servers[j][n] \in Writers /\ Home(servers[j][n]) = j
    /\ \A a \in Adders :
          adding[a].pc = "put" => servers[Home(a)][NameAdded(a)] = None
    /\ \A a \in Adders : adding[a].pc = "add" =>
          /\ servers[Home(a)][NameAdded(a)] = adding[a].list
          /\ adding[a].size = Len(lists[adding[a].list][NameAdded(a)].items)

LEMMA WriterTyped ==
  /\ Writers \subseteq Adders
  /\ \A a \in Adders : Home(a) \in Jvms
  BY DiscoveryAssumption DEF DiscoveryAssumption, Writers, Adders, Home

(* What every other step leaves alone.                                      *)
LEMMA OtherSteps ==
  ASSUME Inv, [Next]_vars
  PROVE  \/ \E a \in Adders : AddPut(a) \/ AddAppend(a)
         \/ /\ UNCHANGED << servers, lists >>
            /\ \/ UNCHANGED adding
               \/ \E a \in Adders : AddCheck(a)
               \/ \E a \in Adders : \E p \in Pending :
                     /\ adding' = [adding EXCEPT ![a] = p]
                     /\ p.pc \notin {"put", "add"}
                     /\ p.pc # "idle" => a \in Writers \/ adding[a].pc # "idle"
  <1> DEFINE Aside == \E a \in Adders : \E p \in Pending :
                     /\ adding' = [adding EXCEPT ![a] = p]
                     /\ p.pc \notin {"put", "add"}
                     /\ p.pc # "idle" => a \in Writers \/ adding[a].pc # "idle"
             Goal == \/ \E a \in Adders : AddPut(a) \/ AddAppend(a)
                     \/ /\ UNCHANGED << servers, lists >>
                        /\ UNCHANGED adding \/ Aside \/ \E a \in Adders : AddCheck(a)
  <1>0. TypeOK /\ adding \in [Adders -> Pending]
    BY DEF Inv, TypeOK
  <1>1. ASSUME NEW j \in Jvms, NEW b \in Boxes, AddServerBox(j, b) PROVE Goal
    BY <1>1 DEF AddServerBox, tableVars
  <1>2. ASSUME NEW j \in Jvms, NoticeServerInfo(j) PROVE Goal
    <2> DEFINE p == [adding[j] EXCEPT !.pc = "check"]
    <2>1. /\ adding' = [adding EXCEPT ![j] = p] /\ adding[j].pc # "idle"
          /\ UNCHANGED << servers, lists >>
      BY <1>2 DEF NoticeServerInfo
    <2>2. j \in Adders
      BY DEF Adders
    <2>3. p \in Pending /\ p.pc = "check"
      BY <1>0, <2>2 DEF Pending
    <2> HIDE DEF p
    <2> QED BY <2>1, <2>2, <2>3
  <1>3. ASSUME NEW a \in Adders, AddFails(a) \/ KeepInstance(a) PROVE Goal
    <2>1. Idle \in Pending /\ Idle.pc = "idle"
      BY DEF Idle, Pending
    <2>2. adding' = [adding EXCEPT ![a] = Idle] /\ UNCHANGED << servers, lists >>
      BY <1>3 DEF AddFails, KeepInstance
    <2> QED BY <2>1, <2>2
  <1>4. ASSUME NEW j \in Jvms, Listen(j) PROVE Goal
    BY <1>4 DEF Listen, JoinRequests, TakeRequest, NextName, EndOfList, SendNext,
                ListenerDies, EndAnswer, tableVars
  <1>5. ASSUME NEW s \in Services, AddServers(s) \/ AddServeBox(s) PROVE Goal
    <2> DEFINE j == HostOf[s]
    <2>1. j \in Adders /\ j \in Writers
      BY DiscoveryAssumption DEF DiscoveryAssumption, Adders, Writers
    <2>2. UNCHANGED << servers, lists >>
      BY <1>5 DEF AddServers, AddServeBox
    <2>3. adding' = adding \/ Describe(j, s, "notice")
      <3>1. CASE AddServers(s)
        BY <3>1 DEF AddServers
      <3>2. CASE AddServeBox(s)
        BY <3>2 DEF AddServeBox
      <3> QED BY <1>5, <3>1, <3>2
    <2> HIDE DEF j
    <2>4. CASE Describe(j, s, "notice")
      <3>1. PICK p \in Pending :
               /\ adding' = [adding EXCEPT ![j] = p]
               /\ p.pc = "notice" /\ p.entry \in Entry /\ p.entry.svc = s
        BY <1>0, <2>1, <2>4, DescribeTyped
      <3> QED BY <2>1, <2>2, <3>1
    <2> QED BY <2>2, <2>3, <2>4
  <1>6. ASSUME NEW c \in Callers, Receive(c) PROVE Goal
    <2>1. UNCHANGED << servers, lists >>
      BY <1>6 DEF Receive, JoinInfo, ReceiveInfo, tableVars
    <2>2. CASE JoinInfo(c)
      BY <2>1, <2>2 DEF JoinInfo, tableVars
    <2>3. CASE ReceiveInfo(c)
      <3>1. c \in Adders /\ c \in Writers
        BY DEF Adders, Writers
      <3>2. Head(infobox[c]) \in Services
        BY <1>0, <2>3 DEF TypeOK, ReceiveInfo
      <3>3. PICK p \in Pending :
               /\ adding' = [adding EXCEPT ![c] = p]
               /\ p.pc = "check" /\ p.entry \in Entry /\ p.entry.svc = Head(infobox[c])
        BY <1>0, <2>3, <3>1, <3>2, DescribeTyped DEF ReceiveInfo
      <3> QED BY <2>1, <3>1, <3>3
    <2> QED BY <1>6, <2>2, <2>3 DEF Receive
  <1>7. ASSUME NEW c \in Callers, Call(c) \/ \E n \in Names : CastObj(c, n) PROVE Goal
    BY <1>7 DEF Call, CastObj, InitRecSeverInfo, ReqServerInfo, WakeUp, GetCur, tableVars
  <1>8. ASSUME UNCHANGED vars PROVE Goal
    BY <1>8 DEF vars
  <1>9. \A j \in Jvms : j \in Adders
    BY DEF Adders
  <1> HIDE DEF Goal
  <1>10. Goal
    <2>1. ASSUME NEW a \in Adders, Add(a) PROVE Goal
      <3>1. CASE AddCheck(a)
        BY <3>1 DEF Goal, AddCheck
      <3>2. CASE AddPut(a) \/ AddAppend(a)
        BY <3>2 DEF Goal
      <3> QED BY <1>3, <2>1, <3>1, <3>2 DEF Add
    <2>2. ASSUME NEW j \in Jvms, Register(j) PROVE Goal
      BY <1>2, <1>3, <1>9, <2>2 DEF Register
    <2> QED BY <1>1, <1>4, <1>5, <1>6, <1>7, <1>8, <2>1, <2>2 DEF Next
  <1> QED BY <1>10 DEF Goal

(* A step of Add that writes adds the service to its own table.             *)
Learns(a) ==
    \A j \in Jvms :
        Known(j)' = Known(j) \cup (IF j = Home(a) THEN {adding[a].entry.svc} ELSE {})

(* ... behind what the table had under the service's name.                  *)
Lengthens(a) ==
    \A j \in Jvms, m \in Names :
        Held(j, m)' = IF j = Home(a) /\ m = NameAdded(a)
                        THEN Append(Held(j, m), adding[a].entry.svc)
                        ELSE Held(j, m)

(* No list leaves a table, and none loses or moves an element.              *)
Grows ==
    \A j \in Jvms : \A n \in Present(j) :
        /\ n \in Present(j)' /\ servers'[j][n] = servers[j][n]
        /\ \A i \in DOMAIN List(j, n).items :
              /\ i \in DOMAIN List(j, n)'.items
              /\ List(j, n)'.items[i] = List(j, n).items[i]

(* A writer makes a list for a name that has none ...                       *)
LEMMA OwnPut ==
  ASSUME OneWriter, Inv, OwnTable, NEW a \in Adders, AddPut(a)
  PROVE  OwnTable' /\ Learns(a) /\ Lengthens(a) /\ Grows
  <1> DEFINE e == adding[a].entry
             n == NameAdded(a)
             h == Home(a)
             N == [items |-> << e >>, mods |-> 1]
  <1>1. /\ n \in Names /\ h \in Jvms /\ a \in Writers /\ servers[h][n] = None
        /\ e \in Entry /\ adding[a].pc = "put"
    BY DiscoveryAssumption, WriterTyped
       DEF OwnTable, AddPut, Inv, AddingInv, Entry, NameAdded, DiscoveryAssumption
  <1>2. /\ lists' = [lists EXCEPT ![a][n] = N]
        /\ servers' = [servers EXCEPT ![h][n] = a]
        /\ AfterAdd(a)
    BY DEF AddPut, NameAdded
  <1>3. PICK p \in Pending :
            /\ adding' = [adding EXCEPT ![a] = p]
            /\ p.pc \in {"idle", "keep"}
            /\ p.pc = "keep" => p.entry = adding[a].entry
    BY <1>1, <1>2, AfterAddTyped
  <1>4. /\ lists \in [Adders -> [Names -> ArrayList]]
        /\ servers \in [Jvms -> [Names -> Adders \cup {None}]]
        /\ adding \in [Adders -> Pending]
    BY DEF Inv, TypeOK
  <1> HIDE DEF e, n, h, N
  <1>5. \A b \in Adders : \A m \in Names :
           lists'[b][m] = IF b = a /\ m = n THEN N ELSE lists[b][m]
    BY <1>1, <1>2, <1>4
  <1>6. \A j \in Jvms : \A m \in Names :
           servers'[j][m] = IF j = h /\ m = n THEN a ELSE servers[j][m]
    BY <1>1, <1>2, <1>4
  <1>7. a # None
    BY DiscoveryAssumption DEF DiscoveryAssumption, Adders
  <1>8. ASSUME NEW j \in Jvms, NEW m \in Present(j)
        PROVE  m \in Names /\ servers'[j][m] = servers[j][m] /\ List(j, m)' = List(j, m)
    <2>1. /\ m \in Names /\ servers[j][m] \in Adders /\ Home(servers[j][m]) = j
          /\ ~(j = h /\ m = n)
      BY <1>1, WriterTyped DEF Present, OwnTable
    <2>2. servers'[j][m] = servers[j][m]
      BY <1>6, <2>1
    <2>3. ~(servers[j][m] = a /\ m = n)
      BY <2>1 DEF h
    <2>4. lists'[servers[j][m]][m] = lists[servers[j][m]][m]
      BY <1>5, <2>1, <2>3
    <2> QED BY <2>1, <2>2, <2>4 DEF List
  <1>9. ASSUME NEW j \in Jvms
        PROVE  Present(j)' = Present(j) \cup (IF j = h THEN {n} ELSE {})
    BY <1>1, <1>6, <1>7 DEF Present
  <1>10. Learns(a)
    <2>1. Listed(N) = {e.svc}
      BY DEF N, Listed
    <2>2. ASSUME NEW j \in Jvms, NEW m \in Names, j = h, m = n
          PROVE  List(j, m)' = N
      BY <1>1, <1>5, <1>6, <2>2 DEF List
    <2>3. ASSUME NEW j \in Jvms, NEW m \in Names, j = h, m = n
          PROVE  Listed(List(j, m))' = {e.svc}
      BY <2>1, <2>2, <2>3 DEF Listed
    <2>4. ASSUME NEW j \in Jvms, NEW m \in Present(j)
          PROVE  Listed(List(j, m))' = Listed(List(j, m))
      BY <1>8, <2>4 DEF Listed
    <2>5. ASSUME NEW j \in Jvms
          PROVE  Known(j)' = Known(j) \cup (IF j = h THEN {e.svc} ELSE {})
      <3>1. CASE j = h
        BY <1>1, <1>9, <2>3, <2>4, <3>1 DEF Known
      <3>2. CASE j # h
        BY <1>9, <2>4, <3>2 DEF Known
      <3> QED BY <3>1, <3>2
    <2> QED BY <2>5 DEF Learns, h, e
  <1>11. \A b \in Adders : b # a => adding'[b] = adding[b] /\ NameAdded(b)' = NameAdded(b)
    BY <1>3, <1>4 DEF NameAdded
  <1>12. adding'[a] = p
    BY <1>3, <1>4
  <1>13. \A b \in Adders : adding'[b].pc # "idle" => b \in Writers
    BY <1>1, <1>11, <1>12 DEF OwnTable
  <1>14. ASSUME NEW j \in Jvms, NEW m \in Present(j)'
         PROVE  servers'[j][m] \in Writers /\ Home(servers'[j][m]) = j
    <2>1. m \in Names
      BY DEF Present
    <2>2. CASE j = h /\ m = n
      BY <1>1, <1>6, <2>2 DEF h
    <2>3. CASE ~(j = h /\ m = n)
      <3>1. servers'[j][m] = servers[j][m] /\ m \in Present(j)
        BY <1>6, <1>14, <2>1, <2>3 DEF Present
      <3> QED BY <3>1 DEF OwnTable
    <2> QED BY <2>2, <2>3
  <1>15. ASSUME NEW b \in Adders, adding'[b].pc \in {"put", "add"}
         PROVE  /\ adding'[b] = adding[b] /\ NameAdded(b)' = NameAdded(b)
                /\ NameAdded(b) \in Names
                /\ servers'[Home(b)] = servers[Home(b)]
                /\ \A c \in Adders : Home(c) = Home(b) => lists'[c] = lists[c]
    <2>1. b # a
      BY <1>3, <1>12, <1>15
    <2>2. adding'[b] = adding[b] /\ b \in Writers
      BY <1>11, <1>15, <2>1 DEF OwnTable
    <2>3. Home(b) # h /\ Home(b) \in Jvms
      BY <1>1, <2>1, <2>2, WriterTyped DEF OneWriter, h
    <2>4. servers'[Home(b)] = servers[Home(b)]
      BY <1>2, <1>4, <2>3
    <2>5. \A c \in Adders : Home(c) = Home(b) => lists'[c] = lists[c]
      BY <1>2, <1>4, <2>3 DEF h
    <2>6. NameAdded(b) \in Names
      BY <1>15, <2>2, DiscoveryAssumption
         DEF Inv, AddingInv, Entry, NameAdded, DiscoveryAssumption
    <2> QED BY <1>11, <2>1, <2>2, <2>4, <2>5, <2>6
  <1>16. ASSUME NEW b \in Adders, adding'[b].pc = "put"
         PROVE  servers'[Home(b)][NameAdded(b)'] = None
    BY <1>15, <1>16 DEF OwnTable
  <1>17. ASSUME NEW b \in Adders, adding'[b].pc = "add"
         PROVE  /\ servers'[Home(b)][NameAdded(b)'] = adding'[b].list
                /\ adding'[b].size = Len(lists'[adding'[b].list][NameAdded(b)'].items)
    <2>1. /\ adding'[b] = adding[b] /\ NameAdded(b)' = NameAdded(b)
          /\ NameAdded(b) \in Names
          /\ servers'[Home(b)] = servers[Home(b)]
          /\ \A c \in Adders : Home(c) = Home(b) => lists'[c] = lists[c]
      BY <1>15, <1>17
    <2>2. /\ servers[Home(b)][NameAdded(b)] = adding[b].list
          /\ adding[b].size = Len(lists[adding[b].list][NameAdded(b)].items)
          /\ adding[b].list \in Adders
      BY <1>17, <2>1 DEF OwnTable, Inv, AddingInv
    <2>3. adding[b].list # None
      BY <2>2, DiscoveryAssumption DEF DiscoveryAssumption, Adders
    <2>4. NameAdded(b) \in Present(Home(b)) /\ Home(b) \in Jvms
      BY <2>1, <2>2, <2>3, WriterTyped DEF Present
    <2>5. Home(adding[b].list) = Home(b)
      BY <2>2, <2>4 DEF OwnTable
    <2> QED BY <2>1, <2>2, <2>5
  <1>18. Grows
    BY <1>8, <1>9 DEF Grows
  <1>19. ASSUME NEW j \in Jvms, NEW m \in Names
         PROVE  Held(j, m)' = IF j = h /\ m = n THEN Append(Held(j, m), e.svc)
                                                 ELSE Held(j, m)
    <2>1. CASE j = h /\ m = n
      <3>1. m \in Present(j)' /\ List(j, m)' = N /\ m \notin Present(j)
        BY <1>1, <1>5, <1>6, <1>7, <2>1 DEF List, Present
      <3>2. Held(j, m) = << >> /\ Held(j, m)' = [i \in DOMAIN N.items |-> N.items[i].svc]
        BY <3>1 DEF Held
      <3>3. [i \in DOMAIN N.items |-> N.items[i].svc] = Append(<< >>, e.svc)
        BY DEF N
      <3> QED BY <2>1, <3>2, <3>3
    <2>2. CASE ~(j = h /\ m = n) /\ m \in Present(j)
      BY <1>8, <1>9, <2>2 DEF Held
    <2>3. CASE ~(j = h /\ m = n) /\ m \notin Present(j)
      BY <1>9, <2>3 DEF Held
    <2> QED BY <2>1, <2>2, <2>3
  <1>20. Lengthens(a)
    BY <1>19 DEF Lengthens, h, n, e
  <1> QED BY <1>10, <1>13, <1>14, <1>16, <1>17, <1>18, <1>20 DEF OwnTable

(* An element added at the end of a list is all that is new in it.          *)
LEMMA AppendListed ==
  ASSUME NEW L \in ArrayList, NEW e \in Entry, NEW m
  PROVE  Listed([items |-> Append(L.items, e), mods |-> m]) = Listed(L) \cup {e.svc}
  <1> DEFINE T == Append(L.items, e)
  <1>1. L.items \in Seq(Entry)
    BY DEF ArrayList
  <1> DEFINE k == Len(L.items)
  <1>2. /\ k \in Nat /\ DOMAIN L.items = 1 .. k
        /\ DOMAIN T = 1 .. (k + 1) /\ T[k + 1] = e
        /\ \A i \in 1 .. k : T[i] = L.items[i]
    BY <1>1
  <1> HIDE DEF T, k
  <1>3. DOMAIN T = DOMAIN L.items \cup {k + 1}
    BY <1>2
  <1>4. {T[i].svc : i \in DOMAIN T} = {L.items[i].svc : i \in DOMAIN L.items} \cup {e.svc}
    BY <1>2, <1>3
  <1> QED BY <1>4 DEF Listed, T

LEMMA AppendHeld ==
  ASSUME NEW L \in ArrayList, NEW e \in Entry
  PROVE  LET T == Append(L.items, e) IN
         [i \in DOMAIN T |-> T[i].svc]
           = Append([i \in DOMAIN L.items |-> L.items[i].svc], e.svc)
  <1> DEFINE T == Append(L.items, e)
             S == [i \in DOMAIN L.items |-> L.items[i].svc]
             k == Len(L.items)
  <1>1. L.items \in Seq(Entry)
    BY DEF ArrayList
  <1>2. /\ k \in Nat /\ DOMAIN L.items = 1 .. k
        /\ DOMAIN T = 1 .. (k + 1) /\ T[k + 1] = e
        /\ \A i \in 1 .. k : T[i] = L.items[i]
    BY <1>1
  <1>3. S \in Seq(Services) /\ Len(S) = k /\ DOMAIN S = 1 .. k
    <2>1. \A i \in 1 .. k : L.items[i].svc \in Services
      <3>1. \A i \in 1 .. k : L.items[i] \in Entry
        BY <1>1
      <3> QED BY <3>1 DEF Entry
    <2>2. S = [i \in 1 .. k |-> L.items[i].svc]
      BY <1>2
    <2> HIDE DEF k
    <2> QED BY <1>2, <2>1, <2>2
  <1>4. e.svc \in Services
    BY DEF Entry
  <1>5. /\ Append(S, e.svc) = [i \in 1 .. (k + 1) |-> Append(S, e.svc)[i]]
        /\ \A i \in 1 .. (k + 1) : Append(S, e.svc)[i] = IF i = k + 1 THEN e.svc ELSE S[i]
    BY <1>2, <1>3, <1>4
  <1>6. \A i \in 1 .. k : S[i] = T[i].svc
    BY <1>2
  <1> HIDE DEF T, S, k
  <1>7. \A i \in 1 .. (k + 1) : Append(S, e.svc)[i] = T[i].svc
    BY <1>2, <1>5, <1>6
  <1>8. [i \in DOMAIN T |-> T[i].svc] = Append(S, e.svc)
    BY <1>2, <1>5, <1>7
  <1> QED BY <1>8 DEF T, S

(* ... and lengthens the list of one that has: nothing was added meanwhile. *)
LEMMA OwnAppend ==
  ASSUME OneWriter, Inv, OwnTable, NEW a \in Adders, AddAppend(a)
  PROVE  OwnTable' /\ Learns(a) /\ Lengthens(a) /\ Grows
  <1> DEFINE e == adding[a].entry
             n == NameAdded(a)
             h == Home(a)
             o == adding[a].list
             L == lists[o][n]
             N == [items |-> Append(L.items, e), mods |-> L.mods + 1]
  <1>1. /\ n \in Names /\ h \in Jvms /\ a \in Writers /\ e \in Entry
        /\ adding[a].pc = "add" /\ o \in Adders
        /\ servers[h][n] = o /\ adding[a].size = Len(L.items)
    BY DiscoveryAssumption, WriterTyped
       DEF OwnTable, AddAppend, Inv, AddingInv, Entry, NameAdded, DiscoveryAssumption
  <1>2. /\ lists \in [Adders -> [Names -> ArrayList]]
        /\ servers \in [Jvms -> [Names -> Adders \cup {None}]]
        /\ adding \in [Adders -> Pending]
    BY DEF Inv, TypeOK
  <1>3. L \in ArrayList /\ L.items \in Seq(Entry) /\ Len(L.items) \in Nat
    BY <1>1, <1>2 DEF ArrayList
  <1>4. lists' = [lists EXCEPT ![o][n] = N]
    <2>1. PICK k \in (adding[a].size .. Len(L.items)) \cup {Len(L.items)} :
             lists' = [lists EXCEPT ![o][n] =
                         [items |-> Append(SubSeq(L.items, 1, k), e),
                          mods |-> L.mods + 1]]
      BY DEF AddAppend, NameAdded
    <2>2. k = Len(L.items)
      BY <1>1, <1>3, <2>1
    <2>3. SubSeq(L.items, 1, k) = L.items
      BY <1>3, <2>2
    <2> QED BY <2>1, <2>3
  <1>5. UNCHANGED servers /\ AfterAdd(a)
    BY DEF AddAppend
  <1>6. PICK p \in Pending :
            /\ adding' = [adding EXCEPT ![a] = p]
            /\ p.pc \in {"idle", "keep"}
            /\ p.pc = "keep" => p.entry = adding[a].entry
    BY <1>1, <1>5, AfterAddTyped
  <1>7. o # None
    BY <1>1, DiscoveryAssumption DEF DiscoveryAssumption, Adders
  <1>8. Home(o) = h
    BY <1>1, <1>7 DEF OwnTable, Present
  <1>9. Listed(N) = Listed(L) \cup {e.svc}
    BY <1>1, <1>3, AppendListed
  <1> HIDE DEF e, n, h, o, L, N
  <1>10. \A b \in Adders : \A m \in Names :
            lists'[b][m] = IF b = o /\ m = n THEN N ELSE lists[b][m]
    BY <1>1, <1>2, <1>4
  <1>11. ASSUME NEW j \in Jvms, NEW m \in Present(j)
         PROVE  Listed(List(j, m))' = Listed(List(j, m)) \cup
                    (IF j = h /\ m = n THEN {e.svc} ELSE {})
    <2>1. /\ m \in Names /\ servers[j][m] \in Adders /\ Home(servers[j][m]) = j
      BY WriterTyped DEF Present, OwnTable
    <2>2. CASE j = h /\ m = n
      <3>1. List(j, m) = L /\ List(j, m)' = N
        BY <1>1, <1>5, <1>10, <2>2 DEF List, L
      <3>2. Listed(List(j, m))' = Listed(N)
        BY <3>1 DEF Listed
      <3> QED BY <1>9, <2>2, <3>1, <3>2
    <2>3. CASE ~(j = h /\ m = n)
      <3>1. ~(servers[j][m] = o /\ m = n)
        BY <1>8, <2>1, <2>3
      <3>2. List(j, m)' = List(j, m)
        BY <1>5, <1>10, <2>1, <3>1 DEF List
      <3>3. Listed(List(j, m))' = Listed(List(j, m))
        BY <3>2 DEF Listed
      <3> QED BY <2>3, <3>3
    <2> QED BY <2>2, <2>3
  <1>12. Learns(a)
    <2>1. n \in Present(h)
      BY <1>1, <1>7 DEF Present
    <2>2. \A j \in Jvms : Present(j)' = Present(j)
      BY <1>5 DEF Present
    <2>3. ASSUME NEW j \in Jvms
          PROVE  Known(j)' = Known(j) \cup (IF j = h THEN {e.svc} ELSE {})
      BY <1>11, <2>1, <2>2 DEF Known
    <2> QED BY <2>3 DEF Learns, h, e
  <1>13. \A b \in Adders : b # a => adding'[b] = adding[b] /\ NameAdded(b)' = NameAdded(b)
    BY <1>2, <1>6 DEF NameAdded
  <1>14. adding'[a] = p
    BY <1>2, <1>6
  <1>15. \A b \in Adders : adding'[b].pc # "idle" => b \in Writers
    BY <1>1, <1>13, <1>14 DEF OwnTable
  <1>16. \A j \in Jvms : \A m \in Present(j)' :
            servers'[j][m] \in Writers /\ Home(servers'[j][m]) = j
    BY <1>5 DEF OwnTable, Present
  <1>17. ASSUME NEW b \in Adders, adding'[b].pc \in {"put", "add"}
         PROVE  /\ adding'[b] = adding[b] /\ NameAdded(b)' = NameAdded(b)
                /\ NameAdded(b) \in Names
                /\ \A c \in Adders : Home(c) = Home(b) => lists'[c] = lists[c]
    <2>1. b # a
      BY <1>6, <1>14, <1>17
    <2>2. adding'[b] = adding[b] /\ b \in Writers
      BY <1>13, <1>17, <2>1 DEF OwnTable
    <2>3. Home(b) # h
      BY <1>1, <2>1, <2>2 DEF OneWriter, h
    <2>4. \A c \in Adders : Home(c) = Home(b) => lists'[c] = lists[c]
      BY <1>2, <1>4, <1>8, <2>3
    <2>5. NameAdded(b) \in Names
      BY <1>17, <2>2, DiscoveryAssumption
         DEF Inv, AddingInv, Entry, NameAdded, DiscoveryAssumption
    <2> QED BY <1>13, <2>1, <2>2, <2>4, <2>5
  <1>18. ASSUME NEW b \in Adders, adding'[b].pc = "put"
         PROVE  servers'[Home(b)][NameAdded(b)'] = None
    BY <1>5, <1>17, <1>18 DEF OwnTable
  <1>19. ASSUME NEW b \in Adders, adding'[b].pc = "add"
         PROVE  /\ servers'[Home(b)][NameAdded(b)'] = adding'[b].list
                /\ adding'[b].size = Len(lists'[adding'[b].list][NameAdded(b)'].items)
    <2>1. /\ adding'[b] = adding[b] /\ NameAdded(b)' = NameAdded(b)
          /\ NameAdded(b) \in Names
          /\ \A c \in Adders : Home(c) = Home(b) => lists'[c] = lists[c]
      BY <1>17, <1>19
    <2>2. /\ servers[Home(b)][NameAdded(b)] = adding[b].list
          /\ adding[b].size = Len(lists[adding[b].list][NameAdded(b)].items)
          /\ adding[b].list \in Adders
      BY <1>19, <2>1 DEF OwnTable, Inv, AddingInv
    <2>3. adding[b].list # None
      BY <2>2, DiscoveryAssumption DEF DiscoveryAssumption, Adders
    <2>4. NameAdded(b) \in Present(Home(b)) /\ Home(b) \in Jvms
      BY <2>1, <2>2, <2>3, WriterTyped DEF Present
    <2>5. Home(adding[b].list) = Home(b)
      BY <2>2, <2>4 DEF OwnTable
    <2> QED BY <1>5, <2>1, <2>2, <2>5
  <1>20. ASSUME NEW j \in Jvms, NEW m \in Present(j)
         PROVE  /\ m \in Present(j)' /\ servers'[j][m] = servers[j][m]
                /\ \A i \in DOMAIN List(j, m).items :
                      /\ i \in DOMAIN List(j, m)'.items
                      /\ List(j, m)'.items[i] = List(j, m).items[i]
    <2>1. m \in Names /\ servers[j][m] \in Adders
      BY WriterTyped DEF Present, OwnTable
    <2>2. m \in Present(j)' /\ servers'[j][m] = servers[j][m]
      BY <1>5 DEF Present
    <2>3. List(j, m)' = IF servers[j][m] = o /\ m = n THEN N ELSE List(j, m)
      BY <1>5, <1>10, <2>1 DEF List
    <2>4. servers[j][m] = o /\ m = n => List(j, m) = L
      BY DEF List, L
    <2>5. \A i \in DOMAIN L.items : i \in DOMAIN N.items /\ N.items[i] = L.items[i]
      BY <1>1, <1>3 DEF N
    <2> QED BY <2>2, <2>3, <2>4, <2>5
  <1>21. Grows
    BY <1>20 DEF Grows
  <1>22. [i \in DOMAIN N.items |-> N.items[i].svc]
            = Append([i \in DOMAIN L.items |-> L.items[i].svc], e.svc)
    BY <1>1, <1>3, AppendHeld DEF N
  <1>23. ASSUME NEW j \in Jvms, NEW m \in Names
         PROVE  Held(j, m)' = IF j = h /\ m = n THEN Append(Held(j, m), e.svc)
                                                 ELSE Held(j, m)
    <2>1. Present(j)' = Present(j)
      BY <1>5 DEF Present
    <2>2. CASE j = h /\ m = n
      <3>1. m \in Present(j) /\ List(j, m) = L /\ List(j, m)' = N
        BY <1>1, <1>5, <1>7, <1>10, <2>2 DEF List, L, Present
      <3>2. /\ Held(j, m) = [i \in DOMAIN L.items |-> L.items[i].svc]
            /\ Held(j, m)' = [i \in DOMAIN N.items |-> N.items[i].svc]
        BY <2>1, <3>1 DEF Held
      <3> QED BY <1>22, <2>2, <3>2
    <2>3. CASE ~(j = h /\ m = n) /\ m \in Present(j)
      <3>1. ~(servers[j][m] = o /\ m = n) /\ servers[j][m] \in Adders
        BY <1>8, <2>3, WriterTyped DEF OwnTable
      <3>2. List(j, m)' = List(j, m)
        BY <1>5, <1>10, <3>1 DEF List
      <3> QED BY <2>1, <2>3, <3>2 DEF Held
    <2>4. CASE ~(j = h /\ m = n) /\ m \notin Present(j)
      BY <2>1, <2>4 DEF Held
    <2> QED BY <2>2, <2>3, <2>4
  <1>24. Lengthens(a)
    BY <1>23 DEF Lengthens, h, n, e
  <1> QED BY <1>12, <1>15, <1>16, <1>18, <1>19, <1>21, <1>24 DEF OwnTable

(* A step that writes no table moves at most one thread, and what that      *)
(* thread then holds of a table is what the table is.                       *)
LEMMA OwnMove ==
  ASSUME OwnTable, TypeOK, UNCHANGED << servers, lists >>,
         NEW a \in Adders, NEW p, adding' = [adding EXCEPT ![a] = p],
         p.pc # "idle" => a \in Writers,
         p.pc = "put" => servers[Home(a)][NameOf[p.entry.svc]] = None,
         p.pc = "add" =>
            /\ servers[Home(a)][NameOf[p.entry.svc]] = p.list
            /\ p.size = Len(lists[p.list][NameOf[p.entry.svc]].items)
  PROVE  OwnTable'
  <1>1. /\ adding'[a] = p /\ NameAdded(a)' = NameOf[p.entry.svc]
        /\ \A b \in Adders : b # a =>
              adding'[b] = adding[b] /\ NameAdded(b)' = NameAdded(b)
    BY DEF TypeOK, NameAdded
  <1>2. \A b \in Adders : adding'[b].pc # "idle" => b \in Writers
    BY <1>1 DEF OwnTable
  <1>3. \A j \in Jvms : \A n \in Present(j)' :
           servers'[j][n] \in Writers /\ Home(servers'[j][n]) = j
    BY DEF OwnTable, Present
  <1>4. \A b \in Adders : adding'[b].pc = "put" => servers'[Home(b)][NameAdded(b)'] = None
    BY <1>1 DEF OwnTable
  <1>5. \A b \in Adders : adding'[b].pc = "add" =>
          /\ servers'[Home(b)][NameAdded(b)'] = adding'[b].list
          /\ adding'[b].size = Len(lists'[adding'[b].list][NameAdded(b)'].items)
    BY <1>1 DEF OwnTable
  <1> QED BY <1>2, <1>3, <1>4, <1>5 DEF OwnTable

(* containsKey, get and the scan see the table as it is.                    *)
LEMMA OwnCheck ==
  ASSUME Inv, OwnTable, NEW a \in Adders, AddCheck(a)
  PROVE  OwnTable'
  <1> DEFINE e == adding[a].entry
             n == NameOf[e.svc]
             h == Home(a)
             keep == [Idle EXCEPT !.pc = "keep", !.entry = e]
  <1>1. /\ UNCHANGED << servers, lists >> /\ TypeOK /\ adding[a].pc = "check"
        /\ a \in Writers /\ adding[a] \in Pending /\ e \in Entry
    BY DEF AddCheck, Inv, TypeOK, OwnTable, AddingInv
  <1>2. n \in Names
    BY <1>1, DiscoveryAssumption DEF Entry, DiscoveryAssumption
  <1>3. CASE n \notin Present(h)
    <2> DEFINE p == [adding[a] EXCEPT !.pc = "put"]
    <2>1. adding' = [adding EXCEPT ![a] = p]
      BY <1>3 DEF AddCheck
    <2>2. p.pc = "put" /\ p.entry = e
      BY <1>1 DEF Pending
    <2>3. servers[h][n] = None
      BY <1>2, <1>3 DEF Present
    <2> HIDE DEF p
    <2> QED BY <1>1, <2>1, <2>2, <2>3, OwnMove
  <1>4. CASE n \in Present(h)
    <2> DEFINE p == [pc |-> "add", entry |-> e, list |-> servers[h][n],
                     size |-> Len(List(h, n).items), mods |-> List(h, n).mods]
    <2>1. \/ adding' = [adding EXCEPT ![a] = p]
          \/ adding' = [adding EXCEPT ![a] = keep]
          \/ adding' = [adding EXCEPT ![a] = Idle]
      BY <1>4 DEF AddCheck, AfterAdd
    <2>2. CASE adding' = [adding EXCEPT ![a] = p]
      <3>1. /\ p.pc = "add" /\ p.entry = e /\ p.list = servers[h][n]
            /\ p.size = Len(lists[p.list][n].items)
        BY DEF List
      <3> HIDE DEF p
      <3> QED BY <1>1, <2>2, <3>1, OwnMove
    <2>3. CASE adding' = [adding EXCEPT ![a] = keep]
      <3>1. keep.pc = "keep"
        BY DEF Idle
      <3> HIDE DEF keep
      <3> QED BY <1>1, <2>3, <3>1, OwnMove
    <2>4. CASE adding' = [adding EXCEPT ![a] = Idle]
      <3>1. Idle.pc = "idle"
        BY DEF Idle
      <3> QED BY <1>1, <2>4, <3>1, OwnMove
    <2> QED BY <2>1, <2>2, <2>3, <2>4
  <1> QED BY <1>3, <1>4

LEMMA OwnStep ==
  ASSUME OneWriter, Inv, OwnTable, [Next]_vars
  PROVE  OwnTable' /\ \A j \in Jvms : Known(j) \subseteq Known(j)'
  <1>1. CASE \E a \in Adders : AddPut(a) \/ AddAppend(a)
    BY <1>1, OwnPut, OwnAppend DEF Learns
  <1>2. CASE UNCHANGED << servers, lists >>
    <2>1. \A j \in Jvms : Known(j)' = Known(j)
      BY <1>2 DEF Known, Present, List, Listed
    <2>2. CASE UNCHANGED adding
      BY <1>2, <2>1, <2>2 DEF OwnTable, Present, NameAdded
    <2>3. CASE \E a \in Adders : AddCheck(a)
      BY <2>1, <2>3, OwnCheck
    <2>4. CASE \E a \in Adders : \E p \in Pending :
                  /\ adding' = [adding EXCEPT ![a] = p]
                  /\ p.pc \notin {"put", "add"}
                  /\ p.pc # "idle" => a \in Writers \/ adding[a].pc # "idle"
      <3>1. PICK a \in Adders, p \in Pending :
                  /\ adding' = [adding EXCEPT ![a] = p]
                  /\ p.pc \notin {"put", "add"}
                  /\ p.pc # "idle" => a \in Writers \/ adding[a].pc # "idle"
        BY <2>4
      <3>2. p.pc # "idle" => a \in Writers
        BY <3>1 DEF OwnTable
      <3>3. OwnTable'
        BY <1>2, <3>1, <3>2, OwnMove DEF Inv
      <3> QED BY <2>1, <3>3
    <2> QED BY <1>2, <2>2, <2>3, <2>4, OtherSteps, <1>1
  <1> QED BY <1>1, <1>2, OtherSteps

LEMMA InitOwnTable == Init => OwnTable
  <1> SUFFICES ASSUME Init PROVE OwnTable
    OBVIOUS
  <1>1. \A a \in Adders : adding[a].pc = "idle"
    BY DEF Init, Idle
  <1>2. \A j \in Jvms : Present(j) = {}
    BY DEF Init, Present
  <1> QED BY <1>1, <1>2 DEF OwnTable

(* Where every table has one writer, no table loses a service it held,      *)
(* whatever is registered, received or dropped, although Add reads the list *)
(* and writes it in separate steps (ServerInfoSave.Add).                    *)
THEOREM NothingForgottenSafe == ASSUME OneWriter PROVE Spec => NothingForgotten
  <1>1. Init => Inv /\ OwnTable
    BY InitInv, InitOwnTable
  <1>2. Inv /\ OwnTable /\ [Next]_vars => (Inv /\ OwnTable)'
    BY InvStep, OwnStep
  <1>3. Inv /\ OwnTable /\ [Next]_vars =>
           [\A j \in Jvms : Known(j) \subseteq Known(j)']_vars
    BY OwnStep
  <1> QED BY <1>1, <1>2, <1>3, PTL DEF Spec, NothingForgotten
=============================================================================
