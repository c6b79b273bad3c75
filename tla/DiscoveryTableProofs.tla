------------------------ MODULE DiscoveryTableProofs ------------------------
(***************************************************************************)
(* Where every table has one writer, discovery is a Directory, and an      *)
(* answer that runs to its end is complete.  Where a serving process is no *)
(* client and registers no name twice, its listener goes on answering.     *)
(***************************************************************************)
EXTENDS DiscoveryProofs

(* Discovery is a Directory.                                                *)

CallerInv == \A c \in Callers : caller[c].pc # "idle" => caller[c].name \in Names

(* The directory's view of what the processes know and callers asked for.   *)
KnownMap == [j \in Jvms |-> [n \in Names |-> Held(j, n)]]
AskedMap == [c \in Callers |-> caller[c].name]

(* Only Add changes what is known. *)
LEMMA KnownSame ==
  ASSUME UNCHANGED << servers, lists >> PROVE KnownMap' = KnownMap
  BY DEF KnownMap, Held, Present, List

(* A step of Add that writes: a process learns of a registered service.     *)
LEMMA DirectoryAdd ==
  ASSUME OneWriter, Inv, OwnTable, NEW a \in Adders, AddPut(a) \/ AddAppend(a)
  PROVE  Abstract!Next /\ UNCHANGED caller
  <1> DEFINE s == adding[a].entry.svc
             h == Home(a)
             n == NameOf[s]
  <1>1. /\ h \in Jvms /\ s \in registered /\ s \in Services
        /\ UNCHANGED << registered, caller, found >>
    BY WriterTyped
       DEF Inv, TypeOK, AddingInv, AddPut, AddAppend, serverVars, clientVars
  <1>2. n \in Names /\ NameAdded(a) = n
    BY <1>1, DiscoveryAssumption DEF DiscoveryAssumption, NameAdded
  <1>3. \A j \in Jvms, m \in Names :
           Held(j, m)' = IF j = h /\ m = n THEN Append(Held(j, m), s) ELSE Held(j, m)
    BY <1>2, OwnPut, OwnAppend DEF Lengthens
  <1> HIDE DEF s, h, n
  <1>4. UNCHANGED AskedMap
    BY <1>1 DEF AskedMap
  <1>5. KnownMap' = [KnownMap EXCEPT ![h][n] = Append(@, s)]
    BY <1>1, <1>2, <1>3 DEF KnownMap
  <1>6. Abstract!Learn(h, s)
    BY <1>1, <1>4, <1>5 DEF Abstract!Learn, KnownMap, AskedMap, n
  <1> QED BY <1>1, <1>6 DEF Abstract!Next

(* A name that a thread looks up in its table has the services there that   *)
(* the directory would answer with.                                         *)
LEMMA DirectoryFind ==
  ASSUME Inv, CallerInv, NEW c \in Callers, GetCur(c)
  PROVE  Abstract!Find(c) /\ CallerInv'
  <1> DEFINE j == JvmOf[c]
             n == caller[c].name
             listed == IF n \in Present(j) THEN Listed(List(j, n)) ELSE {}
             held == Held(j, n)
  <1>1. /\ j \in Jvms /\ n \in Names /\ n # None
        /\ caller \in [Callers -> [pc : {"idle", "init", "ask", "sleep", "look"},
                                    name : Names \cup {None}]]
    BY DiscoveryAssumption
       DEF DiscoveryAssumption, CallerInv, GetCur, Inv, TypeOK
  <1>2. /\ UNCHANGED << registered, servers, lists >>
        /\ caller' = CallerAt(c, "idle")
        /\ \/ listed = {} /\ found' = [found EXCEPT ![c] = None]
           \/ \E s \in listed : found' = [found EXCEPT ![c] = s]
    BY DEF GetCur, serverVars, tableVars
  <1>3. listed = {held[i] : i \in DOMAIN held} /\ (listed = {} => held = << >>)
    <2> DEFINE items == List(j, n).items
    <2>1. CASE n \in Present(j)
      <3>1. servers[j][n] \in Adders /\ lists \in [Adders -> [Names -> ArrayList]]
        BY <1>1, <2>1 DEF Inv, TypeOK, Present
      <3>2. items \in Seq(Entry)
        BY <1>1, <3>1 DEF List, ArrayList
      <3>3. listed = {items[i].svc : i \in DOMAIN items}
        BY <2>1 DEF Listed
      <3>4. held = [i \in DOMAIN items |-> items[i].svc]
        BY <2>1 DEF Held
      <3>5. DOMAIN items = {} => items = << >>
        <4> HIDE DEF items
        <4>1. Len(items) \in Nat /\ DOMAIN items = 1 .. Len(items)
          BY <3>2
        <4>2. DOMAIN items = {} => Len(items) = 0
          <5>1. Len(items) # 0 => 1 \in 1 .. Len(items)
            BY <4>1
          <5> QED BY <4>1, <5>1
        <4> QED BY <3>2, <4>2
      <3> HIDE DEF items, listed, held
      <3>6. ASSUME items = << >> PROVE held = << >>
        <4>1. held = [i \in 1 .. 0 |-> items[i].svc]
          BY <3>4, <3>6
        <4>2. held \in Seq(Services) /\ Len(held) = 0
          BY <4>1
        <4> QED BY <4>2
      <3> QED BY <3>3, <3>4, <3>5, <3>6
    <2>2. CASE n \notin Present(j)
      BY <2>2 DEF Held
    <2> QED BY <2>1, <2>2
  <1>4. \A d \in Callers : caller'[d].name = caller[d].name
    BY <1>1, <1>2 DEF CallerAt
  <1> HIDE DEF listed, held, j, n
  <1>5. UNCHANGED AskedMap /\ AskedMap[c] = n
    BY <1>4 DEF AskedMap, n
  <1>6. UNCHANGED KnownMap /\ KnownMap[j][n] = held
    BY <1>1, <1>2, KnownSame DEF KnownMap, held
  <1>7. \/ held = << >> /\ found' = [found EXCEPT ![c] = None]
        \/ \E i \in DOMAIN held : found' = [found EXCEPT ![c] = held[i]]
    BY <1>2, <1>3
  <1>8. Abstract!Find(c)
    BY <1>1, <1>2, <1>5, <1>6, <1>7 DEF Abstract!Find, KnownMap, AskedMap, j
  <1>9. CallerInv'
    BY <1>1, <1>2 DEF CallerInv, CallerAt
  <1> QED BY <1>8, <1>9

LEMMA DirectoryCall ==
  ASSUME Inv, CallerInv, NEW c \in Callers,
         Call(c) \/ \E n \in Names : CastObj(c, n)
  PROVE  [Abstract!Next]_(Abstract!vars) /\ CallerInv'
  <1>1. caller \in [Callers -> [pc : {"idle", "init", "ask", "sleep", "look"},
                                name : Names \cup {None}]]
    BY DEF Inv, TypeOK
  <1>2. CASE GetCur(c)
    BY <1>2, DirectoryFind DEF Abstract!Next
  <1>3. CASE InitRecSeverInfo(c) \/ ReqServerInfo(c) \/ WakeUp(c)
    <2>1. /\ UNCHANGED << registered, servers, lists, found >>
          /\ caller[c].pc # "idle"
          /\ \E pc \in {"ask", "sleep", "look"} : caller' = CallerAt(c, pc)
      BY <1>3 DEF InitRecSeverInfo, ReqServerInfo, WakeUp, serverVars, tableVars
    <2>2. (\A d \in Callers : caller'[d].name = caller[d].name) /\ CallerInv'
      BY <1>1, <2>1 DEF CallerAt, CallerInv
    <2>3. UNCHANGED << KnownMap, AskedMap >>
      BY <2>1, <2>2, KnownSame DEF AskedMap
    <2> QED BY <2>1, <2>2, <2>3 DEF Abstract!vars, KnownMap, AskedMap
  <1>4. CASE \E n \in Names : CastObj(c, n)
    <2>1. PICK n \in Names : CastObj(c, n)
      BY <1>4
    <2>2. /\ UNCHANGED << registered, servers, lists, found >>
          /\ caller' = [caller EXCEPT ![c] =
                [pc |-> IF plugin[JvmOf[c]] THEN "look" ELSE "init", name |-> n]]
      BY <2>1 DEF CastObj, serverVars, tableVars
    <2>3. AskedMap' = [AskedMap EXCEPT ![c] = n] /\ CallerInv'
      BY <1>1, <2>2 DEF AskedMap, CallerInv
    <2>4. UNCHANGED KnownMap
      BY <2>2, KnownSame
    <2>5. Abstract!Ask(c, n)
      BY <2>2, <2>3, <2>4 DEF Abstract!Ask, KnownMap, AskedMap
    <2> QED BY <2>3, <2>5 DEF Abstract!Next
  <1> QED BY <1>2, <1>3, <1>4 DEF Call

LEMMA DirectoryStep ==
  ASSUME OneWriter, Inv, OwnTable, CallerInv, [Next]_vars
  PROVE  [Abstract!Next]_(Abstract!vars) /\ CallerInv'
  <1>1. CASE \E a \in Adders : AddPut(a) \/ AddAppend(a)
    BY <1>1, DirectoryAdd DEF CallerInv
  <1>2. CASE \E c \in Callers : Call(c) \/ \E n \in Names : CastObj(c, n)
    BY <1>2, DirectoryCall
  <1>3. CASE \E s \in Services : AddServers(s) \/ AddServeBox(s)
    <2>1. PICK s \in Services : AddServers(s) \/ AddServeBox(s)
      BY <1>3
    <2>2. /\ s \notin registered /\ registered' \in {registered, registered \cup {s}}
          /\ UNCHANGED << servers, lists, caller, found >>
      BY <2>1 DEF AddServers, AddServeBox, clientVars
    <2>3. UNCHANGED << KnownMap, AskedMap >> /\ CallerInv'
      BY <2>2, KnownSame DEF AskedMap, CallerInv
    <2>4. CASE registered' = registered
      BY <2>2, <2>3, <2>4 DEF Abstract!vars, KnownMap, AskedMap
    <2>5. CASE registered' = registered \cup {s}
      <3>1. Abstract!Register(s)
        BY <2>2, <2>3, <2>5 DEF Abstract!Register, KnownMap, AskedMap
      <3> QED BY <2>3, <3>1 DEF Abstract!Next
    <2> QED BY <2>2, <2>4, <2>5
  <1>4. CASE \/ \E j \in Jvms : \/ \E b \in Boxes : AddServerBox(j, b)
                                \/ Register(j) \/ Listen(j)
             \/ \E a \in Adders : AddCheck(a) \/ AddFails(a)
             \/ \E c \in Callers : Receive(c)
             \/ UNCHANGED vars
    <2>1. UNCHANGED << registered, servers, lists, caller, found >>
      BY <1>4 DEF AddServerBox, Register, NoticeServerInfo, KeepInstance, Listen,
         JoinRequests, TakeRequest, NextName, EndOfList, SendNext, ListenerDies,
         EndAnswer, AddCheck, AddFails, Receive, JoinInfo, ReceiveInfo, serverVars,
         tableVars, clientVars, vars
    <2>2. UNCHANGED << KnownMap, AskedMap >> /\ CallerInv'
      BY <2>1, KnownSame DEF AskedMap, CallerInv
    <2> QED BY <2>1, <2>2 DEF Abstract!vars, KnownMap, AskedMap
  <1> QED BY <1>1, <1>2, <1>3, <1>4 DEF Next, Add

(* Where every table has one writer, discovery is a Directory, whatever is  *)
(* lost: a process learns only of services that were registered, keeps      *)
(* each behind those it has, as often as it learns of it, and a lookup      *)
(* gives a service its process has under the asked name, or nothing when it *)
(* has none (ServerInfoSave.Add, InitPlugin.GetCur).                        *)
THEOREM DiscoveryIsDirectory == ASSUME OneWriter PROVE Spec => ImplementsDirectory
  <1>1. Init => Inv /\ OwnTable /\ CallerInv
    BY InitInv, InitOwnTable DEF Init, CallerInv
  <1>2. Init => Abstract!Init
    <2> SUFFICES ASSUME Init PROVE Abstract!Init
      OBVIOUS
    <2>1. \A j \in Jvms, n \in Names : Held(j, n) = << >>
      BY DEF Init, Held, Present
    <2>2. \A c \in Callers : caller[c].name = None
      BY DEF Init
    <2> QED BY <2>1, <2>2 DEF Init, Abstract!Init
  <1>3. Inv /\ OwnTable /\ CallerInv /\ [Next]_vars =>
            /\ (Inv /\ OwnTable /\ CallerInv)'
            /\ [Abstract!Next]_(Abstract!vars)
    BY InvStep, OwnStep, DirectoryStep
  <1> QED BY <1>1, <1>2, <1>3, PTL DEF Spec, ImplementsDirectory, Abstract!Spec

-----------------------------------------------------------------------------
(* An answer that ends is complete.                                         *)

(* What an answer has yet to send is in a list it will come to, or after    *)
(* the cursor in the list it is at; it will come to no list that left.      *)
Ahead(j, s) ==
    \/ \E n \in answer[j].must \ answer[j].done : s \in Listed(List(j, n))
    \/ /\ answer[j].name # None
       /\ \E i \in DOMAIN AnswerList(j).items :
             i > answer[j].cursor /\ AnswerList(j).items[i].svc = s

SendingInv(j) ==
    answer[j] # None =>
        /\ answer[j].must \subseteq Present(j)
        /\ answer[j].name # None =>
              answer[j].name \in Present(j) /\ answer[j].list = servers[j][answer[j].name]
        /\ \A s \in unsent[j] : Ahead(j, s)

AnswersInv == \A j \in Jvms : SendingInv(j)

(* The list an answer is at is the one in the table. *)
LEMMA AnswerAt ==
  ASSUME NEW j \in Jvms, SendingInv(j), answer[j] # None, answer[j].name # None
  PROVE  AnswerList(j) = List(j, answer[j].name)
  BY DEF SendingInv, AnswerList, List

LEMMA AnswerTyped ==
  ASSUME Inv, NEW j \in Jvms, answer[j] # None, answer[j].name # None
  PROVE  AnswerList(j).items \in Seq(Entry)
  <1>1. answer[j].list \in Adders
    BY DEF Inv, AnswerInv
  <1>2. answer[j].name \in Names
    BY DEF Inv, TypeOK, Answering
  <1>3. AnswerList(j) \in ArrayList
    BY <1>1, <1>2 DEF Inv, TypeOK, AnswerList
  <1> QED BY <1>3 DEF ArrayList

(* Tables that only grow take nothing from an answer that goes on. *)
LEMMA AnswerGrows ==
  ASSUME NEW j \in Jvms, SendingInv(j), Grows,
         answer'[j] = answer[j], unsent'[j] = unsent[j]
  PROVE  SendingInv(j)'
  <1> SUFFICES ASSUME answer[j] # None PROVE SendingInv(j)'
    BY DEF SendingInv
  <1>1. \A n \in Present(j) : Listed(List(j, n)) \subseteq Listed(List(j, n)')
    BY DEF Grows, Listed
  <1>2. /\ answer'[j].must \subseteq Present(j)'
        /\ answer'[j].name # None =>
              answer'[j].name \in Present(j)' /\ answer'[j].list = servers'[j][answer'[j].name]
    BY DEF SendingInv, Grows
  <1>3. ASSUME NEW s \in unsent[j] PROVE Ahead(j, s)'
    <2>1. Ahead(j, s)
      BY DEF SendingInv
    <2>2. CASE \E n \in answer[j].must \ answer[j].done : s \in Listed(List(j, n))
      <3>1. PICK n \in answer[j].must \ answer[j].done : s \in Listed(List(j, n))
        BY <2>2
      <3>2. s \in Listed(List(j, n)')
        BY <1>1, <3>1 DEF SendingInv
      <3>3. s \in Listed(List(j, n))'
        BY <3>2 DEF Listed
      <3> QED BY <3>1, <3>3 DEF Ahead
    <2>3. CASE /\ answer[j].name # None
               /\ \E i \in DOMAIN AnswerList(j).items :
                     i > answer[j].cursor /\ AnswerList(j).items[i].svc = s
      <3>1. PICK i \in DOMAIN AnswerList(j).items :
               i > answer[j].cursor /\ AnswerList(j).items[i].svc = s
        BY <2>3
      <3>2. PICK n \in Present(j) : n = answer[j].name
        BY <2>3 DEF SendingInv
      <3>3. AnswerList(j) = List(j, n) /\ AnswerList(j)' = List(j, n)'
        BY <1>2, <2>3, <3>2 DEF SendingInv, AnswerList, List
      <3>4. i \in DOMAIN AnswerList(j)'.items /\ AnswerList(j)'.items[i].svc = s
        BY <3>1, <3>2, <3>3 DEF Grows
      <3> QED BY <2>3, <3>1, <3>4 DEF Ahead
    <2> QED BY <2>1, <2>2, <2>3 DEF Ahead
  <1> QED BY <1>2, <1>3 DEF SendingInv

(* Tables that stay. *)
LEMMA SameGrows == ASSUME UNCHANGED << servers, lists >> PROVE Grows
  BY DEF Grows, Present, List

(* A step of the answering thread itself. *)
LEMMA AnswerListen ==
  ASSUME Inv, NEW j \in Jvms, SendingInv(j), Listen(j)
  PROVE  SendingInv(j)'
  <1>1. /\ UNCHANGED << servers, lists >>
        /\ answer \in [Jvms -> Answering \cup {None}]
        /\ unsent \in [Jvms -> SUBSET Services]
    BY DEF Inv, TypeOK, Listen, JoinRequests, TakeRequest, NextName, EndOfList,
           SendNext, ListenerDies, EndAnswer, tableVars
  <1>2. /\ Present(j)' = Present(j)
        /\ \A n : List(j, n)' = List(j, n) /\ Listed(List(j, n))' = Listed(List(j, n))
    BY <1>1 DEF Present, List, Listed
  <1>3. CASE JoinRequests(j)
    BY <1>1, <1>3, SameGrows, AnswerGrows DEF JoinRequests
  <1>4. CASE TakeRequest(j)
    <2>1. /\ answer'[j] = [must |-> Present(j), done |-> {}, name |-> None, list |-> None,
                           cursor |-> 0, mods |-> 0]
          /\ unsent'[j] = Known(j)
      BY <1>1, <1>4 DEF TakeRequest
    <2>2. \A s \in Known(j) : \E n \in Present(j) : s \in Listed(List(j, n))
      BY DEF Known
    <2> QED BY <1>2, <2>1, <2>2 DEF SendingInv, Ahead
  <1>5. CASE NextName(j)
    <2>1. PICK n \in Present(j) \ answer[j].done :
             answer'[j] = [must |-> answer[j].must, done |-> answer[j].done \cup {n},
                           name |-> n, list |-> servers[j][n], cursor |-> 0,
                           mods |-> List(j, n).mods]
      BY <1>1, <1>5 DEF NextName
    <2>2. unsent' = unsent /\ answer[j] # None /\ answer[j].name = None
      BY <1>5 DEF NextName
    <2>3. AnswerList(j)' = List(j, n)
      BY <1>1, <2>1 DEF AnswerList, List
    <2>4. n \in Names /\ n # None
      BY DiscoveryAssumption DEF DiscoveryAssumption, Present
    <2>5. \A i \in DOMAIN List(j, n).items : i > 0
      <3>1. List(j, n).items \in Seq(Entry)
        BY <2>4 DEF Inv, TypeOK, List, ArrayList, Present
      <3> QED BY <3>1
    <2>6. ASSUME NEW s \in unsent[j] PROVE Ahead(j, s)'
      <3>1. PICK m \in answer[j].must \ answer[j].done : s \in Listed(List(j, m))
        BY <2>2 DEF SendingInv, Ahead
      <3>2. CASE m = n
        <4>1. PICK i \in DOMAIN List(j, n).items : List(j, n).items[i].svc = s
          BY <3>1, <3>2 DEF Listed
        <4> QED BY <2>1, <2>3, <2>4, <2>5, <4>1 DEF Ahead
      <3>3. CASE m # n
        BY <1>2, <2>1, <3>1, <3>3 DEF Ahead
      <3> QED BY <3>2, <3>3
    <2> QED BY <1>1, <1>2, <2>1, <2>2, <2>6 DEF SendingInv
  <1>6. CASE EndOfList(j)
    <2>1. /\ answer[j] # None /\ answer[j].name # None /\ unsent' = unsent
          /\ answer[j].cursor = Len(AnswerList(j).items)
          /\ answer'[j] = [must |-> answer[j].must, done |-> answer[j].done,
                           name |-> None, list |-> None, cursor |-> 0, mods |-> 0]
      BY <1>1, <1>6 DEF EndOfList
    <2>2. \A i \in DOMAIN AnswerList(j).items : ~(i > answer[j].cursor)
      <3>1. AnswerList(j).items \in Seq(Entry)
        BY <2>1, AnswerTyped
      <3> QED BY <2>1, <3>1
    <2>3. ASSUME NEW s \in unsent[j] PROVE Ahead(j, s)'
      BY <1>2, <2>1, <2>2 DEF SendingInv, Ahead
    <2> QED BY <1>2, <2>1, <2>3 DEF SendingInv
  <1>7. CASE SendNext(j)
    <2> DEFINE x == AnswerList(j).items[answer[j].cursor + 1].svc
    <2>1. /\ answer[j] # None /\ answer[j].name # None
          /\ unsent'[j] = unsent[j] \ {x}
          /\ answer' = [answer EXCEPT ![j].cursor = @ + 1]
      BY <1>1, <1>7 DEF SendNext
    <2>2. answer[j] \in Answering
      BY <1>1, <2>1
    <2>3. /\ answer'[j].must = answer[j].must /\ answer'[j].done = answer[j].done
          /\ answer'[j].name = answer[j].name /\ answer'[j].list = answer[j].list
          /\ answer'[j].cursor = answer[j].cursor + 1 /\ answer[j].cursor \in Nat
      <3>1. answer'[j] = [answer[j] EXCEPT !.cursor = @ + 1]
        BY <1>1, <2>1
      <3> QED BY <2>2, <3>1 DEF Answering
    <2>4. AnswerList(j)' = AnswerList(j)
      BY <1>1, <2>3 DEF AnswerList
    <2>5. AnswerList(j).items \in Seq(Entry)
      BY <2>1, AnswerTyped
    <2>6. ASSUME NEW s \in unsent'[j] PROVE Ahead(j, s)'
      <3>1. s \in unsent[j] /\ s # x
        BY <2>1
      <3>2. CASE \E n \in answer[j].must \ answer[j].done : s \in Listed(List(j, n))
        BY <1>2, <2>3, <3>2 DEF Ahead
      <3>3. CASE \E i \in DOMAIN AnswerList(j).items :
                    i > answer[j].cursor /\ AnswerList(j).items[i].svc = s
        <4>1. PICK i \in DOMAIN AnswerList(j).items :
                    i > answer[j].cursor /\ AnswerList(j).items[i].svc = s
          BY <3>3
        <4>2. i # answer[j].cursor + 1
          BY <3>1, <4>1
        <4>3. i > answer[j].cursor + 1
          BY <2>3, <2>5, <4>1, <4>2
        <4> QED BY <2>1, <2>3, <2>4, <4>1, <4>3 DEF Ahead
      <3> QED BY <2>1, <3>1, <3>2, <3>3 DEF SendingInv, Ahead
    <2> QED BY <1>1, <1>2, <2>1, <2>3, <2>6 DEF SendingInv
  <1>8. CASE ListenerDies(j) \/ EndAnswer(j)
    <2>1. answer'[j] = None
      BY <1>1, <1>8 DEF ListenerDies, EndAnswer
    <2> QED BY <2>1 DEF SendingInv
  <1> QED BY <1>3, <1>4, <1>5, <1>6, <1>7, <1>8 DEF Listen

(* Who else leaves an answer and what it has yet to send alone.             *)
LEMMA AnswerOthers ==
  ASSUME Inv, NEW j \in Jvms, [Next]_vars, ~Listen(j)
  PROVE  answer'[j] = answer[j] /\ unsent'[j] = unsent[j]
  <1>1. answer \in [Jvms -> Answering \cup {None}] /\ unsent \in [Jvms -> SUBSET Services]
    BY DEF Inv, TypeOK
  <1>2. CASE \E k \in Jvms : Listen(k)
    <2>1. PICK k \in Jvms : Listen(k) /\ k # j
      BY <1>2
    <2> QED
      BY <1>1, <2>1 DEF Listen, JoinRequests, TakeRequest, NextName, EndOfList,
         SendNext, ListenerDies, EndAnswer
  <1>3. CASE ~\E k \in Jvms : Listen(k)
    BY <1>3 DEF Next, AddServerBox, Register, NoticeServerInfo, KeepInstance,
       AddServers, AddServeBox, Add, AddCheck, AddPut, AddAppend, AddFails, Receive,
       JoinInfo, ReceiveInfo, Call, InitRecSeverInfo, ReqServerInfo, WakeUp, GetCur,
       CastObj, serverVars, vars
  <1> QED BY <1>2, <1>3

LEMMA AnswersStep ==
  ASSUME OneWriter, Inv, OwnTable, AnswersInv, [Next]_vars
  PROVE  AnswersInv'
  <1> SUFFICES ASSUME NEW j \in Jvms PROVE SendingInv(j)'
    BY DEF AnswersInv
  <1>1. SendingInv(j)
    BY DEF AnswersInv
  <1>2. Grows
    BY OwnPut, OwnAppend, OtherSteps, SameGrows
  <1> QED BY <1>1, <1>2, AnswerListen, AnswerOthers, AnswerGrows

(* Where every table has one writer, an answer that runs to its end has     *)
(* multicast every service its process had saved when it took the request:  *)
(* lists only grow, and the iterators over them skip nothing                *)
(* (RecRequestInfo.java:36-44).                                             *)
THEOREM AnswerIsCompleteSafe == ASSUME OneWriter PROVE Spec => AnswerIsComplete
  <1>1. Init => Inv /\ OwnTable /\ AnswersInv
    BY InitInv, InitOwnTable DEF Init, AnswersInv, SendingInv
  <1>2. Inv /\ OwnTable /\ AnswersInv /\ [Next]_vars => (Inv /\ OwnTable /\ AnswersInv)'
    BY InvStep, OwnStep, AnswersStep
  <1>3. AnswersInv => [\A j \in Jvms : EndAnswer(j) => unsent[j] = {}]_vars
    BY DEF AnswersInv, SendingInv, Ahead, EndAnswer
  <1> QED BY <1>1, <1>2, <1>3, PTL DEF Spec, AnswerIsComplete

-----------------------------------------------------------------------------
(* The listener of a server that is no client, and registers no name twice. *)

Serving(j) == \E s \in Services : HostOf[s] = j

Dedicated == \A s \in Services, c \in Callers : JvmOf[c] # HostOf[s]

DistinctNames ==
    \A s, t \in Services : HostOf[s] = HostOf[t] /\ NameOf[s] = NameOf[t] => s = t

(* The lists of a table were made by threads of its process. *)
HomeInv ==
    /\ \A j \in Jvms : \A n \in Present(j) : Home(servers[j][n]) = j
    /\ \A a \in Adders : adding[a].pc = "add" => Home(adding[a].list) = Home(a)

(* A registering thread finds no list of the name it adds, and so leaves    *)
(* the lists an answer may be at as they were made.                         *)
StableInv(j) ==
    /\ listener[j] # "dead"
    /\ listener[j] # "none" \/ answer[j] # None \/ adding[j].pc # "idle" => Serving(j)
    /\ adding[j].pc # "add"
    /\ adding[j].pc # "idle" => HostOf[adding[j].entry.svc] = j
    /\ adding[j].pc \in {"notice", "check", "put"} => servers[j][NameAdded(j)] = None
    /\ Serving(j) => \A n \in Present(j) :
          servers[j][n] = j /\ \E t \in registered : HostOf[t] = j /\ NameOf[t] = n
    /\ answer[j] # None /\ answer[j].name # None =>
          answer[j].list = j /\ answer[j].mods = AnswerList(j).mods

ListenersInv == HomeInv /\ \A j \in Jvms : StableInv(j)

LEMMA HomeFacts ==
  /\ \A j \in Jvms : j \in Adders /\ Home(j) = j /\ j \notin Callers
  /\ \A a \in Adders : a \notin Jvms => a \in Callers /\ Home(a) = JvmOf[a]
  BY DiscoveryAssumption DEF DiscoveryAssumption, Adders, Home

(* Only threads of a process add to its table, which asks for no OneWriter. *)
LEMMA HomeStep == ASSUME Inv, HomeInv, [Next]_vars PROVE HomeInv'
  <1>1. /\ servers \in [Jvms -> [Names -> Adders \cup {None}]]
        /\ adding \in [Adders -> Pending]
    BY DEF Inv, TypeOK
  <1>2. ASSUME NEW a \in Adders, NEW p, adding' = [adding EXCEPT ![a] = p],
               p.pc = "add" => Home(p.list) = Home(a)
        PROVE  \A b \in Adders : adding'[b].pc = "add" => Home(adding'[b].list) = Home(b)
    BY <1>1, <1>2 DEF HomeInv
  <1>3. ASSUME UNCHANGED servers PROVE \A j \in Jvms : \A n \in Present(j)' : Home(servers'[j][n]) = j
    BY <1>3 DEF HomeInv, Present
  <1>4. ASSUME NEW a \in Adders, AddPut(a) \/ AddAppend(a) PROVE HomeInv'
    <2>1. AfterAdd(a) /\ adding[a].pc # "idle"
      BY <1>4 DEF AddPut, AddAppend
    <2>2. PICK p \in Pending : adding' = [adding EXCEPT ![a] = p] /\ p.pc \in {"idle", "keep"}
      BY <2>1, AfterAddTyped DEF Inv, AddingInv
    <2>3. \A b \in Adders : adding'[b].pc = "add" => Home(adding'[b].list) = Home(b)
      BY <1>2, <2>2
    <2>4. CASE UNCHANGED servers
      BY <1>3, <2>3, <2>4 DEF HomeInv
    <2>5. CASE AddPut(a)
      <3>1. servers' = [servers EXCEPT ![Home(a)][NameAdded(a)] = a]
        BY <2>5 DEF AddPut, NameAdded
      <3>2. \A j \in Jvms : \A n \in Names :
               servers'[j][n] \in {servers[j][n]} \cup (IF j = Home(a) THEN {a} ELSE {})
        BY <1>1, <3>1
      <3>3. \A j \in Jvms : \A n \in Present(j)' : Home(servers'[j][n]) = j
        BY <3>2 DEF HomeInv, Present
      <3> QED BY <2>3, <3>3 DEF HomeInv
    <2> QED BY <1>4, <2>4, <2>5 DEF AddAppend
  <1>5. ASSUME UNCHANGED << servers, lists >>, NEW a \in Adders, AddCheck(a) PROVE HomeInv'
    <2> DEFINE n == NameOf[adding[a].entry.svc]
               h == Home(a)
               p == [pc |-> "add", entry |-> adding[a].entry, list |-> servers[h][n],
                     size |-> Len(List(h, n).items), mods |-> List(h, n).mods]
    <2>1. h \in Jvms /\ adding[a] \in Pending
      BY <1>1, WriterTyped
    <2>2. CASE n \notin Present(h)
      <3> DEFINE r == [adding[a] EXCEPT !.pc = "put"]
      <3>1. adding' = [adding EXCEPT ![a] = r] /\ r.pc = "put"
        BY <1>5, <2>1, <2>2 DEF AddCheck, Pending
      <3> HIDE DEF r
      <3> QED BY <1>2, <1>3, <1>5, <3>1 DEF HomeInv
    <2>3. CASE n \in Present(h) /\ AfterAdd(a)
      <3>1. PICK r \in Pending : adding' = [adding EXCEPT ![a] = r] /\ r.pc \in {"idle", "keep"}
        BY <1>5, <2>3, AfterAddTyped DEF Inv, AddingInv, AddCheck
      <3> QED BY <1>2, <1>3, <1>5, <3>1 DEF HomeInv
    <2>4. CASE n \in Present(h) /\ adding' = [adding EXCEPT ![a] = p]
      <3>1. Home(p.list) = Home(a)
        BY <2>1, <2>4 DEF HomeInv
      <3> HIDE DEF p
      <3> QED BY <1>2, <1>3, <1>5, <2>4, <3>1 DEF HomeInv
    <2> QED BY <1>5, <2>2, <2>3, <2>4 DEF AddCheck
  <1>6. ASSUME UNCHANGED << servers, lists, adding >> PROVE HomeInv'
    BY <1>3, <1>6 DEF HomeInv
  <1>7. ASSUME UNCHANGED << servers, lists >>,
               NEW a \in Adders, NEW p \in Pending, adding' = [adding EXCEPT ![a] = p],
               p.pc \notin {"put", "add"}
        PROVE  HomeInv'
    BY <1>2, <1>3, <1>7 DEF HomeInv
  <1> QED BY <1>4, <1>5, <1>6, <1>7, OtherSteps

LEMMA StableKeeps ==
  ASSUME NEW j \in Jvms, StableInv(j), registered \subseteq registered',
         adding'[j] = adding[j], listener'[j] = listener[j], answer'[j] = answer[j],
         Serving(j) => servers'[j] = servers[j] /\ lists'[j] = lists[j]
  PROVE  StableInv(j)'
  <1>1. Serving(j)' <=> Serving(j)
    BY DEF Serving
  <1>2. NameAdded(j)' = NameAdded(j)
    BY DEF NameAdded
  <1>3. Serving(j) => Present(j)' = Present(j)
    BY DEF Present
  <1>4. ASSUME answer[j] # None, answer[j].name # None
        PROVE  answer'[j].list = j /\ answer'[j].mods = AnswerList(j)'.mods
    BY <1>4 DEF StableInv, AnswerList
  <1>5. Serving(j)' => \A n \in Present(j)' :
            servers'[j][n] = j /\ \E t \in registered' : HostOf[t] = j /\ NameOf[t] = n
    BY <1>1, <1>3 DEF StableInv
  <1> QED BY <1>1, <1>2, <1>4, <1>5 DEF StableInv

(* Another thread adds to another table. *)
LEMMA StableOther ==
  ASSUME Dedicated, Inv, HomeInv, NEW j \in Jvms, StableInv(j),
         NEW a \in Adders, Add(a), a # j
  PROVE  StableInv(j)'
  <1>1. /\ servers \in [Jvms -> [Names -> Adders \cup {None}]]
        /\ lists \in [Adders -> [Names -> ArrayList]]
        /\ adding \in [Adders -> Pending]
    BY DEF Inv, TypeOK
  <1>2. UNCHANGED << registered, listener, answer >> /\ adding'[j] = adding[j]
    BY <1>1, HomeFacts DEF Add, AddCheck, AddPut, AddAppend, AddFails, AfterAdd, serverVars
  <1>3. ASSUME Serving(j) PROVE servers'[j] = servers[j] /\ lists'[j] = lists[j]
    <2>1. Home(a) # j /\ Home(j) = j
      BY <1>3, HomeFacts DEF Dedicated, Serving
    <2>2. CASE AddPut(a)
      <3>1. /\ servers' = [servers EXCEPT ![Home(a)][NameAdded(a)] = a]
            /\ \E N : lists' = [lists EXCEPT ![a][NameAdded(a)] = N]
        BY <2>2 DEF AddPut, NameAdded
      <3> QED BY <1>1, <2>1, <3>1, HomeFacts
    <2>3. CASE AddAppend(a)
      <3>1. /\ UNCHANGED servers
            /\ \E N : lists' = [lists EXCEPT ![adding[a].list][NameAdded(a)] = N]
        BY <2>3 DEF AddAppend, NameAdded
      <3>2. adding[a].list # j
        BY <2>1, <2>3 DEF HomeInv, AddAppend
      <3> QED BY <1>1, <3>1, <3>2, HomeFacts
    <2>4. CASE AddCheck(a) \/ AddFails(a)
      BY <2>4 DEF AddCheck, AddFails
    <2> QED BY <2>2, <2>3, <2>4 DEF Add
  <1> QED BY <1>2, <1>3, StableKeeps

(* A registering thread moves, and leaves the table and the answer.         *)
LEMMA StableMove ==
  ASSUME NEW j \in Jvms, Inv, StableInv(j), NEW p, adding' = [adding EXCEPT ![j] = p],
         UNCHANGED << servers, lists, answer >>, registered \subseteq registered',
         listener'[j] \in {listener[j], "starting"},
         p.pc # "add",
         p.pc # "idle" => Serving(j) /\ HostOf[p.entry.svc] = j,
         p.pc \in {"notice", "check", "put"} => servers[j][NameOf[p.entry.svc]] = None,
         listener'[j] # "none" => Serving(j)
  PROVE  StableInv(j)'
  <1>1. adding'[j] = p
    BY HomeFacts DEF Inv, TypeOK
  <1>2. Serving(j)' <=> Serving(j)
    BY DEF Serving
  <1>3. NameAdded(j)' = NameOf[p.entry.svc]
    BY <1>1 DEF NameAdded
  <1>4. Present(j)' = Present(j) /\ AnswerList(j)' = AnswerList(j)
    BY DEF Present, AnswerList
  <1>5. Serving(j)' => \A n \in Present(j)' :
            servers'[j][n] = j /\ \E t \in registered' : HostOf[t] = j /\ NameOf[t] = n
    BY <1>2, <1>4 DEF StableInv
  <1> QED BY <1>1, <1>2, <1>3, <1>4, <1>5 DEF StableInv

(* A registration begins: no other of this process has its name.            *)
LEMMA StableRegister ==
  ASSUME DistinctNames, Inv, NEW s \in Services, StableInv(HostOf[s]),
         AddServers(s) \/ AddServeBox(s)
  PROVE  StableInv(HostOf[s])'
  <1> DEFINE j == HostOf[s]
  <1>1. /\ j \in Jvms /\ j \in Adders /\ Serving(j) /\ NameOf[s] \in Names
        /\ s \notin registered /\ adding[j].pc = "idle"
        /\ UNCHANGED << servers, lists, answer >> /\ registered \subseteq registered'
        /\ StartListener(j)
        /\ adding' = adding \/ Describe(j, s, "notice")
    <2>1. CASE AddServers(s)
      BY <2>1, DiscoveryAssumption DEF AddServers, DiscoveryAssumption, Adders, Serving
    <2>2. CASE AddServeBox(s)
      BY <2>2, DiscoveryAssumption DEF AddServeBox, DiscoveryAssumption, Adders, Serving
    <2> QED BY <2>1, <2>2
  <1>2. /\ servers \in [Jvms -> [Names -> Adders \cup {None}]]
        /\ adding \in [Adders -> Pending] /\ registered \subseteq Services /\ TypeOK
        /\ listener \in [Jvms -> {"none", "starting", "up", "failed", "dead"}]
    BY DEF Inv, TypeOK
  <1> HIDE DEF j
  <1>3. HostOf[s] = j
    BY DEF j
  <1>4. listener'[j] \in {listener[j], "starting"}
    BY <1>1, <1>2 DEF StartListener
  <1>5. servers[j][NameOf[s]] = None
    BY <1>1, <1>2, <1>3 DEF StableInv, Present, DistinctNames
  <1>6. PICK p : /\ adding' = [adding EXCEPT ![j] = p]
                 /\ p.pc \in {"idle", "notice"}
                 /\ p.pc = "notice" => p.entry.svc = s
    <2>1. CASE adding' = adding
      <3>1. adding' = [adding EXCEPT ![j] = adding[j]]
        BY <1>1, <1>2, <2>1
      <3> QED BY <1>1, <3>1
    <2>2. CASE Describe(j, s, "notice")
      BY <1>1, <1>2, <2>2, DescribeTyped
    <2> QED BY <1>1, <2>1, <2>2
  <1> QED BY <1>1, <1>3, <1>4, <1>5, <1>6, StableMove

(* A registering thread in NoticeServerInfo, Add and what follows.          *)
LEMMA StableOwn ==
  ASSUME Inv, NEW j \in Jvms, StableInv(j), Register(j) \/ Add(j)
  PROVE  StableInv(j)'
  <1> DEFINE e == adding[j].entry
             n == NameAdded(j)
  <1>1. /\ servers \in [Jvms -> [Names -> Adders \cup {None}]]
        /\ lists \in [Adders -> [Names -> ArrayList]]
        /\ adding \in [Adders -> Pending]
        /\ j \in Adders /\ Home(j) = j
    BY HomeFacts DEF Inv, TypeOK
  <1>2. adding[j].pc # "idle" /\ adding[j].pc # "add"
    BY DEF StableInv, Register, NoticeServerInfo, KeepInstance, Add, AddCheck, AddPut,
           AddAppend, AddFails
  <1>3. Serving(j) /\ HostOf[e.svc] = j /\ e.svc \in registered /\ n = NameOf[e.svc]
    BY <1>1, <1>2 DEF StableInv, Inv, AddingInv, NameAdded
  <1>4. n \in Names
    BY <1>1, <1>2, DiscoveryAssumption
       DEF Inv, AddingInv, Entry, NameAdded, DiscoveryAssumption
  <1>5. CASE NoticeServerInfo(j) \/ AddCheck(j)
    <2>1. /\ UNCHANGED << servers, lists, answer, registered, listener >>
          /\ adding[j].pc \in {"notice", "check"}
      BY <1>5 DEF NoticeServerInfo, AddCheck, serverVars
    <2>2. n \notin Present(j)
      BY <2>1 DEF StableInv, Present
    <2>3. PICK to \in {"check", "put"} : adding' = [adding EXCEPT ![j] = [@ EXCEPT !.pc = to]]
      BY <1>1, <1>3, <1>5, <2>2 DEF NoticeServerInfo, AddCheck
    <2> DEFINE p == [adding[j] EXCEPT !.pc = to]
    <2>4. /\ adding' = [adding EXCEPT ![j] = p] /\ p.pc = to /\ p.entry = e
      BY <1>1, <2>3 DEF Pending
    <2>5. servers[j][NameOf[p.entry.svc]] = None
      BY <1>3, <2>1, <2>4 DEF StableInv
    <2> HIDE DEF p, e
    <2> QED BY <1>3, <2>1, <2>4, <2>5, StableMove
  <1>6. CASE KeepInstance(j)
    <2>1. /\ UNCHANGED << servers, lists, answer, registered, listener >>
          /\ adding' = [adding EXCEPT ![j] = Idle] /\ Idle.pc = "idle"
      BY <1>6 DEF KeepInstance, Idle
    <2> QED BY <1>3, <2>1, StableMove
  <1>7. CASE AddPut(j)
    <2> DEFINE N == [items |-> << e >>, mods |-> 1]
    <2>1. /\ lists' = [lists EXCEPT ![j][n] = N]
          /\ servers' = [servers EXCEPT ![j][n] = j]
          /\ AfterAdd(j) /\ UNCHANGED << answer, registered, listener >>
          /\ adding[j].pc = "put"
      BY <1>1, <1>7 DEF AddPut, NameAdded, serverVars
    <2>2. PICK p \in Pending :
            /\ adding' = [adding EXCEPT ![j] = p]
            /\ p.pc \in {"idle", "keep"}
            /\ p.pc = "keep" => p.entry = e
      BY <1>1, <1>2, <2>1, AfterAddTyped
    <2> HIDE DEF N, e, n
    <2>3. adding'[j] = p
      BY <1>1, <2>2
    <2>4. \A m \in Names : /\ m # n => servers'[j][m] = servers[j][m] /\ lists'[j][m] = lists[j][m]
                           /\ servers'[j][n] = j
      BY <1>1, <1>4, <2>1
    <2>5. Serving(j)' => \A m \in Present(j)' :
            servers'[j][m] = j /\ \E t \in registered' : HostOf[t] = j /\ NameOf[t] = m
      BY <1>3, <2>1, <2>4 DEF StableInv, Present
    <2>6. ASSUME answer[j] # None, answer[j].name # None
          PROVE  answer'[j].list = j /\ answer'[j].mods = AnswerList(j)'.mods
      <3>1. answer[j].list = j /\ answer[j].mods = AnswerList(j).mods /\ answer[j].name \in Names
        BY <2>6 DEF StableInv, Inv, TypeOK, Answering
      <3>2. AnswerList(j).mods > 0 /\ lists[j][n].mods = 0
        BY <1>1, <2>1, <2>6 DEF Inv, AnswerInv, AddingInv, n
      <3>3. answer[j].name # n
        BY <3>1, <3>2 DEF AnswerList
      <3> QED BY <2>1, <2>4, <3>1, <3>3 DEF AnswerList
    <2>7. Serving(j)'
      BY <1>3 DEF Serving
    <2> QED BY <1>3, <2>1, <2>2, <2>3, <2>5, <2>6, <2>7 DEF StableInv
  <1> QED BY <1>2, <1>5, <1>6, <1>7 DEF Register, Add, AddAppend, AddFails

(* The listener's own steps find the list as NextName did.                  *)
LEMMA StableListen ==
  ASSUME Inv, NEW j \in Jvms, StableInv(j), Listen(j)
  PROVE  StableInv(j)'
  <1>1. /\ UNCHANGED << servers, lists, adding, registered >>
        /\ answer \in [Jvms -> Answering \cup {None}]
        /\ listener \in [Jvms -> {"none", "starting", "up", "failed", "dead"}]
    BY DEF Inv, TypeOK, Listen, JoinRequests, TakeRequest, NextName, EndOfList,
           SendNext, ListenerDies, EndAnswer, tableVars
  <1>2. /\ NameAdded(j)' = NameAdded(j) /\ Present(j)' = Present(j)
        /\ Serving(j)' <=> Serving(j)
    BY <1>1 DEF NameAdded, Present, Serving
  <1>3. ~ListenerDies(j)
    BY DEF StableInv, ListenerDies
  <1>4. /\ listener'[j] \in {listener[j], "up", "failed"}
        /\ Serving(j)
    BY <1>1, <1>3 DEF Listen, JoinRequests, TakeRequest, NextName, EndOfList,
           SendNext, EndAnswer, StableInv
  <1>5. ASSUME answer'[j] # None, answer'[j].name # None
        PROVE  answer'[j].list = j /\ answer'[j].mods = AnswerList(j)'.mods
    <2>1. CASE NextName(j)
      <3>1. PICK n \in Present(j) :
               answer'[j] = [must |-> answer[j].must, done |-> answer[j].done \cup {n},
                             name |-> n, list |-> servers[j][n], cursor |-> 0,
                             mods |-> List(j, n).mods]
        BY <1>1, <2>1 DEF NextName
      <3>2. servers[j][n] = j
        BY <1>4 DEF StableInv
      <3> QED BY <1>1, <3>1, <3>2 DEF AnswerList, List
    <2>2. CASE SendNext(j)
      <3>1. answer[j] # None /\ answer[j].name # None /\ answer[j] \in Answering
            /\ answer'[j] = [answer[j] EXCEPT !.cursor = @ + 1]
        BY <1>1, <2>2 DEF SendNext
      <3>2. /\ answer'[j].list = answer[j].list /\ answer'[j].mods = answer[j].mods
            /\ answer'[j].name = answer[j].name
        BY <3>1 DEF Answering
      <3> QED BY <1>1, <3>1, <3>2 DEF StableInv, AnswerList
    <2>3. CASE JoinRequests(j)
      BY <1>1, <1>5, <2>3 DEF JoinRequests, StableInv, AnswerList
    <2>4. CASE TakeRequest(j) \/ EndOfList(j) \/ EndAnswer(j)
      BY <1>1, <1>5, <2>4 DEF TakeRequest, EndOfList, EndAnswer
    <2> QED BY <1>3, <2>1, <2>2, <2>3, <2>4 DEF Listen
  <1> QED BY <1>1, <1>2, <1>4, <1>5 DEF StableInv

LEMMA StableStep ==
  ASSUME Dedicated, DistinctNames, Inv, HomeInv, NEW j \in Jvms, StableInv(j), [Next]_vars
  PROVE  StableInv(j)'
  <1>1. /\ adding \in [Adders -> Pending] /\ j \in Adders
        /\ answer \in [Jvms -> Answering \cup {None}]
        /\ listener \in [Jvms -> {"none", "starting", "up", "failed", "dead"}]
    BY HomeFacts DEF Inv, TypeOK
  <1>2. ASSUME NEW k \in Jvms, Listen(k) \/ Register(k), k # j PROVE StableInv(j)'
    <2>1. /\ UNCHANGED << servers, lists, registered >> /\ adding'[j] = adding[j]
          /\ answer'[j] = answer[j] /\ listener'[j] = listener[j]
      BY <1>1, <1>2 DEF Listen, JoinRequests, TakeRequest, NextName, EndOfList, SendNext,
         ListenerDies, EndAnswer, Register, NoticeServerInfo, KeepInstance, serverVars, tableVars
    <2> QED BY <2>1, StableKeeps
  <1>3. ASSUME NEW s \in Services, AddServers(s) \/ AddServeBox(s), HostOf[s] # j
        PROVE  StableInv(j)'
    <2>1. /\ UNCHANGED << servers, lists, answer >> /\ registered \subseteq registered'
          /\ adding'[j] = adding[j] /\ listener'[j] = listener[j]
      BY <1>1, <1>3 DEF AddServers, AddServeBox, StartListener, Describe
    <2> QED BY <2>1, StableKeeps
  <1>4. CASE \/ \E k \in Jvms, b \in Boxes : AddServerBox(k, b)
             \/ \E c \in Callers : Receive(c) \/ Call(c) \/ \E n \in Names : CastObj(c, n)
             \/ UNCHANGED vars
    <2>1. /\ UNCHANGED << servers, lists, answer, registered, listener >> /\ adding'[j] = adding[j]
      BY <1>1, <1>4, HomeFacts DEF AddServerBox, Receive, JoinInfo, ReceiveInfo, Describe, Call,
         CastObj, InitRecSeverInfo, ReqServerInfo, WakeUp, GetCur, serverVars, tableVars, vars
    <2> QED BY <2>1, StableKeeps
  <1>5. ASSUME NEW a \in Adders, Add(a) PROVE StableInv(j)'
    BY <1>5, StableOther, StableOwn
  <1>6. ASSUME NEW s \in Services, AddServers(s) \/ AddServeBox(s) PROVE StableInv(j)'
    BY <1>3, <1>6, StableRegister
  <1>7. ASSUME NEW k \in Jvms, Listen(k) \/ Register(k) PROVE StableInv(j)'
    BY <1>2, <1>7, StableListen, StableOwn
  <1> QED BY <1>4, <1>5, <1>6, <1>7 DEF Next

LEMMA InitListenersInv == Init => ListenersInv
  <1> SUFFICES ASSUME Init PROVE ListenersInv
    OBVIOUS
  <1>1. /\ \A a \in Adders : adding[a].pc = "idle"
        /\ \A j \in Jvms : listener[j] = "none" /\ answer[j] = None /\ Present(j) = {}
    BY DEF Init, Idle, Present
  <1> QED BY <1>1, HomeFacts DEF ListenersInv, HomeInv, StableInv

(* A listener goes on answering, as the comment of ReqServerInfo.java:18    *)
(* says, where a process that serves is no client and registers no name     *)
(* twice, whatever its clients' tables hold: then no list changes that an   *)
(* answer may be at, and its iterator finds the count it began with.        *)
THEOREM ListenerStaysUpSafe == ASSUME Dedicated, DistinctNames PROVE Spec => []ListenerStaysUp
  <1>1. Init => Inv /\ ListenersInv
    BY InitInv, InitListenersInv
  <1>2. Inv /\ ListenersInv /\ [Next]_vars => (Inv /\ ListenersInv)'
    BY InvStep, HomeStep, StableStep DEF ListenersInv
  <1>3. ListenersInv => ListenerStaysUp
    BY DEF ListenersInv, StableInv, ListenerStaysUp
  <1> QED BY <1>1, <1>2, <1>3, PTL DEF Spec
=============================================================================
