---------------------------- MODULE MCServiceCall ----------------------------
(* Small deployments of ServiceCall for TLC: a box on TCP and a service of   *)
(* its own on UDP, registered by one thread or by two; two clients.         *)
EXTENDS ServiceCall, TLC

CONSTANTS server, helper, client1, client2, srv, cli1, cli2,
          s1, s2, s3, s4, box, own, any, name1, name2, name3

CallTo(id, to, name, fun, fits, throws) ==
    [id |-> id, to |-> to, name |-> name, fun |-> fun, fits |-> fits, throws |-> throws,
     breaks |-> FALSE]

Set1 == CallTo(1, box, name1, "SetData", TRUE, FALSE)
Call2 == CallTo(2, box, name2, "CallData", TRUE, FALSE)
Set3 == CallTo(3, own, name3, "SetData", TRUE, TRUE)
Get4 == CallTo(4, box, name1, "GetData", TRUE, FALSE)
Cut5 == CallTo(5, box, name2, "SetData", FALSE, FALSE)
Null6 == [CallTo(6, box, name1, "SetData", TRUE, FALSE) EXCEPT !.breaks = TRUE]

SomeCalls == {Set1, Call2, Set3, Get4, Cut5, Null6}

(* One thread registers everything.                                         *)
OneByOne == (server :> << s1, s2, s3, s4 >>)
         @@ (client1 :> << Set1, Call2, Null6 >>)
         @@ (client2 :> << Cut5, Get4, Set3 >>)
Apart == (server :> srv) @@ (client1 :> cli1) @@ (client2 :> cli2)

(* Two threads add to one box.                                              *)
BoxedTogether == (server :> << s1 >>) @@ (helper :> << s2 >>) @@ (client1 :> << Set1, Call2 >>)
TwoInOne == (server :> srv) @@ (helper :> srv) @@ (client1 :> cli1)

Of(f, S) == [x \in S |-> f[x]]
Names == Of((s1 :> name1) @@ (s2 :> name2) @@ (s3 :> name3) @@ (s4 :> name3), Services)
ProxyMap == Of((s1 :> box) @@ (s2 :> box) @@ (s3 :> own) @@ (s4 :> any), Services)
Types == (box :> "tcp") @@ (own :> "udp") @@ (any :> "udp")
JarOrder == << "tcp", "udp" >>
TwoCalls == {Set1, Call2}
=============================================================================
