----------------------------- MODULE MCDiscovery -----------------------------
(* Small deployments of Discovery for TLC: two JVMs that may serve, two     *)
(* that call, three registrations of two names, the third one in a box.     *)
EXTENDS Discovery, TLC

CONSTANTS srv, srv2, cli, cli2, s1, s2, s3, c1, c2, name1, name2, box

Of(f, S) == [x \in S |-> f[x]]

(* Two registrations of one name in one JVM, or of two names.               *)
SameName == Of((s1 :> name1) @@ (s2 :> name1) @@ (s3 :> name2), Services)
TwoNames == Of((s1 :> name1) @@ (s2 :> name2) @@ (s3 :> name2), Services)

OneHost == Of((s1 :> srv) @@ (s2 :> srv) @@ (s3 :> srv), Services)
TwoHosts == Of((s1 :> srv) @@ (s2 :> srv2) @@ (s3 :> srv), Services)

(* On ports of their own, or the second in a box.                           *)
NoBox == Of((s1 :> None) @@ (s2 :> None) @@ (s3 :> None), Services)
SecondBoxed == Of((s1 :> None) @@ (s2 :> box) @@ (s3 :> None), Services)

(* Each caller in a JVM of its own, or both in one.                         *)
Apart == Of((c1 :> cli) @@ (c2 :> cli2), Callers)
Together == Of((c1 :> cli) @@ (c2 :> cli), Callers)

=============================================================================
