\* Two calling threads of one JVM may both find plugin null: two receivers
\* then write one table.
CONSTANTS
    srv = srv srv2 = srv2 cli = cli cli2 = cli2
    s1 = s1 s2 = s2 s3 = s3 c1 = c1 c2 = c2 name1 = name1 name2 = name2 box = box
    None = None
    Jvms = {srv, cli}
    Callers = {c1, c2}
    Services = {s1}
    Names = {name1}
    Boxes = {}
    NameOf <- SameName
    HostOf <- OneHost
    BoxOf <- NoBox
    JvmOf <- Together
    MaxLoss = 0
SPECIFICATION Spec
INVARIANT ListenerStaysUp
