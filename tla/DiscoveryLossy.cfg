\* Two registrations of one name, the second in a box, one client; one
\* datagram may be lost, and every thread is scheduled.
CONSTANTS
    srv = srv srv2 = srv2 cli = cli cli2 = cli2
    s1 = s1 s2 = s2 s3 = s3 c1 = c1 c2 = c2 name1 = name1 name2 = name2 box = box
    None = None
    Jvms = {srv, cli}
    Callers = {c1}
    Services = {s1, s2}
    Names = {name1, name2}
    Boxes = {box}
    NameOf <- SameName
    HostOf <- OneHost
    BoxOf <- SecondBoxed
    JvmOf <- Apart
    MaxLoss = 1
SPECIFICATION FairSpec
INVARIANTS TypeOK Authentic
PROPERTIES NothingForgotten AnswerIsComplete ImplementsDirectory AnnouncedIsLearnt RequestIsAnswered
