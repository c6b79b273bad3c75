\* Two threads of one JVM each add a service to the box.
CONSTANTS
    server = server helper = helper client1 = client1 client2 = client2
    srv = srv cli1 = cli1 cli2 = cli2
    s1 = s1 s2 = s2 s3 = s3 s4 = s4 box = box own = own any = any
    name1 = name1 name2 = name2 name3 = name3
    None = None
    Threads = {server, helper, client1}
    Services = {s1, s2}
    Program <- BoxedTogether
    JvmOf <- TwoInOne
    NameOf <- Names
    ProxyOf <- ProxyMap
    Calls <- TwoCalls
    TypeOf <- Types
    Blocked = {}
    Jar <- JarOrder
SPECIFICATION Spec
INVARIANT OneReceiver
