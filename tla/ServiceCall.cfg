\* One thread registers a box of two services on TCP and one on UDP; two
\* clients, each in its own JVM, make three calls each.
CONSTANTS
    server = server helper = helper client1 = client1 client2 = client2
    srv = srv cli1 = cli1 cli2 = cli2
    s1 = s1 s2 = s2 s3 = s3 s4 = s4 box = box own = own any = any
    name1 = name1 name2 = name2 name3 = name3
    None = None
    Threads = {server, client1, client2}
    Services = {s1, s2, s3, s4}
    Program <- OneByOne
    JvmOf <- Apart
    NameOf <- Names
    ProxyOf <- ProxyMap
    Calls <- SomeCalls
    TypeOf <- Types
    Blocked = {any}
    Jar <- JarOrder
SPECIFICATION FairSpec
INVARIANTS TypeOK Callable StaysUp OneReceiver
PROPERTIES ImplementsMailbox Taken
CHECK_DEADLOCK FALSE
