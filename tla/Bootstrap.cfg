SPECIFICATION BootSpec
CONSTANTS
    Absent = Absent
    NoNode = NoNode
    Entity <- MCEntity
    Owner <- MCOwner
    Namespace <- MCNamespace
    Connector = {"c1", "c2", "client"}
    CreateOrUpdate = {}
    Node <- MCNode
    EntOf <- MCEnt
    TypeOf <- MCType
    Child <- MCChild
    ConnOf <- MCConn
    Params <- MCParams
    MaxFaults = 1
    MaxDeletes = 0
    QueueRoute = {"q1", "q2", "q3"}
    TopicRoute = {"subA", "subB"}
    Emitter = {"emit1", "emit2"}
    Servers <- MCServers
    ServerOf <- MCServerOf
    InSequence = {"main"}
    Clients = {"client"}
    ClientOf <- MCClientOf
    EntityOf <- MCEntityOf
    NodeOf <- MCNodeOf
    MayReject = {"q2", "emit2"}
INVARIANTS EveryRouteSettles  AbortedBootIsSilent
 
\* The boot is over.
CHECK_DEADLOCK FALSE
