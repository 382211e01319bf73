SPECIFICATION Spec
CONSTANTS
    Absent = Absent
    Entity <- MCEntity
    Owner <- MCOwner
    Namespace <- MCNamespace
    Connector = {"c1", "c2"}
    CreateOrUpdate = {}
    Node <- MCNode
    EntOf <- MCEnt
    TypeOf <- MCType
    Child <- MCChild
    ConnOf <- MCConn
    Params <- MCParams
    MaxFaults = 1
    MaxDeletes = 1
INVARIANTS CacheSound NoSilentFailure
PROPERTIES NeverReconfigured ImplementsProvisioning
\* Every call has returned: the boot is over.
CHECK_DEADLOCK FALSE
