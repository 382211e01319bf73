SPECIFICATION Spec
CONSTANTS
    ClientOptions <- MCClientOptions
    ServerOptions <- MCServerOptions
    Credentials <- MCCredentials
    Route <- MCRoute
    Emitter <- MCEmitter
    MaxLosses = 1
INVARIANTS
    OneClientPerEntity
    CalmDestroyCloses
    CleanCloseIsFinal
\* The module stays as it is, destroyed or not.
CHECK_DEADLOCK FALSE
