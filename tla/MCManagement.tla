---------------------------- MODULE MCManagement ----------------------------
\* Three messages, the last one deferred, and all that can be asked of them.
EXTENDS ManagementClient

R(k, a) == [kind |-> k, arg |-> a]

\* Peeks of two messages or one; one message to receive, settle and renew.
MCRequest ==
    {R("peek", 2), R("peekFrom", 2), R("peekSession", 1),
     R("receiveDeferred", 3), R("complete", 3), R("abandon", 3), R("renewLock", 3), R("schedule", 1), R("cancel", 1),
     R("addRule", 1), R("removeRule", 1), R("getRules", 0), R("setState", 1), R("getState", 0)}
=============================================================================
