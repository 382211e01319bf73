------------------------------ MODULE MCMessages ------------------------------
(***************************************************************************)
(* Two copies: two messages of one id, a message and its retry, or a       *)
(* message and its redelivery.                                             *)
(***************************************************************************)
EXTENDS MessageHandling

MCCopy == 1..2

\* A message with all its fields, that never expires, and one the library refuses.
Message ==
    [f \in Field |-> CASE f = "userProperties" -> {"key"}
                       [] f = "timeToLive"     -> Forever
                       [] OTHER                -> f]
MCPost == {Message, [Message EXCEPT !["viaPartitionKey"] = Long]}
===============================================================================
