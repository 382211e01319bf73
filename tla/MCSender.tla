------------------------------ MODULE MCSender ------------------------------
\* Two messages with one Sender, a third with another one.
EXTENDS MessageSender

CONSTANTS m1, m2, m3, a1, a2, s1, s2

MCApiOf(m) == IF m = m3 THEN a2 ELSE a1
=============================================================================
