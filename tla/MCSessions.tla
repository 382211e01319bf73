----------------------------- MODULE MCSessions -----------------------------
\* Two SessionReceivers: one with a handler, a batch and a request, the other
\* for whatever session is free, with a batch.
EXTENDS MessageSession

MCReaderOf(c) == IF c \in {"handler", "batch", "request"} THEN "r1" ELSE "r2"
MCKindOf(c)   == IF c = "other" THEN "request" ELSE c
MCWantOf(r)   == IF r = "r1" THEN "s1" ELSE None
=============================================================================
