------------------------- MODULE MessageSender_proofs -------------------------
(* Proofs about MessageSender, for any number of messages, senders, attempts
   and losses: types, the one link of a sender, and that it is watched. *)
EXTENDS MessageSender, TLAPS

\* The argument: who has the lock found no open link when it took it, and none
\* was opened since, because opening takes the lock.
LockInv ==
    \A x \in Opener : step[x] = "locked" =>
        lock[SenderOf(x)] = x /\ ~IsOpen(SenderOf(x))

\* A message beyond its first step has a sender; a link has a number.
SenderInv ==
    /\ \A m \in Msg : step[m] # "idle" => owner[m] \in MSender
    /\ \A l \in open : l[2] # 0

IInv == TypeOK /\ SenderInv /\ LockInv /\ OneLink /\ OpenIsWatched

USE DEF Detacher, Opener, Step

-----------------------------------------------------------------------------
\* An opener beyond its first step has a sender.
LEMMA HasSender ==
    ASSUME TypeOK, SenderInv, NEW x \in Opener, step[x] # "idle"
    PROVE  SenderOf(x) \in MSender
<1>1. CASE x \in Msg
  BY <1>1 DEF SenderInv, SenderOf
<1>2. CASE x \notin Msg
  BY <1>2 DEF SenderOf
<1> QED
  BY <1>1, <1>2

LEMMA InitHolds == Init => IInv
<1> SUFFICES ASSUME Init PROVE IInv
  OBVIOUS
<1> USE SenderOK DEF Init
<1>1. TypeOK
  <2>1. /\ known \in MSender \cup {None} /\ lock \in [MSender -> Opener \cup {None}]
        /\ step \in [Opener -> Step] /\ owner \in [Msg -> MSender \cup {None}]
    OBVIOUS
  <2>2. /\ current \in [MSender -> Nat] /\ links \in [MSender -> Nat]
        /\ tries \in [Opener -> 0..MaxAttempts]
        /\ via \in [Msg -> (MSender \cup {None}) \X Nat] /\ faults \in 0..MaxFaults
    OBVIOUS
  <2> QED
    BY <2>1, <2>2 DEF TypeOK
<1>2. SenderInv /\ LockInv /\ OneLink
  BY DEF SenderInv, LockInv, OneLink
<1>3. OpenIsWatched
  BY DEF OpenIsWatched
<1> QED
  BY <1>1, <1>2, <1>3 DEF IInv

\* What a failed attempt does to the openers.
LEMMA AgainSteps ==
    ASSUME TypeOK, NEW x \in Opener, NEW r \in BOOLEAN, Again(x, r), step[x] # "idle"
    PROVE  /\ step' \in [Opener -> Step] /\ tries' \in [Opener -> 0..MaxAttempts]
           /\ \A y \in Opener : step'[y] = "locked" => step[y] = "locked" /\ y # x
           /\ \A m \in Msg : step'[m] # "idle" => step[m] # "idle"
  BY SenderOK DEF TypeOK, Again, GoTo

\* What a detachment does to the openers.
LEMMA ReopenSteps ==
    ASSUME TypeOK, NEW x \in Detacher \X MSender, Reopen(x)
    PROVE  /\ step' \in [Opener -> Step] /\ tries' \in [Opener -> 0..MaxAttempts]
           /\ \A y \in Opener : step'[y] = "locked" => step[y] = "locked"
           /\ \A m \in Msg : step'[m] = step[m]
  BY SenderOK DEF TypeOK, Reopen, GoTo

\* A step after which no more openers are locked, no more links are open, no
\* more senders connecting, and the current links of those that are the same.
LEMMA Harmless ==
    ASSUME IInv, TypeOK', SenderInv',
           \A y \in Opener : step'[y] = "locked" =>
               step[y] = "locked" /\ SenderOf(y)' = SenderOf(y),
           \A s \in MSender : lock'[s] = lock[s],
           open' \subseteq open, connecting' \subseteq connecting,
           \A s \in MSender : current'[s] = current[s] \/ (current'[s] = 0 /\ \A l \in open' : l[1] # s)
    PROVE  IInv'
<1> USE DEF IInv
<1>1. ASSUME NEW s \in MSender, IsOpen(s)' PROVE IsOpen(s) /\ current'[s] = current[s]
  BY <1>1 DEF IsOpen, SenderInv
<1>2. OneLink'
  BY DEF OneLink, TypeOK
<1>3. OpenIsWatched'
  BY <1>1 DEF OpenIsWatched
<1>4. LockInv'
  <2> SUFFICES ASSUME NEW y \in Opener, step'[y] = "locked"
      PROVE lock'[SenderOf(y)'] = y /\ ~IsOpen(SenderOf(y))'
    BY DEF LockInv
  <2>1. step[y] = "locked" /\ SenderOf(y)' = SenderOf(y)
    OBVIOUS
  <2>2. SenderOf(y) \in MSender
    BY <2>1, HasSender
  <2>3. lock[SenderOf(y)] = y /\ ~IsOpen(SenderOf(y))
    BY <2>1 DEF LockInv
  <2> QED
    BY <2>1, <2>2, <2>3, <1>1
<1> QED
  BY <1>2, <1>3, <1>4

-----------------------------------------------------------------------------
LEMMA TypeNext == IInv /\ [Next]_vars => TypeOK' /\ SenderInv'
<1> SUFFICES ASSUME IInv, [Next]_vars PROVE TypeOK' /\ SenderInv'
  OBVIOUS
<1> USE SenderOK DEF IInv, TypeOK, SenderInv, linkVars, wireVars
<1>1. ASSUME NEW x \in Opener, Open(x) PROVE TypeOK' /\ SenderInv'
  BY <1>1 DEF Open, GoTo, AfterOpen
<1>2. ASSUME NEW x \in Opener, Lock(x) PROVE TypeOK' /\ SenderInv'
  <2>1. SenderOf(x) \in MSender
    BY <1>2, HasSender DEF Lock
  <2>2. /\ step' \in [Opener -> Step] /\ connecting' \subseteq MSender
        /\ lock' \in [MSender -> Opener \cup {None}]
        /\ \A m \in Msg : step'[m] # "idle" => step[m] # "idle"
    <3>1. CASE MustOpen(SenderOf(x))
      BY <1>2, <2>1, <3>1 DEF Lock, GoTo
    <3>2. CASE ~MustOpen(SenderOf(x))
      BY <1>2, <2>1, <3>2 DEF Lock, GoTo, AfterOpen
    <3> QED
      BY <3>1, <3>2
  <2> QED
    BY <1>2, <2>2 DEF Lock
<1>3. ASSUME NEW x \in Opener, OpenSucceeds(x) PROVE TypeOK' /\ SenderInv'
  <2>1. SenderOf(x) \in MSender
    BY <1>3, HasSender DEF OpenSucceeds
  <2>2. links[SenderOf(x)] + 1 \in Nat \ {0}
    BY <2>1
  <2>3. /\ current' \in [MSender -> Nat] /\ links' \in [MSender -> Nat]
        /\ open' \subseteq MSender \X Nat /\ lock' \in [MSender -> Opener \cup {None}]
        /\ \A l \in open' : l[2] # 0
    BY <1>3, <2>1, <2>2 DEF OpenSucceeds
  <2>4. /\ connecting' \subseteq MSender /\ step' \in [Opener -> Step]
        /\ \A m \in Msg : step'[m] # "idle" => step[m] # "idle"
    BY <1>3 DEF OpenSucceeds, GoTo, AfterOpen, Connected
  <2> QED
    BY <1>3, <2>3, <2>4 DEF OpenSucceeds
<1>4. ASSUME NEW x \in Opener, OpenFails(x) PROVE TypeOK' /\ SenderInv'
  <2>1. PICK r \in BOOLEAN : Again(x, r) /\ step[x] = "locked"
    BY <1>4 DEF OpenFails
  <2>2. SenderOf(x) \in MSender
    BY <2>1, HasSender
  <2> QED
    BY <1>4, <2>1, <2>2, AgainSteps DEF OpenFails
<1>5. ASSUME NEW m \in Msg, Send(m) PROVE TypeOK' /\ SenderInv'
  BY <1>5 DEF Send, GoTo
<1>6. ASSUME NEW m \in Msg, Transmit(m) PROVE TypeOK' /\ SenderInv'
  BY <1>6 DEF Transmit, GoTo
<1>7. ASSUME NEW m \in Msg, Wait(m) PROVE TypeOK' /\ SenderInv'
  BY <1>7 DEF Wait, GoTo
<1>8. ASSUME NEW m \in Msg, CannotSend(m) PROVE TypeOK' /\ SenderInv'
  <2>1. Again(m, current[owner[m]] # 0) /\ step[m] # "idle"
    BY <1>8 DEF CannotSend
  <2> QED
    BY <1>8, <2>1, AgainSteps DEF CannotSend
<1>9. ASSUME NEW m \in Msg, SendTimesOut(m) PROVE TypeOK' /\ SenderInv'
  <2>1. Again(m, TRUE) /\ step[m] # "idle"
    BY <1>9 DEF SendTimesOut
  <2> QED
    BY <1>9, <2>1, AgainSteps DEF SendTimesOut
<1>10. ASSUME NEW d \in inFlight, Accepted(d[1], d[2]) PROVE TypeOK' /\ SenderInv'
  BY <1>10 DEF Accepted, Hearing
<1>11. ASSUME NEW d \in inFlight, Refused(d[1], d[2]) PROVE TypeOK' /\ SenderInv'
  <2>1. tries' \in [Opener -> 0..MaxAttempts] /\ step' \in [Opener -> Step]
    BY <1>11 DEF Refused
  <2> QED
    BY <1>11, <2>1 DEF Refused, Hearing
<1>12. ASSUME NEW s \in MSender, Detached(s) PROVE TypeOK' /\ SenderInv'
  <2>1. CASE s \in connecting
    BY <1>12, <2>1 DEF Detached, Fault
  <2>2. CASE s \notin connecting
    BY <1>12, <2>2, ReopenSteps DEF Detached, Fault
  <2> QED
    BY <2>1, <2>2
<1>13. CASE Disconnected
  BY <1>13 DEF Disconnected, Fault
<1>14. CASE ContextDetached
  <2>1. CASE known = None \/ known \in connecting
    BY <1>14, <2>1 DEF ContextDetached
  <2>2. CASE ~(known = None \/ known \in connecting)
    <3>1. <<"context", known>> \in Detacher \X MSender /\ Reopen(<<"context", known>>)
      BY <1>14, <2>2 DEF ContextDetached
    <3>2. /\ step' \in [Opener -> Step] /\ tries' \in [Opener -> 0..MaxAttempts]
          /\ \A m \in Msg : step'[m] = step[m]
      BY <3>1, ReopenSteps
    <3> QED
      BY <1>14, <2>2, <3>2 DEF ContextDetached
  <2> QED
    BY <2>1, <2>2
<1>15. ASSUME NEW a \in Api, CloseSender(a) PROVE TypeOK' /\ SenderInv'
  BY <1>15 DEF CloseSender
<1>16. CASE UNCHANGED vars
  BY <1>16 DEF vars
<1> QED
  BY <1>1, <1>2, <1>3, <1>4, <1>5, <1>6, <1>7, <1>8, <1>9, <1>10, <1>11, <1>12, <1>13, <1>14,
     <1>15, <1>16 DEF Next, OpenerStep, SendStep

LEMMA InvNext == IInv /\ [Next]_vars => IInv'
<1> SUFFICES ASSUME IInv, [Next]_vars PROVE IInv'
  OBVIOUS
<1>0. TypeOK' /\ SenderInv' /\ TypeOK /\ SenderInv
  BY TypeNext DEF IInv
<1> USE DEF linkVars, wireVars
<1>1. ASSUME NEW x \in Opener, Open(x) PROVE IInv'
  BY <1>0, <1>1, Harmless DEF Open, GoTo, AfterOpen, TypeOK, SenderOf
<1>2. ASSUME NEW x \in Opener, Lock(x) PROVE IInv'
  <2> DEFINE s == SenderOf(x)
  <2>1. s \in MSender /\ lock[s] = None /\ open' = open /\ current' = current /\ owner' = owner
    BY <1>0, <1>2, HasSender DEF Lock
  <2>2. CASE IsOpen(s)
    BY <1>0, <1>2, <2>1, <2>2, Harmless DEF Lock, MustOpen, GoTo, AfterOpen, TypeOK, SenderOf
  <2>3. CASE ~IsOpen(s)
    <3>1. /\ lock' = [lock EXCEPT ![s] = x] /\ connecting' = connecting \cup {s}
          /\ step' = [step EXCEPT ![x] = "locked"]
      BY <1>2, <2>3 DEF Lock, MustOpen, GoTo
    <3>2. OneLink' /\ OpenIsWatched'
      BY <2>1, <2>3, <3>1 DEF IInv, OneLink, OpenIsWatched, IsOpen
    <3>3. ASSUME NEW y \in Opener, step'[y] = "locked"
          PROVE  lock'[SenderOf(y)'] = y /\ ~IsOpen(SenderOf(y))'
      <4>1. SenderOf(y)' = SenderOf(y) /\ IsOpen(SenderOf(y))' = IsOpen(SenderOf(y))
        BY <2>1 DEF SenderOf, IsOpen
      <4>2. CASE y = x
        BY <1>0, <2>1, <2>3, <3>1, <4>1, <4>2 DEF TypeOK
      <4>3. CASE y # x
        <5>1. step[y] = "locked"
          BY <1>0, <3>1, <3>3, <4>3 DEF TypeOK
        <5>2. lock[SenderOf(y)] = y /\ ~IsOpen(SenderOf(y)) /\ SenderOf(y) \in MSender
          BY <1>0, <5>1, HasSender DEF IInv, LockInv
        <5>3. SenderOf(y) # s
          BY <2>1, <5>2, SenderOK
        <5> QED
          BY <3>1, <4>1, <5>2, <5>3
      <4> QED
        BY <4>2, <4>3
    <3> QED
      BY <1>0, <3>2, <3>3 DEF IInv, LockInv
  <2> QED
    BY <2>2, <2>3
<1>3. ASSUME NEW x \in Opener, OpenSucceeds(x) PROVE IInv'
  <2> DEFINE s == SenderOf(x)
             n == links[s] + 1
  <2>1. s \in MSender /\ lock[s] = x /\ ~IsOpen(s) /\ step[x] = "locked" /\ owner' = owner
    BY <1>0, <1>3, HasSender DEF OpenSucceeds, IInv, LockInv
  <2>2. /\ current' = [current EXCEPT ![s] = n] /\ open' = open \cup {<<s, n>>}
        /\ connecting' = connecting \ {s} /\ lock' = [lock EXCEPT ![s] = None]
        /\ step' = [step EXCEPT ![x] = AfterOpen(x)]
    BY <1>3 DEF OpenSucceeds, Connected, GoTo
  <2>3. \A l \in open : l[1] # s
    <3> SUFFICES ASSUME NEW l \in open, l[1] = s PROVE FALSE
      OBVIOUS
    <3>1. l = <<s, current[s]>>
      BY <1>0 DEF IInv, OneLink, TypeOK
    <3> QED
      BY <2>1, <3>1 DEF IsOpen
  <2>4. OneLink'
    BY <1>0, <2>1, <2>2, <2>3 DEF IInv, OneLink, TypeOK
  <2>5. ASSUME NEW t \in MSender, t # s PROVE IsOpen(t)' = IsOpen(t)
    BY <1>0, <2>2, <2>5 DEF IsOpen, TypeOK
  <2>6. OpenIsWatched'
    BY <2>2, <2>5 DEF IInv, OpenIsWatched
  <2>7. ASSUME NEW y \in Opener, step'[y] = "locked"
        PROVE  lock'[SenderOf(y)'] = y /\ ~IsOpen(SenderOf(y))'
    <3>1. y # x /\ step[y] = "locked"
      BY <1>0, <2>2, <2>7 DEF TypeOK, AfterOpen
    <3>2. lock[SenderOf(y)] = y /\ ~IsOpen(SenderOf(y)) /\ SenderOf(y) \in MSender
      BY <1>0, <3>1, HasSender DEF IInv, LockInv
    <3>3. SenderOf(y) # s /\ SenderOf(y)' = SenderOf(y)
      BY <2>1, <3>1, <3>2 DEF SenderOf
    <3>4. lock'[SenderOf(y)] = y
      BY <1>0, <2>2, <3>2, <3>3 DEF TypeOK
    <3> QED
      BY <2>5, <3>2, <3>3, <3>4
  <2> QED
    BY <1>0, <2>4, <2>6, <2>7 DEF IInv, LockInv
<1>4. ASSUME NEW x \in Opener, OpenFails(x) PROVE IInv'
  <2> DEFINE s == SenderOf(x)
  <2>1. PICK r \in BOOLEAN : Again(x, r) /\ step[x] = "locked"
    BY <1>4 DEF OpenFails
  <2>2. /\ lock' = [lock EXCEPT ![s] = None]
        /\ open' = open /\ current' = current /\ owner' = owner /\ connecting' = connecting
    BY <1>4 DEF OpenFails
  <2>3. s \in MSender /\ lock[s] = x
    BY <1>0, <2>1, HasSender DEF IInv, LockInv
  <2>4. OneLink' /\ OpenIsWatched'
    BY <2>2 DEF IInv, OneLink, OpenIsWatched, IsOpen
  <2>5. ASSUME NEW y \in Opener, step'[y] = "locked"
        PROVE  lock'[SenderOf(y)'] = y /\ ~IsOpen(SenderOf(y))'
    <3>1. y # x /\ step[y] = "locked"
      BY <1>0, <2>1, <2>5, AgainSteps
    <3>2. lock[SenderOf(y)] = y /\ ~IsOpen(SenderOf(y)) /\ SenderOf(y) \in MSender
      BY <1>0, <3>1, HasSender DEF IInv, LockInv
    <3>3. SenderOf(y) # s /\ SenderOf(y)' = SenderOf(y) /\ IsOpen(SenderOf(y))' = IsOpen(SenderOf(y))
      BY <2>2, <2>3, <3>1, <3>2 DEF SenderOf, IsOpen
    <3> QED
      BY <1>0, <2>2, <3>2, <3>3 DEF TypeOK
  <2> QED
    BY <1>0, <2>4, <2>5 DEF IInv, LockInv
<1>5. ASSUME NEW m \in Msg, Send(m) PROVE IInv'
  BY <1>0, <1>5, Harmless DEF Send, GoTo, TypeOK, SenderOf
<1>6. ASSUME NEW m \in Msg, Transmit(m) PROVE IInv'
  BY <1>0, <1>6, Harmless DEF Transmit, GoTo, TypeOK, SenderOf
<1>7. ASSUME NEW m \in Msg, Wait(m) PROVE IInv'
  BY <1>0, <1>7, Harmless DEF Wait, GoTo, TypeOK, SenderOf
<1>8. ASSUME NEW m \in Msg, CannotSend(m) PROVE IInv'
  <2>1. Again(m, current[owner[m]] # 0) /\ step[m] # "idle"
    BY <1>8 DEF CannotSend
  <2> QED
    BY <1>0, <1>8, <2>1, AgainSteps, Harmless DEF CannotSend, SenderOf
<1>9. ASSUME NEW m \in Msg, SendTimesOut(m) PROVE IInv'
  <2>1. Again(m, TRUE) /\ step[m] # "idle"
    BY <1>9 DEF SendTimesOut
  <2> QED
    BY <1>0, <1>9, <2>1, AgainSteps, Harmless DEF SendTimesOut, SenderOf
<1>10. ASSUME NEW d \in inFlight, Accepted(d[1], d[2]) PROVE IInv'
  BY <1>0, <1>10, Harmless DEF Accepted, Hearing, TypeOK, SenderOf
<1>11. ASSUME NEW d \in inFlight, Refused(d[1], d[2]) PROVE IInv'
  BY <1>0, <1>11, Harmless DEF Refused, Hearing, TypeOK, SenderOf
<1>12. ASSUME NEW s \in MSender, Detached(s) PROVE IInv'
  <2>1. \A y \in Opener : step'[y] = "locked" => step[y] = "locked"
    BY <1>0, <1>12, ReopenSteps DEF Detached
  <2> QED
    BY <1>0, <1>12, <2>1, Harmless DEF Detached, SenderOf
<1>13. CASE Disconnected
  BY <1>0, <1>13, Harmless DEF Disconnected, SenderOf
<1>14. CASE ContextDetached
  <2>1. \A y \in Opener : step'[y] = "locked" => step[y] = "locked"
    BY <1>0, <1>14, ReopenSteps DEF ContextDetached, TypeOK
  <2> QED
    BY <1>0, <1>14, <2>1, Harmless DEF ContextDetached, SenderOf
<1>15. ASSUME NEW a \in Api, CloseSender(a) PROVE IInv'
  <2>1. CASE known = None \/ current[known] = 0
    BY <1>0, <1>15, <2>1, Harmless DEF CloseSender, SenderOf
  <2>2. CASE ~(known = None \/ current[known] = 0)
    <3>1. known \in MSender /\ current' = [current EXCEPT ![known] = 0]
          /\ open' = open \ {<<known, current[known]>>}
      BY <1>0, <1>15, <2>2 DEF CloseSender, TypeOK
    <3>2. \A l \in open' : l[1] # known
      BY <1>0, <3>1 DEF IInv, OneLink, TypeOK
    <3>3. \A s \in MSender :
             current'[s] = current[s] \/ (current'[s] = 0 /\ \A l \in open' : l[1] # s)
      BY <1>0, <3>1, <3>2 DEF TypeOK
    <3> QED
      BY <1>0, <1>15, <3>1, <3>3, Harmless DEF CloseSender, SenderOf
  <2> QED
    BY <2>1, <2>2
<1>16. CASE UNCHANGED vars
  BY <1>0, <1>16, Harmless DEF vars, SenderOf
<1> QED
  BY <1>1, <1>2, <1>3, <1>4, <1>5, <1>6, <1>7, <1>8, <1>9, <1>10, <1>11, <1>12, <1>13, <1>14,
     <1>15, <1>16 DEF Next, OpenerStep, SendStep

-----------------------------------------------------------------------------
LEMMA Invariance == Spec => []IInv
  BY InitHolds, InvNext, PTL DEF Spec

\* Type correctness of the senders.
THEOREM SenderTypeCorrect == Spec => []TypeOK
<1>1. IInv => TypeOK
  BY DEF IInv
<1> QED
  BY Invariance, <1>1, PTL

\* However many sends and reconnections open the link of a sender, lose it and
\* close it meanwhile, there is no open link but the one in _sender.
THEOREM LinksAreSingle == Spec => []OneLink
<1>1. IInv => OneLink
  BY DEF IInv
<1> QED
  BY Invariance, <1>1, PTL

\* A sender with an open link is never marked as connecting, so the loss of its
\* link is not ignored.
THEOREM OpenLinksAreWatched == Spec => []OpenIsWatched
<1>1. IInv => OpenIsWatched
  BY DEF IInv
<1> QED
  BY Invariance, <1>1, PTL

=============================================================================
