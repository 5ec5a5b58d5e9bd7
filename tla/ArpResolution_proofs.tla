------------------------ MODULE ArpResolution_proofs ------------------------
(***************************************************************************)
(* Theorems about ArpResolution, for every number of callers, addresses,   *)
(* hosts, cache slots, queue sizes and expiration times.                   *)
(***************************************************************************)
EXTENDS ArpResolution, TLAPS

\* What notify() does to the answers and the pending list.
LEMMA NotifyType ==
  ASSUME TypeOK, NEW n \in Notification, NEW found, NEW missing,
         Notify(n, found, missing)
  PROVE  /\ box' \in [Requesters -> Macs \union {NoMac, Empty}]
         /\ pending' \subseteq Notification
         /\ rt' \in {found, missing}
<1>1. n.req \in Requesters
  BY DEF Notification
<1>2. CASE Answer(n.req) /\ rt' = found
  <2>1. PICK i \in Live(addr[n.req]) : /\ Deliver(n.req, entries[i].mac)
                                       /\ UNCHANGED pending
    BY <1>2 DEF Answer
  <2>2. entries[i].mac \in Macs \union {NoMac}
    BY <2>1 DEF Live, TypeOK, Entry
  <2> QED
    BY <1>1, <1>2, <2>1, <2>2 DEF Deliver, TypeOK
<1>3. CASE Enlist(n) /\ rt' = missing
  BY <1>3 DEF Enlist, TypeOK
<1> QED
  BY <1>2, <1>3 DEF Notify

\* A step keeps every variable's type.
LEMMA TypeStep ==
  ASSUME TypeOK, [Next]_vars
  PROVE  TypeOK'
<1> USE SizeAssumption, TimeAssumption DEF TypeOK
<1>1. CASE Tick
  BY <1>1 DEF Tick, callerVars, recieveVars, requestVars, historyVars
<1>2. ASSUME NEW r \in Requesters, NEW a \in Addresses, Ask(r, a)
      PROVE  TypeOK'
  BY <1>2 DEF Ask, recieveVars, requestVars, historyVars
<1>3. ASSUME NEW r \in Requesters, Post(r)
      PROVE  TypeOK'
  BY <1>3 DEF Post, recieveVars, requestVars, historyVars
<1>4. ASSUME NEW r \in Requesters, Return(r)
      PROVE  TypeOK'
  BY <1>4 DEF Return, recieveVars, requestVars, historyVars
<1>5. CASE Clear
  <2>1. entries' \in [Slots -> Entry]
    <3>1. \A e \in Entry : [e EXCEPT !.time = 0] \in Entry
      BY DEF Entry
    <3>2. \A i \in Slots : entries[i] \in Entry
      OBVIOUS
    <3>3. entries' = [i \in Slots |-> [entries[i] EXCEPT !.time = 0]]
      BY <1>5 DEF Clear
    <3> QED
      BY <3>1, <3>2, <3>3
  <2>2. UNCHANGED <<now, callerVars, box, requestQueue, recieveVars, pending,
                    requestVars, historyVars>>
    BY <1>5 DEF Clear
  <2> QED
    BY <2>1, <2>2 DEF callerVars, recieveVars, requestVars, historyVars
<1>6. CASE NextExpiration
  BY <1>6 DEF NextExpiration, Notification, callerVars, recieveVars,
              historyVars
<1>7. CASE RecvRequest
  BY <1>7 DEF RecvRequest, callerVars, recieveVars, historyVars
<1>8. CASE RecvTimeout
  BY <1>8 DEF RecvTimeout, callerVars, recieveVars, historyVars
<1>9. CASE ReadClock
  BY <1>9 DEF ReadClock, callerVars, recieveVars, historyVars
<1>10. CASE RemoveExpiredEntries
  <2>1. entries' \in [Slots -> Entry]
    <3>1. \A e \in Entry : [e EXCEPT !.time = 0] \in Entry
      BY DEF Entry
    <3>2. \A i \in Slots : entries[i] \in Entry
      OBVIOUS
    <3>3. entries' = [i \in Slots |-> IF entries[i].time < t
                                      THEN [entries[i] EXCEPT !.time = 0]
                                      ELSE entries[i]]
      BY <1>10 DEF RemoveExpiredEntries
    <3> QED
      BY <3>1, <3>2, <3>3
  <2>2. /\ rt' = "Expire" /\ learnt' = {}
        /\ UNCHANGED <<now, callerVars, box, requestQueue, recieveVars, pending,
                       wake, msg, t, hand, latest, heard, stamped>>
    BY <1>10 DEF RemoveExpiredEntries
  <2> QED
    BY <2>1, <2>2 DEF callerVars, recieveVars
<1>11. CASE RemoveExpiredRequest
  <2>1. PICK n \in pending :
          LET left == IF n.count > 0 THEN n.count - 1 ELSE 0
          IN  /\ pending' = pending \ {n}
              /\ hand' = [n EXCEPT !.count = left]
              /\ rt' = IF left > 0 THEN "Retry" ELSE "GiveUp"
    BY <1>11 DEF RemoveExpiredRequest, Expired
  <2> DEFINE left == IF n.count > 0 THEN n.count - 1 ELSE 0
  <2>2. n \in Notification
    OBVIOUS
  <2>3. left \in 0 .. Tries
    BY <2>2 DEF Notification, Tries
  <2>4. hand' = [n EXCEPT !.count = left] /\ rt' \in {"Retry", "GiveUp"}
    BY <2>1
  <2> HIDE DEF left
  <2>5. hand' \in Notification
    BY <2>2, <2>3, <2>4 DEF Notification
  <2>6. pending' \subseteq Notification
    BY <2>1
  <2>7. UNCHANGED <<now, callerVars, box, requestQueue, recieveVars, entries,
                    wake, msg, t, historyVars>>
    BY <1>11 DEF RemoveExpiredRequest
  <2> QED
    BY <2>4, <2>5, <2>6, <2>7 DEF callerVars, recieveVars, historyVars
<1>12. CASE Retry
  <2> DEFINE an == [hand EXCEPT !.time = t + RequestExpiration]
  <2>1. hand \in Notification
    BY <1>12 DEF Retry
  <2>2. t + RequestExpiration \in Nat
    OBVIOUS
  <2>3. an \in Notification
    BY <2>1, <2>2 DEF Notification
  <2>4. hand' = an /\ Notify(an, "Expire", "Rebroadcast")
    BY <1>12 DEF Retry
  <2> HIDE DEF an
  <2>5. /\ box' \in [Requesters -> Macs \union {NoMac, Empty}]
        /\ pending' \subseteq Notification
        /\ rt' \in {"Expire", "Rebroadcast"}
    BY <2>3, <2>4, NotifyType
  <2> QED
    BY <1>12, <2>3, <2>4, <2>5
    DEF Retry, callerVars, recieveVars, historyVars
<1>13. CASE Rebroadcast
  BY <1>13 DEF Rebroadcast, callerVars, recieveVars, historyVars
<1>14. CASE GiveUp
  BY <1>14 DEF GiveUp, Deliver, callerVars, recieveVars, historyVars
<1>15. CASE EndExpired
  BY <1>15, RequesterAssumption
     DEF EndExpired, Notification, Tries, callerVars, recieveVars,
         historyVars
<1>16. CASE Admit
  <2>1. hand \in Notification /\ Notify(hand, "Next", "Broadcast")
    BY <1>16 DEF Admit
  <2>2. /\ box' \in [Requesters -> Macs \union {NoMac, Empty}]
        /\ pending' \subseteq Notification
        /\ rt' \in {"Next", "Broadcast"}
    BY <2>1, NotifyType
  <2> QED
    BY <1>16, <2>1, <2>2 DEF Admit, callerVars, recieveVars, historyVars
<1>17. CASE Broadcast
  BY <1>17 DEF Broadcast, callerVars, recieveVars, historyVars
<1>18. ASSUME NEW f \in Frames, ProcessFrame(f)
       PROVE  TypeOK'
  BY <1>18 DEF ProcessFrame, callerVars, requestVars, historyVars
<1>19. CASE RecvFrame
  BY <1>19 DEF RecvFrame, callerVars, requestVars, historyVars
<1>20. CASE Stamp
  BY <1>20 DEF Stamp, callerVars, requestVars, historyVars
<1>21. CASE UpdateEntry
  BY <1>21, FrameAssumption
     DEF UpdateEntry, InformPending, Entry, callerVars, requestVars
<1>22. CASE SendReply
  BY <1>22 DEF SendReply, callerVars, requestVars, historyVars
<1>23. CASE UNCHANGED vars
  BY <1>23 DEF vars, callerVars, recieveVars, requestVars, historyVars
<1> QED
  BY <1>1, <1>2, <1>3, <1>4, <1>5, <1>6, <1>7, <1>8, <1>9, <1>10, <1>11,
     <1>12, <1>13, <1>14, <1>15, <1>16, <1>17, <1>18, <1>19, <1>20, <1>21,
     <1>22, <1>23
  DEF Next, RequestThread, PacketRecieveThread

\* Every variable keeps its type; in particular requestThread has a
\* notification in hand whenever it uses one, and packetRecieveThread a frame.
THEOREM TypeCorrect == Spec => []TypeOK
<1>1. Init => TypeOK
  BY SizeAssumption DEF Init, TypeOK, Entry
<1>2. TypeOK /\ [Next]_vars => TypeOK'
  BY TypeStep
<1> QED
  BY <1>1, <1>2, PTL DEF Spec
------------------------------------------------------------------------------
(***************************************************************************)
(* Who holds a request.  OneHolder is inductive given the types;           *)
(* NoLostRequest also needs that no message is left in msg when a new      *)
(* round of requestThread begins.                                          *)
(***************************************************************************)
MsgScope == rt \in {"Next", "Recv", "Admit", "Broadcast"} => msg = Empty

Ownership == TypeOK /\ OneHolder /\ NoLostRequest /\ MsgScope

\* A step that leaves callers, answers and every place a request can be in
\* alone preserves ownership; a hand that is dropped was not held any more.
LEMMA OwnershipFrame ==
  ASSUME Ownership, TypeOK', MsgScope',
         UNCHANGED <<box, requestQueue, pending, msg>>,
         \A r \in Requesters : InHand(r)' <=> InHand(r),
         \A r \in Requesters : caller'[r] = "Waiting" <=> caller[r] = "Waiting"
  PROVE  Ownership'
  BY DEF Ownership, OneHolder, NoLostRequest, Held, Queued, Received, Pending

\* The requester of the notification in hand, and what notify() does with it.
LEMMA OwnershipNotify ==
  ASSUME Ownership, TypeOK', MsgScope',
         NEW n \in Notification, NEW found, NEW missing,
         rt \in {"Retry", "Admit"}, n.req = hand.req,
         Notify(n, found, missing),
         found \notin {"Retry", "GiveUp", "Admit"},
         missing \notin {"Retry", "GiveUp", "Admit"},
         UNCHANGED <<caller, requestQueue, msg>>
  PROVE  Ownership'
<1> DEFINE q == hand.req
<1>1. q \in Requesters /\ InHand(q)
  BY DEF Notification, InHand
<1>2. caller[q] = "Waiting" /\ box[q] = Empty /\ ~Queued(q) /\ ~Received(q)
      /\ ~Pending(q)
  BY <1>1 DEF Ownership, OneHolder, Held
<1>3. \A r \in Requesters : InHand(r) => r = q
  BY DEF InHand
<1>4. rt' \in {found, missing}
  BY DEF Notify
<1>5. \A r \in Requesters : ~InHand(r)'
  BY <1>4 DEF InHand
<1>6. CASE Answer(q)
  <2>1. PICK i \in Live(addr[q]) :
          Deliver(q, entries[i].mac) /\ UNCHANGED pending
    BY <1>6 DEF Answer
  <2>2. entries[i].mac # Empty
    BY <2>1, MacAssumption DEF Ownership, TypeOK, Entry, Live
  <2>3. /\ box'[q] # Empty
        /\ \A r \in Requesters : r # q => box'[r] = box[r]
    BY <1>1, <1>2, <2>1, <2>2 DEF Deliver, Ownership, TypeOK
  <2> QED
    BY <1>1, <1>2, <1>3, <1>5, <2>1, <2>3
    DEF Ownership, OneHolder, NoLostRequest, Held, Queued, Received, Pending
<1>7. CASE Enlist(n)
  <2>1. CASE pending' = pending \union {n} /\ UNCHANGED box
    <3>1. \A r \in Requesters : Pending(r)' <=> Pending(r) \/ r = q
      BY <2>1 DEF Pending
    <3>2. \A k, m \in pending' : k.req = m.req => k = m
      BY <1>2, <2>1 DEF Ownership, OneHolder, Pending
    <3> QED
      BY <1>1, <1>2, <1>3, <1>5, <2>1, <3>1, <3>2
      DEF Ownership, OneHolder, NoLostRequest, Held, Queued, Received
  <2>2. CASE HeapMayFail /\ pending' = {} /\ UNCHANGED box
    BY <1>5, <2>2
    DEF Ownership, OneHolder, NoLostRequest, Held, Queued, Received, Pending
  <2> QED
    BY <1>7, <2>1, <2>2 DEF Enlist
<1> QED
  BY <1>6, <1>7 DEF Notify
LEMMA MsgScopeStep ==
  ASSUME TypeOK, MsgScope, [Next]_vars
  PROVE  MsgScope'
<1>1. CASE RequestThread
  BY <1>1
  DEF RequestThread, MsgScope, NextExpiration, RecvRequest, RecvTimeout,
      ReadClock, RemoveExpiredEntries, RemoveExpiredRequest, Retry,
      Rebroadcast, GiveUp, EndExpired, Admit, Broadcast, Notify
<1>2. CASE UNCHANGED <<rt, msg>>
  BY <1>2 DEF MsgScope
<1> QED
  BY <1>1, <1>2
  DEF Next, vars, Tick, Ask, Post, Return, Clear, ProcessFrame,
      PacketRecieveThread, RecvFrame, Stamp, UpdateEntry, SendReply,
      requestVars

LEMMA OwnershipStep ==
  ASSUME Ownership, [Next]_vars
  PROVE  Ownership'
<1>1. TypeOK' /\ MsgScope'
  BY TypeStep, MsgScopeStep DEF Ownership
<1>2. CASE \/ Tick \/ Clear \/ NextExpiration \/ RecvTimeout \/ ReadClock
           \/ RemoveExpiredEntries \/ Rebroadcast \/ Broadcast
           \/ RecvFrame \/ Stamp \/ SendReply
           \/ (\E f \in Frames : ProcessFrame(f)) \/ UNCHANGED vars
  <2>1. UNCHANGED <<caller, box, requestQueue, pending>>
    BY <1>2
    DEF Tick, Clear, NextExpiration, RecvTimeout, ReadClock,
        RemoveExpiredEntries, Rebroadcast, Broadcast, RecvFrame, Stamp,
        SendReply, ProcessFrame, vars, callerVars
  <2>2. UNCHANGED msg
    BY <1>2
    DEF Ownership, MsgScope, Tick, Clear, NextExpiration, RecvTimeout,
        ReadClock, RemoveExpiredEntries, Rebroadcast, Broadcast, RecvFrame,
        Stamp, SendReply, ProcessFrame, vars, requestVars
  <2>3. \A r \in Requesters : InHand(r)' <=> InHand(r)
    BY <1>2
    DEF InHand, Tick, Clear, NextExpiration, RecvTimeout, ReadClock,
        RemoveExpiredEntries, Rebroadcast, Broadcast, RecvFrame, Stamp,
        SendReply, ProcessFrame, vars, requestVars
  <2> QED
    BY <1>1, <2>1, <2>2, <2>3, OwnershipFrame
<1>3. ASSUME NEW r \in Requesters, NEW a \in Addresses, Ask(r, a)
      PROVE  Ownership'
  <2>1. /\ UNCHANGED <<box, requestQueue, pending, msg>>
        /\ \A s \in Requesters : InHand(s)' <=> InHand(s)
    BY <1>3 DEF Ask, InHand, requestVars
  <2>2. \A s \in Requesters : caller'[s] = "Waiting" <=> caller[s] = "Waiting"
    BY <1>3 DEF Ask, Ownership, TypeOK
  <2> QED
    BY <1>1, <2>1, <2>2, OwnershipFrame
<1>4. ASSUME NEW r \in Requesters, Post(r)
      PROVE  Ownership'
  <2> DEFINE q == requestQueue
  <2>1. /\ UNCHANGED <<box, pending, msg>>
        /\ \A s \in Requesters : InHand(s)' <=> InHand(s)
    BY <1>4 DEF Post, InHand, requestVars
  <2>2. caller \in [Requesters -> {"Idle", "Posting", "Waiting"}]
    BY DEF Ownership, TypeOK
  <2>3. /\ caller[r] = "Posting"
        /\ caller' = [caller EXCEPT ![r] = "Waiting"]
    BY <1>4 DEF Post
  <2>4. /\ caller'[r] = "Waiting"
        /\ \A s \in Requesters : s # r => caller'[s] = caller[s]
    BY <2>2, <2>3
  <2>5. q \in Seq(Requesters) /\ q' = Append(q, r)
    BY <1>4 DEF Post, Ownership, TypeOK
  <2>6. /\ Len(q) \in Nat /\ Len(q') = Len(q) + 1
        /\ \A i \in 1 .. Len(q) : q'[i] = q[i]
        /\ q'[Len(q) + 1] = r
    BY <2>5
  <2>7. \A s \in Requesters : Queued(s)' <=> Queued(s) \/ s = r
    <3>1. 1 .. Len(q') = 1 .. Len(q) \union {Len(q) + 1}
      BY <2>6
    <3> QED
      BY <2>6, <3>1 DEF Queued
  <2>8. ~Queued(r)
    BY <2>3 DEF Ownership, OneHolder, Held
  <2>9. \A i, j \in 1 .. Len(q') : q'[i] = q'[j] => i = j
    <3>1. \A i \in 1 .. Len(q) : q[i] # r
      BY <2>8 DEF Queued
    <3>2. \A i, j \in 1 .. Len(q) : q[i] = q[j] => i = j
      BY DEF Ownership, OneHolder
    <3> QED
      BY <2>6, <3>1, <3>2
  <2> HIDE DEF q
  <2>10. \A s \in Requesters : /\ Received(s)' <=> Received(s)
                               /\ Pending(s)' <=> Pending(s)
    BY <2>1 DEF Received, Pending
  <2>11. box[r] = Empty
    BY <2>3 DEF Ownership, OneHolder
  <2> QED
    BY <1>1, <2>1, <2>3, <2>4, <2>7, <2>8, <2>9, <2>10, <2>11
    DEF Ownership, OneHolder, NoLostRequest, Held, q
<1>5. ASSUME NEW r \in Requesters, Return(r)
      PROVE  Ownership'
  <2>1. /\ UNCHANGED <<requestQueue, pending, msg>>
        /\ \A s \in Requesters : InHand(s)' <=> InHand(s)
    BY <1>5 DEF Return, InHand, requestVars
  <2>2. \A s \in Requesters : Held(s)' <=> Held(s)
    BY <2>1 DEF Held, Queued, Received, Pending
  <2>3. /\ box[r] # Empty /\ box'[r] = Empty /\ caller'[r] = "Idle"
        /\ \A s \in Requesters :
             s # r => box'[s] = box[s] /\ caller'[s] = caller[s]
    BY <1>5 DEF Return, Ownership, TypeOK
  <2>4. ~Held(r)
    BY <2>3 DEF Ownership, OneHolder
  <2> QED
    BY <1>1, <2>1, <2>2, <2>3, <2>4
    DEF Ownership, OneHolder, NoLostRequest, Queued, Received, Pending
<1>6. CASE RecvRequest
  <2> DEFINE q == requestQueue
             h == Head(requestQueue)
  <2>1. /\ UNCHANGED <<caller, box, pending>>
        /\ \A s \in Requesters : ~InHand(s)' /\ ~InHand(s)
        /\ msg = Empty /\ msg' = h
    BY <1>6 DEF RecvRequest, InHand, callerVars, Ownership, MsgScope
  <2>2. q \in Seq(Requesters) /\ q # <<>> /\ q' = Tail(q)
    BY <1>6 DEF RecvRequest, Ownership, TypeOK
  <2>3. /\ Len(q) \in Nat \ {0} /\ Len(q') = Len(q) - 1 /\ q[1] = h
        /\ \A i \in 1 .. Len(q') : q'[i] = q[i + 1]
    BY <2>2
  <2>4. \A i, j \in 1 .. Len(q) : q[i] = q[j] => i = j
    BY DEF Ownership, OneHolder
  <2>5. h \in Requesters /\ Queued(h)
    BY <2>2, <2>3 DEF Queued
  <2> HIDE DEF q, h
  <2>6. \A s \in Requesters : Queued(s)' <=> Queued(s) /\ s # h
    <3>1. ASSUME NEW s \in Requesters, Queued(s)'
          PROVE  Queued(s) /\ s # h
      <4>1. PICK i \in 1 .. Len(q') : q'[i] = s
        BY <3>1 DEF Queued, q
      <4>2. i + 1 \in 1 .. Len(q) /\ q[i + 1] = s /\ 1 \in 1 .. Len(q)
        BY <2>3, <4>1
      <4>3. s # h
        BY <2>3, <2>4, <4>1, <4>2
      <4> QED
        BY <4>2, <4>3 DEF Queued, q
    <3>2. ASSUME NEW s \in Requesters, Queued(s), s # h
          PROVE  Queued(s)'
      <4>1. PICK i \in 1 .. Len(q) : q[i] = s
        BY <3>2 DEF Queued, q
      <4>2. i # 1
        BY <2>3, <3>2, <4>1
      <4>3. i - 1 \in 1 .. Len(q')
        BY <2>3, <4>1, <4>2
      <4>4. q'[i - 1] = s
        <5>1. q'[i - 1] = q[(i - 1) + 1]
          BY <2>3, <4>3
        <5> QED
          BY <4>1, <5>1
      <4> QED
        BY <4>3, <4>4 DEF Queued, q
    <3> QED
      BY <3>1, <3>2
  <2>7. \A i, j \in 1 .. Len(q') : q'[i] = q'[j] => i = j
    <3> SUFFICES ASSUME NEW i \in 1 .. Len(q'), NEW j \in 1 .. Len(q'),
                        q'[i] = q'[j]
                 PROVE  i = j
      OBVIOUS
    <3>1. /\ i + 1 \in 1 .. Len(q) /\ j + 1 \in 1 .. Len(q)
          /\ q[i + 1] = q[j + 1]
      BY <2>3
    <3>2. i + 1 = j + 1
      BY <2>4, <3>1
    <3> QED
      BY <2>3, <3>2
  <2>8. \A s \in Requesters : /\ Received(s)' <=> s = h
                              /\ ~Received(s)
    BY <2>1, RequesterAssumption DEF Received
  <2>9. \A s \in Requesters : Pending(s)' <=> Pending(s)
    BY <2>1 DEF Pending
  <2> QED
    BY <1>1, <2>1, <2>5, <2>6, <2>7, <2>8, <2>9
    DEF Ownership, OneHolder, NoLostRequest, Held, q
<1>7. CASE RemoveExpiredRequest
  <2>1. PICK n \in pending :
          /\ pending' = pending \ {n} /\ hand'.req = n.req
          /\ rt' \in {"Retry", "GiveUp"}
    <3>1. PICK n \in pending :
            LET left == IF n.count > 0 THEN n.count - 1 ELSE 0
            IN  /\ pending' = pending \ {n}
                /\ hand' = [n EXCEPT !.count = left]
                /\ rt' = IF left > 0 THEN "Retry" ELSE "GiveUp"
      BY <1>7 DEF RemoveExpiredRequest, Expired
    <3>2. n \in Notification
      BY DEF Ownership, TypeOK
    <3> QED
      BY <3>1, <3>2 DEF Notification
  <2>2. /\ UNCHANGED <<caller, box, requestQueue, msg>>
        /\ \A s \in Requesters : ~InHand(s)
    BY <1>7 DEF RemoveExpiredRequest, InHand, callerVars
  <2>3. n.req \in Requesters
    BY DEF Ownership, TypeOK, Notification
  <2>4. \A s \in Requesters : /\ InHand(s)' <=> s = n.req
                              /\ Pending(s)' <=> Pending(s) /\ s # n.req
    BY <2>1 DEF InHand, Pending, Ownership, OneHolder
  <2>5. Pending(n.req)
    BY DEF Pending
  <2>6. \A s \in Requesters : /\ Queued(s)' <=> Queued(s)
                              /\ Received(s)' <=> Received(s)
    BY <2>2 DEF Queued, Received
  <2>7. \A k, m \in pending' : k.req = m.req => k = m
    BY <2>1 DEF Ownership, OneHolder
  <2> QED
    BY <1>1, <2>2, <2>3, <2>4, <2>5, <2>6, <2>7
    DEF Ownership, OneHolder, NoLostRequest, Held
<1>8. CASE Retry
  <2> DEFINE an == [hand EXCEPT !.time = t + RequestExpiration]
  <2>1. /\ Notify(an, "Expire", "Rebroadcast")
        /\ UNCHANGED <<caller, requestQueue, msg>>
    BY <1>8 DEF Retry, callerVars
  <2>2. hand \in Notification /\ t + RequestExpiration \in Nat
    BY <1>8, TimeAssumption DEF Retry, Ownership, TypeOK
  <2>3. an \in Notification /\ an.req = hand.req
    BY <2>2 DEF Notification
  <2> HIDE DEF an
  <2> QED
    BY <1>1, <1>8, <2>1, <2>3, OwnershipNotify DEF Retry
<1>9. CASE Admit
  <2>1. /\ Notify(hand, "Next", "Broadcast")
        /\ UNCHANGED <<caller, requestQueue, msg>>
    BY <1>9 DEF Admit, callerVars
  <2>2. hand \in Notification
    BY <1>9 DEF Admit, Ownership, TypeOK
  <2> QED
    BY <1>1, <1>9, <2>1, <2>2, OwnershipNotify DEF Admit
<1>10. CASE GiveUp
  <2> DEFINE q == hand.req
  <2>1. q \in Requesters /\ InHand(q)
    BY <1>10 DEF GiveUp, InHand, Ownership, TypeOK, Notification
  <2>2. box[q] = Empty /\ caller[q] = "Waiting"
    BY <2>1 DEF Ownership, OneHolder, Held
  <2>3. /\ box'[q] # Empty
        /\ \A s \in Requesters : s # q => box'[s] = box[s]
    BY <1>10, <2>1, <2>2, MacAssumption
    DEF GiveUp, Deliver, Ownership, TypeOK
  <2>4. /\ UNCHANGED <<caller, requestQueue, pending, msg>>
        /\ \A s \in Requesters : ~InHand(s)'
    BY <1>10 DEF GiveUp, InHand, callerVars
  <2>5. \A s \in Requesters : InHand(s) => s = q
    BY DEF InHand
  <2>6. \A s \in Requesters : /\ Queued(s)' <=> Queued(s)
                              /\ Received(s)' <=> Received(s)
                              /\ Pending(s)' <=> Pending(s)
    BY <2>4 DEF Queued, Received, Pending
  <2> HIDE DEF q
  <2> QED
    BY <1>1, <2>1, <2>2, <2>3, <2>4, <2>5, <2>6
    DEF Ownership, OneHolder, NoLostRequest, Held
<1>11. CASE EndExpired
  <2>1. /\ UNCHANGED <<caller, box, requestQueue, pending>>
        /\ \A s \in Requesters : ~InHand(s)
    BY <1>11 DEF EndExpired, InHand, callerVars
  <2>2. \A s \in Requesters : /\ Queued(s)' <=> Queued(s)
                              /\ Pending(s)' <=> Pending(s)
    BY <2>1 DEF Queued, Pending
  <2>3. CASE msg = Empty
    <3>1. msg' = msg /\ rt' = "Next"
      BY <1>11, <2>3 DEF EndExpired
    <3>2. \A s \in Requesters : InHand(s)' <=> InHand(s)
      BY <2>1, <3>1 DEF InHand
    <3> QED
      BY <1>1, <2>1, <3>1, <3>2, OwnershipFrame
  <2>4. CASE msg # Empty
    <3>1. msg' = Empty /\ rt' = "Admit" /\ hand'.req = msg
      BY <1>11, <2>4 DEF EndExpired
    <3>2. \A s \in Requesters : /\ InHand(s)' <=> Received(s)
                                /\ ~Received(s)'
      BY <3>1, RequesterAssumption DEF InHand, Received
    <3> QED
      BY <1>1, <2>1, <2>2, <3>2
      DEF Ownership, OneHolder, NoLostRequest, Held
  <2> QED
    BY <2>3, <2>4
<1>12. CASE UpdateEntry
  <2> DEFINE waiting == {n \in pending : addr[n.req] = rx.psender}
             told    == {n.req : n \in waiting}
  <2>1. /\ pending' = pending \ waiting
        /\ box' = [r \in Requesters |-> IF r \in told /\ box[r] = Empty
                                        THEN rx.hsender ELSE box[r]]
        /\ UNCHANGED <<caller, requestQueue, msg, rt, hand>>
    BY <1>12 DEF UpdateEntry, InformPending, callerVars, requestVars
  <2>2. rx.hsender # Empty
    BY <1>12, FrameAssumption, MacAssumption
    DEF UpdateEntry, Ownership, TypeOK
  <2>3. \A s \in Requesters : s \in told =>
          Pending(s) /\ box[s] = Empty /\ caller[s] = "Waiting"
    BY DEF Pending, Ownership, OneHolder, Held
  <2>4. \A s \in Requesters : Pending(s)' <=> Pending(s) /\ s \notin told
    BY <2>1 DEF Pending, Ownership, OneHolder
  <2>5. \A s \in Requesters : /\ InHand(s)' <=> InHand(s)
                              /\ Queued(s)' <=> Queued(s)
                              /\ Received(s)' <=> Received(s)
    BY <2>1 DEF InHand, Queued, Received
  <2>6. \A s \in Requesters :
          /\ s \in told => box'[s] # Empty
          /\ s \notin told => box'[s] = box[s]
    BY <2>1, <2>2, <2>3
  <2>7. \A k, m \in pending' : k.req = m.req => k = m
    BY <2>1 DEF Ownership, OneHolder
  <2> HIDE DEF told, waiting
  <2> QED
    BY <1>1, <2>1, <2>3, <2>4, <2>5, <2>6, <2>7
    DEF Ownership, OneHolder, NoLostRequest, Held
<1> QED
  BY <1>2, <1>3, <1>4, <1>5, <1>6, <1>7, <1>8, <1>9, <1>10, <1>11, <1>12
  DEF Next, RequestThread, PacketRecieveThread

LEMMA OwnershipInit ==
  ASSUME Init
  PROVE  Ownership
<1>1. TypeOK
  BY SizeAssumption DEF Init, TypeOK, Entry
<1> QED
  BY <1>1, RequesterAssumption
  DEF Init, Ownership, OneHolder, NoLostRequest, MsgScope, Held, Queued,
      Received, InHand, Pending

\* A request is answered at most once, and only while its caller is there to
\* take the answer.
THEOREM AnsweredOnce == Spec => []OneHolder
<1>1. Ownership /\ [Next]_vars => Ownership'
  BY OwnershipStep
<1>2. Ownership => OneHolder
  BY DEF Ownership
<1> QED
  BY <1>1, <1>2, OwnershipInit, PTL DEF Spec

\* While list nodes can be allocated, no blocked caller is forgotten.
THEOREM NothingLost == Spec => []NoLostRequest
<1>1. Ownership /\ [Next]_vars => Ownership'
  BY OwnershipStep
<1>2. Ownership => NoLostRequest
  BY DEF Ownership
<1> QED
  BY <1>1, <1>2, OwnershipInit, PTL DEF Spec
-------------------------------------------------------------------------------
(***************************************************************************)
(* What the answers are worth: the cache, the tries behind "unreachable",  *)
(* the age of an answer, and the promise of request().                     *)
(***************************************************************************)
\* A step keeps the cache coherent; only three actions touch it.
LEMMA CacheStep ==
  ASSUME TypeOK, CacheCoherent, [Next]_vars
  PROVE  CacheCoherent'
<1>1. CASE Clear
  <2>1. entries' = [i \in Slots |-> [entries[i] EXCEPT !.time = 0]]
    BY <1>1 DEF Clear
  <2>2. \A i \in Slots : entries[i] \in Entry
    BY DEF TypeOK
  <2>3. \A i \in Slots : entries'[i].ip = entries[i].ip /\ entries'[i].time = 0
    BY <2>1, <2>2 DEF Entry
  <2> QED
    BY <2>3 DEF CacheCoherent
<1>2. CASE RemoveExpiredEntries
  BY <1>2 DEF RemoveExpiredEntries, CacheCoherent, TypeOK, Entry, historyVars
<1>3. CASE UpdateEntry
  <2>1. rx.psender \in Addresses /\ rx.psender # NoIP /\ rx.hsender \in Macs
    BY <1>3, FrameAssumption DEF UpdateEntry, TypeOK
  <2>2. PICK i \in Slots :
          /\ WriteSlot(i, rx.psender)
          /\ entries' = [entries EXCEPT ![i] =
                           [ip |-> rx.psender, mac |-> rx.hsender, time |-> expiry]]
    BY <1>3 DEF UpdateEntry
  <2>3. latest' = [latest EXCEPT ![rx.psender] = rx.hsender]
    BY <1>3 DEF UpdateEntry
  <2>4. \A j \in Slots : j # i => entries[j].ip # rx.psender
    BY <2>1, <2>2 DEF WriteSlot, CacheCoherent
  <2>5. /\ entries'[i] = [ip |-> rx.psender, mac |-> rx.hsender, time |-> expiry]
        /\ \A j \in Slots : j # i => entries'[j] = entries[j]
    BY <2>2 DEF TypeOK
  <2>6. /\ latest'[rx.psender] = rx.hsender
        /\ \A a \in Addresses : a # rx.psender => latest'[a] = latest[a]
    BY <2>1, <2>3 DEF TypeOK
  <2> QED
    BY <2>1, <2>4, <2>5, <2>6 DEF CacheCoherent
<1>4. CASE UNCHANGED <<entries, latest>>
  BY <1>4 DEF CacheCoherent
<1> QED
  BY <1>1, <1>2, <1>3, <1>4
  DEF Next, RequestThread, PacketRecieveThread, vars, Tick, Ask, Post, Return,
      NextExpiration, RecvRequest, RecvTimeout, ReadClock, RemoveExpiredRequest,
      Retry, Rebroadcast, GiveUp, EndExpired, Admit, Broadcast, ProcessFrame,
      RecvFrame, Stamp, SendReply, historyVars

LEMMA CacheInit ==
  ASSUME Init
  PROVE  CacheCoherent
  BY DEF Init, CacheCoherent

\* The cache holds an address once, and live entries hold what was learnt last:
\* updateEntry, removeExpiredEntries and clear keep it so, for any number of slots.
THEOREM CacheIsCoherent == Spec => []CacheCoherent
<1>1. TypeOK /\ CacheCoherent /\ [Next]_vars => CacheCoherent'
  BY CacheStep
<1> QED
  BY <1>1, CacheInit, TypeCorrect, PTL DEF Spec
------------------------------------------------------------------------------
\* A request in one of these places belongs to a caller that is blocked, so its
\* address and the time of its call stay as they are.
LEMMA CallFixed ==
  ASSUME Ownership, [Next]_vars, NEW r \in Requesters, Held(r)
  PROVE  addr'[r] = addr[r] /\ since'[r] = since[r]
<1>1. caller[r] = "Waiting" /\ box[r] = Empty
  BY DEF Ownership, OneHolder
<1>2. addr \in [Requesters -> Addresses \union {NoIP}] /\ since \in [Requesters -> Nat]
  BY DEF Ownership, TypeOK
<1>3. ASSUME NEW s \in Requesters, NEW a \in Addresses, Ask(s, a)
      PROVE  addr'[r] = addr[r] /\ since'[r] = since[r]
  BY <1>1, <1>2, <1>3 DEF Ask
<1>4. ASSUME NEW s \in Requesters, Return(s)
      PROVE  addr'[r] = addr[r] /\ since'[r] = since[r]
  BY <1>1, <1>2, <1>4 DEF Return
<1>5. CASE UNCHANGED <<addr, since>>
  BY <1>5
<1> QED
  BY <1>3, <1>4, <1>5
  DEF Next, RequestThread, PacketRecieveThread, vars, callerVars, Tick, Post, Clear,
      NextExpiration, RecvRequest, RecvTimeout, ReadClock, RemoveExpiredEntries,
      RemoveExpiredRequest, Retry, Rebroadcast, GiveUp, EndExpired, Admit, Broadcast,
      ProcessFrame, RecvFrame, Stamp, UpdateEntry, SendReply

\* What notify() does with a notification whose address no live entry holds.
LEMMA MissedNotify ==
  ASSUME TypeOK, NoMissedAnswer, NEW n \in Notification, NEW found, NEW missing,
         Notify(n, found, missing), UNCHANGED <<addr, entries>>
  PROVE  NoMissedAnswer'
<1>1. \A a : Live(a)' = Live(a)
  BY DEF Live
<1>2. CASE Answer(n.req)
  BY <1>1, <1>2 DEF Answer, NoMissedAnswer
<1>3. CASE Enlist(n)
  BY <1>1, <1>3 DEF Enlist, NoMissedAnswer
<1> QED
  BY <1>2, <1>3 DEF Notify

LEMMA MissedStep ==
  ASSUME Ownership, NoMissedAnswer, [Next]_vars
  PROVE  NoMissedAnswer'
<1>1. TypeOK
  BY DEF Ownership
<1>2. \A n \in pending : n \in Notification /\ n.req \in Requesters /\ Held(n.req)
  BY <1>1 DEF TypeOK, Notification, Held, Pending
<1>3. \A n \in pending : addr'[n.req] = addr[n.req]
  BY <1>2, CallFixed
<1>4. CASE Retry
  <2> DEFINE an == [hand EXCEPT !.time = t + RequestExpiration]
  <2>1. hand \in Notification /\ t + RequestExpiration \in Nat
    BY <1>1, <1>4, TimeAssumption DEF Retry, TypeOK
  <2>2. an \in Notification
    BY <2>1 DEF Notification
  <2>3. Notify(an, "Expire", "Rebroadcast") /\ UNCHANGED <<addr, entries>>
    BY <1>4 DEF Retry, callerVars
  <2> HIDE DEF an
  <2> QED
    BY <1>1, <2>2, <2>3, MissedNotify
<1>5. CASE Admit
  <2>1. hand \in Notification
    BY <1>1, <1>5 DEF Admit, TypeOK
  <2>2. Notify(hand, "Next", "Broadcast") /\ UNCHANGED <<addr, entries>>
    BY <1>5 DEF Admit, callerVars
  <2> QED
    BY <1>1, <2>1, <2>2, MissedNotify
<1>6. CASE UpdateEntry
  <2>1. /\ pending' = pending \ {n \in pending : addr[n.req] = rx.psender}
        /\ UNCHANGED addr
    BY <1>6 DEF UpdateEntry, InformPending, callerVars
  <2>2. PICK i \in Slots :
          entries' = [entries EXCEPT ![i] =
                        [ip |-> rx.psender, mac |-> rx.hsender, time |-> expiry]]
    BY <1>6 DEF UpdateEntry
  <2>3. /\ entries'[i].ip = rx.psender
        /\ \A j \in Slots : j # i => entries'[j] = entries[j]
    BY <1>1, <2>2 DEF TypeOK
  <2>4. \A a : a # rx.psender => Live(a)' \subseteq Live(a)
    BY <2>3 DEF Live
  <2> QED
    BY <2>1, <2>4 DEF NoMissedAnswer
<1>7. CASE pending' \subseteq pending /\ \A a : Live(a)' \subseteq Live(a)
  BY <1>3, <1>7 DEF NoMissedAnswer
<1>8. CASE Clear
  BY <1>1, <1>7, <1>8 DEF Clear, Live, TypeOK, Entry
<1>9. CASE RemoveExpiredEntries
  BY <1>1, <1>7, <1>9 DEF RemoveExpiredEntries, Live, TypeOK, Entry
<1>10. CASE pending' \subseteq pending /\ UNCHANGED entries
  BY <1>7, <1>10 DEF Live
<1> QED
  BY <1>4, <1>5, <1>6, <1>8, <1>9, <1>10
  DEF Next, RequestThread, PacketRecieveThread, vars, Tick, Ask, Post, Return,
      NextExpiration, RecvRequest, RecvTimeout, ReadClock, RemoveExpiredRequest,
      Rebroadcast, GiveUp, EndExpired, Broadcast, ProcessFrame, RecvFrame, Stamp,
      SendReply

\* Ownership as an invariant of the specification.
LEMMA Owned == Spec => []Ownership
<1>1. Ownership /\ [Next]_vars => Ownership'
  BY OwnershipStep
<1> QED
  BY <1>1, OwnershipInit, PTL DEF Spec

\* notify(), informPending() and the purge leave nobody on the pending list whose
\* address the cache knows.
THEOREM NothingMissed == Spec => []NoMissedAnswer
<1>1. Init => NoMissedAnswer
  BY DEF Init, NoMissedAnswer
<1>2. Ownership /\ NoMissedAnswer /\ [Next]_vars => NoMissedAnswer'
  BY MissedStep
<1> QED
  BY <1>1, <1>2, Owned, PTL DEF Spec
------------------------------------------------------------------------------
(***************************************************************************)
(* PatientGiveUp.  Every try adds REQUEST_EXPIRATION to a clock that was   *)
(* read after the time that the try before had to pass.                    *)
(***************************************************************************)
Patience ==
  /\ t <= now
  /\ \A r \in Requesters : since[r] <= now
  /\ \A n \in pending :
       /\ n.count \in {1, 2}
       /\ n.count = 2 => n.time >= since[n.req] + RequestExpiration
       /\ n.count = 1 => n.time >= since[n.req] + 2 * RequestExpiration
  /\ rt = "Retry" => hand.count = 1 /\ t > since[hand.req] + RequestExpiration
  /\ rt = "GiveUp" => t > since[hand.req] + 2 * RequestExpiration
  /\ rt = "Admit" => /\ hand.count = 2
                     /\ hand.time >= since[hand.req] + RequestExpiration

LEMMA PatienceNotify ==
  ASSUME TypeOK, Patience, NEW n \in Notification, NEW found, NEW missing,
         Notify(n, found, missing), UNCHANGED <<now, t, since>>,
         found \notin {"Retry", "GiveUp", "Admit"},
         missing \notin {"Retry", "GiveUp", "Admit"},
         n.count \in {1, 2},
         n.count = 2 => n.time >= since[n.req] + RequestExpiration,
         n.count = 1 => n.time >= since[n.req] + 2 * RequestExpiration
  PROVE  Patience'
<1>1. pending' \subseteq pending \union {n} /\ rt' \in {found, missing}
  BY DEF Notify, Answer, Enlist
<1> QED
  BY <1>1 DEF Patience

LEMMA PatienceStep ==
  ASSUME Ownership, Patience, [Next]_vars
  PROVE  Patience'
<1>1. TypeOK /\ RequestExpiration \in Nat
  BY TimeAssumption DEF Ownership
<1>2. /\ now \in Nat /\ t \in Nat
      /\ since \in [Requesters -> Nat]
  BY <1>1 DEF TypeOK
<1>3. \A n \in pending :
        n \in Notification /\ n.req \in Requesters /\ since'[n.req] = since[n.req]
  <2>1. \A n \in pending : n \in Notification /\ n.req \in Requesters /\ Held(n.req)
    BY <1>1 DEF TypeOK, Notification, Held, Pending
  <2> QED
    BY <2>1, CallFixed
<1>4. rt \in {"Retry", "GiveUp", "Admit"} =>
        hand \in Notification /\ hand.req \in Requesters /\ since'[hand.req] = since[hand.req]
  <2>1. rt \in {"Retry", "GiveUp", "Admit"} =>
          hand \in Notification /\ hand.req \in Requesters /\ Held(hand.req)
    BY <1>1 DEF TypeOK, Notification, Held, InHand
  <2> QED
    BY <2>1, CallFixed
<1>5. CASE Tick
  BY <1>2, <1>5 DEF Tick, Patience, callerVars, requestVars
<1>6. ASSUME NEW r \in Requesters, NEW a \in Addresses, Ask(r, a)
      PROVE  Patience'
  <2>1. UNCHANGED <<now, pending, rt, t, hand>>
    BY <1>6 DEF Ask, requestVars
  <2>2. \A s \in Requesters : since'[s] <= now
    BY <1>2, <1>6 DEF Ask, Patience
  <2> QED
    BY <1>3, <1>4, <2>1, <2>2 DEF Patience
<1>7. ASSUME NEW r \in Requesters, Return(r)
      PROVE  Patience'
  <2>1. UNCHANGED <<now, pending, rt, t, hand>>
    BY <1>7 DEF Return, requestVars
  <2>2. \A s \in Requesters : since'[s] <= now
    BY <1>2, <1>7 DEF Return, Patience
  <2> QED
    BY <1>3, <1>4, <2>1, <2>2 DEF Patience
<1>8. CASE ReadClock
  BY <1>2, <1>8 DEF ReadClock, Patience, callerVars
<1>9. CASE RemoveExpiredRequest
  <2>1. PICK n \in Expired :
          LET left == IF n.count > 0 THEN n.count - 1 ELSE 0
          IN  /\ pending' = pending \ {n}
              /\ hand' = [n EXCEPT !.count = left]
              /\ rt' = IF left > 0 THEN "Retry" ELSE "GiveUp"
    BY <1>9 DEF RemoveExpiredRequest
  <2>2. n \in pending /\ n.time < t /\ n \in Notification
    BY <1>3 DEF Expired
  <2>3. UNCHANGED <<now, t, since>>
    BY <1>9 DEF RemoveExpiredRequest, callerVars
  <2>4. n.time \in Nat /\ since[n.req] \in Nat
    BY <1>2, <1>3, <2>2 DEF Notification
  <2>5. CASE n.count = 2
    <3>1. /\ pending' = pending \ {n} /\ hand' = [n EXCEPT !.count = 1]
          /\ rt' = "Retry"
      BY <2>1, <2>5
    <3>2. hand'.count = 1 /\ hand'.req = n.req
      BY <2>2, <3>1 DEF Notification
    <3>3. t > since[n.req] + RequestExpiration
      BY <1>1, <1>2, <2>2, <2>4, <2>5 DEF Patience
    <3> QED
      BY <2>3, <3>1, <3>2, <3>3 DEF Patience
  <2>6. CASE n.count = 1
    <3>1. /\ pending' = pending \ {n} /\ hand' = [n EXCEPT !.count = 0]
          /\ rt' = "GiveUp"
      BY <2>1, <2>6
    <3>2. hand'.req = n.req
      BY <2>2, <3>1 DEF Notification
    <3>3. t > since[n.req] + 2 * RequestExpiration
      BY <1>1, <1>2, <2>2, <2>4, <2>6 DEF Patience
    <3> QED
      BY <2>3, <3>1, <3>2, <3>3 DEF Patience
  <2> QED
    BY <2>2, <2>5, <2>6 DEF Patience
<1>10. CASE Retry
  <2> DEFINE an == [hand EXCEPT !.time = t + RequestExpiration]
  <2>1. rt = "Retry" /\ hand \in Notification /\ hand.req \in Requesters
    BY <1>4, <1>10 DEF Retry
  <2>2. /\ an \in Notification /\ an.req = hand.req
        /\ an.count = 1 /\ an.time = t + RequestExpiration
    BY <1>1, <1>2, <2>1 DEF Notification, Patience
  <2>3. t > since[hand.req] + RequestExpiration
    BY <2>1 DEF Patience
  <2>4. an.time >= since[an.req] + 2 * RequestExpiration
    BY <1>1, <1>2, <2>1, <2>2, <2>3
  <2>5. Notify(an, "Expire", "Rebroadcast") /\ UNCHANGED <<now, t, since>>
    BY <1>10 DEF Retry, callerVars
  <2> HIDE DEF an
  <2> QED
    BY <1>1, <2>2, <2>4, <2>5, PatienceNotify
<1>11. CASE Admit
  <2>1. rt = "Admit" /\ hand \in Notification
    BY <1>4, <1>11 DEF Admit
  <2>2. Notify(hand, "Next", "Broadcast") /\ UNCHANGED <<now, t, since>>
    BY <1>11 DEF Admit, callerVars
  <2>3. hand.count = 2 /\ hand.time >= since[hand.req] + RequestExpiration
    BY <2>1 DEF Patience
  <2> QED
    BY <1>1, <2>1, <2>2, <2>3, PatienceNotify
<1>12. CASE EndExpired
  <2>1. UNCHANGED <<now, pending, t, since>>
    BY <1>12 DEF EndExpired, callerVars
  <2>2. CASE msg = Empty
    BY <1>12, <2>1, <2>2 DEF EndExpired, Patience
  <2>3. CASE msg # Empty
    <3>1. /\ hand' = [req |-> msg, count |-> 2, time |-> now + RequestExpiration]
          /\ rt' = "Admit"
      BY <1>12, <2>3 DEF EndExpired, Tries
    <3>2. msg \in Requesters
      BY <1>1, <2>3 DEF TypeOK
    <3>3. now + RequestExpiration >= since[msg] + RequestExpiration
      BY <1>1, <1>2, <3>2 DEF Patience
    <3> QED
      BY <2>1, <3>1, <3>3 DEF Patience
  <2> QED
    BY <2>2, <2>3
<1>13. CASE NextExpiration
  BY <1>2, <1>13 DEF NextExpiration, Patience, callerVars
<1>14. CASE pending' \subseteq pending /\ UNCHANGED <<now, t, since, rt, hand>>
  BY <1>14 DEF Patience
<1>15. CASE UpdateEntry
  BY <1>14, <1>15 DEF UpdateEntry, InformPending, callerVars, requestVars
<1>16. CASE /\ UNCHANGED <<now, pending, t, since>>
            /\ rt' \notin {"Retry", "GiveUp", "Admit"}
  BY <1>16 DEF Patience
<1>17. CASE UNCHANGED <<now, pending, t, since, rt, hand>>
  BY <1>14, <1>17
<1>18. CASE RecvRequest \/ RecvTimeout \/ RemoveExpiredEntries \/ Rebroadcast \/ GiveUp
            \/ Broadcast
  BY <1>16, <1>18
  DEF RecvRequest, RecvTimeout, RemoveExpiredEntries, Rebroadcast, GiveUp, Broadcast,
      callerVars
<1>19. CASE \/ \E r \in Requesters : Post(r)
            \/ Clear \/ (\E f \in Frames : ProcessFrame(f))
            \/ RecvFrame \/ Stamp \/ SendReply \/ UNCHANGED vars
  BY <1>17, <1>19
  DEF Post, Clear, ProcessFrame, RecvFrame, Stamp, SendReply, vars, callerVars, requestVars
<1> QED
  BY <1>5, <1>6, <1>7, <1>8, <1>9, <1>10, <1>11, <1>12, <1>13, <1>15, <1>18, <1>19
  DEF Next, RequestThread, PacketRecieveThread

\* Only a give-up answers NoMac: what the cache or a frame has is an address.
LEMMA NoMacIsGiveUp ==
  ASSUME Ownership, CacheCoherent, [Next]_vars,
         NEW r \in Requesters, Answered(r), box'[r] = NoMac
  PROVE  GiveUp /\ r = hand.req
<1>1. TypeOK
  BY DEF Ownership
<1>2. box \in [Requesters -> Macs \union {NoMac, Empty}]
  BY <1>1 DEF TypeOK
<1>3. ASSUME NEW n \in Notification, NEW found, NEW missing, Notify(n, found, missing)
      PROVE  FALSE
  <2>1. Answer(n.req)
    BY <1>3 DEF Notify, Enlist, Answered
  <2>2. PICK i \in Live(addr[n.req]) : Deliver(n.req, entries[i].mac)
    BY <2>1 DEF Answer
  <2>3. entries[i].mac # NoMac
    BY <1>1, MacAssumption DEF Live, CacheCoherent, TypeOK, Entry
  <2> QED
    BY <1>2, <2>2, <2>3 DEF Deliver, Answered
<1>4. ~Retry
  <2> DEFINE an == [hand EXCEPT !.time = t + RequestExpiration]
  <2>1. SUFFICES ASSUME Retry PROVE FALSE
    OBVIOUS
  <2>2. hand \in Notification /\ t + RequestExpiration \in Nat
    BY <1>1, <2>1, TimeAssumption DEF Retry, TypeOK
  <2>3. an \in Notification
    BY <2>2 DEF Notification
  <2>4. Notify(an, "Expire", "Rebroadcast")
    BY <2>1 DEF Retry
  <2> HIDE DEF an
  <2> QED
    BY <1>3, <2>3, <2>4
<1>5. ~Admit
  BY <1>1, <1>3 DEF Admit, TypeOK
<1>6. ~UpdateEntry
  <2>1. SUFFICES ASSUME UpdateEntry PROVE FALSE
    OBVIOUS
  <2>2. rx.hsender # NoMac
    BY <1>1, <2>1, FrameAssumption, MacAssumption DEF UpdateEntry, TypeOK
  <2> QED
    BY <2>1, <2>2 DEF UpdateEntry, InformPending, Answered
<1>7. ASSUME NEW s \in Requesters, Return(s)
      PROVE  FALSE
  BY <1>2, <1>7 DEF Return, Answered
<1>8. box' # box
  BY DEF Answered
<1>9. GiveUp
  BY <1>4, <1>5, <1>6, <1>7, <1>8
  DEF Next, RequestThread, PacketRecieveThread, vars, Tick, Ask, Post, Clear,
      NextExpiration, RecvRequest, RecvTimeout, ReadClock, RemoveExpiredEntries,
      RemoveExpiredRequest, Rebroadcast, EndExpired, Broadcast, ProcessFrame,
      RecvFrame, Stamp, SendReply
<1> QED
  BY <1>2, <1>9 DEF GiveUp, Deliver, Answered

\* "Unreachable" comes only after all tries had their time.
THEOREM GivesUpPatiently == Spec => PatientGiveUp
<1> DEFINE Patient == \A r \in Requesters : Answered(r) /\ box'[r] = NoMac =>
                        now > since[r] + Tries * RequestExpiration
<1>1. Init => Patience
  BY DEF Init, Patience
<1>2. Ownership /\ Patience /\ [Next]_vars => Patience'
  BY PatienceStep
<1>3. Ownership /\ CacheCoherent /\ Patience /\ [Next]_vars => Patient
  <2> SUFFICES ASSUME Ownership, CacheCoherent, Patience, [Next]_vars,
                      NEW r \in Requesters, Answered(r), box'[r] = NoMac
               PROVE  now > since[r] + Tries * RequestExpiration
    OBVIOUS
  <2>1. GiveUp /\ r = hand.req
    BY NoMacIsGiveUp
  <2>2. t > since[r] + 2 * RequestExpiration /\ t <= now
    BY <2>1 DEF GiveUp, Patience
  <2> QED
    BY <2>2, TimeAssumption DEF Ownership, TypeOK, Tries
<1>4. Ownership /\ CacheCoherent /\ Patience /\ [Next]_vars => [Patient]_vars
  BY <1>3
<1> HIDE DEF Patient
<1>5. Spec => [][Patient]_vars
  BY <1>1, <1>2, <1>4, Owned, CacheIsCoherent, PTL DEF Spec
<1> QED
  BY <1>5 DEF PatientGiveUp, Patient
------------------------------------------------------------------------------
(***************************************************************************)
(* FreshAnswer.  A live entry runs out CACHE_ENTRY_EXPIRATION after the    *)
(* clock it was stamped with; after the purge none is left that ran out    *)
(* before t, but for those written since, which may have been stamped long *)
(* before.                                                                 *)
(***************************************************************************)
Purged == rt \in {"Expire", "Retry", "Rebroadcast", "GiveUp", "Admit", "Broadcast"}

Freshness ==
  /\ prt = "Update" => expiry = stamped + CacheExpiration
  /\ \A i \in Slots : entries[i].time # 0 =>
       /\ entries[i].time = heard[entries[i].ip] + CacheExpiration
       /\ Purged => entries[i].time >= t \/ entries[i].ip \in learnt

LEMMA FreshnessStep ==
  ASSUME TypeOK, CacheCoherent, Freshness, [Next]_vars
  PROVE  Freshness'
<1>1. /\ now \in Nat /\ t \in Nat /\ expiry \in Nat /\ stamped \in Nat
      /\ heard \in [Addresses -> Nat] /\ entries \in [Slots -> Entry]
      /\ CacheExpiration \in Nat
  BY TimeAssumption DEF TypeOK
<1>2. \A i \in Slots : entries[i].time \in Nat
                       /\ (entries[i].time # 0 => entries[i].ip \in Addresses)
  BY <1>1 DEF Entry, CacheCoherent
<1>3. CASE Clear
  <2>1. \A i \in Slots : entries'[i].time = 0
    BY <1>1, <1>3 DEF Clear, Entry
  <2> QED
    BY <1>3, <2>1 DEF Clear, Freshness, recieveVars, requestVars, historyVars
<1>4. CASE RemoveExpiredEntries
  <2>1. \A i \in Slots :
          /\ entries'[i].ip = entries[i].ip
          /\ entries'[i].time # 0 => entries'[i].time = entries[i].time
                                     /\ entries[i].time >= t
    BY <1>1, <1>2, <1>4 DEF RemoveExpiredEntries, Entry
  <2>2. UNCHANGED <<t, prt, expiry, stamped, heard>>
    BY <1>4 DEF RemoveExpiredEntries, recieveVars
  <2> QED
    BY <2>1, <2>2 DEF Freshness
<1>5. CASE UpdateEntry
  <2> DEFINE a == rx.psender
  <2>1. a \in Addresses /\ a # NoIP
    BY <1>5, FrameAssumption DEF UpdateEntry, TypeOK
  <2>2. PICK i \in Slots :
          entries' = [entries EXCEPT ![i] =
                        [ip |-> a, mac |-> rx.hsender, time |-> expiry]]
    BY <1>5 DEF UpdateEntry
  <2>3. /\ entries'[i].ip = a /\ entries'[i].time = expiry
        /\ \A j \in Slots : j # i => entries'[j] = entries[j]
    BY <1>1, <2>2
  <2>4. /\ heard' = [heard EXCEPT ![a] = stamped] /\ learnt' = learnt \union {a}
        /\ prt = "Update" /\ prt' = "Reply"
        /\ UNCHANGED <<t, rt>>
    BY <1>5 DEF UpdateEntry, requestVars
  <2>5. CacheCoherent'
    BY CacheStep
  <2>6. expiry = stamped + CacheExpiration /\ heard'[a] = stamped
    BY <1>1, <2>1, <2>4 DEF Freshness
  <2> HIDE DEF a
  <2>7. ASSUME NEW j \in Slots, j # i, entries'[j].time # 0
        PROVE  /\ entries'[j].time = heard'[entries'[j].ip] + CacheExpiration
               /\ Purged => entries'[j].time >= t \/ entries'[j].ip \in learnt
    <3>1. entries'[j].ip # a
      BY <2>1, <2>3, <2>5, <2>7 DEF CacheCoherent
    <3>2. entries[j].time # 0 /\ entries[j].ip \in Addresses
      BY <1>2, <2>3, <2>7
    <3>3. heard'[entries[j].ip] = heard[entries[j].ip]
      BY <1>1, <2>3, <2>4, <2>7, <3>1, <3>2
    <3> QED
      BY <2>3, <2>7, <3>2, <3>3 DEF Freshness
  <2> QED
    BY <2>3, <2>4, <2>6, <2>7 DEF Freshness, Purged
<1>6. CASE Stamp
  BY <1>6 DEF Stamp, Freshness, Purged, requestVars
<1>7. CASE RecvFrame \/ SendReply
  BY <1>7 DEF RecvFrame, SendReply, Freshness, Purged, requestVars, historyVars
<1>8. CASE ReadClock \/ NextExpiration \/ RecvRequest \/ RecvTimeout
  BY <1>8
  DEF ReadClock, NextExpiration, RecvRequest, RecvTimeout, Freshness, Purged,
      recieveVars, historyVars
<1>9. CASE Retry \/ Rebroadcast \/ GiveUp \/ Admit \/ Broadcast
  BY <1>9
  DEF Retry, Rebroadcast, GiveUp, Admit, Broadcast, Freshness, Purged, recieveVars,
      historyVars
<1>10. CASE RemoveExpiredRequest \/ EndExpired
  BY <1>10
  DEF RemoveExpiredRequest, EndExpired, Freshness, Purged, recieveVars, historyVars
<1>11. CASE UNCHANGED <<t, rt, prt, expiry, entries, heard, stamped, learnt>>
  BY <1>11 DEF Freshness, Purged
<1> QED
  BY <1>3, <1>4, <1>5, <1>6, <1>7, <1>8, <1>9, <1>10, <1>11
  DEF Next, RequestThread, PacketRecieveThread, vars, Tick, Ask, Post, Return,
      ProcessFrame, recieveVars, requestVars, historyVars

\* An answer from the cache was stamped at most CACHE_ENTRY_EXPIRATION before the
\* clock requestThread read, or was written after the purge that followed.
THEOREM AnswersAreFresh == Spec => FreshAnswer
<1> DEFINE Fresh == \A r \in Requesters : Answered(r) /\ box'[r] # NoMac =>
                      \/ heard'[addr[r]] + CacheExpiration >= t
                      \/ addr[r] \in learnt'
<1>1. Init => Freshness
  BY DEF Init, Freshness
<1>2. TypeOK /\ CacheCoherent /\ Freshness /\ [Next]_vars => Freshness'
  BY FreshnessStep
<1>3. Ownership /\ CacheCoherent /\ Freshness /\ [Next]_vars => Fresh
  <2> SUFFICES ASSUME Ownership, CacheCoherent, Freshness, [Next]_vars,
                      NEW r \in Requesters, Answered(r), box'[r] # NoMac
               PROVE  \/ heard'[addr[r]] + CacheExpiration >= t
                      \/ addr[r] \in learnt'
    OBVIOUS
  <2>1. /\ TypeOK /\ box \in [Requesters -> Macs \union {NoMac, Empty}]
        /\ t \in Nat
    BY TimeAssumption DEF Ownership, TypeOK
  <2>2. ASSUME NEW n \in Notification, NEW found, NEW missing,
               Notify(n, found, missing), Purged, UNCHANGED <<heard, learnt>>
        PROVE  \/ heard'[addr[r]] + CacheExpiration >= t
               \/ addr[r] \in learnt'
    <3>1. Answer(n.req)
      BY <2>2 DEF Notify, Enlist, Answered
    <3>2. PICK i \in Live(addr[n.req]) : Deliver(n.req, entries[i].mac)
      BY <3>1 DEF Answer
    <3>3. n.req = r
      BY <2>1, <3>2 DEF Deliver, Answered, Notification
    <3> QED
      BY <2>2, <3>2, <3>3 DEF Live, Freshness
  <2>3. CASE Retry
    <3> DEFINE an == [hand EXCEPT !.time = t + RequestExpiration]
    <3>1. hand \in Notification /\ t + RequestExpiration \in Nat
      BY <2>1, <2>3, TimeAssumption DEF Retry, TypeOK
    <3>2. an \in Notification
      BY <3>1 DEF Notification
    <3>3. Notify(an, "Expire", "Rebroadcast") /\ Purged /\ UNCHANGED <<heard, learnt>>
      BY <2>3 DEF Retry, Purged, historyVars
    <3> HIDE DEF an
    <3> QED
      BY <2>2, <3>2, <3>3
  <2>4. CASE Admit
    BY <2>1, <2>2, <2>4 DEF Admit, Purged, historyVars, TypeOK
  <2>5. CASE UpdateEntry
    <3>1. addr[r] = rx.psender
      BY <2>5 DEF UpdateEntry, InformPending, Answered
    <3>2. learnt' = learnt \union {rx.psender}
      BY <2>5 DEF UpdateEntry
    <3> QED
      BY <3>1, <3>2
  <2>6. CASE GiveUp
    BY <2>1, <2>6 DEF GiveUp, Deliver, Answered
  <2>7. ASSUME NEW s \in Requesters, Return(s)
        PROVE  FALSE
    BY <2>1, <2>7 DEF Return, Answered
  <2>8. box' # box
    BY DEF Answered
  <2> QED
    BY <2>3, <2>4, <2>5, <2>6, <2>7, <2>8
    DEF Next, RequestThread, PacketRecieveThread, vars, Tick, Ask, Post, Clear,
        NextExpiration, RecvRequest, RecvTimeout, ReadClock, RemoveExpiredEntries,
        RemoveExpiredRequest, Rebroadcast, EndExpired, Broadcast, ProcessFrame,
        RecvFrame, Stamp, SendReply
<1>4. Ownership /\ CacheCoherent /\ Freshness /\ [Next]_vars => [Fresh]_vars
  BY <1>3
<1> HIDE DEF Fresh
<1>5. Spec => [][Fresh]_vars
  BY <1>1, <1>2, <1>4, Owned, TypeCorrect, CacheIsCoherent, PTL DEF Spec
<1> QED
  BY <1>5 DEF FreshAnswer, Fresh
------------------------------------------------------------------------------
(***************************************************************************)
(* The threads implement AddressResolution: notify() resolves or stutters, *)
(* "Give Up" gives up, updateEntry() advertises and tells who waits.       *)
(***************************************************************************)
LEMMA AbsInit ==
  ASSUME Init
  PROVE  Abs!Init
  BY DEF Init, Abs!Init

LEMMA AbsNotify ==
  ASSUME Ownership, CacheCoherent, NEW n \in Notification, NEW found, NEW missing,
         Notify(n, found, missing), InHand(n.req), UNCHANGED <<caller, addr, latest>>
  PROVE  Abs!Next \/ UNCHANGED Abs!vars
<1> DEFINE q == n.req
<1>1. q \in Requesters /\ box \in [Requesters -> Macs \union {NoMac, Empty}]
  BY DEF Notification, Ownership, TypeOK
<1>2. caller[q] = "Waiting" /\ box[q] = Empty
  BY <1>1 DEF Ownership, OneHolder, Held
<1>3. CASE Answer(q)
  <2>1. PICK i \in Live(addr[q]) : Deliver(q, entries[i].mac)
    BY <1>3 DEF Answer
  <2>2. entries[i].mac = latest[addr[q]] /\ entries[i].mac # Empty
    BY <2>1, MacAssumption DEF Live, CacheCoherent, Ownership, TypeOK, Entry
  <2>3. box' = [box EXCEPT ![q] = latest[addr[q]]]
    BY <1>1, <1>2, <2>1, <2>2 DEF Deliver
  <2>4. Abs!Resolve(q)
    BY <1>1, <1>2, <2>2, <2>3 DEF Abs!Resolve, Abs!Unanswered
  <2> QED
    BY <1>1, <2>4 DEF Abs!Next
<1>4. CASE Enlist(n)
  BY <1>4 DEF Enlist, Abs!vars
<1> QED
  BY <1>3, <1>4 DEF Notify

LEMMA AbsStep ==
  ASSUME Ownership, CacheCoherent, [Next]_vars
  PROVE  Abs!Next \/ UNCHANGED Abs!vars
<1>1. /\ TypeOK /\ box \in [Requesters -> Macs \union {NoMac, Empty}]
      /\ caller \in [Requesters -> {"Idle", "Posting", "Waiting"}]
      /\ addr \in [Requesters -> Addresses \union {NoIP}]
  BY DEF Ownership, TypeOK
<1>2. ASSUME NEW r \in Requesters, NEW a \in Addresses, Ask(r, a)
      PROVE  Abs!Next
  <2>1. /\ caller[r] = "Idle" /\ caller' = [caller EXCEPT ![r] = "Posting"]
        /\ addr' = [addr EXCEPT ![r] = a] /\ UNCHANGED <<box, latest>>
    BY <1>2 DEF Ask, historyVars
  <2>2. Abs!Ask(r, a)
    BY <1>1, <2>1 DEF Abs!Ask
  <2> QED
    BY <2>2 DEF Abs!Next
<1>3. ASSUME NEW r \in Requesters, Post(r)
      PROVE  UNCHANGED Abs!vars
  <2>1. /\ caller[r] = "Posting" /\ caller' = [caller EXCEPT ![r] = "Waiting"]
        /\ UNCHANGED <<addr, box, latest>>
    BY <1>3 DEF Post, historyVars
  <2>2. [s \in Requesters |-> caller'[s] # "Idle"] = [s \in Requesters |-> caller[s] # "Idle"]
    BY <1>1, <2>1
  <2> QED
    BY <2>1, <2>2 DEF Abs!vars
<1>4. ASSUME NEW r \in Requesters, Return(r)
      PROVE  Abs!Next
  <2>1. /\ caller[r] = "Waiting" /\ box[r] # Empty
        /\ caller' = [caller EXCEPT ![r] = "Idle"]
        /\ addr' = [addr EXCEPT ![r] = NoIP] /\ box' = [box EXCEPT ![r] = Empty]
        /\ UNCHANGED latest
    BY <1>4 DEF Return, historyVars
  <2>2. Abs!Return(r)
    BY <1>1, <2>1 DEF Abs!Return
  <2> QED
    BY <2>2 DEF Abs!Next
<1>5. CASE Retry
  <2> DEFINE an == [hand EXCEPT !.time = t + RequestExpiration]
  <2>1. hand \in Notification /\ t + RequestExpiration \in Nat /\ rt = "Retry"
    BY <1>1, <1>5, TimeAssumption DEF Retry, TypeOK
  <2>2. an \in Notification /\ an.req = hand.req
    BY <2>1 DEF Notification
  <2>3. /\ Notify(an, "Expire", "Rebroadcast")
        /\ UNCHANGED <<caller, addr, latest>>
    BY <1>5 DEF Retry, callerVars, historyVars
  <2>4. InHand(an.req)
    BY <2>1, <2>2 DEF InHand
  <2> HIDE DEF an
  <2> QED
    BY <2>2, <2>3, <2>4, AbsNotify
<1>6. CASE Admit
  <2>1. hand \in Notification /\ InHand(hand.req)
    BY <1>1, <1>6 DEF Admit, TypeOK, InHand
  <2>2. /\ Notify(hand, "Next", "Broadcast")
        /\ UNCHANGED <<caller, addr, latest>>
    BY <1>6 DEF Admit, callerVars, historyVars
  <2> QED
    BY <2>1, <2>2, AbsNotify
<1>7. CASE GiveUp
  <2> DEFINE q == hand.req
  <2>1. q \in Requesters /\ InHand(q)
    BY <1>1, <1>7 DEF GiveUp, InHand, TypeOK, Notification
  <2>2. box[q] = Empty /\ caller[q] = "Waiting"
    BY <2>1 DEF Ownership, OneHolder, Held
  <2>3. /\ box' = [box EXCEPT ![q] = NoMac]
        /\ UNCHANGED <<caller, addr, latest>>
    BY <1>1, <1>7, <2>1, <2>2 DEF GiveUp, Deliver, callerVars, historyVars
  <2> HIDE DEF q
  <2>4. Abs!GiveUp(q)
    BY <2>1, <2>2, <2>3 DEF Abs!GiveUp, Abs!Unanswered
  <2> QED
    BY <2>1, <2>4 DEF Abs!Next
<1>8. CASE UpdateEntry
  <2> DEFINE waiting == {n \in pending : addr[n.req] = rx.psender}
             told    == {n.req : n \in waiting}
  <2>1. rx.psender \in Addresses /\ rx.hsender \in Macs
    BY <1>1, <1>8, FrameAssumption DEF UpdateEntry, TypeOK
  <2>2. /\ box' = [r \in Requesters |-> IF r \in told /\ box[r] = Empty
                                        THEN rx.hsender ELSE box[r]]
        /\ latest' = [latest EXCEPT ![rx.psender] = rx.hsender]
        /\ UNCHANGED <<caller, addr>>
    BY <1>8 DEF UpdateEntry, InformPending, callerVars
  <2>3. \A n \in waiting : n.req \in Requesters /\ Held(n.req) /\ addr[n.req] = rx.psender
    BY <1>1 DEF TypeOK, Notification, Held, Pending
  <2>4. \A r \in told : r \in Requesters /\ Held(r) /\ addr[r] = rx.psender
    BY <2>3
  <2> HIDE DEF told
  <2>5. \A r \in told : caller[r] = "Waiting" /\ box[r] = Empty
    BY <2>4 DEF Ownership, OneHolder
  <2>6. box' = [r \in Requesters |-> IF r \in told THEN rx.hsender ELSE box[r]]
    BY <2>2, <2>5
  <2>7. Abs!Advertise(rx.psender, rx.hsender, told)
    BY <2>2, <2>4, <2>5, <2>6 DEF Abs!Advertise, Abs!Unanswered
  <2>8. told \in SUBSET Requesters
    BY <2>4
  <2> QED
    BY <2>1, <2>7, <2>8 DEF Abs!Next
<1>9. CASE UNCHANGED <<caller, addr, box, latest>>
  BY <1>9 DEF Abs!vars
<1> QED
  BY <1>2, <1>3, <1>4, <1>5, <1>6, <1>7, <1>8, <1>9
  DEF Next, RequestThread, PacketRecieveThread, vars, callerVars, historyVars, Tick,
      Clear, NextExpiration, RecvRequest, RecvTimeout, ReadClock, RemoveExpiredEntries,
      RemoveExpiredRequest, Rebroadcast, EndExpired, Broadcast, ProcessFrame, RecvFrame,
      Stamp, SendReply

\* ARP_Handler keeps the promise of request(): each call is answered once, with what
\* was advertised last for its address or as unreachable.
THEOREM KeepsItsPromise == Spec => AbsSpec
<1>1. Ownership /\ CacheCoherent /\ [Next]_vars => [Abs!Next]_(Abs!vars)
  BY AbsStep
<1>2. Init => Abs!Init
  BY AbsInit
<1>3. Spec => Abs!Spec
  BY <1>1, <1>2, Owned, CacheIsCoherent, PTL DEF Spec, Abs!Spec
<1> QED
  BY <1>3 DEF AbsSpec
==============================================================================
