-------------------------- MODULE EthernetTx_proofs --------------------------
(***************************************************************************)
(* Theorems about EthernetTx, for every number of senders, mailbox size    *)
(* and number of transmit descriptors.                                     *)
(***************************************************************************)
EXTENDS EthernetTx, SequenceTheorems, TLAPS

(***************************************************************************)
(* The types and ItemsLive support each other: response stays a count of 0 *)
(* or 1 because an item is signalled only while its owner waits with 0.    *)
(* Beyond them, a caller in sendFrame() has a frame, only a caller that    *)
(* waits has been signalled, and the sender thread drops its item.         *)
(***************************************************************************)
CallerHasFrame ==
  \A s \in Senders :
    /\ caller[s] # "Idle" => buffer[s] \in Payloads
    /\ response[s] # 0 => caller[s] = "Waiting"

ItemDropped == st = "Recv" => item = None

Items == TypeOK /\ ItemsLive /\ CallerHasFrame /\ ItemDropped

\* A step that leaves the items where they are, and their owners too.
LEMMA ItemsFrame ==
  ASSUME Items, TypeOK', ItemDropped',
         UNCHANGED <<caller, buffer, response, sendQueue, item>>
  PROVE  Items'
  BY DEF Items, ItemsLive, InQueue, InWork, CallerHasFrame

LEMMA ItemsCall ==
  ASSUME Items, NEW s \in Senders, NEW p \in Payloads, Call(s, p)
  PROVE  Items'
<1>1. /\ caller[s] = "Idle"
      /\ caller' = [caller EXCEPT ![s] = "Posting"]
      /\ buffer' = [buffer EXCEPT ![s] = p]
      /\ UNCHANGED <<response, sendQueue, senderVars, ringVars, txDone, isr, semTx, wire>>
  BY DEF Call
<1>2. TypeOK'
  BY <1>1 DEF Items, TypeOK, senderVars, ringVars
<1>3. ~InQueue(s) /\ ~InWork(s)
  BY <1>1 DEF Items, ItemsLive
<1>4. /\ caller'[s] = "Posting" /\ buffer'[s] = p
      /\ \A r \in Senders : r # s => caller'[r] = caller[r] /\ buffer'[r] = buffer[r]
  BY <1>1 DEF Items, TypeOK
<1>5. \A r \in Senders : (InQueue(r)' <=> InQueue(r)) /\ (InWork(r)' <=> InWork(r))
  BY <1>1 DEF InQueue, InWork, senderVars
<1>6. ItemsLive'
  BY <1>1, <1>3, <1>4, <1>5 DEF Items, ItemsLive
<1>7. CallerHasFrame' /\ ItemDropped'
  BY <1>1, <1>4 DEF Items, CallerHasFrame, ItemDropped, senderVars
<1> QED
  BY <1>2, <1>6, <1>7 DEF Items

LEMMA ItemsPost ==
  ASSUME Items, NEW s \in Senders, Post(s)
  PROVE  Items'
<1> DEFINE q == sendQueue
<1>1. /\ caller[s] = "Posting" /\ Len(q) < QueueSize
      /\ caller' = [caller EXCEPT ![s] = "Waiting"] /\ q' = Append(q, s)
      /\ UNCHANGED <<buffer, response, senderVars, ringVars, txDone, isr, semTx, wire>>
  BY DEF Post
<1>2. q \in Seq(Senders)
  BY DEF Items, TypeOK
<1>3. /\ Len(q) \in Nat /\ Len(q') = Len(q) + 1 /\ q'[Len(q) + 1] = s
      /\ \A i \in 1 .. Len(q) : q'[i] = q[i]
      /\ q' \in Seq(Senders)
  BY <1>1, <1>2
<1>4. TypeOK'
  BY <1>1, <1>3, BoundAssumption DEF Items, TypeOK, senderVars, ringVars
<1>5. ~InQueue(s) /\ ~InWork(s) /\ response[s] = 0 /\ buffer[s] \in Payloads
  BY <1>1 DEF Items, ItemsLive, CallerHasFrame
<1>6. /\ caller'[s] = "Waiting"
      /\ \A r \in Senders : r # s => caller'[r] = caller[r]
  BY <1>1 DEF Items, TypeOK
<1>7. \A r \in Senders : (InQueue(r)' <=> InQueue(r) \/ r = s) /\ (InWork(r)' <=> InWork(r))
  <2>1. 1 .. Len(q') = 1 .. Len(q) \union {Len(q) + 1}
    BY <1>3
  <2> QED
    BY <1>1, <1>3, <2>1 DEF InQueue, InWork, senderVars
<1>8. \A i, j \in 1 .. Len(q') : q'[i] = q'[j] => i = j
  <2>1. \A i \in 1 .. Len(q) : q[i] # s
    BY <1>5 DEF InQueue
  <2>2. \A i, j \in 1 .. Len(q) : q[i] = q[j] => i = j
    BY DEF Items, ItemsLive
  <2> QED
    BY <1>3, <2>1, <2>2
<1> HIDE DEF q
<1>9. ItemsLive'
  BY <1>1, <1>5, <1>6, <1>7, <1>8 DEF Items, ItemsLive, q
<1>10. CallerHasFrame' /\ ItemDropped'
  BY <1>1, <1>5, <1>6 DEF Items, CallerHasFrame, ItemDropped, senderVars
<1> QED
  BY <1>4, <1>9, <1>10 DEF Items

LEMMA ItemsReturn ==
  ASSUME Items, NEW s \in Senders, Return(s)
  PROVE  Items'
<1>1. /\ caller[s] = "Waiting" /\ response[s] > 0
      /\ response' = [response EXCEPT ![s] = 0]
      /\ caller' = [caller EXCEPT ![s] = "Idle"]
      /\ buffer' = [buffer EXCEPT ![s] = None]
      /\ UNCHANGED <<sendQueue, senderVars, ringVars, txDone, isr, semTx, wire>>
  BY DEF Return
<1>2. TypeOK'
  BY <1>1 DEF Items, TypeOK, senderVars, ringVars
<1>3. ~InQueue(s) /\ ~InWork(s)
  BY <1>1 DEF Items, ItemsLive
<1>4. /\ response'[s] = 0 /\ caller'[s] = "Idle"
      /\ \A r \in Senders : r # s => /\ caller'[r] = caller[r]
                                     /\ buffer'[r] = buffer[r]
                                     /\ response'[r] = response[r]
  BY <1>1 DEF Items, TypeOK
<1>5. \A r \in Senders : (InQueue(r)' <=> InQueue(r)) /\ (InWork(r)' <=> InWork(r))
  BY <1>1 DEF InQueue, InWork, senderVars
<1>6. ItemsLive'
  BY <1>1, <1>3, <1>4, <1>5 DEF Items, ItemsLive
<1>7. CallerHasFrame' /\ ItemDropped'
  BY <1>1, <1>4 DEF Items, CallerHasFrame, ItemDropped, senderVars
<1> QED
  BY <1>2, <1>6, <1>7 DEF Items

LEMMA ItemsRecv ==
  ASSUME Items, RecvItem
  PROVE  Items'
<1> DEFINE q == sendQueue
           h == Head(sendQueue)
<1>1. /\ st = "Recv" /\ q # <<>> /\ item' = h /\ q' = Tail(q) /\ st' = "Check"
      /\ UNCHANGED <<callerVars, response, ringVars, txDone, isr, semTx, wire>>
  BY DEF RecvItem
<1>2. q \in Seq(Senders) /\ Len(q) <= QueueSize /\ item = None
  BY <1>1 DEF Items, TypeOK, ItemDropped
<1>3. /\ Len(q) \in Nat \ {0} /\ Len(q') = Len(q) - 1 /\ q[1] = h
      /\ \A i \in 1 .. Len(q') : q'[i] = q[i + 1]
      /\ q' \in Seq(Senders)
  BY <1>1, <1>2
<1>4. h \in Senders /\ InQueue(h)
  BY <1>2, <1>3 DEF InQueue
<1> HIDE DEF q, h
<1>5. TypeOK'
  BY <1>1, <1>2, <1>3, <1>4, BoundAssumption DEF Items, TypeOK, callerVars, ringVars, q
<1>6. \A i, j \in 1 .. Len(q) : q[i] = q[j] => i = j
  BY DEF Items, ItemsLive, q
<1>7. \A r \in Senders : InQueue(r)' => InQueue(r) /\ r # h
  <2> SUFFICES ASSUME NEW r \in Senders, NEW i \in 1 .. Len(q'), q'[i] = r
               PROVE  InQueue(r) /\ r # h
    BY DEF InQueue, q
  <2>1. i + 1 \in 1 .. Len(q) /\ q[i + 1] = r /\ 1 \in 1 .. Len(q) /\ i + 1 # 1
    BY <1>3
  <2> QED
    BY <1>3, <1>6, <2>1 DEF InQueue, q
<1>8. \A r \in Senders : InWork(r)' <=> r = h
  BY <1>1 DEF InWork
<1>9. \A i, j \in 1 .. Len(q') : q'[i] = q'[j] => i = j
  <2> SUFFICES ASSUME NEW i \in 1 .. Len(q'), NEW j \in 1 .. Len(q'), q'[i] = q'[j]
               PROVE  i = j
    OBVIOUS
  <2>1. i + 1 \in 1 .. Len(q) /\ j + 1 \in 1 .. Len(q) /\ q[i + 1] = q[j + 1]
    BY <1>3
  <2>2. i + 1 = j + 1
    BY <1>6, <2>1
  <2> QED
    BY <1>3, <2>2
<1>10. ItemsLive'
  BY <1>1, <1>4, <1>7, <1>8, <1>9 DEF Items, ItemsLive, callerVars, q
<1>11. CallerHasFrame' /\ ItemDropped'
  BY <1>1 DEF Items, CallerHasFrame, ItemDropped, callerVars
<1> QED
  BY <1>5, <1>10, <1>11 DEF Items

LEMMA ItemsSignal ==
  ASSUME Items, SignalItem
  PROVE  Items'
<1>1. /\ st = "Signal" /\ st' = "Recv" /\ item' = None
      /\ response' = [response EXCEPT ![item] = @ + 1]
      /\ UNCHANGED <<callerVars, sendQueue, ringVars, txDone, isr, semTx, wire>>
  BY DEF SignalItem
<1>2. item \in Senders /\ InWork(item)
  BY <1>1 DEF Items, TypeOK, InWork
<1>3. response[item] = 0 /\ caller[item] = "Waiting" /\ ~InQueue(item)
  BY <1>2 DEF Items, ItemsLive
<1>4. /\ response'[item] = 1
      /\ \A r \in Senders : r # item => response'[r] = response[r]
      /\ response' \in [Senders -> {0, 1}]
  BY <1>1, <1>2, <1>3 DEF Items, TypeOK
<1>5. TypeOK'
  BY <1>1, <1>4 DEF Items, TypeOK, callerVars, ringVars
<1>6. \A r \in Senders : (InQueue(r)' <=> InQueue(r)) /\ ~InWork(r)'
  BY <1>1, SenderAssumption DEF InQueue, InWork
<1>7. ItemsLive'
  BY <1>1, <1>3, <1>4, <1>6 DEF Items, ItemsLive, callerVars
<1>8. CallerHasFrame' /\ ItemDropped'
  BY <1>1, <1>3, <1>4 DEF Items, CallerHasFrame, ItemDropped, callerVars
<1> QED
  BY <1>5, <1>7, <1>8 DEF Items

LEMMA NextIndexType ==
  ASSUME NEW i \in Descriptors
  PROVE  NextIndex(i) \in Descriptors /\ NextIndex(i) # i
  BY BoundAssumption DEF Descriptors, NextIndex

LEMMA ItemsStep ==
  ASSUME Items, [Next]_vars
  PROVE  Items'
<1>1. CASE CheckFull
  BY <1>1, ItemsFrame DEF CheckFull, Items, TypeOK, ItemDropped, callerVars, ringVars
<1>2. CASE WaitTx
  <2>1. semTx' \in 0 .. SemCap
    BY <1>2, BoundAssumption DEF WaitTx, Items, TypeOK
  <2> QED
    BY <1>2, <2>1, ItemsFrame DEF WaitTx, Items, TypeOK, ItemDropped, callerVars, ringVars
<1>3. CASE FillDescriptor
  <2>1. desc' \in [Descriptors -> Payloads \union {None}]
    BY <1>3 DEF FillDescriptor, Items, TypeOK
  <2> QED
    BY <1>3, <2>1, ItemsFrame DEF FillDescriptor, Items, TypeOK, ItemDropped, callerVars
<1>4. CASE AdvanceProduce
  BY <1>4, ItemsFrame, NextIndexType
  DEF AdvanceProduce, Items, TypeOK, ItemDropped, callerVars
<1>5. CASE MacTransmit
  BY <1>5, ItemsFrame, NextIndexType
  DEF MacTransmit, Items, TypeOK, ItemDropped, callerVars, senderVars
<1>6. CASE IrqEnter \/ IrqClear
  BY <1>6, ItemsFrame
  DEF IrqEnter, IrqClear, Items, TypeOK, ItemDropped, callerVars, senderVars, ringVars
<1>7. CASE IrqSignal
  <2>1. semTx' \in 0 .. SemCap
    BY <1>7, BoundAssumption DEF IrqSignal, Items, TypeOK
  <2> QED
    BY <1>7, <2>1, ItemsFrame
    DEF IrqSignal, Items, TypeOK, ItemDropped, callerVars, senderVars, ringVars
<1>8. CASE UNCHANGED vars
  BY <1>8, ItemsFrame DEF vars, Items, TypeOK, ItemDropped, callerVars, senderVars, ringVars
<1> QED
  BY <1>1, <1>2, <1>3, <1>4, <1>5, <1>6, <1>7, <1>8, ItemsCall, ItemsPost, ItemsReturn,
     ItemsRecv, ItemsSignal
  DEF Next, SenderThread, IrqHandler

LEMMA ItemsInit ==
  ASSUME Init
  PROVE  Items
<1>1. TypeOK
  <2>1. 0 \in Descriptors /\ 0 \in 0 .. SemCap
    BY BoundAssumption DEF Descriptors
  <2>2. <<>> \in Seq(Senders) /\ Len(<<>>) <= QueueSize
    BY BoundAssumption
  <2> QED
    BY <2>1, <2>2 DEF Init, TypeOK
<1> QED
  BY <1>1, SenderAssumption
  DEF Init, Items, ItemsLive, InQueue, InWork, CallerHasFrame, ItemDropped

LEMMA ItemsInvariant == Spec => []Items
<1>1. Items /\ [Next]_vars => Items'
  BY ItemsStep
<1> QED
  BY <1>1, ItemsInit, PTL DEF Spec

\* Every variable keeps its type; no count of a response exceeds 1.
THEOREM TypeCorrect == Spec => []TypeOK
<1>1. Items => TypeOK
  BY DEF Items
<1> QED
  BY <1>1, ItemsInvariant, PTL

\* No item, semaphore or buffer is used after the sendFrame() it belongs to returned.
THEOREM ItemsStayLive == Spec => []ItemsLive
<1>1. Items => ItemsLive
  BY DEF Items
<1> QED
  BY <1>1, ItemsInvariant, PTL
------------------------------------------------------------------------------
\* The sender thread goes to sleep only on a full ring, so a frame is under way, and
\* the interrupt for it, or its signal, cannot be lost.
LEMMA WakeupStep ==
  ASSUME TypeOK, NoLostWakeup, [Next]_vars
  PROVE  NoLostWakeup'
<1>1. CASE CheckFull
  <2>1. IsTXFull => consume # produce
    BY NextIndexType DEF IsTXFull, TypeOK
  <2> QED
    BY <1>1, <2>1 DEF CheckFull, NoLostWakeup, ringVars
<1>2. CASE IrqSignal
  <2>1. semTx' > 0
    BY <1>2, BoundAssumption DEF IrqSignal, TypeOK
  <2> QED
    BY <2>1 DEF NoLostWakeup
<1>3. CASE MacTransmit
  BY <1>3 DEF MacTransmit, NoLostWakeup
<1>4. CASE IrqEnter \/ IrqClear
  BY <1>4 DEF IrqEnter, IrqClear, NoLostWakeup
<1>5. CASE st' # "Wait"
  BY <1>5 DEF NoLostWakeup
<1>6. CASE RecvItem \/ WaitTx \/ FillDescriptor \/ AdvanceProduce \/ SignalItem
  BY <1>5, <1>6 DEF RecvItem, WaitTx, FillDescriptor, AdvanceProduce, SignalItem
<1>7. CASE UNCHANGED <<st, semTx, produce, consume, txDone, isr>>
  BY <1>7 DEF NoLostWakeup
<1> QED
  BY <1>1, <1>2, <1>3, <1>4, <1>6, <1>7
  DEF Next, SenderThread, IrqHandler, vars, Call, Post, Return, senderVars, ringVars

\* Whoever waits for a free descriptor is woken: for every size of the ring.
THEOREM WakeupNotLost == Spec => []NoLostWakeup
<1>1. Init => NoLostWakeup
  BY DEF Init, NoLostWakeup
<1>2. TypeOK /\ NoLostWakeup /\ [Next]_vars => NoLostWakeup'
  BY WakeupStep
<1> QED
  BY <1>1, <1>2, TypeCorrect, PTL DEF Spec
------------------------------------------------------------------------------
(***************************************************************************)
(* EthernetTx implements FrameLine.  First what happens to a sequence of   *)
(* three parts when an element joins it, leaves it or changes parts.       *)
(***************************************************************************)
LEMMA JoinsLast ==
  ASSUME NEW S, NEW r \in Seq(S), NEW a \in Seq(S), NEW q \in Seq(S), NEW x \in S
  PROVE  r \o a \o Append(q, x) = Append(r \o a \o q, x)
<1>1. r \o a \in Seq(S) /\ <<x>> \in Seq(S) /\ r \o a \o q \in Seq(S)
  BY ConcatProperties
<1>2. Append(q, x) = q \o <<x>> /\ Append(r \o a \o q, x) = (r \o a \o q) \o <<x>>
  BY <1>1, AppendIsConcat
<1> QED
  BY <1>1, <1>2, ConcatAssociative

\* The first of the last part moves to the empty middle: the line stays the same.
LEMMA TakenFromQueue ==
  ASSUME NEW S, NEW r \in Seq(S), NEW q \in Seq(S), q # <<>>
  PROVE  r \o <<>> \o q = r \o <<Head(q)>> \o Tail(q)
<1>1. Head(q) \in S /\ Tail(q) \in Seq(S) /\ <<Head(q)>> \in Seq(S)
  OBVIOUS
<1>2. q = <<Head(q)>> \o Tail(q)
  <2> DEFINE u == <<Head(q)>> \o Tail(q)
  <2>1. /\ u \in Seq(S) /\ Len(u) = 1 + Len(Tail(q)) /\ Len(Tail(q)) = Len(q) - 1
        /\ \A i \in 1 .. 1 + Len(Tail(q)) : u[i] = IF i <= 1 THEN <<Head(q)>>[i] ELSE Tail(q)[i - 1]
    BY <1>1, ConcatProperties, HeadTailProperties
  <2>2. Len(u) = Len(q) /\ Len(q) \in Nat
    BY <2>1
  <2>3. \A i \in 1 .. Len(q) : q[i] = u[i]
    <3> TAKE i \in 1 .. Len(q)
    <3>1. CASE i = 1
      BY <2>1, <2>2, <3>1
    <3>2. CASE i > 1
      <4>1. i - 1 \in 1 .. Len(Tail(q)) /\ u[i] = Tail(q)[i - 1]
        BY <2>1, <2>2, <3>2
      <4>2. Tail(q)[i - 1] = q[(i - 1) + 1]
        BY <4>1, HeadTailProperties
      <4> QED
        BY <4>1, <4>2
    <3> QED
      BY <3>1, <3>2
  <2> HIDE DEF u
  <2> QED
    BY <2>1, <2>2, <2>3, SeqEqual DEF u
<1>3. r \o <<>> = r
  BY ConcatEmptySeq
<1> QED
  BY <1>1, <1>2, <1>3, ConcatAssociative

\* What is in the middle moves to the end of the first part: the line stays the same.
LEMMA PutInRing ==
  ASSUME NEW S, NEW r \in Seq(S), NEW q \in Seq(S), NEW x \in S
  PROVE  Append(r, x) \o <<>> \o q = r \o <<x>> \o q
<1>1. Append(r, x) = r \o <<x>> /\ <<x>> \in Seq(S)
  BY AppendIsConcat
<1>2. Append(r, x) \in Seq(S)
  OBVIOUS
<1> QED
  BY <1>1, <1>2, ConcatEmptySeq

\* The first of the first part is the first of the line, and leaves it as such.
FirstLeaves(r, a, q) ==
  /\ r \o a \o q # <<>>
  /\ Head(r \o a \o q) = r[1]
  /\ Tail(r \o a \o q) = Tail(r) \o a \o q

LEMMA LeavesFirst ==
  ASSUME NEW S, NEW r \in Seq(S), NEW a \in Seq(S), NEW q \in Seq(S), r # <<>>
  PROVE  FirstLeaves(r, a, q)
<1> DEFINE z == a \o q
           l == r \o z
           u == Tail(r) \o z
<1>1. z \in Seq(S) /\ Tail(r) \in Seq(S) /\ Len(Tail(r)) = Len(r) - 1 /\ Len(r) \in Nat \ {0}
  BY ConcatProperties, HeadTailProperties, EmptySeq
<1>2. r \o a \o q = l /\ Tail(r) \o a \o q = u
  <2>1. (r \o a) \o q = r \o (a \o q)
    BY ConcatAssociative
  <2>2. Tail(r) \in Seq(S)
    BY <1>1
  <2> DEFINE tr == Tail(r)
  <2> HIDE DEF tr
  <2>3. (tr \o a) \o q = tr \o (a \o q)
    BY <2>2, ConcatAssociative DEF tr
  <2> QED
    BY <2>1, <2>3 DEF tr
<1> HIDE DEF z
<1>3. /\ l \in Seq(S) /\ Len(l) = Len(r) + Len(z)
      /\ \A i \in 1 .. Len(r) + Len(z) : l[i] = IF i <= Len(r) THEN r[i] ELSE z[i - Len(r)]
  BY <1>1, ConcatProperties
<1>4. /\ u \in Seq(S) /\ Len(u) = Len(Tail(r)) + Len(z)
      /\ \A i \in 1 .. Len(Tail(r)) + Len(z) :
           u[i] = IF i <= Len(Tail(r)) THEN Tail(r)[i] ELSE z[i - Len(Tail(r))]
  BY <1>1, ConcatProperties
<1> HIDE DEF l, u
<1>5. Len(z) \in Nat
  BY <1>1
<1>6. l # <<>> /\ Head(l) = r[1]
  <2>1. Len(l) >= 1 /\ 1 \in 1 .. Len(r) + Len(z)
    BY <1>1, <1>3, <1>5
  <2> QED
    BY <2>1, <1>1, <1>3
<1>7. Tail(l) = u
  <2>1. /\ Tail(l) \in Seq(S) /\ Len(Tail(l)) = Len(l) - 1
        /\ \A i \in 1 .. Len(Tail(l)) : Tail(l)[i] = l[i + 1]
    BY <1>3, <1>6, HeadTailProperties
  <2>2. Len(Tail(l)) = Len(u)
    BY <2>1, <1>1, <1>3, <1>4, <1>5
  <2>3. \A i \in 1 .. Len(Tail(l)) : Tail(l)[i] = u[i]
    <3> TAKE i \in 1 .. Len(Tail(l))
    <3>1. i \in 1 .. Len(Tail(r)) + Len(z) /\ i + 1 \in 1 .. Len(r) + Len(z)
      BY <2>2, <1>1, <1>4, <1>5
    <3>2. CASE i <= Len(Tail(r))
      <4>1. Tail(r)[i] = r[i + 1]
        BY <3>1, <3>2, <1>1, HeadTailProperties
      <4> QED
        BY <4>1, <3>1, <3>2, <2>1, <1>1, <1>3, <1>4
    <3>3. CASE ~(i <= Len(Tail(r)))
      <4>1. i - Len(Tail(r)) = (i + 1) - Len(r) /\ ~(i + 1 <= Len(r))
        BY <3>1, <3>3, <1>1
      <4> QED
        BY <4>1, <3>1, <3>3, <2>1, <1>3, <1>4
    <3> QED
      BY <3>2, <3>3
  <2> QED
    BY <2>1, <2>2, <2>3, <1>4, SeqEqual
<1> QED
  BY <1>2, <1>6, <1>7 DEF FirstLeaves
------------------------------------------------------------------------------
Contents == Payloads \union {None}

\* The parts of the line are sequences of frames.
LEMMA LineParts ==
  ASSUME Items
  PROVE  /\ Unsent \in 0 .. NumTxFrag - 1
         /\ InRing \in Seq(Contents) /\ Len(InRing) = Unsent
         /\ \A i \in 1 .. Unsent : InRing[i] = desc[At(consume + i - 1)]
         /\ AtSender \in Seq(Contents)
         /\ AtQueue \in Seq(Contents) /\ Len(AtQueue) = Len(sendQueue)
         /\ \A i \in 1 .. Len(sendQueue) : AtQueue[i] = buffer[sendQueue[i]]
<1> USE DEF Items, TypeOK
<1>1. Unsent \in 0 .. NumTxFrag - 1
  BY BoundAssumption DEF Unsent, Descriptors
<1>2. \A i \in 1 .. Unsent : At(consume + i - 1) \in Descriptors
  BY <1>1, BoundAssumption DEF Unsent, Descriptors, At
<1>3. \A i \in 1 .. Unsent : desc[At(consume + i - 1)] \in Contents
  BY <1>2 DEF Contents
<1>4. InRing \in Seq(Contents) /\ Len(InRing) = Unsent
  BY <1>1, <1>3 DEF InRing
<1>5. AtSender \in Seq(Contents)
  <2>1. CASE st \in {"Check", "Wait", "Fill", "Produce"}
    <3>1. buffer[item] \in Contents
      BY <2>1 DEF Contents
    <3>2. AtSender = <<buffer[item]>>
      BY <2>1 DEF AtSender
    <3> QED
      BY <3>1, <3>2
  <2>2. CASE st \notin {"Check", "Wait", "Fill", "Produce"}
    BY <2>2 DEF AtSender
  <2> QED
    BY <2>1, <2>2
<1>6. \A i \in 1 .. Len(sendQueue) : buffer[sendQueue[i]] \in Contents
  BY DEF Contents
<1>7. AtQueue \in Seq(Contents) /\ Len(AtQueue) = Len(sendQueue)
  BY <1>6 DEF AtQueue
<1> QED
  BY <1>1, <1>4, <1>5, <1>7 DEF InRing, AtQueue

\* Between the test for a free descriptor and the end of its use the ring does not
\* fill, and the descriptor keeps what the sender thread copied.
Filling ==
  /\ st \in {"Fill", "Produce"} => ~IsTXFull
  /\ st = "Produce" => desc[produce] = buffer[item]

\* Every step keeps that.
LEMMA FillingStep ==
  ASSUME Items, Filling, [Next]_vars
  PROVE  Filling'
<1> USE DEF Items, TypeOK, Filling, IsTXFull
<1>1. CASE CheckFull
  <2>1. st' \in {"Wait", "Fill"} /\ (st' = "Fill" => ~IsTXFull) /\ UNCHANGED <<produce, consume>>
    BY <1>1 DEF CheckFull, ringVars
  <2> QED
    BY <2>1
<1>2. CASE FillDescriptor
  BY <1>2 DEF FillDescriptor, callerVars
<1>3. CASE RecvItem \/ WaitTx \/ AdvanceProduce \/ SignalItem
  BY <1>3 DEF RecvItem, WaitTx, AdvanceProduce, SignalItem
<1>4. CASE MacTransmit
  <2>1. consume' # NextIndex(produce) \/ IsTXFull \/ consume = produce
    BY <1>4, BoundAssumption DEF MacTransmit, NextIndex, Descriptors
  <2> QED
    BY <1>4, <2>1 DEF MacTransmit, callerVars, senderVars
<1>5. CASE IrqHandler \/ UNCHANGED vars
  BY <1>5 DEF IrqHandler, IrqEnter, IrqClear, IrqSignal, vars, callerVars, senderVars, ringVars
<1>6. ASSUME NEW s \in Senders, (\E p \in Payloads : Call(s, p)) \/ Post(s) \/ Return(s)
      PROVE  Filling'
  <2>1. UNCHANGED <<st, item, ringVars>>
    BY <1>6 DEF Call, Post, Return, senderVars
  <2>2. st = "Produce" => buffer'[item] = buffer[item]
    BY <1>6 DEF Call, Post, Return, ItemsLive, InWork, callerVars
  <2> QED
    BY <2>1, <2>2 DEF ringVars
<1> QED
  BY <1>1, <1>2, <1>3, <1>4, <1>5, <1>6 DEF Next, SenderThread

\* An index goes around the ring in steps of one.
LEMMA Indices ==
  ASSUME TypeOK
  PROVE  /\ Unsent = 0 <=> consume = produce
         /\ At(consume) = consume
         /\ ~IsTXFull => Unsent + 1 < NumTxFrag
         /\ At(consume + Unsent) = produce
         /\ \A i \in 1 .. Unsent : At(consume + i - 1) # produce
  BY BoundAssumption DEF TypeOK, Descriptors, Unsent, At, IsTXFull, NextIndex

\* The line of FrameLine.
Line == InRing \o AtSender \o AtQueue

\* At the start the line is empty.
LEMMA AbsInit == Init => Abs!Init
<1> SUFFICES ASSUME Init PROVE Abs!Init
  OBVIOUS
<1>1. [s \in Senders |-> Stage(s)] = [s \in Senders |-> "Idle"]
  BY DEF Init, Stage
<1>2. Unsent = 0 /\ InRing = <<>> /\ AtSender = <<>> /\ AtQueue = <<>>
  BY DEF Init, Unsent, InRing, AtSender, AtQueue
<1>3. InRing \o AtSender \o AtQueue = <<>>
  BY <1>2
<1> QED
  BY <1>1, <1>3 DEF Init, Abs!Init

\* The steps of callers and of the handler move no frame between the parts.
LEMMA PartsKept ==
  ASSUME UNCHANGED <<sendQueue, st, item, ringVars>>,
         st # "Recv" => buffer'[item] = buffer[item],
         \A i \in 1 .. Len(sendQueue) : buffer'[sendQueue[i]] = buffer[sendQueue[i]]
  PROVE  InRing' = InRing /\ AtSender' = AtSender /\ AtQueue' = AtQueue
<1>1. InRing' = InRing
  BY DEF InRing, Unsent, At, ringVars
<1>2. AtSender' = AtSender
  BY DEF AtSender
<1>3. AtQueue' = AtQueue
  BY DEF AtQueue
<1> QED
  BY <1>1, <1>2, <1>3

\* Every step is a step of FrameLine or leaves it as it is.
LEMMA AbsStep ==
  ASSUME Items, Filling, Items', [Next]_vars
  PROVE  [Abs!Next]_(Abs!vars)
<1> DEFINE stages == [s \in Senders |-> Stage(s)]
<1>0. /\ InRing \in Seq(Contents) /\ AtSender \in Seq(Contents) /\ AtQueue \in Seq(Contents)
      /\ InRing' \in Seq(Contents) /\ AtSender' \in Seq(Contents) /\ AtQueue' \in Seq(Contents)
      /\ Len(InRing) = Unsent /\ Len(InRing') = Unsent'
      /\ Unsent \in Nat /\ Unsent' \in Nat
  <2>1. Unsent' \in 0 .. NumTxFrag - 1 /\ InRing' \in Seq(Contents) /\ Len(InRing') = Unsent'
        /\ AtSender' \in Seq(Contents) /\ AtQueue' \in Seq(Contents)
    <3>1. Items' => (/\ Unsent \in 0 .. NumTxFrag - 1
                     /\ InRing \in Seq(Contents) /\ Len(InRing) = Unsent
                     /\ AtSender \in Seq(Contents)
                     /\ AtQueue \in Seq(Contents))'
      BY LineParts, PTL
    <3> QED
      BY <3>1 DEF Contents
  <2> QED
    BY <2>1, LineParts
<1>a. TypeOK /\ ItemsLive
  BY DEF Items
<1>1. ASSUME NEW s \in Senders, NEW p \in Payloads, Call(s, p)
      PROVE  Abs!Next
  <2>1. UNCHANGED <<sendQueue, st, item, ringVars, wire>> /\ caller[s] = "Idle"
        /\ caller' = [caller EXCEPT ![s] = "Posting"] /\ buffer' = [buffer EXCEPT ![s] = p]
    BY <1>1 DEF Call, senderVars
  <2>2. ~InQueue(s) /\ ~InWork(s)
    BY <1>a, <2>1 DEF ItemsLive
  <2>3. Line' = Line
    <3>1. st # "Recv" => buffer'[item] = buffer[item]
      BY <2>1, <2>2, <1>a DEF InWork, TypeOK
    <3>2. \A i \in 1 .. Len(sendQueue) : buffer'[sendQueue[i]] = buffer[sendQueue[i]]
      BY <2>1, <2>2, <1>a DEF InQueue, TypeOK
    <3>3. InRing' = InRing /\ AtSender' = AtSender /\ AtQueue' = AtQueue
      BY <2>1, <3>1, <3>2, PartsKept
    <3> QED
      BY <3>3 DEF Line
  <2>4. stages' = [stages EXCEPT ![s] = "Offered"] /\ stages[s] = "Idle"
    BY <2>1, <1>a DEF Stage, TypeOK
  <2> QED
    BY <2>1, <2>3, <2>4 DEF Abs!Next, Abs!Offer, Line
<1>2. ASSUME NEW s \in Senders, Post(s)
      PROVE  Abs!Next
  <2>1. UNCHANGED <<buffer, st, item, ringVars, wire>> /\ caller[s] = "Posting"
        /\ caller' = [caller EXCEPT ![s] = "Waiting"] /\ sendQueue' = Append(sendQueue, s)
    BY <1>2 DEF Post, callerVars, senderVars
  <2>2. InRing' = InRing /\ AtSender' = AtSender
    BY <2>1 DEF InRing, Unsent, At, ringVars, AtSender
  <2>3. buffer[s] \in Contents
    BY <1>a DEF TypeOK, Contents
  <2>4. AtQueue' = Append(AtQueue, buffer[s])
    <3>1. /\ Len(sendQueue') = Len(sendQueue) + 1 /\ Len(sendQueue) \in Nat
          /\ \A i \in 1 .. Len(sendQueue) : sendQueue'[i] = sendQueue[i]
          /\ sendQueue'[Len(sendQueue) + 1] = s
      BY <2>1, <1>a DEF TypeOK
    <3>2. AtQueue' = [i \in 1 .. Len(sendQueue) + 1 |-> buffer[sendQueue'[i]]]
      BY <2>1, <3>1 DEF AtQueue
    <3>3. Append(AtQueue, buffer[s]) \in Seq(Contents)
          /\ Len(Append(AtQueue, buffer[s])) = Len(sendQueue) + 1
          /\ (\A i \in 1 .. Len(sendQueue) : Append(AtQueue, buffer[s])[i] = buffer[sendQueue[i]])
          /\ Append(AtQueue, buffer[s])[Len(sendQueue) + 1] = buffer[s]
      BY <1>0, <2>3, AppendProperties, LineParts
    <3>4. Len(AtQueue') = Len(sendQueue) + 1
      BY <3>1, <3>2
    <3>5. \A i \in 1 .. Len(AtQueue') : AtQueue'[i] = Append(AtQueue, buffer[s])[i]
      BY <3>1, <3>2, <3>3, <3>4
    <3> QED
      BY <1>0, <3>3, <3>4, <3>5, SeqEqual
  <2>5. Line' = Append(Line, buffer[s])
    BY <1>0, <2>2, <2>3, <2>4, JoinsLast DEF Line
  <2>6. stages' = [stages EXCEPT ![s] = "Accepted"] /\ stages[s] = "Offered"
    BY <2>1, <1>a DEF Stage, TypeOK
  <2> QED
    BY <2>1, <2>5, <2>6 DEF Abs!Next, Abs!Accept, Line
<1>3. ASSUME NEW s \in Senders, Return(s)
      PROVE  Abs!Next
  <2>1. UNCHANGED <<sendQueue, st, item, ringVars, wire>> /\ caller[s] = "Waiting"
        /\ response[s] > 0
        /\ caller' = [caller EXCEPT ![s] = "Idle"] /\ buffer' = [buffer EXCEPT ![s] = None]
    BY <1>3 DEF Return, senderVars
  <2>2. ~InQueue(s) /\ ~InWork(s)
    BY <1>a, <2>1 DEF ItemsLive
  <2>3. Line' = Line
    <3>1. st # "Recv" => buffer'[item] = buffer[item]
      BY <2>1, <2>2, <1>a DEF InWork, TypeOK
    <3>2. \A i \in 1 .. Len(sendQueue) : buffer'[sendQueue[i]] = buffer[sendQueue[i]]
      BY <2>1, <2>2, <1>a DEF InQueue, TypeOK
    <3>3. InRing' = InRing /\ AtSender' = AtSender /\ AtQueue' = AtQueue
      BY <2>1, <3>1, <3>2, PartsKept
    <3> QED
      BY <3>3 DEF Line
  <2>4. stages' = [stages EXCEPT ![s] = "Idle"] /\ stages[s] = "Accepted"
    BY <2>1, <1>a DEF Stage, TypeOK
  <2> QED
    BY <2>1, <2>3, <2>4 DEF Abs!Next, Abs!Return, Line
<1>4. CASE RecvItem
  <2>1. UNCHANGED <<caller, buffer, ringVars, wire>> /\ st = "Recv" /\ st' = "Check"
        /\ sendQueue # <<>> /\ item' = Head(sendQueue) /\ sendQueue' = Tail(sendQueue)
    BY <1>4 DEF RecvItem, callerVars
  <2>2. InRing' = InRing
    BY <2>1 DEF InRing, Unsent, At, ringVars
  <2>3. /\ Len(sendQueue) \in Nat \ {0} /\ Len(sendQueue') = Len(sendQueue) - 1
        /\ sendQueue[1] = Head(sendQueue)
        /\ \A i \in 1 .. Len(sendQueue') : sendQueue'[i] = sendQueue[i + 1]
    BY <2>1, <1>a, EmptySeq, HeadTailProperties DEF TypeOK
  <2>4. AtQueue # <<>> /\ Len(AtQueue) = Len(sendQueue)
    BY <2>3, LineParts, EmptySeq
  <2>5. AtSender = <<>> /\ AtSender' = <<Head(AtQueue)>>
    <3>1. AtQueue[1] = buffer[sendQueue[1]]
      BY <2>3, LineParts
    <3> QED
      BY <2>1, <2>3, <2>4, <3>1, <1>0 DEF AtSender
  <2>6. AtQueue' = Tail(AtQueue)
    <3>1. AtQueue' = [i \in 1 .. Len(sendQueue') |-> buffer[sendQueue'[i]]]
      BY <2>1 DEF AtQueue
    <3>2. Len(AtQueue') = Len(sendQueue) - 1
      BY <2>3, <3>1
    <3>3. /\ Tail(AtQueue) \in Seq(Contents) /\ Len(Tail(AtQueue)) = Len(sendQueue) - 1
          /\ \A i \in 1 .. Len(Tail(AtQueue)) : Tail(AtQueue)[i] = AtQueue[i + 1]
      BY <1>0, <2>4, HeadTailProperties
    <3>4. \A i \in 1 .. Len(AtQueue') : AtQueue'[i] = Tail(AtQueue)[i]
      <4> TAKE i \in 1 .. Len(AtQueue')
      <4>1. i \in 1 .. Len(sendQueue') /\ i + 1 \in 1 .. Len(sendQueue)
        BY <2>3, <3>2
      <4>2. AtQueue'[i] = buffer[sendQueue[i + 1]]
        BY <3>1, <2>3, <4>1
      <4>3. AtQueue[i + 1] = buffer[sendQueue[i + 1]]
        BY <4>1, LineParts
      <4> QED
        BY <3>2, <3>3, <4>2, <4>3
    <3> QED
      BY <1>0, <3>2, <3>3, <3>4, SeqEqual
  <2>7. Line' = Line
    BY <1>0, <2>2, <2>4, <2>5, <2>6, TakenFromQueue DEF Line
  <2>8. stages' = stages
    BY <2>1 DEF Stage
  <2> QED
    BY <2>1, <2>7, <2>8 DEF Abs!vars, Line
<1>5. CASE CheckFull \/ WaitTx
  <2>1. UNCHANGED <<caller, buffer, sendQueue, item, ringVars, wire>>
        /\ st \in {"Check", "Wait"} /\ st' \in {"Check", "Wait", "Fill"}
    BY <1>5 DEF CheckFull, WaitTx, callerVars
  <2>2. InRing' = InRing /\ AtSender' = AtSender /\ AtQueue' = AtQueue
    BY <2>1 DEF InRing, Unsent, At, ringVars, AtSender, AtQueue
  <2>3. stages' = stages
    BY <2>1 DEF Stage
  <2> QED
    BY <2>1, <2>2, <2>3 DEF Abs!vars
<1>6. CASE FillDescriptor
  <2>1. UNCHANGED <<caller, buffer, sendQueue, item, produce, consume, wire>>
        /\ st = "Fill" /\ st' = "Produce" /\ desc' = [desc EXCEPT ![produce] = buffer[item]]
    BY <1>6 DEF FillDescriptor, callerVars
  <2>2. \A i \in 1 .. Unsent : desc'[At(consume + i - 1)] = desc[At(consume + i - 1)]
    BY <2>1, <1>a, Indices DEF TypeOK
  <2>3. InRing' = InRing
    BY <2>1, <2>2 DEF InRing, Unsent, At
  <2>4. AtSender' = AtSender /\ AtQueue' = AtQueue /\ stages' = stages
    BY <2>1 DEF AtSender, AtQueue, Stage
  <2> QED
    BY <2>1, <2>3, <2>4 DEF Abs!vars
<1>7. CASE AdvanceProduce
  <2>1. UNCHANGED <<caller, buffer, sendQueue, item, desc, consume, wire>>
        /\ st = "Produce" /\ st' = "Signal" /\ produce' = NextIndex(produce)
    BY <1>7 DEF AdvanceProduce, callerVars
  <2>2. ~IsTXFull /\ desc[produce] = buffer[item]
    BY <2>1 DEF Filling
  <2>3. Unsent' = Unsent + 1
    BY <2>1, <2>2, <1>a, BoundAssumption
    DEF TypeOK, Unsent, IsTXFull, NextIndex, Descriptors
  <2>4. desc[produce] \in Contents
    BY <1>a DEF TypeOK, Contents
  <2>5. InRing' = Append(InRing, desc[produce])
    <3>1. /\ Append(InRing, desc[produce]) \in Seq(Contents)
          /\ Len(Append(InRing, desc[produce])) = Unsent + 1
          /\ (\A i \in 1 .. Unsent : Append(InRing, desc[produce])[i] = desc[At(consume + i - 1)])
          /\ Append(InRing, desc[produce])[Unsent + 1] = desc[produce]
      BY <1>0, <2>4, AppendProperties, LineParts
    <3>2. InRing' = [i \in 1 .. Unsent + 1 |-> desc[At(consume + i - 1)]]
      BY <2>1, <2>3 DEF InRing, At
    <3>3. At(consume + (Unsent + 1) - 1) = produce
      <4>1. consume + (Unsent + 1) - 1 = consume + Unsent
        BY <1>0, <1>a DEF TypeOK, Descriptors
      <4> QED
        BY <4>1, <1>a, Indices
    <3>4. \A i \in 1 .. Unsent + 1 : InRing'[i] = Append(InRing, desc[produce])[i]
      <4> TAKE i \in 1 .. Unsent + 1
      <4>1. CASE i \in 1 .. Unsent
        BY <4>1, <3>1, <3>2
      <4>2. CASE i = Unsent + 1
        BY <4>2, <3>1, <3>2, <3>3, <1>0
      <4> QED
        BY <4>1, <4>2, <1>0
    <3> QED
      BY <1>0, <2>3, <3>1, <3>4, SeqEqual
  <2>6. AtSender = <<desc[produce]>> /\ AtSender' = <<>> /\ AtQueue' = AtQueue /\ stages' = stages
    BY <2>1, <2>2 DEF AtSender, AtQueue, Stage
  <2>7. Line' = Line
    BY <1>0, <2>4, <2>5, <2>6, PutInRing DEF Line
  <2> QED
    BY <2>1, <2>6, <2>7 DEF Abs!vars, Line
<1>8. CASE SignalItem
  <2>1. UNCHANGED <<caller, buffer, sendQueue, ringVars, wire>> /\ st = "Signal" /\ st' = "Recv"
    BY <1>8 DEF SignalItem, callerVars
  <2>2. InRing' = InRing /\ AtSender' = AtSender /\ AtQueue' = AtQueue /\ stages' = stages
    BY <2>1 DEF InRing, Unsent, At, ringVars, AtSender, AtQueue, Stage
  <2> QED
    BY <2>1, <2>2 DEF Abs!vars
<1>9. CASE MacTransmit
  <2>1. UNCHANGED <<caller, buffer, sendQueue, st, item, desc, produce>>
        /\ consume # produce /\ wire' = desc[consume] /\ consume' = NextIndex(consume)
    BY <1>9 DEF MacTransmit, callerVars, senderVars
  <2>2. Unsent > 0 /\ Unsent' = Unsent - 1
    BY <2>1, <1>a, BoundAssumption DEF TypeOK, Unsent, NextIndex, Descriptors
  <2>3. InRing # <<>> /\ InRing[1] = desc[consume]
    <3>1. 1 \in 1 .. Unsent /\ consume + 1 - 1 = consume
      BY <1>0, <2>2, <1>a DEF TypeOK, Descriptors
    <3>2. InRing[1] = desc[At(consume + 1 - 1)]
      BY <3>1, LineParts
    <3> QED
      BY <3>1, <3>2, <1>0, <1>a, <2>2, Indices, EmptySeq
  <2>4. InRing' = Tail(InRing)
    <3>1. /\ Tail(InRing) \in Seq(Contents) /\ Len(Tail(InRing)) = Unsent - 1
          /\ \A i \in 1 .. Len(Tail(InRing)) : Tail(InRing)[i] = InRing[i + 1]
      BY <1>0, <2>3, HeadTailProperties
    <3>2. InRing' = [i \in 1 .. Unsent - 1 |-> desc[At(consume' + i - 1)]]
      BY <2>1, <2>2 DEF InRing, At
    <3>3. \A i \in 1 .. Unsent - 1 : InRing'[i] = Tail(InRing)[i]
      <4> TAKE i \in 1 .. Unsent - 1
      <4>1. At(consume' + i - 1) = At(consume + (i + 1) - 1)
        BY <2>1, <2>2, <1>0, <1>a, BoundAssumption
        DEF TypeOK, At, NextIndex, Descriptors, Unsent
      <4>2. i + 1 \in 1 .. Unsent
        BY <1>0
      <4>3. InRing[i + 1] = desc[At(consume + (i + 1) - 1)]
        BY <4>2, LineParts
      <4> QED
        BY <3>1, <3>2, <4>1, <4>3
    <3> QED
      BY <1>0, <2>2, <3>1, <3>3, SeqEqual
  <2>5. AtSender' = AtSender /\ AtQueue' = AtQueue /\ stages' = stages
    BY <2>1 DEF AtSender, AtQueue, Stage
  <2>6. Line # <<>> /\ Head(Line) = desc[consume] /\ Line' = Tail(Line)
    <3>1. /\ Line # <<>> /\ Head(Line) = InRing[1]
          /\ Tail(Line) = Tail(InRing) \o AtSender \o AtQueue
      <4> DEFINE r == InRing
                 a == AtSender
                 q == AtQueue
      <4>1. r \in Seq(Contents) /\ a \in Seq(Contents) /\ q \in Seq(Contents) /\ r # <<>>
        BY <1>0, <2>3
      <4>2. Line = r \o a \o q
        BY DEF Line
      <4> HIDE DEF r, a, q
      <4>3. FirstLeaves(r, a, q)
        BY <4>1, LeavesFirst
      <4> QED
        BY <4>2, <4>3 DEF FirstLeaves, r, a, q
    <3>2. Line' = Tail(InRing) \o AtSender \o AtQueue
      BY <2>4, <2>5 DEF Line
    <3> QED
      BY <3>1, <3>2, <2>3
  <2> QED
    BY <2>1, <2>5, <2>6 DEF Abs!Next, Abs!Transmit, Line
<1>10. CASE IrqHandler \/ UNCHANGED vars
  <2>1. UNCHANGED <<caller, buffer, sendQueue, st, item, ringVars, wire>>
    BY <1>10 DEF IrqHandler, IrqEnter, IrqClear, IrqSignal, vars, callerVars, senderVars
  <2>2. InRing' = InRing /\ AtSender' = AtSender /\ AtQueue' = AtQueue /\ stages' = stages
    BY <2>1, PartsKept DEF Stage
  <2> QED
    BY <2>1, <2>2 DEF Abs!vars
<1> QED
  BY <1>1, <1>2, <1>3, <1>4, <1>5, <1>6, <1>7, <1>8, <1>9, <1>10 DEF Next, SenderThread

\* Mailbox, sender thread, ring and MAC together are a first-in first-out line that
\* loses, repeats, reorders and changes no frame, for every size of ring and mailbox.
THEOREM IsALine == Spec => AbsSpec
<1>1. Init => Filling
  BY DEF Init, Filling
<1>2. Items /\ Filling /\ [Next]_vars => Filling'
  BY FillingStep
<1>3. Items /\ Filling /\ Items' /\ [Next]_vars => [Abs!Next]_(Abs!vars)
  BY AbsStep
<1> QED
  BY <1>1, <1>2, <1>3, AbsInit, ItemsInvariant, PTL DEF Spec, AbsSpec, Abs!Spec
==============================================================================
