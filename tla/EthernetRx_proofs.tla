-------------------------- MODULE EthernetRx_proofs --------------------------
(***************************************************************************)
(* Theorems about EthernetRx and EthernetStart, for every number of        *)
(* receive descriptors and listeners and every PHY.                        *)
(***************************************************************************)
EXTENDS EthernetStart, SequenceTheorems, TLAPS

\* Descriptor i holds a frame that was not yet read to its end.
Unread(i) ==
  IF consume <= produce THEN consume <= i /\ i < produce
                        ELSE consume <= i \/ i < produce

(***************************************************************************)
(* What the listeners are shown is a frame: unread descriptors hold one,   *)
(* and the receiver reads the first of them, which is not the MAC's.       *)
(***************************************************************************)
RingHolds ==
  /\ \A i \in Descriptors : Unread(i) => desc[i] \in Frames
  /\ rt \in {"Begin", "Listen", "End"} => produce # consume
  /\ Reading => rptr = consume
  /\ rt = "Listen" => begin <= Listeners

Ring == TypeOK /\ RingHolds

LEMMA NextIndexType ==
  ASSUME NEW i \in Descriptors
  PROVE  NextIndex(i) \in Descriptors /\ NextIndex(i) # i
  BY BoundAssumption DEF Descriptors, NextIndex

\* The MAC adds its descriptor to the unread ones ...
LEMMA UnreadGrows ==
  ASSUME produce \in Descriptors, consume \in Descriptors,
         NextIndex(produce) # consume,
         produce' = NextIndex(produce), consume' = consume,
         NEW i \in Descriptors, Unread(i)'
  PROVE  Unread(i) \/ i = produce
  BY BoundAssumption DEF Descriptors, NextIndex, Unread

\* ... and endReadFrame() takes one from them.
LEMMA UnreadShrinks ==
  ASSUME produce \in Descriptors, consume \in Descriptors,
         produce # consume,
         consume' = NextIndex(consume), produce' = produce,
         NEW i \in Descriptors, Unread(i)'
  PROVE  Unread(i)
  BY BoundAssumption DEF Descriptors, NextIndex, Unread

\* A step of the handler or the receiver that keeps ring and place in it.
LEMMA RingFrame ==
  ASSUME Ring, TypeOK', UNCHANGED <<ringVars, rptr, begin>>,
         rt' = rt \/ rt' \notin {"Begin", "Listen", "End"}
  PROVE  Ring'
  BY DEF Ring, RingHolds, Unread, Reading, ringVars

LEMMA RingStep ==
  ASSUME Ring, [Next]_vars
  PROVE  Ring'
<1>1. /\ Listeners \in Nat \ {0} /\ SemCap \in Nat \ {0}
      /\ desc \in [Descriptors -> Frames \union {None}]
      /\ produce \in Descriptors /\ consume \in Descriptors /\ begin \in 1 .. Listeners + 1
  BY BoundAssumption DEF Ring, TypeOK
<1>2. ASSUME NEW f \in Frames, MacReceive(f)
      PROVE  Ring'
  <2>1. /\ NextIndex(produce) # consume
        /\ desc' = [desc EXCEPT ![produce] = f] /\ produce' = NextIndex(produce)
        /\ rxDone' = TRUE
        /\ UNCHANGED <<consume, isr, semRecv, rt, rptr, begin, seen>>
    BY <1>2 DEF MacReceive, receiverVars
  <2>2. TypeOK'
    BY <1>1, <2>1, NextIndexType DEF Ring, TypeOK
  <2>3. \A i \in Descriptors : Unread(i)' => desc'[i] \in Frames
    <3> SUFFICES ASSUME NEW i \in Descriptors, Unread(i)'
                 PROVE  desc'[i] \in Frames
      OBVIOUS
    <3>1. Unread(i) \/ i = produce
      BY <1>1, <2>1, UnreadGrows
    <3> QED
      BY <1>1, <2>1, <3>1 DEF Ring, RingHolds
  <2> QED
    BY <2>1, <2>2, <2>3 DEF Ring, RingHolds, Reading
<1>3. CASE IrqEnter \/ IrqClear
  <2>1. TypeOK' /\ UNCHANGED <<ringVars, rt, rptr, begin>>
    BY <1>3 DEF IrqEnter, IrqClear, Ring, TypeOK, ringVars, receiverVars
  <2> QED
    BY <2>1, RingFrame
<1>4. CASE IrqSignal
  <2>1. semRecv' \in 0 .. SemCap
    BY <1>1, <1>4 DEF IrqSignal, Ring, TypeOK
  <2>2. TypeOK' /\ UNCHANGED <<ringVars, rt, rptr, begin>>
    BY <1>4, <2>1 DEF IrqSignal, Ring, TypeOK, ringVars, receiverVars
  <2> QED
    BY <2>2, RingFrame
<1>5. CASE RecvWait
  <2>1. semRecv' \in 0 .. SemCap
    BY <1>1, <1>5 DEF RecvWait, Ring, TypeOK
  <2>2. TypeOK' /\ rt' = "Check" /\ UNCHANGED <<ringVars, rptr, begin>>
    BY <1>5, <2>1 DEF RecvWait, Ring, TypeOK, ringVars, irqVars
  <2> QED
    BY <2>2, RingFrame
<1>6. CASE CheckFrame
  <2>1. TypeOK' /\ UNCHANGED <<ringVars, rptr, begin>>
    BY <1>6 DEF CheckFrame, Ring, TypeOK, ringVars, irqVars
  <2>2. CASE IsFrameAvailable
    <3>1. rt' = "Begin" /\ produce # consume
      BY <1>6, <2>2 DEF CheckFrame, IsFrameAvailable
    <3> QED
      BY <2>1, <3>1 DEF Ring, RingHolds, Unread, Reading, ringVars
  <2>3. CASE ~IsFrameAvailable
    <3>1. rt' = "Wait"
      BY <1>6, <2>3 DEF CheckFrame
    <3> QED
      BY <2>1, <3>1, RingFrame
  <2> QED
    BY <2>2, <2>3
<1>7. CASE BeginReadFrame
  <2>1. /\ rt = "Begin" /\ rptr' = consume /\ begin' = 1 /\ rt' = "Listen"
        /\ UNCHANGED <<ringVars, irqVars, semRecv, seen>>
    BY <1>7 DEF BeginReadFrame
  <2>2. begin' \in 1 .. Listeners + 1 /\ begin' <= Listeners
    BY <1>1, <2>1
  <2>3. TypeOK'
    BY <1>1, <2>1, <2>2 DEF Ring, TypeOK, ringVars, irqVars
  <2> QED
    BY <2>1, <2>2, <2>3 DEF Ring, RingHolds, Unread, Reading, ringVars
<1>8. CASE ProcessFrame
  <2>1. /\ rt = "Listen" /\ seen' = <<begin, desc[rptr]>> /\ begin' = begin + 1
        /\ rt' = IF begin < Listeners THEN "Listen" ELSE "End"
        /\ UNCHANGED <<ringVars, irqVars, semRecv, rptr>>
    BY <1>8 DEF ProcessFrame
  <2>2. rptr = consume /\ produce # consume /\ begin \in 1 .. Listeners
    BY <1>1, <2>1 DEF Ring, RingHolds, Reading
  <2>3. desc[rptr] \in Frames
    BY <1>1, <2>2 DEF Ring, RingHolds, Unread, Descriptors
  <2>4. begin' \in 1 .. Listeners + 1 /\ (rt' = "Listen" => begin' <= Listeners)
    BY <1>1, <2>1, <2>2
  <2>5. TypeOK'
    BY <2>1, <2>2, <2>3, <2>4 DEF Ring, TypeOK, ringVars, irqVars
  <2> QED
    BY <2>1, <2>2, <2>4, <2>5 DEF Ring, RingHolds, Unread, Reading, ringVars
<1>9. CASE EndReadFrame
  <2>1. /\ rt = "End" /\ consume' = NextIndex(consume) /\ rt' = "Again"
        /\ UNCHANGED <<desc, produce, irqVars, semRecv, rptr, begin, seen>>
    BY <1>9 DEF EndReadFrame
  <2>2. TypeOK'
    BY <1>1, <2>1, NextIndexType DEF Ring, TypeOK, irqVars
  <2>3. \A i \in Descriptors : Unread(i)' => Unread(i)
    BY <1>1, <2>1, UnreadShrinks DEF Ring, RingHolds
  <2> QED
    BY <2>1, <2>2, <2>3 DEF Ring, RingHolds, Reading
<1>10. CASE UNCHANGED vars
  <2>1. TypeOK'
    BY <1>10 DEF vars, Ring, TypeOK, ringVars, irqVars, receiverVars
  <2> QED
    BY <1>10, <2>1, RingFrame DEF vars, receiverVars
<1> QED
  BY <1>2, <1>3, <1>4, <1>5, <1>6, <1>7, <1>8, <1>9, <1>10 DEF Next, IrqHandler, Receiver

LEMMA RingInit ==
  ASSUME Init
  PROVE  Ring
<1>1. 0 \in Descriptors /\ 0 \in 0 .. SemCap /\ 1 \in 1 .. Listeners + 1
  BY BoundAssumption DEF Descriptors
<1>2. TypeOK
  BY <1>1 DEF Init, TypeOK
<1>3. \A i \in Descriptors : ~Unread(i)
  BY DEF Init, Unread, Descriptors
<1> QED
  BY <1>2, <1>3 DEF Init, Ring, RingHolds, Reading

LEMMA RingInvariant == Spec => []Ring
<1>1. Ring /\ [Next]_vars => Ring'
  BY RingStep
<1> QED
  BY <1>1, RingInit, PTL DEF Spec

\* Every variable keeps its type: in particular no listener is shown a descriptor
\* without a frame, and the indices stay in the ring.
THEOREM TypeCorrect == Spec => []TypeOK
<1>1. Ring => TypeOK
  BY DEF Ring
<1> QED
  BY <1>1, RingInvariant, PTL

\* What a listener reads stays as it arrived until endReadFrame().
THEOREM FrameStays == Spec => FrameUntouched
<1> DEFINE Untouched == Reading => /\ desc'[rptr] = desc[rptr]
                                   /\ Reading' => rptr' = rptr
<1>1. Ring /\ [Next]_vars => [Untouched]_vars
  <2> SUFFICES ASSUME Ring, Next, Reading
               PROVE  desc'[rptr] = desc[rptr] /\ (Reading' => rptr' = rptr)
    OBVIOUS
  <2>1. rptr = consume /\ produce # consume /\ consume \in Descriptors
    BY DEF Ring, RingHolds, Reading, TypeOK
  <2>2. ASSUME NEW f \in Frames, MacReceive(f)
        PROVE  desc'[rptr] = desc[rptr] /\ rptr' = rptr
    BY <2>1, <2>2 DEF MacReceive, receiverVars, Ring, TypeOK
  <2>3. CASE IrqHandler \/ Receiver
    BY <2>3
    DEF IrqHandler, IrqEnter, IrqClear, IrqSignal, Receiver, RecvWait, CheckFrame,
        BeginReadFrame, ProcessFrame, EndReadFrame, ringVars, receiverVars, Reading
  <2> QED
    BY <2>2, <2>3 DEF Next
<1> HIDE DEF Untouched
<1>2. Spec => [][Untouched]_vars
  BY <1>1, RingInvariant, PTL DEF Spec
<1> QED
  BY <1>2 DEF FrameUntouched, Untouched

LEMMA AsleepStep ==
  ASSUME TypeOK, NoFrameAsleep, [Next]_vars
  PROVE  NoFrameAsleep'
<1>1. CASE CheckFrame
  BY <1>1 DEF CheckFrame, NoFrameAsleep, IsFrameAvailable, ringVars, irqVars
<1>2. CASE IrqSignal
  <2>1. semRecv' > 0
    BY <1>2, BoundAssumption DEF IrqSignal, TypeOK
  <2> QED
    BY <2>1 DEF NoFrameAsleep
<1>3. ASSUME NEW f \in Frames, MacReceive(f)
      PROVE  NoFrameAsleep'
  BY <1>3 DEF MacReceive, NoFrameAsleep
<1>4. CASE IrqEnter \/ IrqClear
  BY <1>4 DEF IrqEnter, IrqClear, NoFrameAsleep
<1>5. CASE RecvWait \/ BeginReadFrame \/ ProcessFrame \/ EndReadFrame
  BY <1>5 DEF RecvWait, BeginReadFrame, ProcessFrame, EndReadFrame, NoFrameAsleep
<1>6. CASE UNCHANGED vars
  BY <1>6 DEF vars, NoFrameAsleep, IsFrameAvailable, ringVars, irqVars, receiverVars
<1> QED
  BY <1>1, <1>2, <1>3, <1>4, <1>5, <1>6 DEF Next, IrqHandler, Receiver

\* ethernetReceiver does not sleep on a received frame.
THEOREM NothingAsleep == Spec => []NoFrameAsleep
<1>1. Init => NoFrameAsleep
  BY DEF Init, NoFrameAsleep, IsFrameAvailable
<1>2. TypeOK /\ NoFrameAsleep /\ [Next]_vars => NoFrameAsleep'
  BY AsleepStep
<1> QED
  BY <1>1, <1>2, TypeCorrect, PTL DEF Spec
------------------------------------------------------------------------------
(***************************************************************************)
(* The ring between its two indices, as a sequence, is the buffer of       *)
(* FrameFeed; handleRecv does not end before every listener had its turn.  *)
(***************************************************************************)
AllServed == rt = "End" => begin = Listeners + 1

\* Every step keeps that.
LEMMA ServedStep ==
  ASSUME Ring, AllServed, [Next]_vars
  PROVE  AllServed'
<1>1. CASE ProcessFrame
  BY <1>1, BoundAssumption DEF ProcessFrame, AllServed, Ring, RingHolds, TypeOK
<1>2. CASE RecvWait \/ CheckFrame \/ BeginReadFrame \/ EndReadFrame
  BY <1>2 DEF RecvWait, CheckFrame, BeginReadFrame, EndReadFrame, AllServed
<1>3. CASE IrqHandler \/ (\E f \in Frames : MacReceive(f)) \/ UNCHANGED vars
  BY <1>3
  DEF IrqHandler, IrqEnter, IrqClear, IrqSignal, MacReceive, vars, receiverVars, AllServed
<1> QED
  BY <1>1, <1>2, <1>3 DEF Next, Receiver

\* An index goes around the ring in steps of one.
LEMMA Indices ==
  ASSUME TypeOK
  PROVE  /\ Unshown \in 0 .. NumRxFrag - 1
         /\ Unshown = 0 <=> consume = produce
         /\ At(consume) = consume
         /\ NextIndex(produce) # consume => Unshown + 1 < NumRxFrag
         /\ At(consume + Unshown) = produce
         /\ \A i \in 1 .. Unshown : /\ At(consume + i - 1) \in Descriptors
                                    /\ At(consume + i - 1) # produce
  BY BoundAssumption DEF TypeOK, Descriptors, Unshown, At, NextIndex

Contents == Frames \union {None}

\* The frames between the indices are a sequence.
LEMMA InRingSeq ==
  ASSUME TypeOK
  PROVE  /\ InRing \in Seq(Contents) /\ Len(InRing) = Unshown
         /\ \A i \in 1 .. Unshown : InRing[i] = desc[At(consume + i - 1)]
<1>1. Unshown \in Nat
  BY Indices, BoundAssumption
<1>2. \A i \in 1 .. Unshown : desc[At(consume + i - 1)] \in Contents
  BY Indices DEF TypeOK, Contents
<1> QED
  BY <1>1, <1>2 DEF InRing

\* The listeners that were shown the first frame.
Turn == IF Reading THEN begin - 1 ELSE 0

\* At the start nothing is buffered.
LEMMA FeedInit ==
  ASSUME Init
  PROVE  Abs!Init
<1>1. Unshown = 0 /\ InRing = <<>>
  BY DEF Init, Unshown, InRing
<1> QED
  BY <1>1 DEF Init, Reading, Abs!Init

\* The frame in reading is the first of the buffer.
LEMMA FirstInRing ==
  ASSUME Ring, produce # consume
  PROVE  InRing # <<>> /\ Head(InRing) = desc[consume]
<1>1. Unshown \in Nat \ {0} /\ consume + 1 - 1 = consume
  BY Indices, BoundAssumption DEF Ring, TypeOK, Descriptors
<1>2. Len(InRing) = Unshown /\ InRing[1] = desc[At(consume + 1 - 1)]
  BY <1>1, InRingSeq DEF Ring
<1> QED
  BY <1>1, <1>2, Indices, InRingSeq, EmptySeq DEF Ring

\* Every step is a step of FrameFeed or leaves it as it is.
LEMMA FeedStep ==
  ASSUME Ring, AllServed, TypeOK', [Next]_vars
  PROVE  [Abs!Next]_(Abs!vars)
<1>0. /\ TypeOK /\ Unshown \in Nat
      /\ InRing \in Seq(Contents) /\ Len(InRing) = Unshown
      /\ InRing' \in Seq(Contents) /\ Len(InRing') = Unshown'
  <2>1. TypeOK' => (InRing \in Seq(Contents) /\ Len(InRing) = Unshown)'
    BY InRingSeq, PTL
  <2> QED
    BY <2>1, InRingSeq, Indices, BoundAssumption DEF Ring, Contents
<1>1. ASSUME NEW f \in Frames, MacReceive(f)
      PROVE  Abs!Next
  <2>1. /\ NextIndex(produce) # consume /\ desc' = [desc EXCEPT ![produce] = f]
        /\ produce' = NextIndex(produce) /\ UNCHANGED <<consume, rt, begin, seen>>
    BY <1>1 DEF MacReceive, receiverVars
  <2>2. Unshown' = Unshown + 1 /\ Unshown < NumRxFrag - 1
    BY <1>0, <2>1, BoundAssumption DEF TypeOK, Unshown, NextIndex, Descriptors
  <2>3. InRing' = Append(InRing, f)
    <3>1. /\ Append(InRing, f) \in Seq(Contents) /\ Len(Append(InRing, f)) = Unshown + 1
          /\ \A i \in 1 .. Unshown : Append(InRing, f)[i] = desc[At(consume + i - 1)]
          /\ Append(InRing, f)[Unshown + 1] = f
      BY <1>0, InRingSeq, AppendProperties DEF Contents
    <3>2. InRing' = [i \in 1 .. Unshown + 1 |-> desc'[At(consume + i - 1)]]
      BY <2>1, <2>2 DEF InRing, At
    <3>3. \A i \in 1 .. Unshown : desc'[At(consume + i - 1)] = desc[At(consume + i - 1)]
      BY <1>0, <2>1, Indices DEF TypeOK
    <3>4. desc'[At(consume + (Unshown + 1) - 1)] = f
      <4>1. consume + (Unshown + 1) - 1 = consume + Unshown
        BY <1>0 DEF TypeOK, Descriptors
      <4> QED
        BY <4>1, <1>0, <2>1, Indices DEF TypeOK
    <3>5. \A i \in 1 .. Unshown + 1 : InRing'[i] = Append(InRing, f)[i]
      <4> TAKE i \in 1 .. Unshown + 1
      <4>1. CASE i \in 1 .. Unshown
        BY <4>1, <3>1, <3>2, <3>3
      <4>2. CASE i = Unshown + 1
        BY <4>2, <3>1, <3>2, <3>4, <1>0
      <4> QED
        BY <4>1, <4>2, <1>0
    <3> QED
      BY <1>0, <2>2, <3>1, <3>5, SeqEqual
  <2>4. Turn' = Turn
    BY <2>1 DEF Turn, Reading
  <2> QED
    BY <1>0, <2>1, <2>2, <2>3, <2>4 DEF Abs!Next, Abs!Arrive, Turn
<1>2. CASE ProcessFrame
  <2>1. /\ rt = "Listen" /\ seen' = <<begin, desc[rptr]>> /\ begin' = begin + 1
        /\ rt' \in {"Listen", "End"} /\ UNCHANGED ringVars
    BY <1>2 DEF ProcessFrame
  <2>2. rptr = consume /\ produce # consume /\ begin \in 1 .. Listeners
    BY <2>1, BoundAssumption DEF Ring, RingHolds, TypeOK, Reading
  <2>3. Turn = begin - 1 /\ Turn' = begin /\ Turn < Listeners /\ Turn + 1 = begin
    BY <2>1, <2>2, BoundAssumption DEF Turn, Reading
  <2>4. InRing' = InRing
    BY <2>1 DEF InRing, Unshown, At, ringVars
  <2> QED
    BY <2>1, <2>2, <2>3, <2>4, FirstInRing DEF Abs!Next, Abs!Show, Turn
<1>3. CASE EndReadFrame
  <2>1. /\ rt = "End" /\ rt' = "Again" /\ consume' = NextIndex(consume)
        /\ UNCHANGED <<desc, produce, seen>>
    BY <1>3 DEF EndReadFrame
  <2>2. produce # consume /\ begin = Listeners + 1
    BY <2>1 DEF Ring, RingHolds, AllServed
  <2>3. Turn = Listeners /\ Turn' = 0
    BY <2>1, <2>2, BoundAssumption DEF Turn, Reading
  <2>4. Unshown > 0 /\ Unshown' = Unshown - 1
    BY <1>0, <2>1, <2>2, BoundAssumption DEF TypeOK, Unshown, NextIndex, Descriptors
  <2>5. InRing' = Tail(InRing)
    <3>1. /\ Tail(InRing) \in Seq(Contents) /\ Len(Tail(InRing)) = Unshown - 1
          /\ \A i \in 1 .. Len(Tail(InRing)) : Tail(InRing)[i] = InRing[i + 1]
      BY <1>0, <2>2, FirstInRing, HeadTailProperties
    <3>2. InRing' = [i \in 1 .. Unshown - 1 |-> desc[At(consume' + i - 1)]]
      BY <2>1, <2>4 DEF InRing, At
    <3>3. \A i \in 1 .. Unshown - 1 : InRing'[i] = Tail(InRing)[i]
      <4> TAKE i \in 1 .. Unshown - 1
      <4>1. At(consume' + i - 1) = At(consume + (i + 1) - 1)
        BY <1>0, <2>1, <2>4, BoundAssumption
        DEF TypeOK, At, NextIndex, Descriptors, Unshown
      <4>2. i + 1 \in 1 .. Unshown
        BY <1>0
      <4>3. InRing[i + 1] = desc[At(consume + (i + 1) - 1)]
        BY <1>0, <4>2, InRingSeq
      <4> QED
        BY <3>1, <3>2, <4>1, <4>3
    <3> QED
      BY <1>0, <2>4, <3>1, <3>3, SeqEqual
  <2> QED
    BY <2>1, <2>2, <2>3, <2>5, FirstInRing DEF Abs!Next, Abs!Release, Turn
<1>4. CASE RecvWait \/ CheckFrame \/ BeginReadFrame \/ IrqHandler \/ UNCHANGED vars
  <2>1. UNCHANGED <<ringVars, seen>>
    BY <1>4
    DEF RecvWait, CheckFrame, BeginReadFrame, IrqHandler, IrqEnter, IrqClear, IrqSignal, vars
  <2>2. InRing' = InRing
    BY <2>1 DEF InRing, Unshown, At, ringVars
  <2>3. Turn' = Turn
    <3>1. CASE RecvWait \/ CheckFrame
      BY <3>1 DEF RecvWait, CheckFrame, Turn, Reading
    <3>2. CASE BeginReadFrame
      BY <3>2 DEF BeginReadFrame, Turn, Reading
    <3>3. CASE IrqHandler \/ UNCHANGED vars
      BY <3>3 DEF IrqHandler, IrqEnter, IrqClear, IrqSignal, vars, receiverVars, Turn, Reading
    <3> QED
      BY <1>4, <3>1, <3>2, <3>3
  <2> QED
    BY <2>1, <2>2, <2>3 DEF Abs!vars, Turn
<1> QED
  BY <1>1, <1>2, <1>3, <1>4 DEF Next, Receiver

\* MAC, ring, handler and receiver thread are a bounded queue whose first frame is
\* shown to each listener in turn, once and in order, for every size of the ring and
\* every number of listeners.
THEOREM FeedsListeners == Spec => AbsSpec
<1>1. Init => AllServed
  BY DEF Init, AllServed
<1>2. Ring /\ AllServed /\ [Next]_vars => AllServed'
  BY ServedStep
<1>3. Ring /\ AllServed /\ TypeOK' /\ [Next]_vars => [Abs!Next]_(Abs!vars)
  BY FeedStep
<1> QED
  BY <1>1, <1>2, <1>3, FeedInit, RingInvariant, TypeCorrect, PTL DEF Spec, AbsSpec, Abs!Spec
------------------------------------------------------------------------------
(***************************************************************************)
(* Init_EMAC.  Until reception is enabled, its last step, the receive side *)
(* stands still in its initial state: rx_descr_init() and the reset of the *)
(* interrupts undo nothing.                                                *)
(***************************************************************************)
Quiet ==
  /\ stage # "Running" => ~mac.receive
  /\ ~mac.receive => /\ consume = 0 /\ produce = 0
                     /\ rxDone = FALSE /\ isr = "Idle"
                     /\ semRecv = 0 /\ rt = "Wait"

StartTypes ==
  /\ stage \in {"MacReset", "PhyReset", "WaitReset", "Identify", "WaitNegotiation",
                "WaitLink", "Configure", "Rings", "IntEnable", "IntClear", "Enable",
                "Running"}
  /\ tout \in 0 .. Tries - 1
  /\ regv \in Statuses
  /\ phy \in [resetting : BOOLEAN, negotiated : BOOLEAN, status : Statuses]
  /\ mac \in [full : BOOLEAN, ten : BOOLEAN, rings : BOOLEAN, intEnable : BOOLEAN,
              receive : BOOLEAN]
  /\ up \subseteq Statuses

LEMMA StartTypesStep ==
  ASSUME StartTypes, [StartNext]_allVars
  PROVE  StartTypes'
<1> USE StatusAssumption DEF StartTypes
<1>1. CASE MacReset
  BY <1>1 DEF MacReset, ResetMac
<1>2. CASE PhyReset
  <2>1. 0 \in 0 .. Tries - 1
    OBVIOUS
  <2>2. phy' \in [resetting : BOOLEAN, negotiated : BOOLEAN, status : Statuses]
    BY <1>2 DEF PhyReset
  <2> QED
    BY <1>2, <2>1, <2>2 DEF PhyReset
<1>3. CASE WaitReset
  BY <1>3 DEF WaitReset, Wait
<1>4. CASE Identify
  BY <1>4 DEF Identify
<1>5. CASE WaitNegotiation
  BY <1>5 DEF WaitNegotiation, Wait
<1>6. CASE WaitLink
  BY <1>6 DEF WaitLink, Wait
<1>7. CASE Configure
  BY <1>7 DEF Configure
<1>8. CASE Rings
  BY <1>8 DEF Rings
<1>9. CASE IntEnable
  BY <1>9 DEF IntEnable
<1>10. CASE IntClear
  BY <1>10 DEF IntClear
<1>11. CASE Enable
  BY <1>11 DEF Enable
<1>12. CASE PhyDone
  BY <1>12 DEF PhyDone
<1>13. ASSUME NEW s \in Statuses, Cable(s)
       PROVE  StartTypes'
  BY <1>13 DEF Cable
<1>14. CASE UNCHANGED startVars
  BY <1>14 DEF startVars
<1> QED
  BY <1>1, <1>2, <1>3, <1>4, <1>5, <1>6, <1>7, <1>8, <1>9, <1>10, <1>11, <1>12, <1>13,
     <1>14
  DEF StartNext, InitEmac, Arrive, Interrupt, Receive, allVars

\* What Init_EMAC does is a stutter of the receive side.
LEMMA InitStutters ==
  ASSUME Quiet, InitEmac
  PROVE  UNCHANGED vars
<1>1. CASE Rings
  BY <1>1 DEF Rings, Quiet, vars, ringVars
<1>2. CASE IntClear
  BY <1>2 DEF IntClear, Quiet, vars, irqVars
<1> QED
  BY <1>1, <1>2
  DEF InitEmac, MacReset, PhyReset, WaitReset, Identify, WaitNegotiation, WaitLink,
      Configure, IntEnable, Enable

LEMMA QuietStep ==
  ASSUME StartTypes, Quiet, [StartNext]_allVars
  PROVE  Quiet'
<1>1. CASE InitEmac
  <2>1. UNCHANGED vars
    BY <1>1, InitStutters
  <2>2. UNCHANGED <<consume, produce, rxDone, isr, semRecv, rt>>
    BY <2>1 DEF vars, ringVars, irqVars, receiverVars
  <2>3. CASE Enable
    BY <2>3 DEF Enable, StartTypes, Quiet
  <2>4. CASE MacReset
    BY <2>2, <2>4 DEF MacReset, ResetMac, Quiet
  <2>5. mac'.receive = mac.receive \/ Enable \/ MacReset
    BY <1>1
    DEF InitEmac, PhyReset, WaitReset, Identify, WaitNegotiation, WaitLink, Configure,
        Rings, IntEnable, IntClear, StartTypes
  <2>6. stage # "Running"
    BY <1>1
    DEF InitEmac, MacReset, PhyReset, WaitReset, Identify, WaitNegotiation, WaitLink,
        Configure, Rings, IntEnable, IntClear, Enable
  <2> QED
    BY <2>2, <2>3, <2>4, <2>5, <2>6 DEF Quiet
<1>2. CASE PhyDone \/ \E s \in Statuses : Cable(s)
  BY <1>2 DEF PhyDone, Cable, Quiet, vars, ringVars, irqVars, receiverVars
<1>3. ASSUME NEW f \in Frames, Arrive(f)
      PROVE  Quiet'
  BY <1>3 DEF Arrive, startVars, Quiet
<1>4. CASE Interrupt
  BY <1>4
  DEF Interrupt, startVars, Quiet, IrqHandler, IrqEnter, IrqClear, IrqSignal
<1>5. CASE Receive
  BY <1>5
  DEF Receive, startVars, Quiet, Receiver, RecvWait, CheckFrame, BeginReadFrame,
      ProcessFrame, EndReadFrame
<1>6. CASE UNCHANGED allVars
  BY <1>6 DEF allVars, startVars, vars, ringVars, irqVars, receiverVars, Quiet
<1> QED
  BY <1>1, <1>2, <1>3, <1>4, <1>5, <1>6 DEF StartNext

LEMMA StartedTypes ==
  ASSUME StartInit
  PROVE  StartTypes /\ Quiet
<1>1. 0 \in 0 .. Tries - 1
  BY StatusAssumption
<1>2. StartTypes
  BY <1>1 DEF StartInit, StartTypes, ResetMac
<1>3. Quiet
  BY DEF StartInit, Init, Quiet, ResetMac
<1> QED
  BY <1>2, <1>3

LEMMA StartInvariant == StartSpec => [](StartTypes /\ Quiet)
<1>1. StartTypes /\ Quiet /\ [StartNext]_allVars => StartTypes' /\ Quiet'
  BY StartTypesStep, QuietStep
<1> QED
  BY <1>1, StartedTypes, PTL DEF StartSpec

\* The receive side as Init_EMAC brings it up behaves as EthernetRx says, which
\* begins when Init_EMAC has returned.
THEOREM StartImplementsRx == StartSpec => Spec
<1>1. StartInit => Init
  BY DEF StartInit
<1>2. Quiet /\ [StartNext]_allVars => [Next]_vars
  <2> SUFFICES ASSUME Quiet, [StartNext]_allVars
               PROVE  [Next]_vars
    OBVIOUS
  <2>1. CASE InitEmac
    BY <2>1, InitStutters
  <2>2. CASE PhyDone \/ \E s \in Statuses : Cable(s)
    BY <2>2 DEF PhyDone, Cable
  <2>3. CASE (\E f \in Frames : Arrive(f)) \/ Interrupt \/ Receive
    BY <2>3 DEF Arrive, Interrupt, Receive, Next
  <2>4. CASE UNCHANGED allVars
    BY <2>4 DEF allVars
  <2> QED
    BY <2>1, <2>2, <2>3, <2>4 DEF StartNext
<1> QED
  BY <1>1, <1>2, StartInvariant, PTL DEF StartSpec, Spec

\* Every variable keeps its type from the first instruction of Init_EMAC on.
THEOREM StartTypeCorrect == StartSpec => []StartTypeOK
<1>1. StartTypes /\ TypeOK => StartTypeOK
  BY DEF StartTypes, StartTypeOK
<1> QED
  BY <1>1, StartInvariant, StartImplementsRx, TypeCorrect, PTL

\* The listeners are fed in order whatever Init_EMAC did before.
THEOREM FeedsFromStart == StartSpec => AbsSpec
  BY StartImplementsRx, FeedsListeners, PTL

\* No frame is slept through because it came while Init_EMAC was still resetting
\* interrupts and rings.
THEOREM NothingAsleepFromStart == StartSpec => []NoFrameAsleep
  BY StartImplementsRx, NothingAsleep, PTL
------------------------------------------------------------------------------
(***************************************************************************)
(* One reading of the status decides both duplex mode and speed.           *)
(***************************************************************************)
Configured ==
  /\ stage \in {"WaitNegotiation", "WaitLink", "Configure"} \union
               {"Rings", "IntEnable", "IntClear", "Enable", "Running"} =>
       (phy.status.link => phy.status \in up)
  /\ stage \in {"Configure", "Rings", "IntEnable", "IntClear", "Enable", "Running"} =>
       (regv.link => regv \in up)
  /\ stage \in {"Rings", "IntEnable", "IntClear", "Enable", "Running"} =>
       mac.full = regv.full /\ mac.ten = regv.ten

LEMMA ConfiguredStep ==
  ASSUME StartTypes, Configured, [StartNext]_allVars
  PROVE  Configured'
<1> USE DEF StartTypes, Configured
<1>1. CASE MacReset
  BY <1>1 DEF MacReset
<1>2. CASE PhyReset
  BY <1>2 DEF PhyReset
<1>3. CASE WaitReset
  BY <1>3 DEF WaitReset, Wait
<1>4. CASE Identify
  BY <1>4 DEF Identify
<1>5. CASE WaitNegotiation
  BY <1>5 DEF WaitNegotiation, Wait
<1>6. CASE WaitLink
  BY <1>6 DEF WaitLink, Wait
<1>7. CASE Configure
  BY <1>7 DEF Configure
<1>8. CASE Rings
  BY <1>8 DEF Rings
<1>9. CASE IntEnable
  BY <1>9 DEF IntEnable
<1>10. CASE IntClear
  BY <1>10 DEF IntClear
<1>11. CASE Enable
  BY <1>11 DEF Enable
<1>12. CASE PhyDone
  BY <1>12 DEF PhyDone
<1>13. ASSUME NEW s \in Statuses, Cable(s)
       PROVE  Configured'
  BY <1>13 DEF Cable
<1>14. CASE UNCHANGED startVars
  BY <1>14 DEF startVars
<1> QED
  BY <1>1, <1>2, <1>3, <1>4, <1>5, <1>6, <1>7, <1>8, <1>9, <1>10, <1>11, <1>12, <1>13,
     <1>14
  DEF StartNext, InitEmac, Arrive, Interrupt, Receive, allVars

\* The MAC is set to a mode that the link really had.
THEOREM ConfiguredRight == StartSpec => []ConfiguredAsSeen
<1>1. StartInit => Configured
  BY DEF StartInit, Configured
<1>2. StartTypes /\ Configured /\ [StartNext]_allVars => Configured'
  BY ConfiguredStep
<1>3. Configured => ConfiguredAsSeen
  BY DEF Configured, ConfiguredAsSeen
<1> QED
  BY <1>1, <1>2, <1>3, StartInvariant, PTL DEF StartSpec
==============================================================================
