----------------------------- MODULE EthernetRx -----------------------------
(***************************************************************************)
(* The way of a frame from the wire: the MAC and its ring of receive       *)
(* descriptors, the part of the interrupt handler that serves INT_RX_DONE, *)
(* the ethernetReceiver thread with the driver's read functions, and       *)
(* Ethernet_Handler::handleRecv with its listeners.                        *)
(*                                                                         *)
(* Threads do not run while the interrupt handler does; the MAC does.      *)
(* Overrun and error interrupts are cleared and reported, no more: they    *)
(* change no state that is modelled here.                                  *)
(***************************************************************************)
EXTENDS Naturals, Sequences

CONSTANTS
  Frames,      \* contents of a frame
  None,        \* no content
  NumRxFrag,   \* NUM_RX_FRAG, the number of receive descriptors
  Listeners,   \* number of listeners: main() adds two
  SemCap       \* bound on the count of sem_recv

ASSUME NoneAssumption == None \notin Frames
ASSUME BoundAssumption ==
  NumRxFrag \in Nat \ {0, 1} /\ Listeners \in Nat \ {0} /\ SemCap \in Nat \ {0}

VARIABLES
  desc,        \* [descriptors -> packet buffer]
  produce,     \* MAC_RXPRODUCEINDEX
  consume,     \* MAC_RXCONSUMEINDEX
  rxDone,      \* the INT_RX_DONE bit of MAC_INTSTATUS
  isr,         \* where irq_handler() is
  semRecv,     \* count of sem_recv
  rt,          \* where ethernetReceiver is
  rptr,        \* rptr: the descriptor whose packet is being read
  begin,       \* handleRecv: the listener whose turn it is, from 1
  seen         \* history: <<listener, frame it was called with>>, the last one

ringVars     == <<desc, produce, consume>>
irqVars      == <<rxDone, isr>>
receiverVars == <<rt, rptr, begin>>
vars == <<ringVars, irqVars, semRecv, receiverVars, seen>>

Descriptors == 0 .. NumRxFrag - 1

\* Mutant of NextIndex: no wrap.
NextUnwrapped(i) == i + 1

NextIndex(i) == IF i + 1 = NumRxFrag THEN 0 ELSE i + 1

\* After rx_descr_init(); no interrupt is pending.
Init ==
  /\ desc = [i \in Descriptors |-> None]
  /\ produce = 0 /\ consume = 0
  /\ rxDone = FALSE /\ isr = "Idle" /\ semRecv = 0
  /\ rt = "Wait" /\ rptr = 0 /\ begin = 1
  /\ seen = <<>>
------------------------------------------------------------------------------
(***************************************************************************)
(* The MAC: a frame goes to descriptor produce, if the next one is not the *)
(* driver's first unread one (equal indices mean an empty ring), and       *)
(* INT_RX_DONE is raised, or still set from the frame before.              *)
(***************************************************************************)
MacReceive(f) ==
  /\ NextIndex(produce) # consume
  /\ desc' = [desc EXCEPT ![produce] = f]
  /\ produce' = NextIndex(produce)
  /\ rxDone' = TRUE
  /\ UNCHANGED <<consume, isr, semRecv, receiverVars, seen>>

\* irq_handler: if( MAC_INTSTATUS & INT_RX_DONE ) ...
IrqEnter ==
  /\ isr = "Idle"
  /\ rxDone
  /\ isr' = "Clear"
  /\ UNCHANGED <<ringVars, rxDone, semRecv, receiverVars, seen>>

\* ... MAC_INTCLEAR = INT_RX_DONE: also for a frame that came after the test ...
IrqClear ==
  /\ isr = "Clear"
  /\ rxDone' = FALSE
  /\ isr' = "Signal"
  /\ UNCHANGED <<ringVars, semRecv, receiverVars, seen>>

\* ... sem_recv.signal().
IrqSignal ==
  /\ isr = "Signal"
  /\ semRecv' = IF semRecv < SemCap THEN semRecv + 1 ELSE semRecv
  /\ isr' = "Idle"
  /\ UNCHANGED <<ringVars, rxDone, receiverVars, seen>>

IrqHandler == IrqEnter \/ IrqClear \/ IrqSignal
------------------------------------------------------------------------------
(***************************************************************************)
(* ethernetReceiver.                                                       *)
(***************************************************************************)
\* eth0->recv_wait( -1 )
RecvWait ==
  /\ isr = "Idle"
  /\ rt = "Wait"
  /\ semRecv > 0
  /\ semRecv' = semRecv - 1
  /\ rt' = "Check"
  /\ UNCHANGED <<ringVars, irqVars, rptr, begin, seen>>

IsFrameAvailable == produce # consume

\* while( eth0->isFrameAvailable() ), for the first time and again.
CheckFrame ==
  /\ isr = "Idle"
  /\ rt \in {"Check", "Again"}
  /\ rt' = IF IsFrameAvailable THEN "Begin" ELSE "Wait"
  /\ UNCHANGED <<ringVars, irqVars, semRecv, rptr, begin, seen>>

\* Mutant of BeginReadFrame: the other index register.
BeginAtProduce ==
  /\ isr = "Idle"
  /\ rt = "Begin"
  /\ rptr' = produce
  /\ begin' = 1
  /\ rt' = "Listen"
  /\ UNCHANGED <<ringVars, irqVars, semRecv, seen>>

\* beginReadFrame() remembers the packet of descriptor consume.
BeginReadFrame ==
  /\ isr = "Idle"
  /\ rt = "Begin"
  /\ rptr' = consume
  /\ begin' = 1
  /\ rt' = "Listen"
  /\ UNCHANGED <<ringVars, irqVars, semRecv, seen>>

\* handleRecv: (*begin)->processFrame( frame ), ++begin.
ProcessFrame ==
  /\ isr = "Idle"
  /\ rt = "Listen"
  /\ seen' = <<begin, desc[rptr]>>
  /\ begin' = begin + 1
  /\ rt' = IF begin < Listeners THEN "Listen" ELSE "End"
  /\ UNCHANGED <<ringVars, irqVars, semRecv, rptr>>

\* Mutant of EndReadFrame: the index wraps to 1.
EndAtOne ==
  /\ isr = "Idle"
  /\ rt = "End"
  /\ consume' = IF consume + 1 = NumRxFrag THEN 1 ELSE consume + 1
  /\ rt' = "Again"
  /\ UNCHANGED <<desc, produce, irqVars, semRecv, rptr, begin, seen>>

\* endReadFrame(): the descriptor is the MAC's again.
EndReadFrame ==
  /\ isr = "Idle"
  /\ rt = "End"
  /\ consume' = NextIndex(consume)
  /\ rt' = "Again"
  /\ UNCHANGED <<desc, produce, irqVars, semRecv, rptr, begin, seen>>

Receiver ==
  \/ RecvWait \/ CheckFrame \/ BeginReadFrame \/ ProcessFrame \/ EndReadFrame
------------------------------------------------------------------------------
Next ==
  \/ \E f \in Frames : MacReceive(f)
  \/ IrqHandler
  \/ Receiver

Spec == Init /\ [][Next]_vars

(***************************************************************************)
(* Interrupts are served, and the receiver thread runs although the        *)
(* handler holds it up again and again.  Nobody is obliged to send.        *)
(***************************************************************************)
FairSpec == Spec /\ WF_vars(IrqHandler) /\ SF_vars(Receiver)
------------------------------------------------------------------------------
(***************************************************************************)
(* Properties.                                                             *)
(***************************************************************************)
TypeOK ==
  /\ desc \in [Descriptors -> Frames \union {None}]
  /\ produce \in Descriptors /\ consume \in Descriptors
  /\ rxDone \in BOOLEAN
  /\ isr \in {"Idle", "Clear", "Signal"}
  /\ semRecv \in 0 .. SemCap
  /\ rt \in {"Wait", "Check", "Begin", "Listen", "End", "Again"}
  /\ rptr \in Descriptors
  /\ begin \in 1 .. Listeners + 1
  /\ seen \in {<<>>} \union ((1 .. Listeners) \X Frames)

\* ethernetReceiver is not asleep on received frames: it has been signalled,
\* or the interrupt that will signal it is on its way.
NoFrameAsleep ==
  rt = "Wait" /\ IsFrameAvailable => semRecv > 0 \/ rxDone \/ isr # "Idle"

\* Between beginReadFrame() and endReadFrame().
Reading == rt \in {"Listen", "End"}

\* While the listeners are called, the frame they read stays as it arrived:
\* the MAC does not get the descriptor before endReadFrame().
FrameUntouched ==
  [][Reading => /\ desc'[rptr] = desc[rptr]
                /\ Reading' => rptr' = rptr]_vars

(***************************************************************************)
(* Ring, interrupt and receiver thread together feed the listeners every   *)
(* frame that found room, once, complete and in order.                     *)
(***************************************************************************)
At(k) == IF k < NumRxFrag THEN k ELSE k - NumRxFrag
Unshown ==
  IF consume <= produce THEN produce - consume ELSE produce + NumRxFrag - consume
InRing == [i \in 1 .. Unshown |-> desc[At(consume + i - 1)]]

Abs == INSTANCE FrameFeed WITH
         Capacity <- NumRxFrag - 1,
         buffered <- InRing,
         turn     <- IF Reading THEN begin - 1 ELSE 0
AbsSpec     == Abs!Spec
AbsFairSpec == Abs!FairSpec
==============================================================================
