----------------------------- MODULE EthernetTx -----------------------------
(***************************************************************************)
(* The way of a frame to the wire: threads in Ethernet_Handler::sendFrame, *)
(* the ethernetSender thread in Ethernet_Handler::sender and the driver's  *)
(* sendFrame, the ring of transmit descriptors, the MAC, and the part of   *)
(* the interrupt handler that serves INT_TX_DONE.                          *)
(*                                                                         *)
(* Threads do not run while the interrupt handler does; the MAC does.      *)
(***************************************************************************)
EXTENDS Naturals, Sequences

CONSTANTS
  Senders,     \* threads that call Ethernet_Handler::sendFrame()
  Payloads,    \* contents of a frame
  None,        \* no content, no item
  QueueSize,   \* QUEUE_SIZE
  NumTxFrag,   \* NUM_TX_FRAG, the number of transmit descriptors
  SemCap       \* bound on the count of sem_tx

ASSUME SenderAssumption == None \notin Senders \union Payloads
ASSUME BoundAssumption ==
  QueueSize \in Nat \ {0} /\ NumTxFrag \in Nat \ {0, 1} /\ SemCap \in Nat \ {0}

VARIABLES
  caller,      \* [Senders -> where the thread is in sendFrame()]
  buffer,      \* [Senders -> content of the frame, None after the call]
  response,    \* [Senders -> count of the semaphore item.response]
  sendQueue,   \* sendQueue, a mailbox of pointers to the callers' items
  st,          \* where ethernetSender is
  item,        \* ethernetSender: the item it took, None before
  desc,        \* [descriptors -> packet buffer]
  produce,     \* MAC_TXPRODUCEINDEX
  consume,     \* MAC_TXCONSUMEINDEX
  txDone,      \* the INT_TX_DONE bit of MAC_INTSTATUS
  isr,         \* where irq_handler() is
  semTx,       \* count of sem_tx
  wire         \* history: the frame transmitted last

callerVars == <<caller, buffer>>
senderVars == <<st, item>>
ringVars   == <<desc, produce, consume>>
vars == <<callerVars, response, sendQueue, senderVars, ringVars, txDone, isr,
          semTx, wire>>

Descriptors == 0 .. NumTxFrag - 1
NextIndex(i) == IF i + 1 = NumTxFrag THEN 0 ELSE i + 1

\* After tx_descr_init(); no interrupt is pending.
Init ==
  /\ caller = [s \in Senders |-> "Idle"]
  /\ buffer = [s \in Senders |-> None]
  /\ response = [s \in Senders |-> 0]
  /\ sendQueue = <<>>
  /\ st = "Recv" /\ item = None
  /\ desc = [i \in Descriptors |-> None]
  /\ produce = 0 /\ consume = 0
  /\ txDone = FALSE /\ isr = "Idle" /\ semTx = 0
  /\ wire = None
------------------------------------------------------------------------------
(***************************************************************************)
(* Ethernet_Handler::sendFrame.  The item with its semaphore lives on the  *)
(* caller's stack, the frame in a buffer that the caller frees afterwards. *)
(***************************************************************************)
Call(s, p) ==
  /\ isr = "Idle"
  /\ caller[s] = "Idle"
  /\ caller' = [caller EXCEPT ![s] = "Posting"]
  /\ buffer' = [buffer EXCEPT ![s] = p]
  /\ UNCHANGED <<response, sendQueue, senderVars, ringVars, txDone, isr, semTx,
                 wire>>

\* Mutant of Post: the mailbox takes a message when it is full.
PostUnbounded(s) ==
  /\ isr = "Idle"
  /\ caller[s] = "Posting"
  /\ sendQueue' = Append(sendQueue, s)
  /\ caller' = [caller EXCEPT ![s] = "Waiting"]
  /\ UNCHANGED <<buffer, response, senderVars, ringVars, txDone, isr, semTx,
                 wire>>

\* sendQueue.send(timeout): every caller leaves timeout at -1 and blocks while
\* the mailbox is full.
Post(s) ==
  /\ isr = "Idle"
  /\ caller[s] = "Posting"
  /\ Len(sendQueue) < QueueSize
  /\ sendQueue' = Append(sendQueue, s)
  /\ caller' = [caller EXCEPT ![s] = "Waiting"]
  /\ UNCHANGED <<buffer, response, senderVars, ringVars, txDone, isr, semTx,
                 wire>>

\* item.response.wait(), then the item and the buffer are gone.
Return(s) ==
  /\ isr = "Idle"
  /\ caller[s] = "Waiting"
  /\ response[s] > 0
  /\ response' = [response EXCEPT ![s] = 0]
  /\ caller' = [caller EXCEPT ![s] = "Idle"]
  /\ buffer' = [buffer EXCEPT ![s] = None]
  /\ UNCHANGED <<sendQueue, senderVars, ringVars, txDone, isr, semTx, wire>>
------------------------------------------------------------------------------
(***************************************************************************)
(* ethernetSender: Ethernet_Handler::sender and the driver's sendFrame.    *)
(***************************************************************************)
\* Mutant of RecvItem: the caller is released when its item is taken.
RecvAndSignal ==
  /\ isr = "Idle"
  /\ st = "Recv"
  /\ sendQueue # <<>>
  /\ item' = Head(sendQueue)
  /\ sendQueue' = Tail(sendQueue)
  /\ response' = [response EXCEPT ![Head(sendQueue)] = 1]
  /\ st' = "Check"
  /\ UNCHANGED <<callerVars, ringVars, txDone, isr, semTx, wire>>

RecvItem ==
  /\ isr = "Idle"
  /\ st = "Recv"
  /\ sendQueue # <<>>
  /\ item' = Head(sendQueue)
  /\ sendQueue' = Tail(sendQueue)
  /\ st' = "Check"
  /\ UNCHANGED <<callerVars, response, ringVars, txDone, isr, semTx, wire>>

\* Mutant of IsTXFull: the index after the last one is not wrapped.
FullUnwrapped == produce + 1 = consume

\* One descriptor stays unused, or a full ring would look like an empty one.
IsTXFull == NextIndex(produce) = consume

\* while( isTXFull() ) ...
CheckFull ==
  /\ isr = "Idle"
  /\ st = "Check"
  /\ st' = IF IsTXFull THEN "Wait" ELSE "Fill"
  /\ UNCHANGED <<callerVars, response, sendQueue, item, ringVars, txDone, isr,
                 semTx, wire>>

\* ... sem_tx.wait()
WaitTx ==
  /\ isr = "Idle"
  /\ st = "Wait"
  /\ semTx > 0
  /\ semTx' = semTx - 1
  /\ st' = "Check"
  /\ UNCHANGED <<callerVars, response, sendQueue, item, ringVars, txDone, isr,
                 wire>>

\* memcpy from the caller's buffer to the packet of descriptor produce.
FillDescriptor ==
  /\ isr = "Idle"
  /\ st = "Fill"
  /\ desc' = [desc EXCEPT ![produce] = buffer[item]]
  /\ st' = "Produce"
  /\ UNCHANGED <<callerVars, response, sendQueue, item, produce, consume,
                 txDone, isr, semTx, wire>>

\* MAC_TXPRODUCEINDEX = idx: from now on the descriptor is the MAC's.
AdvanceProduce ==
  /\ isr = "Idle"
  /\ st = "Produce"
  /\ produce' = NextIndex(produce)
  /\ st' = "Signal"
  /\ UNCHANGED <<callerVars, response, sendQueue, item, desc, consume, txDone,
                 isr, semTx, wire>>

\* Mutant of SignalItem: the caller is not released.
SignalNobody ==
  /\ isr = "Idle"
  /\ st = "Signal"
  /\ st' = "Recv" /\ item' = None
  /\ UNCHANGED <<callerVars, response, sendQueue, ringVars, txDone, isr, semTx,
                 wire>>

\* item->response.signal(), through the pointer into the caller's stack.
SignalItem ==
  /\ isr = "Idle"
  /\ st = "Signal"
  /\ response' = [response EXCEPT ![item] = @ + 1]
  /\ st' = "Recv" /\ item' = None
  /\ UNCHANGED <<callerVars, sendQueue, ringVars, txDone, isr, semTx, wire>>

SenderThread ==
  \/ RecvItem \/ CheckFull \/ WaitTx \/ FillDescriptor \/ AdvanceProduce
  \/ SignalItem
------------------------------------------------------------------------------
(***************************************************************************)
(* The MAC transmits the packet of descriptor consume, goes on to the next *)
(* one and raises INT_TX_DONE.  The bit may still be set from the frame    *)
(* before: then one interrupt stands for both.                             *)
(***************************************************************************)
MacTransmit ==
  /\ consume # produce
  /\ wire' = desc[consume]
  /\ consume' = NextIndex(consume)
  /\ txDone' = TRUE
  /\ UNCHANGED <<callerVars, response, sendQueue, senderVars, desc, produce,
                 isr, semTx>>

\* irq_handler: if( MAC_INTSTATUS & INT_TX_DONE ) ...
IrqEnter ==
  /\ isr = "Idle"
  /\ txDone
  /\ isr' = "Clear"
  /\ UNCHANGED <<callerVars, response, sendQueue, senderVars, ringVars, txDone,
                 semTx, wire>>

\* Mutant of IrqClear: the interrupt is cleared and nobody is told.
IrqIgnore ==
  /\ isr = "Clear"
  /\ txDone' = FALSE
  /\ isr' = "Idle"
  /\ UNCHANGED <<callerVars, response, sendQueue, senderVars, ringVars, semTx,
                 wire>>

\* ... MAC_INTCLEAR = INT_TX_DONE ...
IrqClear ==
  /\ isr = "Clear"
  /\ txDone' = FALSE
  /\ isr' = "Signal"
  /\ UNCHANGED <<callerVars, response, sendQueue, senderVars, ringVars, semTx,
                 wire>>

\* ... sem_tx.signal().  Nobody takes the count down while the ring is not
\* full; above SemCap it makes no difference how large it is.
IrqSignal ==
  /\ isr = "Signal"
  /\ semTx' = IF semTx < SemCap THEN semTx + 1 ELSE semTx
  /\ isr' = "Idle"
  /\ UNCHANGED <<callerVars, response, sendQueue, senderVars, ringVars, txDone,
                 wire>>

IrqHandler == IrqEnter \/ IrqClear \/ IrqSignal
------------------------------------------------------------------------------
Next ==
  \/ \E s \in Senders :
       (\E p \in Payloads : Call(s, p)) \/ Post(s) \/ Return(s)
  \/ SenderThread
  \/ MacTransmit
  \/ IrqHandler

Spec == Init /\ [][Next]_vars

(***************************************************************************)
(* The MAC transmits what it is given and interrupts are served.  A thread *)
(* that can run eventually does; it is held up while the handler runs,     *)
(* again and again, hence strong fairness.  It also makes a caller blocked *)
(* on a full sendQueue get a place: a mailbox hands it to a blocked sender.*)
(***************************************************************************)
Fairness ==
  /\ WF_vars(MacTransmit)
  /\ WF_vars(IrqHandler)
  /\ SF_vars(SenderThread)
  /\ \A s \in Senders : SF_vars(Post(s)) /\ SF_vars(Return(s))

FairSpec == Spec /\ Fairness
------------------------------------------------------------------------------
(***************************************************************************)
(* Properties.                                                             *)
(***************************************************************************)
TypeOK ==
  /\ caller \in [Senders -> {"Idle", "Posting", "Waiting"}]
  /\ buffer \in [Senders -> Payloads \union {None}]
  /\ response \in [Senders -> {0, 1}]
  /\ sendQueue \in Seq(Senders) /\ Len(sendQueue) <= QueueSize
  /\ st \in {"Recv", "Check", "Wait", "Fill", "Produce", "Signal"}
  /\ item \in Senders \union {None}
  /\ st # "Recv" => item \in Senders
  /\ desc \in [Descriptors -> Payloads \union {None}]
  /\ produce \in Descriptors /\ consume \in Descriptors
  /\ txDone \in BOOLEAN
  /\ isr \in {"Idle", "Clear", "Signal"}
  /\ semTx \in 0 .. SemCap
  /\ wire \in Payloads \union {None}

InQueue(s) == \E i \in 1 .. Len(sendQueue) : sendQueue[i] = s
InWork(s)  == item = s

\* Whatever sendQueue and the sender thread point at is the item of a thread
\* that still waits in sendFrame(), and each item is in one place only: no
\* item, semaphore or buffer is used after its owner went on.
ItemsLive ==
  /\ \A s \in Senders :
       /\ InQueue(s) \/ InWork(s) =>
            caller[s] = "Waiting" /\ response[s] = 0 /\ buffer[s] \in Payloads
       /\ InQueue(s) => ~InWork(s)
  /\ \A i, j \in 1 .. Len(sendQueue) : sendQueue[i] = sendQueue[j] => i = j

\* A sender thread waiting for sem_tx is woken: the MAC still has a frame to
\* finish, or the interrupt for one is on its way, or the count says so.
NoLostWakeup ==
  st = "Wait" => \/ semTx > 0
                 \/ consume # produce
                 \/ txDone
                 \/ isr # "Idle"

\* Every call of sendFrame() returns.
SendReturns ==
  \A s \in Senders : caller[s] = "Posting" ~> caller[s] = "Idle"

(***************************************************************************)
(* The frames on their way, oldest first: those handed to the MAC, the one *)
(* the sender thread works on, those whose items are in sendQueue.         *)
(***************************************************************************)
At(k) == IF k < NumTxFrag THEN k ELSE k - NumTxFrag
Unsent ==
  IF consume <= produce THEN produce - consume ELSE produce + NumTxFrag - consume
InRing == [i \in 1 .. Unsent |-> desc[At(consume + i - 1)]]
AtSender ==
  IF st \in {"Check", "Wait", "Fill", "Produce"} THEN <<buffer[item]>> ELSE <<>>
AtQueue == [i \in 1 .. Len(sendQueue) |-> buffer[sendQueue[i]]]

Stage(s) == CASE caller[s] = "Idle"    -> "Idle"
              [] caller[s] = "Posting" -> "Offered"
              [] caller[s] = "Waiting" -> "Accepted"

\* Queue, sender thread, ring and MAC together are a first-in first-out line
\* of frames that loses, repeats, reorders and changes none.
Abs == INSTANCE FrameLine WITH
         stage   <- [s \in Senders |-> Stage(s)],
         offered <- buffer,
         line    <- InRing \o AtSender \o AtQueue
AbsSpec == Abs!Spec
==============================================================================
