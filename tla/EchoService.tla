---------------------------- MODULE EchoService ----------------------------
(***************************************************************************)
(* The echo server of icmpechoserver.hpp and the two threads that send     *)
(* IPv4 frames, serverThread and userThread in echoClient, down to the     *)
(* interfaces of ARP and Ethernet: ethernetReceiver builds replies in heap *)
(* buffers and queues them, both threads pass their buffer through         *)
(* IPv4_Handler::sendFrame and then free it.                               *)
(*                                                                         *)
(* request() is the abstract AddressResolution and Ethernet sendFrame()    *)
(* the abstract FrameLine, which ArpResolution and EthernetTx implement.   *)
(* A frame is the fields the code writes; a checksum is what it was        *)
(* computed over.                                                          *)
(***************************************************************************)
EXTENDS Naturals, Sequences, SequencesExt

CONSTANTS
  Blocks,       \* buffers the heap has room for
  LocalHosts,   \* hosts on the board's own network ...
  FarHosts,     \* ... and those beyond the gateway
  Gateway, MyIP, Broadcast,
  Requests,     \* echo requests that arrive: [from, to, quench]
  Pinged,       \* hosts the user pings
  Quench,       \* the quench of the user's requests
  Macs,         \* hardware addresses
  NoIP, NoMac,  \* IPv4_UNCONFIGURED, ETHERNET_UNCONFIGURED
  None,         \* a value that is not there
  RepliesSize,  \* places in the mailbox replies; 3 in the code
  RingFrames,   \* frames the transmit ring holds; 2 in the code
  IdentSize,    \* numbers in a uint16_t
  IdentCut      \* numbers in a uint8_t

Hosts == LocalHosts \union FarHosts
Hops == LocalHosts \union {Gateway}
Threads == {"Server", "User"}

ASSUME RequestAssumption ==
  /\ \A m \in Requests : /\ m.from \in Hosts
                         /\ m.to \in {MyIP, Broadcast}
  /\ Pinged \subseteq Hosts
  /\ MyIP # Broadcast
ASSUME NoneAssumption ==
  /\ None \notin Blocks \union Macs \union {NoMac} \union Threads
  /\ NoMac \notin Macs /\ NoIP \notin Hops
ASSUME SizeAssumption ==
  /\ {RepliesSize, RingFrames, IdentSize, IdentCut} \subseteq Nat \ {0}
  /\ IdentSize % IdentCut = 0

VARIABLES
  enabled,      \* does the server answer?
  heap,         \* [Blocks -> the frame in the buffer, None if it is free]
  posting,      \* the reply ethernetReceiver is about to queue
  replies,      \* the server's mailbox
  pc,           \* [Threads -> where the thread is in IPv4_Handler::sendFrame]
  buffer,       \* [Threads -> the buffer it sends and has to free]
  identity,     \* the last identification
  mutex,        \* holder of identity_mutex
  tmp,          \* [Threads -> what nextIdent() has computed]
  age,          \* history: [Threads -> identifications drawn since its own]
  asking, addr, answer, latest,     \* of AddressResolution
  stage, offered, line, wire        \* of FrameLine

Arp == INSTANCE AddressResolution
         WITH Requesters <- Threads, Addresses <- Hops, Empty <- None
Eth == INSTANCE FrameLine WITH Senders <- Threads, Payloads <- {}

identVars == <<identity, mutex, tmp, age>>
arpVars == <<asking, addr, answer, latest>>
ethVars == <<stage, offered, line, wire>>
vars == <<enabled, heap, posting, replies, pc, buffer, identVars, arpVars, ethVars>>

Init ==
  /\ enabled = TRUE
  /\ heap = [b \in Blocks |-> None]
  /\ posting = None
  /\ replies = <<>>
  /\ pc = [t \in Threads |-> "Idle"]
  /\ buffer = [t \in Threads |-> None]
  /\ identity = 0 /\ mutex = None
  /\ tmp = [t \in Threads |-> 0]
  /\ age = [t \in Threads |-> IdentCut]
  /\ Arp!Init /\ Eth!Init
-----------------------------------------------------------------------------
(***************************************************************************)
(* ICMPEchoServer::processFrame, in ethernetReceiver.                      *)
(***************************************************************************)
FreeBlocks == {b \in Blocks : heap[b] = None}

\* An ICMP message whose checksum is computed; the rest comes in sendFrame.
Message(type, quench, src, dst) ==
  [type |-> type, quench |-> quench, icmpsum |-> <<type, quench>>,
   src |-> src, dst |-> dst, ident |-> None, ipsum |-> None, mac |-> None]

\* Mutant of Reply: the addresses of the request are not swapped.
ReplyUnswapped(m) == Message("EchoReply", m.quench, m.from, m.to)

Reply(m) == Message("EchoReply", m.quench, m.to, m.from)

\* A request finds the server enabled and memory for a reply.  Without either
\* nothing changes.
BuildReply(m) ==
  /\ posting = None
  /\ enabled
  /\ \E b \in FreeBlocks :
       /\ posting' = b
       /\ heap' = [heap EXCEPT ![b] = Reply(m)]
  /\ UNCHANGED <<enabled, replies, pc, buffer, identVars, arpVars, ethVars>>

\* Mutant of PostReply: a reply that finds the mailbox full is forgotten.
PostOrForget ==
  /\ posting # None
  /\ replies' = IF Len(replies) < RepliesSize THEN Append(replies, posting)
                                              ELSE replies
  /\ posting' = None
  /\ UNCHANGED <<enabled, heap, pc, buffer, identVars, arpVars, ethVars>>

\* Mutant of PostReply: the mailbox takes any number of replies.
PostUnbounded ==
  /\ posting # None
  /\ replies' = Append(replies, posting)
  /\ posting' = None
  /\ UNCHANGED <<enabled, heap, pc, buffer, identVars, arpVars, ethVars>>

\* replies.send( 0, &reply ), or the buffer is freed if there is no room.
PostReply ==
  /\ posting # None
  /\ IF Len(replies) < RepliesSize
       THEN replies' = Append(replies, posting) /\ UNCHANGED heap
       ELSE heap' = [heap EXCEPT ![posting] = None] /\ UNCHANGED replies
  /\ posting' = None
  /\ UNCHANGED <<enabled, pc, buffer, identVars, arpVars, ethVars>>
-----------------------------------------------------------------------------
(***************************************************************************)
(* The threads, up to the call of IPv4_Handler::sendFrame.                 *)
(***************************************************************************)
ReceiveReply ==
  /\ pc["Server"] = "Idle"
  /\ replies # <<>>
  /\ buffer' = [buffer EXCEPT !["Server"] = Head(replies)]
  /\ replies' = Tail(replies)
  /\ pc' = [pc EXCEPT !["Server"] = "Ident"]
  /\ UNCHANGED <<enabled, heap, posting, identVars, arpVars, ethVars>>

\* echoClient with memory for its request.
Ping(host) ==
  /\ pc["User"] = "Idle"
  /\ \E b \in FreeBlocks :
       /\ buffer' = [buffer EXCEPT !["User"] = b]
       /\ heap' = [heap EXCEPT ![b] = Message("EchoRequest", Quench, None, host)]
  /\ pc' = [pc EXCEPT !["User"] = "Ident"]
  /\ UNCHANGED <<enabled, posting, replies, identVars, arpVars, ethVars>>

\* Menu entry 5: echoserver->setEnabled( !serverenabled ).
SetEnabled ==
  /\ pc["User"] = "Idle"
  /\ enabled' = ~enabled
  /\ UNCHANGED <<heap, posting, replies, pc, buffer, identVars, arpVars, ethVars>>
-----------------------------------------------------------------------------
(***************************************************************************)
(* IPv4_Handler::sendFrame, and the delete that follows it.                *)
(***************************************************************************)
\* Mutant of IncrementIdent: nextIdent() without its mutex.
IncrementUnlocked(t) ==
  /\ pc[t] = "Ident"
  /\ tmp' = [tmp EXCEPT ![t] = (identity + 1) % IdentSize]
  /\ pc' = [pc EXCEPT ![t] = "Store"]
  /\ UNCHANGED <<enabled, heap, posting, replies, buffer, identity, mutex, age,
                 arpVars, ethVars>>

\* nextIdent(): identity_mutex.lock(), and identity is read.
IncrementIdent(t) ==
  /\ pc[t] = "Ident"
  /\ mutex = None
  /\ mutex' = t
  /\ tmp' = [tmp EXCEPT ![t] = (identity + 1) % IdentSize]
  /\ pc' = [pc EXCEPT ![t] = "Store"]
  /\ UNCHANGED <<enabled, heap, posting, replies, buffer, identity, age,
                 arpVars, ethVars>>

\* identity is written, identity_mutex.release().
StoreIdent(t) ==
  /\ pc[t] = "Store"
  /\ identity' = tmp[t]
  /\ mutex' = None
  /\ age' = [u \in Threads |-> IF u = t THEN 0
                               ELSE IF age[u] < IdentCut THEN age[u] + 1 ELSE IdentCut]
  /\ pc' = [pc EXCEPT ![t] = "Seal"]
  /\ UNCHANGED <<enabled, heap, posting, replies, buffer, tmp, arpVars, ethVars>>

\* RoutingTable::nextHop
NextHop(dest) == IF dest \in LocalHosts THEN dest ELSE Gateway

\* Mutant of Sealed: the checksum is computed before the source is set.
SealedEarly(f, id) ==
  [f EXCEPT !.ident = id % IdentCut, !.src = MyIP,
            !.ipsum = <<id % IdentCut, f.src, f.dst>>]

\* setIdent( uint8_t ), setSource, setChecksum( computeChecksum() )
Sealed(f, id) ==
  [f EXCEPT !.ident = id % IdentCut, !.src = MyIP,
            !.ipsum = <<id % IdentCut, MyIP, f.dst>>]

\* The buffer is the thread's own, so all up to request( hop ) is one step.
Seal(t) ==
  /\ pc[t] = "Seal"
  /\ heap' = [heap EXCEPT ![buffer[t]] = Sealed(@, tmp[t])]
  /\ Arp!Ask(t, NextHop(heap[buffer[t]].dst))
  /\ tmp' = [tmp EXCEPT ![t] = 0]
  /\ pc' = [pc EXCEPT ![t] = "Resolve"]
  /\ UNCHANGED <<enabled, posting, replies, buffer, identity, mutex, age, ethVars>>

\* request() returns a hardware address: the frame is handed to Ethernet.
Resolved(t) ==
  /\ pc[t] = "Resolve"
  /\ answer[t] # NoMac
  /\ Arp!Return(t)
  /\ heap' = [heap EXCEPT ![buffer[t]].mac = answer[t]]
  /\ Eth!Offer(t, heap'[buffer[t]])
  /\ pc' = [pc EXCEPT ![t] = "Send"]
  /\ UNCHANGED <<enabled, posting, replies, buffer, identVars>>

\* request() returns ETHERNET_UNCONFIGURED, sendFrame() returns false.
Unresolved(t) ==
  /\ pc[t] = "Resolve"
  /\ answer[t] = NoMac
  /\ Arp!Return(t)
  /\ pc' = [pc EXCEPT ![t] = "Delete"]
  /\ UNCHANGED <<enabled, heap, posting, replies, buffer, identVars, ethVars>>

SendReturns(t) ==
  /\ pc[t] = "Send"
  /\ Eth!Return(t)
  /\ pc' = [pc EXCEPT ![t] = "Delete"]
  /\ UNCHANGED <<enabled, heap, posting, replies, buffer, identVars, arpVars>>

\* Mutant of Delete: the buffer of a frame that is still queued is freed.
DeleteEarly(t) ==
  /\ pc[t] \in {"Send", "Delete"}
  /\ heap' = [heap EXCEPT ![buffer[t]] = None]
  /\ buffer' = [buffer EXCEPT ![t] = None]
  /\ age' = [age EXCEPT ![t] = IdentCut]
  /\ pc' = [pc EXCEPT ![t] = "Idle"]
  /\ UNCHANGED <<enabled, posting, replies, identity, mutex, tmp, arpVars, ethVars>>

\* delete [] of the buffer, in serverThread and in echoClient.
Delete(t) ==
  /\ pc[t] = "Delete"
  /\ heap' = [heap EXCEPT ![buffer[t]] = None]
  /\ buffer' = [buffer EXCEPT ![t] = None]
  /\ age' = [age EXCEPT ![t] = IdentCut]
  /\ pc' = [pc EXCEPT ![t] = "Idle"]
  /\ UNCHANGED <<enabled, posting, replies, identity, mutex, tmp, arpVars, ethVars>>

SendFrame(t) ==
  \/ IncrementIdent(t) \/ StoreIdent(t) \/ Seal(t)
  \/ Resolved(t) \/ Unresolved(t) \/ SendReturns(t) \/ Delete(t)
-----------------------------------------------------------------------------
(***************************************************************************)
(* What goes on in the modules below.  The sender thread copies the frame  *)
(* out of the caller's buffer when it accepts it.                          *)
(***************************************************************************)
OutsideArp ==
  <<enabled, heap, posting, replies, pc, buffer, identVars, ethVars>>
OutsideEth ==
  <<enabled, heap, posting, replies, pc, buffer, identVars, arpVars>>

Answer(t) == (Arp!Resolve(t) \/ Arp!GiveUp(t)) /\ UNCHANGED OutsideArp

Advertise(a, m) ==
  /\ \E told \in SUBSET Threads : Arp!Advertise(a, m, told)
  /\ UNCHANGED OutsideArp

Accept(t) ==
  /\ Len(line) < RingFrames
  /\ Eth!Accept(t)
  /\ UNCHANGED OutsideEth

Transmit == Eth!Transmit /\ UNCHANGED OutsideEth
-----------------------------------------------------------------------------
Next ==
  \/ \E m \in Requests : BuildReply(m)
  \/ PostReply \/ ReceiveReply
  \/ \E host \in Pinged : Ping(host)
  \/ SetEnabled
  \/ \E t \in Threads : SendFrame(t) \/ Answer(t) \/ Accept(t)
  \/ \E a \in Hops, m \in Macs : Advertise(a, m)
  \/ Transmit

Spec == Init /\ [][Next]_vars
-----------------------------------------------------------------------------
(***************************************************************************)
(* Properties.                                                             *)
(***************************************************************************)
Frames ==
  [type : {"EchoRequest", "EchoReply"},
   quench : {m.quench : m \in Requests} \union {Quench},
   icmpsum : {"EchoRequest", "EchoReply"}
               \X ({m.quench : m \in Requests} \union {Quench}),
   src : {MyIP, Broadcast, None}, dst : Hosts,
   ident : (0 .. IdentCut - 1) \union {None},
   ipsum : ((0 .. IdentCut - 1) \X {MyIP} \X Hosts) \union {None},
   mac : Macs \union {None}]

\* None is no frame.
ASSUME FrameAssumption == None \notin Frames

Stages == {"Idle", "Ident", "Store", "Seal", "Resolve", "Send", "Delete"}

TypeOK ==
  /\ enabled \in BOOLEAN
  /\ heap \in [Blocks -> Frames \union {None}]
  /\ posting \in Blocks \union {None}
  /\ replies \in Seq(Blocks) /\ Len(replies) <= RepliesSize
  /\ pc \in [Threads -> Stages]
  /\ buffer \in [Threads -> Blocks \union {None}]
  /\ identity \in 0 .. IdentSize - 1
  /\ mutex \in Threads \union {None}
  /\ tmp \in [Threads -> 0 .. IdentSize - 1]
  /\ age \in [Threads -> 0 .. IdentCut]
  /\ \A t \in Threads : /\ (pc[t] = "Resolve") = asking[t]
                        /\ (pc[t] = "Send") = (stage[t] # "Idle")

\* A buffer is in use exactly as long as it has an owner who will free it: the
\* receiver, a place in the mailbox or a thread; and it never has two.
BufferOwned ==
  /\ \A b \in Blocks :
       heap[b] # None <=> \/ posting = b
                          \/ \E i \in 1 .. Len(replies) : replies[i] = b
                          \/ \E t \in Threads : buffer[t] = b
  /\ \A i, j \in 1 .. Len(replies) : replies[i] = replies[j] => i = j
  /\ \A i \in 1 .. Len(replies) :
       replies[i] # posting /\ \A t \in Threads : replies[i] # buffer[t]
  /\ posting # None => \A t \in Threads : posting # buffer[t]
  /\ buffer["Server"] # None => buffer["Server"] # buffer["User"]

\* As long as the sender thread may still copy a frame, its buffer holds what
\* was handed to Ethernet_Handler::sendFrame.
FrameStable ==
  \A t \in Threads :
    stage[t] = "Offered" => buffer[t] # None /\ heap[buffer[t]] = offered[t]

\* Both checksums of a frame on its way out cover what the frame says; it is
\* sent in the board's own name, even when it answers a broadcast.
SealedOnWire ==
  \A i \in 1 .. Len(line) :
    /\ line[i].icmpsum = <<line[i].type, line[i].quench>>
    /\ line[i].ipsum = <<line[i].ident, line[i].src, line[i].dst>>
    /\ line[i].src = MyIP

\* Two frames the threads are sending at the same time have different
\* identifications, unless as many were drawn in between as 8 bits tell apart.
IdentsDistinct ==
  \A t, u \in Threads :
    /\ t # u
    /\ {pc[t], pc[u]} \subseteq {"Resolve", "Send"}
    /\ age[t] < IdentCut /\ age[u] < IdentCut
    => heap[buffer[t]].ident # heap[buffer[u]].ident

\* The echo replies among the frames s, in their order: SelectSeq, written as a
\* recursive function.
IsReply(f) == f.type = "EchoReply"
Replies(s) ==
  LET selected[i \in 0 .. Len(s)] ==
        IF i = 0 THEN <<>>
        ELSE IF IsReply(s[i]) THEN Append(selected[i - 1], s[i])
        ELSE selected[i - 1]
  IN  selected[Len(s)]

\* The requests that have not been reflected: replies in the ring, then the
\* one serverThread is sending, then the mailbox.
Request(f) == [host |-> f.dst, quench |-> f.quench]
InHand ==
  IF \/ pc["Server"] \in {"Idle", "Delete"}
     \/ stage["Server"] = "Accepted" THEN <<>> ELSE <<heap[buffer["Server"]]>>
Pending ==
  LET queued == [i \in 1 .. Len(replies) |-> heap[replies[i]]]
      frames == Replies(line) \o InHand \o queued
  IN  [i \in 1 .. Len(frames) |-> Request(frames[i])]

Reflector == INSTANCE EchoReflector
               WITH Requests <- {[host |-> m.from, quench |-> m.quench] : m \in Requests},
                    Room <- RepliesSize + 1 + RingFrames, Own <- None,
                    pending <- Pending,
                    out <- IF wire # None /\ IsReply(wire) THEN Request(wire) ELSE None

\* The echo server implements EchoReflector: no reply goes astray, is doubled
\* or overtakes another.
AbsSpec == Reflector!Spec
=============================================================================
