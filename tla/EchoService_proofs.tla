------------------------- MODULE EchoService_proofs -------------------------
(***************************************************************************)
(* Theorems about EchoService, for any number of buffers, hosts and        *)
(* requests, and any sizes of the mailbox, the ring and the identification.*)
(***************************************************************************)
EXTENDS EchoService, SequenceTheorems, NumberFacts

\* A frame whose checksums cover what it says, sent in the board's own name.
WellSealed(f) ==
  /\ f.icmpsum = <<f.type, f.quench>>
  /\ f.ipsum = <<f.ident, f.src, f.dst>>
  /\ f.src = MyIP

\* A new message is a frame, with its ICMP checksum.
LEMMA MessageIsFrame ==
  ASSUME NEW type \in {"EchoRequest", "EchoReply"},
         NEW quench \in {m.quench : m \in Requests} \union {Quench},
         NEW src \in {MyIP, Broadcast, None}, NEW dst \in Hosts
  PROVE  /\ Message(type, quench, src, dst) \in Frames
         /\ Message(type, quench, src, dst).icmpsum =
              <<Message(type, quench, src, dst).type, Message(type, quench, src, dst).quench>>
  BY DEF Message, Frames

\* What sendFrame() fills in makes a frame with both checksums.
LEMMA SealedIsFrame ==
  ASSUME NEW f \in Frames, NEW id \in 0 .. IdentSize - 1
  PROVE  /\ Sealed(f, id) \in Frames
         /\ f.icmpsum = <<f.type, f.quench>> => WellSealed(Sealed(f, id))
<1>1. id % IdentCut \in 0 .. IdentCut - 1
  BY SizeAssumption
<1> DEFINE cut == id % IdentCut
<1> HIDE DEF cut
<1>2. cut \in 0 .. IdentCut - 1
  BY <1>1 DEF cut
<1>3. Sealed(f, id) = [f EXCEPT !.ident = cut, !.src = MyIP, !.ipsum = <<cut, MyIP, f.dst>>]
  BY DEF Sealed, cut
<1>4. Sealed(f, id) \in Frames
  <2> DEFINE s == <<cut, MyIP, f.dst>>
  <2>1. s \in (0 .. IdentCut - 1) \X {MyIP} \X Hosts
    BY <1>2 DEF Frames
  <2>2. Sealed(f, id) = [f EXCEPT !.ident = cut, !.src = MyIP, !.ipsum = s]
    BY <1>3
  <2> HIDE DEF s
  <2> QED
    BY <1>2, <2>1, <2>2 DEF Frames
<1>5. f.icmpsum = <<f.type, f.quench>> => WellSealed(Sealed(f, id))
  BY <1>2, <1>3 DEF Frames, WellSealed
<1> QED
  BY <1>4, <1>5

\* The hardware address is not covered by a checksum.
LEMMA AddressedIsFrame ==
  ASSUME NEW f \in Frames, NEW m \in Macs
  PROVE  /\ [f EXCEPT !.mac = m] \in Frames
         /\ f.icmpsum = <<f.type, f.quench>> =>
              [f EXCEPT !.mac = m].icmpsum = <<[f EXCEPT !.mac = m].type, [f EXCEPT !.mac = m].quench>>
         /\ WellSealed(f) => WellSealed([f EXCEPT !.mac = m])
  BY DEF Frames, WellSealed

-----------------------------------------------------------------------------
(***************************************************************************)
(* Types.                                                                  *)
(***************************************************************************)
\* The modules below, and where a thread has a buffer.
TypesBelow ==
  /\ asking \in [Threads -> BOOLEAN]
  /\ addr \in [Threads -> Hops \union {NoIP}]
  /\ answer \in [Threads -> Macs \union {NoMac, None}]
  /\ latest \in [Hops -> Macs \union {None}]
  /\ \A t \in Threads : asking[t] => addr[t] \in Hops
  /\ stage \in [Threads -> {"Idle", "Offered", "Accepted"}]
  /\ offered \in [Threads -> Frames \union {None}]
  /\ \A t \in Threads : stage[t] = "Offered" => offered[t] \in Frames
  /\ line \in Seq(Frames)

\* A thread has a buffer from the moment it has something to send.
Holding == \A t \in Threads : pc[t] # "Idle" <=> buffer[t] # None

Types == TypeOK /\ TypesBelow /\ Holding

\* The buffer of a thread holds a frame.
LEMMA InBuffer ==
  ASSUME Types, BufferOwned, NEW t \in Threads, pc[t] # "Idle"
  PROVE  buffer[t] \in Blocks /\ heap[buffer[t]] \in Frames
<1>1. buffer[t] \in Blocks /\ buffer[t] # None
  BY DEF Types, TypeOK, Holding
<1>2. heap[buffer[t]] # None
  BY <1>1 DEF BufferOwned
<1> QED
  BY <1>1, <1>2 DEF Types, TypeOK

\* A reply is a frame with its ICMP checksum.
LEMMA ReplyIsFrame ==
  ASSUME NEW m \in Requests
  PROVE  Reply(m) \in Frames /\ Reply(m).icmpsum = <<Reply(m).type, Reply(m).quench>>
<1>1. m.quench \in {n.quench : n \in Requests} \union {Quench}
  OBVIOUS
<1>2. m.to \in {MyIP, Broadcast, None} /\ m.from \in Hosts
  BY RequestAssumption
<1> QED
  BY <1>1, <1>2, MessageIsFrame DEF Reply

\* What an action that only writes asking[t] keeps of the relation to pc.
LEMMA AskingSet ==
  ASSUME Types, NEW t \in Threads, NEW v \in BOOLEAN, NEW s \in Stages,
         asking' = [asking EXCEPT ![t] = v],
         pc' = [pc EXCEPT ![t] = s],
         v <=> s = "Resolve"
  PROVE  /\ asking' \in [Threads -> BOOLEAN]
         /\ \A u \in Threads : (pc'[u] = "Resolve") = asking'[u]
         /\ \A u \in Threads : u # t => asking'[u] = asking[u]
         /\ asking'[t] = v
<1> USE DEF Types, TypeOK, TypesBelow
<1>1. asking' \in [Threads -> BOOLEAN]
  OBVIOUS
<1>2. asking'[t] = v /\ \A u \in Threads : u # t => asking'[u] = asking[u]
  OBVIOUS
<1>3. \A u \in Threads : (pc'[u] = "Resolve") = asking'[u]
  <2> TAKE u \in Threads
  <2>1. CASE u = t
    <3>1. pc'[u] = s /\ asking'[u] = v
      BY <2>1, <1>2
    <3> QED
      BY <3>1
  <2>2. CASE u # t
    <3>1. pc'[u] = pc[u] /\ asking'[u] = asking[u]
      BY <2>2, <1>2
    <3> QED
      BY <3>1
  <2> QED
    BY <2>1, <2>2
<1> QED
  BY <1>1, <1>2, <1>3

\* Every step keeps the types.
LEMMA TypesStep ==
  ASSUME Types, BufferOwned, [Next]_vars
  PROVE  Types'
<1> USE DEF Types, TypeOK, TypesBelow, Holding
<1>0. None \notin Frames /\ None \notin Blocks /\ None \notin Threads
  BY FrameAssumption, NoneAssumption
<1>1. ASSUME NEW m \in Requests, BuildReply(m)
      PROVE  Types'
  <2>1. PICK b \in Blocks : posting' = b /\ heap' = [heap EXCEPT ![b] = Reply(m)]
    BY <1>1 DEF BuildReply, FreeBlocks
  <2>2. heap' \in [Blocks -> Frames \union {None}] /\ posting' \in Blocks
    BY <2>1, ReplyIsFrame
  <2> QED
    BY <1>1, <2>2 DEF BuildReply, identVars, arpVars, ethVars
<1>2. CASE PostReply
  <2> USE DEF PostReply, identVars, arpVars, ethVars
  <2>1. posting \in Blocks /\ posting' = None
    BY <1>2
  <2>2. heap' \in [Blocks -> Frames \union {None}]
    BY <1>2, <2>1
  <2>3. replies' \in Seq(Blocks) /\ Len(replies') <= RepliesSize
    <3>1. CASE replies' = replies
      BY <3>1
    <3>2. CASE Len(replies) < RepliesSize /\ replies' = Append(replies, posting)
      <4>1. Len(replies') = Len(replies) + 1 /\ replies' \in Seq(Blocks)
        BY <3>2, <2>1
      <4> QED
        BY <3>2, <4>1, SizeAssumption
    <3> QED
      BY <1>2, <3>1, <3>2
  <2> QED
    BY <1>2, <2>1, <2>2, <2>3
<1>3. CASE ReceiveReply
  <2>1. replies \in Seq(Blocks) /\ replies # <<>>
    BY <1>3 DEF ReceiveReply
  <2>2. Head(replies) \in Blocks /\ Tail(replies) \in Seq(Blocks)
    BY <2>1
  <2>3. Len(Tail(replies)) <= RepliesSize
    <3>1. Len(Tail(replies)) = Len(replies) - 1 /\ Len(replies) \in Nat
      BY <2>1
    <3> QED
      BY <3>1, SizeAssumption
  <2>4. replies' \in Seq(Blocks) /\ Len(replies') <= RepliesSize
    BY <1>3, <2>2, <2>3 DEF ReceiveReply
  <2> QED
    BY <1>3, <1>0, <2>2, <2>4 DEF ReceiveReply, identVars, arpVars, ethVars, Stages, Threads
<1>4. ASSUME NEW host \in Pinged, Ping(host)
      PROVE  Types'
  <2>1. Message("EchoRequest", Quench, None, host) \in Frames
    BY MessageIsFrame, RequestAssumption
  <2> QED
    BY <1>4, <1>0, <2>1 DEF Ping, FreeBlocks, identVars, arpVars, ethVars, Stages, Threads
<1>5. CASE SetEnabled
  BY <1>5 DEF SetEnabled, identVars, arpVars, ethVars
<1>6. ASSUME NEW t \in Threads, SendFrame(t)
      PROVE  Types'
  <2>1. CASE IncrementIdent(t)
    BY <2>1, SizeAssumption DEF IncrementIdent, arpVars, ethVars, Stages
  <2>2. CASE StoreIdent(t)
    <3>1. age' \in [Threads -> 0 .. IdentCut]
      <4>1. \A u \in Threads : age[u] \in 0 .. IdentCut
        OBVIOUS
      <4> QED
        BY <2>2, <4>1, SizeAssumption DEF StoreIdent
    <3>2. identity' \in 0 .. IdentSize - 1 /\ mutex' = None
      BY <2>2 DEF StoreIdent
    <3> QED
      BY <2>2, <3>1, <3>2 DEF StoreIdent, arpVars, ethVars, Stages
  <2>3. CASE Seal(t)
    <3> DEFINE b == buffer[t]
               hop == NextHop(heap[b].dst)
    <3>1. b \in Blocks /\ heap[b] \in Frames
      BY <2>3, InBuffer DEF Seal
    <3>2. Sealed(heap[b], tmp[t]) \in Frames
      BY <3>1, SealedIsFrame
    <3>3. heap' = [heap EXCEPT ![b] = Sealed(heap[b], tmp[t])]
      BY <2>3, <3>1 DEF Seal
    <3>4. heap' \in [Blocks -> Frames \union {None}]
      BY <3>2, <3>3
    <3>5. hop \in Hops
      BY <3>1 DEF NextHop, Hops, Frames, Hosts
    <3>6. /\ asking' = [asking EXCEPT ![t] = TRUE] /\ addr' = [addr EXCEPT ![t] = hop]
          /\ UNCHANGED <<answer, latest>>
      BY <2>3 DEF Seal, Arp!Ask
    <3>7. pc' = [pc EXCEPT ![t] = "Resolve"] /\ tmp' = [tmp EXCEPT ![t] = 0]
      BY <2>3 DEF Seal
    <3>8. /\ asking' \in [Threads -> BOOLEAN]
          /\ \A u \in Threads : (pc'[u] = "Resolve") = asking'[u]
          /\ \A u \in Threads : u # t => asking'[u] = asking[u]
      BY <3>6, <3>7, AskingSet DEF Stages
    <3>9. /\ addr' \in [Threads -> Hops \union {NoIP}]
          /\ \A u \in Threads : asking'[u] => addr'[u] \in Hops
      BY <3>5, <3>6, <3>8
    <3>10. \A u \in Threads : (pc'[u] = "Send") = (stage[u] # "Idle")
      BY <2>3, <3>7 DEF Seal
    <3>11. tmp' \in [Threads -> 0 .. IdentSize - 1]
      BY <3>7, SizeAssumption
    <3>12. pc' \in [Threads -> Stages] /\ \A u \in Threads : pc'[u] # "Idle" <=> pc[u] # "Idle"
      BY <2>3, <3>7 DEF Seal, Stages
    <3> HIDE DEF b, hop
    <3> QED
      BY <2>3, <3>4, <3>6, <3>8, <3>9, <3>10, <3>11, <3>12 DEF Seal, ethVars
  <2>4. CASE Resolved(t)
    <3> DEFINE b == buffer[t]
               f == [heap[b] EXCEPT !.mac = answer[t]]
    <3>1. b \in Blocks /\ heap[b] \in Frames
      BY <2>4, InBuffer DEF Resolved
    <3>2. answer[t] \in Macs
      BY <2>4 DEF Resolved, Arp!Return
    <3>3. f \in Frames
      BY <3>1, <3>2, AddressedIsFrame
    <3>4. heap' = [heap EXCEPT ![b] = f]
      BY <2>4 DEF Resolved
    <3>5. heap' \in [Blocks -> Frames \union {None}] /\ heap'[b] = f
      BY <3>1, <3>3, <3>4
    <3>6. /\ asking' = [asking EXCEPT ![t] = FALSE] /\ addr' = [addr EXCEPT ![t] = NoIP]
          /\ answer' = [answer EXCEPT ![t] = None] /\ UNCHANGED latest
      BY <2>4 DEF Resolved, Arp!Return
    <3>7. /\ pc' = [pc EXCEPT ![t] = "Send"] /\ pc[t] = "Resolve"
          /\ stage' = [stage EXCEPT ![t] = "Offered"]
          /\ offered' = [offered EXCEPT ![t] = heap'[b]] /\ UNCHANGED line
      BY <2>4 DEF Resolved, Eth!Offer
    <3>8. /\ asking' \in [Threads -> BOOLEAN]
          /\ \A u \in Threads : (pc'[u] = "Resolve") = asking'[u]
          /\ \A u \in Threads : u # t => asking'[u] = asking[u]
          /\ asking'[t] = FALSE
      BY <3>6, <3>7, AskingSet DEF Stages
    <3>9. /\ addr' \in [Threads -> Hops \union {NoIP}]
          /\ answer' \in [Threads -> Macs \union {NoMac, None}]
      BY <3>6
    <3>10. \A u \in Threads : asking'[u] => addr'[u] \in Hops
      <4> TAKE u \in Threads
      <4>1. CASE u = t
        BY <4>1, <3>8
      <4>2. CASE u # t
        BY <4>2, <3>6, <3>8
      <4> QED
        BY <4>1, <4>2
    <3>11. /\ \A u \in Threads : (pc'[u] = "Send") = (stage'[u] # "Idle")
           /\ stage' \in [Threads -> {"Idle", "Offered", "Accepted"}]
      BY <3>7
    <3>12. /\ offered' \in [Threads -> Frames \union {None}]
           /\ \A u \in Threads : stage'[u] = "Offered" => offered'[u] \in Frames
      BY <3>3, <3>5, <3>7
    <3>13. pc' \in [Threads -> Stages] /\ \A u \in Threads : pc'[u] # "Idle" <=> pc[u] # "Idle"
      BY <3>7 DEF Stages
    <3> HIDE DEF b, f
    <3> QED
      BY <2>4, <3>5, <3>6, <3>7, <3>8, <3>9, <3>10, <3>11, <3>12, <3>13 DEF Resolved, identVars
  <2>5. CASE Unresolved(t)
    <3>6. /\ asking' = [asking EXCEPT ![t] = FALSE] /\ addr' = [addr EXCEPT ![t] = NoIP]
          /\ answer' = [answer EXCEPT ![t] = None] /\ UNCHANGED latest
      BY <2>5 DEF Unresolved, Arp!Return
    <3>7. pc' = [pc EXCEPT ![t] = "Delete"] /\ pc[t] = "Resolve"
      BY <2>5 DEF Unresolved
    <3>8. /\ asking' \in [Threads -> BOOLEAN]
          /\ \A u \in Threads : (pc'[u] = "Resolve") = asking'[u]
          /\ \A u \in Threads : u # t => asking'[u] = asking[u]
          /\ asking'[t] = FALSE
      BY <3>6, <3>7, AskingSet DEF Stages
    <3>9. /\ addr' \in [Threads -> Hops \union {NoIP}]
          /\ answer' \in [Threads -> Macs \union {NoMac, None}]
      BY <3>6
    <3>10. \A u \in Threads : asking'[u] => addr'[u] \in Hops
      <4> TAKE u \in Threads
      <4>1. CASE u = t
        BY <4>1, <3>8
      <4>2. CASE u # t
        BY <4>2, <3>6, <3>8
      <4> QED
        BY <4>1, <4>2
    <3>11. \A u \in Threads : (pc'[u] = "Send") = (stage[u] # "Idle")
      BY <3>7
    <3>13. pc' \in [Threads -> Stages] /\ \A u \in Threads : pc'[u] # "Idle" <=> pc[u] # "Idle"
      BY <3>7 DEF Stages
    <3> QED
      BY <2>5, <3>6, <3>7, <3>8, <3>9, <3>10, <3>11, <3>13 DEF Unresolved, identVars, ethVars
  <2>6. CASE SendReturns(t)
    BY <2>6 DEF SendReturns, identVars, arpVars, Eth!Return, Stages
  <2>7. CASE Delete(t)
    BY <2>7, SizeAssumption DEF Delete, arpVars, ethVars, Stages
  <2> QED
    BY <1>6, <2>1, <2>2, <2>3, <2>4, <2>5, <2>6, <2>7 DEF SendFrame
<1>7. ASSUME NEW t \in Threads, Answer(t)
      PROVE  Types'
  BY <1>7 DEF Answer, OutsideArp, identVars, ethVars, Arp!Resolve, Arp!GiveUp, Arp!Unanswered
<1>8. ASSUME NEW a \in Hops, NEW m \in Macs, Advertise(a, m)
      PROVE  Types'
  BY <1>8 DEF Advertise, OutsideArp, identVars, ethVars, Arp!Advertise
<1>9. ASSUME NEW t \in Threads, Accept(t)
      PROVE  Types'
  BY <1>9 DEF Accept, OutsideEth, identVars, arpVars, Eth!Accept
<1>10. CASE Transmit
  BY <1>10 DEF Transmit, OutsideEth, identVars, arpVars, Eth!Transmit
<1>11. CASE UNCHANGED vars
  BY <1>11 DEF vars, identVars, arpVars, ethVars
<1> QED
  BY <1>1, <1>2, <1>3, <1>4, <1>5, <1>6, <1>7, <1>8, <1>9, <1>10, <1>11 DEF Next

\* Everything has its type to begin with.
LEMMA TypeInit == Init => Types
<1> SUFFICES ASSUME Init PROVE Types
  OBVIOUS
<1> USE DEF Init, Arp!Init, Eth!Init
<1>1. TypeOK
  <2>1. age \in [Threads -> 0 .. IdentCut] /\ tmp \in [Threads -> 0 .. IdentSize - 1]
    BY SizeAssumption
  <2>2. 0 \in 0 .. IdentSize - 1 /\ 0 <= RepliesSize
    BY SizeAssumption
  <2>3. replies \in Seq(Blocks) /\ Len(replies) <= RepliesSize
    BY <2>2
  <2>4. \A t \in Threads : /\ (pc[t] = "Resolve") = asking[t]
                           /\ (pc[t] = "Send") = (stage[t] # "Idle")
    OBVIOUS
  <2>5. pc \in [Threads -> Stages] /\ heap \in [Blocks -> Frames \union {None}]
    BY DEF Stages
  <2> QED
    BY <2>1, <2>2, <2>3, <2>4, <2>5 DEF TypeOK
<1>2. TypesBelow
  BY DEF TypesBelow
<1>3. Holding
  BY DEF Holding
<1> QED
  BY <1>1, <1>2, <1>3 DEF Types

-----------------------------------------------------------------------------
(***************************************************************************)
(* Every buffer has one owner.                                             *)
(***************************************************************************)
\* The buffers of the two threads differ.
LEMMA OtherBuffer ==
  ASSUME BufferOwned, NEW t \in Threads, NEW u \in Threads, t # u, buffer[t] # None
  PROVE  buffer[t] # buffer[u]
  BY DEF BufferOwned, Threads

\* What gives no buffer away and neither takes nor frees one.
LEMMA OwnersKept ==
  ASSUME BufferOwned, UNCHANGED <<posting, replies, buffer>>,
         \A b \in Blocks : heap'[b] = None <=> heap[b] = None
  PROVE  BufferOwned'
  BY DEF BufferOwned

\* Every step keeps the ownership.
LEMMA OwnersStep ==
  ASSUME Types, BufferOwned, [Next]_vars
  PROVE  BufferOwned'
<1> USE DEF BufferOwned
<1>0. None \notin Frames /\ None \notin Blocks /\ None \notin Threads
  BY FrameAssumption, NoneAssumption
<1>a. /\ replies \in Seq(Blocks) /\ heap \in [Blocks -> Frames \union {None}]
      /\ buffer \in [Threads -> Blocks \union {None}] /\ posting \in Blocks \union {None}
  BY DEF Types, TypeOK
<1>1. ASSUME NEW m \in Requests, BuildReply(m)
      PROVE  BufferOwned'
  <2>1. PICK b \in Blocks : /\ heap[b] = None
                            /\ posting' = b /\ heap' = [heap EXCEPT ![b] = Reply(m)]
    BY <1>1 DEF BuildReply, FreeBlocks
  <2>2. UNCHANGED <<replies, buffer>> /\ posting = None
    BY <1>1 DEF BuildReply
  <2>3. heap'[b] # None /\ \A c \in Blocks \ {b} : heap'[c] = heap[c]
    BY <2>1, <1>0, <1>a, ReplyIsFrame
  <2> QED
    BY <2>1, <2>2, <2>3, <1>0, <1>a
<1>2. CASE PostReply
  <2>1. /\ posting \in Blocks /\ posting' = None /\ UNCHANGED buffer
        /\ heap[posting] # None
    BY <1>2, <1>a DEF PostReply
  <2>2. CASE replies' = Append(replies, posting) /\ UNCHANGED heap
    <3>1. /\ Len(replies') = Len(replies) + 1 /\ Len(replies) \in Nat
          /\ \A i \in 1 .. Len(replies) : replies'[i] = replies[i]
          /\ replies'[Len(replies) + 1] = posting
      BY <2>1, <2>2, <1>a
    <3>2. \A b \in Blocks : (\E i \in 1 .. Len(replies') : replies'[i] = b)
                              <=> \/ posting = b
                                  \/ \E i \in 1 .. Len(replies) : replies[i] = b
      BY <3>1
    <3>3. \A b \in Blocks :
            heap'[b] # None <=> \/ posting' = b
                                \/ \E i \in 1 .. Len(replies') : replies'[i] = b
                                \/ \E t \in Threads : buffer'[t] = b
      BY <2>1, <2>2, <3>2, <1>0
    <3>4. \A i, j \in 1 .. Len(replies') : replies'[i] = replies'[j] => i = j
      BY <3>1
    <3>5. \A i \in 1 .. Len(replies') :
            replies'[i] # posting' /\ \A t \in Threads : replies'[i] # buffer'[t]
      <4> TAKE i \in 1 .. Len(replies')
      <4>1. CASE i \in 1 .. Len(replies)
        <5>1. replies'[i] = replies[i] /\ replies[i] \in Blocks
          BY <4>1, <3>1, <1>a
        <5> QED
          BY <4>1, <5>1, <2>1, <1>0
      <4>2. CASE i = Len(replies) + 1
        BY <4>2, <3>1, <2>1, <1>0
      <4> QED
        BY <3>1, <4>1, <4>2
    <3> QED
      BY <2>1, <3>3, <3>4, <3>5
  <2>3. CASE heap' = [heap EXCEPT ![posting] = None] /\ UNCHANGED replies
    <3>1. heap'[posting] = None /\ \A c \in Blocks \ {posting} : heap'[c] = heap[c]
      BY <2>1, <2>3, <1>a
    <3>2. \A i \in 1 .. Len(replies) : replies[i] \in Blocks
      BY <1>a
    <3> QED
      BY <2>1, <2>3, <3>1, <3>2, <1>0
  <2> QED
    BY <1>2, <2>2, <2>3 DEF PostReply
<1>3. CASE ReceiveReply
  <2>1. /\ replies # <<>> /\ replies' = Tail(replies)
        /\ buffer' = [buffer EXCEPT !["Server"] = Head(replies)]
        /\ UNCHANGED <<heap, posting>> /\ buffer["Server"] = None
    BY <1>3 DEF ReceiveReply, Types, Holding, Threads
  <2>2. /\ Len(replies) \in Nat \ {0} /\ Len(replies') = Len(replies) - 1
        /\ \A i \in 1 .. Len(replies') : replies'[i] = replies[i + 1] /\ i + 1 \in 1 .. Len(replies)
        /\ replies[1] = Head(replies) /\ 1 \in 1 .. Len(replies)
    BY <2>1, <1>a
  <2>3. buffer'["Server"] = replies[1] /\ buffer'["User"] = buffer["User"]
    BY <2>1, <2>2, <1>a DEF Threads
  <2>4. \A b \in Blocks : (\E i \in 1 .. Len(replies) : replies[i] = b)
                            <=> \/ replies[1] = b
                                \/ \E i \in 1 .. Len(replies') : replies'[i] = b
    <3> TAKE b \in Blocks
    <3>1. ASSUME NEW i \in 1 .. Len(replies), replies[i] = b, i # 1
          PROVE  \E j \in 1 .. Len(replies') : replies'[j] = b
      <4>1. i - 1 \in 1 .. Len(replies') /\ (i - 1) + 1 = i
        BY <3>1, <2>2
      <4>2. replies'[i - 1] = b
        BY <3>1, <4>1, <2>2
      <4> QED
        BY <4>1, <4>2
    <3> QED
      BY <2>2, <3>1
  <2>5. \A b \in Blocks :
          heap'[b] # None <=> \/ posting' = b
                              \/ \E i \in 1 .. Len(replies') : replies'[i] = b
                              \/ \E t \in Threads : buffer'[t] = b
    BY <2>1, <2>3, <2>4, <1>0 DEF Threads
  <2>6. \A i, j \in 1 .. Len(replies') : replies'[i] = replies'[j] => i = j
    <3> TAKE i, j \in 1 .. Len(replies')
    <3>1. replies[i + 1] = replies[j + 1] => i + 1 = j + 1
      BY <2>2
    <3> QED
      BY <2>2, <3>1
  <2>7. \A i \in 1 .. Len(replies') :
          replies'[i] # posting' /\ \A t \in Threads : replies'[i] # buffer'[t]
    <3> TAKE i \in 1 .. Len(replies')
    <3>1. replies'[i] = replies[i + 1] /\ i + 1 \in 1 .. Len(replies) /\ i + 1 # 1
      BY <2>2
    <3>2. replies[i + 1] # replies[1]
      BY <3>1, <2>2
    <3> QED
      BY <3>1, <3>2, <2>1, <2>3 DEF Threads
  <2>8. posting' # None => \A t \in Threads : posting' # buffer'[t]
    BY <2>1, <2>2, <2>3 DEF Threads
  <2>9. buffer'["Server"] # buffer'["User"]
    BY <2>2, <2>3 DEF Threads
  <2> QED
    BY <2>5, <2>6, <2>7, <2>8, <2>9
<1>4. ASSUME NEW host \in Pinged, Ping(host)
      PROVE  BufferOwned'
  <2>1. PICK b \in Blocks :
          /\ heap[b] = None /\ buffer' = [buffer EXCEPT !["User"] = b]
          /\ heap' = [heap EXCEPT ![b] = Message("EchoRequest", Quench, None, host)]
    BY <1>4 DEF Ping, FreeBlocks
  <2>2. UNCHANGED <<replies, posting>> /\ buffer["User"] = None
    BY <1>4 DEF Ping, Types, Holding, Threads
  <2>3. heap'[b] # None /\ \A c \in Blocks \ {b} : heap'[c] = heap[c]
    <3>1. Message("EchoRequest", Quench, None, host) \in Frames
      BY MessageIsFrame, RequestAssumption
    <3> QED
      BY <2>1, <3>1, <1>0, <1>a
  <2>4. buffer'["User"] = b /\ buffer'["Server"] = buffer["Server"]
    BY <2>1, <1>a DEF Threads
  <2> QED
    BY <2>1, <2>2, <2>3, <2>4, <1>0, <1>a DEF Threads
<1>5. CASE SetEnabled
  BY <1>5, OwnersKept DEF SetEnabled
<1>6. ASSUME NEW t \in Threads, SendFrame(t)
      PROVE  BufferOwned'
  <2>1. CASE IncrementIdent(t) \/ StoreIdent(t) \/ Unresolved(t) \/ SendReturns(t)
    BY <2>1, OwnersKept DEF IncrementIdent, StoreIdent, Unresolved, SendReturns
  <2>2. CASE Seal(t)
    <3>1. buffer[t] \in Blocks /\ heap[buffer[t]] \in Frames /\ tmp[t] \in 0 .. IdentSize - 1
      BY <2>2, InBuffer DEF Seal, Types, TypeOK
    <3>2. Sealed(heap[buffer[t]], tmp[t]) # None /\ heap[buffer[t]] # None
      BY <3>1, <1>0, SealedIsFrame
    <3>3. \A b \in Blocks : heap'[b] = None <=> heap[b] = None
      BY <2>2, <3>1, <3>2, <1>a DEF Seal
    <3> QED
      BY <2>2, <3>3, OwnersKept DEF Seal
  <2>3. CASE Resolved(t)
    <3>1. buffer[t] \in Blocks /\ heap[buffer[t]] \in Frames
      BY <2>3, InBuffer DEF Resolved
    <3>2. answer[t] \in Macs
      BY <2>3 DEF Resolved, Arp!Return, Types, TypesBelow
    <3>3. [heap[buffer[t]] EXCEPT !.mac = answer[t]] # None /\ heap[buffer[t]] # None
      BY <3>1, <3>2, <1>0, AddressedIsFrame
    <3>4. \A b \in Blocks : heap'[b] = None <=> heap[b] = None
      BY <2>3, <3>1, <3>3, <1>a DEF Resolved
    <3> QED
      BY <2>3, <3>4, OwnersKept DEF Resolved
  <2>4. CASE Delete(t)
    <3> DEFINE b == buffer[t]
    <3>1. b \in Blocks /\ buffer' = [buffer EXCEPT ![t] = None]
          /\ heap' = [heap EXCEPT ![b] = None] /\ UNCHANGED <<posting, replies>>
      BY <2>4, InBuffer DEF Delete
    <3>2. heap'[b] = None /\ \A c \in Blocks \ {b} : heap'[c] = heap[c]
      BY <3>1, <1>a
    <3>3. buffer'[t] = None /\ \A u \in Threads \ {t} : buffer'[u] = buffer[u] /\ buffer[u] # b
      BY <3>1, <1>0, <1>a, OtherBuffer
    <3>4. \A i \in 1 .. Len(replies) : replies[i] \in Blocks
      BY <1>a
    <3>5. \A i \in 1 .. Len(replies) : replies[i] # b
      OBVIOUS
    <3>6. posting # b
      BY <3>1, <1>0
    <3> HIDE DEF b
    <3>7. \A c \in Blocks :
            heap'[c] # None <=> \/ posting' = c
                                \/ \E i \in 1 .. Len(replies') : replies'[i] = c
                                \/ \E u \in Threads : buffer'[u] = c
      <4> TAKE c \in Blocks
      <4>1. CASE c = b
        BY <4>1, <3>1, <3>2, <3>3, <3>5, <3>6, <1>0
      <4>2. CASE c # b
        <5>1. (\E u \in Threads : buffer'[u] = c) <=> (\E u \in Threads : buffer[u] = c)
          BY <4>2, <3>3, <1>0 DEF b
        <5> QED
          BY <4>2, <5>1, <3>1, <3>2
      <4> QED
        BY <4>1, <4>2
    <3>8. \A u \in Threads : buffer'[u] \in {buffer[u], None}
      BY <3>3
    <3> QED
      BY <3>1, <3>4, <3>7, <3>8, <1>0 DEF Threads
  <2> QED
    BY <1>6, <2>1, <2>2, <2>3, <2>4 DEF SendFrame
<1>7. ASSUME NEW t \in Threads, Answer(t)
      PROVE  BufferOwned'
  BY <1>7, OwnersKept DEF Answer, OutsideArp
<1>8. ASSUME NEW a \in Hops, NEW m \in Macs, Advertise(a, m)
      PROVE  BufferOwned'
  BY <1>8, OwnersKept DEF Advertise, OutsideArp
<1>9. ASSUME NEW t \in Threads, Accept(t)
      PROVE  BufferOwned'
  BY <1>9, OwnersKept DEF Accept, OutsideEth
<1>10. CASE Transmit
  BY <1>10, OwnersKept DEF Transmit, OutsideEth
<1>11. CASE UNCHANGED vars
  BY <1>11, OwnersKept DEF vars
<1> QED
  BY <1>1, <1>2, <1>3, <1>4, <1>5, <1>6, <1>7, <1>8, <1>9, <1>10, <1>11 DEF Next

-----------------------------------------------------------------------------
(***************************************************************************)
(* What the buffers hold.                                                  *)
(***************************************************************************)
\* A message in a buffer has its ICMP checksum from the beginning ...
Summed ==
  \A b \in Blocks :
    heap[b] # None => heap[b].icmpsum = <<heap[b].type, heap[b].quench>>

\* ... and the rest once the thread that sends it asks for the next hop.
SealedSent == \A t \in Threads : pc[t] \in {"Resolve", "Send"} => WellSealed(heap[buffer[t]])

Contents == FrameStable /\ Summed /\ SealedSent /\ SealedOnWire

\* An action that changes no thread and no line, and buffers of no thread only.
LEMMA ContentsKept ==
  ASSUME Types, BufferOwned, Contents, Summed',
         UNCHANGED <<stage, offered, line>>,
         \A t \in Threads : pc[t] # "Idle" =>
           buffer'[t] = buffer[t] /\ heap'[buffer[t]] = heap[buffer[t]],
         \A t \in Threads : pc'[t] \in {"Resolve", "Send"} => pc'[t] = pc[t]
  PROVE  Contents'
<1>1. FrameStable'
  <2> SUFFICES ASSUME NEW t \in Threads, stage'[t] = "Offered"
               PROVE  buffer'[t] # None /\ heap'[buffer'[t]] = offered'[t]
    BY DEF FrameStable
  <2>1. pc[t] # "Idle" /\ stage[t] = "Offered"
    BY DEF Types, TypeOK
  <2> QED
    BY <2>1 DEF Contents, FrameStable
<1>2. SealedSent'
  BY DEF Contents, SealedSent, WellSealed
<1>3. SealedOnWire'
  BY DEF Contents, SealedOnWire
<1> QED
  BY <1>1, <1>2, <1>3 DEF Contents

\* A thread that writes its own buffer leaves those of the other one alone.
LEMMA OthersKept ==
  ASSUME Types, BufferOwned, NEW t \in Threads, pc[t] # "Idle", NEW f,
         heap' = [heap EXCEPT ![buffer[t]] = f]
  PROVE  /\ heap'[buffer[t]] = f
         /\ \A b \in Blocks \ {buffer[t]} : heap'[b] = heap[b]
         /\ \A u \in Threads \ {t} : pc[u] # "Idle" => heap'[buffer[u]] = heap[buffer[u]]
<1>1. buffer[t] \in Blocks /\ heap \in [Blocks -> Frames \union {None}]
  BY InBuffer DEF Types, TypeOK
<1>2. \A u \in Threads \ {t} : pc[u] # "Idle" => buffer[u] \in Blocks /\ buffer[u] # buffer[t]
  <2> SUFFICES ASSUME NEW u \in Threads \ {t}, pc[u] # "Idle"
               PROVE  buffer[u] \in Blocks /\ buffer[u] # buffer[t]
    OBVIOUS
  <2>1. buffer[u] \in Blocks /\ buffer[u] # None
    BY InBuffer, NoneAssumption
  <2> QED
    BY <2>1, OtherBuffer
<1> QED
  BY <1>1, <1>2

\* Every step keeps what the buffers hold.
LEMMA ContentsStep ==
  ASSUME Types, BufferOwned, Contents, [Next]_vars
  PROVE  Contents'
<1>0. None \notin Frames /\ None \notin Blocks /\ None \notin Threads
  BY FrameAssumption, NoneAssumption
<1>a. /\ heap \in [Blocks -> Frames \union {None}] /\ posting \in Blocks \union {None}
      /\ buffer \in [Threads -> Blocks \union {None}] /\ pc \in [Threads -> Stages]
      /\ line \in Seq(Frames)
  BY DEF Types, TypeOK, TypesBelow
<1>b. \A t \in Threads : pc[t] # "Idle" => buffer[t] \in Blocks /\ heap[buffer[t]] # None
  BY InBuffer, <1>0
<1>1. ASSUME NEW m \in Requests, BuildReply(m)
      PROVE  Contents'
  <2>1. PICK b \in Blocks : heap[b] = None /\ heap' = [heap EXCEPT ![b] = Reply(m)]
    BY <1>1 DEF BuildReply, FreeBlocks
  <2>2. heap'[b] = Reply(m) /\ \A c \in Blocks \ {b} : heap'[c] = heap[c]
    BY <2>1, <1>a
  <2>3. Summed'
    BY <2>2, ReplyIsFrame DEF Summed, Contents
  <2>4. \A t \in Threads : pc[t] # "Idle" => heap'[buffer[t]] = heap[buffer[t]]
    BY <2>1, <2>2, <1>b
  <2> QED
    BY <1>1, <2>3, <2>4, ContentsKept DEF BuildReply, ethVars
<1>2. CASE PostReply
  <2>1. posting \in Blocks /\ \A t \in Threads : buffer[t] # posting
    BY <1>2, <1>a DEF PostReply, BufferOwned
  <2>2. \A b \in Blocks : heap'[b] = heap[b] \/ (b = posting /\ heap'[b] = None)
    BY <1>2, <1>a DEF PostReply
  <2>3. Summed'
    BY <2>2 DEF Summed, Contents
  <2>4. \A t \in Threads : pc[t] # "Idle" => heap'[buffer[t]] = heap[buffer[t]]
    BY <2>1, <2>2, <1>b
  <2> QED
    BY <1>2, <2>3, <2>4, ContentsKept DEF PostReply, ethVars
<1>3. CASE ReceiveReply
  <2>1. Summed'
    BY <1>3 DEF ReceiveReply, Summed, Contents
  <2>2. \A t \in Threads : pc[t] # "Idle" => buffer'[t] = buffer[t]
    BY <1>3, <1>a DEF ReceiveReply
  <2>3. \A t \in Threads : pc'[t] \in {"Resolve", "Send"} => pc'[t] = pc[t]
    BY <1>3, <1>a DEF ReceiveReply
  <2> QED
    BY <1>3, <2>1, <2>2, <2>3, ContentsKept DEF ReceiveReply, ethVars
<1>4. ASSUME NEW host \in Pinged, Ping(host)
      PROVE  Contents'
  <2> DEFINE f == Message("EchoRequest", Quench, None, host)
  <2>1. PICK b \in Blocks : /\ heap[b] = None /\ heap' = [heap EXCEPT ![b] = f]
                            /\ buffer' = [buffer EXCEPT !["User"] = b]
    BY <1>4 DEF Ping, FreeBlocks
  <2>2. heap'[b] = f /\ \A c \in Blocks \ {b} : heap'[c] = heap[c]
    BY <2>1, <1>a
  <2>3. f.icmpsum = <<f.type, f.quench>>
    BY MessageIsFrame, RequestAssumption
  <2> HIDE DEF f
  <2>4. Summed'
    BY <2>2, <2>3 DEF Summed, Contents
  <2>5. \A t \in Threads : pc[t] # "Idle" =>
          buffer'[t] = buffer[t] /\ heap'[buffer[t]] = heap[buffer[t]]
    BY <1>4, <2>1, <2>2, <1>a, <1>b DEF Ping
  <2>6. \A t \in Threads : pc'[t] \in {"Resolve", "Send"} => pc'[t] = pc[t]
    BY <1>4, <1>a DEF Ping
  <2> QED
    BY <1>4, <2>4, <2>5, <2>6, ContentsKept DEF Ping, ethVars
<1>5. CASE SetEnabled
  BY <1>5, ContentsKept DEF SetEnabled, ethVars, Summed, Contents
<1>6. ASSUME NEW t \in Threads, SendFrame(t)
      PROVE  Contents'
  <2>1. CASE IncrementIdent(t) \/ StoreIdent(t) \/ Unresolved(t)
    <3>1. Summed'
      BY <2>1 DEF IncrementIdent, StoreIdent, Unresolved, Summed, Contents
    <3>2. \A u \in Threads : pc'[u] \in {"Resolve", "Send"} => pc'[u] = pc[u]
      BY <2>1, <1>a DEF IncrementIdent, StoreIdent, Unresolved
    <3> QED
      BY <2>1, <3>1, <3>2, ContentsKept DEF IncrementIdent, StoreIdent, Unresolved, ethVars
  <2>2. CASE Seal(t)
    <3> DEFINE f == Sealed(heap[buffer[t]], tmp[t])
    <3>1. /\ pc[t] = "Seal" /\ pc' = [pc EXCEPT ![t] = "Resolve"]
          /\ UNCHANGED <<buffer, stage, offered, line>>
          /\ heap' = [heap EXCEPT ![buffer[t]] = f]
      BY <2>2 DEF Seal, ethVars
    <3>2. /\ heap'[buffer[t]] = f
          /\ \A b \in Blocks \ {buffer[t]} : heap'[b] = heap[b]
          /\ \A u \in Threads \ {t} : pc[u] # "Idle" => heap'[buffer[u]] = heap[buffer[u]]
      BY <3>1, OthersKept
    <3>3. WellSealed(f)
      <4>1. heap[buffer[t]] \in Frames /\ tmp[t] \in 0 .. IdentSize - 1 /\ buffer[t] \in Blocks
        BY <3>1, InBuffer DEF Types, TypeOK
      <4>2. heap[buffer[t]].icmpsum = <<heap[buffer[t]].type, heap[buffer[t]].quench>>
        BY <4>1, <1>0 DEF Contents, Summed
      <4> QED
        BY <4>1, <4>2, SealedIsFrame
    <3> HIDE DEF f
    <3>4. Summed'
      BY <3>2, <3>3 DEF Contents, Summed, WellSealed
    <3>5. SealedSent'
      BY <3>1, <3>2, <3>3, <1>a DEF Contents, SealedSent, WellSealed
    <3>6. FrameStable'
      <4> SUFFICES ASSUME NEW u \in Threads, stage[u] = "Offered"
                   PROVE  buffer[u] # None /\ heap'[buffer[u]] = offered[u]
        BY <3>1 DEF FrameStable
      <4>1. u # t /\ pc[u] = "Send"
        BY <3>1 DEF Types, TypeOK
      <4> QED
        BY <4>1, <3>2 DEF Contents, FrameStable
    <3> QED
      BY <3>1, <3>4, <3>5, <3>6 DEF Contents, SealedOnWire
  <2>3. CASE Resolved(t)
    <3> DEFINE f == [heap[buffer[t]] EXCEPT !.mac = answer[t]]
    <3>1. /\ pc[t] = "Resolve" /\ pc' = [pc EXCEPT ![t] = "Send"]
          /\ UNCHANGED <<buffer, line>>
          /\ heap' = [heap EXCEPT ![buffer[t]] = f]
          /\ stage' = [stage EXCEPT ![t] = "Offered"]
          /\ offered' = [offered EXCEPT ![t] = heap'[buffer[t]]]
      BY <2>3 DEF Resolved, Eth!Offer
    <3>2. /\ heap'[buffer[t]] = f
          /\ \A b \in Blocks \ {buffer[t]} : heap'[b] = heap[b]
          /\ \A u \in Threads \ {t} : pc[u] # "Idle" => heap'[buffer[u]] = heap[buffer[u]]
      BY <3>1, OthersKept
    <3>3. WellSealed(f)
      <4>1. heap[buffer[t]] \in Frames /\ answer[t] \in Macs
        BY <2>3, <3>1, InBuffer DEF Resolved, Arp!Return, Types, TypesBelow
      <4>2. WellSealed(heap[buffer[t]])
        BY <3>1 DEF Contents, SealedSent
      <4> QED
        BY <4>1, <4>2, AddressedIsFrame
    <3>4. buffer[t] # None
      BY <3>1, InBuffer, <1>0
    <3> HIDE DEF f
    <3>5. Summed'
      BY <3>2, <3>3 DEF Contents, Summed, WellSealed
    <3>6. SealedSent'
      BY <3>1, <3>2, <3>3, <1>a DEF Contents, SealedSent, WellSealed
    <3>7. FrameStable'
      <4> SUFFICES ASSUME NEW u \in Threads, stage'[u] = "Offered"
                   PROVE  buffer[u] # None /\ heap'[buffer[u]] = offered'[u]
        BY <3>1 DEF FrameStable
      <4>1. CASE u = t
        BY <4>1, <3>1, <3>2, <3>4 DEF Types, TypesBelow
      <4>2. CASE u # t
        <5>1. stage[u] = "Offered" /\ offered'[u] = offered[u]
          BY <4>2, <3>1 DEF Types, TypesBelow
        <5>2. pc[u] = "Send"
          BY <5>1 DEF Types, TypeOK
        <5> QED
          BY <4>2, <5>1, <5>2, <3>2 DEF Contents, FrameStable
      <4> QED
        BY <4>1, <4>2
    <3> QED
      BY <3>1, <3>5, <3>6, <3>7 DEF Contents, SealedOnWire
  <2>4. CASE SendReturns(t)
    <3>1. /\ pc' = [pc EXCEPT ![t] = "Delete"] /\ UNCHANGED <<heap, buffer, line>>
          /\ stage' = [stage EXCEPT ![t] = "Idle"]
          /\ offered' = [offered EXCEPT ![t] = None]
      BY <2>4 DEF SendReturns, Eth!Return
    <3>2. FrameStable'
      BY <3>1 DEF Contents, FrameStable, Types, TypesBelow
    <3>3. SealedSent'
      BY <3>1, <1>a DEF Contents, SealedSent, WellSealed
    <3> QED
      BY <3>1, <3>2, <3>3 DEF Contents, Summed, SealedOnWire
  <2>5. CASE Delete(t)
    <3>1. /\ pc[t] = "Delete" /\ pc' = [pc EXCEPT ![t] = "Idle"]
          /\ heap' = [heap EXCEPT ![buffer[t]] = None]
          /\ buffer' = [buffer EXCEPT ![t] = None]
          /\ UNCHANGED <<stage, offered, line>>
      BY <2>5 DEF Delete, ethVars
    <3>2. /\ heap'[buffer[t]] = None
          /\ \A b \in Blocks \ {buffer[t]} : heap'[b] = heap[b]
          /\ \A u \in Threads \ {t} : pc[u] # "Idle" => heap'[buffer[u]] = heap[buffer[u]]
      BY <3>1, OthersKept
    <3>3. \A u \in Threads \ {t} : buffer'[u] = buffer[u] /\ pc'[u] = pc[u]
      BY <3>1, <1>a
    <3>4. Summed'
      BY <3>2 DEF Contents, Summed
    <3>5. SealedSent'
      BY <3>1, <3>2, <3>3, <1>a DEF Contents, SealedSent, WellSealed
    <3>6. FrameStable'
      <4> SUFFICES ASSUME NEW u \in Threads, stage[u] = "Offered"
                   PROVE  buffer'[u] # None /\ heap'[buffer'[u]] = offered[u]
        BY <3>1 DEF FrameStable
      <4>1. u # t /\ pc[u] = "Send"
        BY <3>1 DEF Types, TypeOK
      <4> QED
        BY <4>1, <3>2, <3>3 DEF Contents, FrameStable
    <3> QED
      BY <3>1, <3>4, <3>5, <3>6 DEF Contents, SealedOnWire
  <2> QED
    BY <1>6, <2>1, <2>2, <2>3, <2>4, <2>5 DEF SendFrame
<1>7. ASSUME NEW t \in Threads, Answer(t)
      PROVE  Contents'
  BY <1>7, ContentsKept DEF Answer, OutsideArp, ethVars, Summed, Contents
<1>8. ASSUME NEW a \in Hops, NEW m \in Macs, Advertise(a, m)
      PROVE  Contents'
  BY <1>8, ContentsKept DEF Advertise, OutsideArp, ethVars, Summed, Contents
<1>9. ASSUME NEW t \in Threads, Accept(t)
      PROVE  Contents'
  <2>1. /\ stage[t] = "Offered" /\ stage' = [stage EXCEPT ![t] = "Accepted"]
        /\ line' = Append(line, offered[t]) /\ UNCHANGED <<offered, heap, buffer, pc>>
    BY <1>9 DEF Accept, Eth!Accept, OutsideEth
  <2>2. WellSealed(offered[t]) /\ offered[t] \in Frames
    <3>1. pc[t] = "Send"
      BY <2>1 DEF Types, TypeOK
    <3> QED
      BY <2>1, <3>1 DEF Contents, SealedSent, FrameStable, Types, TypesBelow
  <2>3. SealedOnWire'
    <3>1. /\ Len(line') = Len(line) + 1 /\ Len(line) \in Nat
          /\ \A i \in 1 .. Len(line) : line'[i] = line[i]
          /\ line'[Len(line) + 1] = offered[t]
      BY <2>1, <2>2, <1>a
    <3> SUFFICES ASSUME NEW i \in 1 .. Len(line')
                 PROVE  WellSealed(line'[i])
      BY DEF SealedOnWire, WellSealed
    <3>2. CASE i \in 1 .. Len(line)
      BY <3>1, <3>2 DEF Contents, SealedOnWire, WellSealed
    <3>3. CASE i = Len(line) + 1
      BY <3>1, <3>3, <2>2
    <3> QED
      BY <3>1, <3>2, <3>3
  <2>4. FrameStable'
    BY <2>1 DEF Contents, FrameStable, Types, TypesBelow
  <2> QED
    BY <2>1, <2>3, <2>4 DEF Contents, Summed, SealedSent, WellSealed
<1>10. CASE Transmit
  <2>1. line # <<>> /\ line' = Tail(line) /\ UNCHANGED <<stage, offered, heap, buffer, pc>>
    BY <1>10 DEF Transmit, Eth!Transmit, OutsideEth
  <2>2. SealedOnWire'
    <3>1. \A i \in 1 .. Len(line') : i + 1 \in 1 .. Len(line) /\ line'[i] = line[i + 1]
      BY <2>1, <1>a
    <3> QED
      BY <3>1 DEF Contents, SealedOnWire
  <2> QED
    BY <2>1, <2>2 DEF Contents, Summed, SealedSent, FrameStable, WellSealed
<1>11. CASE UNCHANGED vars
  BY <1>11 DEF vars, ethVars, Contents, Summed, SealedSent, FrameStable, SealedOnWire, WellSealed
<1> QED
  BY <1>1, <1>2, <1>3, <1>4, <1>5, <1>6, <1>7, <1>8, <1>9, <1>10, <1>11 DEF Next

-----------------------------------------------------------------------------
(***************************************************************************)
(* Identifications.  The one a thread has drawn last, moved on by as many  *)
(* as were drawn since, is the counter, in 8 bits.                         *)
(***************************************************************************)
\* x counted on a times, in 8 bits.
Shift(x, a) == IF x + a < IdentCut THEN x + a ELSE x + a - IdentCut

\* The 8 bits a thread puts, or has put, into its frame.
Ident(t) == IF pc[t] = "Seal" THEN tmp[t] % IdentCut ELSE heap[buffer[t]].ident

Numbered ==
  /\ \A t \in Threads : pc[t] = "Store" <=> mutex = t
  /\ \A t \in Threads : pc[t] = "Store" => tmp[t] = (identity + 1) % IdentSize
  /\ \A t \in Threads : pc[t] \in {"Idle", "Ident", "Store"} => age[t] = IdentCut
  /\ \A t \in Threads :
       age[t] < IdentCut /\ pc[t] \in {"Seal", "Resolve", "Send"} =>
         /\ Ident(t) \in 0 .. IdentCut - 1
         /\ Shift(Ident(t), age[t]) = identity % IdentCut
  /\ \A t, u \in Threads : age[t] < IdentCut /\ age[t] = age[u] => t = u

\* Counted on a different number of times, different numbers do not become equal
\* ones: equal results come from different numbers.
LEMMA ShiftApart ==
  ASSUME NEW x \in 0 .. IdentCut - 1, NEW a \in 0 .. IdentCut - 1,
         NEW b \in 0 .. IdentCut - 1, Shift(x, a) = Shift(x, b)
  PROVE  a = b
BY SizeAssumption DEF Shift

\* Counting on once more.
LEMMA ShiftNext ==
  ASSUME NEW x \in 0 .. IdentCut - 1, NEW a \in 0 .. IdentCut - 1, a + 1 < IdentCut,
         NEW i \in 0 .. IdentSize - 1, Shift(x, a) = i % IdentCut
  PROVE  Shift(x, a + 1) = ((i + 1) % IdentSize) % IdentCut
<1>0. IdentCut \in Nat \ {0} /\ IdentSize \in Nat \ {0} /\ IdentSize % IdentCut = 0
  BY SizeAssumption
<1> DEFINE y == i % IdentCut
           z == ((i + 1) % IdentSize) % IdentCut
<1>1. (y + 1 = IdentCut => z = 0) /\ (y + 1 # IdentCut => z = y + 1)
  BY <1>0, NestedSuccessor, Zenon
<1> HIDE DEF y, z
<1>2. Shift(x, a) = y
  BY DEF y
<1>3. Shift(x, a + 1) = z
  BY <1>0, <1>1, <1>2 DEF Shift
<1> QED
  BY <1>3 DEF z

\* What draws no identification and writes none.
LEMMA NumberedKept ==
  ASSUME Numbered, Types, UNCHANGED <<identity, mutex>>,
         \A t \in Threads : /\ pc'[t] = "Store" <=> pc[t] = "Store"
                            /\ pc[t] = "Store" => tmp'[t] = tmp[t]
                            /\ age'[t] = age[t] \/ age'[t] = IdentCut,
         \A t \in Threads : pc'[t] \in {"Idle", "Ident", "Store"} => age'[t] = IdentCut,
         \A t \in Threads : pc'[t] \in {"Seal", "Resolve", "Send"} =>
           pc[t] \in {"Seal", "Resolve", "Send"} /\ Ident(t)' = Ident(t)
  PROVE  Numbered'
<1>1. \A t \in Threads :
        /\ pc'[t] = "Store" <=> mutex' = t
        /\ pc'[t] = "Store" => tmp'[t] = (identity' + 1) % IdentSize
  BY DEF Numbered
<1>2. \A t \in Threads : age'[t] < IdentCut => age'[t] = age[t]
  BY SizeAssumption
<1>3. \A t \in Threads :
        age'[t] < IdentCut /\ pc'[t] \in {"Seal", "Resolve", "Send"} =>
          /\ Ident(t)' \in 0 .. IdentCut - 1
          /\ Shift(Ident(t)', age'[t]) = identity' % IdentCut
  BY <1>2 DEF Numbered
<1>4. \A t, u \in Threads : age'[t] < IdentCut /\ age'[t] = age'[u] => t = u
  BY <1>2 DEF Numbered
<1> QED
  BY <1>1, <1>3, <1>4 DEF Numbered, Shift

\* Every step keeps the numbers.
LEMMA NumberedStep ==
  ASSUME Types, BufferOwned, Numbered, [Next]_vars
  PROVE  Numbered'
<1>0. None \notin Frames /\ None \notin Blocks /\ None \notin Threads
  BY FrameAssumption, NoneAssumption
<1>a. /\ heap \in [Blocks -> Frames \union {None}] /\ posting \in Blocks \union {None}
      /\ buffer \in [Threads -> Blocks \union {None}] /\ pc \in [Threads -> Stages]
      /\ identity \in 0 .. IdentSize - 1
      /\ tmp \in [Threads -> 0 .. IdentSize - 1] /\ age \in [Threads -> 0 .. IdentCut]
  BY DEF Types, TypeOK
<1>b. \A t \in Threads : pc[t] # "Idle" => buffer[t] \in Blocks /\ heap[buffer[t]] # None
  BY InBuffer, <1>0
<1>c. IdentCut \in Nat \ {0} /\ IdentSize \in Nat \ {0}
  BY SizeAssumption
\* What touches neither the threads' numbers nor their frames.
<1>k. ASSUME UNCHANGED identVars,
             \A t \in Threads : pc[t] # "Idle" =>
               /\ pc'[t] = pc[t] /\ buffer'[t] = buffer[t]
               /\ heap'[buffer[t]] = heap[buffer[t]],
             \A t \in Threads : pc[t] = "Idle" => pc'[t] \in {"Idle", "Ident"}
      PROVE  Numbered'
  <2>1. \A t \in Threads : pc'[t] \in {"Seal", "Resolve", "Send"} =>
          pc[t] \in {"Seal", "Resolve", "Send"} /\ Ident(t)' = Ident(t)
    BY <1>k DEF Ident, identVars
  <2>2. \A t \in Threads : pc'[t] \in {"Idle", "Ident", "Store"} => age'[t] = IdentCut
    BY <1>k DEF Numbered, identVars
  <2> QED
    BY <1>k, <2>1, <2>2, NumberedKept DEF identVars
<1>1. ASSUME NEW m \in Requests, BuildReply(m)
      PROVE  Numbered'
  <2>1. PICK b \in Blocks : heap[b] = None /\ heap' = [heap EXCEPT ![b] = Reply(m)]
    BY <1>1 DEF BuildReply, FreeBlocks
  <2>2. \A t \in Threads : pc[t] # "Idle" => heap'[buffer[t]] = heap[buffer[t]]
    BY <2>1, <1>a, <1>b
  <2> QED
    BY <1>1, <2>2, <1>k DEF BuildReply
<1>2. CASE PostReply
  <2>1. posting \in Blocks /\ \A t \in Threads : buffer[t] # posting
    BY <1>2, <1>a DEF PostReply, BufferOwned
  <2>2. \A t \in Threads : pc[t] # "Idle" => heap'[buffer[t]] = heap[buffer[t]]
    BY <1>2, <2>1, <1>a, <1>b DEF PostReply
  <2> QED
    BY <1>2, <2>2, <1>k DEF PostReply
<1>3. CASE ReceiveReply
  BY <1>3, <1>a, <1>k DEF ReceiveReply
<1>4. ASSUME NEW host \in Pinged, Ping(host)
      PROVE  Numbered'
  <2>1. PICK b \in Blocks :
          /\ heap[b] = None /\ buffer' = [buffer EXCEPT !["User"] = b]
          /\ heap' = [heap EXCEPT ![b] = Message("EchoRequest", Quench, None, host)]
    BY <1>4 DEF Ping, FreeBlocks
  <2>2. \A t \in Threads : pc[t] # "Idle" =>
          buffer'[t] = buffer[t] /\ heap'[buffer[t]] = heap[buffer[t]]
    BY <1>4, <2>1, <1>a, <1>b DEF Ping
  <2>3. \A t \in Threads : IF pc[t] = "Idle" THEN pc'[t] \in {"Idle", "Ident"}
                                             ELSE pc'[t] = pc[t]
    BY <1>4, <1>a DEF Ping
  <2> QED
    BY <1>4, <2>2, <2>3, <1>k DEF Ping
<1>5. CASE SetEnabled
  BY <1>5, <1>k DEF SetEnabled
<1>6. ASSUME NEW t \in Threads, IncrementIdent(t)
      PROVE  Numbered'
  <2>1. /\ pc[t] = "Ident" /\ mutex = None /\ mutex' = t
        /\ tmp' = [tmp EXCEPT ![t] = (identity + 1) % IdentSize]
        /\ pc' = [pc EXCEPT ![t] = "Store"]
        /\ UNCHANGED <<heap, buffer, identity, age>>
    BY <1>6 DEF IncrementIdent
  <2>2. /\ pc'[t] = "Store" /\ tmp'[t] = (identity + 1) % IdentSize
        /\ \A u \in Threads \ {t} : pc'[u] = pc[u] /\ tmp'[u] = tmp[u]
    BY <2>1, <1>a
  <2>3. \A u \in Threads : pc[u] # "Store"
    BY <2>1, <1>0 DEF Numbered
  <2>4. \A u \in Threads \ {t} : Ident(u)' = Ident(u)
    BY <2>1, <2>2 DEF Ident
  <2>5. \A u \in Threads :
          age'[u] < IdentCut /\ pc'[u] \in {"Seal", "Resolve", "Send"} =>
            /\ Ident(u)' \in 0 .. IdentCut - 1
            /\ Shift(Ident(u)', age'[u]) = identity' % IdentCut
    BY <2>1, <2>2, <2>4 DEF Numbered
  <2>6. \A u \in Threads : pc'[u] \in {"Idle", "Ident", "Store"} => age'[u] = IdentCut
    BY <2>1, <2>2 DEF Numbered
  <2>7. \A u \in Threads : /\ pc'[u] = "Store" <=> mutex' = u
                           /\ pc'[u] = "Store" => tmp'[u] = (identity' + 1) % IdentSize
    BY <2>1, <2>2, <2>3
  <2> QED
    BY <2>1, <2>5, <2>6, <2>7 DEF Numbered, Shift
<1>7. ASSUME NEW t \in Threads, StoreIdent(t)
      PROVE  Numbered'
  <2>1. /\ pc[t] = "Store" /\ identity' = tmp[t] /\ mutex' = None
        /\ age' = [u \in Threads |-> IF u = t THEN 0
                                     ELSE IF age[u] < IdentCut THEN age[u] + 1 ELSE IdentCut]
        /\ pc' = [pc EXCEPT ![t] = "Seal"]
        /\ UNCHANGED <<heap, buffer, tmp>>
    BY <1>7 DEF StoreIdent
  <2>2. /\ age'[t] = 0 /\ pc'[t] = "Seal"
        /\ \A u \in Threads \ {t} :
             /\ age'[u] = IF age[u] < IdentCut THEN age[u] + 1 ELSE IdentCut
             /\ pc'[u] = pc[u]
    <3>1. age'[t] = 0
      BY <2>1
    <3>2. ASSUME NEW u \in Threads \ {t}
          PROVE  age'[u] = IF age[u] < IdentCut THEN age[u] + 1 ELSE IdentCut
      BY <2>1
    <3>3. pc'[t] = "Seal" /\ \A u \in Threads \ {t} : pc'[u] = pc[u]
      BY <2>1, <1>a
    <3> QED
      BY <3>1, <3>2, <3>3
  <2>3. \A u \in Threads : u # t => pc[u] # "Store"
    BY <2>1 DEF Numbered
  <2>4. tmp[t] = (identity + 1) % IdentSize
    BY <2>1 DEF Numbered
  <2>5. \A u \in Threads \ {t} : Ident(u)' = Ident(u)
    BY <2>1, <2>2 DEF Ident
  <2>6. ASSUME NEW u \in Threads, age'[u] < IdentCut,
               pc'[u] \in {"Seal", "Resolve", "Send"}
        PROVE  /\ Ident(u)' \in 0 .. IdentCut - 1
               /\ Shift(Ident(u)', age'[u]) = identity' % IdentCut
    <3>1. CASE u = t
      <4> DEFINE x == tmp[t] % IdentCut
      <4>1. x \in 0 .. IdentCut - 1
        BY <1>a, <1>c
      <4>2. Ident(u)' = x /\ identity' % IdentCut = x /\ age'[u] = 0
        BY <3>1, <2>1, <2>2 DEF Ident
      <4> HIDE DEF x
      <4> QED
        BY <4>1, <4>2, <1>c DEF Shift
    <3>2. CASE u # t
      <4>1. age[u] \in 0 .. IdentCut - 1 /\ age'[u] = age[u] + 1 /\ age[u] + 1 < IdentCut
        <5>1. age'[u] = IF age[u] < IdentCut THEN age[u] + 1 ELSE IdentCut
          BY <3>2, <2>2
        <5>2. age[u] \in 0 .. IdentCut
          BY <1>a
        <5> QED
          BY <5>1, <5>2, <2>6, <1>c
      <4>2. /\ Ident(u) \in 0 .. IdentCut - 1
            /\ Shift(Ident(u), age[u]) = identity % IdentCut
        <5>1. pc[u] \in {"Seal", "Resolve", "Send"} /\ age[u] < IdentCut
          BY <3>2, <4>1, <2>2, <2>6, <1>c
        <5> QED
          BY <5>1 DEF Numbered
      <4>3. Shift(Ident(u), age[u] + 1) = ((identity + 1) % IdentSize) % IdentCut
        <5>1. identity \in 0 .. IdentSize - 1
          BY <1>a
        <5> QED
          BY <4>1, <4>2, <5>1, ShiftNext, Zenon
      <4>4. identity' % IdentCut = ((identity + 1) % IdentSize) % IdentCut
        BY <2>1, <2>4
      <4>5. Ident(u)' = Ident(u)
        BY <3>2, <2>5
      <4> QED
        BY <4>1, <4>2, <4>3, <4>4, <4>5
    <3> QED
      BY <3>1, <3>2
  <2>7. \A u, v \in Threads : age'[u] < IdentCut /\ age'[u] = age'[v] => u = v
    <3> SUFFICES ASSUME NEW u \in Threads, NEW v \in Threads,
                        age'[u] < IdentCut, age'[u] = age'[v]
                 PROVE  u = v
      OBVIOUS
    <3>1. \A w \in Threads \ {t} : age'[w] # 0
      BY <2>2, <1>a, <1>c
    <3>2. CASE u # t /\ v # t
      <4>1. age[u] < IdentCut /\ age[u] = age[v]
        BY <3>2, <2>2, <1>a, <1>c
      <4> QED
        BY <4>1 DEF Numbered
    <3>3. age'[t] = 0
      BY <2>2
    <3>4. u = t <=> v = t
      BY <3>1, <3>3
    <3> QED
      BY <3>2, <3>4
  <2>8. \A u \in Threads : pc'[u] \in {"Idle", "Ident", "Store"} => age'[u] = IdentCut
    BY <2>2, <1>c DEF Numbered
  <2>9. \A u \in Threads : pc'[u] # "Store" /\ mutex' # u
    BY <2>1, <2>2, <2>3, <1>0
  <2> QED
    BY <2>6, <2>7, <2>8, <2>9 DEF Numbered, Shift
<1>8. ASSUME NEW t \in Threads, Seal(t)
      PROVE  Numbered'
  <2> DEFINE f == Sealed(heap[buffer[t]], tmp[t])
  <2>1. /\ pc[t] = "Seal" /\ pc' = [pc EXCEPT ![t] = "Resolve"]
        /\ tmp' = [tmp EXCEPT ![t] = 0]
        /\ UNCHANGED <<buffer, identity, mutex, age>>
        /\ heap' = [heap EXCEPT ![buffer[t]] = f]
    BY <1>8 DEF Seal
  <2>2. /\ heap'[buffer[t]] = f
        /\ \A u \in Threads \ {t} : pc[u] # "Idle" => heap'[buffer[u]] = heap[buffer[u]]
    BY <2>1, OthersKept
  <2>3. f.ident = tmp[t] % IdentCut
    <3>1. heap[buffer[t]] \in Frames
      BY <2>1, InBuffer
    <3> QED
      BY <3>1 DEF Sealed, Frames
  <2> HIDE DEF f
  <2>4. /\ pc'[t] = "Resolve" /\ buffer'[t] = buffer[t]
        /\ \A u \in Threads \ {t} : pc'[u] = pc[u] /\ tmp'[u] = tmp[u] /\ buffer'[u] = buffer[u]
    BY <2>1, <1>a
  <2>5. Ident(t)' = Ident(t)
    BY <2>1, <2>2, <2>3, <2>4 DEF Ident
  <2>6. \A u \in Threads \ {t} : pc[u] # "Idle" => Ident(u)' = Ident(u)
    BY <2>2, <2>4 DEF Ident
  <2>7. \A u \in Threads : pc'[u] \in {"Idle", "Ident", "Store"} => age'[u] = IdentCut
    BY <2>1, <2>4 DEF Numbered
  <2> QED
    BY <2>1, <2>4, <2>5, <2>6, <2>7, NumberedKept
<1>9. ASSUME NEW t \in Threads, Resolved(t)
      PROVE  Numbered'
  <2> DEFINE f == [heap[buffer[t]] EXCEPT !.mac = answer[t]]
  <2>1. /\ pc[t] = "Resolve" /\ pc' = [pc EXCEPT ![t] = "Send"]
        /\ UNCHANGED <<buffer, identity, mutex, tmp, age>>
        /\ heap' = [heap EXCEPT ![buffer[t]] = f]
    BY <1>9 DEF Resolved, identVars
  <2>2. /\ heap'[buffer[t]] = f
        /\ \A u \in Threads \ {t} : pc[u] # "Idle" => heap'[buffer[u]] = heap[buffer[u]]
    BY <2>1, OthersKept
  <2>3. f.ident = heap[buffer[t]].ident
    <3>1. heap[buffer[t]] \in Frames
      BY <2>1, InBuffer
    <3> QED
      BY <3>1 DEF Frames
  <2> HIDE DEF f
  <2>4. pc'[t] = "Send" /\ \A u \in Threads \ {t} : pc'[u] = pc[u]
    BY <2>1, <1>a
  <2>5. Ident(t)' = Ident(t)
    BY <2>1, <2>2, <2>3, <2>4 DEF Ident
  <2>6. \A u \in Threads \ {t} : pc[u] # "Idle" => Ident(u)' = Ident(u)
    BY <2>1, <2>2, <2>4 DEF Ident
  <2>7. \A u \in Threads : pc'[u] \in {"Idle", "Ident", "Store"} => age'[u] = IdentCut
    BY <2>1, <2>4 DEF Numbered
  <2> QED
    BY <2>1, <2>4, <2>5, <2>6, <2>7, NumberedKept
<1>10. ASSUME NEW t \in Threads, Unresolved(t) \/ SendReturns(t)
       PROVE  Numbered'
  <2>1. /\ pc[t] \in {"Resolve", "Send"} /\ pc' = [pc EXCEPT ![t] = "Delete"]
        /\ UNCHANGED <<heap, buffer, identity, mutex, tmp, age>>
    BY <1>10 DEF Unresolved, SendReturns, identVars
  <2>2. pc'[t] = "Delete" /\ \A u \in Threads \ {t} : pc'[u] = pc[u]
    BY <2>1, <1>a
  <2>3. \A u \in Threads \ {t} : Ident(u)' = Ident(u)
    BY <2>1, <2>2 DEF Ident
  <2>4. \A u \in Threads : pc'[u] \in {"Idle", "Ident", "Store"} => age'[u] = IdentCut
    BY <2>1, <2>2 DEF Numbered
  <2> QED
    BY <2>1, <2>2, <2>3, <2>4, NumberedKept
<1>11. ASSUME NEW t \in Threads, Delete(t)
       PROVE  Numbered'
  <2>1. /\ pc[t] = "Delete" /\ pc' = [pc EXCEPT ![t] = "Idle"]
        /\ heap' = [heap EXCEPT ![buffer[t]] = None]
        /\ buffer' = [buffer EXCEPT ![t] = None]
        /\ age' = [age EXCEPT ![t] = IdentCut]
        /\ UNCHANGED <<identity, mutex, tmp>>
    BY <1>11 DEF Delete
  <2>2. \A u \in Threads \ {t} : pc[u] # "Idle" => heap'[buffer[u]] = heap[buffer[u]]
    BY <2>1, OthersKept
  <2>3. /\ pc'[t] = "Idle" /\ age'[t] = IdentCut
        /\ \A u \in Threads \ {t} : pc'[u] = pc[u] /\ age'[u] = age[u] /\ buffer'[u] = buffer[u]
    BY <2>1, <1>a
  <2>4. \A u \in Threads \ {t} : pc[u] # "Idle" => Ident(u)' = Ident(u)
    BY <2>1, <2>2, <2>3 DEF Ident
  <2>5. \A u \in Threads : pc'[u] \in {"Idle", "Ident", "Store"} => age'[u] = IdentCut
    BY <2>1, <2>3 DEF Numbered
  <2> QED
    BY <2>1, <2>3, <2>4, <2>5, NumberedKept
<1>12. ASSUME NEW t \in Threads, Answer(t) \/ Accept(t)
       PROVE  Numbered'
  BY <1>12, <1>k DEF Answer, OutsideArp, Accept, OutsideEth
<1>13. ASSUME NEW a \in Hops, NEW m \in Macs, Advertise(a, m)
       PROVE  Numbered'
  BY <1>13, <1>k DEF Advertise, OutsideArp
<1>14. CASE Transmit
  BY <1>14, <1>k DEF Transmit, OutsideEth
<1>15. CASE UNCHANGED vars
  BY <1>15, <1>k DEF vars
<1> QED
  BY <1>1, <1>2, <1>3, <1>4, <1>5, <1>6, <1>7, <1>8, <1>9, <1>10, <1>11, <1>12, <1>13,
     <1>14, <1>15
  DEF Next, SendFrame

-----------------------------------------------------------------------------
(***************************************************************************)
(* The invariant and its consequences.                                     *)
(***************************************************************************)
IInv == Types /\ BufferOwned /\ Contents /\ Numbered

\* The heap is empty to begin with.
LEMMA ContentsInit == Init => BufferOwned /\ Contents
  BY NoneAssumption DEF Init, Arp!Init, Eth!Init, BufferOwned, Contents, FrameStable, Summed,
     SealedSent, SealedOnWire, Threads

\* No identification is drawn to begin with.
LEMMA NumberedInit == Init => Numbered
  BY NoneAssumption, SizeAssumption DEF Init, Numbered

\* The invariant holds in every state.
LEMMA Invariance == Spec => []IInv
<1>1. Init => IInv
  BY TypeInit, ContentsInit, NumberedInit DEF IInv
<1>2. IInv /\ [Next]_vars => IInv'
  BY TypesStep, OwnersStep, ContentsStep, NumberedStep DEF IInv
<1> QED
  BY <1>1, <1>2, PTL DEF Spec

\* Every variable keeps its type, and a thread is inside request() and inside
\* Ethernet sendFrame() exactly where IPv4_Handler::sendFrame calls them.
THEOREM TypeCorrect == Spec => []TypeOK
<1>1. IInv => TypeOK
  BY DEF IInv, Types
<1> QED
  BY <1>1, Invariance, PTL

\* No reply buffer is lost, freed twice or freed while another still uses it,
\* whatever the mailbox, the menu, ARP and Ethernet do.
THEOREM BuffersOwned == Spec => []BufferOwned
<1>1. IInv => BufferOwned
  BY DEF IInv
<1> QED
  BY <1>1, Invariance, PTL

\* The sender thread copies the frame that was handed to sendFrame().
THEOREM FramesStable == Spec => []FrameStable
<1>1. IInv => FrameStable
  BY DEF IInv, Contents
<1> QED
  BY <1>1, Invariance, PTL

\* What leaves the board has checksums that cover what it says, and its name.
THEOREM SealedOut == Spec => []SealedOnWire
<1>1. IInv => SealedOnWire
  BY DEF IInv, Contents
<1> QED
  BY <1>1, Invariance, PTL

\* Two frames on their way at the same time are told apart by their
\* identifications, for any sizes of the counter and of the field it is cut to.
THEOREM IdentsApart == Spec => []IdentsDistinct
<1>1. IInv => IdentsDistinct
  <2> SUFFICES ASSUME IInv, NEW t \in Threads, NEW u \in Threads, t # u,
                      {pc[t], pc[u]} \subseteq {"Resolve", "Send"},
                      age[t] < IdentCut, age[u] < IdentCut,
                      heap[buffer[t]].ident = heap[buffer[u]].ident
               PROVE  FALSE
    BY DEF IdentsDistinct
  <2>1. Ident(t) = heap[buffer[t]].ident /\ Ident(u) = heap[buffer[u]].ident
    BY DEF Ident
  <2>2. /\ Ident(t) \in 0 .. IdentCut - 1 /\ Ident(u) = Ident(t)
        /\ Shift(Ident(t), age[t]) = Shift(Ident(t), age[u])
    BY <2>1 DEF IInv, Numbered
  <2>3. age[t] \in 0 .. IdentCut - 1 /\ age[u] \in 0 .. IdentCut - 1
    BY SizeAssumption DEF IInv, Types, TypeOK
  <2>4. age[t] = age[u]
    BY <2>2, <2>3, ShiftApart
  <2> QED
    BY <2>4 DEF IInv, Numbered
<1> QED
  BY <1>1, Invariance, PTL

-----------------------------------------------------------------------------
(***************************************************************************)
(* The replies in a line of frames: what the recursive function Replies()  *)
(* computes, by induction over the frames it has looked at.                *)
(***************************************************************************)
\* Selecting the replies among s step by step, from the first frame on.
Selecting(s, f) ==
  /\ f[0] = <<>>
  /\ \A n \in 0 .. Len(s) - 1 :
       f[n + 1] = IF IsReply(s[n + 1]) THEN Append(f[n], s[n + 1]) ELSE f[n]

\* There is one way to do it.
LEMMA SelectingOnce ==
  ASSUME NEW s \in Seq(Frames), NEW f, NEW g, Selecting(s, f), Selecting(s, g),
         NEW m \in 0 .. Len(s)
  PROVE  f[m] = g[m]
<1> DEFINE S == {n \in Nat : n <= Len(s) => f[n] = g[n]}
<1>0. Len(s) \in Nat
  BY LenProperties
<1>1. 0 \in S
  BY DEF Selecting
<1>2. ASSUME NEW n \in Nat, n \in S
      PROVE  n + 1 \in S
  <2> SUFFICES ASSUME n + 1 <= Len(s)
               PROVE  f[n + 1] = g[n + 1]
    OBVIOUS
  <2>1. n \in 0 .. Len(s) - 1 /\ f[n] = g[n]
    BY <1>0, <1>2
  <2> QED
    BY <2>1 DEF Selecting
<1> HIDE DEF S
<1>3. \A n \in Nat : n \in S
  BY <1>1, <1>2, InductionOverNat
<1> QED
  BY <1>0, <1>3 DEF S

\* Replies() is its result.
LEMMA RepliesSelected ==
  ASSUME NEW s \in Seq(Frames)
  PROVE  \E f : /\ Selecting(s, f) /\ Replies(s) = f[Len(s)]
                /\ \A n \in 0 .. Len(s) : f[n] \in Seq(Frames) /\ Len(f[n]) <= n
<1> DEFINE step == [p \in Nat \X Seq(Frames) |->
                      IF p[1] + 1 \in 1 .. Len(s) /\ IsReply(s[p[1] + 1])
                        THEN Append(p[2], s[p[1] + 1]) ELSE p[2]]
<1>0. Len(s) \in Nat /\ \A i \in 1 .. Len(s) : s[i] \in Frames
  BY LenProperties, ElementOfSeq
<1>1. step \in [Nat \X Seq(Frames) -> Seq(Frames)]
  <2>1. ASSUME NEW p \in Nat \X Seq(Frames)
        PROVE  step[p] \in Seq(Frames)
    <3>1. CASE p[1] + 1 \in 1 .. Len(s) /\ IsReply(s[p[1] + 1])
      <4>1. step[p] = Append(p[2], s[p[1] + 1])
        BY <3>1
      <4> QED
        BY <4>1, <3>1, <1>0, AppendProperties
    <3>2. CASE ~(p[1] + 1 \in 1 .. Len(s) /\ IsReply(s[p[1] + 1]))
      BY <3>2
    <3> QED
      BY <3>1, <3>2
  <2> QED
    BY <2>1
<1>2. PICK f \in [Nat -> Seq(Frames)] :
        f[0] = <<>> /\ \A n \in Nat : f[n + 1] = step[<<n, f[n]>>]
  <2> DEFINE D == Seq(Frames)
             base == <<>>
  <2>1. base \in D /\ step \in [Nat \X D -> D]
    BY <1>1, EmptySeq
  <2> HIDE DEF step, D, base
  <2>2. \E f \in [Nat -> D] : FollowsFrom(f, base, step)
    BY <2>1, RecursionOverNat
  <2> QED
    BY <2>2 DEF D, base, FollowsFrom
<1>3. \A n \in 0 .. Len(s) - 1 :
        f[n + 1] = IF IsReply(s[n + 1]) THEN Append(f[n], s[n + 1]) ELSE f[n]
  <2> TAKE n \in 0 .. Len(s) - 1
  <2>1. n \in Nat /\ n + 1 \in 1 .. Len(s) /\ f[n] \in Seq(Frames)
    BY <1>0
  <2>2. f[n + 1] = step[<<n, f[n]>>]
    BY <1>2, <2>1
  <2>3. <<n, f[n]>> \in Nat \X Seq(Frames)
    BY <2>1
  <2> QED
    BY <2>1, <2>2, <2>3
<1>4. Selecting(s, f)
  BY <1>2, <1>3 DEF Selecting
<1>5. \A n \in 0 .. Len(s) : Len(f[n]) <= n
  <2> DEFINE S == {n \in Nat : n <= Len(s) => Len(f[n]) <= n}
  <2>1. 0 \in S
    BY <1>2, EmptySeq
  <2>2. ASSUME NEW n \in Nat, n \in S
        PROVE  n + 1 \in S
    <3> SUFFICES ASSUME n + 1 <= Len(s)
                 PROVE  Len(f[n + 1]) <= n + 1
      OBVIOUS
    <3>1. n \in 0 .. Len(s) - 1 /\ Len(f[n]) <= n /\ f[n] \in Seq(Frames)
      <4>1. n \in 0 .. Len(s) - 1
        BY <1>0
      <4>2. n <= Len(s)
        BY <4>1, <1>0
      <4>3. Len(f[n]) <= n
        BY <2>2, <4>2
      <4>4. f[n] \in Seq(Frames)
        BY <1>2
      <4> QED
        BY <4>1, <4>3, <4>4
    <3>2. Len(f[n]) \in Nat /\ Len(Append(f[n], s[n + 1])) = Len(f[n]) + 1
      <4>1. s[n + 1] \in Frames
        BY <1>0, <3>1
      <4> QED
        BY <3>1, <4>1, AppendProperties, LenProperties
    <3>3. f[n + 1] = IF IsReply(s[n + 1]) THEN Append(f[n], s[n + 1]) ELSE f[n]
      BY <1>3, <3>1
    <3>4. Len(f[n + 1]) = Len(f[n]) + 1 \/ Len(f[n + 1]) = Len(f[n])
      BY <3>2, <3>3
    <3> DEFINE k == Len(f[n])
               l == Len(f[n + 1])
    <3>5. k \in Nat /\ k <= n /\ (l = k + 1 \/ l = k)
      BY <3>1, <3>2, <3>4
    <3> HIDE DEF k, l
    <3>6. l <= n + 1
      BY <3>5
    <3> QED
      BY <3>6 DEF l
  <2> HIDE DEF S
  <2>3. \A n \in Nat : n \in S
    BY <2>1, <2>2, InductionOverNat
  <2> QED
    BY <1>0, <2>3 DEF S
\* The recursive function in Replies() exists, and is a start of f.
<1>6. Replies(s) = f[Len(s)]
  <2> DEFINE Def(h) == [i \in 0 .. Len(s) |->
                          IF i = 0 THEN <<>>
                          ELSE IF IsReply(s[i]) THEN Append(h[i - 1], s[i])
                          ELSE h[i - 1]]
             h0 == [i \in 0 .. Len(s) |-> f[i]]
             h1 == CHOOSE h : h = Def(h)
  <2>1. h0 = Def(h0)
    <3>1. ASSUME NEW i \in 0 .. Len(s)
          PROVE  h0[i] = Def(h0)[i]
      <4>1. CASE i = 0
        BY <4>1, <1>0, <1>2
      <4>2. CASE i # 0
        <5>1. i - 1 \in 0 .. Len(s) - 1 /\ i - 1 \in 0 .. Len(s) /\ (i - 1) + 1 = i
          BY <4>2, <1>0
        <5>2. f[(i - 1) + 1] = IF IsReply(s[(i - 1) + 1]) THEN Append(f[i - 1], s[(i - 1) + 1])
                                                        ELSE f[i - 1]
          BY <5>1, <1>3
        <5> QED
          BY <4>2, <5>1, <5>2
      <4> QED
        BY <4>1, <4>2
    <3> QED
      BY <3>1
  <2>2. h1 = Def(h1)
    <3> HIDE DEF Def, h0
    <3> QED
      BY <2>1
  <2>3. Replies(s) = h1[Len(s)]
    BY DEF Replies
  <2> HIDE DEF h1
  <2>4. Selecting(s, h1)
    <3>1. h1[0] = <<>>
      BY <2>2, <1>0
    <3>2. ASSUME NEW n \in 0 .. Len(s) - 1
          PROVE  h1[n + 1] = IF IsReply(s[n + 1]) THEN Append(h1[n], s[n + 1]) ELSE h1[n]
      <4>1. n + 1 \in 0 .. Len(s) /\ n + 1 # 0 /\ (n + 1) - 1 = n
        BY <1>0
      <4>2. Def(h1)[n + 1] = IF IsReply(s[n + 1]) THEN Append(h1[(n + 1) - 1], s[n + 1])
                                                  ELSE h1[(n + 1) - 1]
        BY <4>1
      <4> HIDE DEF Def
      <4> QED
        BY <4>1, <4>2, <2>2
    <3> QED
      BY <3>1, <3>2 DEF Selecting
  <2>5. Len(s) \in 0 .. Len(s)
    BY <1>0
  <2> QED
    BY <1>4, <2>3, <2>4, <2>5, SelectingOnce
<1>7. \A n \in 0 .. Len(s) : f[n] \in Seq(Frames)
  BY <1>0
<1> QED
  BY <1>4, <1>5, <1>6, <1>7

\* The replies among frames are frames, and not more of them.
LEMMA RepliesAreFrames ==
  ASSUME NEW s \in Seq(Frames)
  PROVE  Replies(s) \in Seq(Frames) /\ Len(Replies(s)) <= Len(s)
<1>1. Len(s) \in 0 .. Len(s)
  BY LenProperties
<1> QED
  BY <1>1, RepliesSelected

\* A frame that joins the line is a reply more, or none.
LEMMA RepliesAppend ==
  ASSUME NEW s \in Seq(Frames), NEW x \in Frames
  PROVE  Replies(Append(s, x)) = IF IsReply(x) THEN Append(Replies(s), x) ELSE Replies(s)
<1> DEFINE e == Append(s, x)
<1>1. /\ Len(s) \in Nat /\ e \in Seq(Frames) /\ Len(e) = Len(s) + 1
      /\ \A i \in 1 .. Len(s) : e[i] = s[i]
      /\ e[Len(s) + 1] = x
  BY AppendProperties, LenProperties
<1>2. PICK f : Selecting(s, f) /\ Replies(s) = f[Len(s)]
  BY RepliesSelected
<1>3. PICK g : Selecting(e, g) /\ Replies(e) = g[Len(e)]
  BY <1>1, RepliesSelected
<1> HIDE DEF e
<1>4. Selecting(s, g)
  <2> SUFFICES ASSUME NEW n \in 0 .. Len(s) - 1
               PROVE  g[n + 1] = IF IsReply(s[n + 1]) THEN Append(g[n], s[n + 1]) ELSE g[n]
    BY <1>3 DEF Selecting
  <2>1. n \in 0 .. Len(e) - 1 /\ n + 1 \in 1 .. Len(s)
    BY <1>1
  <2>2. e[n + 1] = s[n + 1]
    BY <1>1, <2>1
  <2>3. g[n + 1] = IF IsReply(e[n + 1]) THEN Append(g[n], e[n + 1]) ELSE g[n]
    BY <1>3, <2>1 DEF Selecting
  <2> QED
    BY <2>2, <2>3
<1>5. f[Len(s)] = g[Len(s)]
  <2>1. Len(s) \in 0 .. Len(s)
    BY <1>1
  <2> QED
    BY <2>1, <1>2, <1>4, SelectingOnce
<1>6. g[Len(s) + 1] = IF IsReply(x) THEN Append(g[Len(s)], x) ELSE g[Len(s)]
  <2>1. Len(s) \in 0 .. Len(e) - 1
    BY <1>1
  <2> QED
    BY <1>1, <1>3, <2>1 DEF Selecting
<1>7. Replies(e) = IF IsReply(x) THEN Append(Replies(s), x) ELSE Replies(s)
  BY <1>1, <1>2, <1>3, <1>5, <1>6
<1> QED
  BY <1>7 DEF e

LEMMA FramesRegrouped ==
  \A u, v, w \in Seq(Frames) : (u \o v) \o w = u \o (v \o w)
<1> TAKE u, v, w \in Seq(Frames)
<1> QED
  BY ConcatAssociative

\* The replies of a line are its first frame, if it is one, and those of the rest.
LEMMA RepliesFromHead ==
  ASSUME NEW s \in Seq(Frames), s # <<>>
  PROVE  Replies(s) = (IF IsReply(Head(s)) THEN <<Head(s)>> ELSE <<>>) \o Replies(Tail(s))
<1> DEFINE r == Tail(s)
           first == IF IsReply(Head(s)) THEN <<Head(s)>> ELSE <<>>
<1>1. /\ Len(s) \in Nat \ {0} /\ r \in Seq(Frames) /\ Len(r) = Len(s) - 1
      /\ \A i \in 1 .. Len(r) : r[i] = s[i + 1]
      /\ Head(s) \in Frames /\ Head(s) = s[1]
  BY HeadTailProperties, EmptySeq
<1>2. first \in Seq(Frames)
  BY <1>1
<1>3. PICK f : Selecting(s, f) /\ Replies(s) = f[Len(s)]
  BY RepliesSelected
<1>4. PICK g : /\ Selecting(r, g) /\ Replies(r) = g[Len(r)]
               /\ \A n \in 0 .. Len(r) : g[n] \in Seq(Frames)
  BY <1>1, RepliesSelected
<1> DEFINE S == {n \in Nat : n <= Len(r) => f[n + 1] = first \o g[n]}
<1>5. 0 \in S
  <2>1. 0 \in 0 .. Len(s) - 1 /\ f[0] = <<>> /\ g[0] = <<>>
    BY <1>1, <1>3, <1>4 DEF Selecting
  <2>2. f[0 + 1] = IF IsReply(s[0 + 1]) THEN Append(f[0], s[0 + 1]) ELSE f[0]
    BY <1>3, <2>1 DEF Selecting
  <2>3. f[1] = IF IsReply(Head(s)) THEN Append(<<>>, Head(s)) ELSE <<>>
    BY <1>1, <2>1, <2>2
  <2>4. Append(<<>>, Head(s)) = <<Head(s)>>
    BY <1>1
  <2>5. f[1] = first
    BY <2>3, <2>4
  <2> HIDE DEF first
  <2>6. first \o g[0] = first
    BY <1>2, <2>1, ConcatEmptySeq
  <2> QED
    BY <2>5, <2>6
<1> HIDE DEF first
<1>6. ASSUME NEW n \in Nat, n \in S
      PROVE  n + 1 \in S
  <2> SUFFICES ASSUME n + 1 <= Len(r)
               PROVE  f[n + 1 + 1] = first \o g[n + 1]
    OBVIOUS
  <2>1. /\ n \in 0 .. Len(r) - 1 /\ n + 1 \in 1 .. Len(r) /\ n + 1 \in 0 .. Len(s) - 1
        /\ n \in 0 .. Len(r) /\ f[n + 1] = first \o g[n]
    BY <1>1, <1>6
  <2> DEFINE x == r[n + 1]
  <2>2. x = s[n + 1 + 1] /\ x \in Frames
    BY <1>1, <2>1, ElementOfSeq
  <2>3. g[n + 1] = IF IsReply(x) THEN Append(g[n], x) ELSE g[n]
    BY <1>4, <2>1 DEF Selecting
  <2>4. f[n + 1 + 1] = IF IsReply(x) THEN Append(f[n + 1], x) ELSE f[n + 1]
    BY <1>3, <2>1, <2>2 DEF Selecting
  <2> HIDE DEF x
  <2>5. Append(first \o g[n], x) = first \o Append(g[n], x)
    <3>1. g[n] \in Seq(Frames) /\ <<x>> \in Seq(Frames)
      BY <1>4, <2>1, <2>2
    <3>2. Append(g[n], x) = g[n] \o <<x>>
      BY <3>1, <2>2, AppendIsConcat
    <3>3. Append(first \o g[n], x) = (first \o g[n]) \o <<x>>
      <4>1. first \o g[n] \in Seq(Frames)
        BY <3>1, <1>2, ConcatProperties
      <4> QED
        BY <4>1, <2>2, AppendIsConcat
    <3>4. (first \o g[n]) \o <<x>> = first \o (g[n] \o <<x>>)
      BY <3>1, <1>2, FramesRegrouped, Zenon
    <3> QED
      BY <3>2, <3>3, <3>4, Zenon
  <2> QED
    BY <2>1, <2>3, <2>4, <2>5
<1> HIDE DEF S
<1>7. \A n \in Nat : n \in S
  BY <1>5, <1>6, InductionOverNat
<1>8. f[Len(r) + 1] = first \o g[Len(r)]
  <2>1. Len(r) \in Nat /\ Len(r) \in S
    BY <1>1, <1>7
  <2> QED
    BY <2>1 DEF S
<1>9. f[Len(s)] = first \o g[Len(r)]
  <2>1. Len(r) + 1 = Len(s)
    BY <1>1
  <2> QED
    BY <1>8, <2>1
<1> QED
  BY <1>3, <1>4, <1>9 DEF first

-----------------------------------------------------------------------------
(***************************************************************************)
(* The kinds of the frames: only serverThread sends replies.               *)
(***************************************************************************)
Reflected == {[host |-> m.from, quench |-> m.quench] : m \in Requests}

\* The reply to be queued, those in the mailbox and the one serverThread has
\* are replies, the first of them to a request; the user sends none; and the
\* ring has as many places as it has.
Kinds ==
  /\ posting # None => IsReply(heap[posting]) /\ Request(heap[posting]) \in Reflected
  /\ \A i \in 1 .. Len(replies) : IsReply(heap[replies[i]])
  /\ pc["Server"] # "Idle" => IsReply(heap[buffer["Server"]])
  /\ pc["User"] # "Idle" => ~IsReply(heap[buffer["User"]])
  /\ Len(line) <= RingFrames

\* No step makes another message of one in a buffer: it fills in what is
\* missing, or frees it.
Stays(b) ==
  heap[b] # None /\ heap'[b] # None =>
    Request(heap'[b]) = Request(heap[b]) /\ (IsReply(heap'[b]) <=> IsReply(heap[b]))

LEMMA MessagesStay ==
  ASSUME Types, BufferOwned, [Next]_vars, NEW b \in Blocks
  PROVE  Stays(b)
<1>a. heap \in [Blocks -> Frames \union {None}] /\ posting \in Blocks \union {None}
  BY DEF Types, TypeOK
<1>1. ASSUME NEW m \in Requests, BuildReply(m)
      PROVE  Stays(b)
  <2>1. PICK c \in Blocks : heap[c] = None /\ heap' = [heap EXCEPT ![c] = Reply(m)]
    BY <1>1 DEF BuildReply, FreeBlocks
  <2>2. c # b => heap'[b] = heap[b]
    BY <2>1, <1>a
  <2> QED
    BY <2>1, <2>2 DEF Stays
<1>2. CASE PostReply
  <2>1. heap'[b] = heap[b] \/ heap'[b] = None
    BY <1>2, <1>a DEF PostReply
  <2> QED
    BY <2>1 DEF Stays
<1>3. ASSUME NEW host \in Pinged, Ping(host)
      PROVE  Stays(b)
  <2>1. PICK c \in Blocks :
          heap[c] = None /\ heap' = [heap EXCEPT ![c] = Message("EchoRequest", Quench, None, host)]
    BY <1>3 DEF Ping, FreeBlocks
  <2>2. c # b => heap'[b] = heap[b]
    BY <2>1, <1>a
  <2> QED
    BY <2>1, <2>2 DEF Stays
<1>4. ASSUME NEW t \in Threads, Seal(t)
      PROVE  Stays(b)
  <2> DEFINE f == Sealed(heap[buffer[t]], tmp[t])
  <2>1. pc[t] = "Seal" /\ heap' = [heap EXCEPT ![buffer[t]] = f]
    BY <1>4 DEF Seal
  <2>2. heap[buffer[t]] \in Frames
    BY <2>1, InBuffer
  <2>3. Request(f) = Request(heap[buffer[t]]) /\ (IsReply(f) <=> IsReply(heap[buffer[t]]))
    BY <2>2 DEF Sealed, Frames, Request, IsReply
  <2>4. /\ heap'[buffer[t]] = f
        /\ b # buffer[t] => heap'[b] = heap[b]
    BY <2>1, OthersKept
  <2> HIDE DEF f
  <2> QED
    BY <2>3, <2>4 DEF Stays
<1>5. ASSUME NEW t \in Threads, Resolved(t)
      PROVE  Stays(b)
  <2> DEFINE f == [heap[buffer[t]] EXCEPT !.mac = answer[t]]
  <2>1. pc[t] = "Resolve" /\ heap' = [heap EXCEPT ![buffer[t]] = f]
    BY <1>5 DEF Resolved
  <2>2. heap[buffer[t]] \in Frames
    BY <2>1, InBuffer
  <2>3. Request(f) = Request(heap[buffer[t]]) /\ (IsReply(f) <=> IsReply(heap[buffer[t]]))
    BY <2>2 DEF Frames, Request, IsReply
  <2>4. /\ heap'[buffer[t]] = f
        /\ b # buffer[t] => heap'[b] = heap[b]
    BY <2>1, OthersKept
  <2> HIDE DEF f
  <2> QED
    BY <2>3, <2>4 DEF Stays
<1>6. ASSUME NEW t \in Threads, Delete(t)
      PROVE  Stays(b)
  <2>1. heap'[b] = heap[b] \/ heap'[b] = None
    BY <1>6, <1>a DEF Delete
  <2> QED
    BY <2>1 DEF Stays
<1>7. ASSUME UNCHANGED heap
      PROVE  Stays(b)
  BY <1>7 DEF Stays
<1> QED
  BY <1>1, <1>2, <1>3, <1>4, <1>5, <1>6, <1>7
  DEF Next, SendFrame, ReceiveReply, SetEnabled, IncrementIdent, StoreIdent, Unresolved,
      SendReturns, Answer, OutsideArp, Advertise, Accept, Transmit, OutsideEth, vars

\* What is in use after a step that gives no buffer to another keeps its kind.
LEMMA KindsKept ==
  ASSUME Types, BufferOwned, BufferOwned', Types', Kinds, \A b \in Blocks : Stays(b),
         posting' \in {posting, None}, UNCHANGED replies,
         \A t \in Threads : pc'[t] # "Idle" => pc[t] # "Idle" /\ buffer'[t] = buffer[t],
         Len(line') <= RingFrames
  PROVE  Kinds'
<1>0. "Server" \in Threads /\ "User" \in Threads
  BY DEF Threads
<1>1. posting' # None =>
        IsReply(heap'[posting']) /\ Request(heap'[posting']) \in Reflected
  <2> SUFFICES ASSUME posting' # None
               PROVE  IsReply(heap'[posting']) /\ Request(heap'[posting']) \in Reflected
    OBVIOUS
  <2>1. posting' = posting /\ posting \in Blocks
    BY DEF Types, TypeOK
  <2>2. heap[posting] # None /\ heap'[posting] # None
    BY <2>1 DEF BufferOwned
  <2> QED
    BY <2>1, <2>2 DEF Stays, Kinds
<1>2. \A i \in 1 .. Len(replies') : IsReply(heap'[replies'[i]])
  <2> SUFFICES ASSUME NEW i \in 1 .. Len(replies)
               PROVE  IsReply(heap'[replies[i]])
    OBVIOUS
  <2>1. replies[i] \in Blocks
    BY ElementOfSeq DEF Types, TypeOK
  <2>2. heap[replies[i]] # None /\ heap'[replies[i]] # None
    BY <2>1 DEF BufferOwned
  <2> QED
    BY <2>1, <2>2 DEF Stays, Kinds
<1>3. ASSUME NEW t \in Threads, pc'[t] # "Idle"
      PROVE  IsReply(heap'[buffer'[t]]) <=> IsReply(heap[buffer[t]])
  <2>1. pc[t] # "Idle" /\ buffer'[t] = buffer[t] /\ buffer[t] \in Blocks
    BY <1>3, InBuffer
  <2>2. heap[buffer[t]] # None /\ heap'[buffer[t]] # None
    BY <2>1 DEF BufferOwned
  <2> QED
    BY <2>1, <2>2 DEF Stays
<1> QED
  BY <1>0, <1>1, <1>2, <1>3 DEF Kinds

\* Every step keeps the kinds.
LEMMA KindsStep ==
  ASSUME Types, BufferOwned, Types', BufferOwned', Kinds, [Next]_vars
  PROVE  Kinds'
<1>0. /\ "Server" \in Threads /\ "User" \in Threads
      /\ \A b \in Blocks : Stays(b)
      /\ None \notin Frames /\ None \notin Blocks /\ None \notin Threads
  BY MessagesStay, FrameAssumption, NoneAssumption DEF Threads
<1>a. /\ heap \in [Blocks -> Frames \union {None}] /\ posting \in Blocks \union {None}
      /\ buffer \in [Threads -> Blocks \union {None}] /\ pc \in [Threads -> Stages]
      /\ line \in Seq(Frames) /\ replies \in Seq(Blocks)
  BY DEF Types, TypeOK, TypesBelow
<1>b. \A i \in 1 .. Len(replies) : replies[i] \in Blocks /\ heap[replies[i]] # None
  BY <1>a, ElementOfSeq DEF BufferOwned
<1>c. \A t \in Threads : pc[t] # "Idle" => buffer[t] \in Blocks /\ heap[buffer[t]] # None
  BY InBuffer, <1>0
<1>1. ASSUME NEW m \in Requests, BuildReply(m)
      PROVE  Kinds'
  <2>1. PICK b \in Blocks : /\ heap[b] = None /\ posting' = b
                            /\ heap' = [heap EXCEPT ![b] = Reply(m)]
    BY <1>1 DEF BuildReply, FreeBlocks
  <2>2. heap'[b] = Reply(m) /\ \A c \in Blocks : heap[c] # None => heap'[c] = heap[c]
    BY <2>1, <1>a
  <2>3. IsReply(Reply(m)) /\ Request(Reply(m)) \in Reflected
    BY DEF Reply, Message, IsReply, Request, Reflected
  <2>4. UNCHANGED <<replies, pc, buffer, line>>
    BY <1>1 DEF BuildReply, ethVars
  <2>5. \A i \in 1 .. Len(replies) : IsReply(heap'[replies[i]])
    BY <2>2, <1>b DEF Kinds
  <2>6. \A t \in Threads : pc[t] # "Idle" => heap'[buffer[t]] = heap[buffer[t]]
    BY <2>2, <1>c
  <2> QED
    BY <2>1, <2>2, <2>3, <2>4, <2>5, <2>6, <1>0 DEF Kinds
<1>2. CASE PostReply
  <2>1. /\ posting \in Blocks /\ posting # None /\ posting' = None
        /\ UNCHANGED <<pc, buffer, line>>
    BY <1>2, <1>a DEF PostReply, ethVars
  <2>2. CASE replies' = Append(replies, posting) /\ UNCHANGED heap
    <3>1. /\ Len(replies') = Len(replies) + 1 /\ Len(replies) \in Nat
          /\ \A i \in 1 .. Len(replies) : replies'[i] = replies[i]
          /\ replies'[Len(replies) + 1] = posting
      BY <2>1, <2>2, <1>a
    <3>2. \A i \in 1 .. Len(replies') : IsReply(heap'[replies'[i]])
      <4> TAKE i \in 1 .. Len(replies')
      <4>1. CASE i \in 1 .. Len(replies)
        BY <4>1, <3>1, <2>2 DEF Kinds
      <4>2. CASE i = Len(replies) + 1
        BY <4>2, <3>1, <2>1, <2>2 DEF Kinds
      <4> QED
        BY <3>1, <4>1, <4>2
    <3> QED
      BY <2>1, <2>2, <3>2 DEF Kinds
  <2>3. CASE UNCHANGED replies
    BY <2>1, <2>3, <1>0, KindsKept DEF Kinds
  <2> QED
    BY <1>2, <2>2, <2>3 DEF PostReply
<1>3. CASE ReceiveReply
  <2>1. /\ replies # <<>> /\ replies' = Tail(replies)
        /\ buffer' = [buffer EXCEPT !["Server"] = Head(replies)]
        /\ pc' = [pc EXCEPT !["Server"] = "Ident"]
        /\ UNCHANGED <<heap, posting, line>>
    BY <1>3 DEF ReceiveReply, ethVars
  <2>2. /\ \A i \in 1 .. Len(replies') : replies'[i] = replies[i + 1] /\ i + 1 \in 1 .. Len(replies)
        /\ replies[1] = Head(replies) /\ 1 \in 1 .. Len(replies)
    BY <2>1, <1>a
  <2>3. buffer'["Server"] = replies[1] /\ buffer'["User"] = buffer["User"] /\ pc'["User"] = pc["User"]
    BY <2>1, <2>2, <1>a DEF Threads
  <2> QED
    BY <2>1, <2>2, <2>3 DEF Kinds
<1>4. ASSUME NEW host \in Pinged, Ping(host)
      PROVE  Kinds'
  <2> DEFINE f == Message("EchoRequest", Quench, None, host)
  <2>1. PICK b \in Blocks : /\ heap[b] = None
                            /\ buffer' = [buffer EXCEPT !["User"] = b]
                            /\ heap' = [heap EXCEPT ![b] = f]
    BY <1>4 DEF Ping, FreeBlocks
  <2>2. heap'[b] = f /\ \A c \in Blocks : heap[c] # None => heap'[c] = heap[c]
    BY <2>1, <1>a
  <2>3. ~IsReply(f)
    BY DEF Message, IsReply
  <2> HIDE DEF f
  <2>4. /\ UNCHANGED <<posting, replies, line>> /\ pc' = [pc EXCEPT !["User"] = "Ident"]
    BY <1>4 DEF Ping, ethVars
  <2>5. /\ buffer'["User"] = b /\ buffer'["Server"] = buffer["Server"]
        /\ pc'["Server"] = pc["Server"]
    BY <2>1, <2>4, <1>a, <1>0
  <2>6. \A i \in 1 .. Len(replies) : IsReply(heap'[replies[i]])
    BY <2>2, <1>b DEF Kinds
  <2>7. pc["Server"] # "Idle" => heap'[buffer["Server"]] = heap[buffer["Server"]]
    BY <2>2, <1>0, <1>c
  <2>8. posting # None => heap'[posting] = heap[posting]
    BY <2>2, <1>a DEF BufferOwned
  <2> QED
    BY <2>2, <2>3, <2>4, <2>5, <2>6, <2>7, <2>8 DEF Kinds
<1>5. ASSUME NEW t \in Threads, SendFrame(t)
      PROVE  Kinds'
  <2>1. /\ UNCHANGED <<posting, replies, line>>
        /\ \E s \in Stages : pc' = [pc EXCEPT ![t] = s] /\ (s # "Idle" => UNCHANGED buffer)
        /\ pc[t] # "Idle"
        /\ UNCHANGED buffer \/ buffer' = [buffer EXCEPT ![t] = None]
    BY <1>5 DEF SendFrame, IncrementIdent, StoreIdent, Seal, Resolved, Unresolved, SendReturns,
                Delete, Stages, ethVars, Eth!Offer, Eth!Return
  <2>2. \A u \in Threads : pc'[u] # "Idle" => pc[u] # "Idle" /\ buffer'[u] = buffer[u]
    BY <2>1, <1>a
  <2> QED
    BY <2>1, <2>2, <1>0, KindsKept DEF Kinds
<1>6. ASSUME NEW t \in Threads, Accept(t)
      PROVE  Kinds'
  <2>1. /\ Len(line) < RingFrames /\ line' = Append(line, offered[t])
        /\ UNCHANGED <<posting, replies, pc, buffer>>
    BY <1>6 DEF Accept, Eth!Accept, OutsideEth
  <2>2. Len(line') <= RingFrames
    <3>1. Len(line') = Len(line) + 1 /\ Len(line) \in Nat
      BY <2>1, <1>a
    <3> QED
      BY <2>1, <3>1, SizeAssumption
  <2> QED
    BY <2>1, <2>2, <1>0, KindsKept
<1>7. CASE Transmit
  <2>1. /\ line # <<>> /\ line' = Tail(line)
        /\ UNCHANGED <<posting, replies, pc, buffer>>
    BY <1>7 DEF Transmit, Eth!Transmit, OutsideEth
  <2>2. Len(line') <= RingFrames
    <3>1. Len(line') = Len(line) - 1 /\ Len(line) \in Nat
      BY <2>1, <1>a
    <3> QED
      BY <3>1, SizeAssumption DEF Kinds
  <2> QED
    BY <2>1, <2>2, <1>0, KindsKept
<1>8. ASSUME UNCHANGED <<posting, replies, pc, buffer, line>>
      PROVE  Kinds'
  BY <1>8, <1>0, KindsKept DEF Kinds
<1> QED
  BY <1>1, <1>2, <1>3, <1>4, <1>5, <1>6, <1>7, <1>8
  DEF Next, SetEnabled, Answer, OutsideArp, Advertise, vars, ethVars

LEMMA KindsInit == Init => Kinds
<1>1. 0 <= RingFrames /\ Len(<<>>) = 0
  BY SizeAssumption
<1> QED
  BY <1>1 DEF Init, Eth!Init, Kinds, Threads

-----------------------------------------------------------------------------
(***************************************************************************)
(* EchoService implements EchoReflector.                                   *)
(***************************************************************************)
\* The requests of frames.
Asks == {Request(f) : f \in Frames}
Asked(s) == [i \in 1 .. Len(s) |-> Request(s[i])]

LEMMA AskedType ==
  ASSUME NEW s \in Seq(Frames)
  PROVE  /\ Asked(s) \in Seq(Asks) /\ Len(Asked(s)) = Len(s)
         /\ \A i \in 1 .. Len(s) : Asked(s)[i] = Request(s[i])
<1>1. Len(s) \in Nat /\ \A i \in 1 .. Len(s) : Request(s[i]) \in Asks
  BY LenProperties, ElementOfSeq DEF Asks
<1> QED
  BY <1>1 DEF Asked

LEMMA AskedConcat ==
  ASSUME NEW s \in Seq(Frames), NEW t \in Seq(Frames)
  PROVE  Asked(s \o t) = Asked(s) \o Asked(t)
<1> DEFINE u == s \o t
           a == Asked(s)
           b == Asked(t)
<1>1. /\ u \in Seq(Frames) /\ Len(u) = Len(s) + Len(t)
      /\ Len(s) \in Nat /\ Len(t) \in Nat
      /\ \A i \in 1 .. Len(s) + Len(t) : u[i] = IF i <= Len(s) THEN s[i] ELSE t[i - Len(s)]
  BY ConcatProperties, LenProperties
<1>2. /\ a \in Seq(Asks) /\ Len(a) = Len(s) /\ b \in Seq(Asks) /\ Len(b) = Len(t)
      /\ \A i \in 1 .. Len(s) : a[i] = Request(s[i])
      /\ \A i \in 1 .. Len(t) : b[i] = Request(t[i])
  BY AskedType
<1> HIDE DEF u, a, b
<1>3. /\ a \o b \in Seq(Asks) /\ Len(a \o b) = Len(a) + Len(b)
      /\ \A i \in 1 .. Len(a) + Len(b) : (a \o b)[i] = IF i <= Len(a) THEN a[i] ELSE b[i - Len(a)]
  <2>1. a \in Seq(Asks) /\ b \in Seq(Asks)
    BY <1>2
  <2> QED
    BY <2>1, ConcatProperties
<1> DEFINE c == a \o b
           v == Asked(u)
<1>4. /\ v \in Seq(Asks) /\ Len(v) = Len(u)
      /\ \A i \in 1 .. Len(u) : v[i] = Request(u[i])
  BY <1>1, AskedType
<1>5. /\ c \in Seq(Asks) /\ Len(c) = Len(v)
      /\ \A i \in 1 .. Len(v) : c[i] = IF i <= Len(s) THEN a[i] ELSE b[i - Len(s)]
  BY <1>1, <1>2, <1>3, <1>4
<1> HIDE DEF c, v
<1>6. ASSUME NEW i \in 1 .. Len(v)
      PROVE  v[i] = c[i]
  <2>1. CASE i <= Len(s)
    <3>1. i \in 1 .. Len(s) /\ u[i] = s[i]
      BY <2>1, <1>1, <1>4
    <3> QED
      BY <2>1, <3>1, <1>2, <1>4, <1>5
  <2>2. CASE ~(i <= Len(s))
    <3>1. i - Len(s) \in 1 .. Len(t) /\ u[i] = t[i - Len(s)]
      BY <2>2, <1>1, <1>4
    <3> QED
      BY <2>2, <3>1, <1>2, <1>4, <1>5
  <2> QED
    BY <2>1, <2>2, <1>1
<1>7. v = c
  BY <1>4, <1>5, <1>6, SeqEqual
<1> QED
  BY <1>7 DEF v, c, u, a, b

\* The three places where a request is pending.
InRing == Asked(Replies(line))
InThread == Asked(InHand)
InMailbox == [i \in 1 .. Len(replies) |-> Request(heap[replies[i]])]

\* Does serverThread have a reply to hand over?
Handing == pc["Server"] \notin {"Idle", "Delete"} /\ stage["Server"] # "Accepted"

\* They make up Pending.
Parts ==
  /\ Pending = (InRing \o InThread) \o InMailbox
  /\ InRing \in Seq(Asks) /\ InThread \in Seq(Asks) /\ InMailbox \in Seq(Asks)
  /\ Len(InRing) <= RingFrames /\ Len(InMailbox) = Len(replies)
  /\ ~Handing => InThread = <<>>
  /\ Handing => InThread = <<Request(heap[buffer["Server"]])>>

LEMMA PendingParts == Types /\ BufferOwned /\ Kinds => Parts
<1> SUFFICES ASSUME Types, BufferOwned, Kinds
             PROVE  Parts
  OBVIOUS
<1> DEFINE queued == [i \in 1 .. Len(replies) |-> heap[replies[i]]]
           sent == Replies(line)
<1>0. "Server" \in Threads
  BY DEF Threads
<1>1. sent \in Seq(Frames) /\ Len(sent) <= RingFrames
  <2>1. line \in Seq(Frames) /\ Len(line) <= RingFrames
    BY DEF Types, TypesBelow, Kinds
  <2>2. sent \in Seq(Frames) /\ Len(sent) <= Len(line) /\ Len(line) \in Nat
    BY <2>1, RepliesAreFrames, LenProperties
  <2> HIDE DEF sent
  <2>3. Len(sent) \in Nat /\ RingFrames \in Nat
    BY <2>2, LenProperties, SizeAssumption
  <2> QED
    BY <2>1, <2>2, <2>3
<1>2. Handing => buffer["Server"] \in Blocks /\ heap[buffer["Server"]] \in Frames
  BY <1>0, InBuffer DEF Handing
<1>3. /\ InHand \in Seq(Frames)
      /\ InHand = IF Handing THEN <<heap[buffer["Server"]]>> ELSE <<>>
  BY <1>2 DEF InHand, Handing
<1>4. queued \in Seq(Frames) /\ Len(queued) = Len(replies)
  <2>1. Len(replies) \in Nat /\ \A i \in 1 .. Len(replies) : heap[replies[i]] \in Frames
    <3>1. replies \in Seq(Blocks) /\ heap \in [Blocks -> Frames \union {None}]
      BY DEF Types, TypeOK
    <3>2. Len(replies) \in Nat /\ \A i \in 1 .. Len(replies) : replies[i] \in Blocks
      BY <3>1
    <3> QED
      BY <3>1, <3>2 DEF BufferOwned
  <2> QED
    BY <2>1
<1>5. Asked(queued) = InMailbox
  <2>1. Len(queued) = Len(replies) /\ \A i \in 1 .. Len(replies) : queued[i] = heap[replies[i]]
    BY <1>4
  <2> QED
    BY <2>1 DEF Asked, InMailbox
<1>6. Pending = Asked(sent \o InHand \o queued)
  BY DEF Pending, Asked
<1> HIDE DEF queued, sent
<1>7. /\ Asked(sent) \in Seq(Asks) /\ Len(Asked(sent)) <= RingFrames
      /\ InThread \in Seq(Asks)
      /\ Asked(queued) \in Seq(Asks) /\ Len(Asked(queued)) = Len(replies)
  BY <1>1, <1>3, <1>4, AskedType DEF InThread
<1>8. Asked(sent \o InHand \o queued) = (Asked(sent) \o InThread) \o Asked(queued)
  <2>1. sent \o InHand \in Seq(Frames)
    BY <1>1, <1>3, ConcatProperties
  <2>2. Asked((sent \o InHand) \o queued) = Asked(sent \o InHand) \o Asked(queued)
    BY <2>1, <1>4, AskedConcat
  <2>3. Asked(sent \o InHand) = Asked(sent) \o InThread
    BY <1>1, <1>3, AskedConcat DEF InThread
  <2> QED
    BY <2>2, <2>3
<1>s. /\ InThread \in Seq(Asks) /\ Len(InThread) = Len(InHand)
      /\ \A i \in 1 .. Len(InHand) : InThread[i] = Request(InHand[i])
  <2> DEFINE s == InHand
  <2>1. s \in Seq(Frames)
    BY <1>3
  <2> HIDE DEF s
  <2>2. /\ Asked(s) \in Seq(Asks) /\ Len(Asked(s)) = Len(s)
        /\ \A i \in 1 .. Len(s) : Asked(s)[i] = Request(s[i])
    BY <2>1, AskedType
  <2> QED
    BY <2>2 DEF s, InThread
<1>9. /\ ~Handing => InThread = <<>>
      /\ Handing => InThread = <<Request(heap[buffer["Server"]])>>
  <2>1. CASE Handing
    <3>1. InHand = <<heap[buffer["Server"]]>>
      BY <2>1, <1>3
    <3>2. Len(InHand) = 1 /\ InHand[1] = heap[buffer["Server"]]
      BY <3>1
    <3>3. InThread \in Seq(Asks) /\ Len(InThread) = 1
          /\ InThread[1] = Request(heap[buffer["Server"]])
      BY <3>2, <1>s
    <3> QED
      BY <2>1, <3>3
  <2>2. CASE ~Handing
    <3>1. InHand = <<>>
      BY <2>2, <1>3
    <3>2. Len(InHand) = 0
      BY <3>1
    <3>3. InThread \in Seq(Asks) /\ Len(InThread) = 0
      BY <3>2, <1>s
    <3> QED
      BY <2>2, <3>3, EmptySeq
  <2> QED
    BY <2>1, <2>2
<1>10. Asked(sent) = InRing /\ Asked(queued) = InMailbox
  BY <1>5 DEF InRing, sent
<1> QED
  BY <1>6, <1>7, <1>8, <1>9, <1>10 DEF Parts

LEMMA PartsNext == Types' /\ BufferOwned' /\ Kinds' => Parts'
  BY PendingParts, PTL

\* Moving an element between three sequences that follow one another.
LEMMA AsksRegrouped ==
  \A u, v, w \in Seq(Asks) : (u \o v) \o w = u \o (v \o w)
<1> TAKE u, v, w \in Seq(Asks)
<1> QED
  BY ConcatAssociative

LEMMA OneMore ==
  ASSUME NEW a \in Seq(Asks), NEW b \in Seq(Asks), NEW x \in Asks
  PROVE  a \o (b \o <<x>>) = Append(a \o b, x)
<1> DEFINE l == <<x>>
<1>1. l \in Seq(Asks) /\ a \o b \in Seq(Asks)
  BY ConcatProperties
<1>2. Append(a \o b, x) = (a \o b) \o l
  BY <1>1, AppendIsConcat
<1> HIDE DEF l
<1>3. (a \o b) \o l = a \o (b \o l)
  BY <1>1, AsksRegrouped, Zenon
<1> QED
  BY <1>2, <1>3 DEF l

LEMMA MovedUp ==
  ASSUME NEW a \in Seq(Asks), NEW b \in Seq(Asks), NEW c \in Seq(Asks)
  PROVE  /\ (a \o b) \o c = (a \o <<>>) \o (b \o c)
         /\ ((a \o b) \o <<>>) \o c = (a \o b) \o c
<1>1. a \o <<>> = a /\ (a \o b) \o <<>> = a \o b
  BY ConcatProperties, ConcatEmptySeq
<1>2. (a \o b) \o c = a \o (b \o c)
  BY AsksRegrouped, Zenon
<1> QED
  BY <1>1, <1>2

LEMMA OneLess ==
  ASSUME NEW a \in Seq(Asks), NEW b \in Seq(Asks), NEW x \in Asks
  PROVE  /\ Len(a) + 1 \in 1 .. Len((a \o <<x>>) \o b)
         /\ Reflector!RemoveAt((a \o <<x>>) \o b, Len(a) + 1) = (a \o <<>>) \o b
<1> DEFINE l == a \o <<x>>
           s == l \o b
           m == Len(a)
           n == Len(b)
<1>1. /\ l \in Seq(Asks) /\ Len(l) = m + 1 /\ l[m + 1] = x
      /\ \A i \in 1 .. m : l[i] = a[i]
      /\ m \in Nat /\ n \in Nat
  <2>1. l = Append(a, x)
    BY AppendIsConcat
  <2> HIDE DEF l
  <2> QED
    BY <2>1, AppendProperties, LenProperties
<1> HIDE DEF l
<1>2. /\ s \in Seq(Asks) /\ Len(s) = m + 1 + n
      /\ \A i \in 1 .. m + 1 + n : s[i] = IF i <= m + 1 THEN l[i] ELSE b[i - (m + 1)]
  BY <1>1, ConcatProperties
<1> HIDE DEF s
<1>3. \A i \in 1 .. m + 1 + n : s[i] \in Asks
  BY <1>2, ElementOfSeq
<1> DEFINE p == SubSeq(s, 1, m)
           q == SubSeq(s, m + 2, m + 1 + n)
<1>4. p = a
  <2>1. /\ p \in Seq(Asks) /\ Len(p) = m
        /\ \A i \in 1 .. m : p[i] = s[i]
    <3>1. 1 \in Int /\ m \in Int /\ \A i \in 1 .. m : s[i] \in Asks
      BY <1>1, <1>3
    <3>2. /\ p \in Seq(Asks) /\ Len(p) = (IF 1 <= m THEN m - 1 + 1 ELSE 0)
          /\ \A i \in 1 .. m - 1 + 1 : p[i] = s[1 + i - 1]
      <4> HIDE DEF m
      <4> QED
        BY <3>1, SubSeqProperties
    <3> HIDE DEF p, m
    <3> QED
      BY <3>2, <1>1
  <2>2. \A i \in 1 .. m : p[i] = a[i]
    BY <2>1, <1>1, <1>2
  <2> HIDE DEF p
  <2> QED
    BY <2>1, <2>2, SeqEqual
<1>5. q = b
  <2>1. /\ q \in Seq(Asks) /\ Len(q) = n
        /\ \A i \in 1 .. n : q[i] = s[m + 1 + i]
    <3>1. m + 2 \in Int /\ m + 1 + n \in Int /\ \A i \in m + 2 .. m + 1 + n : s[i] \in Asks
      BY <1>1, <1>3
    <3>2. /\ q \in Seq(Asks)
          /\ Len(q) = (IF m + 2 <= m + 1 + n THEN (m + 1 + n) - (m + 2) + 1 ELSE 0)
          /\ \A i \in 1 .. (m + 1 + n) - (m + 2) + 1 : q[i] = s[(m + 2) + i - 1]
      <4> HIDE DEF m, n
      <4> QED
        BY <3>1, SubSeqProperties
    <3> HIDE DEF q, m, n
    <3>3. (m + 1 + n) - (m + 2) + 1 = n /\ (m + 2 <= m + 1 + n <=> 1 <= n)
      BY <1>1
    <3>4. \A i \in 1 .. n : (m + 2) + i - 1 = m + 1 + i
      BY <1>1
    <3> QED
      BY <3>2, <3>3, <3>4, <1>1
  <2>2. \A i \in 1 .. n : q[i] = b[i]
    <3> TAKE i \in 1 .. n
    <3>1. m + 1 + i \in 1 .. m + 1 + n /\ ~(m + 1 + i <= m + 1) /\ (m + 1 + i) - (m + 1) = i
      BY <1>1
    <3> HIDE DEF q, m, n
    <3> QED
      BY <2>1, <3>1, <1>2
  <2> HIDE DEF q
  <2> QED
    BY <2>1, <2>2, SeqEqual
<1>6. Reflector!RemoveAt(s, m + 1) = p \o q
  <2>1. (m + 1) - 1 = m /\ (m + 1) + 1 = m + 2 /\ Len(s) = m + 1 + n
    BY <1>1, <1>2
  <2> HIDE DEF m, n
  <2> QED
    BY <2>1 DEF Reflector!RemoveAt
<1>7. m + 1 \in 1 .. Len(s)
  BY <1>1, <1>2
<1>8. a \o <<>> = a
  BY ConcatEmptySeq
<1> QED
  BY <1>4, <1>5, <1>6, <1>7, <1>8 DEF s, l

LEMMA FirstGone ==
  \A a, b, c \in Seq(Asks) : \A x \in Asks : \A z :
    z = ((<<x>> \o a) \o b) \o c =>
      z # <<>> /\ Head(z) = x /\ Tail(z) = (a \o b) \o c
<1> TAKE a, b, c \in Seq(Asks)
<1> TAKE x \in Asks
<1> DEFINE l == <<x>>
           d == a \o b
           r == d \o c
           s == l \o r
<1>0. l \in Seq(Asks) /\ Len(l) = 1 /\ l[1] = x
  OBVIOUS
<1>d. l \in Seq(Asks)
  BY <1>0
<1> HIDE DEF l
<1>a. d \in Seq(Asks)
  BY ConcatProperties
<1>b. (l \o a) \o b = l \o d
  BY <1>d, AsksRegrouped, Zenon
<1> HIDE DEF d
<1>1. r \in Seq(Asks)
  BY <1>a, ConcatProperties
<1>c. (l \o d) \o c = l \o (d \o c)
  <2>1. \A u \in Seq(Asks) : (l \o u) \o c = l \o (u \o c)
    BY <1>d, AsksRegrouped, Zenon
  <2> QED
    BY <1>a, <2>1, Zenon
<1>2. ((l \o a) \o b) \o c = s
  BY <1>b, <1>c DEF d
<1> HIDE DEF r
<1>3. /\ s \in Seq(Asks) /\ Len(s) = 1 + Len(r) /\ Len(r) \in Nat
      /\ \A i \in 1 .. 1 + Len(r) : s[i] = IF i <= 1 THEN l[i] ELSE r[i - 1]
  <2>1. /\ s \in Seq(Asks) /\ Len(s) = Len(l) + Len(r)
        /\ \A i \in 1 .. Len(l) + Len(r) : s[i] = IF i <= Len(l) THEN l[i] ELSE r[i - Len(l)]
    BY <1>d, <1>1, ConcatProperties
  <2>2. Len(r) \in Nat
    BY <1>1, LenProperties
  <2> HIDE DEF s
  <2> QED
    BY <1>0, <2>1, <2>2
<1> HIDE DEF s
<1>4. s # <<>> /\ Head(s) = x
  BY <1>0, <1>3
<1>5. Tail(s) = r
  <2> DEFINE t == Tail(s)
  <2>1. t \in Seq(Asks) /\ Len(t) = Len(s) - 1 /\ \A i \in 1 .. Len(t) : t[i] = s[i + 1]
    BY <1>3, <1>4, HeadTailProperties
  <2>2. Len(t) = Len(r) /\ \A i \in 1 .. Len(t) : t[i] = r[i]
    <3>1. Len(t) = Len(r)
      BY <2>1, <1>3
    <3>2. \A i \in 1 .. Len(r) : i + 1 \in 1 .. 1 + Len(r) /\ ~(i + 1 <= 1) /\ (i + 1) - 1 = i
      BY <1>3
    <3> HIDE DEF t
    <3> QED
      BY <2>1, <3>1, <3>2, <1>3
  <2> HIDE DEF t
  <2>3. t = r
    BY <2>1, <2>2, <1>1, SeqEqual
  <2> QED
    BY <2>3 DEF t
<1> QED
  BY <1>2, <1>4, <1>5 DEF l, r, d

\* What the hosts see.
Seen == IF wire # None /\ IsReply(wire) THEN Request(wire) ELSE None

\* What a step that leaves a place alone leaves pending there.
LEMMA PlacesKept ==
  ASSUME Types, Types', BufferOwned, BufferOwned', \A b \in Blocks : Stays(b)
  PROVE  /\ UNCHANGED line => InRing' = InRing
         /\ UNCHANGED replies => InMailbox' = InMailbox
         /\ Handing /\ Handing' /\ buffer'["Server"] = buffer["Server"] =>
              Request(heap'[buffer'["Server"]]) = Request(heap[buffer["Server"]])
<1>0. "Server" \in Threads
  BY DEF Threads
<1>1. UNCHANGED line => InRing' = InRing
  BY DEF InRing, Asked
<1>2. ASSUME UNCHANGED replies
      PROVE  InMailbox' = InMailbox
  <2>1. ASSUME NEW i \in 1 .. Len(replies)
        PROVE  Request(heap'[replies'[i]]) = Request(heap[replies[i]])
    <3>1. replies[i] \in Blocks /\ replies'[i] = replies[i]
      BY <1>2, ElementOfSeq DEF Types, TypeOK
    <3>2. heap[replies[i]] # None /\ heap'[replies[i]] # None
      BY <1>2, <3>1 DEF BufferOwned
    <3> QED
      BY <3>1, <3>2 DEF Stays
  <2> QED
    BY <1>2, <2>1 DEF InMailbox
<1>3. ASSUME Handing, Handing', buffer'["Server"] = buffer["Server"]
      PROVE  Request(heap'[buffer'["Server"]]) = Request(heap[buffer["Server"]])
  <2>1. buffer["Server"] \in Blocks
    BY <1>0, <1>3, InBuffer DEF Handing
  <2>2. heap[buffer["Server"]] # None /\ heap'[buffer["Server"]] # None
    BY <1>0, <1>3, <2>1 DEF BufferOwned
  <2> QED
    BY <1>3, <2>1, <2>2 DEF Stays
<1> QED
  BY <1>1, <1>2, <1>3

\* A step that moves no reply changes nothing that is pending.
LEMMA NothingMoves ==
  ASSUME Types, Types', BufferOwned, BufferOwned', Kinds, Kinds', \A b \in Blocks : Stays(b),
         UNCHANGED <<replies, line>>,
         Handing <=> Handing', Handing => buffer'["Server"] = buffer["Server"]
  PROVE  Pending' = Pending
<1>1. /\ Pending = (InRing \o InThread) \o InMailbox
      /\ ~Handing => InThread = <<>>
      /\ Handing => InThread = <<Request(heap[buffer["Server"]])>>
  BY PendingParts, PartsNext DEF Parts
<1>2. /\ Pending' = (InRing' \o InThread') \o InMailbox'
      /\ ~Handing' => InThread' = <<>>
      /\ Handing' => InThread' = <<Request(heap'[buffer'["Server"]])>>
  BY PendingParts, PartsNext DEF Parts
<1>3. InRing' = InRing /\ InMailbox' = InMailbox
  BY PlacesKept
<1>4. Handing => Request(heap'[buffer'["Server"]]) = Request(heap[buffer["Server"]])
  BY PlacesKept
<1>5. InThread' = InThread
  <2>1. CASE Handing
    BY <2>1, <1>1, <1>2, <1>4
  <2>2. CASE ~Handing
    BY <2>2, <1>1, <1>2
  <2> QED
    BY <2>1, <2>2
<1> QED
  BY <1>1, <1>2, <1>3, <1>5

\* A reply that is queued is a request taken ...
LEMMA QueuedIsTaken ==
  ASSUME Types, Types', BufferOwned, BufferOwned', Kinds, Kinds', \A b \in Blocks : Stays(b),
         posting # None, Len(replies) < RepliesSize, replies' = Append(replies, posting),
         UNCHANGED <<heap, pc, buffer, stage, line>>
  PROVE  /\ Request(heap[posting]) \in Reflected
         /\ Len(Pending) < RepliesSize + 1 + RingFrames
         /\ Pending' = Append(Pending, Request(heap[posting]))
<1> DEFINE x == Request(heap[posting])
<1>1. x \in Reflected
  BY DEF Kinds
<1>2. x \in Asks
  <2>1. posting \in Blocks /\ heap[posting] \in Frames
    BY DEF Types, TypeOK, BufferOwned
  <2> QED
    BY <2>1 DEF Asks
<1>3. /\ Pending = (InRing \o InThread) \o InMailbox
      /\ InRing \in Seq(Asks) /\ InThread \in Seq(Asks) /\ InMailbox \in Seq(Asks)
      /\ Len(InRing) <= RingFrames /\ Len(InMailbox) = Len(replies)
  BY PendingParts, PartsNext DEF Parts
<1>4. Len(InThread) <= 1
  <2>1. \/ InThread = <<>>
        \/ InThread = <<Request(heap[buffer["Server"]])>>
    BY PendingParts, PartsNext DEF Parts
  <2>2. Len(<<>>) = 0 /\ \A y : Len(<<y>>) = 1
    OBVIOUS
  <2> DEFINE n == Len(InThread)
  <2>3. n = 0 \/ n = 1
    BY <2>1, <2>2, Zenon
  <2> HIDE DEF n
  <2>4. n <= 1
    BY <2>3
  <2> QED
    BY <2>4 DEF n
<1>5. Pending' = (InRing' \o InThread') \o InMailbox'
  BY PendingParts, PartsNext DEF Parts
<1>6. InRing' = InRing /\ InThread' = InThread
  BY DEF InRing, InThread, Asked, InHand
<1>7. InMailbox' = Append(InMailbox, x)
  <2>1. /\ posting \in Blocks /\ replies \in Seq(Blocks)
    BY DEF Types, TypeOK
  <2>2. /\ Len(replies') = Len(replies) + 1 /\ Len(replies) \in Nat
        /\ \A i \in 1 .. Len(replies) : replies'[i] = replies[i]
        /\ replies'[Len(replies) + 1] = posting
    BY <2>1
  <2> DEFINE e == Append(InMailbox, x)
  <2>3. /\ e \in Seq(Asks) /\ Len(e) = Len(replies) + 1
        /\ \A i \in 1 .. Len(replies) : e[i] = InMailbox[i]
        /\ e[Len(replies) + 1] = x
    <3>1. Len(InMailbox) = Len(replies) /\ InMailbox \in Seq(Asks)
      BY <1>3
    <3> HIDE DEF x
    <3> QED
      BY <3>1, <1>2, AppendProperties
  <2>4. InMailbox' \in Seq(Asks) /\ Len(InMailbox') = Len(replies')
    BY PendingParts, PartsNext DEF Parts
  <2>5. /\ \A i \in 1 .. Len(replies) : InMailbox[i] = Request(heap[replies[i]])
        /\ \A i \in 1 .. Len(replies') : InMailbox'[i] = Request(heap[replies'[i]])
    BY DEF InMailbox
  <2> HIDE DEF e
  <2>6. \A i \in 1 .. Len(replies) + 1 : InMailbox'[i] = e[i]
    <3> TAKE i \in 1 .. Len(replies) + 1
    <3>1. CASE i = Len(replies) + 1
      BY <3>1, <2>2, <2>3, <2>5
    <3>2. CASE i \in 1 .. Len(replies)
      BY <3>2, <2>2, <2>3, <2>5
    <3> QED
      BY <3>1, <3>2, <2>2
  <2>7. InMailbox' = e
    BY <2>2, <2>3, <2>4, <2>6, SeqEqual
  <2> QED
    BY <2>7 DEF e
<1> HIDE DEF x
<1>8. InRing \o InThread \in Seq(Asks)
  BY <1>3, ConcatProperties
<1> DEFINE a == InRing \o InThread
           b == InMailbox
<1>9. a \in Seq(Asks) /\ b \in Seq(Asks)
  BY <1>3, <1>8
<1>10. Pending = a \o b /\ Pending' = a \o Append(b, x)
  BY <1>3, <1>5, <1>6, <1>7
<1>11. Len(Pending) < RepliesSize + 1 + RingFrames
  <2>1. Len(a) = Len(InRing) + Len(InThread) /\ Len(Pending) = Len(a) + Len(b)
    <3>1. Len(a) = Len(InRing) + Len(InThread)
      BY <1>3, ConcatProperties
    <3> HIDE DEF a, b
    <3>2. Len(a \o b) = Len(a) + Len(b)
      BY <1>9, ConcatProperties
    <3> QED
      BY <3>1, <3>2, <1>10
  <2>2. Len(InRing) \in Nat /\ Len(InThread) \in Nat /\ Len(b) = Len(replies) /\ Len(replies) \in Nat
    BY <1>3, LenProperties DEF Types, TypeOK
  <2> HIDE DEF a, b
  <2> QED
    BY <2>1, <2>2, <1>3, <1>4, SizeAssumption
<1> HIDE DEF a, b
<1>12. a \o Append(b, x) = Append(a \o b, x)
  <2>1. Append(b, x) = b \o <<x>>
    BY <1>2, <1>9, AppendIsConcat
  <2>2. a \o (b \o <<x>>) = Append(a \o b, x)
    BY <1>2, <1>9, OneMore
  <2> QED
    BY <2>1, <2>2, Zenon
<1> QED
  BY <1>1, <1>10, <1>11, <1>12 DEF x

\* ... and serverThread takes the first of them.
LEMMA ReceivedIsPending ==
  ASSUME Types, Types', BufferOwned, BufferOwned', Kinds, Kinds', ReceiveReply
  PROVE  Pending' = Pending
<1>1. /\ pc["Server"] = "Idle" /\ replies # <<>> /\ replies' = Tail(replies)
      /\ buffer' = [buffer EXCEPT !["Server"] = Head(replies)]
      /\ pc' = [pc EXCEPT !["Server"] = "Ident"]
      /\ UNCHANGED <<heap, stage, line>>
  BY DEF ReceiveReply, ethVars
<1>2. /\ replies \in Seq(Blocks) /\ pc \in [Threads -> Stages] /\ "Server" \in Threads
      /\ buffer \in [Threads -> Blocks \union {None}]
      /\ stage["Server"] # "Accepted"
  BY <1>1 DEF Types, TypeOK, Threads
<1>3. ~Handing /\ Handing' /\ buffer'["Server"] = Head(replies)
  BY <1>1, <1>2 DEF Handing
<1> DEFINE x == Request(heap[Head(replies)])
<1>4. InThread = <<>> /\ InThread' = <<x>>
  <2>1. InThread = <<>>
    BY <1>3, PendingParts, PartsNext DEF Parts
  <2>2. InThread' = <<Request(heap'[buffer'["Server"]])>>
    BY <1>3, PendingParts, PartsNext DEF Parts
  <2> QED
    BY <2>1, <2>2, <1>1, <1>3
<1>5. InRing' = InRing
  BY <1>1 DEF InRing, Asked
<1>6. /\ Pending = (InRing \o InThread) \o InMailbox
      /\ Pending' = (InRing' \o InThread') \o InMailbox'
      /\ InRing \in Seq(Asks) /\ InMailbox \in Seq(Asks) /\ InMailbox' \in Seq(Asks)
      /\ Len(InMailbox) = Len(replies) /\ Len(InMailbox') = Len(replies')
      /\ InThread' \in Seq(Asks)
  BY PendingParts, PartsNext DEF Parts
<1>7. /\ Len(replies) \in Nat \ {0} /\ Len(replies') = Len(replies) - 1
      /\ \A i \in 1 .. Len(replies') : replies'[i] = replies[i + 1]
      /\ Head(replies) = replies[1]
  BY <1>1, <1>2
<1> DEFINE l == <<x>>
           c == InMailbox'
           b == InMailbox
<1>8. b = l \o c
  <2>1. l \in Seq(Asks) /\ Len(l) = 1 /\ l[1] = x
    BY <1>4, <1>6
  <2>2. /\ \A i \in 1 .. Len(replies) : b[i] = Request(heap[replies[i]])
        /\ \A i \in 1 .. Len(replies') : c[i] = Request(heap[replies'[i]])
    BY <1>1 DEF InMailbox
  <2>3. c \in Seq(Asks) /\ b \in Seq(Asks) /\ Len(b) = Len(replies) /\ Len(c) = Len(replies')
    BY <1>6
  <2> HIDE DEF l, b, c
  <2> DEFINE m == l \o c
  <2>4. /\ m \in Seq(Asks) /\ Len(m) = Len(l) + Len(c)
        /\ \A i \in 1 .. Len(l) + Len(c) : m[i] = IF i <= Len(l) THEN l[i] ELSE c[i - Len(l)]
    <3>1. l \in Seq(Asks) /\ c \in Seq(Asks)
      BY <2>1, <2>3
    <3> QED
      BY <3>1, ConcatProperties
  <2> HIDE DEF m
  <2>5. \A i \in 1 .. Len(b) : b[i] = m[i]
    <3> TAKE i \in 1 .. Len(b)
    <3>1. CASE i = 1
      <4>1. 1 \in 1 .. Len(replies) /\ 1 \in 1 .. Len(l) + Len(c) /\ 1 <= Len(l)
        BY <1>7, <2>1, <2>3
      <4>2. b[1] = Request(heap[replies[1]]) /\ m[1] = x
        BY <4>1, <2>1, <2>2, <2>4
      <4> QED
        BY <3>1, <4>2, <1>7
    <3>2. CASE i # 1
      <4>1. /\ i - 1 \in 1 .. Len(replies') /\ i \in 1 .. Len(l) + Len(c) /\ ~(i <= Len(l))
            /\ (i - 1) + 1 = i /\ i - Len(l) = i - 1 /\ i \in 1 .. Len(replies)
        BY <3>2, <1>7, <2>1, <2>3
      <4>2. replies'[i - 1] = replies[(i - 1) + 1]
        BY <4>1, <1>7
      <4> QED
        BY <4>1, <4>2, <2>2, <2>4
    <3> QED
      BY <3>1, <3>2
  <2>6. Len(b) = Len(m)
    BY <1>7, <2>1, <2>3, <2>4
  <2>7. b = m
    BY <2>3, <2>4, <2>5, <2>6, SeqEqual
  <2> QED
    BY <2>7 DEF m
<1>9. l \in Seq(Asks) /\ c \in Seq(Asks)
  BY <1>4, <1>6
<1> DEFINE a == InRing
<1>10. a \in Seq(Asks) /\ Pending = (a \o <<>>) \o b /\ Pending' = (a \o l) \o c
  BY <1>4, <1>5, <1>6
<1> HIDE DEF a, b, c, l
<1>11. (a \o l) \o c = (a \o <<>>) \o (l \o c)
  BY <1>9, <1>10, MovedUp
<1> QED
  BY <1>8, <1>10, <1>11

\* A reply in the hands of serverThread moves into the ring ...
LEMMA AcceptedIsPending ==
  ASSUME Types, Types', BufferOwned, BufferOwned', Kinds, Kinds', FrameStable,
         NEW t \in Threads, Accept(t)
  PROVE  Pending' = Pending
<1>1. /\ stage[t] = "Offered" /\ stage' = [stage EXCEPT ![t] = "Accepted"]
      /\ line' = Append(line, offered[t])
      /\ UNCHANGED <<heap, replies, pc, buffer>>
  BY DEF Accept, Eth!Accept, OutsideEth
<1>2. /\ offered[t] = heap[buffer[t]] /\ offered[t] \in Frames /\ line \in Seq(Frames)
      /\ pc[t] = "Send" /\ stage \in [Threads -> {"Idle", "Offered", "Accepted"}]
  BY <1>1 DEF FrameStable, Types, TypeOK, TypesBelow
<1> DEFINE f == offered[t]
           a == InRing
           c == InMailbox
<1>3. Replies(line') = IF IsReply(f) THEN Append(Replies(line), f) ELSE Replies(line)
  BY <1>1, <1>2, RepliesAppend
<1>4. /\ a \in Seq(Asks) /\ c \in Seq(Asks) /\ c' = c
      /\ Pending = (a \o InThread) \o c
      /\ Pending' = (a' \o InThread') \o c
  <2>1. c' = c
    BY <1>1 DEF InMailbox
  <2> QED
    BY <2>1, PendingParts, PartsNext DEF Parts
<1>5. CASE t = "User"
  <2>1. ~IsReply(f)
    BY <1>5, <1>2 DEF Kinds
  <2>2. a' = a
    BY <2>1, <1>3 DEF InRing
  <2>3. stage'["Server"] = stage["Server"]
    BY <1>1, <1>2, <1>5 DEF Threads
  <2>4. InThread' = InThread
    BY <1>1, <2>3 DEF InThread, Asked, InHand
  <2> QED
    BY <1>4, <2>2, <2>4
<1>6. CASE t = "Server"
  <2> DEFINE x == Request(heap[buffer["Server"]])
  <2>1. IsReply(f) /\ Request(f) = x
    BY <1>6, <1>2 DEF Kinds
  <2>2. a' = a \o <<x>>
    <3> DEFINE r == Replies(line)
               l == <<f>>
    <3>1. r \in Seq(Frames) /\ l \in Seq(Frames)
      BY <1>2, RepliesAreFrames
    <3>2. Replies(line') = r \o l
      <4>1. Append(r, f) = r \o l
        BY <1>2, <3>1, AppendIsConcat
      <4> QED
        BY <4>1, <1>3, <2>1
    <3>3. Asked(l) = <<Request(f)>>
      BY DEF Asked
    <3> HIDE DEF r, l
    <3>4. Asked(r \o l) = Asked(r) \o Asked(l)
      BY <3>1, AskedConcat
    <3>5. a' = Asked(Replies(line')) /\ a = Asked(r)
      BY DEF InRing, r
    <3> HIDE DEF f, a, x
    <3> QED
      BY <2>1, <3>2, <3>3, <3>4, <3>5
  <2>3. Handing /\ ~Handing'
    BY <1>1, <1>2, <1>6 DEF Handing, Threads
  <2>4. InThread = <<x>> /\ InThread' = <<>>
    BY <2>3, PendingParts, PartsNext DEF Parts
  <2>5. x \in Asks
    BY <1>2, <2>1 DEF Asks
  <2> DEFINE l == <<x>>
  <2>6. l \in Seq(Asks)
    BY <2>5
  <2>7. Pending = (a \o l) \o c /\ Pending' = ((a \o l) \o <<>>) \o c
    <3> HIDE DEF x, a, c
    <3> QED
      BY <1>4, <2>2, <2>4
  <2> HIDE DEF a, c, l
  <2>8. ((a \o l) \o <<>>) \o c = (a \o l) \o c
    BY <1>4, <2>6, MovedUp
  <2> QED
    BY <2>7, <2>8
<1> QED
  BY <1>5, <1>6 DEF Threads

\* ... or is lost.
LEMMA UnresolvedIsLost ==
  ASSUME Types, Types', BufferOwned, BufferOwned', Kinds, Kinds', Unresolved("Server")
  PROVE  \E i \in 1 .. Len(Pending) : Pending' = Reflector!RemoveAt(Pending, i)
<1>1. /\ pc["Server"] = "Resolve" /\ pc' = [pc EXCEPT !["Server"] = "Delete"]
      /\ UNCHANGED <<heap, replies, line>>
  BY DEF Unresolved, ethVars
<1>2. Handing /\ ~Handing'
  BY <1>1 DEF Handing, Types, TypeOK, Threads
<1> DEFINE x == Request(heap[buffer["Server"]])
           a == InRing
           c == InMailbox
<1>3. InThread = <<x>> /\ InThread' = <<>>
  BY <1>2, PendingParts, PartsNext DEF Parts
<1>4. /\ a \in Seq(Asks) /\ c \in Seq(Asks)
      /\ Pending = (a \o InThread) \o c
      /\ Pending' = (a \o InThread') \o c
  <2>1. a' = a /\ c' = c
    BY <1>1 DEF InRing, Asked, InMailbox
  <2> QED
    BY <2>1, PendingParts, PartsNext DEF Parts
<1>5. x \in Asks
  <2>1. heap[buffer["Server"]] \in Frames
    BY <1>1, InBuffer DEF Threads
  <2> QED
    BY <2>1 DEF Asks
<1> HIDE DEF a, c, x
<1>6. Pending = (a \o <<x>>) \o c /\ Pending' = (a \o <<>>) \o c
  BY <1>3, <1>4
<1>7. /\ Len(a) + 1 \in 1 .. Len((a \o <<x>>) \o c)
      /\ Reflector!RemoveAt((a \o <<x>>) \o c, Len(a) + 1) = (a \o <<>>) \o c
  BY <1>4, <1>5, OneLess
<1> QED
  BY <1>6, <1>7

\* The reply that is transmitted is the first that is pending.
LEMMA TransmittedIsFirst ==
  ASSUME Types, Types', BufferOwned, BufferOwned', Kinds, Kinds', Transmit
  PROVE  IF IsReply(Head(line))
           THEN Pending # <<>> /\ Seen' = Head(Pending) /\ Pending' = Tail(Pending)
           ELSE Seen' = None /\ Pending' = Pending
<1>1. /\ line # <<>> /\ wire' = Head(line) /\ line' = Tail(line)
      /\ UNCHANGED <<heap, replies, pc, buffer, stage>>
  BY DEF Transmit, Eth!Transmit, OutsideEth
<1> DEFINE f == Head(line)
           x == Request(f)
           r == Replies(line')
           a == InRing
           b == InThread
           c == InMailbox
<1>2. line \in Seq(Frames) /\ line' \in Seq(Frames) /\ f \in Frames /\ None \notin Frames
  BY <1>1, FrameAssumption DEF Types, TypesBelow
<1>3. Replies(line) = (IF IsReply(f) THEN <<f>> ELSE <<>>) \o r
  BY <1>1, <1>2, RepliesFromHead
<1>4. /\ a' \in Seq(Asks) /\ b \in Seq(Asks) /\ c \in Seq(Asks)
      /\ Pending = (a \o b) \o c
      /\ Pending' = (a' \o b) \o c
  <2>1. b' = b /\ c' = c
    BY <1>1 DEF InThread, Asked, InHand, InMailbox
  <2> QED
    BY <2>1, PendingParts, PartsNext DEF Parts
<1>5. Seen' = IF IsReply(f) THEN x ELSE None
  BY <1>1, <1>2 DEF Seen
<1>6. r \in Seq(Frames)
  BY <1>2, RepliesAreFrames
<1>7. a = Asked(Replies(line)) /\ a' = Asked(r)
  BY DEF InRing
<1>8. CASE IsReply(f)
  <2> DEFINE l == <<f>>
  <2>1. l \in Seq(Frames) /\ Asked(l) = <<x>> /\ x \in Asks
    BY <1>2 DEF Asked, Asks
  <2>2. Replies(line) = l \o r
    BY <1>3, <1>8
  <2> HIDE DEF l, r, x
  <2>3. Asked(l \o r) = Asked(l) \o Asked(r)
    BY <1>6, <2>1, AskedConcat
  <2>4. a = <<x>> \o a'
    BY <1>7, <2>1, <2>2, <2>3
  <2> DEFINE p == a'
  <2>5. p \in Seq(Asks) /\ Pending = ((<<x>> \o p) \o b) \o c /\ Pending' = (p \o b) \o c
    BY <1>4, <2>4
  <2> HIDE DEF a, b, c, p
  <2>6. Pending # <<>> /\ Head(Pending) = x /\ Tail(Pending) = (p \o b) \o c
    <3>1. p \in Seq(Asks) /\ b \in Seq(Asks) /\ c \in Seq(Asks) /\ x \in Asks
      BY <1>4, <2>1, <2>5
    <3>2. \A z : z = ((<<x>> \o p) \o b) \o c =>
                  z # <<>> /\ Head(z) = x /\ Tail(z) = (p \o b) \o c
      BY <3>1, FirstGone, SMT
    <3> QED
      BY <2>5, <3>2
  <2> QED
    BY <1>5, <1>8, <2>5, <2>6
<1>9. CASE ~IsReply(f)
  <2>1. Replies(line) = <<>> \o r
    BY <1>3, <1>9
  <2> HIDE DEF r
  <2>2. Replies(line) = r
    BY <1>6, <2>1, ConcatEmptySeq
  <2>3. a' = a
    BY <1>7, <2>2
  <2> QED
    BY <1>4, <1>5, <1>9, <2>3
<1> QED
  BY <1>8, <1>9

\* Every step is one of EchoReflector, or none.
LEMMA StepReflects ==
  ASSUME Types, Types', BufferOwned, BufferOwned', Kinds, Kinds', FrameStable, [Next]_vars
  PROVE  [Reflector!Next]_<<Pending, Seen>>
<1>0. /\ \A b \in Blocks : Stays(b)
      /\ "Server" \in Threads /\ "User" \in Threads
  BY MessagesStay DEF Threads
<1>a. /\ pc \in [Threads -> Stages] /\ buffer \in [Threads -> Blocks \union {None}]
      /\ stage \in [Threads -> {"Idle", "Offered", "Accepted"}]
      /\ \A t \in Threads : (pc[t] = "Send") = (stage[t] # "Idle")
  BY DEF Types, TypeOK, TypesBelow
<1>s. UNCHANGED wire => Seen' = Seen
  BY DEF Seen
<1>k. ASSUME UNCHANGED <<replies, line, wire>>,
             Handing <=> Handing', Handing => buffer'["Server"] = buffer["Server"]
      PROVE  UNCHANGED <<Pending, Seen>>
  BY <1>0, <1>s, <1>k, NothingMoves
<1>1. ASSUME UNCHANGED <<replies, line, wire>>,
             pc'["Server"] = pc["Server"], stage'["Server"] = stage["Server"],
             buffer'["Server"] = buffer["Server"]
      PROVE  UNCHANGED <<Pending, Seen>>
  BY <1>1, <1>k DEF Handing
<1>2. CASE PostReply
  <2>1. CASE Len(replies) < RepliesSize
    <3>1. /\ posting # None /\ replies' = Append(replies, posting)
          /\ UNCHANGED <<heap, pc, buffer, stage, line, wire>>
      BY <1>2, <2>1 DEF PostReply, ethVars
    <3>2. Reflector!Take(Request(heap[posting]))
      BY <2>1, <3>1, <1>0, <1>s, QueuedIsTaken DEF Reflector!Take, Seen
    <3>3. Request(heap[posting]) \in {[host |-> m.from, quench |-> m.quench] : m \in Requests}
      BY <2>1, <3>1, <1>0, QueuedIsTaken DEF Reflected
    <3> QED
      BY <3>2, <3>3 DEF Reflector!Next
  <2>2. CASE ~(Len(replies) < RepliesSize)
    BY <1>1, <1>2, <2>2 DEF PostReply, ethVars
  <2> QED
    BY <2>1, <2>2
<1>3. CASE ReceiveReply
  BY <1>3, <1>s, ReceivedIsPending DEF ReceiveReply, ethVars
<1>4. ASSUME NEW host \in Pinged, Ping(host)
      PROVE  UNCHANGED <<Pending, Seen>>
  <2>1. /\ pc' = [pc EXCEPT !["User"] = "Ident"]
        /\ \E b \in Blocks : buffer' = [buffer EXCEPT !["User"] = b]
        /\ UNCHANGED <<replies, stage, line, wire>>
    BY <1>4 DEF Ping, FreeBlocks, ethVars
  <2>2. pc'["Server"] = pc["Server"] /\ buffer'["Server"] = buffer["Server"]
    BY <2>1, <1>0, <1>a
  <2> QED
    BY <2>1, <2>2, <1>1
<1>5. ASSUME SendFrame("User")
      PROVE  UNCHANGED <<Pending, Seen>>
  <2>1. /\ UNCHANGED <<replies, line, wire>>
        /\ \E s \in Stages : pc' = [pc EXCEPT !["User"] = s]
        /\ UNCHANGED buffer \/ buffer' = [buffer EXCEPT !["User"] = None]
        /\ UNCHANGED stage \/ \E s : stage' = [stage EXCEPT !["User"] = s]
    BY <1>5 DEF SendFrame, IncrementIdent, StoreIdent, Seal, Resolved, Unresolved, SendReturns,
                Delete, Stages, ethVars, Eth!Offer, Eth!Return
  <2>2. /\ pc'["Server"] = pc["Server"] /\ buffer'["Server"] = buffer["Server"]
        /\ stage'["Server"] = stage["Server"]
    BY <2>1, <1>0, <1>a
  <2> QED
    BY <2>1, <2>2, <1>1
<1>6. CASE IncrementIdent("Server") \/ StoreIdent("Server") \/ Seal("Server")
  <2>1. /\ pc["Server"] \in {"Ident", "Store", "Seal"}
        /\ \E s \in {"Store", "Seal", "Resolve"} : pc' = [pc EXCEPT !["Server"] = s]
        /\ UNCHANGED <<replies, buffer, stage, line, wire>>
    BY <1>6 DEF IncrementIdent, StoreIdent, Seal, ethVars
  <2>2. Handing /\ Handing'
    BY <2>1, <1>0, <1>a DEF Handing
  <2> QED
    BY <2>1, <2>2, <1>k
<1>7. CASE Resolved("Server")
  <2>1. /\ pc["Server"] = "Resolve" /\ pc' = [pc EXCEPT !["Server"] = "Send"]
        /\ stage["Server"] = "Idle" /\ stage' = [stage EXCEPT !["Server"] = "Offered"]
        /\ UNCHANGED <<replies, buffer, line, wire>>
    BY <1>7 DEF Resolved, Eth!Offer
  <2>2. Handing /\ Handing'
    BY <2>1, <1>0, <1>a DEF Handing
  <2> QED
    BY <2>1, <2>2, <1>k
<1>8. CASE Unresolved("Server")
  <2>1. PICK i \in 1 .. Len(Pending) : Pending' = Reflector!RemoveAt(Pending, i)
    BY <1>8, UnresolvedIsLost
  <2>2. Seen' = Seen
    BY <1>8, <1>s DEF Unresolved, ethVars
  <2>3. Reflector!Lose(i)
    BY <2>1, <2>2 DEF Reflector!Lose, Seen
  <2> QED
    BY <2>3 DEF Reflector!Next
<1>9. CASE SendReturns("Server")
  <2>1. /\ pc["Server"] = "Send" /\ pc' = [pc EXCEPT !["Server"] = "Delete"]
        /\ stage["Server"] = "Accepted" /\ UNCHANGED <<replies, buffer, line, wire>>
    BY <1>9 DEF SendReturns, Eth!Return
  <2>2. ~Handing /\ ~Handing'
    BY <2>1, <1>0, <1>a DEF Handing
  <2> QED
    BY <2>1, <2>2, <1>k
<1>10. CASE Delete("Server")
  <2>1. /\ pc["Server"] = "Delete" /\ pc' = [pc EXCEPT !["Server"] = "Idle"]
        /\ UNCHANGED <<replies, line, wire>>
    BY <1>10 DEF Delete, ethVars
  <2>2. ~Handing /\ ~Handing'
    BY <2>1, <1>0, <1>a DEF Handing
  <2> QED
    BY <2>1, <2>2, <1>k
<1>11. ASSUME NEW t \in Threads, Accept(t)
       PROVE  UNCHANGED <<Pending, Seen>>
  BY <1>11, <1>s, AcceptedIsPending DEF Accept, Eth!Accept
<1>12. CASE Transmit
  <2>1. CASE IsReply(Head(line))
    BY <1>12, <2>1, TransmittedIsFirst DEF Reflector!Next, Reflector!Reflect, Seen
  <2>2. CASE ~IsReply(Head(line))
    BY <1>12, <2>2, TransmittedIsFirst DEF Reflector!Next, Reflector!OwnFrame, Seen
  <2> QED
    BY <2>1, <2>2
<1>13. ASSUME UNCHANGED <<replies, pc, buffer, ethVars>>
       PROVE  UNCHANGED <<Pending, Seen>>
  BY <1>1, <1>13 DEF ethVars
<1>14. ASSUME NEW t \in Threads, SendFrame(t)
       PROVE  [Reflector!Next]_<<Pending, Seen>>
  BY <1>5, <1>6, <1>7, <1>8, <1>9, <1>10, <1>14 DEF SendFrame, Threads
<1> QED
  BY <1>2, <1>3, <1>4, <1>11, <1>12, <1>13, <1>14
  DEF Next, BuildReply, SetEnabled, Answer, OutsideArp, Advertise, vars

\* EchoReflector begins like EchoService.
LEMMA InitReflects == Init => Reflector!Init
<1> SUFFICES ASSUME Init PROVE Reflector!Init
  OBVIOUS
<1>1. Types /\ BufferOwned /\ Kinds
  BY TypeInit, ContentsInit, KindsInit
<1>2. Parts
  BY <1>1, PendingParts
<1>3. replies = <<>> /\ line = <<>> /\ wire = None /\ ~Handing
  BY DEF Init, Eth!Init, Handing, Threads
<1>4. InThread = <<>>
  BY <1>2, <1>3 DEF Parts
<1>5. InMailbox = <<>>
  <2>1. InMailbox \in Seq(Asks) /\ Len(InMailbox) = 0
    BY <1>2, <1>3 DEF Parts
  <2> QED
    BY <2>1, EmptySeq
<1>6. InRing = <<>>
  <2> DEFINE r == Replies(<<>>)
  <2>1. r \in Seq(Frames) /\ Len(r) <= Len(<<>>)
    BY EmptySeq, RepliesAreFrames
  <2>2. Len(r) = 0
    <3>1. Len(r) \in Nat /\ Len(<<>>) = 0
      BY <2>1, LenProperties
    <3> HIDE DEF r
    <3> QED
      BY <2>1, <3>1
  <2>3. r = <<>>
    BY <2>1, <2>2, EmptySeq
  <2>4. Asked(<<>>) = <<>>
    BY DEF Asked
  <2> QED
    BY <2>3, <2>4, <1>3 DEF InRing
<1>7. Pending = <<>>
  <2>1. Pending = (<<>> \o <<>>) \o <<>>
    BY <1>2, <1>4, <1>5, <1>6 DEF Parts
  <2>2. <<>> \o <<>> = <<>>
    BY EmptySeq, ConcatEmptySeq
  <2> QED
    BY <2>1, <2>2
<1> QED
  BY <1>3, <1>7 DEF Reflector!Init

\* No reply goes astray, is doubled or overtakes another, for any number of
\* buffers and hosts and whatever ARP, Ethernet and the menu do: the echo server
\* implements EchoReflector.
THEOREM ReflectsRequests == Spec => AbsSpec
<1>1. IInv /\ Kinds /\ [Next]_vars => Kinds'
  BY TypesStep, OwnersStep, KindsStep DEF IInv
<1>2. Spec => []Kinds
  BY <1>1, KindsInit, Invariance, PTL DEF Spec
<1>3. /\ IInv /\ IInv' /\ Kinds /\ Kinds' /\ [Next]_vars
      => [Reflector!Next]_(Reflector!vars)
  BY StepReflects DEF IInv, Contents, Reflector!vars, Seen
<1> QED
  BY <1>2, <1>3, InitReflects, Invariance, PTL DEF Spec, AbsSpec, Reflector!Spec
=============================================================================
