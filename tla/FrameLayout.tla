---------------------------- MODULE FrameLayout ----------------------------
(***************************************************************************)
(* Where the fields of Ethernet, ARP, IPv4 and ICMP frames are, how the    *)
(* program fills a buffer with them and what it accepts: endian.hpp,       *)
(* ethernet.hpp, arp.hpp, ipaddress.hpp, routingtable.hpp and the frame    *)
(* classes of ip.hpp and icmp.hpp.                                         *)
(*                                                                         *)
(* A buffer is a sequence of bytes.  A frame object, which is a pointer    *)
(* into the buffer and a size, is a record [at, size].                     *)
(***************************************************************************)
EXTENDS InternetChecksum

(***************************************************************************)
(* endian.hpp.  A uint32_t is its two halves.                              *)
(***************************************************************************)
Load8(b, p)  == b[p + 1]
Load16(b, p) == 256 * Load8(b, p) + Load8(b, p + 1)
Load32(b, p) == <<Load16(b, p), Load16(b, p + 2)>>

\* n bytes copied from the buffer, as the address classes do.
Copy(b, p, n) == SubSeq(b, p + 1, p + n)

\* Bytes stored at p of the buffer b: b ++ Store(p, bytes).
Store(p, bytes) == [at |-> p, bytes |-> bytes]
b ++ store ==
  LET behind == store.at + Len(store.bytes)
  IN  Copy(b, 0, store.at) \o store.bytes \o Copy(b, behind, Len(b) - behind)

Big16(w) == <<w \div 256, w % 256>>
Big32(w) == Big16(w[1]) \o Big16(w[2])
----------------------------------------------------------------------------
(***************************************************************************)
(* Ethernet: a header of 14 bytes, and 4 for the CRC at the end.           *)
(***************************************************************************)
EthernetOverhead == 18
EthernetPayload(b) == [at |-> 14, size |-> Len(b) - EthernetOverhead]

EthernetDestination(b) == Copy(b, 0, 6)
EtherType(b) == Load16(b, 12)
TypeARP  == 2054
TypeIPv4 == 2048
EthernetBroadcast == [i \in 1 .. 6 |-> 255]

EthernetHeader(b, destination, source, type) ==
  b ++ Store(12, Big16(type)) ++ Store(0, destination) ++ Store(6, source)
----------------------------------------------------------------------------
(***************************************************************************)
(* ARP for Ethernet and IPv4.                                              *)
(***************************************************************************)
ARPSize == 28

\* Mutant of ARPHeaders: the lengths are swapped.
ARPHeadersSwapped(b, p) ==
  b ++ Store(p, Big16(1)) ++ Store(p + 2, Big16(TypeIPv4)) ++ Store(p + 4, <<4, 6>>)

ARPHeaders(b, p) ==
  b ++ Store(p, Big16(1)) ++ Store(p + 2, Big16(TypeIPv4)) ++ Store(p + 4, <<6, 4>>)

ARPFields(b) ==
  LET p == EthernetPayload(b).at
  IN  [oper  |-> Load16(b, p + 6),
       smac  |-> Copy(b, p + 8, 6),  sip |-> Copy(b, p + 14, 4),
       tmac  |-> Copy(b, p + 18, 6), tip |-> Copy(b, p + 24, 4)]

\* ARPFrame_Eth_IPv4::isValid
ARPValid(b) ==
  LET p == EthernetPayload(b).at
  IN  /\ Load16(b, p) = 1 /\ Load16(b, p + 2) = TypeIPv4
      /\ Load8(b, p + 4) = 6 /\ Load8(b, p + 5) = 4
      /\ ARPFields(b).oper \in {1, 2}

\* ARP_Handler::sendARP in a new buffer that holds `heap`.
SendARP(heap, my, etarget, itarget, oper) ==
  LET p == EthernetPayload(heap).at
  IN  ARPHeaders(EthernetHeader(heap, etarget, my.mac, TypeARP), p)
        ++ Store(p + 6, Big16(oper))
        ++ Store(p + 18, etarget) ++ Store(p + 24, itarget)
        ++ Store(p + 8, my.mac) ++ Store(p + 14, my.ip)
----------------------------------------------------------------------------
(***************************************************************************)
(* IPv4.                                                                   *)
(***************************************************************************)
IPv4Overhead == 20
ProtoICMP == 1
IPv4Broadcast == [i \in 1 .. 4 |-> 255]

HeaderLength(b, ip) == 4 * (Load8(b, ip.at) % 16)
TotalLength(b, ip)  == Load16(b, ip.at + 2)
Fragment(b, ip)     == Load16(b, ip.at + 6)
Protocol(b, ip)     == Load8(b, ip.at + 9)
Source(b, ip)       == Copy(b, ip.at + 12, 4)
Destination(b, ip)  == Copy(b, ip.at + 16, 4)

\* getPayload(), getPayloadSize(): in the integers; a total length below that of
\* the header, which isValid() lets pass, would give a negative size here and a
\* wrapped one in the code.  No frame the properties are about has one.
IPv4Payload(b, ip) ==
  [at |-> ip.at + HeaderLength(b, ip),
   size |-> TotalLength(b, ip) - HeaderLength(b, ip)]

IPv4Checksum(b, ip) == Checksum(Copy(b, ip.at, HeaderLength(b, ip)), 5)

\* Mutant of Unfragmented: only "more fragments" is looked at.
NoMoreFragments(b, ip) == (Fragment(b, ip) \div 8192) % 2 = 0

\* (getFragment() & 0xBFFF) == 0: all but "do not fragment".
Unfragmented(b, ip) == Fragment(b, ip) \in {0, 16384}

\* Mutant of Complete: no room for the padding of short frames.
ExactlyComplete(b, ip) == TotalLength(b, ip) = ip.size

Complete(b, ip) == TotalLength(b, ip) <= ip.size

\* IPv4Frame::isValid
IPv4Valid(b, ip) ==
  /\ Load16(b, ip.at + 10) = IPv4Checksum(b, ip)
  /\ HeaderLength(b, ip) >= 20
  /\ Complete(b, ip)
  /\ Unfragmented(b, ip)

\* IPv4Frame::setHeaders
IPv4Headers(b, ip) ==
  b ++ Store(ip.at, Big16(17664)) ++ Store(ip.at + 2, Big16(ip.size))
    ++ Store(ip.at + 6, Big16(0))

\* IPv4_Handler::processFrame up to the call of its listeners.
IPv4Accepts(b, my) ==
  LET ip == EthernetPayload(b)
  IN  /\ EtherType(b) = TypeIPv4
      /\ IPv4Valid(b, ip)
      /\ Destination(b, ip) \in {IPv4Broadcast, my.ip}

\* IPv4_Handler::sendFrame once the next hop is resolved.
SendFrame(b, my, ident, hop) ==
  LET ip     == EthernetPayload(b)
      filled == b ++ Store(ip.at + 4, Big16(ident % 256)) ++ Store(ip.at + 12, my.ip)
      sealed == filled ++ Store(ip.at + 10, Big16(IPv4Checksum(filled, ip)))
  IN  EthernetHeader(sealed, hop, my.mac, TypeIPv4)

\* x & y of two bytes: the bits that both have.
Bits == <<1, 2, 4, 8, 16, 32, 64, 128>>
And(x, y) ==
  SumOf([k \in 0 .. 7 |-> Bits[k + 1] * ((x \div Bits[k + 1]) % 2)
                                      * ((y \div Bits[k + 1]) % 2)], 8)

\* IPAddress::operator&
Masked(address, mask) == [i \in 1 .. 4 |-> And(address[i], mask[i])]

\* RoutingTable::nextHop
NextHop(dest, network, mask, gateway) ==
  IF Masked(dest, mask) = Masked(network, mask) THEN dest ELSE gateway
----------------------------------------------------------------------------
(***************************************************************************)
(* ICMP.                                                                   *)
(***************************************************************************)
ICMPOverhead == 8
EchoReply == 0
Unreachable == 3
EchoRequest == 8
TTLExceeded == 11

ICMPType(b, icmp) == Load8(b, icmp.at)
Quench(b, icmp) == Load32(b, icmp.at + 4)
ICMPPayload(b, icmp) == Copy(b, icmp.at + ICMPOverhead, icmp.size - ICMPOverhead)
ICMPChecksum(b, icmp) == Checksum(Copy(b, icmp.at, icmp.size), 1)
ICMPValid(b, icmp) == Load16(b, icmp.at + 2) = ICMPChecksum(b, icmp)

\* The ICMP message in an Ethernet frame.
ICMPFrame(b) == IPv4Payload(b, EthernetPayload(b))

\* ICMP_Handler::processFrame up to the call of its listeners.
ICMPAccepts(b) ==
  Protocol(b, EthernetPayload(b)) = ProtoICMP /\ ICMPValid(b, ICMPFrame(b))

\* What echo client and echo server do with a new buffer: the IP header, the
\* ICMP message with its payload and checksum, destination, protocol, TTL.
\* The code of the message, never written, stays what was in the heap.
EchoMessage(heap, type, quench, payload, dest, ttl) ==
  LET ip     == EthernetPayload(heap)
      headed == IPv4Headers(heap, ip)
      icmp   == IPv4Payload(headed, ip)
      filled == headed ++ Store(icmp.at, <<type>>) ++ Store(icmp.at + 4, Big32(quench))
                  ++ Store(icmp.at + ICMPOverhead, payload)
      sealed == filled ++ Store(icmp.at + 2, Big16(ICMPChecksum(filled, icmp)))
  IN  sealed ++ Store(ip.at + 16, dest) ++ Store(ip.at + 9, <<ProtoICMP>>)
        ++ Store(ip.at + 8, <<ttl>>)

\* echoClient: packetsize, and a request whose payload is what the heap held.
EchoSize(size) == ICMPOverhead + size + IPv4Overhead + EthernetOverhead
PingMessage(heap, quench, dest, ttl) ==
  EchoMessage(heap, EchoRequest, quench, <<>>, dest, ttl)

\* ICMPEchoServer::processFrame: packetsize, and the reply.
ReplySize(b) == ICMPFrame(b).size + IPv4Overhead + EthernetOverhead
ReplyMessage(heap, b) ==
  EchoMessage(heap, EchoReply, Quench(b, ICMPFrame(b)), ICMPPayload(b, ICMPFrame(b)),
              Source(b, EthernetPayload(b)), 64)

\* Mutant of Quoted: the second word of the ICMP header is forgotten.
QuotedEarly(b) ==
  [at |-> ICMPFrame(b).at + 4, size |-> ICMPFrame(b).size - 4]

\* The IP header that an error message quotes.
Quoted(b) ==
  [at |-> ICMPFrame(b).at + ICMPOverhead, size |-> ICMPFrame(b).size - ICMPOverhead]

\* EchoReplyListener::processFrame returns true.
Answers(b, myquench) ==
  LET icmp  == ICMPFrame(b)
      inner == IPv4Payload(b, Quoted(b))
  IN  \/ /\ ICMPType(b, icmp) = EchoReply
         /\ Quench(b, icmp) = myquench
      \/ /\ ICMPType(b, icmp) \in {Unreachable, TTLExceeded}
         /\ Protocol(b, Quoted(b)) = ProtoICMP
         /\ ICMPType(b, inner) = EchoRequest
         /\ Quench(b, inner) = myquench
=============================================================================
