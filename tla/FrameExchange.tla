---------------------------- MODULE FrameExchange ----------------------------
(***************************************************************************)
(* What the frames of FrameLayout are for: one station builds them, others *)
(* read them.  This board pings a host, which answers as this program does,*)
(* a router may send an error message about the ping, and the board asks   *)
(* for the host by ARP.                                                    *)
(***************************************************************************)
EXTENDS FrameLayout

CONSTANTS
  My,             \* the board: its hardware address `mac` and IP address `ip`
  NetworkOctets,  \* the octets of its address that the mask leaves
  Gateway,        \* the IP address of the gateway
  GatewayMac,     \* its hardware address
  Router,         \* another router, which sends error messages
  Hosts,          \* those that are pinged
  Sizes,          \* echo sizes
  TTLs,           \* times to live
  Idents,         \* identifications
  Quenches,       \* quenches, in two halves
  Heaps,          \* what new buffers are filled with
  Fragments       \* fragment fields

MacAddresses == [1 .. 6 -> Byte]
IPAddresses  == [1 .. 4 -> Byte]
Stations     == [mac : MacAddresses, ip : IPAddresses]

ASSUME StationAssumption ==
  /\ My \in Stations /\ My.ip # IPv4Broadcast
  /\ Router \in Stations
  /\ \A h \in Hosts : h \in Stations /\ h.ip \notin {My.ip, IPv4Broadcast}
  /\ Gateway \in IPAddresses /\ GatewayMac \in MacAddresses
  /\ NetworkOctets \in 0 .. 4

\* A uint16_t; the total length of a packet is one.
Word == {w \in Nat : w <= 65535}

ASSUME FieldAssumption ==
  /\ \A size \in Sizes : size \in Nat /\ size + ICMPOverhead + IPv4Overhead \in Word
  /\ TTLs \subseteq Byte /\ Idents \subseteq Nat
  /\ \A q \in Quenches : q \in Word \X Word
  /\ \A f \in Fragments : f \in Word

ASSUME HeapAssumption ==
  \A heap \in Heaps :
    /\ heap \in Seq(Byte)
    /\ Len(heap) >= EchoSize(28)
    /\ \A size \in Sizes : Len(heap) >= EchoSize(size)

VARIABLE ping   \* what goes into an echo request, NoPing before it is chosen

NoPing == [size |-> 0]

Pings ==
  [size : Sizes, quench : Quenches, ident : Idents, ttl : TTLs,
   host : Hosts, to : {"host", "broadcast"}, heap : Heaps, hostHeap : Heaps]

Quiet == ping = NoPing

ChoosePing == ping = NoPing /\ ping' \in Pings

ExchangeSpec == Quiet /\ [][ChoosePing]_ping
------------------------------------------------------------------------------
(***************************************************************************)
(* Frames.  The MAC replaces the last four bytes of a buffer by the CRC    *)
(* and fills up short frames to 64 bytes.                                  *)
(***************************************************************************)
\* A buffer of operator new.
New(heap, n) == SubSeq(heap, 1, n)

Filled(n, byte) == [i \in 1 .. n |-> byte]
CRC == <<222, 173, 190, 239>>
OnWire(b) ==
  LET frame == Copy(b, 0, Len(b) - 4)
      short == 60 - Len(frame)
  IN  frame \o Filled(IF short > 0 THEN short ELSE 0, 0) \o CRC

\* The ping as it leaves this board, and as it comes from the last router.
Mask == [i \in 1 .. 4 |-> IF i <= NetworkOctets THEN 255 ELSE 0]
Dest(p) == IF p.to = "host" THEN p.host.ip ELSE IPv4Broadcast
HopMac(p) ==
  IF NextHop(Dest(p), My.ip, Mask, Gateway) = Dest(p) THEN p.host.mac ELSE GatewayMac
RequestOf(p) ==
  OnWire(SendFrame(PingMessage(New(p.heap, EchoSize(p.size)), p.quench, Dest(p), p.ttl),
                   My, p.ident, HopMac(p)))

\* The reply of another board.
ReplyTo(p) ==
  OnWire(SendFrame(ReplyMessage(New(p.hostHeap, ReplySize(RequestOf(p))), RequestOf(p)),
                   p.host, p.ident + 1, My.mac))

\* An error message of a router, which quotes the request's header with another TTL,
\* and 8 bytes more.
Quote(b) == [Copy(b, 14, 28) EXCEPT ![9] = 0]
ErrorAbout(p, type) ==
  OnWire(SendFrame(EchoMessage(New(p.hostHeap, EchoSize(28)), type, <<0, 0>>,
                               Quote(RequestOf(p)), My.ip, 64),
                   Router, p.ident, My.mac))
------------------------------------------------------------------------------
OnNetwork(dest) == SubSeq(dest, 1, NetworkOctets) = SubSeq(My.ip, 1, NetworkOctets)

\* An echo request of any size goes to the host itself on the board's own network
\* and to the gateway otherwise.  However padded on its way, it is accepted by the
\* board it is sent to and, of all that hear it, by no other, and answered by a reply
\* that this board alone accepts, for this ping alone, with the payload it sent.
PingRoundTrip ==
  ping # NoPing =>
    LET request == RequestOf(ping)
        reply   == ReplyTo(ping)
        icmp    == ICMPFrame(request)
    IN  /\ EthernetDestination(request) =
             IF OnNetwork(Dest(ping)) \/ Gateway = Dest(ping) THEN ping.host.mac
                                                              ELSE GatewayMac
        /\ \A my \in Hosts \union {My, Router} :
             /\ IPv4Accepts(request, my) <=> Dest(ping) \in {my.ip, IPv4Broadcast}
             /\ IPv4Accepts(reply, my) <=> my.ip = My.ip
        /\ ICMPAccepts(request) /\ ICMPAccepts(reply)
        /\ ICMPType(request, icmp) = EchoRequest
        /\ Len(ICMPPayload(request, icmp)) = ping.size
        /\ Source(reply, EthernetPayload(reply)) = ping.host.ip
        /\ \A q \in Quenches : Answers(reply, q) <=> q = ping.quench
        /\ ICMPPayload(reply, ICMPFrame(reply)) = ICMPPayload(request, icmp)

\* An error message is told to the ping it is about, although it quotes no more
\* than a header and the first eight bytes, and to no other.
ErrorFindsPing ==
  ping # NoPing =>
    \A type \in {Unreachable, TTLExceeded} :
      LET error == ErrorAbout(ping, type)
      IN  /\ IPv4Accepts(error, My) /\ ICMPAccepts(error)
          /\ \A q \in Quenches : Answers(error, q) <=> q = ping.quench

\* What is not a whole packet is refused, even with a good checksum: a fragment,
\* the first, a middle or the last one, and a frame that was cut short.
PartsRefused ==
  ping # NoPing =>
    LET request == RequestOf(ping)
        ip      == EthernetPayload(request)
    IN  /\ \A f \in Fragments :
             LET b == request ++ Store(ip.at + 6, Big16(f))
                 r == b ++ Store(ip.at + 10, Big16(IPv4Checksum(b, ip)))
             IN  IPv4Accepts(r, ping.host) <=> f % 16384 = 0 /\ f < 32768
        /\ LET whole == 14 + TotalLength(request, ip)
           IN  ~IPv4Accepts(Copy(request, 0, whole - 1) \o CRC, ping.host)

\* An ARP frame of this board is accepted by another, which reads from it what
\* was put in, however the frame is padded; and it is no IPv4 frame.
ARPRoundTrip ==
  ping # NoPing =>
    \A oper \in {1, 2}, target \in {EthernetBroadcast, ping.host.mac} :
      LET frame == OnWire(SendARP(New(ping.heap, ARPSize + EthernetOverhead),
                                  My, target, ping.host.ip, oper))
      IN  /\ EtherType(frame) = TypeARP /\ ARPValid(frame)
          /\ EthernetDestination(frame) = target
          /\ ARPFields(frame) = [oper |-> oper, smac |-> My.mac, sip |-> My.ip,
                                 tmac |-> target, tip |-> ping.host.ip]
          /\ ~IPv4Accepts(frame, ping.host)
==============================================================================
