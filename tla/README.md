# TLA+ models of the CST417 network stack

The program is a small IPv4 stack in C++ for an LPC23xx board: Ethernet driver, ARP, IPv4, ICMP echo
server and client, with a menu on a serial console. It runs as six threads and one interrupt handler on the
SROS kernel. The kernel is a git submodule and not part of the repository: mailboxes, semaphores, mutexes and
the clock are modelled from how `SROSpp/` uses them.

## 1. The system

### Threads and interrupts (`main.cpp`)

| thread (priority) | does | blocks on |
|---|---|---|
| `ethernetReceiver` (1) | drains the receive ring, calls every listener: ARP, IPv4 → ICMP → echo server, reply listeners | `sem_recv`, `listener_lock` |
| `ethernetSender` (10) | takes items from `sendQueue`, fills the transmit ring, releases the caller | `sendQueue`, `sem_tx` |
| `arpRecieveThread` (20) | learns from ARP frames, answers requests for its own address | `recieveQueue`, cache mutex, `sendFrame()` |
| `arpRequestThread` (21) | retries and gives up pending requests, admits new ones | `requestQueue` with a timeout, cache mutex, `sendFrame()` |
| `ICMPEchoServer::serverThread` (20) | sends echo replies | `replies`, `request()`, `sendFrame()` |
| `userThread` (100) | menu: resolve, show and clear the cache, ping, switch the server | UART mailbox, `request()`, `sendFrame()`, `answer`, `listener_lock` |
| interrupt handler | `INT_RX_DONE` → `sem_recv`, `INT_TX_DONE` → `sem_tx`, UART → mailbox, timer → kernel | never |

### Components

| component | state | operations | what makes it correct |
|---|---|---|---|
| ARP resolution (`arp_handler.hpp`, `arp_cache.hpp`) | `entries[4]`, list `pending`, `requestQueue` (1), `recieveQueue` (4), locals of two threads, a response mailbox on each caller's stack | `request`, `clear`, `processFrame`, one round of each thread | every call is answered once, with an address that was learnt for what it asked, or all zeros after both tries |
| Ethernet transmit (`ethernet_handler.hpp`, `ethernet_driver_lpc23xx.hpp`) | `sendQueue` (3), items on callers' stacks, 3 descriptors, two index registers, `INT_TX_DONE`, `sem_tx` | `sendFrame`, `sender`, driver `sendFrame`, interrupt | frames leave in order, once, unchanged; the caller's frame is not touched after it returns; nobody sleeps for ever |
| Ethernet receive (the same files, `main.cpp`) | 7 descriptors, two index registers, `INT_RX_DONE`, `sem_recv`, `rptr` | interrupt, `ethernetReceiver`, `beginReadFrame`, `handleRecv`, `endReadFrame` | every frame that found room is shown once, in order, unchanged, to each listener; the thread never sleeps on a frame |
| Internet checksum (`ip.hpp`, `icmp.hpp`, `endian.hpp`) | none | `checksum`, set, check | RFC 1071; what one side seals every other side accepts |
| ICMP handler and echo client (`icmp.hpp`, `main.cpp`) | list of listeners, `listener_lock`, `quench`, `answer` mailbox and listener on the stack | `processFrame`, `addListener`, `remListener`, `echoClient` | a listener is called only while it exists; the user is told what happened to this ping |
| ICMP echo server (`icmpechoserver.hpp`) | `replies` (3), heap buffers, `enabled` | `processFrame`, `serverThread`, `setEnabled` | a buffer has one owner and is freed once; a reply belongs to its request |
| IPv4 (`ip.hpp`, `routingtable.hpp`, `ipaddress.hpp`) | `identity`, its mutex, routes | `processFrame`, `sendFrame`, `nextHop` | the right next hop; identifications do not repeat too soon |
| IPv4, ICMP, ARP and Ethernet frames (`ip.hpp`, `icmp.hpp`, `arp.hpp`, `ethernet.hpp`, `endian.hpp`) | the bytes of a buffer | accessors, `isValid`, `setHeaders`, `isListening` | what one board puts into a frame another reads out of it; parts of packets are refused |
| Ethernet start-up (`ethernet_driver_lpc23xx.hpp`) | MAC and PHY registers | `Init_EMAC` and its three waiting loops | it ends; the MAC agrees with the link; reception starts with no interrupt forgotten |
| Console (`main.cpp`, `uart1_driver.hpp`) | UART mailbox (8), parse state | menu, `readNumber`, `readIP`, `getC`, UART interrupt | what is shown is what is used, and within its limit |
| Linked list (`ll.hpp`) | nodes | push, erase, iterate | erase during a walk keeps the rest |
| Kernel wrappers, interrupt dispatch, timer, board support | – | – | one-line calls, tables, I/O |

### What is hard

* **Pointers across threads.** `request()` and `sendFrame()` queue pointers into the caller's stack, and
  `echoClient` puts its listener, also on the stack, on a list another thread walks. Correctness is a question of *who still
  holds a pointer when the owner goes on*, over every interleaving.
* **Time.** A request is retried and given up by the clock while the answer, new requests, purges of the cache and a
  `clear()` from the menu race with it; mailboxes are posted with timeout 0 (drop) or -1 (block).
* **Interrupts that coalesce.** One status bit stands for any number of frames, and it is cleared after it was tested.
* **Rings** that must tell full from empty, and wrap.
* **The network** loses, delays and repeats, and answers to earlier pings arrive during later ones.
* **Allocation that fails** in the middle of an operation.

`PROJECT.json` lists the hazards line by line with the properties that cover them.

## 2. Modules

Each module names the files it models in its header; `PROJECT.json` "map" gives the lines of every definition.

| module | models |
|---|---|
| `ArpResolution` | `ARP_Handler` and `ARP_Cache` with their threads and callers |
| `AddressResolution` | abstract: what `request()` promises |
| `EthernetTx` | `Ethernet_Handler::sendFrame`, `sender`, the driver's transmit side, the MAC, `INT_TX_DONE` |
| `FrameLine` | abstract: a first-in first-out line of frames that releases its callers |
| `EthernetRx` | the receive ring, `INT_RX_DONE`, `ethernetReceiver`, `handleRecv` |
| `EthernetStart` | `Init_EMAC` with PHY and cable, composed with `EthernetRx`, which it brings up |
| `FrameFeed` | abstract: a bounded queue whose head is shown to each listener in turn |
| `IcmpPing` | `ICMP_Handler`, `EchoReplyListener`, `echoClient` |
| `LinkedList` | `ll.hpp`: nodes and pointers, used by `IcmpPing` |
| `EchoService` | the echo server and both threads that send IPv4 frames, over `AddressResolution` and `FrameLine` |
| `EchoReflector` | abstract: what hosts that ping the board may rely on |
| `InternetChecksum` | `IP::checksum` with its users, and the reference definition |
| `SealedMessages` | what the checksum promises, over all messages |
| `FrameLayout` | the frame classes byte by byte, what the program sends and accepts, `nextHop` |
| `FrameExchange` | one board that pings, one that answers, a router that complains: what each reads in the frames of the others |
| `ConsoleInput` | the menu, `readIP`, `readNumber`, the UART mailbox |
| `MCArpResolution`, `MCArpLiveness`, `MCEthernetStart`, `MCEchoService`, `MCInputs` | constants, symmetry, views, the sliding clock, the enumeration of inputs |
| `ArpResolution_proofs`, `EthernetTx_proofs`, `EthernetRx_proofs`, `EchoService_proofs`, `IcmpPing_proofs`, `FrameExchange_proofs` (with `SealedMessages`), `ConsoleInput_proofs` | the theorems |
| `NumberFacts` | what several proofs need of the natural numbers: induction, recursive functions, division |

How they fit together: `EchoService` stands on two abstract modules, and each of these is implemented by a detailed one
(`ArpResolution` implements `AddressResolution`, by proof and by a run; `EthernetTx` implements `FrameLine`, likewise). So the echo server, IPv4,
ARP and the driver are one system, checked layer by layer where checking them at once is out of reach. `EthernetStart` extends
`EthernetRx` and implements it, which is proved: whatever holds of the ring holds from power-up on. `EthernetRx` implements
`FrameFeed`: its safety is proved, its liveness checked by a run.

### ArpResolution

*State.* Each caller has a program counter (`caller`), the address its pointer refers to (`addr`, `NoIP` when the stack frame is
gone) and its one-place response mailbox (`box`). A request is named by its caller, as a caller has one at a time.
`rt`, `wake`, `msg`, `t`, `hand` are requestThread's program counter and locals; `prt`, `rx`, `expiry` those of
packetRecieveThread. `pending` is a set: the order of the list decides only which of several expired notifications is
handled first, and the model lets it be any. `since`, `latest`, `heard`, `stamped` and `learnt` are history; no
decision of an action depends on them. `stamped` is the clock packetRecieveThread read for the entry it is about to write, before it takes the lock, `heard` keeps
it per address once the entry is written, and `learnt` says which addresses were learnt since the last purge.

*Steps.* A method of `ARP_Cache` holds the mutex from its first to its last line. What it posts meanwhile goes with timeout 0 to
response mailboxes, so it never blocks, and no other code touches `entries` and `pending`: the whole method is one step.
Everything else is a step of its own: reading the clock, receiving, computing an expiration, sending, returning.
In particular requestThread's `*message.request` after `notify()` is a separate step (`Broadcast`, `Rebroadcast`).
Thread priorities are ignored, so the model has every schedule the kernel could produce and more. Only `User`, the thread of the
menu, can `Clear` the cache, and not while it waits for an answer.

*Data.* A frame is its sender's two addresses; that a reply is sent or not changes no state of ARP. `Tries` is the literal 2 in
`requestThread`. Expirations are small numbers of ticks. `HeapMayFail` lets the node allocation in `ll::push_front` return 0, which
sets `m_head` to 0: the list is lost.

### EthernetTx, EthernetRx, EthernetStart

A descriptor holds a content (`desc`), the index registers are `produce` and `consume`. The interrupt handler is three steps (test,
clear, signal); threads stand still meanwhile, the MAC does not, so a frame may finish between any two of them.
`wire` and `seen` are history for the refinements. A transmitting thread's item is named by the thread. Semaphore counts saturate
at `SemCap` = 2: a count above the number of waiters only adds rounds that find nothing to do. A full receive ring drops the frame;
following the comment in `isFrameAvailable()`, equal indices mean empty.

`EthernetStart` adds the thread that runs `Init_EMAC`: one action per register it writes that matters later and one per round of a waiting loop
(`tout`, `regv`). The PHY finishes its reset and its negotiation when it likes or never, and the cable changes at any moment (`PhyDone`,
`Cable`). Frames arrive only once reception is enabled, and the handler runs only once interrupts are. `up` is history: the states of the
link that the code could have seen.

### IcmpPing and LinkedList

A listener is named by the quench of its ping; `listeners` is the list of `ll.hpp` with its nodes, and `begin` the node the iterator is
on. `LinkedList` follows no pointer by recursion: the nodes of a list are the sequence from the head to the node that points to 0 (`IsChain`, `Chain`). The walk is one step per listener; posting the answer (`Inform`) and erasing the node (`Erase`) are two steps, and the user may be
released, and try to remove its listener, between them. Adding and removing are single steps because they do everything under `listener_lock`, which
the walk holds. Once a request is on the wire, answers of every type may arrive at any time and any number of times, in any later ping too. The
two-second timeout may end at any moment at which the mailbox is empty.

### EchoService

`heap` says what is in each buffer of operator new, `None` when it is free; a buffer is allocated, handed from `ethernetReceiver` (`posting`) to the
mailbox (`replies`) and to `serverThread` (`buffer`), and freed, as the code does it. `pc` is where a thread is in
`IPv4_Handler::sendFrame`: `nextIdent()` is split where it reads and where it writes `identity`, the calls of `request()` and of Ethernet's `sendFrame()`
are a call and a return of the modules below. A frame is a record of the fields that the code writes; a checksum is the tuple of what it was
computed over, so that writing a field afterwards shows. `age` is history: how many identifications have been drawn since a thread drew its own. `Replies`, the echo replies of a line of frames, is
a recursive function over its length.

### FrameLayout, FrameExchange, InternetChecksum and SealedMessages

Pure functions over sequences of bytes, as the classes compute them: a frame object is a position in the buffer and a size. Setting a field replaces
bytes of the buffer (`b ++ Store(p, bytes)`), in the order of the code; `&` of two bytes is the sum of the bits they have in common (`And`). `FrameExchange` adds what is around: a new buffer holds whatever
the heap held (`Heaps`), the MAC replaces the last four bytes by the CRC and pads short frames (`OnWire`), a router quotes a request in an error message. `ping` is chosen once, and every frame is a function of it.
The reference of the checksum is RFC 1071: the sum modulo 65535 (`EndAround`), where an odd byte is the upper half of a word. The code's own sum and
its loop that folds the carries in (`FoldOnce`, `Fold`) are recursive functions. In `SealedMessages` messages grow byte by byte to `MaxLength`, which is
at most 65535, as the total length of a packet has 16 bits.

### ConsoleInput

A character is its distance from `'0'`, as the code uses it. `octets` and `tmp` are what the functions compute, in the width of their types;
`shownIP` and `shown` are what a reader takes from the screen, unbounded. The interrupt handler may type at any moment, and drops what the mailbox has no room for.

## 3. Runs

| run | asks | instance |
|---|---|---|
| `arp_requests` | is a request in one place at most (`OneHolder`); does nobody wait for an address the cache knows (`NoMissedAnswer`); is nobody reported unreachable before both tries had their time (`PatientGiveUp`); is no answer older than `CACHE_ENTRY_EXPIRATION` on the clock of the last purge, counted from its stamp (`FreshAnswer`) | 2 callers, 1 address, 1 slot, failing allocation, clock to 5: a request needs 2 × 1 ticks and the strict comparisons one each |
| `arp_table` | is an address never in two slots, and does a live slot hold what was learnt last (`CacheCoherent`); does it all implement `AddressResolution` (`AbsSpec`) | 1 caller, 2 addresses, 2 hardware addresses, 2 slots, clock to 3, `REQUEST_EXPIRATION` 0 so that both tries can pass by then |
| `arp_liveness` | is every blocked caller's request held somewhere (`NoLostRequest`), and does every `request()` return (`RequestAnswered`) | 2 callers, probes without a sender address, unbounded clock |
| `tx` | items live while pointed at (`ItemsLive`), no lost wakeup (`NoLostWakeup`), first in first out (`AbsSpec`), every `sendFrame()` returns (`SendReturns`) | the real ring of 3; 2 senders, 2 contents, queue 1 |
| `rx` | from power-up on: start-up ends (`InitEnds`), duplex and speed are those of one moment of the link (`ConfiguredAsSeen`), no frame slept on (`NoFrameAsleep`), none changed while read (`FrameUntouched`), all shown in order and none for ever unseen (`AbsFairSpec`) | 6 descriptors of the real 7, the real 2 listeners; 2 contents; loops of 2 rounds; no link or one of two kinds |
| `ping` | listeners exist while listed (`ListenersLive`), the iterator stands on a node of the list (`IteratorLive`), the user is told the truth (`ToldTheTruth`), every ping ends (`PingEnds`) | 3 pings, 3 nodes, failing allocation |
| `echo` | a buffer has one owner (`BufferOwned`), a frame does not change under the driver (`FrameStable`), what leaves is sealed (`SealedOnWire`), identifications differ (`IdentsDistinct`), replies are reflected once, to the right host, in order (`AbsSpec`) | 3 buffers, a mailbox of 2, a ring of 1; a broadcast ping and one from beyond the gateway; identifications modulo 4 cut to modulo 2 |
| `inputs` | the checksum: over an even number of bytes it is the Internet checksum (`EvenIsReference`), what one host seals another accepts (`SealedIsValid`), a damaged byte shows (`DamageNoticed`); frames: what one board builds another reads (`PingRoundTrip`, `ErrorFindsPing`, `ARPRoundTrip`) and parts are refused (`PartsRefused`); the console: `AddressAsShown`, `NumberAsShown` | all messages of up to 6 bytes over {0, 1, 127, 128, 254, 255}; pings of 0, 1, 2, 17, 40 and 1000 bytes to two hosts; all sequences of 8 keys, 2 octets, numbers to 125 and to 255 |

*Are the bounds enough?*

* ARP: two callers and queues of one make both callers block, expire together and be answered by one frame; two slots for two addresses give a choice of
  the slot to write and an address that is held but dead. That a live entry of another host is evicted takes more addresses than slots: `CacheIsCoherent` is
  proved for any number of both. Several callers with several addresses at once are covered by the proofs, which
  have no bounds.
* Driver: two senders and a queue of one block one caller on the full queue; as a caller is
  released once its frame is in the ring, they also fill the ring with the sender thread waiting. Six descriptors fill and wrap like seven; the proofs hold for any number
  above 1. A waiting loop of two rounds can end by its condition and by its count.
* Pings: three let answers to two earlier ones arrive during the third, and three nodes are enough for the echo server, a listener and one more.
* Echo: three buffers have five possible users (the receiver, two places, two threads); with a mailbox of two it is full while `serverThread` sends. Four identifications cut to
  two repeat like 65536 cut to 256, which is what the property is about.
* Messages: six bytes are three words: the first fold can carry again, and the checksum can be in the first, a middle or the last word. The sizes of pings
  are odd, even, shorter and longer than the padding, and the largest that the menu lets through. New buffers are all 0 or hold a byte that differs from place to place, which shows what is never written.
* Console: `SizeMax` 125 has the shape of 255 (a last digit that is not 9), as 1000 has only zeros, and fits a small instance; `SizeWidth` 65536 stands for 2^32: the property needs it to be above `SizeMax`, which is what the proof assumes. Two octets
  are a first and a last one. A mailbox of one loses a character as one of eight does.

*Symmetry and view.* Addresses, hardware addresses and buffers are exchangeable where the cfg says so, in runs without liveness. `WithoutHistory` leaves all history but `latest`
out of the fingerprint and `WithoutWire` the last frame: no action depends on them, no invariant of the runs mentions them, and the steps of the abstract modules that mention `wire` only mention its new value.
`WithoutPhy` leaves out the PHY after start-up, when nothing looks at it any more.

*The sliding clock.* Liveness needs a clock that never stops. In `MCArpLiveness` the last tick moves every stored time one into the past
instead; times are only compared, and times long past are kept at 1. It happens only where requestThread has no
time in its locals but `wake`.

*Fairness.* Every thread that can run eventually does (weak fairness per thread: nothing in this program keeps the processor,
all loops block). A thread blocked on a full mailbox gets the next free place and a thread waiting for a mutex
gets it when it is released: strong fairness for `Post`, `AddListener`, `RemListener`. In the driver modules the interrupt
handler stops the threads again and again, so theirs is strong fairness too, that of the thread in `Init_EMAC` included. The MAC transmits what it is given and pending
interrupts are served. Nobody is obliged to send, call, type or reply; the PHY need not answer and there need not be a link.

*Where a system may stop.* Deadlock is checked in every run but those of `SealedMessages` and `MCInputs`, where a message or a frame is looked at once it is complete.

### Runs that find a disagreement

| run | finds |
|---|---|
| `arp_pointer` | `arp_handler.hpp:213` calls `request()` thread safe, but requestThread reads `*message.request` (line 182, and 106) after the mutex is released: packetRecieveThread may answer the pending notification first and the caller may have returned |
| `arp_heap` | `arp_handler.hpp:214` says the call blocks until the address is resolved or timeout; after a failed allocation (`ll.hpp:75`) the pending list is lost and it blocks for ever |
| `ping_code` | `main.cpp:334` prints unreachable messages with their code; `code + 1` in 8 bits (line 255) makes code 255 a "Pong!" in the step that takes the byte from the mailbox |
| `checksum_odd` | `ip.hpp:12` says Internet checksum; over an odd number of bytes the last byte is added on the wrong side (line 31). Two of these boards agree with each other (`SealedIsValid`), other hosts do not |

## 4. Proofs

Checked by TLAPS for any values of the constants that satisfy the named ASSUMEs of the modules; TLC evaluates those in each run. Most of them state a property that a run checks; `TypeCorrect` of `EthernetRx` and of `ConsoleInput` and `StartImplementsRx` are what others rest on;
`FeedsListeners` and `FeedsFromStart` are the safety part of `AbsFairSpec`; `NoOverflow` speaks of messages longer than any run has.

| module | theorems | inductive invariant |
|---|---|---|
| `ArpResolution_proofs` | `TypeCorrect`, `AnsweredOnce` (`OneHolder`), `NothingLost` (`NoLostRequest`), `CacheIsCoherent`, `NothingMissed`, `GivesUpPatiently`, `AnswersAreFresh`, `KeepsItsPromise` (`AbsSpec`) | `Ownership`; with it `CacheCoherent`, `NoMissedAnswer`, `Patience`, `Freshness` |
| `EthernetTx_proofs` | `TypeCorrect`, `ItemsStayLive`, `WakeupNotLost`, `IsALine` (`AbsSpec`) | `Items`, `Filling` |
| `EthernetRx_proofs` | `TypeCorrect`, `FrameStays`, `NothingAsleep`, `FeedsListeners`; from power-up: `StartImplementsRx`, `StartTypeCorrect`, `NothingAsleepFromStart`, `FeedsFromStart`, `ConfiguredRight` | `Ring`, `AllServed`, `Quiet`, `Configured` |
| `EchoService_proofs` | `TypeCorrect`, `BuffersOwned`, `FramesStable`, `SealedOut`, `IdentsApart` (`IdentsDistinct`), `ReflectsRequests` (`AbsSpec`) | `Types`, `BufferOwned`, `Contents`, `Numbered`, `Kinds` |
| `IcmpPing_proofs` | `TypeCorrect`, `NoDeadListener` (`ListenersLive`), `WalkIsSafe` (`IteratorLive`), `UserToldTheTruth` (`ToldTheTruth`) | `ListInv`, `WalkInv`, `SentInv`, `SilenceInv`; with them `AnswerInv` |
| `FrameExchange_proofs` | of messages: `NoOverflow`, `EvenIsInternet` (`EvenIsReference`), `SealingIsSound` (`SealedIsValid`), `DamageIsNoticed` (`DamageNoticed`); of frames: `PingsComeBack` (`PingRoundTrip`), `ErrorsFindPings` (`ErrorFindsPing`), `PartsAreRefused` (`PartsRefused`), `ARPIsUnderstood` (`ARPRoundTrip`) | the bytes are bytes, at most `MaxLength` of them; the ping is one of `Pings` (`Chosen`) |
| `ConsoleInput_proofs` | `TypeCorrect`, `ReadsAddressShown`, `ReadsNumberShown` | `Shown` |
| `NumberFacts` | `LeastNumber`, `InductionOverNat`, `RecursionOverNat` | – |

*ARP, ownership.* `TypeOK` is inductive. `OneHolder` and `NoLostRequest` are not: from `OneHolder` alone, a message received
long ago might still be in `msg` when requestThread is back at its queue, and the next receive would overwrite it. `MsgScope`
says that `msg` is empty there. `Ownership` is the conjunction of `TypeOK`, `OneHolder`, `NoLostRequest` and `MsgScope`. Steps that touch no
request keep it by `OwnershipFrame`; the two steps that call `notify()` share `OwnershipNotify`; the others are one step each of `OwnershipStep`,
with one sub-step per conjunct.

*ARP, answers.* An action property is proved from an invariant about the time before the step. `Patience` says how much time has passed since a request
was made for every number of tries it has behind it, wherever it is at the moment; a caller is handed `NoMac` only by the two steps that give up (`NoMacIsGiveUp`).
`Freshness` says that a live entry runs out `CACHE_ENTRY_EXPIRATION` after the clock it was stamped with, and that after the purge only those written since may have run out by `t`:
a thread held up between stamping and writing does write such an entry, and it may be given out until the next purge, so `FreshAnswer` without its second
disjunct is false of this code. That the slots of other addresses keep their stamps rests on `CacheCoherent`. The refinement takes the invariants and shows for each action which step of
`AddressResolution` it is, or that it is none (`AbsStep`).

*Driver.* `ItemsLive` supports the type of `response`: it stays 0 or 1 because an item is signalled only while its owner waits with 0. On the receive side `RingHolds` says which
descriptors hold frames that were not read, including around the wrap, and that the receiver reads the first of them, which the MAC does not write. That reception is switched on with no
interrupt forgotten rests on `Quiet`: before, the ring is empty and no frame can have arrived. `StartImplementsRx` shows that each step of start-up stutters in `EthernetRx`.

*Driver, refinements.* The frames of a ring are a sequence that starts at `consume` and is `Unsent` (`Unshown`) long; `Indices` says how its two ends move, also around the wrap, and that the
descriptor at `produce` is not part of it. So handing over a descriptor appends to the sequence and finishing one takes its first. For transmit the line is the ring, the frame in the
sender's hands and the queue, one after the other, and four lemmas about three-part sequences say that a frame which moves from one part to the next does not
move in the line. `Filling` is needed because the sender tests for room, copies, and advances in three steps: the MAC only makes room meanwhile, and the buffer it copied from stays. For receive, `AllServed` says that
a descriptor is given back only after the last listener.

*Echo.* `BufferOwned` is inductive beside the types: each of the five steps that move a buffer is shown to give it from one owner to one other.
That a frame does not change under the driver follows because every step writes only a buffer of its own thread (`OthersKept`); that frames are sealed, because the checksum of a message is there when it enters the heap (`Summed`),
the other when its thread asks for the next hop (`SealedSent`), and because the copy on the line is of a frame that did not change (`FrameStable`).

*Echo, identifications.* `Numbered` says that a thread's identification is `age` draws behind `identity`, counted modulo `IdentCut`. As long as it is below `IdentCut` no two threads have the same `age`,
and two different distances below `IdentCut` lead to two different numbers. The 16-bit counter wraps to 0 without a jump of the 8-bit field because the one size divides the other, which is part of `SizeAssumption`.
The mutex is what makes `identity` still the number read when it is written back.

*Echo, refinement.* What the reflector has `pending` are the replies on the line, then the one in the hands of `serverThread`, then those in the mailbox. `Kinds` says that
the mailbox and `serverThread` have only replies and the user never has one; it is not implied by the types, as both threads use the same `sendFrame()`. Every step takes a reply in at the end, moves one over a boundary between
two parts (the whole sequence stays), loses one, or lets the first go; the lemmas about `Replies` say that it distributes over appending a frame and over taking the first.

*Ping, the list.* `ListInv` says that following the pointers from the head ends, at nodes that are in use, all different, with different items; a chain is unique (`OneChain`), so `Chain` is it.
`PushFrontOf`, `PushFailedOf` and `EraseOf` are what the operations of `ll.hpp` do to it, seen as a sequence; the steps of `IcmpPing` need no more of the pointers.
`WalkInv` keeps the iterator on a node of the chain: every step that erases a node belongs to the walk itself, and has moved on, or happens when nobody walks.

*Ping, the truth.* That the user is not told of another ping rests on the quench that every listener compares. That silence is reported only if nothing was processed in time needs `SilenceInv`: as long as the mailbox is empty
and the list was not lost, the listener is on it, and during a walk about this ping ahead of the iterator. `UserToldTheTruth` assumes `CodesTellable`, codes below 253: the mailbox has 8 bits, holds `code + 1` for
an unreachable message, and uses 0, 254 and 255 for other things. This is the disagreement that the run `ping_code` shows; unreachable messages have codes up to 15.

*Checksum.* `FoldIs`: the loop computes `EndAround`, for any sum. A round keeps the rest modulo 65535 and makes the sum less (`FoldStep`), so `EndAround` solves the loop's equation, and there is no least sum
at which another solution differs. A sealed message of even length adds up to 65535 (`SealedAddsUp`); boards agree at any length because sealing and checking leave the same word out (`AllButOneWord`). For damage: the sum is split at one word (`SumDiffer`), a changed byte changes it by
less than 65535 and not by 0 (`Near`), and then the checksum changes too (`ChecksumDiffers`).

*Frames.* The invariants are about frames that are functions of `ping`, so the induction is short (`Chosen`) and the work is in the functions. `StoreIs` says of each `Store` what it sets and that the rest stays (`Stored`, `Holds`).
With it the buffer is followed from operator new to the wire in three stages, each with a predicate that says no more than its readers need. `Message`: the IP header without what `sendFrame()` adds, and a sealed ICMP message (`MessageIs`). `Packet`: addresses and header checksum as well (`SentIs`), for which
it is needed that no store after a checksum touches what it covers but the checksum itself. The wire keeps a `Packet` (`OnWireIs`), since it is shorter than the frame by the CRC and padding comes behind it. `PacketRead` is what any station then reads and decides. A reply is built from what was read of the request; in an error message
the quoted header begins 8 bytes behind the header of the message, and the listener finds the quench of the request there (`QuoteIs`, `ErrorIs`). A frame that was cut loses at least one byte of the packet that its total length promises, and a fragment differs from the request in one field and the checksum, which is computed anew.
That the next hop is the one of the network octets (`OnNetworkIs`) rests on `And` with 255 being the identity and with 0 being 0 (`AndIs`), bit by bit. The assumptions are those of the code: stations have addresses of 6 and 4 bytes, a pinged host has neither the board's own nor the broadcast address, the total length fits
16 bits, new memory holds bytes. The mask covers whole octets (`NetworkOctets`), as the one in `main.cpp` does.

*Numbers.* Facts that the library states with an operator as parameter are stated here of sets and functions: a nonempty set of numbers has a least one, a set that contains 0 and with every
number the next is all of them, and there is a function for every start and step of a recursion.

*Console.* Beyond agreement with the screen, `Shown` says that everything is reset between two calls, and that the number is within its limit; `DigitFits` and `OctetFits` are the arithmetic.

*Only model-checked.* Liveness (`RequestAnswered`, `SendReturns`, `InitEnds`, `PingEnds`, the fairness in `AbsFairSpec`), which is out of the prover's reach.

## 5. Not modelled

* The kernel: its objects are not in the repository. Priorities, stack sizes and real time are left out; the wrappers are one-line calls.
* What runs once in `main()` before the scheduler: `addListener` of the handlers, `push_back`, `install()` of the drivers, the order of start-up, the table of interrupts. The destructor of the list never runs.
* The transmit side during start-up: the same thread runs `Init_EMAC` and then sends. Registers that are written once with constants (pins, timing, MAC address, filter). An MII operation is one step.
* After start-up nothing in the code looks at the link again, so neither does the model.
* The code byte of an ICMP message that this program sends: it is what the heap held, and no receiver here looks at it but for unreachable messages, which this program does not send.
* Printing: LED, LCD, serial output, `print()`. Error and overrun interrupts, which are cleared and reported.
* `'\n'` after `'\r'`: each is an end of line, as in the code.
* Register definitions, start-up assembly and exception handlers are vendor code.

## 6. What is left

A composition of `ArpResolution` with `EthernetTx`: the wait cycle requestThread → `sendFrame` → `ethernetSender` is excluded today because every `sendFrame()` returns (`SendReturns`) whatever its callers do, which is an argument about two modules and not one run.
