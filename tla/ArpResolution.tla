---------------------------- MODULE ArpResolution ----------------------------
(***************************************************************************)
(* ARP_Handler with its ARP_Cache (SROSpp/arp_handler.hpp, arp_cache.hpp): *)
(* the threads inside request(), requestThread, packetRecieveThread, and   *)
(* ethernetReceiver where it hands ARP frames over.                        *)
(*                                                                         *)
(* Every ARP_Cache method runs under the cache mutex, and what it sends    *)
(* while holding it goes with timeout 0 to mailboxes nobody else sends to, *)
(* so a method call is one step.  Everything outside the mutex interleaves.*)
(* Thread priorities are not modelled: any thread that can run may run.    *)
(*                                                                         *)
(* Time is in scaled timer ticks.  The list of pending notifications is a  *)
(* set: its order only decides which expired request is handled first.     *)
(***************************************************************************)
EXTENDS Naturals, Sequences

CONSTANTS
  Requesters,         \* threads that call request(): echo server, user
  User,               \* userThread, if it is one of them
  Addresses,          \* IP addresses hosts may have
  NoIP,               \* IPv4_UNCONFIGURED
  Macs,               \* hardware addresses of hosts
  Frames,             \* the ARP frames that may arrive: hsender and psender
  NoMac,              \* ETHERNET_UNCONFIGURED
  Empty,              \* "no message"
  Slots,              \* indices of entries[], 0 .. NUM_ENTRIES - 1
  RequestQueueSize,   \* REQUEST_QUEUE_SIZE
  RecieveQueueSize,   \* RECIEVE_QUEUE_SIZE
  CacheExpiration,    \* CACHE_ENTRY_EXPIRATION
  RequestExpiration,  \* REQUEST_EXPIRATION
  HeapMayFail,        \* may operator new return 0?
  MaxTime             \* bound on the clock

ASSUME AddressAssumption == NoIP \notin Addresses
ASSUME MacAssumption == NoMac \notin Macs /\ Empty \notin Macs \union {NoMac}
ASSUME FrameAssumption ==
  Frames \subseteq [hsender : Macs, psender : Addresses \union {NoIP}]
ASSUME RequesterAssumption == Empty \notin Requesters
ASSUME SizeAssumption ==
  /\ Slots \subseteq Nat
  /\ RequestQueueSize \in Nat \ {0}
  /\ RecieveQueueSize \in Nat \ {0}
ASSUME TimeAssumption ==
  /\ CacheExpiration \in Nat \ {0}
  /\ RequestExpiration \in Nat
  /\ MaxTime \in Nat
ASSUME HeapAssumption == HeapMayFail \in BOOLEAN

\* requestThread fills in notification.count = 2.
Tries == 2

VARIABLES
  now,           \* srostime
  caller,        \* [Requesters -> where the thread is in request()]
  addr,          \* [Requesters -> the address its call refers to]
  since,         \* [Requesters -> when the call began]
  box,           \* [Requesters -> the call's response mailbox]
  requestQueue,  \* requestQueue, a mailbox of requesters
  recieveQueue,  \* recieveQueue, a mailbox of ARP frames
  entries,       \* [Slots -> cache entry]
  pending,       \* the pending notifications
  rt,            \* where requestThread is
  wake,          \* requestThread: what nextExpiration() returned
  msg,           \* requestThread: message received, Empty if gotMsg is false
  t,             \* requestThread: the clock handleExpired() read
  hand,          \* requestThread: an, then notification, or Empty
  prt,           \* where packetRecieveThread is
  rx,            \* packetRecieveThread: the frame it received
  expiry,        \* packetRecieveThread: expiration of the entry to write
  latest,        \* history: [Addresses -> Mac last learnt for it, or Empty]
  heard,         \* history: [Addresses -> the clock its entry was stamped with]
  stamped,       \* history: the clock Stamp read for the entry to write
  learnt         \* history: the addresses learnt since the last purge

callerVars  == <<caller, addr, since>>
requestVars == <<rt, wake, msg, t, hand>>
recieveVars == <<recieveQueue, prt, rx, expiry>>
historyVars == <<latest, heard, stamped, learnt>>
vars == <<now, callerVars, box, requestQueue, recieveVars, entries, pending,
          requestVars, historyVars>>

Notification == [req : Requesters, count : 0 .. Tries, time : Nat]
Entry == [ip : Addresses \union {NoIP}, mac : Macs \union {NoMac}, time : Nat]

\* The handler is a global object, so the cache starts as zeros.
Init ==
  /\ now = 1
  /\ caller = [r \in Requesters |-> "Idle"]
  /\ addr = [r \in Requesters |-> NoIP]
  /\ since = [r \in Requesters |-> 0]
  /\ box = [r \in Requesters |-> Empty]
  /\ requestQueue = <<>>
  /\ recieveQueue = <<>>
  /\ entries = [i \in Slots |-> [ip |-> NoIP, mac |-> NoMac, time |-> 0]]
  /\ pending = {}
  /\ rt = "Next" /\ wake = 0 /\ msg = Empty /\ t = 0 /\ hand = Empty
  /\ prt = "Recv" /\ rx = Empty /\ expiry = 0
  /\ latest = [a \in Addresses |-> Empty]
  /\ heard = [a \in Addresses |-> 0]
  /\ stamped = 0 /\ learnt = {}

Tick ==
  /\ now < MaxTime
  /\ now' = now + 1
  /\ UNCHANGED <<callerVars, box, requestQueue, recieveVars, entries, pending,
                 requestVars, historyVars>>
------------------------------------------------------------------------------
(***************************************************************************)
(* ARP_Handler::request.  The response mailbox and the address live on the *)
(* caller's stack: addr[r] is meaningful only until the call returns.      *)
(***************************************************************************)
Ask(r, a) ==
  /\ caller[r] = "Idle"
  /\ caller' = [caller EXCEPT ![r] = "Posting"]
  /\ addr' = [addr EXCEPT ![r] = a]
  /\ since' = [since EXCEPT ![r] = now]
  /\ UNCHANGED <<now, box, requestQueue, recieveVars, entries, pending,
                 requestVars, historyVars>>

\* Mutant of Post: the mailbox takes a message when it is full.
PostUnbounded(r) ==
  /\ caller[r] = "Posting"
  /\ requestQueue' = Append(requestQueue, r)
  /\ caller' = [caller EXCEPT ![r] = "Waiting"]
  /\ UNCHANGED <<now, addr, since, box, recieveVars, entries, pending,
                 requestVars, historyVars>>

\* requestQueue.send(-1): blocks while the mailbox is full.
Post(r) ==
  /\ caller[r] = "Posting"
  /\ Len(requestQueue) < RequestQueueSize
  /\ requestQueue' = Append(requestQueue, r)
  /\ caller' = [caller EXCEPT ![r] = "Waiting"]
  /\ UNCHANGED <<now, addr, since, box, recieveVars, entries, pending,
                 requestVars, historyVars>>

\* response.recv(-1), then the call returns and its stack frame is gone.
Return(r) ==
  /\ caller[r] = "Waiting"
  /\ box[r] # Empty
  /\ caller' = [caller EXCEPT ![r] = "Idle"]
  /\ addr' = [addr EXCEPT ![r] = NoIP]
  /\ since' = [since EXCEPT ![r] = 0]
  /\ box' = [box EXCEPT ![r] = Empty]
  /\ UNCHANGED <<now, requestQueue, recieveVars, entries, pending,
                 requestVars, historyVars>>

\* ARP_Cache::clear, which userThread calls from its menu.
Clear ==
  /\ User \in Requesters => caller[User] = "Idle"
  /\ entries' = [i \in Slots |-> [entries[i] EXCEPT !.time = 0]]
  /\ UNCHANGED <<now, callerVars, box, requestQueue, recieveVars, pending,
                 requestVars, historyVars>>
------------------------------------------------------------------------------
(***************************************************************************)
(* ARP_Cache::notify: answer from the first live entry for the address, or *)
(* put the notification on the pending list.  If the list node cannot be   *)
(* allocated, ll::push_front sets m_head to 0 and the list is lost.        *)
(***************************************************************************)
Live(a) == {i \in Slots : entries[i].time # 0 /\ entries[i].ip = a}

\* response->send(0, ...): a message that finds the mailbox full is dropped.
Deliver(r, m) == box' = [box EXCEPT ![r] = IF @ = Empty THEN m ELSE @]

Answer(r) ==
  \E i \in Live(addr[r]) :
    /\ \A j \in Live(addr[r]) : i <= j
    /\ Deliver(r, entries[i].mac)
    /\ UNCHANGED pending

Enlist(n) ==
  /\ Live(addr[n.req]) = {}
  /\ \/ pending' = pending \union {n}
     \/ HeapMayFail /\ pending' = {}
  /\ UNCHANGED box

\* notify(n), and where requestThread goes if it returns true or false.
Notify(n, found, missing) ==
  \/ Answer(n.req) /\ rt' = found
  \/ Enlist(n) /\ rt' = missing
------------------------------------------------------------------------------
(***************************************************************************)
(* requestThread.                                                          *)
(***************************************************************************)
\* Mutant of NextExpiration: requestThread always waits for a message.
NextMessage ==
  /\ rt = "Next"
  /\ rt' = "Recv" /\ wake' = 0 /\ msg' = Empty /\ t' = 0 /\ hand' = Empty
  /\ UNCHANGED <<now, callerVars, box, requestQueue, recieveVars, entries,
                 pending, historyVars>>

\* A new round: nextExpiration() and the timeout computed from it; 0 is "wait
\* for ever".  The locals of the last round are gone.
NextExpiration ==
  /\ rt = "Next"
  /\ \/ pending = {} /\ wake' = 0
     \/ \E n \in pending :
          /\ \A o \in pending : n.time <= o.time
          /\ wake' = n.time
  /\ rt' = "Recv" /\ msg' = Empty /\ t' = 0 /\ hand' = Empty
  /\ UNCHANGED <<now, callerVars, box, requestQueue, recieveVars, entries,
                 pending, historyVars>>

\* requestQueue.recv(timediff) returns a message ...
RecvRequest ==
  /\ rt = "Recv"
  /\ requestQueue # <<>>
  /\ msg' = Head(requestQueue)
  /\ requestQueue' = Tail(requestQueue)
  /\ rt' = "ReadClock" /\ wake' = 0
  /\ UNCHANGED <<now, callerVars, box, recieveVars, entries, pending, t, hand,
                 historyVars>>

\* ... or times out; a message posted after that stays in the mailbox.
RecvTimeout ==
  /\ rt = "Recv"
  /\ wake # 0 /\ wake <= now
  /\ rt' = "ReadClock" /\ wake' = 0
  /\ UNCHANGED <<now, callerVars, box, requestQueue, recieveVars, entries,
                 pending, msg, t, hand, historyVars>>

\* handleExpired: uint64_t t = srostime
ReadClock ==
  /\ rt = "ReadClock"
  /\ t' = now
  /\ rt' = "Purge"
  /\ UNCHANGED <<now, callerVars, box, requestQueue, recieveVars, entries,
                 pending, wake, msg, hand, historyVars>>

\* Mutant of RemoveExpiredEntries: old entries stay live.
KeepExpiredEntries ==
  /\ rt = "Purge"
  /\ rt' = "Expire" /\ learnt' = {}
  /\ UNCHANGED <<now, callerVars, box, requestQueue, recieveVars, entries,
                 pending, wake, msg, t, hand, latest, heard, stamped>>

RemoveExpiredEntries ==
  /\ rt = "Purge"
  /\ entries' = [i \in Slots |-> IF entries[i].time < t
                                 THEN [entries[i] EXCEPT !.time = 0]
                                 ELSE entries[i]]
  /\ rt' = "Expire" /\ learnt' = {}
  /\ UNCHANGED <<now, callerVars, box, requestQueue, recieveVars, pending,
                 wake, msg, t, hand, latest, heard, stamped>>

Expired == {n \in pending : n.time < t}

\* Mutant of RemoveExpiredRequest: the notification is copied, not erased.
CopyExpiredRequest ==
  /\ rt = "Expire"
  /\ \E n \in Expired :
       LET left == IF n.count > 0 THEN n.count - 1 ELSE 0
       IN  /\ hand' = [n EXCEPT !.count = left]
           /\ rt' = IF left > 0 THEN "Retry" ELSE "GiveUp"
  /\ UNCHANGED <<now, callerVars, box, requestQueue, recieveVars, entries,
                 pending, wake, msg, t, historyVars>>

\* removeExpiredRequest(t), and the count of the notification it returns.
RemoveExpiredRequest ==
  /\ rt = "Expire"
  /\ \E n \in Expired :
       LET left == IF n.count > 0 THEN n.count - 1 ELSE 0
       IN  /\ pending' = pending \ {n}
           /\ hand' = [n EXCEPT !.count = left]
           /\ rt' = IF left > 0 THEN "Retry" ELSE "GiveUp"
  /\ UNCHANGED <<now, callerVars, box, requestQueue, recieveVars, entries,
                 wake, msg, t, historyVars>>

\* Mutant of Retry: the notification keeps its old expiration.
RetryAtOnce ==
  /\ rt = "Retry"
  /\ Notify(hand, "Expire", "Rebroadcast")
  /\ UNCHANGED <<now, callerVars, requestQueue, recieveVars, entries, wake,
                 msg, t, hand, historyVars>>

\* "Try Again"
Retry ==
  /\ rt = "Retry"
  /\ LET an == [hand EXCEPT !.time = t + RequestExpiration]
     IN  hand' = an /\ Notify(an, "Expire", "Rebroadcast")
  /\ UNCHANGED <<now, callerVars, requestQueue, recieveVars, entries, wake,
                 msg, t, historyVars>>

\* Mutant of GiveUp: nobody tells the caller.
GiveUpSilently ==
  /\ rt = "GiveUp"
  /\ rt' = "Expire"
  /\ UNCHANGED <<now, callerVars, box, requestQueue, recieveVars, entries,
                 pending, wake, msg, t, hand, historyVars>>

\* "Give Up"
GiveUp ==
  /\ rt = "GiveUp"
  /\ Deliver(hand.req, NoMac)
  /\ rt' = "Expire"
  /\ UNCHANGED <<now, callerVars, requestQueue, recieveVars, entries, pending,
                 wake, msg, t, hand, historyVars>>

\* Nothing (more) has expired, handleExpired returns, and the message taken
\* from the queue, if there is one, becomes a notification.
EndExpired ==
  /\ rt = "Expire"
  /\ Expired = {}
  /\ IF msg # Empty
     THEN /\ hand' = [req |-> msg, count |-> Tries,
                      time |-> now + RequestExpiration]
          /\ msg' = Empty
          /\ rt' = "Admit"
     ELSE /\ hand' = Empty
          /\ rt' = "Next"
          /\ UNCHANGED msg
  /\ UNCHANGED <<now, callerVars, box, requestQueue, recieveVars, entries,
                 pending, wake, t, historyVars>>

Admit ==
  /\ rt = "Admit"
  /\ Notify(hand, "Next", "Broadcast")
  /\ UNCHANGED <<now, callerVars, requestQueue, recieveVars, entries, wake,
                 msg, t, hand, historyVars>>

(***************************************************************************)
(* sendRequest reads the address through the caller's pointer and blocks   *)
(* until the frame is transmitted; the frame changes no state here.        *)
(***************************************************************************)
Rebroadcast ==
  /\ rt = "Rebroadcast"
  /\ rt' = "Expire"
  /\ UNCHANGED <<now, callerVars, box, requestQueue, recieveVars, entries,
                 pending, wake, msg, t, hand, historyVars>>

Broadcast ==
  /\ rt = "Broadcast"
  /\ rt' = "Next"
  /\ UNCHANGED <<now, callerVars, box, requestQueue, recieveVars, entries,
                 pending, wake, msg, t, hand, historyVars>>

RequestThread ==
  \/ NextExpiration \/ RecvRequest \/ RecvTimeout \/ ReadClock
  \/ RemoveExpiredEntries \/ RemoveExpiredRequest \/ Retry \/ Rebroadcast
  \/ GiveUp \/ EndExpired \/ Admit \/ Broadcast
------------------------------------------------------------------------------
(***************************************************************************)
(* ethernetReceiver hands over valid ARP frames, packetRecieveThread       *)
(* learns from them and answers the requests for MyIP.                     *)
(***************************************************************************)
\* processFrame: recieveQueue.send(0), "drop packet if buffer full".
ProcessFrame(f) ==
  /\ recieveQueue' = IF Len(recieveQueue) < RecieveQueueSize
                     THEN Append(recieveQueue, f)
                     ELSE recieveQueue
  /\ UNCHANGED <<now, callerVars, box, requestQueue, entries, pending,
                 requestVars, prt, rx, expiry, historyVars>>

RecvFrame ==
  /\ prt = "Recv"
  /\ recieveQueue # <<>>
  /\ rx' = Head(recieveQueue)
  /\ recieveQueue' = Tail(recieveQueue)
  /\ prt' = IF Head(recieveQueue).psender # NoIP THEN "Stamp" ELSE "Reply"
  /\ UNCHANGED <<now, callerVars, box, requestQueue, entries, pending,
                 requestVars, expiry, historyVars>>

\* srostime + CACHE_ENTRY_EXPIRATION, computed before updateEntry() locks.
Stamp ==
  /\ prt = "Stamp"
  /\ expiry' = now + CacheExpiration /\ stamped' = now
  /\ prt' = "Update"
  /\ UNCHANGED <<now, callerVars, box, requestQueue, recieveQueue, rx, entries,
                 pending, requestVars, latest, heard, learnt>>

\* Mutant of WriteSlot: the oldest entry, whether a is held elsewhere or not.
OldestSlot(i, a) ==
  \A j \in Slots : \/ entries[i].time < entries[j].time
                   \/ entries[i].time = entries[j].time /\ i <= j

\* The entry updateEntry() writes: the first one that holds address a, live or
\* not; when there is none, the first of those with the smallest time.
WriteSlot(i, a) ==
  LET holding == {j \in Slots : entries[j].ip = a}
  IN  IF holding # {}
      THEN i \in holding /\ \A j \in holding : i <= j
      ELSE \A j \in Slots : \/ entries[i].time < entries[j].time
                            \/ entries[i].time = entries[j].time /\ i <= j

\* Mutant of InformPending: only one of the callers waiting for a is told.
InformOne(m, a) ==
  LET waiting == {n \in pending : addr[n.req] = a}
      first   == CHOOSE n \in waiting : TRUE
  IN  IF waiting = {}
      THEN UNCHANGED <<pending, box>>
      ELSE pending' = pending \ {first} /\ Deliver(first.req, m)

\* Mutant of InformPending: every pending caller is told, whatever it asked.
InformAll(m, a) ==
  LET told == {n.req : n \in pending}
  IN  /\ pending' = {}
      /\ box' = [r \in Requesters |->
                   IF r \in told /\ box[r] = Empty THEN m ELSE box[r]]

\* informPending: answer everybody waiting for address a.
InformPending(m, a) ==
  LET waiting == {n \in pending : addr[n.req] = a}
      told    == {n.req : n \in waiting}
  IN  /\ pending' = pending \ waiting
      /\ box' = [r \in Requesters |->
                   IF r \in told /\ box[r] = Empty THEN m ELSE box[r]]

UpdateEntry ==
  /\ prt = "Update"
  /\ \E i \in Slots :
       /\ WriteSlot(i, rx.psender)
       /\ entries' = [entries EXCEPT ![i] =
                        [ip |-> rx.psender, mac |-> rx.hsender,
                         time |-> expiry]]
  /\ InformPending(rx.hsender, rx.psender)
  /\ latest' = [latest EXCEPT ![rx.psender] = rx.hsender]
  /\ heard' = [heard EXCEPT ![rx.psender] = stamped]
  /\ learnt' = learnt \union {rx.psender}
  /\ prt' = "Reply" /\ expiry' = 0 /\ stamped' = 0
  /\ UNCHANGED <<now, callerVars, requestQueue, recieveQueue, rx, requestVars>>

\* sendReply(), when the frame is a request for myIP, blocks until it is sent
\* and changes no state here; then the thread is back at the queue.
SendReply ==
  /\ prt = "Reply"
  /\ prt' = "Recv" /\ rx' = Empty
  /\ UNCHANGED <<now, callerVars, box, requestQueue, recieveQueue, expiry,
                 entries, pending, requestVars, historyVars>>

PacketRecieveThread == RecvFrame \/ Stamp \/ UpdateEntry \/ SendReply
------------------------------------------------------------------------------
Next ==
  \/ Tick
  \/ \E r \in Requesters :
       (\E a \in Addresses : Ask(r, a)) \/ Post(r) \/ Return(r)
  \/ Clear
  \/ RequestThread
  \/ \E f \in Frames : ProcessFrame(f)
  \/ PacketRecieveThread

Spec == Init /\ [][Next]_vars

(***************************************************************************)
(* Every thread that can run eventually does, and time passes.  A caller   *)
(* blocked on a full requestQueue gets the place that requestThread frees  *)
(* (a mailbox hands it to a blocked sender), hence strong fairness there.  *)
(***************************************************************************)
ThreadFairness ==
  /\ WF_vars(RequestThread)
  /\ WF_vars(PacketRecieveThread)
  /\ \A r \in Requesters : SF_vars(Post(r)) /\ WF_vars(Return(r))

FairSpec == Spec /\ ThreadFairness /\ WF_vars(Tick)
------------------------------------------------------------------------------
(***************************************************************************)
(* Properties.                                                             *)
(***************************************************************************)
TypeOK ==
  /\ now \in Nat
  /\ caller \in [Requesters -> {"Idle", "Posting", "Waiting"}]
  /\ addr \in [Requesters -> Addresses \union {NoIP}]
  /\ since \in [Requesters -> Nat]
  /\ box \in [Requesters -> Macs \union {NoMac, Empty}]
  /\ requestQueue \in Seq(Requesters)
  /\ Len(requestQueue) <= RequestQueueSize
  /\ recieveQueue \in Seq(Frames)
  /\ Len(recieveQueue) <= RecieveQueueSize
  /\ entries \in [Slots -> Entry]
  /\ pending \subseteq Notification
  /\ rt \in {"Next", "Recv", "ReadClock", "Purge", "Expire", "Retry",
             "Rebroadcast", "GiveUp", "Admit", "Broadcast"}
  /\ wake \in Nat /\ t \in Nat
  /\ msg \in Requesters \union {Empty}
  /\ hand \in Notification \union {Empty}
  /\ rt \in {"Retry", "Rebroadcast", "GiveUp", "Admit", "Broadcast"} =>
       hand \in Notification
  /\ prt \in {"Recv", "Stamp", "Update", "Reply"}
  /\ rx \in Frames \union {Empty}
  /\ prt \in {"Stamp", "Update"} => rx \in Frames /\ rx.psender # NoIP
  /\ expiry \in Nat
  /\ latest \in [Addresses -> Macs \union {Empty}]
  /\ heard \in [Addresses -> Nat]
  /\ stamped \in Nat
  /\ learnt \subseteq Addresses

\* Where a request can be between the call and its answer.
Queued(r)   == \E i \in 1 .. Len(requestQueue) : requestQueue[i] = r
Received(r) == msg = r
InHand(r)   == rt \in {"Retry", "GiveUp", "Admit"} /\ hand.req = r
Pending(r)  == \E n \in pending : n.req = r
Held(r)     == Queued(r) \/ Received(r) \/ InHand(r) \/ Pending(r)

\* A request is in at most one of the places it passes through, once, and
\* only while its caller is blocked without an answer: no answer is ever given
\* twice, nor through a response pointer whose mailbox has left the stack.
OneHolder ==
  /\ \A r \in Requesters :
       /\ Held(r) => caller[r] = "Waiting" /\ box[r] = Empty
       /\ box[r] # Empty => caller[r] = "Waiting"
       /\ Queued(r) => ~Received(r) /\ ~InHand(r) /\ ~Pending(r)
       /\ Received(r) => ~InHand(r) /\ ~Pending(r)
       /\ InHand(r) => ~Pending(r)
  /\ \A i, j \in 1 .. Len(requestQueue) :
       requestQueue[i] = requestQueue[j] => i = j
  /\ \A m, n \in pending : m.req = n.req => m = n

\* While list nodes can be allocated, a blocked caller is never forgotten: its
\* request is held somewhere until it is answered.
NoLostRequest ==
  HeapMayFail \/ \A r \in Requesters :
                   caller[r] = "Waiting" /\ box[r] = Empty => Held(r)

\* The cache holds an address once, and a live entry holds what was learnt
\* last for it, however entries are purged, cleared, evicted and rewritten.
CacheCoherent ==
  /\ \A i, j \in Slots :
       entries[i].ip = entries[j].ip /\ entries[i].ip # NoIP => i = j
  /\ \A i \in Slots : entries[i].time # 0 =>
       entries[i].ip \in Addresses /\ entries[i].mac = latest[entries[i].ip]

\* Nobody is kept waiting for an address the cache knows, although looking it
\* up and enlisting race with packetRecieveThread and clear().
NoMissedAnswer == \A n \in pending : Live(addr[n.req]) = {}

\* requestThread never reads *message.request or *an.request after the call
\* that owns the address returned: "This function is thread safe".
RequestPointerLive ==
  rt \in {"Rebroadcast", "Broadcast"} => caller[hand.req] = "Waiting"

Answered(r) == box[r] = Empty /\ box'[r] # Empty

\* "Unreachable" is answered only when all the tries were given their full
\* REQUEST_EXPIRATION, whatever delayed requestThread.
PatientGiveUp ==
  [][\A r \in Requesters : Answered(r) /\ box'[r] = NoMac =>
       now > since[r] + Tries * RequestExpiration]_vars

\* No answer is older than CACHE_ENTRY_EXPIRATION on the clock requestThread
\* last read, its age counted from the clock read that stamped it, before the
\* lock.  What a delayed packetRecieveThread wrote after that round's purge may
\* be: it is given out as it comes, but no later purge leaves it.
FreshAnswer ==
  [][\A r \in Requesters : Answered(r) /\ box'[r] # NoMac =>
       \/ heard'[addr[r]] + CacheExpiration >= t
       \/ addr[r] \in learnt']_vars

\* request() returns: "This call blocks until the address is resolved or
\* timeout".
RequestAnswered ==
  \A r \in Requesters : caller[r] = "Posting" ~> caller[r] = "Idle"

\* The threads, the queue, the cache and the pending list together implement
\* what request() promises.
Abs == INSTANCE AddressResolution WITH
         asking <- [r \in Requesters |-> caller[r] # "Idle"],
         answer <- box
AbsSpec == Abs!Spec

==============================================================================
