------------------------------ MODULE IcmpPing ------------------------------
(***************************************************************************)
(* echoClient in userThread, its EchoReplyListener, and ICMP_Handler with  *)
(* its list of listeners, which ethernetReceiver walks for every valid     *)
(* ICMP message.  The network loses, delays, repeats and reorders.         *)
(*                                                                         *)
(* addListener() and remListener() do all they do under listener_lock and  *)
(* the walk holds it from begin to end, so each of the first two is one    *)
(* step.  The 2000 ticks that getResponse() waits may end at any moment.   *)
(***************************************************************************)
EXTENDS Naturals, FiniteSets, SequencesExt

CONSTANTS
  EchoServer,    \* the listener that is always there
  Nodes,         \* nodes of lists the heap has room for
  Codes,         \* codes of "destination unreachable" messages
  None,          \* no message, no node
  HeapMayFail,   \* may operator new return 0?
  MaxPings       \* bound on the number of echoClient() calls

ASSUME CodeAssumption == Codes \subseteq 0 .. 255
ASSUME PingAssumption == MaxPings \in Nat /\ HeapMayFail \in BOOLEAN

\* Quenches of pings; 0 stands for those of other hosts.
Pings == 1 .. MaxPings
ASSUME ListenerAssumption == EchoServer \notin Pings

\* ICMP messages: the quench is that of the echo request they are about.
Messages ==
  [type : {"EchoReply", "TTLExceeded", "EchoRequest"}, quench : Pings \union {0},
   code : {0}]
    \union [type : {"Unreachable"}, quench : Pings \union {0}, code : Codes]
\* What a node of the list holds.
Cells == [item : {EchoServer} \union Pings, next : Nodes \union {None}]

ASSUME NoneAssumption == None \notin Messages \union Nodes \union Cells \union {"Receiver"}
ASSUME NodeAssumption == IsFiniteSet(Nodes) /\ Nodes # {}

List == INSTANCE LinkedList WITH Null <- None

VARIABLES
  user,        \* where userThread is in echoClient()
  quench,      \* the static quench: the current or the last ping
  answer,      \* answer of its listener, a mailbox of one byte
  val,         \* what getResponse() returned
  listeners,   \* the list of listeners: a ping's listener is its quench
  lock,        \* holder of listener_lock among "Receiver" and None
  rcv,         \* where ethernetReceiver is in ICMP_Handler::processFrame
  frame,       \* the message it processes
  begin,       \* its iterator, a node of listeners or None
  sent,        \* quenches of the requests on the wire
  handled      \* history: types of the messages processed about this ping

userVars     == <<user, quench, val>>
receiverVars == <<rcv, frame, begin>>
vars == <<userVars, answer, listeners, lock, receiverVars, sent, handled>>

\* main() has added the echo server.
Init ==
  /\ user = "Menu" /\ quench = 0 /\ val = 0
  /\ answer = <<>>
  /\ listeners = List!PushFront(List!EmptyList, CHOOSE n \in Nodes : TRUE, EchoServer)
  /\ lock = None
  /\ rcv = "Idle" /\ frame = None /\ begin = None
  /\ sent = {} /\ handled = {}

\* Bytes the listener answers with, and what getResponse() makes of silence.
Pong == 0
Timeout == 255
TTLExceeded == 254
------------------------------------------------------------------------------
(***************************************************************************)
(* echoClient.                                                             *)
(***************************************************************************)
\* A new request, unless there is no memory for it.
NewPing ==
  /\ user = "Menu"
  /\ quench < MaxPings
  /\ quench' = quench + 1
  /\ user' = "Add" \/ (HeapMayFail /\ user' = "Menu")
  /\ answer' = <<>> /\ handled' = {} /\ val' = 0
  /\ UNCHANGED <<listeners, lock, receiverVars, sent>>

\* icmp_handler.addListener: push_front, which loses the list if it fails.
AddListener ==
  /\ user = "Add"
  /\ lock = None
  /\ \E n \in List!Free(listeners)
            \union (IF HeapMayFail THEN {None} ELSE {}) :
       listeners' = List!PushFront(listeners, n, quench)
  /\ user' = "Send"
  /\ UNCHANGED <<quench, answer, val, lock, receiverVars, sent, handled>>

\* ipv4_handler.sendFrame: the request is on the wire before the call returns.
Transmit ==
  /\ user = "Send"
  /\ sent' = sent \union {quench}
  /\ user' = "Sent"
  /\ UNCHANGED <<quench, answer, val, listeners, lock, receiverVars, handled>>

SendReturns ==
  /\ user = "Sent"
  /\ user' = "Wait"
  /\ UNCHANGED <<quench, answer, val, listeners, lock, receiverVars, sent,
                 handled>>

\* "No route to host": the next hop could not be resolved.
NoRoute ==
  /\ user = "Send"
  /\ user' = "Remove"
  /\ UNCHANGED <<quench, answer, val, listeners, lock, receiverVars, sent,
                 handled>>

\* replyListener.getResponse( 2000 ): a byte in the mailbox ...
GetResponse ==
  /\ user = "Wait"
  /\ answer # <<>>
  /\ val' = Head(answer)
  /\ answer' = Tail(answer)
  /\ user' = "Remove"
  /\ UNCHANGED <<quench, listeners, lock, receiverVars, sent, handled>>

\* ... or resp as it was initialised.
GetTimeout ==
  /\ user = "Wait"
  /\ answer = <<>>
  /\ val' = Timeout
  /\ user' = "Remove"
  /\ UNCHANGED <<quench, answer, listeners, lock, receiverVars, sent, handled>>

\* The list without the node of a listener, if there is one.
Without(l) ==
  LET nodes == {n \in Nodes : List!InChain(listeners, n) /\ listeners.node[n].item = l}
  IN  IF nodes = {} THEN listeners
                    ELSE List!Erase(listeners, CHOOSE n \in nodes : TRUE)

\* Mutant of RemListener: an answered ping's listener is taken to be removed.
RemIfTimeout ==
  /\ user = "Remove"
  /\ val = Timeout => lock = None
  /\ listeners' = IF val = Timeout THEN Without(quench) ELSE listeners
  /\ user' = "Menu"
  /\ UNCHANGED <<quench, answer, val, lock, receiverVars, sent, handled>>

\* icmp_handler.remListener, if the handler has not erased it already; then
\* echoClient returns and the listener is gone from the stack.
RemListener ==
  /\ user = "Remove"
  /\ lock = None
  /\ listeners' = Without(quench)
  /\ user' = "Menu"
  /\ UNCHANGED <<quench, answer, val, lock, receiverVars, sent, handled>>

UserThread ==
  \/ NewPing \/ AddListener \/ Transmit \/ SendReturns \/ NoRoute
  \/ GetResponse \/ GetTimeout \/ RemListener
------------------------------------------------------------------------------
(***************************************************************************)
(* ICMP_Handler::processFrame.                                             *)
(***************************************************************************)
\* A valid message: about a ping, if that was ever sent, however long ago.
Arrive(m) ==
  /\ rcv = "Idle"
  /\ m.quench \in sent \union {0}
  /\ frame' = m
  /\ rcv' = "Lock"
  /\ UNCHANGED <<userVars, answer, listeners, lock, begin, sent, handled>>

LockListeners ==
  /\ rcv = "Lock"
  /\ lock = None
  /\ lock' = "Receiver"
  /\ begin' = listeners.head
  /\ rcv' = "Loop"
  /\ UNCHANGED <<userVars, answer, listeners, frame, sent, handled>>

\* Mutant of AnswerTo: one less than the code, not one more.
AnswerBelow(m) ==
  CASE m.type = "EchoReply"   -> Pong
    [] m.type = "TTLExceeded" -> TTLExceeded
    [] m.type = "Unreachable" -> m.code - 1

\* The byte that EchoReplyListener::processFrame puts in its mailbox.
AnswerTo(m) ==
  CASE m.type = "EchoReply"   -> Pong
    [] m.type = "TTLExceeded" -> TTLExceeded
    [] m.type = "Unreachable" -> (m.code + 1) % 256

\* Mutant of Matches: the quench is not compared.
MatchesAny(l, m) == l # EchoServer /\ m.type # "EchoRequest"

\* EchoReplyListener::processFrame returns true.
Matches(l, m) == l # EchoServer /\ m.type # "EchoRequest" /\ m.quench = l

\* *begin
Listener == listeners.node[begin].item

\* Mutant of Pass: the iterator stays where it is.
PassInPlace ==
  /\ rcv = "Loop"
  /\ begin # None
  /\ ~Matches(Listener, frame)
  /\ UNCHANGED vars

\* A listener that is not concerned, or the echo server.
Pass ==
  /\ rcv = "Loop"
  /\ begin # None
  /\ ~Matches(Listener, frame)
  /\ begin' = List!Next(listeners, begin)
  /\ UNCHANGED <<userVars, answer, listeners, lock, rcv, frame, sent, handled>>

\* answer.send( 0, ... ) of the listener concerned.
Inform ==
  /\ rcv = "Loop"
  /\ begin # None
  /\ Matches(Listener, frame)
  /\ answer' = IF answer = <<>> THEN <<AnswerTo(frame)>> ELSE answer
  /\ rcv' = "Erase"
  /\ UNCHANGED <<userVars, listeners, lock, frame, begin, sent, handled>>

\* Mutant of Erase: the iterator is left on the node that is deleted.
EraseInPlace ==
  /\ rcv = "Erase"
  /\ listeners' = List!Erase(listeners, begin)
  /\ rcv' = "Loop"
  /\ UNCHANGED <<userVars, answer, lock, frame, begin, sent, handled>>

\* begin = listeners.erase( begin )
Erase ==
  /\ rcv = "Erase"
  /\ listeners' = List!Erase(listeners, begin)
  /\ begin' = List!Behind(listeners, begin)
  /\ rcv' = "Loop"
  /\ UNCHANGED <<userVars, answer, lock, frame, sent, handled>>

EndLoop ==
  /\ rcv = "Loop"
  /\ begin = None
  /\ lock' = None
  /\ rcv' = "Idle" /\ frame' = None
  /\ handled' = IF frame.quench = quench THEN handled \union {frame.type}
                                         ELSE handled
  /\ UNCHANGED <<userVars, answer, listeners, begin, sent>>

Receiver == LockListeners \/ Pass \/ Inform \/ Erase \/ EndLoop
------------------------------------------------------------------------------
Next ==
  \/ UserThread
  \/ \E m \in Messages : Arrive(m)
  \/ Receiver

Spec == Init /\ [][Next]_vars

(***************************************************************************)
(* The receiver thread runs and the address resolution under sendFrame()   *)
(* comes to an end.  The mutex goes to the thread that waits for it.       *)
(***************************************************************************)
FairSpec ==
  /\ Spec
  /\ WF_vars(Receiver)
  /\ WF_vars(Transmit \/ SendReturns \/ NoRoute \/ GetResponse \/ GetTimeout)
  /\ SF_vars(AddListener) /\ SF_vars(RemListener)
------------------------------------------------------------------------------
(***************************************************************************)
(* Properties.                                                             *)
(***************************************************************************)
TypeOK ==
  /\ user \in {"Menu", "Add", "Send", "Sent", "Wait", "Remove"}
  /\ quench \in 0 .. MaxPings
  /\ user # "Menu" => quench \in Pings
  /\ answer \in {<<>>} \union {<<b>> : b \in 0 .. 255}
  /\ val \in 0 .. 255
  /\ listeners \in
       [head : Nodes \union {None}, node : [Nodes -> Cells \union {None}]]
  /\ lock \in {None, "Receiver"}
  /\ rcv \in {"Idle", "Lock", "Loop", "Erase"}
  /\ frame \in Messages \union {None}
  /\ rcv # "Idle" => frame \in Messages
  /\ begin \in Nodes \union {None}
  /\ sent \subseteq Pings
  /\ handled \subseteq {"EchoReply", "TTLExceeded", "EchoRequest", "Unreachable"}

\* Every listener on the list is there once and exists: it is the echo server
\* or that of the ping under way, whether the handler or echoClient removes
\* it.
ListenersLive ==
  LET items == List!Items(listeners)
  IN  /\ \A i, j \in 1 .. Len(items) : items[i] = items[j] => i = j
      /\ \A i \in 1 .. Len(items) :
           \/ items[i] = EchoServer
           \/ items[i] = quench /\ user \in {"Send", "Sent", "Wait", "Remove"}

\* The walk never stands on a node that has been deleted or has left the list, and
\* the node it is about to erase is that of the listener it called.
IteratorLive ==
  /\ rcv \in {"Loop", "Erase"} =>
       begin = None \/ List!InChain(listeners, begin)
  /\ rcv = "Erase" => Listener = frame.quench

\* The messages about this ping that reached the handler so far.
Arrived ==
  handled \union (IF rcv # "Idle" /\ frame.quench = quench THEN {frame.type}
                                                            ELSE {})

\* What the user is told happened: it is no late answer to an earlier ping,
\* and silence is not reported when an answer had been processed in time.
\* (Unless the list of listeners was lost; and for codes below 253.)
ToldTheTruth ==
  [][user = "Wait" /\ user' = "Remove" =>
       CASE val' = Pong        -> "EchoReply" \in Arrived
         [] val' = TTLExceeded -> "TTLExceeded" \in Arrived
         [] val' = Timeout     -> \/ handled \subseteq {"EchoRequest"}
                                 \/ EchoServer \notin ToSet(List!Items(listeners))
         [] OTHER              -> "Unreachable" \in Arrived]_vars

\* "Host Unreachable - Code: %u": the step in which getResponse() takes a byte
\* from the mailbox does not turn it into another report when the only message
\* about the ping said so.
UnreachableReported ==
  [][(/\ user = "Wait" /\ user' = "Remove"
      /\ answer # <<>>
      /\ Arrived = {"Unreachable"})
       => val' \notin {Pong, TTLExceeded, Timeout}]_vars

\* The ping always comes to an end.
PingEnds == user = "Add" ~> user = "Menu"
==============================================================================
