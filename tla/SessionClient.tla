---------------------------- MODULE SessionClient ----------------------------
(***************************************************************************)
(* The session client (client.py, SPEC S41, S43, S47): a receive thread    *)
(* takes what the session sends and keeps it; any number of threads read   *)
(* lines with a cursor, wait for one, or ask for something and wait for    *)
(* the answer; a heartbeat thread finds out that the link is dead.         *)
(*                                                                         *)
(* One SessionClient object is one connection: conn, and what is here of   *)
(* an object starts anew with it (Attach).  A line is its number; the      *)
(* partial line has the number it would get.                               *)
(***************************************************************************)
EXTENDS SharedRules, SequencesExt

CONSTANTS
  Callers,    \* the threads that use the client
  RingMax,    \* max_lines: the lines kept
  EventsMax,  \* the trigger events kept
  Beats,      \* heartbeats without an answer that count as a lost link
  MaxReplay   \* bound: lines of history sent to a client that joins

ASSUME ClientAssumption ==
  RingMax \in Nat \ {0} /\ EventsMax \in Nat \ {0} /\ Beats \in Nat \ {0} /\ MaxReplay \in Nat

VARIABLES
  conn,       \* the connection, 0 before the first
  connected,  \* connected
  socket,     \* whether _sock is set
  receiving,  \* the receive thread: off, reading, line (has one added and sets the partial line)
  lines,      \* _lines: the numbers of those kept
  lastN,      \* _last_n
  partial,    \* _partial: 0 or its number
  events,     \* _events: trigger events kept, numbered as they are heard
  known,      \* device["state"]
  quiet,      \* heartbeats since something was heard (_last_heard)
  replies,    \* _replies
  awaiting,   \* _awaiting
  decided,    \* _decided: what the owner decided, by proposal
  asked,      \* requests sent so far
  asker,      \* who holds _request_lock
  asking,     \* each caller in a request: where it is
  request,    \* and the one it sent last
  result,     \* ghost: what each request returned: the answer taken for it, or that it gave up
  unread      \* ghost: lines that came between the two halves of a read()

rings  == <<lines, lastN, partial, events, known>>
wires  == <<conn, connected, socket, receiving, quiet>>
answers == <<replies, awaiting, decided>>
asks   == <<asked, asker, asking, request, result>>
client == <<rings, wires, answers, asks, unread>>

Nobody == "nobody"
ASSUME CallersAssumption == Nobody \notin Callers
NoRequest == [is |-> "none", about |-> 0]
None   == [about |-> 0, status |-> "none"]
GaveUp == [about |-> 0, status |-> "gave up"]
Short(msg) == [about |-> msg.about, status |-> msg.status]
Results ==
  {None, GaveUp} \union [about : Requests, status : {"done", "refused", "pending", "declined", "accepted"}]

ClientTypeOK ==
  /\ conn \in 0..MaxConns
  /\ connected \in BOOLEAN /\ socket \in BOOLEAN
  /\ receiving \in {"off", "reading", "line"}
  /\ lines \in Seq(Nat) /\ Len(lines) <= RingMax
  /\ lastN \in Nat /\ partial \in Nat
  /\ events \in Seq(Nat) /\ Len(events) <= EventsMax
  /\ known \in States
  /\ quiet \in 0..Beats
  /\ replies \in Seq(Answer)
  /\ awaiting \subseteq Requests
  /\ decided \subseteq Results \ {None, GaveUp}
  /\ asked \in 0..MaxRequests
  /\ asker \in Callers \union {Nobody}
  /\ asking \in [Callers -> {"no", "send", "await", "decision"}]
  /\ request \in [Callers -> {NoRequest} \union [is : RequestKinds, about : Requests]]
  /\ result \in [Requests -> Results]
  /\ unread \subseteq Nat

\* __init__()
Fresh ==
  /\ partial' = 0 /\ events' = <<>>
  /\ quiet' = 0 /\ unread' = {}
  /\ replies' = <<>> /\ awaiting' = {} /\ decided' = {}
  /\ asker' = Nobody
  /\ asking'  = [t \in Callers |-> "no"]
  /\ request' = [t \in Callers |-> NoRequest]

ClientInit ==
  /\ conn = 0 /\ connected = FALSE /\ socket = FALSE /\ receiving = "off"
  /\ lines = <<>> /\ lastN = 0 /\ partial = 0 /\ events = <<>> /\ known = device
  /\ quiet = 0 /\ unread = {}
  /\ replies = <<>> /\ awaiting = {} /\ decided = {}
  /\ asked = 0 /\ asker = Nobody
  /\ asking  = [t \in Callers |-> "no"]
  /\ request = [t \in Callers |-> NoRequest]
  /\ result  = [r \in Requests |-> None]

-----------------------------------------------------------------------------
(* The connection *)

\* connect() of a new SessionClient: auth_ok tells the device's state, and the history, up to
\* replay_end, is in hand when it returns.  Nobody else has the object yet.
Attach(history) ==
  /\ conn < MaxConns
  /\ share = "on"
  /\ history \in 0..MaxReplay
  /\ conn' = conn + 1 /\ connected' = TRUE /\ socket' = TRUE /\ receiving' = "reading"
  /\ Fresh
  /\ lines' = LET kept == IF history < RingMax THEN history ELSE RingMax
              IN  [i \in 1..kept |-> history - kept + i]
  /\ lastN' = history
  /\ known' = device
  /\ link'    = [link EXCEPT ![conn + 1] = "up"]
  /\ handler' = [handler EXCEPT ![conn + 1] = "serving"]
  /\ UNCHANGED <<share, toServer, toClient, rules, proposal, device, said, late,
                 asked, result>>

\* Whether what comes through is still heard.
Hears == conn # 0 /\ socket /\ receiving = "reading"

\* _read_line(): the next message of the stream.
Receive(is) ==
  /\ Hears
  /\ link[conn] # "silent"
  /\ toClient[conn] # <<>>
  /\ Head(toClient[conn]).is = is
  /\ toClient' = [toClient EXCEPT ![conn] = Tail(@)]
  /\ quiet' = 0
  /\ UNCHANGED <<share, link, handler, toServer, rules, proposal, device, said, late,
                 conn, connected, socket, asks>>

\* Bug: nothing is ever forgotten.
Kept(ring, n, max) == Append(ring, n)

\* A deque with a maxlen.
Pushed(ring, n, max) == IF Len(ring) < max THEN Append(ring, n) ELSE Append(Tail(ring), n)

\* An rx that ends a line: the line is added in a step of its own, here; what is left of it
\* replaces the partial line in the next (EndOfChunk).  Whoever is between the halves of a
\* read() does not see it.
ReceiveLine(between) ==
  /\ Receive("line")
  /\ lastN' = lastN + 1
  /\ lines' = Pushed(lines, lastN + 1, RingMax)
  /\ unread' = IF between THEN unread \union {lastN + 1} ELSE unread
  /\ receiving' = "line"
  /\ UNCHANGED <<partial, events, known, answers>>

EndOfChunk ==
  /\ receiving = "line"
  /\ receiving' = "reading"
  /\ partial' = 0
  /\ UNCHANGED <<server, lines, lastN, events, known, conn, connected, socket, quiet, answers,
                 asks, unread>>

\* An rx that ends no line.
ReceivePrompt ==
  /\ Receive("prompt")
  /\ partial' = lastN + 1
  /\ UNCHANGED <<lines, lastN, events, known, receiving, answers, unread>>

ReceiveEvent ==
  /\ Receive("trigger")
  /\ events' = Pushed(events, IF events = <<>> THEN 1 ELSE Last(events) + 1, EventsMax)
  /\ UNCHANGED <<lines, lastN, partial, known, receiving, answers, unread>>

\* A status is kept before on_device is called.
ReceiveStatus ==
  /\ Receive("status")
  /\ known' = Head(toClient[conn]).state
  /\ UNCHANGED <<lines, lastN, partial, events, receiving, answers, unread>>

ReceivePong ==
  /\ Receive("pong")
  /\ UNCHANGED <<rings, receiving, answers, unread>>

ReceiveWatchAnswer ==
  /\ \E is \in {"watch_ok", "watch_fail", "watch_list"} : Receive(is)
  /\ replies' = Append(replies, Head(toClient[conn]))
  /\ UNCHANGED <<rings, receiving, awaiting, decided, unread>>

\* Bug: every proposal answer is taken for the answer to the request under way.
TakesEveryProposal ==
  /\ Receive("proposal")
  /\ replies' = Append(replies, Head(toClient[conn]))
  /\ UNCHANGED <<rings, receiving, awaiting, decided, unread>>

\* What is decided on a proposal that is waited for is kept for who waits; the rest answers
\* the request under way.
ReceiveProposal ==
  /\ Receive("proposal")
  /\ LET msg == Head(toClient[conn]) IN
     IF msg.status # "pending" /\ msg.about \in awaiting
       THEN /\ decided' = decided \union {Short(msg)}
            /\ UNCHANGED <<replies, awaiting>>
       ELSE /\ replies' = Append(replies, msg)
            /\ awaiting' = IF msg.status = "pending" THEN awaiting \union {msg.about} ELSE awaiting
            /\ UNCHANGED decided
  /\ UNCHANGED <<rings, receiving, unread>>

\* The stream has ended, or this side has closed it: the receive thread tells everyone.
SeesTheEnd ==
  /\ conn # 0
  /\ receiving = "reading"
  /\ ~socket \/ (link[conn] = "closed" /\ toClient[conn] = <<>>)
  /\ receiving' = "off"
  /\ connected' = FALSE
  /\ UNCHANGED <<server, rings, conn, socket, quiet, answers, asks, unread>>

\* _beat(): a ping, which the server answers through the client's queue.
Beat ==
  /\ connected /\ socket
  /\ quiet < Beats
  /\ quiet' = quiet + 1
  /\ \/ /\ handler[conn] = "serving"
        /\ Reply(conn, [is |-> "pong"])
     \/ UNCHANGED toClient
  /\ UNCHANGED <<share, link, handler, toServer, rules, proposal, device, said, late,
                 rings, conn, connected, socket, receiving, answers, asks, unread>>

\* Shutting the socket down: nothing that was on its way is read.
Shut ==
  /\ socket' = FALSE
  /\ connected' = FALSE
  /\ link' = [link EXCEPT ![conn] = "closed"]
  /\ toClient' = [toClient EXCEPT ![conn] = <<>>]

\* Bug: a link nothing comes back on is pinged for ever.
KeepsPinging ==
  /\ connected /\ socket /\ quiet = Beats
  /\ UNCHANGED <<server, client>>

\* Nothing for three beats: the link is lost.
BeatGivesUp ==
  /\ connected /\ socket
  /\ quiet = Beats
  /\ Shut
  /\ UNCHANGED <<share, handler, toServer, rules, proposal, device, said, late,
                 rings, conn, receiving, quiet, answers, asks, unread>>

\* close()
CloseClient ==
  /\ socket
  /\ Shut
  /\ UNCHANGED <<share, handler, toServer, rules, proposal, device, said, late,
                 rings, conn, receiving, quiet, answers, asks, unread>>

-----------------------------------------------------------------------------
(* Reading: read() takes the lock twice when there is nothing new. *)

\* The lines after a cursor that are kept, and how many were not.
After(cursor) == {n \in ToSet(lines) : n > cursor}

\* Bug: lines that fell off the ring before they were read are not counted.
CountsNoneDropped(cursor) == 0

Dropped(cursor) ==
  IF lastN > cursor
    THEN LET first == IF lines = <<>> THEN lastN + 1 ELSE Head(lines)
         IN  IF first > cursor + 1 THEN first - cursor - 1 ELSE 0
    ELSE 0

-----------------------------------------------------------------------------
(* Asking: _request(), one at a time, and propose_rule(). *)

\* The message that ends a request of that kind well.
OkOf(is) == CASE is = "watch_add"    -> "watch_ok"
              [] is = "watch_remove" -> "watch_ok"
              [] is = "watch_list"   -> "watch_list"
              [] is = "rule_propose" -> "proposal"

\* Under _request_lock; answers nobody waited for any more are thrown away first.
Drain(t) ==
  /\ asking[t] = "no"
  /\ asked < MaxRequests
  /\ asker = Nobody
  /\ asker'   = t
  /\ replies' = <<>>
  /\ asking'  = [asking EXCEPT ![t] = "send"]
  /\ UNCHANGED <<server, rings, wires, awaiting, decided, asked, request, result, unread>>

\* _send(): what is sent on a link that is gone is lost; without a socket it raises.
SendRequest(t, is, target) ==
  /\ asking[t] = "send"
  /\ IF socket
       THEN /\ asked'   = asked + 1
            /\ request' = [request EXCEPT ![t] = [is |-> is, about |-> asked + 1]]
            /\ asking'  = [asking EXCEPT ![t] = "await"]
            /\ toServer' = IF link[conn] = "up" /\ handler[conn] = "serving"
                             THEN [toServer EXCEPT ![conn] =
                                     Append(@, [is |-> is, about |-> asked + 1, target |-> target])]
                             ELSE toServer
            /\ UNCHANGED asker
       ELSE /\ asking' = [asking EXCEPT ![t] = "no"]
            /\ asker'  = Nobody
            /\ UNCHANGED <<asked, request, toServer>>
  /\ UNCHANGED <<share, link, handler, toClient, rules, proposal, device, said, late,
                 rings, wires, answers, result, unread>>

Return(t, what, then) ==
  /\ asking' = [asking EXCEPT ![t] = then]
  /\ result' = [result EXCEPT ![request[t].about] = what]

\* The oldest reply: a refusal ends any request; of another kind than the one it waits for,
\* it is ignored; "pending" is an answer, and propose_rule() goes on without the lock.
TakeReply(t) ==
  /\ asking[t] = "await"
  /\ replies # <<>>
  /\ replies' = Tail(replies)
  /\ LET reply == Head(replies) IN
     IF reply.is \in {"watch_fail", OkOf(request[t].is)}
       THEN /\ Return(t, Short(reply), IF reply.status = "pending" THEN "decision" ELSE "no")
            /\ asker' = Nobody
       ELSE UNCHANGED <<asking, result, asker>>
  /\ UNCHANGED <<server, rings, wires, awaiting, decided, asked, request, unread>>

RequestTimesOut(t) ==
  /\ asking[t] = "await"
  /\ Return(t, GaveUp, "no")
  /\ asker' = Nobody
  /\ UNCHANGED <<server, rings, wires, answers, asked, request, unread>>

\* The proposal the answer named.
Named(t) == result[request[t].about].about

TakeDecision(t) ==
  /\ asking[t] = "decision"
  /\ \E d \in decided :
       /\ d.about = Named(t)
       /\ decided' = decided \ {d}
       /\ Return(t, d, "no")
  /\ awaiting' = awaiting \ {Named(t)}
  /\ UNCHANGED <<server, rings, wires, replies, asked, asker, request, unread>>

\* In time nobody decided, or the link is gone: "unanswered".
StopWaiting(t) ==
  /\ asking[t] = "decision"
  /\ \A d \in decided : d.about # Named(t)
  /\ awaiting' = awaiting \ {Named(t)}
  /\ Return(t, GaveUp, "no")
  /\ UNCHANGED <<server, rings, wires, replies, decided, asked, asker, request, unread>>

Answered(r) == result[r] \notin {None, GaveUp}

\* An answer is to the request it is returned for, unless the request it is to was given up,
\* or had been returned another's: answers carry no request number, and one that comes late
\* may be taken for the next (client.py:346-365).
AnswersAreOwn ==
  \A r \in Requests : Answered(r) =>
    LET to == result[r].about IN to = r \/ result[to] = GaveUp \/ result[to].about # to

\* S47: what the agent is told its owner decided is what the owner did: a rule it is told was
\* accepted is approved, and one it is told was declined is not in the table.
DecisionsAreTrue ==
  \A r \in Requests :
    LET told == result[r] IN
    /\ told.status = "accepted" => \A x \in rules : x.id = told.about => x.approved
    /\ told.status = "declined" => \A x \in rules : x.id # told.about
=============================================================================
