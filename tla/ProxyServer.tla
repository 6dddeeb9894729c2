----------------------------- MODULE ProxyServer -----------------------------
(***************************************************************************)
(* The socket proxy (proxy/server.py) with the history it replays          *)
(* (core/replay.py): connections are accepted up to a cap, authenticate,   *)
(* are shown what they missed, and from then on receive what the device    *)
(* says through a bounded queue of their own, which a writer thread drains *)
(* into the socket.  A client whose queue is full is dropped.              *)
(*                                                                         *)
(* Threads: the session's read thread (Device), one handler thread and one *)
(* writer thread per connection, and the thread that calls stop().  Events *)
(* are fanned out by the thread that publishes them: the read thread for   *)
(* what the device says, a handler for the lines its client types and for  *)
(* the notice of a ban.  Status and trigger messages go the same way, and  *)
(* add nothing but their number.                                           *)
(*                                                                         *)
(* What the device says is a sequence of chunks 1, 2, ...; a line is the   *)
(* run of chunks up to the one that ends it.  A definition marked "Bug" is *)
(* a plausible wrong form of the definition that follows it.               *)
(***************************************************************************)
EXTENDS Naturals, Sequences, FiniteSets

CONSTANTS
  Conns,       \* the connections clients make, each once
  Device,      \* the session's read thread
  RoleOf,      \* the role bound to the code each of them sends
  MaxClients,  \* max_clients (0: no cap)
  QueueMax,    \* _SEND_QUEUE_MAX
  ReplayMax,   \* --replay-lines
  Wanted,      \* auth.replay: how much history the clients ask for (0: none)
  EchoTx,      \* --echo-tx
  MaxChunks,   \* bound: chunks the device sends
  MaxRequests  \* bound: messages the clients send

ASSUME ThreadsAssumption == Device \notin Conns
ASSUME RoleAssumption == RoleOf \in [Conns -> {"full", "readonly"}]
ASSUME BoundsAssumption ==
  /\ MaxClients \in Nat /\ QueueMax \in Nat \ {0} /\ ReplayMax \in Nat \ {0}
  /\ Wanted \subseteq Nat /\ MaxChunks \in Nat /\ MaxRequests \in Nat
ASSUME EchoAssumption == EchoTx \in BOOLEAN

VARIABLES
  active,    \* _active
  clients,   \* _clients
  pc,        \* where each connection's handler thread is
  sock,      \* its socket: "open", "hungup" by the peer, or "closed" by this side
  queue,     \* client.send_q
  writer,    \* where each connection's writer thread is
  sending,   \* the message that thread has taken from the queue
  toSend,    \* what _authenticate still has to send: auth_ok and the replay
  live,      \* ghost: the last chunk of the live stream sent, or else the chunks
             \* there were when the client joined
  requests,  \* ghost: messages received from clients, for the bound
  fanOut,    \* the event each thread is handing to clients, and to whom
  chunks,    \* chunks the device has sent
  pending,   \* the chunks of the line not ended yet
  replay,    \* ReplayBuffer._entries
  reader,    \* where the read thread is
  stopper,   \* where stop() is
  doomed     \* the clients stop() took and has not shut down yet

connection == <<pc, toSend, requests>>
delivery   == <<queue, writer, sending, live>>
device     == <<chunks, pending, replay, reader>>
vars == <<active, clients, sock, connection, delivery, fanOut, device, stopper, doomed>>

Threads == Conns \union {Device}

Rx(n)   == [kind |-> "rx", chunks |-> <<n>>]
Old(line) == [kind |-> "replay", chunks |-> line]
Other    == [kind |-> "other", chunks |-> <<>>]     \* all that is not the device's output
Sentinel == [kind |-> "sentinel", chunks |-> <<>>]

FanOut(msg, to) == IF to = {} THEN [msg |-> Sentinel, to |-> {}] ELSE [msg |-> msg, to |-> to]
Idle == FanOut(Sentinel, {})
Busy(t) == fanOut[t].to # {}

-----------------------------------------------------------------------------
(* _Client *)

\* Bug: one more than the queue holds.
HasRoomForOneMore(c) == Len(queue[c]) <= QueueMax

\* put_nowait: FALSE when the queue is full.
Fits(c) == Len(queue[c]) < QueueMax
Put(c, msg) == queue' = IF Fits(c) THEN [queue EXCEPT ![c] = Append(@, msg)] ELSE queue

\* Bug: a full queue is taken for a sign that somebody else is shutting down.
LeavesFullSocketOpen(C) ==
  /\ queue' = [c \in Conns |-> IF c \in C /\ Fits(c) THEN Append(queue[c], Sentinel) ELSE queue[c]]
  /\ sock'  = [c \in Conns |-> IF c \in C /\ Fits(c) THEN "closed" ELSE sock[c]]

\* shutdown(): the sentinel if it fits, and the socket closed whether it fits or not.
Shutdown(C) ==
  /\ queue' = [c \in Conns |-> IF c \in C /\ Fits(c) THEN Append(queue[c], Sentinel) ELSE queue[c]]
  /\ sock'  = [c \in Conns |-> IF c \in C THEN "closed" ELSE sock[c]]

\* _writer_loop: get() ...
WriterTakes(c) ==
  /\ writer[c] = "idle" /\ queue[c] # <<>>
  /\ sending' = [sending EXCEPT ![c] = Head(queue[c])]
  /\ queue'   = [queue EXCEPT ![c] = Tail(@)]
  /\ writer'  = [writer EXCEPT ![c] = IF Head(queue[c]) = Sentinel THEN "ended" ELSE "sending"]
  /\ UNCHANGED <<active, clients, sock, connection, live, fanOut, device, stopper, doomed>>

\* ... and sendall(), which a peer that does not read holds up for as long as it likes,
\* and which may not notice at once that it has hung up.
WriterSends(c) ==
  /\ writer[c] = "sending" /\ sock[c] # "closed"
  /\ live'    = IF sending[c].kind = "rx" THEN [live EXCEPT ![c] = Head(sending[c].chunks)] ELSE live
  /\ sending' = [sending EXCEPT ![c] = Sentinel]
  /\ writer'  = [writer EXCEPT ![c] = "idle"]
  /\ UNCHANGED <<active, clients, sock, connection, queue, fanOut, device, stopper, doomed>>

WriterFails(c) ==
  /\ writer[c] = "sending" /\ sock[c] # "open"
  /\ writer'  = [writer EXCEPT ![c] = "ended"]
  /\ sending' = [sending EXCEPT ![c] = Sentinel]
  /\ queue'   = IF pc[c] = "gone" THEN [queue EXCEPT ![c] = <<>>] ELSE queue
  /\ UNCHANGED <<active, clients, sock, connection, live, fanOut, device, stopper, doomed>>

-----------------------------------------------------------------------------
(* _on_event: the fan-out, on the thread that publishes *)

Subscribed == stopper = "serving"

\* The clients are copied under _clients_lock; nobody is waited for afterwards.
StartFanOut(t, msg, skip) ==
  fanOut' = [fanOut EXCEPT ![t] = FanOut(msg, IF Subscribed THEN clients \ skip ELSE {})]

\* Bug: a message that does not fit is skipped, and the client kept.
SkipsWhenFull(t, c) ==
  /\ c \in fanOut[t].to
  /\ fanOut' = [fanOut EXCEPT ![t] = FanOut(@.msg, @.to \ {c})]
  /\ Put(c, fanOut[t].msg)
  /\ UNCHANGED <<active, clients, sock, connection, writer, sending, live, device, stopper, doomed>>

\* Bug: the publishing thread waits for room.
WaitsWhenFull(t, c) ==
  /\ c \in fanOut[t].to
  /\ Fits(c)
  /\ fanOut' = [fanOut EXCEPT ![t] = FanOut(@.msg, @.to \ {c})]
  /\ Put(c, fanOut[t].msg)
  /\ UNCHANGED <<active, clients, sock, connection, writer, sending, live, device, stopper, doomed>>

\* A client whose queue is full is shut down and discarded.
HandTo(t, c) ==
  /\ c \in fanOut[t].to
  /\ fanOut' = [fanOut EXCEPT ![t] = FanOut(@.msg, @.to \ {c})]
  /\ IF Fits(c)
     THEN Put(c, fanOut[t].msg) /\ UNCHANGED <<clients, sock>>
     ELSE Shutdown({c}) /\ clients' = clients \ {c}
  /\ UNCHANGED <<active, connection, writer, sending, live, device, stopper, doomed>>

-----------------------------------------------------------------------------
(* The session's read thread: DATA goes to the fan-out, then LINE to the history *)

DeviceSays ==
  /\ reader = "reading"
  /\ chunks < MaxChunks
  /\ chunks'  = chunks + 1
  /\ pending' = Append(pending, chunks + 1)
  /\ StartFanOut(Device, Rx(chunks + 1), {})
  /\ reader' = "publishing"
  /\ UNCHANGED <<active, clients, sock, connection, delivery, replay, stopper, doomed>>

\* The chunk ends a line (ReplayBuffer.handle, maxlen oldest dropped) or not.
LineEnds(ends) ==
  /\ reader = "publishing" /\ ~Busy(Device)
  /\ IF ends
     THEN /\ replay'  = LET all == Append(replay, pending)
                        IN  IF Len(all) > ReplayMax THEN Tail(all) ELSE all
          /\ pending' = <<>>
     ELSE UNCHANGED <<replay, pending>>
  /\ reader' = "reading"
  /\ UNCHANGED <<active, clients, sock, connection, delivery, fanOut, chunks, stopper, doomed>>

-----------------------------------------------------------------------------
(* _accept_loop *)

\* accept() returns a connection; the loop has seen that nobody stops it.
AcceptReturns(c) ==
  /\ pc[c] = "away" /\ stopper = "serving"
  /\ \A d \in Conns : pc[d] # "accepted"
  /\ pc' = [pc EXCEPT ![c] = "accepted"]
  /\ sock' = [sock EXCEPT ![c] = "open"]
  /\ UNCHANGED <<active, clients, toSend, requests, delivery, fanOut, device, stopper, doomed>>

Full == MaxClients > 0 /\ active >= MaxClients

\* Turned away with retry: true, on the accept thread.
RefuseFull(c) ==
  /\ pc[c] = "accepted" /\ Full
  /\ pc' = [pc EXCEPT ![c] = "gone"]
  /\ sock' = [sock EXCEPT ![c] = "closed"]
  /\ UNCHANGED <<active, clients, toSend, requests, delivery, fanOut, device, stopper, doomed>>

\* A slot, and a thread of its own; stop() may have begun.
Admit(c) ==
  /\ pc[c] = "accepted" /\ ~Full
  /\ active' = active + 1
  /\ pc' = [pc EXCEPT ![c] = "authenticating"]
  /\ UNCHANGED <<clients, sock, toSend, requests, delivery, fanOut, device, stopper, doomed>>

AcceptStep(c) == RefuseFull(c) \/ Admit(c)

-----------------------------------------------------------------------------
(* _handle_client, on the connection's own thread *)

\* A banned address, a wrong or missing code, a timeout, a peer that went: no client.
\* The failure that gets its address banned is announced to the clients there are.
TurnAway(c, announced) ==
  /\ pc[c] = "authenticating"
  /\ pc' = [pc EXCEPT ![c] = "leaving"]
  /\ IF announced THEN StartFanOut(c, Other, {}) ELSE UNCHANGED fanOut
  /\ UNCHANGED <<active, clients, sock, toSend, requests, delivery, device, stopper, doomed>>

\* ReplayBuffer.snapshot(limit): the slice from len - limit, which counts from the
\* end when it is negative.
Snapshot(entries, limit) ==
  LET len  == Len(entries)
      from == IF limit <= len THEN len - limit ELSE IF limit <= 2 * len THEN 2 * len - limit ELSE 0
  IN  SubSeq(entries, from + 1, len)

Lines(entries) == [i \in DOMAIN entries |-> Old(entries[i])]

\* Live from here, and the history is what came before: both under _clients_lock.
Join(c, wanted) ==
  /\ pc[c] = "authenticating"
  /\ clients' = clients \union {c}
  /\ toSend'  = [toSend EXCEPT ![c] = <<Other>> \o
                   IF wanted > 0 THEN Lines(Snapshot(replay, wanted)) \o <<Other>> ELSE <<>>]
  /\ live' = [live EXCEPT ![c] = chunks]
  /\ pc' = [pc EXCEPT ![c] = "joining"]
  /\ UNCHANGED <<active, sock, requests, queue, writer, sending, fanOut, device, stopper, doomed>>

\* Bug: the history is read when it is sent, not under the lock the client joined under.
ReadsHistoryAfterAnswering(c) ==
  /\ pc[c] = "joining" /\ toSend[c] # <<>>
  /\ toSend' = [toSend EXCEPT ![c] =
                  IF Len(@) > 1 /\ Head(@) = Other THEN Lines(replay) \o <<Other>> ELSE Tail(@)]
  /\ UNCHANGED <<active, clients, sock, pc, requests, delivery, fanOut, device, stopper, doomed>>

\* _send_now, straight to the socket: an error or a timeout goes unnoticed.
SendNow(c) ==
  /\ pc[c] = "joining" /\ toSend[c] # <<>>
  /\ toSend' = [toSend EXCEPT ![c] = Tail(@)]
  /\ UNCHANGED <<active, clients, sock, pc, requests, delivery, fanOut, device, stopper, doomed>>

\* settimeout(None), which raises on a socket this side has closed by now.
Unblock(c) ==
  /\ pc[c] = "joining" /\ toSend[c] = <<>>
  /\ pc' = [pc EXCEPT ![c] = IF sock[c] = "closed" THEN "leaving" ELSE "joined"]
  /\ UNCHANGED <<active, clients, sock, toSend, requests, delivery, fanOut, device, stopper, doomed>>

\* Added again (server.py:381), and only now is there a writer.
StartServing(c) ==
  /\ pc[c] = "joined"
  /\ clients' = clients \union {c}
  /\ writer'  = [writer EXCEPT ![c] = "idle"]
  /\ pc' = [pc EXCEPT ![c] = "serving"]
  /\ UNCHANGED <<active, sock, toSend, requests, queue, sending, live,
                 fanOut, device, stopper, doomed>>

\* A line of the client's is there: what was received before the socket closed still is.
Request(c) ==
  /\ pc[c] = "serving" /\ requests < MaxRequests
  /\ requests' = requests + 1

\* ping, a tx refused to a read-only client, a write that failed: a full queue loses the answer.
Answer(c) ==
  /\ Request(c)
  /\ Put(c, Other)
  /\ UNCHANGED <<active, clients, sock, pc, toSend, writer, sending, live,
                 fanOut, device, stopper, doomed>>

\* _handle_tx: session.write() on this thread, with no lock ...
BeginWrite(c) ==
  /\ Request(c)
  /\ RoleOf[c] = "full"
  /\ pc' = [pc EXCEPT ![c] = "writing"]
  /\ UNCHANGED <<active, clients, sock, toSend, delivery, fanOut, device, stopper, doomed>>

\* ... whose TX line event is fanned out on it too, to everyone else.
EndWrite(c) ==
  /\ pc[c] = "writing"
  /\ pc' = [pc EXCEPT ![c] = "serving"]
  /\ IF EchoTx THEN StartFanOut(c, Other, {c}) ELSE UNCHANGED fanOut
  /\ UNCHANGED <<active, clients, sock, toSend, requests, delivery, device, stopper, doomed>>

HangUp(c) ==
  /\ sock[c] = "open"
  /\ sock' = [sock EXCEPT ![c] = "hungup"]
  /\ UNCHANGED <<active, clients, connection, delivery, fanOut, device, stopper, doomed>>

\* read_lines ends: recv() failed or returned nothing.
ReaderEnds(c) ==
  /\ pc[c] = "serving" /\ sock[c] # "open"
  /\ pc' = [pc EXCEPT ![c] = "leaving"]
  /\ UNCHANGED <<active, clients, sock, toSend, requests, delivery, fanOut, device, stopper, doomed>>

\* The finally clause.
Leave(c) ==
  /\ pc[c] = "leaving"
  /\ clients' = clients \ {c}
  /\ Shutdown({c})
  /\ pc' = [pc EXCEPT ![c] = "releasing"]
  /\ UNCHANGED <<active, toSend, requests, writer, sending, live, fanOut, device, stopper, doomed>>

\* The ghost of a connection that is over, and a queue nobody will read again.
ForgetConnection(c) ==
  /\ live'  = [live EXCEPT ![c] = 0]
  /\ queue' = IF writer[c] \in {"none", "ended"} THEN [queue EXCEPT ![c] = <<>>] ELSE queue

\* Bug: the slot is freed only by a client that was authenticated.
ReleasesOnlyClients(c) ==
  /\ pc[c] = "releasing"
  /\ active' = IF writer[c] # "none" THEN active - 1 ELSE active
  /\ pc' = [pc EXCEPT ![c] = "gone"]
  /\ ForgetConnection(c)
  /\ UNCHANGED <<clients, sock, toSend, requests, writer, sending, fanOut, device, stopper, doomed>>

\* _serve_counted's finally.
Release(c) ==
  /\ pc[c] = "releasing"
  /\ active' = active - 1
  /\ pc' = [pc EXCEPT ![c] = "gone"]
  /\ ForgetConnection(c)
  /\ UNCHANGED <<clients, sock, toSend, requests, writer, sending, fanOut, device, stopper, doomed>>

\* A handler fans its event out before it goes on.
HandlerStep(c) ==
  \/ \E d \in Conns : HandTo(c, d)
  \/ /\ ~Busy(c)
     /\ \/ \E announced \in BOOLEAN : TurnAway(c, announced)
        \/ \E wanted \in Wanted : Join(c, wanted)
        \/ SendNow(c) \/ Unblock(c) \/ StartServing(c)
        \/ EndWrite(c)
        \/ ReaderEnds(c)
        \/ Leave(c) \/ Release(c)

ClientStep(c) ==
  \/ AcceptReturns(c) \/ HangUp(c)
  \/ /\ ~Busy(c)
     /\ Answer(c) \/ BeginWrite(c)

WriterStep(c) == WriterTakes(c) \/ WriterFails(c)

DeviceStep == (\E c \in Conns : HandTo(Device, c)) \/ \E ends \in BOOLEAN : LineEnds(ends)

-----------------------------------------------------------------------------
(* stop() *)

\* No more events, no more connections.
BeginStop ==
  /\ stopper = "serving"
  /\ stopper' = "stopping"
  /\ UNCHANGED <<active, clients, sock, connection, delivery, fanOut, device, doomed>>

StopTakesClients ==
  /\ stopper = "stopping"
  /\ doomed'  = clients
  /\ clients' = {}
  /\ stopper' = "closing"
  /\ UNCHANGED <<active, sock, connection, delivery, fanOut, device>>

StopShutsDown(c) ==
  /\ stopper = "closing" /\ c \in doomed
  /\ Shutdown({c})
  /\ doomed' = doomed \ {c}
  /\ UNCHANGED <<active, clients, connection, writer, sending, live, fanOut, device, stopper>>

StopEnds ==
  /\ stopper = "closing" /\ doomed = {}
  /\ stopper' = "stopped"
  /\ UNCHANGED <<active, clients, sock, connection, delivery, fanOut, device, doomed>>

StopStep == StopTakesClients \/ StopEnds \/ \E c \in Conns : StopShutsDown(c)

-----------------------------------------------------------------------------
Init ==
  /\ active = 0 /\ clients = {} /\ doomed = {} /\ stopper = "serving"
  /\ pc = [c \in Conns |-> "away"]
  /\ sock = [c \in Conns |-> "none"] /\ requests = 0
  /\ queue = [c \in Conns |-> <<>>] /\ toSend = [c \in Conns |-> <<>>]
  /\ writer = [c \in Conns |-> "none"] /\ sending = [c \in Conns |-> Sentinel]
  /\ live = [c \in Conns |-> 0]
  /\ fanOut = [t \in Threads |-> Idle]
  /\ chunks = 0 /\ pending = <<>> /\ replay = <<>> /\ reader = "reading"

Next ==
  \/ DeviceSays \/ DeviceStep
  \/ BeginStop \/ StopStep
  \/ \E c \in Conns : ClientStep(c) \/ AcceptStep(c) \/ HandlerStep(c) \/ WriterStep(c) \/ WriterSends(c)

\* Every thread runs, and a write to the device returns.  Nothing is assumed of the device, of the peers (they may
\* never read, write or hang up), nor that anybody stops the proxy.
Fairness ==
  /\ WF_vars(DeviceStep) /\ WF_vars(StopStep)
  /\ \A c \in Conns : WF_vars(AcceptStep(c)) /\ WF_vars(HandlerStep(c)) /\ WF_vars(WriterStep(c))

Spec == Init /\ [][Next]_vars /\ Fairness
-----------------------------------------------------------------------------
(* Properties *)

Message == {m \in [kind: {"rx", "replay", "other", "sentinel"}, chunks: Seq(Nat)] :
              m.kind = "rx" => Len(m.chunks) = 1}

TypeOK ==
  /\ active \in Nat /\ clients \in SUBSET Conns /\ doomed \in SUBSET Conns
  /\ pc \in [Conns -> {"away", "accepted", "authenticating", "joining", "joined", "serving",
                       "writing", "leaving", "releasing", "gone"}]
  /\ sock \in [Conns -> {"none", "open", "hungup", "closed"}]
  /\ writer \in [Conns -> {"none", "idle", "sending", "ended"}]
  /\ queue \in [Conns -> Seq(Message)] /\ \A c \in Conns : Len(queue[c]) <= QueueMax
  /\ toSend \in [Conns -> Seq(Message)] /\ live \in [Conns -> Nat]
  /\ sending \in [Conns -> Message] /\ requests \in Nat
  /\ fanOut \in [Threads -> [msg: Message, to: SUBSET Conns]]
  /\ chunks \in Nat /\ pending \in Seq(Nat) /\ replay \in Seq(Seq(Nat))
  /\ Len(replay) <= ReplayMax /\ reader \in {"reading", "publishing"}
  /\ stopper \in {"serving", "stopping", "closing", "stopped"}

Served == {c \in Conns : pc[c] \in {"authenticating", "joining", "joined", "serving",
                                    "writing", "leaving", "releasing"}}

\* S26, S40: every connection being served holds one of the max_clients slots, nobody
\* else does, and only they are listed as clients: not one that has gone, even when
\* the fan-out drops it just as its handler adds it again (server.py:325-344, 381, 675).
SlotsHeldByTheServed ==
  /\ active = Cardinality(Served)
  /\ MaxClients > 0 => active <= MaxClients
  /\ clients \subseteq Served

ChunksOf(msg)  == {msg.chunks[i] : i \in DOMAIN msg.chunks}
ChunksIn(msgs) == UNION {ChunksOf(msgs[i]) : i \in DOMAIN msgs}

Increasing(line) == \A k, l \in DOMAIN line : k < l => line[k] < line[l]

\* Chunk after chunk, within a message and from one to the next.
Ordered(msgs) ==
  /\ \A i \in DOMAIN msgs : Increasing(msgs[i].chunks)
  /\ \A i, j \in DOMAIN msgs : i < j => \A a \in ChunksOf(msgs[i]), b \in ChunksOf(msgs[j]) : a < b

\* Everything on its way to the peer, in the order it will be sent.
Coming(c) ==
  (IF writer[c] = "sending" THEN <<sending[c]>> ELSE <<>>) \o toSend[c] \o queue[c]

\* S18: what a client is sent of the device's output never goes back and never
\* repeats: the history first, then what came after it (server.py:431-438, 471).
OutputInOrder ==
  \A c \in Conns : Ordered(Coming(c)) /\ ChunksIn(toSend[c]) \subseteq 0..live[c]

\* The live stream that is coming, and the chunk the client is just being handed.
LiveComing(c) ==
  ChunksIn(Coming(c)) \union (IF c \in fanOut[Device].to THEN {chunks} ELSE {})

\* PROTOCOL.md:184: a client that cannot keep up is dropped, never sent a stream with a
\* hole in it: from the moment it joined, every chunk is its own to receive.
LiveHasNoHoles ==
  \A c \in clients :
    sock[c] = "open" /\ Subscribed => (live[c] + 1)..chunks \subseteq LiveComing(c)

\* server.py:168, 190: a connection that is over, its socket closed by either side or
\* the client discarded by a fan-out whose queue had no room for the sentinel, gives
\* its slot back, and both its threads end.
DroppedIsReleased ==
  \A c \in Conns :
    \/ sock[c] \in {"hungup", "closed"}
    \/ pc[c] = "serving" /\ c \notin clients /\ stopper = "serving"
    ~> pc[c] = "gone" /\ writer[c] \in {"none", "ended"}

\* README.arch: a slow client can never stall the serial pump; the read thread always
\* gets through its fan-out, whatever the clients' sockets do.
DeviceNeverStalls == Busy(Device) ~> ~Busy(Device)
=============================================================================
