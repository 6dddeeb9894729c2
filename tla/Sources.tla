-------------------------------- MODULE Sources --------------------------------
(***************************************************************************)
(* Where a session's bytes come from and go to (io/*.py), with the thread  *)
(* of the session that opens, reads and closes the source and the threads  *)
(* that write to it (core/session.py).                                     *)
(*                                                                         *)
(* kind says which source it is: uart, url, ssh, telnet, or socket, the    *)
(* client of another uart-proxy.  A connection is a number; what the far   *)
(* end sends on it is numbered too.  What the proxy sends are messages,    *)
(* one a line; TCP gives them back whole, but for the last one before the  *)
(* connection ends, which may be cut.  A telnet command is two units.      *)
(*                                                                         *)
(* A write is some units long, and the kernel may take them one by one.    *)
(***************************************************************************)
EXTENDS Naturals, Sequences, SequencesExt, FiniteSets

CONSTANTS
  MaxConns,   \* bound: connections made
  MaxSpoken,  \* bound: what the far end says on a connection
  MaxAsked    \* bound: telnet commands it sends on a connection

ASSUME SourceBounds ==
  MaxConns \in Nat /\ MaxSpoken \in Nat /\ MaxAsked \in Nat

Kinds   == {"uart", "url", "ssh", "telnet", "socket"}
Threads == {"conn", "ui", "pty"}   \* the session's own, and two of those that write
Verbs   == {"WILL", "WONT", "DO", "DONT"}
Options == {"echo", "naws", "other"}
TheyMay == {"echo"}                \* _THEY_MAY, _WE_WILL: one option for each answer
WeWill  == {"naws"}

Adapters == {"own", "twin"}        \* two adapters of one model
Paths    == {"tty0", "tty1"}
Places   == {"left", "right"}      \* USB sockets

VARIABLES
  kind, serial, replays, \* the source; whether adapters have a serial number; whether history is asked
  manager,    \* the session's thread: where it is in open(), reading, or what it does next
  connected,  \* UartSession._connected
  conn,       \* the connection the source holds, 0 for none
  made,       \* connections made
  far,        \* the other end: up, gone
  greeted,    \* the proxy has answered
  inbox,      \* what is on its way from the other end
  spoke,      \* how much the device has said on this connection
  asked,      \* telnet commands sent on it
  wire,       \* what was written to it
  recvBuf,    \* SocketSource._recv_buf
  pending,    \* SocketSource._pending
  role,       \* SocketSource.role
  proto,      \* TelnetSource._proto
  answer,     \* the telnet thread in read(): what it has yet to look at, the data, the replies
  sending,    \* each thread in write()
  writes,     \* writes begun
  heard,      \* ghost: what the session has received
  accepted,   \* ghost: connections the proxy accepted
  botched,    \* ghost: connections left behind by an open() that raised
  refusal,    \* ghost: why a refusal ended the session
  swallowed,  \* ghost: what arrived and no read() will return
  began,      \* ghost: the connection each write began on
  raised      \* ghost: the writes that raised after they had begun to send

linkVars == <<conn, made, far, greeted, inbox, spoke, asked, wire>>
stores   == <<recvBuf, pending, role, proto, answer>>
ghosts   == <<heard, accepted, botched, refusal, swallowed, began, raised>>

VARIABLES
  ports,      \* uart: which adapter is under each path
  place,      \* the USB socket of each adapter
  path,       \* UartSource._device_path
  identity,   \* UartSource.identity: the adapter first opened, and where it was plugged in
  moved,      \* ghost: the adapter open() last followed to
  claim,      \* UartSource.is_exclusive
  guest       \* another program has the port open

uartVars   == <<ports, place, path, identity, moved, claim, guest>>
sourceVars == <<kind, serial, replays, manager, connected, linkVars, stores, sending, writes, ghosts,
                uartVars>>

Item(is)   == [is |-> is, conn |-> conn, n |-> 0]
Output(n)  == [is |-> "rx", conn |-> conn, n |-> n]
IsOutput(item) == item.is = "rx"

Items  == [is : {"rx", "ok", "no", "full", "history", "end", "part", "garbage"} \union Verbs
                \union Options,
           conn : Nat, n : Nat]
Words  == [is : {"data", "resize"} \union Verbs, opt : Options \union {"none"}]
Sent   == [id : Nat, is : {"hello", "data", "resize"} \union Verbs, opt : Options \union {"none"}]

NoIdentity == [adapter |-> "none", place |-> "left"]
Fresh      == [us |-> {}, them |-> {}, verb |-> "none"]
NoAnswer   == [chunk |-> <<>>, data |-> <<>>, replies |-> <<>>]
Idle       == [at |-> "idle", rest |-> <<>>, id |-> 0, on |-> 0]

SourceTypeOK ==
  /\ kind \in Kinds /\ serial \in BOOLEAN /\ replays \in BOOLEAN /\ connected \in BOOLEAN
  /\ manager \in {"open", "hello", "answer", "history", "claim", "read", "receive", "reply", "ingest",
                  "close", "pause", "ended"}
  /\ conn \in 0..MaxConns /\ made \in 0..MaxConns /\ conn \in {0, made}
  /\ connected => conn # 0
  /\ far \in {"up", "gone"} /\ greeted \in BOOLEAN
  /\ spoke \in 0..MaxSpoken /\ asked \in 0..MaxAsked /\ writes \in Nat
  /\ inbox \in Seq(Items) /\ recvBuf \in Seq(Items) /\ pending \in Seq(Items)
  /\ heard \in Seq(Items) /\ swallowed \subseteq Items
  /\ \A item \in ToSet(inbox) : item.conn = conn
  /\ \A item \in ToSet(heard) \union ToSet(pending) : IsOutput(item)
  /\ answer \in [chunk : Seq(Items), data : Seq(Items), replies : Seq(Words)]
  /\ wire \in Seq(Sent) /\ began \subseteq Nat \X (0..MaxConns) /\ raised \subseteq Nat
  /\ role \in {"none", "full", "readonly"}
  /\ proto \in [us : SUBSET WeWill, them : SUBSET TheyMay, verb : Verbs \union {"none"}]
  /\ sending \in [Threads -> [at : {"idle", "checked", "sending", "done", "failed"},
                              rest : Seq(Words), id : Nat, on : 0..MaxConns]]
  /\ refusal \in {"none", "answer", "leftover"}
  /\ accepted \subseteq 1..made /\ botched \subseteq 1..made
  /\ ports \in [Paths -> Adapters \union {"none"}] /\ place \in [Adapters -> Places]
  /\ path \in Paths /\ moved \in Adapters \union {"none"} /\ guest \in BOOLEAN
  /\ identity \in [adapter : Adapters \union {"none"}, place : Places]
  /\ claim \in BOOLEAN
  /\ claim => manager = "read" \/ manager = "close"

\* The session has started; the adapter is in or not.
SourceInit(source, numbered, history) ==
  /\ kind = source /\ serial = numbered /\ replays = history
  /\ manager = "open" /\ connected = FALSE
  /\ conn = 0 /\ made = 0 /\ far = "gone" /\ greeted = FALSE /\ inbox = <<>> /\ wire = <<>>
  /\ spoke = 0 /\ asked = 0
  /\ recvBuf = <<>> /\ pending = <<>> /\ role = "none" /\ proto = Fresh /\ answer = NoAnswer
  /\ sending = [t \in Threads |-> Idle] /\ writes = 0
  /\ heard = <<>> /\ accepted = {} /\ botched = {} /\ refusal = "none" /\ swallowed = {}
  /\ began = {} /\ raised = {}
  /\ ports = [p \in Paths |-> IF p = "tty0" THEN "own" ELSE "none"]
  /\ place = [a \in Adapters |-> "left"] /\ path = "tty0" /\ identity = NoIdentity /\ moved = "none"
  /\ claim = FALSE /\ guest = FALSE

-----------------------------------------------------------------------------
(* open() *)

\* The thread goes on to at: from an open() that returned, to reading.
Goes(at) == manager' = at /\ connected' = (connected \/ at = "read")

Connects ==
  /\ conn = 0 /\ made < MaxConns
  /\ made' = made + 1 /\ conn' = made + 1
  /\ far' = "up" /\ greeted' = FALSE
  /\ inbox' = <<>> /\ wire' = <<>> /\ spoke' = 0 /\ asked' = 0

Opens(source) ==
  /\ manager = "open" /\ kind = source
  /\ Connects /\ Goes("read")
  /\ UNCHANGED <<kind, serial, replays, recvBuf, pending, role, answer, sending, writes, ghosts,
                 uartVars>>

\* A network port keeps what arrives at once; ssh gets a pty of its own; telnet negotiates anew.
\* That open() fails changes nothing.
OpenUrl    == Opens("url") /\ UNCHANGED proto
OpenSsh    == Opens("ssh") /\ UNCHANGED proto
OpenTelnet == Opens("telnet") /\ proto' = Fresh

\* find_moved(): the one candidate there is; of several alike the one in the same socket.
FoundAt ==
  LET present == {p \in Paths : ports[p] # "none"}
      matches == IF serial THEN {p \in present : ports[p] = identity.adapter} ELSE present
      here    == {p \in matches : place[ports[p]] = identity.place}
      alike   == IF Cardinality(matches) > 1 /\ ~serial /\ here # {} THEN here ELSE matches
  IN IF Cardinality(alike) = 1 THEN alike ELSE {}

\* UartSource.open() at p: who it is is learnt the first time.
OpenAt(p) ==
  /\ ports[p] # "none"
  /\ Connects /\ Goes("claim")
  /\ path' = p
  /\ identity' = IF identity.adapter = "none" THEN [adapter |-> ports[p], place |-> place[ports[p]]]
                 ELSE identity
  /\ guest' \in BOOLEAN
  /\ UNCHANGED <<kind, serial, replays, stores, sending, writes, ghosts, ports, place, claim>>

OpenUart ==
  /\ manager = "open" /\ kind = "uart"
  /\ OpenAt(path)
  /\ UNCHANGED moved

\* _follow(): it did not open at its path, and is found under another.
FollowsTo(p) ==
  /\ manager = "open" /\ kind = "uart"
  /\ identity.adapter # "none" /\ p \in FoundAt \ {path}
  /\ moved' = ports[p]

FollowUart == \E p \in Paths : FollowsTo(p) /\ OpenAt(p)

\* Where it does not open either: open() fails, and the next one begins there.
FollowInVain ==
  /\ \E p \in Paths : FollowsTo(p) /\ path' = p
  /\ UNCHANGED <<kind, serial, replays, manager, connected, linkVars, stores, sending, writes,
                 ghosts, ports, place, identity, claim, guest>>

\* seize_exclusive(): until then any program may open the port as well.
Claim ==
  /\ manager = "claim"
  /\ Goes("read") /\ claim' = TRUE
  /\ UNCHANGED <<kind, serial, replays, linkVars, stores, sending, writes, ghosts, ports, place,
                 path, identity, moved, guest>>

\* The socket source: a connection that is there is taken for an open one.
OpenAgain ==
  /\ manager = "open" /\ kind = "socket" /\ conn # 0
  /\ Goes("read")
  /\ UNCHANGED <<kind, serial, replays, linkVars, stores, sending, writes, ghosts, uartVars>>

Dial ==
  /\ manager = "open" /\ kind = "socket"
  /\ Connects /\ Goes("hello")
  /\ UNCHANGED <<kind, serial, replays, stores, sending, writes, ghosts, uartVars>>

SayHello ==
  /\ manager = "hello"
  /\ Goes("answer")
  /\ wire' = Append(wire, [id |-> 0, is |-> "hello", opt |-> "none"])
  /\ UNCHANGED <<kind, serial, replays, conn, made, far, greeted, inbox, spoke, asked, stores,
                 sending, writes, ghosts, uartVars>>

HasLine == recvBuf # <<>> /\ Head(recvBuf).is # "part"

\* open() raises with the socket kept: the hello or a recv() fails, or the answer is no JSON.
Botch(rest) ==
  /\ Goes("pause")
  /\ botched' = botched \union {conn}
  /\ recvBuf' = rest
  /\ UNCHANGED <<kind, serial, replays, linkVars, pending, role, proto, answer, sending, writes,
                 heard, accepted, refusal, swallowed, began, raised, uartVars>>

OpenRaises ==
  /\ manager \in {"hello", "answer", "history"}
  /\ far = "gone" /\ inbox = <<>>
  /\ manager # "hello" => ~HasLine
  /\ Botch(recvBuf)

\* _recv_buf after more has come: a part of a line is completed by the line that follows.
Joined(buf, chunk) ==
  IF buf = <<>> \/ Last(buf).is # "part" THEN buf \o chunk
  ELSE Front(buf) \o <<[Head(chunk) EXCEPT !.is = IF @ = "part" THEN "part" ELSE "garbage"]>>
       \o Tail(chunk)

TakesIn ==
  \E k \in 1..Len(inbox) :
    /\ recvBuf' = Joined(recvBuf, SubSeq(inbox, 1, k))
    /\ inbox'   = SubSeq(inbox, k + 1, Len(inbox))

\* _read_one_line(), when it has to wait for more.
ReceiveMore ==
  /\ manager \in {"answer", "history"} /\ ~HasLine
  /\ TakesIn
  /\ UNCHANGED <<kind, serial, replays, manager, connected, conn, made, far, greeted, spoke, asked,
                 wire, pending, role, proto, answer, sending, writes, ghosts, uartVars>>

Leaves(link) == conn' = link /\ inbox' = <<>> /\ UNCHANGED <<made, far, greeted, spoke, asked,
                                                             wire>>

\* Bug: close() leaves the closed socket where open() looks.
KeepsItsSocket == Leaves(conn)

\* close() drops the connection, and nothing of what was received on it.
Drops == Leaves(0)

\* No answer came, or one that asks to try later.
GiveUp(rest) ==
  /\ Goes("pause") /\ Drops
  /\ recvBuf' = rest
  /\ UNCHANGED <<kind, serial, replays, pending, role, proto, answer, sending, writes, ghosts,
                 uartVars>>

NoAnswerCame ==
  /\ manager = "answer" /\ ~HasLine /\ (inbox = <<>>)
  /\ GiveUp(recvBuf)

TriedTooSoon ==
  /\ manager = "answer" /\ HasLine /\ Head(recvBuf).is = "full"
  /\ GiveUp(Tail(recvBuf))

AnswerIsGarbage ==
  /\ manager = "answer" /\ HasLine /\ Head(recvBuf).is = "garbage"
  /\ Botch(Tail(recvBuf))

\* Any other message is a refusal, and the session ends.
Refused ==
  /\ manager = "answer" /\ HasLine
  /\ Head(recvBuf).is \notin {"ok", "full", "garbage"}
  /\ Goes("ended") /\ Drops
  /\ recvBuf' = Tail(recvBuf)
  /\ refusal' = IF Head(recvBuf).conn = conn THEN "answer" ELSE "leftover"
  /\ UNCHANGED <<kind, serial, replays, pending, role, proto, answer, sending, writes, heard,
                 accepted, botched, swallowed, began, raised, uartVars>>

Accepted ==
  /\ manager = "answer" /\ HasLine /\ Head(recvBuf).is = "ok"
  /\ Goes(IF replays THEN "history" ELSE "read")
  /\ recvBuf' = Tail(recvBuf)
  /\ role' \in {"full", "readonly"}
  /\ accepted' = accepted \union {conn}
  /\ UNCHANGED <<kind, serial, replays, linkVars, pending, proto, answer, sending, writes, heard,
                 botched, refusal, swallowed, began, raised, uartVars>>

\* _handle_live(): of the next line what the device said is kept.
HandleLive ==
  /\ recvBuf' = Tail(recvBuf)
  /\ pending' = IF IsOutput(Head(recvBuf)) THEN Append(pending, Head(recvBuf)) ELSE pending

\* _collect_replay(): the history is kept apart; what else comes is for the live stream.
CollectLine ==
  /\ manager = "history" /\ HasLine
  /\ IF Head(recvBuf).is = "end" THEN Goes("read") ELSE UNCHANGED <<manager, connected>>
  /\ HandleLive
  /\ UNCHANGED <<kind, serial, replays, linkVars, role, proto, answer, sending, writes, ghosts,
                 uartVars>>

\* The other end is gone, or has taken too long.
CollectNoMore ==
  /\ manager = "history" /\ ~HasLine /\ inbox = <<>>
  /\ Goes("read")
  /\ UNCHANGED <<kind, serial, replays, linkVars, stores, sending, writes, ghosts, uartVars>>

-----------------------------------------------------------------------------
(* read() *)

Hears(units) == heard' = heard \o units

\* What is there, or a part of it.
Gets(source, most) ==
  /\ manager = "read" /\ kind = source
  /\ \E k \in 1..most :
       /\ Hears(SubSeq(inbox, 1, k))
       /\ inbox' = SubSeq(inbox, k + 1, Len(inbox))
  /\ UNCHANGED <<kind, serial, replays, manager, connected, conn, made, far, greeted, spoke, asked,
                 wire, stores, sending, writes, accepted, botched, refusal, swallowed, began, raised,
                 uartVars>>

\* A read() that nothing waits for takes one byte, the others what there is.
ReadUart == Gets("uart", Len(inbox))
ReadUrl  == Gets("url", Len(inbox))
ReadSsh  == Gets("ssh", Len(inbox))

\* _negotiate(): only a change is answered.
Answered(p, opt) ==
  LET Says(verb, us, them) ==
        [proto |-> [us |-> us, them |-> them, verb |-> "none"],
         reply |-> IF verb = "none" THEN <<>> ELSE <<[is |-> verb, opt |-> opt]>>]
      same == Says("none", p.us, p.them)
  IN CASE p.verb = "WILL" -> IF opt \in p.them THEN same
                             ELSE IF opt \in TheyMay THEN Says("DO", p.us, p.them \union {opt})
                             ELSE Says("DONT", p.us, p.them)
       [] p.verb = "WONT" -> IF opt \in p.them THEN Says("DONT", p.us, p.them \ {opt}) ELSE same
       [] p.verb = "DO"   -> IF opt \in p.us THEN same
                             ELSE IF opt \in WeWill THEN Says("WILL", p.us \union {opt}, p.them)
                             ELSE Says("WONT", p.us, p.them)
       [] OTHER           -> IF opt \in p.us THEN Says("WONT", p.us \ {opt}, p.them) ELSE same

ReadTelnet ==
  /\ manager = "read" /\ kind = "telnet"
  /\ \E k \in 1..Len(inbox) :
       /\ answer' = [NoAnswer EXCEPT !.chunk = SubSeq(inbox, 1, k)]
       /\ inbox'  = SubSeq(inbox, k + 1, Len(inbox))
  /\ Goes("receive")
  /\ UNCHANGED <<kind, serial, replays, conn, made, far, greeted, spoke, asked, wire, recvBuf,
                 pending, role, proto, sending, writes, ghosts, uartVars>>

\* receive(), byte by byte: data, or a command, which may be cut.
Receive ==
  LET item == Head(answer.chunk)
      rest == [answer EXCEPT !.chunk = Tail(@)]
      said == Answered(proto, item.is)
  IN /\ manager = "receive" /\ answer.chunk # <<>>
     /\ \/ /\ proto.verb # "none"
           /\ proto'  = said.proto
           /\ answer' = [rest EXCEPT !.replies = @ \o said.reply]
        \/ /\ proto.verb = "none" /\ item.is \in Verbs
           /\ proto' = [proto EXCEPT !.verb = item.is] /\ answer' = rest
        \/ /\ proto.verb = "none" /\ item.is \notin Verbs
           /\ answer' = [rest EXCEPT !.data = Append(@, item)] /\ UNCHANGED proto
     /\ UNCHANGED <<kind, serial, replays, manager, connected, linkVars, recvBuf, pending, role,
                    sending, writes, ghosts, uartVars>>

\* Without replies to send read() returns.
Received ==
  /\ manager = "receive" /\ answer.chunk = <<>>
  /\ IF answer.replies = <<>>
       THEN Goes("read") /\ Hears(answer.data) /\ answer' = NoAnswer
       ELSE Goes("reply") /\ UNCHANGED <<heard, answer>>
  /\ UNCHANGED <<kind, serial, replays, linkVars, recvBuf, pending, role, proto, sending, writes,
                 accepted, botched, refusal, swallowed, began, raised, uartVars>>

\* The replies are sent; the data they came with is returned, or lost when sending them raises.
Replied ==
  /\ manager = "reply" /\ sending["conn"].at \in {"done", "failed"}
  /\ sending' = [sending EXCEPT !["conn"] = Idle]
  /\ answer'  = NoAnswer
  /\ IF sending["conn"].at = "done"
       THEN manager' = "read" /\ Hears(answer.data) /\ UNCHANGED swallowed
       ELSE /\ manager' = "close" /\ UNCHANGED heard
            /\ swallowed' = swallowed \union ToSet(answer.data)
  /\ UNCHANGED <<kind, serial, replays, connected, linkVars, recvBuf, pending, role, proto, writes,
                 accepted, botched, refusal, began, raised, uartVars>>

\* The socket source: what is pending first.
ReadPending ==
  /\ manager = "read" /\ kind = "socket" /\ pending # <<>>
  /\ Hears(pending) /\ pending' = <<>>
  /\ UNCHANGED <<kind, serial, replays, manager, connected, linkVars, recvBuf, role, proto, answer,
                 sending, writes, accepted, botched, refusal, swallowed, began, raised, uartVars>>

\* _ingest(): only when more has come are the lines in _recv_buf looked at,
Ingest ==
  /\ manager = "read" /\ kind = "socket" /\ pending = <<>>
  /\ Goes("ingest")
  /\ TakesIn
  /\ UNCHANGED <<kind, serial, replays, conn, made, far, greeted, spoke, asked, wire, pending,
                 role, proto, answer, sending, writes, ghosts, uartVars>>

\* one after the other,
IngestLine ==
  /\ manager = "ingest" /\ HasLine
  /\ HandleLive
  /\ UNCHANGED <<kind, serial, replays, manager, connected, linkVars, role, proto, answer, sending,
                 writes, ghosts, uartVars>>

\* and all that are whole.
Ingested ==
  /\ manager = "ingest" /\ ~HasLine
  /\ Goes("read")
  /\ UNCHANGED <<kind, serial, replays, linkVars, stores, sending, writes, ghosts, uartVars>>

\* The far end has gone, and what came before has been returned: for ssh the process has ended,
\* for a UART the result says so.
ReadRaises ==
  /\ manager = "read" /\ far = "gone" /\ inbox = <<>> /\ pending = <<>>
  /\ manager' = "close"
  /\ UNCHANGED <<kind, serial, replays, connected, linkVars, stores, sending, writes, ghosts,
                 uartVars>>

\* TIOCNXCL, before the port is closed.
Released == claim' = FALSE

\* The session's thread after a drop: _connected is cleared and the source closed.
CloseSource ==
  /\ manager = "close"
  /\ manager' = "pause" /\ connected' = FALSE
  /\ Drops /\ Released
  /\ swallowed' = swallowed \union {item \in ToSet(recvBuf) : IsOutput(item)}
  /\ UNCHANGED <<kind, serial, replays, stores, sending, writes, heard, accepted, botched, refusal,
                 began, raised, ports, place, path, identity, moved, guest>>

Retry ==
  /\ manager = "pause"
  /\ manager' = "open"
  /\ UNCHANGED <<kind, serial, replays, connected, linkVars, stores, sending, writes, ghosts,
                 uartVars>>

-----------------------------------------------------------------------------
(* write(), and window sizes *)

Sends(t, state) ==
  /\ sending' = [sending EXCEPT ![t] = state]
  /\ UNCHANGED <<kind, serial, replays, manager, connected, conn, made, far, greeted, inbox, spoke,
                 asked, stores, heard, accepted, botched, refusal, swallowed, uartVars>>

Begins(t, units) ==
  /\ sending[t].at = "idle"
  /\ writes' = writes + 1
  /\ Sends(t, [at |-> "checked", rest |-> units, id |-> writes + 1, on |-> 0])
  /\ UNCHANGED <<wire, began, raised>>

Units(is) == <<[is |-> is, opt |-> "none"], [is |-> is, opt |-> "none"]>>

\* session.write() tests _connected, and the source is asked later.
BeginWrite(t) == connected /\ t # "conn" /\ Begins(t, Units("data"))

\* set_window_size(): NAWS when the server asked for it; a message when we may send one.
BeginResize ==
  /\ conn # 0
  /\ \/ kind = "telnet" /\ "naws" \in proto.us
     \/ kind = "socket" /\ role = "full"
  /\ Begins("ui", Units("resize"))

BeginReply ==
  /\ manager = "reply" /\ answer.replies # <<>>
  /\ Begins("conn", answer.replies)

Refuses(t) == conn = 0 \/ (kind = "socket" /\ role = "readonly")

\* The source is no longer open, or may not be written to: write() raises.
WriteRefused(t) ==
  /\ sending[t].at = "checked" /\ Refuses(t)
  /\ Sends(t, [sending[t] EXCEPT !.at = "failed"])
  /\ UNCHANGED <<wire, writes, began, raised>>

\* Bug: the socket source writes without its lock.
NeedsNoLock(t) == TRUE

\* _send_lock is the socket source's; the others have none.
MaySend(t) == kind = "socket" => \A x \in Threads \ {t} : sending[x].at # "sending"

\* The socket, or the number of the descriptor, is looked up once.
TakeLink(t) ==
  /\ sending[t].at = "checked" /\ ~Refuses(t) /\ MaySend(t)
  /\ Sends(t, [sending[t] EXCEPT !.at = "sending", !.on = conn])
  /\ began' = began \union {<<sending[t].id, conn>>}
  /\ UNCHANGED <<wire, writes, raised>>

SendUnit(t) ==
  LET s == sending[t]
  IN /\ s.at = "sending"
     /\ Sends(t, [s EXCEPT !.rest = Tail(@), !.on = conn,
                           !.at = IF Len(s.rest) = 1 THEN "done" ELSE "sending"])
     /\ wire' = Append(wire, [id |-> s.id, is |-> Head(s.rest).is, opt |-> Head(s.rest).opt])
     /\ UNCHANGED <<writes, began, raised>>

SendSome(t) == sending[t].on = conn /\ SendUnit(t)

\* ssh writes to a descriptor by its number, which the next connection's pty may have got.
SendOnReused(t) == kind = "ssh" /\ conn # 0 /\ sending[t].on # conn /\ SendUnit(t)

\* A write that takes too long is given up where it is: the reader has put its own timeout, 0.1 s,
\* on the socket, a network port has a write timeout, and a UART reports one.  Telnet and ssh
\* go on until all is sent.
TimesOut == kind \in {"socket", "url", "uart"}

\* What was sent is sent, and the connection goes on if it is there.
SendRaises(t) ==
  /\ sending[t].at = "sending"
  /\ sending[t].on # conn \/ far = "gone" \/ TimesOut
  /\ Sends(t, [sending[t] EXCEPT !.at = "failed"])
  /\ raised' = raised \union {sending[t].id}
  /\ UNCHANGED <<wire, writes, began>>

\* A writer that does not care how it went.
WriteReturns ==
  /\ sending["ui"].at \in {"done", "failed"}
  /\ Sends("ui", Idle)
  /\ UNCHANGED <<wire, writes, began, raised>>

WriteStep(t) == WriteRefused(t) \/ TakeLink(t) \/ SendSome(t) \/ SendOnReused(t) \/ SendRaises(t)

-----------------------------------------------------------------------------
(* The other end, and the ports of the machine *)

Arrives(items) ==
  /\ conn # 0 /\ far = "up"
  /\ inbox' = inbox \o items
  /\ UNCHANGED <<kind, serial, replays, manager, connected, conn, made, wire, stores, sending,
                 writes, ghosts, uartVars>>

\* A proxy that is asked properly accepts, and sends the history asked for before anything else.
FarAccepts ==
  /\ kind = "socket" /\ ~greeted /\ wire # <<>> /\ wire[1].is = "hello"
  /\ Arrives(<<Item("ok")>> \o IF replays THEN <<Item("history"), Item("end")>> ELSE <<>>)
  /\ greeted' = TRUE
  /\ UNCHANGED <<far, spoke, asked>>

\* It refuses: for good, which it does too when something comes before the hello, or for now.
FarRefuses(is) ==
  /\ kind = "socket" /\ ~greeted /\ wire # <<>>
  /\ is = "full" => wire[1].is = "hello"
  /\ Arrives(<<Item(is)>>)
  /\ far' = "gone"
  /\ UNCHANGED <<greeted, spoke, asked>>

FarSpeaks ==
  /\ kind = "socket" => greeted
  /\ spoke < MaxSpoken
  /\ Arrives(<<Output(spoke + 1)>>)
  /\ spoke' = spoke + 1
  /\ UNCHANGED <<far, greeted, asked>>

\* A telnet server asks for an option, or to have one ended.
FarAsks(verb, opt) ==
  /\ kind = "telnet" /\ asked < MaxAsked
  /\ Arrives(<<Item(verb), Item(opt)>>)
  /\ asked' = asked + 1
  /\ UNCHANGED <<far, greeted, spoke>>

\* The connection ends, or the adapter is unplugged: what was on its way comes in part.
Breaks(keep, cut) ==
  /\ conn # 0 /\ far = "up"
  /\ keep \in 0..Len(inbox)
  /\ cut => kind = "socket"
  /\ far'   = "gone"
  /\ inbox' = SubSeq(inbox, 1, keep) \o IF cut THEN <<Item("part")>> ELSE <<>>
  /\ UNCHANGED <<kind, serial, replays, manager, connected, conn, made, greeted, spoke, asked,
                 wire, stores, sending, writes, ghosts>>

FarBreaks(keep, cut) ==
  /\ kind # "uart"
  /\ Breaks(keep, cut)
  /\ UNCHANGED uartVars

Unplug(p) ==
  /\ kind = "uart" /\ ports[p] # "none"
  /\ ports' = [ports EXCEPT ![p] = "none"]
  /\ IF conn # 0 /\ far = "up" /\ p = path THEN Breaks(0, FALSE)
     ELSE UNCHANGED <<kind, serial, replays, manager, connected, linkVars, stores, sending, writes,
                      ghosts>>
  /\ UNCHANGED <<place, path, identity, moved, claim, guest>>

\* In some free socket, under some free path.
PlugIn(a, p, s) ==
  /\ kind = "uart" /\ ports[p] = "none"
  /\ \A q \in Paths : ports[q] # a /\ (ports[q] # "none" => place[ports[q]] # s)
  /\ ports' = [ports EXCEPT ![p] = a]
  /\ place' = [place EXCEPT ![a] = s]
  /\ UNCHANGED <<kind, serial, replays, manager, connected, linkVars, stores, sending, writes,
                 ghosts, path, identity, moved, claim, guest>>

\* Another program opens the port; TIOCEXCL keeps out those that come after the claim.
GuestOpens ==
  /\ kind = "uart" /\ conn # 0 /\ ~claim /\ ~guest
  /\ guest' = TRUE
  /\ UNCHANGED <<kind, serial, replays, manager, connected, linkVars, stores, sending, writes,
                 ghosts, ports, place, path, identity, moved, claim>>

\* A byte goes to the one that reads it first.
GuestReads ==
  /\ guest /\ inbox # <<>>
  /\ swallowed' = swallowed \union {Head(inbox)}
  /\ inbox' = Tail(inbox)
  /\ UNCHANGED <<kind, serial, replays, manager, connected, conn, made, far, greeted, spoke, asked,
                 wire, stores, sending, writes, heard, accepted, botched, refusal, began, raised,
                 uartVars>>

-----------------------------------------------------------------------------
(* What a source promises *)

\* What the session has received, and what is to come of it.
Stream == heard \o answer.data \o answer.chunk \o pending \o recvBuf \o inbox

\* What a session hears comes of one connection after the other, in order, without holes but for
\* what another program took from the port or a failed telnet answer cost; lines that came
\* with the proxy's answer wait in _recv_buf for more to come, and are lost if nothing does.  It
\* is told to be connected to a proxy only if that accepted it, or open() had failed on the
\* connection before (socket_source.py:86).  With a serial number only the adapter it
\* began with is followed (SPEC S31).
SessionHearsItsDevice ==
  /\ \A i, j \in 1..Len(heard) : i < j =>
       \/ heard[i].conn < heard[j].conn
       \/ heard[i].conn = heard[j].conn /\ heard[i].n < heard[j].n
  /\ conn # 0 =>
       \A i \in 1..Len(Stream) :
         IsOutput(Stream[i]) /\ Stream[i].conn = conn =>
           \A n \in 1..(Stream[i].n - 1) :
             \/ \E j \in 1..(i-1) : Stream[j] = Output(n)
             \/ Output(n) \in swallowed
  /\ kind = "socket" /\ connected => conn \in accepted \union botched
  /\ serial => moved \in {"none", identity.adapter}

\* The last that was said of our window size is that we tell it.
OnNaws(unit)  == unit.opt = "naws" /\ unit.is \in {"WILL", "WONT"}
SaysWill(said) == \E i \in 1..Len(said) :
                    /\ OnNaws(said[i]) /\ said[i].is = "WILL"
                    /\ \A j \in (i+1)..Len(said) : ~OnNaws(said[j])

\* The unit of wire at i is not the only one of its message, which has two.
Whole(i) == \E j \in {i - 1, i + 1} \cap (1..Len(wire)) : wire[j].id = wire[i].id

\* Once a proxy has accepted, no message to it lies in another, and each is whole but for the one being
\* sent and those whose sendall raised; a write reaches one connection only, but for ssh, whose
\* descriptor's number may be used again; and what we last said of an option is what we do about it,
\* as soon as the replies are out.
WritesStayWhole ==
  /\ kind = "socket" /\ greeted =>
       /\ \A i, j, k \in 1..Len(wire) :
            i < j /\ j < k /\ wire[i].id = wire[k].id => wire[j].id = wire[i].id
       /\ \A i \in 1..Len(wire) :
            \/ wire[i].id = 0 \/ Whole(i)
            \/ \E t \in Threads : sending[t].at = "sending" /\ sending[t].id = wire[i].id
            \/ wire[i].id \in raised
  /\ kind # "ssh" => \A u \in ToSet(wire) : u.id # 0 => <<u.id, made>> \in began
  /\ kind = "telnet" /\ manager = "read" => ("naws" \in proto.us) = SaysWill(wire)

\* protocol.py:4, "One JSON object per line": after the hello, what a proxy is sent begins a new
\* message only behind the end of the one before.  The newline is a message's last unit.
OneObjectPerLine ==
  kind = "socket" /\ greeted =>
    \A i \in 1..(Len(wire) - 1) :
      wire[i].id \in {0, wire[i + 1].id} \/ Whole(i)
=============================================================================
