----------------------------- MODULE SourcesProofs -----------------------------
(***************************************************************************)
(* What holds of the sources, and of the threads that read and write them, *)
(* for any number of connections, items and writes.                        *)
(*                                                                         *)
(* A step of anybody leaves the sources alone or is one of SourceNext.     *)
(* Each part of the invariant (where the thread of the session is, the     *)
(* ports, what lies where, who writes, what is on the wire, what has been  *)
(* heard) is about a few variables; a lemma for each kind of step says     *)
(* first what it does to those, and the part is kept case by case.         *)
(***************************************************************************)
EXTENDS MirrorsProofs

USE SourceBounds

-----------------------------------------------------------------------------
(* What a step of the sources is *)

WriterSteps ==
  \/ WriteReturns \/ BeginReply \/ BeginResize \/ BeginWrite("ui") \/ BeginWrite("pty")
  \/ \E t \in Threads : WriteStep(t)
  \/ sending["pty"].at \in {"done", "failed"} /\ Sends("pty", Idle) /\ UNCHANGED <<wire, writes, began, raised>>

FarSteps ==
  \/ FarAccepts \/ FarSpeaks \/ GuestOpens \/ GuestReads
  \/ \E is \in {"no", "full"} : FarRefuses(is)
  \/ \E verb \in Verbs, opt \in Options : FarAsks(verb, opt)
  \/ \E keep \in 0..MaxSpoken, cut \in BOOLEAN : FarBreaks(keep, cut)
  \/ \E p \in Paths : Unplug(p)
  \/ \E a \in Adapters, p \in Paths, s \in Places : PlugIn(a, p, s)

SourceNext ==
  \/ OpenStep \/ Reads \/ ReadTelnet \/ Receive \/ Ingest \/ IngestLine \/ Ingested
  \/ ReadRaises \/ CloseSource \/ Retry \/ WriterSteps \/ FarSteps

\* Every step is one of the sources, or leaves them alone.
LEMMA SourceSteps ==
  ASSUME [Next]_vars
  PROVE  SourceNext \/ UNCHANGED sourceVars
<1>1. CASE Session \/ Writers \/ UiWrites
  BY <1>1 DEF Session, Writers, UiWrites, SourceNext, WriterSteps
<1>2. CASE Far
  BY <1>2, Zenon DEF Far, SourceNext, FarSteps
<1>3. CASE Hear
  BY <1>3 DEF Hear, SourceNext
<1>4. CASE Clients \/ ForwardFails
  BY <1>4 DEF Clients, ForwardFails
<1>5. CASE ForwardBegins \/ ForwardEnds
  BY <1>5 DEF ForwardBegins, ForwardEnds, SourceNext, WriterSteps
<1>6. CASE UNCHANGED vars
  BY <1>6 DEF vars
<1> QED BY <1>1, <1>2, <1>3, <1>4, <1>5, <1>6 DEF Next

-----------------------------------------------------------------------------
(* The session's thread, and what connection it holds *)

Managers == {"open", "hello", "answer", "history", "claim", "read", "receive", "reply", "ingest",
             "close", "pause", "ended"}

\* Where the session's thread reads from a source it has opened.
Reading == {"read", "receive", "reply", "ingest", "close"}

LinkTypes ==
  /\ conn \in Nat /\ made \in Nat /\ made <= MaxConns /\ conn \in {0, made}
  /\ \A c \in accepted \union botched : c \in Nat /\ 0 < c /\ c <= made

\* Only a socket that open() left behind is found open again.
PlaceInv ==
  /\ manager \in Managers /\ connected \in BOOLEAN
  /\ manager \in {"hello", "answer", "history", "ingest"} => kind = "socket"
  /\ manager \in {"receive", "reply"} => kind = "telnet"
  /\ manager = "claim" => kind = "uart"
  /\ connected <=> manager \in Reading
  /\ conn = 0 => manager \in {"open", "pause", "ended"}
  /\ manager \in {"open", "pause"} /\ conn # 0 => kind = "socket" /\ conn \in botched
  /\ manager = "history" => conn \in accepted
  /\ kind = "socket" /\ connected => conn \in accepted \union botched

ControlInv == LinkTypes /\ PlaceInv

\* What a step does to the thread of the session and to its connection.
Stays    == UNCHANGED <<kind, manager, connected, conn, made, accepted, botched>>
TakesTo(at) == manager' = at /\ connected' = (connected \/ at = "read") /\ kind' = kind
Advances == UNCHANGED <<conn, made, accepted, botched>>
Connection ==
  /\ conn = 0 /\ made < MaxConns /\ conn' = made + 1 /\ made' = made + 1
  /\ accepted' = accepted /\ botched' = botched

LEMMA ControlOpens ==
  ASSUME ControlInv, OpenUrl \/ OpenSsh \/ OpenTelnet \/ OpenUart \/ FollowUart
                     \/ FollowInVain \/ Claim \/ OpenAgain \/ Dial
  PROVE  ControlInv'
<1> USE DEF ControlInv
<1>1. CASE OpenUrl \/ OpenSsh \/ OpenTelnet
  <2>1. manager = "open" /\ Connection /\ TakesTo("read") /\ kind # "socket"
    BY <1>1 DEF OpenUrl, OpenSsh, OpenTelnet, Opens, Connects, Goes, ghosts, Connection, TakesTo
  <2>2. LinkTypes'
    BY <2>1 DEF LinkTypes, Connection
  <2>3. manager' = "read" /\ TakesTo("read") /\ kind' # "socket" /\ conn' # 0
    BY <2>1 DEF LinkTypes, Connection, TakesTo
  <2> QED BY <2>2, <2>3 DEF PlaceInv, Managers, Reading, TakesTo
<1>2. ASSUME NEW p, manager = "open", kind = "uart", OpenAt(p) PROVE ControlInv'
  <2>1. manager = "open" /\ Connection /\ TakesTo("claim")
    BY <1>2 DEF OpenAt, Connects, Goes, ghosts, Connection, TakesTo
  <2> QED BY <1>2, <2>1 DEF LinkTypes, PlaceInv, Managers, Reading, Connection, TakesTo
<1>3. CASE Claim
  <2>1. manager = "claim" /\ Advances /\ TakesTo("read")
    BY <1>3 DEF Claim, Goes, ghosts, linkVars, Advances, TakesTo
  <2> QED BY <2>1 DEF LinkTypes, PlaceInv, Managers, Reading, Advances, TakesTo
<1>4. CASE OpenAgain
  <2>1. manager = "open" /\ conn # 0 /\ Advances /\ TakesTo("read")
    BY <1>4 DEF OpenAgain, Goes, ghosts, linkVars, Advances, TakesTo
  <2> QED BY <2>1 DEF LinkTypes, PlaceInv, Managers, Reading, Advances, TakesTo
<1>5. CASE Dial
  <2>1. manager = "open" /\ kind = "socket" /\ Connection /\ TakesTo("hello")
    BY <1>5 DEF Dial, Connects, Goes, ghosts, Connection, TakesTo
  <2> QED BY <2>1 DEF LinkTypes, PlaceInv, Managers, Reading, Connection, TakesTo
<1>6. CASE FollowInVain
  <2>1. Stays
    BY <1>6 DEF FollowInVain, ghosts, linkVars, Stays
  <2> QED BY <2>1 DEF LinkTypes, PlaceInv, Stays
<1> QED BY <1>1, <1>2, <1>3, <1>4, <1>5, <1>6 DEF OpenUart, FollowUart, FollowsTo

LEMMA ControlAnswers ==
  ASSUME ControlInv, \/ SayHello \/ OpenRaises \/ ReceiveMore \/ NoAnswerCame \/ TriedTooSoon
                     \/ AnswerIsGarbage \/ Refused \/ Accepted \/ CollectLine \/ CollectNoMore
  PROVE  ControlInv'
<1> USE DEF ControlInv
<1>1. CASE SayHello
  <2>1. manager = "hello" /\ Advances /\ TakesTo("answer")
    BY <1>1 DEF SayHello, Goes, ghosts, Advances, TakesTo
  <2> QED BY <2>1 DEF LinkTypes, PlaceInv, Managers, Reading, Advances, TakesTo
<1>2. ASSUME NEW rest, manager \in {"hello", "answer", "history"}, Botch(rest) PROVE ControlInv'
  <2>1. /\ UNCHANGED <<conn, made, accepted>> /\ botched' = botched \union {conn} /\ TakesTo("pause")
    BY <1>2 DEF Botch, Goes, linkVars, TakesTo
  <2>2. conn # 0 /\ kind = "socket" /\ ~connected
    BY <1>2 DEF PlaceInv, Reading
  <2> QED BY <2>1, <2>2 DEF LinkTypes, PlaceInv, Managers, Reading, TakesTo
<1>3. CASE ReceiveMore
  <2>1. Stays
    BY <1>3 DEF ReceiveMore, ghosts, Stays
  <2> QED BY <2>1 DEF LinkTypes, PlaceInv, Stays
<1>4. ASSUME manager = "answer",
             \/ \E rest : GiveUp(rest)
             \/ Refused
      PROVE  ControlInv'
  <2>1. /\ UNCHANGED <<made, accepted, botched>> /\ conn' = 0 /\ (TakesTo("pause") \/ TakesTo("ended"))
    BY <1>4 DEF GiveUp, Refused, Drops, Leaves, Goes, ghosts, TakesTo
  <2>2. kind = "socket" /\ ~connected
    BY <1>4 DEF PlaceInv, Reading
  <2>3. manager' \in {"pause", "ended"} /\ connected' = FALSE /\ kind' = "socket"
    BY <2>1, <2>2 DEF TakesTo
  <2> QED BY <2>1, <2>2, <2>3 DEF LinkTypes, PlaceInv, Managers, Reading
<1>5. CASE Accepted
  <2>1. /\ UNCHANGED <<conn, made, botched>> /\ accepted' = accepted \union {conn} /\ manager = "answer"
        /\ (TakesTo("history") \/ TakesTo("read"))
    BY <1>5 DEF Accepted, Goes, linkVars, TakesTo
  <2>2. conn # 0 /\ kind = "socket" /\ ~connected
    BY <2>1 DEF PlaceInv, Reading
  <2>3. LinkTypes'
    BY <2>1, <2>2 DEF LinkTypes
  <2>4. /\ conn' # 0 /\ conn' \in accepted' /\ kind' = "socket" /\ manager' \in {"history", "read"}
        /\ connected' = (manager' = "read")
    BY <2>1, <2>2 DEF TakesTo
  <2> QED BY <2>3, <2>4 DEF PlaceInv, Managers, Reading
<1>6. CASE CollectLine \/ CollectNoMore
  <2>1. manager = "history" /\ Advances /\ (Stays \/ TakesTo("read"))
    BY <1>6 DEF CollectLine, CollectNoMore, Goes, linkVars, ghosts, stores, Stays, Advances, TakesTo
  <2>2. CASE Stays
    BY <2>2 DEF LinkTypes, PlaceInv, Stays
  <2>3. CASE TakesTo("read")
    BY <2>1, <2>3 DEF LinkTypes, PlaceInv, Managers, Reading, Advances, TakesTo
  <2> QED BY <2>1, <2>2, <2>3
<1>7. (OpenRaises \/ AnswerIsGarbage) => \E rest : manager \in {"hello", "answer", "history"} /\ Botch(rest)
  BY DEF OpenRaises, AnswerIsGarbage
<1>8. (NoAnswerCame \/ TriedTooSoon \/ Refused) => manager = "answer" /\ ((\E rest : GiveUp(rest)) \/ Refused)
  BY DEF NoAnswerCame, TriedTooSoon, Refused
<1> QED BY <1>1, <1>2, <1>3, <1>4, <1>5, <1>6, <1>7, <1>8

LEMMA ControlReads ==
  ASSUME ControlInv, \/ Reads \/ ReadTelnet \/ Receive \/ Ingest \/ IngestLine \/ Ingested
                     \/ ReadRaises \/ CloseSource \/ Retry
  PROVE  ControlInv'
<1> USE DEF ControlInv
<1>1. CASE ReadUart \/ ReadUrl \/ ReadSsh \/ ReadPending \/ Receive \/ IngestLine
  <2>1. Stays
    BY <1>1 DEF ReadUart, ReadUrl, ReadSsh, Gets, ReadPending, Receive, IngestLine, linkVars, ghosts, Stays
  <2> QED BY <2>1 DEF LinkTypes, PlaceInv, Stays
<1>2. CASE Received \/ Ingested
  <2>1. manager \in {"receive", "ingest"} /\ Advances
        /\ (TakesTo("read") \/ (TakesTo("reply") /\ kind = "telnet"))
    BY <1>2 DEF Received, Ingested, Goes, linkVars, ghosts, Advances, TakesTo, PlaceInv
  <2> QED BY <2>1 DEF LinkTypes, PlaceInv, Managers, Reading, Advances, TakesTo
<1>3. CASE ReadTelnet \/ Ingest
  <2>1. manager = "read" /\ Advances
        /\ ((kind = "telnet" /\ TakesTo("receive")) \/ (kind = "socket" /\ TakesTo("ingest")))
    BY <1>3 DEF ReadTelnet, Ingest, Goes, ghosts, Advances, TakesTo
  <2> QED BY <2>1 DEF LinkTypes, PlaceInv, Managers, Reading, Advances, TakesTo
<1>4. CASE ReadRaises \/ Replied
  <2>1. manager \in {"read", "reply"} /\ Advances /\ manager' \in {"read", "close"}
        /\ UNCHANGED <<kind, connected>>
    BY <1>4 DEF ReadRaises, Replied, linkVars, ghosts, Advances
  <2> QED BY <2>1 DEF LinkTypes, PlaceInv, Managers, Reading, Advances
<1>5. CASE CloseSource
  <2>1. conn' = 0 /\ UNCHANGED <<kind, made, accepted, botched>> /\ manager' = "pause" /\ connected' = FALSE
    BY <1>5 DEF CloseSource, Drops, Leaves
  <2> QED BY <2>1 DEF LinkTypes, PlaceInv, Managers, Reading
<1>6. CASE Retry
  <2>1. manager = "pause" /\ manager' = "open" /\ Advances /\ UNCHANGED <<kind, connected>>
    BY <1>6 DEF Retry, linkVars, ghosts, Advances
  <2> QED BY <2>1 DEF LinkTypes, PlaceInv, Managers, Reading, Advances
<1> QED BY <1>1, <1>2, <1>3, <1>4, <1>5, <1>6 DEF Reads

\* A writer, or a thing that happens elsewhere, leaves the thread and its connection alone.
LEMMA WritersAre ==
  ASSUME WriterSteps
  PROVE  /\ UNCHANGED <<kind, serial, replays, manager, connected, conn, made, far, greeted, inbox, spoke,
                        asked, stores, heard, accepted, botched, refusal, swallowed, uartVars>>
         /\ writes' \in {writes, writes + 1}
<1>1. ASSUME NEW t \in Threads, WriteStep(t)
      PROVE  /\ UNCHANGED <<kind, serial, replays, manager, connected, conn, made, far, greeted, inbox, spoke,
                            asked, stores, heard, accepted, botched, refusal, swallowed, uartVars>>
             /\ writes' \in {writes, writes + 1}
  BY <1>1 DEF WriteStep, WriteRefused, TakeLink, SendSome, SendOnReused, SendRaises, SendUnit, Sends
<1> QED BY <1>1 DEF WriterSteps, WriteReturns, BeginReply, BeginResize, BeginWrite, Begins, Sends

LEMMA FarIs ==
  ASSUME FarSteps
  PROVE  UNCHANGED <<kind, serial, replays, manager, connected, conn, made, wire, stores, sending, writes,
                     heard,
                     accepted, botched, refusal, began, raised>>
<1>1. CASE \/ FarAccepts \/ FarSpeaks \/ GuestOpens \/ GuestReads
           \/ \E a \in Adapters, p \in Paths, s \in Places : PlugIn(a, p, s)
  BY <1>1 DEF FarAccepts, FarSpeaks, GuestOpens, GuestReads, PlugIn, Arrives, linkVars, ghosts
<1>2. CASE \/ \E is \in {"no", "full"} : FarRefuses(is)
           \/ \E verb \in Verbs, opt \in Options : FarAsks(verb, opt)
  BY <1>2 DEF FarRefuses, FarAsks, Arrives, linkVars, ghosts
<1>3. CASE \E keep \in 0..MaxSpoken, cut \in BOOLEAN : FarBreaks(keep, cut)
  BY <1>3 DEF FarBreaks, Breaks, linkVars, ghosts
<1>4. CASE \E p \in Paths : Unplug(p)
  BY <1>4 DEF Unplug, Breaks, linkVars, ghosts
<1> QED BY <1>1, <1>2, <1>3, <1>4 DEF FarSteps

LEMMA ControlKept ==
  ASSUME ControlInv, SourceNext
  PROVE  ControlInv'
<1>1. CASE OpenStep
  BY <1>1, ControlOpens, ControlAnswers DEF OpenStep
<1>2. CASE Reads \/ ReadTelnet \/ Receive \/ Ingest \/ IngestLine \/ Ingested \/ ReadRaises \/ CloseSource
           \/ Retry
  BY <1>2, ControlReads
<1>3. CASE WriterSteps \/ FarSteps
  <2>1. Stays
    BY <1>3, WritersAre, FarIs DEF Stays
  <2> QED BY <2>1 DEF ControlInv, LinkTypes, PlaceInv, Stays
<1> QED BY <1>1, <1>2, <1>3 DEF SourceNext

-----------------------------------------------------------------------------
(* The ports of the machine *)

UartTypes ==
  /\ ports \in [Paths -> Adapters \union {"none"}] /\ place \in [Adapters -> Places]
  /\ path \in Paths /\ moved \in Adapters \union {"none"}
  /\ identity \in [adapter : Adapters \union {"none"}, place : Places]
  /\ guest \in BOOLEAN /\ claim \in BOOLEAN /\ serial \in BOOLEAN

UartInv ==
  /\ UartTypes
  /\ guest \/ claim => kind = "uart"
  /\ claim => manager = "read" \/ manager = "close"
  /\ serial => moved \in {"none", identity.adapter}
  /\ identity.adapter = "none" => moved = "none"

LEMMA OpenedAt ==
  ASSUME UartInv, NEW p \in Paths, OpenAt(p), kind = "uart", manager = "open",
         \/ moved' = moved
         \/ moved' = ports[p] /\ identity.adapter # "none" /\ (serial => ports[p] = identity.adapter)
  PROVE  UartInv'
<1>1. /\ UNCHANGED <<kind, serial, ports, place, claim>> /\ path' = p /\ guest' \in BOOLEAN
      /\ ports[p] # "none"
      /\ identity' = IF identity.adapter = "none" THEN [adapter |-> ports[p], place |-> place[ports[p]]]
                     ELSE identity
  BY DEF OpenAt
<1>2. ports[p] \in Adapters /\ place[ports[p]] \in Places
  BY <1>1 DEF UartInv, UartTypes
<1>3. identity' \in [adapter : Adapters \union {"none"}, place : Places]
  BY <1>1, <1>2 DEF UartInv, UartTypes
<1>4. UartTypes'
  BY <1>1, <1>2, <1>3 DEF UartInv, UartTypes
<1>5. ~claim
  BY DEF UartInv
<1>6. CASE identity.adapter = "none"
  <2>1. moved' = "none" /\ identity'.adapter # "none"
    BY <1>1, <1>2, <1>6 DEF UartInv, Adapters
  <2> QED BY <1>1, <1>4, <1>5, <2>1 DEF UartInv
<1>7. CASE identity.adapter # "none"
  BY <1>1, <1>4, <1>5, <1>7 DEF UartInv
<1> QED BY <1>6, <1>7

LEMMA FollowedIs ==
  ASSUME NEW p \in Paths, FollowsTo(p)
  PROVE  /\ identity.adapter # "none" /\ kind = "uart" /\ manager = "open" /\ moved' = ports[p]
         /\ serial => ports[p] = identity.adapter
BY DEF FollowsTo, FoundAt

LEMMA UartAside ==
  ASSUME UartInv, UNCHANGED <<uartVars, kind, serial>>, manager' = manager \/ manager \notin {"read", "close"}
                                                        \/ manager' \in {"read", "close"}
  PROVE  UartInv'
BY DEF UartInv, UartTypes, uartVars

LEMMA UartKept ==
  ASSUME ControlInv, UartInv, SourceNext
  PROVE  UartInv'
<1>1. CASE OpenUart \/ FollowUart \/ FollowInVain
  <2>1. CASE OpenUart
    BY <2>1, OpenedAt DEF OpenUart, UartInv, UartTypes
  <2>2. CASE FollowUart
    <3>1. PICK p \in Paths : FollowsTo(p) /\ OpenAt(p)
      BY <2>2 DEF FollowUart
    <3>2. /\ identity.adapter # "none" /\ kind = "uart" /\ manager = "open" /\ moved' = ports[p]
          /\ serial => ports[p] = identity.adapter
      BY <3>1, FollowedIs
    <3> QED BY <3>1, <3>2, OpenedAt
  <2>3. CASE FollowInVain
    <3>1. PICK p \in Paths : FollowsTo(p) /\ path' = p
      BY <2>3 DEF FollowInVain
    <3>2. /\ identity.adapter # "none" /\ kind = "uart" /\ manager = "open" /\ moved' = ports[p]
          /\ serial => ports[p] = identity.adapter
      BY <3>1, FollowedIs
    <3>3. UNCHANGED <<kind, serial, manager, ports, place, identity, claim, guest>>
      BY <2>3 DEF FollowInVain
    <3> QED BY <3>1, <3>2, <3>3 DEF UartInv, UartTypes
  <2> QED BY <1>1, <2>1, <2>2, <2>3
<1>2. CASE Claim
  <2>1. manager' = "read" /\ claim' = TRUE /\ kind' = kind /\ serial' = serial
        /\ UNCHANGED <<ports, place, path, identity, moved, guest>> /\ kind = "uart"
    BY <1>2 DEF Claim, Goes, ControlInv, PlaceInv
  <2> QED BY <2>1 DEF UartInv, UartTypes
<1>3. CASE CloseSource
  <2>1. claim' = FALSE /\ kind' = kind /\ serial' = serial
        /\ UNCHANGED <<ports, place, path, identity, moved, guest>>
    BY <1>3 DEF CloseSource, Released
  <2> QED BY <2>1 DEF UartInv, UartTypes
<1>4. CASE \/ OpenUrl \/ OpenSsh \/ OpenTelnet \/ OpenAgain \/ Dial \/ SayHello \/ OpenRaises \/ ReceiveMore
           \/ NoAnswerCame \/ TriedTooSoon \/ AnswerIsGarbage \/ Refused \/ Accepted \/ CollectLine
           \/ CollectNoMore
  <2>1. manager \in {"open", "hello", "answer", "history"} /\ UNCHANGED <<uartVars, kind, serial>>
    BY <1>4 DEF OpenUrl, OpenSsh, OpenTelnet, Opens, OpenAgain, Dial, SayHello, OpenRaises, Botch, ReceiveMore,
                NoAnswerCame, TriedTooSoon, GiveUp, AnswerIsGarbage, Refused, Accepted, CollectLine,
                  CollectNoMore
  <2> QED BY <2>1, UartAside
<1>5. CASE ReadUart \/ ReadUrl \/ ReadSsh \/ ReadPending \/ Receive \/ IngestLine \/ Received \/ Ingested
           \/ ReadRaises
           \/ Replied \/ Retry
  <2>1. /\ UNCHANGED <<uartVars, kind, serial>>
        /\ manager' = manager \/ manager \in {"receive", "ingest", "reply", "pause"} \/ manager' = "close"
    BY <1>5 DEF ReadUart, ReadUrl, ReadSsh, Gets, ReadPending, Receive, IngestLine, Received, Ingested,
       ReadRaises,
                Replied, Retry
  <2> QED BY <2>1, UartAside
<1>6. CASE ReadTelnet \/ Ingest
  <2>1. UNCHANGED <<uartVars, kind, serial>> /\ kind # "uart"
    BY <1>6 DEF ReadTelnet, Ingest
  <2> QED BY <2>1 DEF UartInv, UartTypes, uartVars
<1>7. CASE WriterSteps
  BY <1>7, WritersAre, UartAside
<1>8. CASE FarSteps
  <2>a. UNCHANGED <<kind, manager>>
    BY <1>8, FarIs
  <2>1. CASE \/ FarAccepts \/ FarSpeaks \/ GuestReads \/ \E is \in {"no", "full"} : FarRefuses(is)
             \/ \E verb \in Verbs, opt \in Options : FarAsks(verb, opt)
             \/ \E keep \in 0..MaxSpoken, cut \in BOOLEAN : FarBreaks(keep, cut)
    <3>1. UNCHANGED <<uartVars, kind, serial>>
      BY <2>1 DEF FarAccepts, FarSpeaks, GuestReads, FarRefuses, FarAsks, FarBreaks, Arrives, Breaks
    <3> QED BY <2>a, <3>1, UartAside
  <2>2. CASE GuestOpens
    <3>1. guest' = TRUE /\ kind = "uart" /\ serial' = serial
          /\ UNCHANGED <<ports, place, path, identity, moved, claim>>
      BY <2>2 DEF GuestOpens
    <3> QED BY <2>a, <3>1 DEF UartInv, UartTypes
  <2>3. ASSUME NEW p \in Paths, Unplug(p) PROVE UartInv'
    <3>1. ports' = [ports EXCEPT ![p] = "none"] /\ serial' = serial
          /\ UNCHANGED <<place, path, identity, moved, claim, guest>>
      BY <2>3 DEF Unplug, Breaks
    <3>2. ports' \in [Paths -> Adapters \union {"none"}]
      BY <3>1 DEF UartInv, UartTypes
    <3> QED BY <2>a, <3>1, <3>2 DEF UartInv, UartTypes
  <2>4. ASSUME NEW a \in Adapters, NEW p \in Paths, NEW s \in Places, PlugIn(a, p, s) PROVE UartInv'
    <3>1. ports' = [ports EXCEPT ![p] = a] /\ place' = [place EXCEPT ![a] = s]
          /\ serial' = serial /\ UNCHANGED <<path, identity, moved, claim, guest>>
      BY <2>4 DEF PlugIn
    <3>2. ports' \in [Paths -> Adapters \union {"none"}] /\ place' \in [Adapters -> Places]
      BY <3>1 DEF UartInv, UartTypes
    <3> QED BY <2>a, <3>1, <3>2 DEF UartInv, UartTypes
  <2> QED BY <1>8, <2>1, <2>2, <2>3, <2>4 DEF FarSteps
<1> QED BY <1>1, <1>2, <1>3, <1>4, <1>5, <1>6, <1>7, <1>8 DEF SourceNext, OpenStep, Reads

-----------------------------------------------------------------------------
(* What is on its way from the other end *)

Proto == [us : SUBSET WeWill, them : SUBSET TheyMay, verb : Verbs \union {"none"}]

ItemTypes ==
  /\ inbox \in Seq(Items) /\ recvBuf \in Seq(Items) /\ pending \in Seq(Items) /\ heard \in Seq(Items)
  /\ swallowed \subseteq Items
  /\ answer \in [chunk : Seq(Items), data : Seq(Items), replies : Seq(Words)]
  /\ proto \in Proto
  /\ spoke \in Nat

LEMMA NoneTypes ==
  /\ <<>> \in Seq(Items) /\ <<>> \in Seq(Words)
  /\ NoAnswer \in [chunk : Seq(Items), data : Seq(Items), replies : Seq(Words)]
<1>1. <<>> \in Seq(Items) /\ <<>> \in Seq(Words)
  OBVIOUS
<1> QED BY <1>1 DEF NoAnswer

LEMMA NewTypes ==
  ASSUME conn \in Nat
  PROVE  /\ \A n \in Nat : Output(n) \in Items
         /\ \A is \in {"ok", "no", "full", "history", "end", "part"} \union Verbs \union Options :
              Item(is) \in Items
BY DEF Items, Output, Item

LEMMA GarbageTypes ==
  \A x \in Items :
      \A is \in {"part", "garbage"} : [x EXCEPT !.is = is] \in Items /\ [x EXCEPT !.is = is].is = is
BY DEF Items

\* The first k items of a sequence, and the rest.
Splits(s, k, p, q) ==
  /\ p = SubSeq(s, 1, k) /\ q = SubSeq(s, k + 1, Len(s)) /\ s = Cat(p, q)
  /\ p # <<>> /\ Len(p) = k /\ Len(s) = k + Len(q)
  /\ \A i \in 1..k : p[i] = s[i]
  /\ \A i \in 1..Len(q) : q[i] = s[k + i]

LEMMA CutOff ==
  \A S : \A s \in Seq(S) : \A k \in 1..Len(s) : \E p, q \in Seq(S) : Splits(s, k, p, q)
<1> TAKE S
<1> TAKE s \in Seq(S)
<1> TAKE k \in 1..Len(s)
<1>1. k \in 0..Len(s) /\ Len(s) \in Nat
  OBVIOUS
<1>2. /\ SubSeq(s, 1, k) \in Seq(S) /\ SubSeq(s, k + 1, Len(s)) \in Seq(S)
      /\ Len(SubSeq(s, 1, k)) = k /\ Len(SubSeq(s, k + 1, Len(s))) = Len(s) - k
      /\ \A i \in 1..k : SubSeq(s, 1, k)[i] = s[i]
      /\ \A i \in 1..(Len(s) - k) : SubSeq(s, k + 1, Len(s))[i] = s[k + i]
      /\ SubSeq(s, 1, k) \o SubSeq(s, k + 1, Len(s)) = s
  BY <1>1, Cut
<1>3. PICK p, q \in Seq(S) : p = SubSeq(s, 1, k) /\ q = SubSeq(s, k + 1, Len(s))
  BY <1>2, Zenon
<1>4. /\ Len(p) = k /\ Len(q) = Len(s) - k /\ s = Cat(p, q)
      /\ \A i \in 1..k : p[i] = s[i]
      /\ \A i \in 1..(Len(s) - k) : q[i] = s[k + i]
  BY <1>2, <1>3 DEF Cat
<1>5. p # <<>> /\ Len(s) = k + Len(q)
  BY <1>1, <1>4
<1> QED BY <1>3, <1>4, <1>5 DEF Splits

LEMMA OneOf == \A S : \A x \in S : <<x>> \in Seq(S) /\ Len(<<x>>) = 1 /\ <<x>>[1] = x
OBVIOUS

LEMMA IsOne == ASSUME NEW S, NEW l \in Seq(S), NEW x, Len(l) = 1, l[1] = x PROVE l = <<x>>
OBVIOUS

\* recvBuf after more has come.
Merges(buf, chunk, joined) ==
  \E front, rest \in Seq(Items), x, y, z \in Items :
    /\ x.is = "part" /\ z.is = (IF y.is = "part" THEN "part" ELSE "garbage")
    /\ buf = Cat(front, <<x>>) /\ chunk = Cat(<<y>>, rest)
    /\ joined = Cat(Cat(front, <<z>>), rest)

LEMMA JoinedIs ==
  ASSUME NEW buf \in Seq(Items), NEW chunk \in Seq(Items), chunk # <<>>
  PROVE  /\ Joined(buf, chunk) \in Seq(Items)
         /\ \/ Joined(buf, chunk) = Cat(buf, chunk) /\ (buf = <<>> \/ buf[Len(buf)].is # "part")
            \/ Merges(buf, chunk, Joined(buf, chunk))
<1>1. CASE buf = <<>> \/ Last(buf).is # "part"
  <2>1. Joined(buf, chunk) = buf \o chunk
    BY <1>1 DEF Joined
  <2>2. buf \o chunk \in Seq(Items)
    BY ConcatProperties
  <2> QED BY <1>1, <2>1, <2>2 DEF Cat, Last
<1>2. CASE ~(buf = <<>> \/ Last(buf).is # "part")
  <2>1. PICK x \in Items : x = Last(buf) /\ x.is = "part"
    BY <1>2 DEF Last
  <2>2. /\ Front(buf) \in Seq(Items) /\ buf = Front(buf) \o <<x>>
    <3>1. Len(buf) - 1 \in 0..Len(buf) /\ Len(buf) \in Nat /\ Len(buf) > 0 /\ (Len(buf) - 1) + 1 = Len(buf)
      BY <1>2
    <3>2. /\ SubSeq(buf, 1, Len(buf) - 1) \in Seq(Items)
          /\ SubSeq(buf, Len(buf), Len(buf)) \in Seq(Items)
          /\ Len(SubSeq(buf, Len(buf), Len(buf))) = 1
          /\ SubSeq(buf, Len(buf), Len(buf))[1] = buf[Len(buf)]
          /\ SubSeq(buf, 1, Len(buf) - 1) \o SubSeq(buf, Len(buf), Len(buf)) = buf
      <4>1. PICK k \in 0..Len(buf) : k = Len(buf) - 1
        BY <3>1
      <4>2. k + 1 = Len(buf) /\ Len(buf) - k = 1 /\ k + 1 \in Nat
        BY <3>1, <4>1
      <4>3. /\ SubSeq(buf, 1, k) \in Seq(Items)
            /\ SubSeq(buf, k + 1, Len(buf)) \in Seq(Items)
            /\ Len(SubSeq(buf, k + 1, Len(buf))) = Len(buf) - k
            /\ \A i \in 1..(Len(buf) - k) : SubSeq(buf, k + 1, Len(buf))[i] = buf[k + i]
            /\ SubSeq(buf, 1, k) \o SubSeq(buf, k + 1, Len(buf)) = buf
        BY Cut
      <4> QED BY <4>1, <4>2, <4>3
    <3>3. PICK l \in Seq(Items) : l = SubSeq(buf, Len(buf), Len(buf)) /\ Len(l) = 1 /\ l[1] = x
      BY <2>1, <3>2 DEF Last
    <3>4. l = <<x>>
      BY <3>3, IsOne
    <3> QED BY <3>2, <3>3, <3>4 DEF Front
  <2>3. PICK front \in Seq(Items) : front = Front(buf) /\ buf = front \o <<x>>
    BY <2>2
  <2>4. /\ Head(chunk) \in Items /\ Tail(chunk) \in Seq(Items) /\ chunk = <<Head(chunk)>> \o Tail(chunk)
    BY SetOfTail
  <2>5. PICK y \in Items, rest \in Seq(Items) : y = Head(chunk) /\ rest = Tail(chunk) /\ chunk = <<y>> \o rest
    BY <2>4
  <2>6. PICK z \in Items : /\ z = [Head(chunk) EXCEPT !.is = IF @ = "part" THEN "part" ELSE "garbage"]
                           /\ z.is = IF y.is = "part" THEN "part" ELSE "garbage"
    BY <2>5, GarbageTypes
  <2>7. Joined(buf, chunk) = (front \o <<z>>) \o rest
    BY <1>2, <2>3, <2>5, <2>6 DEF Joined
  <2>8. <<z>> \in Seq(Items) /\ front \o <<z>> \in Seq(Items) /\ (front \o <<z>>) \o rest \in Seq(Items)
    <3>1. PICK l \in Seq(Items) : l = <<z>>
      BY OneOf
    <3>2. PICK f \in Seq(Items) : f = front \o l
      BY ConcatProperties
    <3>3. f \o rest \in Seq(Items)
      BY ConcatProperties
    <3> QED BY <3>1, <3>2, <3>3
  <2>9. Merges(buf, chunk, Joined(buf, chunk))
    <3>1. /\ buf = Cat(front, <<x>>) /\ chunk = Cat(<<y>>, rest)
          /\ Joined(buf, chunk) = Cat(Cat(front, <<z>>), rest)
      BY <2>3, <2>5, <2>7 DEF Cat
    <3> QED BY <2>1, <2>6, <3>1, ZenonT(60) DEF Merges
  <2> QED BY <2>7, <2>8, <2>9
<1> QED BY <1>1, <1>2

LEMMA TakenIn ==
  ASSUME ItemTypes, TakesIn
  PROVE  \E k \in 1..Len(inbox) : \E p, q \in Seq(Items) :
           Splits(inbox, k, p, q) /\ inbox' = q /\ recvBuf' = Joined(recvBuf, p)
<1>1. PICK k \in 1..Len(inbox) :
        recvBuf' = Joined(recvBuf, SubSeq(inbox, 1, k)) /\ inbox' = SubSeq(inbox, k + 1, Len(inbox))
  BY DEF TakesIn
<1>2. inbox \in Seq(Items)
  BY DEF ItemTypes
<1>3. PICK p, q \in Seq(Items) : Splits(inbox, k, p, q)
  BY <1>2, CutOff, Zenon
<1>4. inbox' = q /\ recvBuf' = Joined(recvBuf, p)
  BY <1>1, <1>3 DEF Splits
<1> QED BY <1>3, <1>4

\* What a step leaves of what is received and on its way, when it takes nothing in.
Quiet == UNCHANGED <<inbox, recvBuf, pending, heard, swallowed, answer, spoke, proto>>

LEMMA ItemsOpen ==
  ASSUME ControlInv, \/ OpenUrl \/ OpenSsh \/ OpenTelnet \/ OpenUart \/ FollowUart \/ Dial
  PROVE  /\ inbox' = <<>> /\ spoke' = 0 /\ far' = "up" /\ greeted' = FALSE /\ wire' = <<>> /\ conn' = made'
         /\ conn' # 0
         /\ UNCHANGED <<recvBuf, pending, heard, swallowed, answer, kind, replays>>
         /\ proto' = proto \/ (kind = "telnet" /\ proto' = Fresh)
         /\ kind = "telnet" => proto' = Fresh
         /\ manager = "open" /\ manager' \in {"read", "claim", "hello"} /\ conn = 0
<1>1. CASE OpenUrl \/ OpenSsh \/ OpenTelnet
  BY <1>1 DEF OpenUrl, OpenSsh, OpenTelnet, Opens, Connects, Goes, ghosts, ControlInv, LinkTypes
<1>2. ASSUME NEW p, manager = "open", kind = "uart", OpenAt(p)
      PROVE  /\ Connects /\ Goes("claim") /\ UNCHANGED <<kind, replays, stores, ghosts>>
  BY <1>2 DEF OpenAt
<1>3. CASE OpenUart \/ FollowUart \/ Dial
  <2>1. /\ Connects /\ UNCHANGED <<kind, replays, stores, ghosts>> /\ kind \in {"uart", "socket"}
        /\ manager = "open"
        /\ manager' \in {"claim", "hello"}
    BY <1>2, <1>3 DEF OpenUart, FollowUart, FollowsTo, Dial, Goes
  <2> QED BY <2>1 DEF Connects, stores, ghosts, ControlInv, LinkTypes
<1> QED BY <1>1, <1>3

\* What the other end does to what is on its way.
Adds(items) == inbox' = Cat(inbox, items) /\ conn # 0 /\ far = "up" /\ UNCHANGED <<swallowed, proto>>

Broken(items) ==
  /\ conn # 0 /\ far = "up" /\ far' = "gone" /\ UNCHANGED <<spoke, swallowed, proto, greeted>>
  /\ items = <<>> \/ (items = <<Item("part")>> /\ kind = "socket")
  /\ \/ inbox' = items
     \/ \E k \in 1..Len(inbox) : \E p, q \in Seq(Items) : Splits(inbox, k, p, q) /\ inbox' = Cat(p, items)

Answering(items) ==
  \/ /\ kind = "socket" /\ ~greeted /\ wire # <<>> /\ UNCHANGED <<far, spoke>>
     /\ wire[1].is = "hello" /\ greeted'
     /\ items = IF replays THEN <<Item("ok"), Item("history"), Item("end")>> ELSE <<Item("ok")>>
  \/ /\ kind = "socket" /\ ~greeted /\ UNCHANGED <<greeted, spoke>> /\ far' = "gone"
     /\ \E is \in {"no", "full"} : items = <<Item(is)>>
  \/ /\ kind = "socket" => greeted
     /\ UNCHANGED <<greeted, far>> /\ spoke' = spoke + 1 /\ spoke < MaxSpoken /\ items = <<Output(spoke + 1)>>
  \/ /\ kind = "telnet" /\ UNCHANGED <<greeted, far, spoke>>
     /\ \E verb \in Verbs, opt \in Options : items = <<Item(verb), Item(opt)>>

LEMMA AnsweringTypes ==
  ASSUME ItemTypes, ControlInv, NEW items, Answering(items)
  PROVE  items \in Seq(Items) /\ spoke' \in Nat
<1>0. conn \in Nat /\ spoke \in Nat
  BY DEF ControlInv, LinkTypes, ItemTypes
<1>1. ASSUME NEW x \in Items, NEW y \in Items, NEW z \in Items
      PROVE  <<x>> \in Seq(Items) /\ <<x, y>> \in Seq(Items) /\ <<x, y, z>> \in Seq(Items)
  OBVIOUS
<1>2. \A n \in Nat : Output(n) \in Items
  BY <1>0, NewTypes
<1>3. \A is \in {"ok", "no", "full", "history", "end", "part"} \union Verbs \union Options : Item(is) \in Items
  BY <1>0, NewTypes
<1>4. ASSUME items = IF replays THEN <<Item("ok"), Item("history"), Item("end")>> ELSE <<Item("ok")>>
      PROVE  items \in Seq(Items)
  <2>1. Item("ok") \in Items /\ Item("history") \in Items /\ Item("end") \in Items
    BY <1>3
  <2> QED BY <1>1, <1>4, <2>1
<1>5. ASSUME NEW is \in {"no", "full"}, items = <<Item(is)>> PROVE items \in Seq(Items)
  BY <1>1, <1>3, <1>5
<1>6. ASSUME items = <<Output(spoke + 1)>> PROVE items \in Seq(Items)
  <2>1. spoke + 1 \in Nat
    BY <1>0
  <2>2. Output(spoke + 1) \in Items
    BY <1>2, <2>1
  <2> QED BY <1>1, <1>6, <2>2
<1>7. ASSUME NEW verb \in Verbs, NEW opt \in Options, items = <<Item(verb), Item(opt)>>
      PROVE  items \in Seq(Items)
  BY <1>1, <1>3, <1>7
<1>8. items \in Seq(Items)
  BY <1>4, <1>5, <1>6, <1>7 DEF Answering
<1>9. spoke' \in Nat
  BY <1>0 DEF Answering
<1> QED BY <1>8, <1>9

LEMMA BreaksIs ==
  ASSUME ItemTypes, ControlInv, NEW keep, NEW cut \in BOOLEAN, Breaks(keep, cut)
  PROVE  \E items \in Seq(Items) : Broken(items)
<1>0. conn \in Nat
  BY DEF ControlInv, LinkTypes
<1>1. /\ conn # 0 /\ far = "up" /\ far' = "gone" /\ UNCHANGED <<spoke, swallowed, proto, greeted>>
      /\ cut => kind = "socket"
      /\ keep \in 0..Len(inbox)
      /\ inbox' = SubSeq(inbox, 1, keep) \o IF cut THEN <<Item("part")>> ELSE <<>>
  BY DEF Breaks, stores, ghosts
<1>2. PICK items : items = IF cut THEN <<Item("part")>> ELSE <<>>
  OBVIOUS
<1>a. items \in Seq(Items)
  <2>1. Item("part") \in Items
    BY <1>0, NewTypes
  <2> QED BY <1>2, <2>1, OneOf
<1>3. CASE keep = 0
  <2>1. SubSeq(inbox, 1, keep) = <<>>
    BY <1>3, <1>1, Cut DEF ItemTypes
  <2>2. inbox' = items
    BY <1>1, <1>2, <1>a, <2>1
  <2> QED BY <1>1, <1>2, <1>a, <2>2 DEF Broken
<1>4. CASE keep # 0
  <2>1. keep \in 1..Len(inbox)
    BY <1>1, <1>4
  <2>2. PICK p, q \in Seq(Items) : Splits(inbox, keep, p, q)
    BY <2>1, CutOff DEF ItemTypes
  <2>3. inbox' = Cat(p, items)
    BY <1>1, <1>2, <2>2 DEF Splits, Cat
  <2> QED BY <1>1, <1>2, <1>a, <2>1, <2>2, <2>3 DEF Broken
<1> QED BY <1>3, <1>4

LEMMA FarSpecs ==
  ASSUME ItemTypes, ControlInv, FarSteps
  PROVE  \/ \E items \in Seq(Items) : Adds(items) /\ Answering(items)
         \/ \E items \in Seq(Items) : Broken(items)
         \/ UNCHANGED <<inbox, spoke, far, greeted, swallowed, proto>>
         \/ /\ guest /\ inbox # <<>> /\ inbox' = Tail(inbox) /\ swallowed' = swallowed \union {Head(inbox)}
            /\ UNCHANGED <<spoke, far, greeted, proto>>
<1>a. ASSUME NEW items, Arrives(items), Answering(items)
      PROVE  \E its \in Seq(Items) : Adds(its) /\ Answering(its)
  <2>1. items \in Seq(Items)
    BY <1>a, AnsweringTypes
  <2>2. Adds(items)
    BY <1>a DEF Arrives, Adds, Cat, stores, ghosts
  <2> QED BY <1>a, <2>1, <2>2
<1>1. CASE FarAccepts
  <2>1. <<Item("ok")>> \o (IF replays THEN <<Item("history"), Item("end")>> ELSE <<>>)
          = IF replays THEN <<Item("ok"), Item("history"), Item("end")>> ELSE <<Item("ok")>>
    <3>1. ASSUME NEW x, NEW y, NEW z PROVE <<x>> \o <<y, z>> = <<x, y, z>> /\ <<x>> \o <<>> = <<x>>
      <4>1. PICK S : S = {x, y, z}
        OBVIOUS
      <4>2. <<x>> \in Seq(S) /\ <<y, z>> \in Seq(S) /\ <<>> \in Seq(S) /\ <<x, y, z>> \in Seq(S)
        BY <4>1
      <4>3. <<x>> \o <<y, z>> = <<x, y, z>>
        <5>1. PICK p, q \in Seq(S) : p = <<x>> /\ q = <<y, z>>
          BY <4>2
        <5>2. /\ p \o q \in Seq(S) /\ Len(p \o q) = Len(p) + Len(q)
              /\ \A i \in 1..Len(p) : (p \o q)[i] = p[i]
              /\ \A i \in 1..Len(q) : (p \o q)[Len(p) + i] = q[i]
          OBVIOUS
        <5>3. PICK l \in Seq(S) : l = p \o q
          BY <5>2
        <5>4. Len(p) = 1 /\ Len(q) = 2 /\ p[1] = x /\ q[1] = y /\ q[2] = z
          BY <5>1
        <5>5. Len(l) = 3 /\ l[1] = x /\ l[2] = y /\ l[3] = z
          <6>1. Len(l) = 3 /\ l[1] = x /\ l[1 + 1] = y /\ l[1 + 2] = z
            BY <5>2, <5>3, <5>4
          <6> QED BY <6>1
        <5>6. l = <<x, y, z>>
          BY <5>5
        <5> QED BY <5>1, <5>3, <5>6
      <4>4. <<x>> \o <<>> = <<x>>
        BY <4>2, SMTT(30)
      <4> QED BY <4>3, <4>4
    <3>2. CASE replays
      BY <3>1, <3>2
    <3>3. CASE ~replays
      BY <3>1, <3>3
    <3> QED BY <3>2, <3>3
  <2>2. PICK items : items = IF replays THEN <<Item("ok"), Item("history"), Item("end")>> ELSE <<Item("ok")>>
    OBVIOUS
  <2>3. Arrives(items) /\ Answering(items)
    BY <1>1, <2>1, <2>2 DEF FarAccepts, Answering
  <2> QED BY <1>a, <2>3
<1>2. ASSUME NEW is \in {"no", "full"}, FarRefuses(is)
      PROVE  \E items \in Seq(Items) : Adds(items) /\ Answering(items)
  BY <1>a, <1>2 DEF FarRefuses, Answering
<1>3. CASE FarSpeaks
  BY <1>a, <1>3 DEF FarSpeaks, Answering
<1>4. ASSUME NEW verb \in Verbs, NEW opt \in Options, FarAsks(verb, opt)
      PROVE  \E items \in Seq(Items) : Adds(items) /\ Answering(items)
  BY <1>a, <1>4 DEF FarAsks, Answering
<1>5. ASSUME NEW keep \in 0..MaxSpoken, NEW cut \in BOOLEAN, FarBreaks(keep, cut)
      PROVE  \E items \in Seq(Items) : Broken(items)
  BY <1>5, BreaksIs DEF FarBreaks
<1>6. ASSUME NEW p \in Paths, Unplug(p)
      PROVE  (\E items \in Seq(Items) : Broken(items))
             \/ UNCHANGED <<inbox, spoke, far, greeted, swallowed, proto>>
  BY <1>6, BreaksIs DEF Unplug, linkVars, stores, ghosts
<1>7. CASE GuestOpens \/ \E a \in Adapters, p \in Paths, s \in Places : PlugIn(a, p, s)
  BY <1>7 DEF GuestOpens, PlugIn, linkVars, stores, ghosts
<1>8. CASE GuestReads
  BY <1>8 DEF GuestReads, stores
<1> QED BY <1>1, <1>2, <1>3, <1>4, <1>5, <1>6, <1>7, <1>8 DEF FarSteps

LEMMA ItemsFar ==
  ASSUME ControlInv, ItemTypes, FarSteps
  PROVE  ItemTypes'
<1>1. UNCHANGED <<recvBuf, pending, heard, answer>>
  BY FarIs DEF stores
<1>2. inbox' \in Seq(Items) /\ spoke' \in Nat /\ proto' \in Proto /\ swallowed' \subseteq Items
  <2>0. inbox \in Seq(Items) /\ spoke \in Nat /\ proto \in Proto /\ swallowed \subseteq Items
    BY DEF ItemTypes
  <2>1. ASSUME NEW items \in Seq(Items), Adds(items), Answering(items)
        PROVE  inbox' \in Seq(Items) /\ spoke' \in Nat /\ proto' \in Proto /\ swallowed' \subseteq Items
    BY <2>0, <2>1, AnsweringTypes, ConcatProperties DEF Adds, Cat
  <2>2. ASSUME NEW items \in Seq(Items), Broken(items)
        PROVE  inbox' \in Seq(Items) /\ spoke' \in Nat /\ proto' \in Proto /\ swallowed' \subseteq Items
    BY <2>0, <2>2, ConcatProperties DEF Broken, Cat
  <2>3. inbox # <<>> => Tail(inbox) \in Seq(Items) /\ Head(inbox) \in Items
    BY <2>0, SetOfTail
  <2> QED BY <2>0, <2>1, <2>2, <2>3, FarSpecs
<1> QED BY <1>1, <1>2 DEF ItemTypes

LEMMA ItemsKept ==
  ASSUME ControlInv, ItemTypes, SourceNext, ~Receive
  PROVE  ItemTypes'
<1>0. conn \in Nat
  BY DEF ControlInv, LinkTypes
<1>a. ASSUME Quiet PROVE ItemTypes'
  BY <1>a DEF Quiet, ItemTypes
<1>1. CASE \/ OpenUrl \/ OpenSsh \/ OpenTelnet \/ OpenUart \/ FollowUart \/ Dial
  <2>1. /\ inbox' = <<>> /\ spoke' = 0 /\ UNCHANGED <<recvBuf, pending, heard, swallowed, answer>>
        /\ proto' = proto \/ proto' = Fresh
    BY <1>1, ItemsOpen
  <2>2. 0 \in Nat /\ Fresh \in Proto
    BY DEF Proto, Fresh
  <2> QED BY <2>1, <2>2, NoneTypes DEF ItemTypes
<1>2. CASE Claim \/ OpenAgain \/ FollowInVain \/ SayHello \/ OpenRaises \/ CollectNoMore \/ Ingested
           \/ ReadRaises \/ Retry
  <2>1. Quiet
    BY <1>2 DEF Claim, OpenAgain, FollowInVain, SayHello, OpenRaises, Botch, CollectNoMore, Ingested,
                ReadRaises, Retry, Quiet, linkVars, stores, ghosts
  <2> QED BY <1>a, <2>1
<1>3. CASE ReceiveMore \/ Ingest
  <2>1. TakesIn /\ UNCHANGED <<pending, heard, swallowed, answer, spoke, proto>>
    BY <1>3 DEF ReceiveMore, Ingest, ghosts
  <2>2. PICK k \in 1..Len(inbox) : \E p, q \in Seq(Items) :
           Splits(inbox, k, p, q) /\ inbox' = q /\ recvBuf' = Joined(recvBuf, p)
    BY <2>1, TakenIn
  <2>3. PICK p, q \in Seq(Items) : p # <<>> /\ inbox' = q /\ recvBuf' = Joined(recvBuf, p)
    BY <2>2 DEF Splits
  <2>4. recvBuf' \in Seq(Items)
    BY <2>3, JoinedIs DEF ItemTypes
  <2> QED BY <2>1, <2>3, <2>4 DEF ItemTypes
<1>4. CASE NoAnswerCame \/ TriedTooSoon \/ AnswerIsGarbage \/ Refused \/ Accepted
  <2>1. /\ UNCHANGED <<pending, heard, swallowed, answer, spoke, proto>>
        /\ inbox' \in {<<>>, inbox}
        /\ recvBuf' = recvBuf \/ (HasLine /\ recvBuf' = Tail(recvBuf))
    BY <1>4 DEF NoAnswerCame, TriedTooSoon, GiveUp, AnswerIsGarbage, Botch, Refused, Accepted, Drops, Leaves,
       linkVars,
                stores, ghosts
  <2>2. recvBuf # <<>> => Tail(recvBuf) \in Seq(Items)
    BY SetOfTail DEF ItemTypes
  <2> QED BY <2>1, <2>2, NoneTypes DEF ItemTypes, HasLine
<1>5. CASE CollectLine \/ IngestLine
  <2>1. HandleLive /\ HasLine /\ UNCHANGED <<inbox, heard, swallowed, answer, spoke, proto>>
    BY <1>5 DEF CollectLine, IngestLine, linkVars, ghosts
  <2>2. Tail(recvBuf) \in Seq(Items) /\ Head(recvBuf) \in Items
    BY <2>1, SetOfTail DEF ItemTypes, HasLine
  <2>3. Append(pending, Head(recvBuf)) \in Seq(Items)
    BY <2>2, AppendProperties DEF ItemTypes
  <2> QED BY <2>1, <2>2, <2>3 DEF ItemTypes, HandleLive
<1>6. CASE ReadUart \/ ReadUrl \/ ReadSsh
  <2>1. /\ \E k \in 1..Len(inbox) :
             heard' = heard \o SubSeq(inbox, 1, k) /\ inbox' = SubSeq(inbox, k + 1, Len(inbox))
        /\ UNCHANGED <<pending, recvBuf, swallowed, answer, spoke, proto>>
    BY <1>6 DEF ReadUart, ReadUrl, ReadSsh, Gets, Hears, stores
  <2>2. PICK k \in 1..Len(inbox) :
          heard' = heard \o SubSeq(inbox, 1, k) /\ inbox' = SubSeq(inbox, k + 1, Len(inbox))
    BY <2>1
  <2>3. PICK p, q \in Seq(Items) : Splits(inbox, k, p, q)
    BY <2>2, CutOff DEF ItemTypes
  <2>4. heard' = heard \o p /\ inbox' = q
    BY <2>2, <2>3 DEF Splits
  <2>5. heard' \in Seq(Items)
    BY <2>4, ConcatProperties DEF ItemTypes
  <2> QED BY <2>1, <2>4, <2>5 DEF ItemTypes
<1>7. CASE ReadTelnet
  <2>1. /\ \E k \in 1..Len(inbox) : /\ answer' = [NoAnswer EXCEPT !.chunk = SubSeq(inbox, 1, k)]
                                    /\ inbox' = SubSeq(inbox, k + 1, Len(inbox))
        /\ UNCHANGED <<pending, recvBuf, swallowed, heard, spoke, proto>>
    BY <1>7 DEF ReadTelnet, ghosts
  <2>2. PICK k \in 1..Len(inbox) : /\ answer' = [NoAnswer EXCEPT !.chunk = SubSeq(inbox, 1, k)]
                                   /\ inbox' = SubSeq(inbox, k + 1, Len(inbox))
    BY <2>1
  <2>3. PICK p, q \in Seq(Items) : Splits(inbox, k, p, q)
    BY <2>2, CutOff DEF ItemTypes
  <2>4. answer' = [NoAnswer EXCEPT !.chunk = p] /\ inbox' = q
    BY <2>2, <2>3 DEF Splits
  <2>5. answer' \in [chunk : Seq(Items), data : Seq(Items), replies : Seq(Words)]
    BY <2>4, NoneTypes
  <2> QED BY <2>1, <2>4, <2>5 DEF ItemTypes
<1>8. CASE Received \/ Replied \/ ReadPending
  <2>1. /\ UNCHANGED <<inbox, recvBuf, spoke, proto>>
        /\ heard' = heard \/ heard' = heard \o answer.data \/ heard' = heard \o pending
        /\ answer' \in {answer, NoAnswer} /\ pending' \in {<<>>, pending}
        /\ swallowed' = swallowed \/ swallowed' = swallowed \union ToSet(answer.data)
    BY <1>8 DEF Received, Replied, ReadPending, Hears, linkVars, stores
  <2>2. answer.data \in Seq(Items) /\ pending \in Seq(Items) /\ heard \in Seq(Items)
    BY DEF ItemTypes
  <2>3. heard \o answer.data \in Seq(Items) /\ heard \o pending \in Seq(Items)
        /\ ToSet(answer.data) \subseteq Items
    BY <2>2, ConcatProperties, SetIsOf
  <2> QED BY <2>1, <2>3, NoneTypes DEF ItemTypes
<1>9. CASE CloseSource
  <2>1. /\ UNCHANGED <<heard, recvBuf, pending, answer, spoke, proto>> /\ inbox' = <<>>
        /\ swallowed' = swallowed \union {item \in ToSet(recvBuf) : IsOutput(item)}
    BY <1>9 DEF CloseSource, Drops, Leaves, stores
  <2>2. ToSet(recvBuf) \subseteq Items
    BY SetIsOf DEF ItemTypes
  <2> QED BY <2>1, <2>2, NoneTypes DEF ItemTypes
<1>10. CASE WriterSteps
  BY <1>10, <1>a, WritersAre DEF Quiet, stores
<1>11. CASE FarSteps
  BY <1>11, ItemsFar
<1> QED BY <1>1, <1>2, <1>3, <1>4, <1>5, <1>6, <1>7, <1>8, <1>9, <1>10, <1>11 DEF SourceNext, OpenStep, Reads

-----------------------------------------------------------------------------
(* Telnet commands *)

Expects(verb, s, i) == IF i = 1 THEN verb # "none" ELSE s[i - 1].is \in Verbs

\* An option follows a command, and nothing else does.
Paired(verb, s) == \A i \in 1..Len(s) : s[i].is \in Options <=> Expects(verb, s, i)

\* The last command has its option.
Closed(verb, s) == ~Expects(verb, s, Len(s) + 1)

Telnets == Verbs \union Options \union {"rx"}

LEMMA PairedTail ==
  ASSUME NEW verb, NEW next, NEW s \in Seq(Items), NEW t \in Seq(Items), NEW x \in Items, s = Cat(<<x>>, t),
         Paired(verb, s), next = IF x.is \in Verbs THEN x.is ELSE "none"
  PROVE  /\ x.is \in Options <=> verb # "none"
         /\ Paired(next, t)
         /\ Closed(verb, s) => Closed(next, t)
<1>1. Len(s) = Len(t) + 1 /\ Len(t) \in Nat /\ s[1] = x /\ \A i \in 1..Len(t) : s[i + 1] = t[i]
  <2>1. PICK l \in Seq(Items) : l = <<x>> /\ Len(l) = 1 /\ l[1] = x
    BY OneOf
  <2>2. s = l \o t
    BY <2>1 DEF Cat
  <2>3. /\ Len(s) = Len(l) + Len(t) /\ Len(t) \in Nat
        /\ \A i \in 1..(Len(l) + Len(t)) : s[i] = IF i <= Len(l) THEN l[i] ELSE t[i - Len(l)]
    <3>1. /\ Len(l \o t) = Len(l) + Len(t) /\ Len(t) \in Nat
          /\ \A i \in 1..(Len(l) + Len(t)) : (l \o t)[i] = IF i <= Len(l) THEN l[i] ELSE t[i - Len(l)]
      BY ConcatProperties
    <3> QED BY <2>2, <3>1
  <2>4. ASSUME NEW i \in 1..Len(t) PROVE s[i + 1] = t[i]
    <3>1. i + 1 \in 1..(Len(l) + Len(t)) /\ ~(i + 1 <= Len(l)) /\ (i + 1) - Len(l) = i
      BY <2>1, <2>3
    <3> QED BY <2>3, <3>1
  <2> QED BY <2>1, <2>3, <2>4
<1>2. x.is \in Options <=> verb # "none"
  BY <1>1 DEF Paired, Expects
<1>3. next # "none" <=> x.is \in Verbs
  BY DEF Verbs
<1>4. \A i \in 1..(Len(t) + 1) : Expects(next, t, i) <=> Expects(verb, s, i + 1)
  <2> TAKE i \in 1..(Len(t) + 1)
  <2>1. CASE i = 1
    BY <1>1, <1>3, <2>1 DEF Expects
  <2>2. CASE i # 1
    <3>1. i - 1 \in 1..Len(t) /\ i + 1 # 1 /\ (i + 1) - 1 = i /\ (i - 1) + 1 = i
      BY <1>1, <2>2
    <3>2. s[i] = t[i - 1]
      BY <1>1, <3>1
    <3> QED BY <2>2, <3>1, <3>2 DEF Expects
  <2> QED BY <2>1, <2>2
<1>5. Paired(next, t)
  <2> SUFFICES ASSUME NEW i \in 1..Len(t) PROVE t[i].is \in Options <=> Expects(next, t, i)
    BY DEF Paired
  <2>1. i + 1 \in 1..Len(s) /\ i \in 1..(Len(t) + 1)
    BY <1>1
  <2> QED BY <1>1, <1>4, <2>1 DEF Paired
<1>6. Closed(verb, s) => Closed(next, t)
  BY <1>1, <1>4 DEF Closed
<1> QED BY <1>2, <1>5, <1>6

LEMMA PairedPart ==
  ASSUME NEW verb, NEW s \in Seq(Items), NEW p \in Seq(Items), NEW q \in Seq(Items), s = Cat(p, q),
         Paired(verb, s)
  PROVE  Paired(verb, p)
<1>1. Len(p) \in Nat /\ Len(q) \in Nat /\ Len(s) = Len(p) + Len(q) /\ \A i \in 1..Len(p) : s[i] = p[i]
  BY ConcatProperties DEF Cat
<1>2. ASSUME NEW i \in 1..Len(p) PROVE p[i].is \in Options <=> Expects(verb, p, i)
  <2>1. i \in 1..Len(s) /\ s[i] = p[i] /\ (i # 1 => i - 1 \in 1..Len(p))
    BY <1>1
  <2>2. Expects(verb, s, i) <=> Expects(verb, p, i)
    BY <1>1, <2>1 DEF Expects
  <2> QED BY <2>1, <2>2 DEF Paired
<1> QED BY <1>2 DEF Paired

LEMMA PairedMore ==
  ASSUME NEW verb, NEW s \in Seq(Items), NEW t \in Seq(Items), NEW u \in Seq(Items), u = Cat(s, t),
         Paired(verb, s), Closed(verb, s),
         \/ Len(t) = 1 /\ t[1].is = "rx"
         \/ Len(t) = 2 /\ t[1].is \in Verbs /\ t[2].is \in Options
  PROVE  Paired(verb, u) /\ Closed(verb, u)
<1>1. /\ Len(s) \in Nat /\ Len(t) \in Nat /\ Len(u) = Len(s) + Len(t)
      /\ \A i \in 1..Len(s) : u[i] = s[i]
      /\ \A i \in 1..Len(t) : u[Len(s) + i] = t[i]
  <2>1. /\ Len(u) = Len(s) + Len(t) /\ Len(s) \in Nat /\ Len(t) \in Nat
        /\ \A i \in 1..(Len(s) + Len(t)) : u[i] = IF i <= Len(s) THEN s[i] ELSE t[i - Len(s)]
    BY ConcatProperties DEF Cat
  <2>2. \A i \in 1..Len(t) :
          Len(s) + i \in 1..(Len(s) + Len(t)) /\ ~(Len(s) + i <= Len(s)) /\ (Len(s) + i) - Len(s) = i
    BY <2>1
  <2> QED BY <2>1, <2>2
<1>2. \A i \in 1..(Len(s) + 1) : Expects(verb, u, i) <=> Expects(verb, s, i)
  <2> TAKE i \in 1..(Len(s) + 1)
  <2>1. i # 1 => i - 1 \in 1..Len(s)
    BY <1>1
  <2> QED BY <1>1, <2>1 DEF Expects
<1>3. ~Expects(verb, u, Len(s) + 1)
  BY <1>1, <1>2 DEF Closed
<1>4. \A i \in 1..Len(s) : u[i].is \in Options <=> Expects(verb, u, i)
  BY <1>1, <1>2, SMTT(40) DEF Paired
<1>5. u[Len(s) + 1] = t[1] /\ u[Len(s) + 1].is \notin Options /\ Len(s) + 1 <= Len(u)
  <2>1. 1 \in 1..Len(t)
    BY <1>1
  <2> QED BY <1>1, <2>1 DEF Verbs, Options
<1>6. CASE Len(t) = 1 /\ t[1].is = "rx"
  <2>1. Len(u) = Len(s) + 1
    BY <1>1, <1>6
  <2>2. \A i \in 1..Len(u) : i \in 1..Len(s) \/ i = Len(s) + 1
    BY <1>1, <2>1
  <2>3. Paired(verb, u)
    BY <1>3, <1>4, <1>5, <2>2 DEF Paired
  <2>4. Closed(verb, u)
    <3>1. (Len(u) + 1) - 1 = Len(s) + 1 /\ Len(u) + 1 # 1
      BY <1>1, <2>1
    <3> QED BY <1>5, <1>6, <3>1 DEF Closed, Expects, Verbs
  <2> QED BY <2>3, <2>4
<1>7. CASE Len(t) = 2 /\ t[1].is \in Verbs /\ t[2].is \in Options
  <2>1. Len(u) = Len(s) + 2 /\ u[Len(s) + 2] = t[2]
    <3>1. 2 \in 1..Len(t)
      BY <1>7
    <3> QED BY <1>1, <1>7, <3>1
  <2>2. \A i \in 1..Len(u) : i \in 1..Len(s) \/ i = Len(s) + 1 \/ i = Len(s) + 2
    <3>1. Len(s) \in Nat /\ Len(u) = Len(s) + 2
      BY <2>1
    <3> QED BY <3>1
  <2>3. Expects(verb, u, Len(s) + 2)
    <3>1. (Len(s) + 2) - 1 = Len(s) + 1 /\ Len(s) + 2 # 1
      BY <1>1
    <3> QED BY <1>5, <1>7, <3>1 DEF Expects
  <2>4. Paired(verb, u)
    BY <1>3, <1>4, <1>5, <1>7, <2>1, <2>2, <2>3 DEF Paired
  <2>5. Closed(verb, u)
    <3>1. (Len(u) + 1) - 1 = Len(s) + 2 /\ Len(u) + 1 # 1
      BY <1>1, <2>1
    <3> QED BY <1>7, <2>1, <3>1 DEF Closed, Expects, Verbs, Options
  <2> QED BY <2>4, <2>5
<1> QED BY <1>6, <1>7

-----------------------------------------------------------------------------
(* What lies where *)

\* Only the proxy's client keeps lines of its own, and only the telnet source an answer.
ShapeInv ==
  /\ \A x \in ToSet(inbox) : x.conn = conn
  /\ \A x \in ToSet(heard) \union ToSet(pending) \union ToSet(answer.data) : IsOutput(x)
  /\ conn = 0 => inbox = <<>>
  /\ kind # "socket" => recvBuf = <<>> /\ pending = <<>> /\ ~greeted
  /\ kind \in {"uart", "url", "ssh"} => \A x \in ToSet(inbox) : IsOutput(x)
  /\ manager \notin {"receive", "reply"} => answer = NoAnswer
  /\ manager = "reply" => answer.chunk = <<>>

Commands == Cat(answer.chunk, inbox)

CommandInv ==
  kind = "telnet" /\ conn # 0 =>
    /\ \A x \in ToSet(Commands) : x.is \in Telnets
    /\ Paired(proto.verb, Commands)
    /\ far = "up" => Closed(proto.verb, Commands)

ItemInv == ItemTypes /\ ShapeInv /\ CommandInv

LEMMA AnsweredIs ==
  ASSUME NEW p \in Proto, NEW opt \in Options
  PROVE  /\ Answered(p, opt).proto \in Proto /\ Answered(p, opt).proto.verb = "none"
         /\ \/ /\ Answered(p, opt).reply = <<>>
               /\ "naws" \in Answered(p, opt).proto.us <=> "naws" \in p.us
            \/ \E w \in Words :
                 /\ Answered(p, opt).reply = <<w>>
                 /\ IF OnNaws(w) THEN "naws" \in Answered(p, opt).proto.us <=> w.is = "WILL"
                    ELSE "naws" \in Answered(p, opt).proto.us <=> "naws" \in p.us
<1> DEFINE Says(verb, us, them) ==
             [proto |-> [us |-> us, them |-> them, verb |-> "none"],
              reply |-> IF verb = "none" THEN <<>> ELSE <<[is |-> verb, opt |-> opt]>>]
           Good(r) == /\ r.proto \in Proto /\ r.proto.verb = "none"
                      /\ \/ /\ r.reply = <<>>
                            /\ "naws" \in r.proto.us <=> "naws" \in p.us
                         \/ \E w \in Words :
                              /\ r.reply = <<w>>
                              /\ IF OnNaws(w) THEN "naws" \in r.proto.us <=> w.is = "WILL"
                                 ELSE "naws" \in r.proto.us <=> "naws" \in p.us
<1>0. p.us \in SUBSET WeWill /\ p.them \in SUBSET TheyMay
  BY DEF Proto
<1>1. ASSUME NEW us \in SUBSET WeWill, NEW them \in SUBSET TheyMay, "naws" \in us <=> "naws" \in p.us
      PROVE  Good(Says("none", us, them))
  BY <1>1 DEF Proto
<1>2. ASSUME NEW verb \in Verbs, NEW us \in SUBSET WeWill, NEW them \in SUBSET TheyMay,
             IF opt = "naws" /\ verb \in {"WILL", "WONT"} THEN "naws" \in us <=> verb = "WILL"
             ELSE "naws" \in us <=> "naws" \in p.us
      PROVE  Good(Says(verb, us, them))
  <2>1. PICK w : w = [is |-> verb, opt |-> opt]
    OBVIOUS
  <2>2. w \in Words /\ (OnNaws(w) <=> opt = "naws" /\ verb \in {"WILL", "WONT"}) /\ w.is = verb
    BY <2>1 DEF Words, OnNaws
  <2>3. Says(verb, us, them).reply = <<w>>
        /\ Says(verb, us, them).proto = [us |-> us, them |-> them, verb |-> "none"]
    BY <2>1 DEF Verbs
  <2>4. [us |-> us, them |-> them, verb |-> "none"] \in Proto
    BY DEF Proto
  <2> HIDE DEF Says
  <2>5. Says(verb, us, them).proto.us = us /\ Says(verb, us, them).proto.verb = "none"
        /\ Says(verb, us, them).proto \in Proto
    BY <2>3, <2>4
  <2> QED BY <1>2, <2>2, <2>3, <2>5
<1> HIDE DEF Good
<1>3. \/ Answered(p, opt) = Says("none", p.us, p.them)
      \/ opt \in TheyMay /\ Answered(p, opt) = Says("DO", p.us, p.them \union {opt})
      \/ Answered(p, opt) = Says("DONT", p.us, p.them)
      \/ Answered(p, opt) = Says("DONT", p.us, p.them \ {opt})
      \/ opt \in WeWill /\ Answered(p, opt) = Says("WILL", p.us \union {opt}, p.them)
      \/ opt \notin WeWill /\ Answered(p, opt) = Says("WONT", p.us, p.them)
      \/ opt \in p.us /\ Answered(p, opt) = Says("WONT", p.us \ {opt}, p.them)
  BY DEF Answered
<1> HIDE DEF Says
<1>4. Good(Answered(p, opt))
  <2>1. CASE Answered(p, opt) = Says("none", p.us, p.them)
    BY <1>0, <1>1, <2>1
  <2>2. CASE opt \in TheyMay /\ Answered(p, opt) = Says("DO", p.us, p.them \union {opt})
    BY <1>0, <1>2, <2>2 DEF Verbs, TheyMay
  <2>3. CASE Answered(p, opt) = Says("DONT", p.us, p.them)
    BY <1>0, <1>2, <2>3 DEF Verbs
  <2>4. CASE Answered(p, opt) = Says("DONT", p.us, p.them \ {opt})
    BY <1>0, <1>2, <2>4 DEF Verbs, TheyMay
  <2>5. CASE opt \in WeWill /\ Answered(p, opt) = Says("WILL", p.us \union {opt}, p.them)
    BY <1>0, <1>2, <2>5 DEF Verbs, WeWill
  <2>6. CASE opt \notin WeWill /\ Answered(p, opt) = Says("WONT", p.us, p.them)
    <3>1. opt # "naws"
      BY <2>6 DEF WeWill
    <3> QED BY <1>0, <1>2, <2>6, <3>1 DEF Verbs
  <2>7. CASE opt \in p.us /\ Answered(p, opt) = Says("WONT", p.us \ {opt}, p.them)
    BY <1>0, <1>2, <2>7 DEF Verbs, WeWill
  <2> QED BY <1>3, <2>1, <2>2, <2>3, <2>4, <2>5, <2>6, <2>7
<1> QED BY <1>4 DEF Good

\* What one item of a telnet chunk is taken for.
Taking(x, rest) ==
  \/ /\ proto.verb # "none" /\ x.is \in Options
     /\ proto' = Answered(proto, x.is).proto
     /\ answer'.data = answer.data
     /\ answer'.replies = answer.replies \o Answered(proto, x.is).reply
  \/ /\ proto.verb = "none" /\ x.is \in Verbs
     /\ proto' = [proto EXCEPT !.verb = x.is]
     /\ answer'.data = answer.data /\ answer'.replies = answer.replies
  \/ /\ proto.verb = "none" /\ x.is = "rx"
     /\ proto' = proto
     /\ answer'.data = Append(answer.data, x) /\ answer'.replies = answer.replies

LEMMA ReceiveIs ==
  ASSUME ControlInv, ItemInv, Receive
  PROVE  /\ kind = "telnet" /\ manager = "receive" /\ conn # 0
         /\ UNCHANGED <<kind, manager, connected, linkVars, recvBuf, pending, role, sending, writes, ghosts>>
         /\ answer' = [chunk |-> answer'.chunk, data |-> answer'.data, replies |-> answer'.replies]
         /\ \E x \in Items, rest \in Seq(Items) :
              /\ answer.chunk = Cat(<<x>>, rest) /\ answer'.chunk = rest
              /\ Commands = Cat(<<x>>, Commands') /\ Commands' \in Seq(Items) /\ Commands \in Seq(Items)
              /\ Taking(x, rest)
<1>1. /\ kind = "telnet" /\ manager = "receive" /\ conn # 0
      /\ UNCHANGED <<kind, manager, connected, linkVars, recvBuf, pending, role, sending, writes, ghosts>>
      /\ answer.chunk # <<>>
  BY DEF Receive, ControlInv, PlaceInv
<1>2. /\ answer \in [chunk : Seq(Items), data : Seq(Items), replies : Seq(Words)]
      /\ inbox \in Seq(Items) /\ inbox' = inbox
  BY <1>1 DEF ItemInv, ItemTypes, linkVars
<1>3. PICK x \in Items, rest \in Seq(Items) :
        x = Head(answer.chunk) /\ rest = Tail(answer.chunk) /\ answer.chunk = <<x>> \o rest
  BY <1>1, <1>2, SetOfTail
<1>4. /\ answer' \in [chunk : {rest}, data : {answer.data, Append(answer.data, x)},
                      replies : {answer.replies, answer.replies \o Answered(proto, x.is).reply}]
      /\ \/ /\ proto.verb # "none"
            /\ proto' = Answered(proto, x.is).proto
            /\ answer'.data = answer.data
            /\ answer'.replies = answer.replies \o Answered(proto, x.is).reply
         \/ /\ proto.verb = "none" /\ x.is \in Verbs
            /\ proto' = [proto EXCEPT !.verb = x.is]
            /\ answer'.data = answer.data /\ answer'.replies = answer.replies
         \/ /\ proto.verb = "none" /\ x.is \notin Verbs
            /\ proto' = proto
            /\ answer'.data = Append(answer.data, x) /\ answer'.replies = answer.replies
  BY <1>2, <1>3 DEF Receive
<1>5. PICK later \in Seq(Items) : later = rest \o inbox
  BY <1>2, ConcatProperties
<1>6. Commands' = later
  BY <1>2, <1>4, <1>5 DEF Commands, Cat
<1>7. Commands = Cat(<<x>>, later)
  <2>1. PICK l \in Seq(Items) : l = <<x>>
    BY OneOf
  <2>2. Cat(Cat(l, rest), inbox) = Cat(l, Cat(rest, inbox))
    BY <1>2, CatIs
  <2> QED BY <1>3, <1>5, <2>1, <2>2 DEF Commands, Cat
<1>8. Commands \in Seq(Items)
  BY <1>2, ConcatProperties DEF Commands, Cat
<1>9. /\ x.is \in Options <=> proto.verb # "none"
      /\ x.is \in Telnets
  <2>1. Paired(proto.verb, Commands) /\ \A y \in ToSet(Commands) : y.is \in Telnets
    BY <1>1 DEF ItemInv, CommandInv
  <2>2. x.is \in Options <=> proto.verb # "none"
    BY <1>7, <1>8, <2>1, PairedTail
  <2>3. x \in ToSet(Commands)
    <3>1. PICK l \in Seq(Items) : l = <<x>> /\ ToSet(l) = {x}
      BY OneOf, SetOfOne
    <3>2. ToSet(l \o later) = ToSet(l) \union ToSet(later)
      BY SetsOfConcat, ZenonT(60)
    <3> QED BY <1>7, <3>1, <3>2, SMTT(40) DEF Cat
  <2> QED BY <2>1, <2>2, <2>3
<1>10. Taking(x, rest)
  BY <1>4, <1>9 DEF Taking, Telnets
<1>11. /\ answer' = [chunk |-> answer'.chunk, data |-> answer'.data, replies |-> answer'.replies]
       /\ answer'.chunk = rest
  BY <1>4
<1>12. answer.chunk = Cat(<<x>>, rest) /\ Commands = Cat(<<x>>, Commands') /\ Commands' \in Seq(Items)
  BY <1>3, <1>6, <1>7 DEF Cat
<1> QED BY <1>1, <1>8, <1>10, <1>11, <1>12, Zenon

LEMMA ItemsReceive ==
  ASSUME ControlInv, ItemInv, Receive
  PROVE  ItemTypes'
<1>1. /\ UNCHANGED <<inbox, recvBuf, pending, heard, swallowed, spoke>>
      /\ answer \in [chunk : Seq(Items), data : Seq(Items), replies : Seq(Words)]
      /\ proto \in Proto
  BY ReceiveIs DEF linkVars, ghosts, ItemInv, ItemTypes
<1>2. PICK x \in Items, rest \in Seq(Items) : answer'.chunk = rest /\ Taking(x, rest)
  BY ReceiveIs
<1>3. /\ answer'.data \in Seq(Items) /\ answer'.replies \in Seq(Words) /\ proto' \in Proto
  <2>1. CASE proto.verb # "none" /\ x.is \in Options
    <3>1. /\ proto' = Answered(proto, x.is).proto /\ answer'.data = answer.data
          /\ answer'.replies = answer.replies \o Answered(proto, x.is).reply
      BY <1>2, <2>1 DEF Taking, Verbs, Options
    <3>2. PICK r \in Seq(Words) : r = Answered(proto, x.is).reply
      <4>1. /\ Answered(proto, x.is).reply = <<>> \/ \E w \in Words : Answered(proto, x.is).reply = <<w>>
        BY <1>1, <2>1, AnsweredIs
      <4> QED BY <4>1, OneOf, NoneTypes
    <3>3. answer.replies \o r \in Seq(Words)
      BY <1>1, ConcatProperties
    <3>4. proto' \in Proto
      BY <1>1, <2>1, <3>1, AnsweredIs
    <3> QED BY <1>1, <3>1, <3>2, <3>3, <3>4
  <2>2. CASE proto.verb = "none" /\ x.is \in Verbs
    <3>1. proto' = [proto EXCEPT !.verb = x.is] /\ answer'.data = answer.data
          /\ answer'.replies = answer.replies
      BY <1>2, <2>2 DEF Taking, Verbs, Options
    <3> QED BY <1>1, <2>2, <3>1 DEF Proto
  <2>3. CASE ~(proto.verb # "none" /\ x.is \in Options) /\ ~(proto.verb = "none" /\ x.is \in Verbs)
    <3>1. proto' = proto /\ answer'.data = Append(answer.data, x) /\ answer'.replies = answer.replies
      BY <1>2, <2>3 DEF Taking
    <3>2. Append(answer.data, x) \in Seq(Items)
      BY <1>1, AppendProperties
    <3> QED BY <1>1, <3>1, <3>2
  <2> QED BY <2>1, <2>2, <2>3
<1>4. answer' \in [chunk : Seq(Items), data : Seq(Items), replies : Seq(Words)]
  <2>1. answer' = [chunk |-> answer'.chunk, data |-> answer'.data, replies |-> answer'.replies]
    BY ReceiveIs
  <2>2. PICK c \in Seq(Items), d \in Seq(Items), r \in Seq(Words) :
          c = answer'.chunk /\ d = answer'.data /\ r = answer'.replies
    BY <1>2, <1>3
  <2>3. answer' = [chunk |-> c, data |-> d, replies |-> r]
    BY <2>1, <2>2
  <2> QED BY <2>3
<1> QED BY <1>1, <1>3, <1>4 DEF ItemInv, ItemTypes

LEMMA CatSets == \A S : \A s, t \in Seq(S) : Cat(s, t) \in Seq(S) /\ ToSet(Cat(s, t)) = ToSet(s) \union ToSet(t)
BY SetOfConcat DEF Cat

LEMMA CatNone == \A S : \A s \in Seq(S) : Cat(s, <<>>) = s /\ Cat(<<>>, s) = s
BY DEF Cat

LEMMA NothingIn == /\ ToSet(<<>>) = {} /\ NoAnswer.data = <<>> /\ NoAnswer.chunk = <<>>
                   /\ NoAnswer.replies = <<>>
BY SetOfNone DEF NoAnswer

\* What an answer of the other end is made of.
LEMMA AnsweringAre ==
  ASSUME NEW items, Answering(items)
  PROVE  /\ \A x \in ToSet(items) : x.conn = conn /\ (kind \in {"uart", "url", "ssh"} => IsOutput(x))
         /\ greeted' # greeted => kind = "socket"
<1>1. ASSUME NEW is PROVE Item(is).conn = conn /\ Item(is).is = is
  BY DEF Item
<1>2. ASSUME NEW n PROVE Output(n).conn = conn /\ Output(n).is = "rx"
  BY DEF Output
<1>3. ASSUME NEW x, NEW y, NEW z
      PROVE  ToSet(<<x>>) = {x} /\ ToSet(<<x, y>>) = {x, y} /\ ToSet(<<x, y, z>>) = {x, y, z}
  <2>1. DOMAIN <<x>> = {1} /\ DOMAIN <<x, y>> = {1, 2} /\ DOMAIN <<x, y, z>> = {1, 2, 3}
    OBVIOUS
  <2> QED BY <2>1 DEF ToSet
<1> DEFINE Good == /\ \A x \in ToSet(items) : x.conn = conn /\ (kind \in {"uart", "url", "ssh"} => IsOutput(x))
                   /\ greeted' # greeted => kind = "socket"
<1>4. ASSUME items = IF replays THEN <<Item("ok"), Item("history"), Item("end")>> ELSE <<Item("ok")>>,
             kind = "socket"
      PROVE  Good
  <2>1. PICK x, y, z : x = Item("ok") /\ y = Item("history") /\ z = Item("end")
    OBVIOUS
  <2>2. ToSet(items) \subseteq {x, y, z}
    <3>1. CASE replays
      <4>1. items = <<x, y, z>>
        BY <1>4, <2>1, <3>1
      <4> QED BY <1>3, <4>1
    <3>2. CASE ~replays
      <4>1. items = <<x>>
        BY <1>4, <2>1, <3>2
      <4>2. ToSet(items) = {x}
        BY <1>3, <4>1
      <4> QED BY <4>2
    <3> QED BY <3>1, <3>2
  <2> QED BY <1>1, <1>4, <2>1, <2>2
<1>5. ASSUME NEW is, items = <<Item(is)>>, kind = "socket", greeted' = greeted
      PROVE  Good
  <2>1. PICK x : x = Item(is)
    OBVIOUS
  <2>2. ToSet(items) = {x}
    BY <1>3, <1>5, <2>1
  <2> QED BY <1>1, <1>5, <2>1, <2>2
<1>6. ASSUME items = <<Output(spoke + 1)>>, greeted' = greeted
      PROVE  Good
  <2>1. PICK x : x = Output(spoke + 1)
    OBVIOUS
  <2>2. ToSet(items) = {x}
    BY <1>3, <1>6, <2>1
  <2> QED BY <1>2, <1>6, <2>1, <2>2 DEF IsOutput
<1>7. ASSUME NEW verb, NEW opt, items = <<Item(verb), Item(opt)>>, kind = "telnet", greeted' = greeted
      PROVE  Good
  <2>1. PICK x, y : x = Item(verb) /\ y = Item(opt)
    OBVIOUS
  <2>2. ToSet(items) = {x, y}
    BY <1>3, <1>7, <2>1
  <2> QED BY <1>1, <1>7, <2>1, <2>2
<1> HIDE DEF Good
<1>8. Good
  BY <1>4, <1>5, <1>6, <1>7 DEF Answering
<1> QED BY <1>8 DEF Good

LEMMA BrokenAre ==
  ASSUME ItemTypes, NEW items \in Seq(Items), Broken(items)
  PROVE  /\ inbox' \in Seq(Items) /\ conn # 0
         /\ \A x \in ToSet(inbox') : x \in ToSet(inbox) \/ (x = Item("part") /\ kind = "socket")
         /\ kind # "socket" => inbox' = <<>> \/ \E p, q \in Seq(Items) : inbox = Cat(p, q) /\ inbox' = p
<1>1. items = <<>> \/ (items = <<Item("part")>> /\ kind = "socket")
  BY DEF Broken
<1>2. ToSet(items) = {} \/ (ToSet(items) = {Item("part")} /\ kind = "socket")
  BY <1>1, SetOfOne, SetOfNone
<1>3. CASE inbox' = items
  BY <1>1, <1>2, <1>3 DEF Broken
<1>4. ASSUME NEW k \in 1..Len(inbox), NEW p \in Seq(Items), NEW q \in Seq(Items), Splits(inbox, k, p, q),
             inbox' = Cat(p, items)
      PROVE  /\ inbox' \in Seq(Items)
             /\ \A x \in ToSet(inbox') : x \in ToSet(inbox) \/ (x = Item("part") /\ kind = "socket")
             /\ kind # "socket" => inbox' = <<>> \/ \E r, s \in Seq(Items) : inbox = Cat(r, s) /\ inbox' = r
  <2>1. inbox = Cat(p, q)
    BY <1>4 DEF Splits
  <2>2. ToSet(inbox) = ToSet(p) \union ToSet(q) /\ inbox' \in Seq(Items)
        /\ ToSet(inbox') = ToSet(p) \union ToSet(items)
    BY <1>4, <2>1, CatSets
  <2>3. kind # "socket" => inbox' = p
    BY <1>1, <1>4, CatNone
  <2> QED BY <1>2, <2>1, <2>2, <2>3
<1>5. conn # 0
  BY DEF Broken
<1> QED BY <1>3, <1>4, <1>5 DEF Broken

LEMMA ShapeFar ==
  ASSUME ControlInv, ItemInv, FarSteps
  PROVE  ShapeInv'
<1>1. UNCHANGED <<kind, manager, conn, recvBuf, pending, heard, answer>>
  BY FarIs DEF stores
<1>a. ItemTypes /\ ShapeInv /\ inbox \in Seq(Items)
  BY DEF ItemInv, ItemTypes
<1>b. ASSUME \A x \in ToSet(inbox') : x.conn = conn /\ (kind \in {"uart", "url", "ssh"} => IsOutput(x)),
             conn = 0 => inbox' = <<>>, greeted' # greeted => kind = "socket"
      PROVE  ShapeInv'
  BY <1>1, <1>a, <1>b DEF ShapeInv
<1>2. ASSUME NEW items \in Seq(Items), Adds(items), Answering(items) PROVE ShapeInv'
  <2>1. ToSet(inbox') = ToSet(inbox) \union ToSet(items) /\ conn # 0
    BY <1>a, <1>2, CatSets DEF Adds
  <2> QED BY <1>a, <1>b, <1>2, <2>1, AnsweringAre DEF ShapeInv
<1>3. ASSUME NEW items \in Seq(Items), Broken(items) PROVE ShapeInv'
  <2>1. \A x \in ToSet(inbox') : x \in ToSet(inbox) \/ (x = Item("part") /\ kind = "socket")
    BY <1>a, <1>3, BrokenAre
  <2>2. Item("part").conn = conn /\ conn # 0 /\ greeted' = greeted
    BY <1>3 DEF Item, Broken
  <2>3. \A x \in ToSet(inbox') : x.conn = conn /\ (kind \in {"uart", "url", "ssh"} => IsOutput(x))
    BY <1>a, <2>1, <2>2 DEF ShapeInv
  <2> QED BY <1>b, <2>2, <2>3
<1>4. CASE UNCHANGED <<inbox, greeted>>
  BY <1>a, <1>b, <1>4 DEF ShapeInv
<1>5. CASE guest /\ inbox # <<>> /\ inbox' = Tail(inbox) /\ greeted' = greeted
  <2>1. ToSet(inbox) = {Head(inbox)} \union ToSet(Tail(inbox))
    BY <1>a, <1>5, SetOfTail
  <2> QED BY <1>a, <1>b, <1>5, <2>1 DEF ShapeInv
<1> QED BY <1>a, <1>2, <1>3, <1>4, <1>5, FarSpecs

\* Of what is received, only the first line of what the proxy's client has kept is looked at.
Line == HandleLive /\ HasLine
  /\ UNCHANGED <<inbox, heard, swallowed, answer, spoke, proto, greeted, conn, made, far>>

LEMMA LineIs ==
  ASSUME ItemTypes, Line
  PROVE  \E x \in Items, rest \in Seq(Items) :
           /\ recvBuf = Cat(<<x>>, rest) /\ recvBuf' = rest /\ x = Head(recvBuf) /\ x.is # "part"
           /\ pending' = IF IsOutput(x) THEN Cat(pending, <<x>>) ELSE pending
           /\ ToSet(recvBuf) = {x} \union ToSet(rest)
           /\ ToSet(pending') = IF IsOutput(x) THEN ToSet(pending) \union {x} ELSE ToSet(pending)
<1>1. recvBuf \in Seq(Items) /\ recvBuf # <<>> /\ pending \in Seq(Items) /\ Head(recvBuf).is # "part"
  BY DEF ItemTypes, Line, HasLine
<1>2. PICK x \in Items, rest \in Seq(Items) :
        x = Head(recvBuf) /\ rest = Tail(recvBuf) /\ recvBuf = <<x>> \o rest
          /\ ToSet(recvBuf) = {x} \union ToSet(rest)
  <2>1. /\ Head(recvBuf) \in Items /\ Tail(recvBuf) \in Seq(Items)
        /\ recvBuf = <<Head(recvBuf)>> \o Tail(recvBuf)
        /\ ToSet(recvBuf) = {Head(recvBuf)} \union ToSet(Tail(recvBuf))
    BY <1>1, SetOfTail
  <2> QED BY <2>1, Zenon
<1>3. Append(pending, x) = pending \o <<x>> /\ ToSet(Append(pending, x)) = ToSet(pending) \union {x}
  BY <1>1, SetOfAppend
<1>4. recvBuf' = rest /\ pending' = IF IsOutput(x) THEN Append(pending, x) ELSE pending
  BY <1>2 DEF Line, HandleLive
<1>5. /\ recvBuf = Cat(<<x>>, rest) /\ x.is # "part"
      /\ pending' = IF IsOutput(x) THEN Cat(pending, <<x>>) ELSE pending
      /\ ToSet(pending') = IF IsOutput(x) THEN ToSet(pending) \union {x} ELSE ToSet(pending)
  BY <1>1, <1>2, <1>3, <1>4 DEF Cat
<1> QED BY <1>2, <1>4, <1>5, Zenon

\* A step that moves nothing.
Rests == Quiet /\ UNCHANGED <<kind, greeted, conn, made, far>>
  /\ (manager' = manager \/ {manager, manager'} \cap {"receive", "reply"} = {})

LEMMA RestsAre ==
  \/ Claim \/ OpenAgain \/ FollowInVain \/ SayHello \/ OpenRaises \/ CollectNoMore \/ Ingested
  \/ ReadRaises \/ Retry \/ WriterSteps
  => Rests
<1>1. CASE Claim \/ OpenAgain \/ FollowInVain \/ SayHello
  BY <1>1 DEF Claim, OpenAgain, FollowInVain, SayHello, Goes, Rests, Quiet, linkVars, stores, ghosts
<1>2. CASE OpenRaises \/ CollectNoMore \/ Ingested
  BY <1>2 DEF OpenRaises, Botch, CollectNoMore, Ingested, Goes, Rests, Quiet, linkVars, stores, ghosts
<1>3. CASE ReadRaises \/ Retry
  BY <1>3 DEF ReadRaises, Retry, Rests, Quiet, linkVars, stores, ghosts
<1>4. CASE WriterSteps
  BY <1>4, WritersAre DEF Rests, Quiet, stores
<1> QED BY <1>1, <1>2, <1>3, <1>4

\* What moves when the proxy's client takes in more.
LEMMA TakingIn ==
  ASSUME ControlInv, ItemTypes, ReceiveMore \/ Ingest
  PROVE  /\ kind = "socket"
         /\ UNCHANGED <<pending, heard, swallowed, answer, spoke, proto, kind, greeted, conn, made, far>>
         /\ {manager, manager'} \cap {"receive", "reply"} = {}
         /\ \E p, q \in Seq(Items) : /\ p # <<>> /\ inbox = Cat(p, q) /\ inbox' = q
                                     /\ recvBuf' = Joined(recvBuf, p)
<1>1. kind = "socket"
      /\ UNCHANGED <<pending, heard, swallowed, answer, spoke, proto, kind, greeted, conn, made, far>>
  BY DEF ReceiveMore, Ingest, ghosts, ControlInv, PlaceInv
<1>2. {manager, manager'} \cap {"receive", "reply"} = {} /\ TakesIn
  BY DEF ReceiveMore, Ingest, Goes
<1>3. PICK k \in 1..Len(inbox) : \E p, q \in Seq(Items) :
         Splits(inbox, k, p, q) /\ inbox' = q /\ recvBuf' = Joined(recvBuf, p)
  BY <1>2, TakenIn
<1> QED BY <1>1, <1>2, <1>3 DEF Splits

\* The connection is given up.
LEMMA GivenUp ==
  ASSUME ControlInv, NoAnswerCame \/ TriedTooSoon \/ Refused
  PROVE  /\ inbox' = <<>> /\ conn' = 0 /\ kind = "socket" /\ manager = "answer"
         /\ manager' \in {"pause", "ended"}
         /\ UNCHANGED <<pending, heard, swallowed, answer, spoke, proto, kind, greeted, made, far>>
         /\ recvBuf' = recvBuf \/ (HasLine /\ recvBuf' = Tail(recvBuf) /\ ~IsOutput(Head(recvBuf)))
            \/ (HasLine /\ recvBuf' = Tail(recvBuf) /\ Refused)
BY DEF NoAnswerCame, TriedTooSoon, GiveUp, Refused, Goes, Drops, Leaves, stores, ghosts, IsOutput, ControlInv,
   PlaceInv

\* The answer of the proxy is one that is not kept.
LEMMA AnswerRead ==
  ASSUME ControlInv, AnswerIsGarbage \/ Accepted
  PROVE  /\ kind = "socket" /\ manager = "answer" /\ {manager'} \cap {"receive", "reply"} = {}
         /\ UNCHANGED <<inbox, pending, heard, swallowed, answer, spoke, proto, kind, greeted, conn, made, far>>
         /\ HasLine /\ recvBuf' = Tail(recvBuf) /\ ~IsOutput(Head(recvBuf))
BY DEF AnswerIsGarbage, Botch, Accepted, Goes, linkVars, stores, ghosts, IsOutput, ControlInv, PlaceInv

LEMMA LineRead ==
  ASSUME ControlInv, CollectLine \/ IngestLine
  PROVE  /\ Line /\ kind = "socket" /\ kind' = kind /\ {manager, manager'} \cap {"receive", "reply"} = {}
<1>1. CASE CollectLine
  BY <1>1 DEF CollectLine, Goes, Line, linkVars, ghosts, ControlInv, PlaceInv
<1>2. CASE IngestLine
  BY <1>2 DEF IngestLine, Line, linkVars, ghosts, ControlInv, PlaceInv
<1> QED BY <1>1, <1>2

LEMMA GetsIs ==
  ASSUME ItemTypes, ReadUart \/ ReadUrl \/ ReadSsh
  PROVE  /\ kind \in {"uart", "url", "ssh"} /\ manager = "read"
         /\ UNCHANGED <<pending, recvBuf, swallowed, answer, spoke, proto, kind, greeted, conn, made, far,
            manager>>
         /\ \E p, q \in Seq(Items) : p # <<>> /\ inbox = Cat(p, q) /\ inbox' = q /\ heard' = Cat(heard, p)
<1>1. /\ kind \in {"uart", "url", "ssh"} /\ manager = "read"
      /\ UNCHANGED <<pending, recvBuf, swallowed, answer, spoke, proto, kind, greeted, conn, made, far,
         manager>>
      /\ \E k \in 1..Len(inbox) :
           heard' = heard \o SubSeq(inbox, 1, k) /\ inbox' = SubSeq(inbox, k + 1, Len(inbox))
  BY DEF ReadUart, ReadUrl, ReadSsh, Gets, Hears, stores
<1>2. PICK k \in 1..Len(inbox) :
        heard' = heard \o SubSeq(inbox, 1, k) /\ inbox' = SubSeq(inbox, k + 1, Len(inbox))
  BY <1>1
<1>3. PICK p, q \in Seq(Items) : Splits(inbox, k, p, q)
  BY <1>2, CutOff DEF ItemTypes
<1>4. heard' = Cat(heard, p) /\ inbox' = q /\ p # <<>> /\ inbox = Cat(p, q)
  BY <1>2, <1>3 DEF Splits, Cat
<1> QED BY <1>1, <1>4

LEMMA ReadTelnetIs ==
  ASSUME ItemTypes, ReadTelnet
  PROVE  /\ kind = "telnet" /\ manager = "read" /\ manager' = "receive"
         /\ UNCHANGED <<pending, recvBuf, swallowed, heard, spoke, proto, kind, greeted, conn, made, far>>
         /\ \E p, q \in Seq(Items) :
              p # <<>> /\ inbox = Cat(p, q) /\ inbox' = q
                /\ answer' = [chunk |-> p, data |-> <<>>, replies |-> <<>>]
<1>1. /\ kind = "telnet" /\ manager = "read" /\ manager' = "receive"
      /\ UNCHANGED <<pending, recvBuf, swallowed, heard, spoke, proto, kind, greeted, conn, made, far>>
      /\ \E k \in 1..Len(inbox) :
           answer' = [NoAnswer EXCEPT !.chunk = SubSeq(inbox, 1, k)]
             /\ inbox' = SubSeq(inbox, k + 1, Len(inbox))
  BY DEF ReadTelnet, Goes, ghosts
<1>2. PICK k \in 1..Len(inbox) :
        answer' = [NoAnswer EXCEPT !.chunk = SubSeq(inbox, 1, k)] /\ inbox' = SubSeq(inbox, k + 1, Len(inbox))
  BY <1>1
<1>3. PICK p, q \in Seq(Items) : Splits(inbox, k, p, q)
  BY <1>2, CutOff DEF ItemTypes
<1>4. answer' = [NoAnswer EXCEPT !.chunk = p] /\ inbox' = q /\ p # <<>> /\ inbox = Cat(p, q)
  BY <1>2, <1>3 DEF Splits
<1>5. [NoAnswer EXCEPT !.chunk = p] = [chunk |-> p, data |-> <<>>, replies |-> <<>>]
  BY DEF NoAnswer
<1> QED BY <1>1, <1>4, <1>5, Zenon

LEMMA ReturnsAre ==
  ASSUME ItemTypes, ControlInv, Received \/ Replied \/ ReadPending
  PROVE  /\ UNCHANGED <<inbox, recvBuf, spoke, proto, kind, greeted, conn, made, far>>
         /\ \/ /\ manager = "receive" /\ manager' = "reply" /\ UNCHANGED <<heard, answer, pending, swallowed>>
               /\ answer.chunk = <<>> /\ kind = "telnet"
            \/ /\ manager \in {"receive", "reply"} /\ manager' = "read" /\ heard' = Cat(heard, answer.data)
               /\ answer' = NoAnswer /\ UNCHANGED <<pending, swallowed>>
               /\ manager = "receive" => answer.chunk = <<>>
               /\ kind = "telnet"
            \/ /\ manager = "reply" /\ manager' = "close" /\ answer' = NoAnswer /\ UNCHANGED <<heard, pending>>
               /\ swallowed' = swallowed \union ToSet(answer.data) /\ kind = "telnet"
            \/ /\ manager = "read" /\ manager' = "read" /\ kind = "socket" /\ heard' = Cat(heard, pending)
               /\ pending' = <<>> /\ UNCHANGED <<answer, swallowed>>
<1>1. CASE Received
  BY <1>1 DEF Received, Goes, Hears, Cat, linkVars, ControlInv, PlaceInv
<1>2. CASE Replied
  BY <1>2 DEF Replied, Hears, Cat, linkVars, ControlInv, PlaceInv
<1>3. CASE ReadPending
  BY <1>3 DEF ReadPending, Hears, Cat, linkVars
<1> QED BY <1>1, <1>2, <1>3

LEMMA ClosesIs ==
  ASSUME CloseSource
  PROVE  /\ manager = "close" /\ manager' = "pause" /\ conn' = 0 /\ inbox' = <<>>
         /\ UNCHANGED <<heard, recvBuf, pending, answer, spoke, proto, kind, greeted, made, far>>
         /\ swallowed' = swallowed \union {item \in ToSet(recvBuf) : IsOutput(item)}
BY DEF CloseSource, Drops, Leaves, stores

LEMMA ShapeKept ==
  ASSUME ControlInv, ItemInv, SourceNext
  PROVE  ShapeInv'
<1>0. /\ ItemTypes /\ ShapeInv /\ inbox \in Seq(Items) /\ recvBuf \in Seq(Items) /\ pending \in Seq(Items)
      /\ heard \in Seq(Items) /\ answer.data \in Seq(Items)
  BY DEF ItemInv, ItemTypes
<1>1. CASE \/ OpenUrl \/ OpenSsh \/ OpenTelnet \/ OpenUart \/ FollowUart \/ Dial
  BY <1>0, <1>1, ItemsOpen, NothingIn DEF ShapeInv
<1>2. CASE Rests
  BY <1>0, <1>2 DEF ShapeInv, Rests, Quiet
<1>3. CASE ReceiveMore \/ Ingest
  <2>1. PICK p, q \in Seq(Items) : inbox = Cat(p, q) /\ inbox' = q
    BY <1>0, <1>3, TakingIn
  <2>2. ToSet(inbox) = ToSet(p) \union ToSet(q)
    BY <2>1, CatSets
  <2>3. conn # 0
    BY <1>3 DEF ReceiveMore, Ingest, ControlInv, PlaceInv
  <2> QED BY <1>0, <1>3, <2>1, <2>2, <2>3, TakingIn DEF ShapeInv
<1>4. CASE NoAnswerCame \/ TriedTooSoon \/ Refused
  BY <1>0, <1>4, GivenUp, NothingIn DEF ShapeInv
<1>5. CASE AnswerIsGarbage \/ Accepted
  BY <1>0, <1>5, AnswerRead DEF ShapeInv
<1>6. CASE CollectLine \/ IngestLine
  <2>1. Line /\ kind = "socket" /\ kind' = kind /\ {manager, manager'} \cap {"receive", "reply"} = {}
    BY <1>6, LineRead
  <2>2. PICK x \in Items : ToSet(pending') = IF IsOutput(x) THEN ToSet(pending) \union {x} ELSE ToSet(pending)
    BY <1>0, <2>1, LineIs
  <2>3. \A y \in ToSet(pending') : IsOutput(y)
    BY <1>0, <2>2 DEF ShapeInv
  <2> QED BY <1>0, <2>1, <2>3 DEF ShapeInv, Line
<1>7. CASE ReadUart \/ ReadUrl \/ ReadSsh
  <2>1. PICK p, q \in Seq(Items) : inbox = Cat(p, q) /\ inbox' = q /\ heard' = Cat(heard, p)
    BY <1>0, <1>7, GetsIs
  <2>2. ToSet(inbox) = ToSet(p) \union ToSet(q) /\ ToSet(heard') = ToSet(heard) \union ToSet(p)
    BY <1>0, <2>1, CatSets
  <2>3. conn # 0
    BY <1>0, <1>7, GetsIs DEF ControlInv, PlaceInv
  <2> QED BY <1>0, <1>7, <2>1, <2>2, <2>3, GetsIs DEF ShapeInv
<1>8. CASE ReadTelnet
  <2>1. PICK p, q \in Seq(Items) :
          inbox = Cat(p, q) /\ inbox' = q /\ answer' = [chunk |-> p, data |-> <<>>, replies |-> <<>>]
    BY <1>0, <1>8, ReadTelnetIs
  <2>2. ToSet(inbox) = ToSet(p) \union ToSet(q) /\ ToSet(answer'.data) = {}
    BY <1>0, <2>1, CatSets, NothingIn
  <2>3. conn # 0
    BY <1>0, <1>8, ReadTelnetIs DEF ControlInv, PlaceInv
  <2> QED BY <1>0, <1>8, <2>1, <2>2, <2>3, ReadTelnetIs DEF ShapeInv
<1>9. CASE Receive
  <2>1. PICK x \in Items, rest \in Seq(Items) : Taking(x, rest)
    BY <1>9, ReceiveIs
  <2>2. answer'.data = answer.data \/ (x.is = "rx" /\ answer'.data = Append(answer.data, x))
    BY <2>1 DEF Taking
  <2>3. ToSet(Append(answer.data, x)) = ToSet(answer.data) \union {x}
    <3>1. PICK d \in Seq(Items) : d = answer.data
      BY <1>0
    <3>2. ToSet(Append(d, x)) = ToSet(d) \union {x}
      BY SetsOfAppend
    <3> QED BY <3>1, <3>2
  <2>4. \A y \in ToSet(answer'.data) : IsOutput(y)
    <3>1. (\A y \in ToSet(answer.data) : IsOutput(y)) /\ (x.is = "rx" => IsOutput(x))
      BY <1>0 DEF ShapeInv, IsOutput
    <3>2. CASE answer'.data = answer.data
      BY <3>1, <3>2
    <3>3. CASE x.is = "rx" /\ answer'.data = Append(answer.data, x)
      <4>1. ToSet(answer'.data) = ToSet(answer.data) \union {x}
        BY <2>3, <3>3
      <4> QED BY <3>1, <3>3, <4>1
    <3> QED BY <2>2, <3>2, <3>3
  <2>5. /\ UNCHANGED <<kind, manager, inbox, heard, pending, recvBuf, conn, greeted>> /\ manager = "receive"
    BY <1>9, ReceiveIs DEF linkVars, ghosts
  <2> QED BY <1>0, <2>4, <2>5 DEF ShapeInv
<1>10. CASE Received \/ Replied \/ ReadPending
  <2>1. ToSet(Cat(heard, answer.data)) = ToSet(heard) \union ToSet(answer.data)
        /\ ToSet(Cat(heard, pending)) = ToSet(heard) \union ToSet(pending)
    BY <1>0, CatSets
  <2> QED BY <1>0, <1>10, <2>1, ReturnsAre, NothingIn DEF ShapeInv
<1>11. CASE CloseSource
  BY <1>0, <1>11, ClosesIs, NothingIn DEF ShapeInv
<1>12. CASE FarSteps
  BY <1>12, ShapeFar
<1> QED BY <1>1, <1>2, <1>3, <1>4, <1>5, <1>6, <1>7, <1>8, <1>9, <1>10, <1>11, <1>12, RestsAre
           DEF SourceNext, OpenStep, Reads

LEMMA PartIn ==
  ASSUME NEW s \in Seq(Items), NEW p \in Seq(Items), NEW q \in Seq(Items), s = Cat(p, q)
  PROVE  ToSet(p) \subseteq ToSet(s) /\ ToSet(q) \subseteq ToSet(s)
BY CatSets

\* Of the commands on their way a part is left, or more comes.
LEMMA CommandCut ==
  ASSUME CommandInv, NEW c \in Seq(Items), NEW q \in Seq(Items), Commands \in Seq(Items), Commands = Cat(c, q),
         Commands' = c, kind = "telnet", conn # 0, UNCHANGED proto, far' = "gone"
  PROVE  CommandInv'
<1>1. Paired(proto.verb, Commands) /\ \A x \in ToSet(Commands) : x.is \in Telnets
  BY DEF CommandInv
<1>2. Paired(proto.verb, c) /\ \A x \in ToSet(c) : x.is \in Telnets
  BY <1>1, PairedPart, PartIn
<1> QED BY <1>2 DEF CommandInv

LEMMA CommandFar ==
  ASSUME ControlInv, ItemInv, FarSteps, kind = "telnet", ~guest
  PROVE  CommandInv'
<1>1. UNCHANGED <<kind, conn, answer>>
  BY FarIs DEF stores
<1>2. /\ inbox \in Seq(Items) /\ answer.chunk \in Seq(Items) /\ Commands \in Seq(Items) /\ ItemTypes
  <2>1. inbox \in Seq(Items) /\ answer.chunk \in Seq(Items) /\ ItemTypes
    BY DEF ItemInv, ItemTypes
  <2> QED BY <2>1, CatIs DEF Commands
<1>3. PICK c \in Seq(Items) : c = answer.chunk
  BY <1>2
<1>4. ASSUME NEW items \in Seq(Items), Adds(items), Answering(items) PROVE CommandInv'
  <2>1. far = "up" /\ conn # 0 /\ inbox' = Cat(inbox, items) /\ proto' = proto
    BY <1>4 DEF Adds
  <2>2. Paired(proto.verb, Commands) /\ Closed(proto.verb, Commands) /\ \A x \in ToSet(Commands) :
          x.is \in Telnets
    BY <2>1 DEF ItemInv, CommandInv
  <2>3. Commands' = Cat(Commands, items)
    <3>1. PICK i \in Seq(Items) : i = inbox
      BY <1>2
    <3>2. Cat(Cat(c, i), items) = Cat(c, Cat(i, items))
      BY CatIs
    <3> QED BY <1>1, <1>3, <2>1, <3>1, <3>2 DEF Commands
  <2>4. /\ \/ Len(items) = 1 /\ items[1].is = "rx"
           \/ Len(items) = 2 /\ items[1].is \in Verbs /\ items[2].is \in Options
        /\ \A x \in ToSet(items) : x.is \in Telnets
    <3>1. CASE items = <<Output(spoke + 1)>>
      <4>1. PICK x : x = Output(spoke + 1)
        OBVIOUS
      <4>2. x.is = "rx"
        BY <4>1 DEF Output
      <4>3. ToSet(items) = {x} /\ Len(items) = 1 /\ items[1] = x
        BY <3>1, <4>1, SetOfOne
      <4> QED BY <4>2, <4>3 DEF Telnets
    <3>2. ASSUME NEW verb \in Verbs, NEW opt \in Options, items = <<Item(verb), Item(opt)>>
          PROVE  /\ \/ Len(items) = 1 /\ items[1].is = "rx"
                    \/ Len(items) = 2 /\ items[1].is \in Verbs /\ items[2].is \in Options
                 /\ \A x \in ToSet(items) : x.is \in Telnets
      <4>1. PICK x, y : x = Item(verb) /\ y = Item(opt)
        OBVIOUS
      <4>2. x.is = verb /\ y.is = opt
        BY <4>1 DEF Item
      <4>3. Len(items) = 2 /\ items[1] = x /\ items[2] = y /\ DOMAIN items = {1, 2}
        BY <3>2, <4>1
      <4>4. ToSet(items) = {x, y}
        BY <4>3 DEF ToSet
      <4> QED BY <4>2, <4>3, <4>4 DEF Telnets
    <3> QED BY <1>4, <3>1, <3>2 DEF Answering
  <2>5. Paired(proto.verb, Commands') /\ Closed(proto.verb, Commands')
    <3>1. PICK s, u \in Seq(Items) : s = Commands /\ u = Cat(s, items)
      BY <1>2, CatIs
    <3> QED BY <2>2, <2>3, <2>4, <3>1, PairedMore
  <2>6. ToSet(Commands') = ToSet(Commands) \union ToSet(items)
    BY <1>2, <2>3, CatSets
  <2> QED BY <2>1, <2>2, <2>4, <2>5, <2>6 DEF CommandInv
<1>5. ASSUME NEW items \in Seq(Items), Broken(items) PROVE CommandInv'
  <2>1. conn # 0 /\ proto' = proto /\ far' = "gone"
    BY <1>5 DEF Broken
  <2>2. inbox' = <<>> \/ \E p, q \in Seq(Items) : inbox = Cat(p, q) /\ inbox' = p
    BY <1>2, <1>5, BrokenAre
  <2>3. CASE inbox' = <<>>
    <3>1. Commands' = c /\ Commands = Cat(c, inbox)
      BY <1>1, <1>3, <2>3, CatNone DEF Commands
    <3> QED BY <1>2, <2>1, <3>1, CommandCut DEF ItemInv
  <2>4. ASSUME NEW p \in Seq(Items), NEW q \in Seq(Items), inbox = Cat(p, q), inbox' = p PROVE CommandInv'
    <3>1. PICK d \in Seq(Items) : d = Cat(c, p)
      BY CatIs
    <3>2. Commands = Cat(d, q) /\ Commands' = d
      <4>1. Cat(Cat(c, p), q) = Cat(c, Cat(p, q))
        BY CatIs
      <4> QED BY <1>1, <1>3, <2>4, <3>1, <4>1 DEF Commands
    <3> QED BY <1>2, <2>1, <3>2, CommandCut DEF ItemInv
  <2> QED BY <2>2, <2>3, <2>4
<1>6. CASE UNCHANGED <<inbox, far, proto>>
  <2>1. Commands' = Commands
    BY <1>1, <1>6 DEF Commands
  <2>2. CommandInv
    BY DEF ItemInv
  <2> QED BY <1>1, <1>6, <2>1, <2>2 DEF CommandInv
<1>7. CASE guest /\ inbox # <<>> /\ UNCHANGED <<far, proto>> /\ inbox' = Tail(inbox)
  BY <1>7
<1> QED BY <1>2, <1>4, <1>5, <1>6, <1>7, FarSpecs

LEMMA CommandKept ==
  ASSUME ControlInv, ItemInv, SourceNext, (guest => kind = "uart")
  PROVE  CommandInv'
<1>0. /\ ItemTypes /\ ShapeInv /\ CommandInv /\ inbox \in Seq(Items) /\ answer.chunk \in Seq(Items)
      /\ Commands \in Seq(Items)
  <2>1. inbox \in Seq(Items) /\ answer.chunk \in Seq(Items) /\ ItemTypes /\ ShapeInv /\ CommandInv
    BY DEF ItemInv, ItemTypes
  <2>2. Commands \in Seq(Items)
    BY <2>1, CatIs DEF Commands
  <2> QED BY <2>1, <2>2
<1>a. ASSUME kind' = kind, kind # "telnet" PROVE CommandInv'
  BY <1>a DEF CommandInv
<1>b. ASSUME UNCHANGED <<kind, conn, far, proto>>, Commands' = Commands PROVE CommandInv'
  BY <1>0, <1>b DEF CommandInv
<1>c. ASSUME conn' = 0 PROVE CommandInv'
  BY <1>c DEF CommandInv
<1>1. CASE \/ OpenUrl \/ OpenSsh \/ OpenTelnet \/ OpenUart \/ FollowUart \/ Dial
  <2>1. inbox' = <<>> /\ answer' = answer /\ kind' = kind /\ manager = "open"
        /\ (kind = "telnet" => proto' = Fresh)
    BY <1>1, ItemsOpen
  <2>2. CASE kind = "telnet"
    <3>1. answer' = NoAnswer
      BY <1>0, <2>1 DEF ShapeInv
    <3>2. Commands' = <<>> /\ proto'.verb = "none"
      BY <2>1, <2>2, <3>1, NothingIn, CatNone, NoneTypes DEF Commands, Fresh
    <3>3. Paired("none", <<>>) /\ Closed("none", <<>>) /\ ToSet(<<>>) = {}
      BY NothingIn DEF Paired, Closed, Expects
    <3> QED BY <3>2, <3>3 DEF CommandInv
  <2> QED BY <1>a, <2>1, <2>2
<1>2. CASE Rests
  BY <1>b, <1>2 DEF Rests, Quiet, Commands
<1>3. CASE ReceiveMore \/ Ingest
  BY <1>0, <1>3, <1>a, TakingIn
<1>4. CASE NoAnswerCame \/ TriedTooSoon \/ Refused
  BY <1>4, <1>a, GivenUp
<1>5. CASE AnswerIsGarbage \/ Accepted
  BY <1>5, <1>a, AnswerRead
<1>6. CASE CollectLine \/ IngestLine
  BY <1>6, <1>a, LineRead
<1>7. CASE ReadUart \/ ReadUrl \/ ReadSsh
  BY <1>0, <1>7, <1>a, GetsIs
<1>8. CASE ReadTelnet
  <2>1. PICK p, q \in Seq(Items) :
          inbox = Cat(p, q) /\ inbox' = q /\ answer' = [chunk |-> p, data |-> <<>>, replies |-> <<>>]
    BY <1>0, <1>8, ReadTelnetIs
  <2>2. manager = "read" /\ UNCHANGED <<kind, conn, far, proto>>
    BY <1>0, <1>8, ReadTelnetIs
  <2>3. Commands = inbox
    BY <1>0, <2>2, NothingIn, CatNone DEF ShapeInv, Commands
  <2> QED BY <1>b, <2>1, <2>2, <2>3 DEF Commands
<1>9. CASE Receive
  <2>1. PICK x \in Items, rest \in Seq(Items) :
          Commands = Cat(<<x>>, Commands') /\ Taking(x, rest) /\ Commands' \in Seq(Items)
    BY <1>9, ReceiveIs
  <2>2. kind = "telnet" /\ conn # 0 /\ UNCHANGED <<kind, conn, far>>
    BY <1>9, ReceiveIs DEF linkVars
  <2>3. Paired(proto.verb, Commands) /\ (far = "up" => Closed(proto.verb, Commands))
        /\ \A y \in ToSet(Commands) : y.is \in Telnets
    BY <1>0, <2>2 DEF CommandInv
  <2>4. PICK s, t \in Seq(Items) : s = Commands /\ t = Commands'
    BY <1>0, <2>1
  <2>5. proto'.verb = IF x.is \in Verbs THEN x.is ELSE "none"
    <3>1. CASE proto.verb # "none" /\ x.is \in Options
      <4>1. proto' = Answered(proto, x.is).proto
        BY <2>1, <3>1 DEF Taking, Verbs, Options
      <4>2. proto'.verb = "none"
        BY <1>0, <3>1, <4>1, AnsweredIs DEF ItemTypes
      <4> QED BY <3>1, <4>2 DEF Verbs, Options
    <3>2. CASE proto.verb = "none" /\ x.is \in Verbs
      <4>1. proto' = [proto EXCEPT !.verb = x.is]
        BY <2>1, <3>2 DEF Taking, Verbs, Options
      <4> QED BY <1>0, <3>2, <4>1 DEF ItemTypes, Proto
    <3>3. CASE proto.verb = "none" /\ x.is = "rx"
      BY <2>1, <3>3 DEF Taking, Verbs
    <3> QED BY <2>1, <3>1, <3>2, <3>3 DEF Taking
  <2>6. Paired(proto'.verb, t) /\ (Closed(proto.verb, s) => Closed(proto'.verb, t))
    BY <2>1, <2>3, <2>4, <2>5, PairedTail
  <2>7. ToSet(t) \subseteq ToSet(s)
    <3>1. PICK l \in Seq(Items) : l = <<x>>
      BY OneOf
    <3> QED BY <2>1, <2>4, <3>1, PartIn
  <2> QED BY <2>2, <2>3, <2>4, <2>6, <2>7 DEF CommandInv
<1>10. CASE Received \/ Replied \/ ReadPending
  <2>1. UNCHANGED <<inbox, kind, conn, far, proto>>
    BY <1>0, <1>10, ReturnsAre
  <2>2. kind = "telnet" => answer'.chunk = answer.chunk
    BY <1>0, <1>10, ReturnsAre, NothingIn DEF ShapeInv
  <2> QED BY <1>a, <1>b, <2>1, <2>2 DEF Commands
<1>11. CASE CloseSource
  BY <1>11, <1>c, ClosesIs
<1>12. CASE FarSteps
  <2>1. kind' = kind
    BY <1>12, FarIs
  <2> QED BY <1>12, <1>a, <2>1, CommandFar
<1> QED BY <1>1, <1>2, <1>3, <1>4, <1>5, <1>6, <1>7, <1>8, <1>9, <1>10, <1>11, <1>12, RestsAre
           DEF SourceNext, OpenStep, Reads

LEMMA ItemKept ==
  ASSUME ControlInv, UartInv, ItemInv, SourceNext
  PROVE  ItemInv'
<1>1. ItemTypes'
  BY ItemsKept, ItemsReceive DEF ItemInv
<1> QED BY <1>1, ShapeKept, CommandKept DEF ItemInv, UartInv

-----------------------------------------------------------------------------
(* Who writes *)

Active(t) == sending[t].at \in {"checked", "sending"}
Writing == [at : {"idle", "checked", "sending", "done", "failed"}, rest : Seq(Words), id : Nat,
                  on : 0..MaxConns]

SendTypes ==
  /\ sending \in [Threads -> Writing]
  /\ wire \in Seq(Sent) /\ began \subseteq Nat \X (0..MaxConns) /\ writes \in Nat /\ raised \subseteq Nat

\* The three ways in which a writer changes, and the one in which it also adds to the wire.
Becomes(t, state) == sending' = [sending EXCEPT ![t] = state]
Begun(t, units) ==
  /\ sending[t].at = "idle" /\ writes' = writes + 1 /\ UNCHANGED <<wire, began, raised>>
  /\ Becomes(t, [at |-> "checked", rest |-> units, id |-> writes + 1, on |-> 0])
Ends(t) ==
  /\ UNCHANGED <<wire, began, writes>>
  /\ \/ sending[t].at \in {"done", "failed"} /\ Becomes(t, Idle) /\ raised' = raised
     \/ /\ Active(t) /\ Becomes(t, [sending[t] EXCEPT !.at = "failed"])
        /\ raised' = IF sending[t].at = "sending" THEN raised \union {sending[t].id} ELSE raised
TakesHold(t) ==
  /\ sending[t].at = "checked" /\ conn # 0 /\ MaySend(t) /\ UNCHANGED <<wire, writes, raised>>
  /\ Becomes(t, [sending[t] EXCEPT !.at = "sending", !.on = conn])
  /\ began' = began \union {<<sending[t].id, conn>>}
SendsOne(t) ==
  /\ sending[t].at = "sending" /\ (sending[t].on = conn \/ (kind = "ssh" /\ conn # 0))
  /\ UNCHANGED <<began, writes, raised>>
  /\ \E unit \in Words, rest \in Seq(Words), state \in Writing :
       /\ sending[t].rest = Cat(<<unit>>, rest)
       /\ Becomes(t, state)
       /\ state.at = IF rest = <<>> THEN "done" ELSE "sending"
       /\ state.rest = rest /\ state.id = sending[t].id /\ state.on = conn
       /\ wire' = Append(wire, [id |-> sending[t].id, is |-> unit.is, opt |-> unit.opt])

WriterForms ==
  \/ \E t \in Threads : (Ends(t) /\ (t = "conn" => sending'[t].at = "failed")) \/ TakesHold(t) \/ SendsOne(t)
  \/ \E t \in {"ui", "pty"}, is \in {"data", "resize"} : Begun(t, Units(is))
  \/ manager = "reply" /\ answer.replies # <<>> /\ Begun("conn", answer.replies)

LEMMA WritersForm ==
  ASSUME ControlInv, SendTypes, WriterSteps,
         \A t \in Threads : sending[t].at = "sending" => sending[t].rest # <<>> /\ sending[t].on # 0
  PROVE  WriterForms
<1>0. \A t \in Threads : sending[t] \in Writing
  BY DEF SendTypes
<1>1. CASE BeginReply
  BY <1>1 DEF BeginReply, Begins, Sends, WriterForms, Begun, Becomes
<1>2. CASE BeginResize \/ BeginWrite("ui") \/ BeginWrite("pty")
  <2>1. \E t \in {"ui", "pty"}, is \in {"data", "resize"} : Begins(t, Units(is))
    BY <1>2 DEF BeginResize, BeginWrite
  <2>2. \E t \in {"ui", "pty"}, is \in {"data", "resize"} : Begun(t, Units(is))
    BY <2>1 DEF Begins, Sends, Begun, Becomes
  <2> QED BY <2>2 DEF WriterForms
<1>3. CASE WriteReturns
           \/ (sending["pty"].at \in {"done", "failed"} /\ Sends("pty", Idle)
              /\ UNCHANGED <<wire, writes, began, raised>>)
  <2>1. \E t \in {"ui", "pty"} : Ends(t)
    BY <1>3 DEF WriteReturns, Sends, Ends, Becomes
  <2> QED BY <2>1 DEF WriterForms, Threads
<1>4. ASSUME NEW t \in Threads, WriteRefused(t) \/ SendRaises(t) PROVE Ends(t) /\ sending'[t].at = "failed"
  <2>1. Ends(t) /\ Becomes(t, [sending[t] EXCEPT !.at = "failed"])
    BY <1>4 DEF WriteRefused, SendRaises, Sends, Ends, Active, Becomes
  <2> QED BY <1>0, <2>1 DEF Becomes, SendTypes, Writing
<1>5. ASSUME NEW t \in Threads, TakeLink(t) PROVE TakesHold(t)
  BY <1>5 DEF TakeLink, Refuses, Sends, TakesHold, Becomes
<1>6. ASSUME NEW t \in Threads, SendSome(t) \/ SendOnReused(t) PROVE SendsOne(t)
  <2>1. SendUnit(t) /\ (sending[t].on = conn \/ (kind = "ssh" /\ conn # 0))
    BY <1>6 DEF SendSome, SendOnReused
  <2>2. PICK s \in Writing : s = sending[t]
    BY <1>0
  <2>3. s.at = "sending" /\ s.rest # <<>> /\ s.rest \in Seq(Words)
    BY <2>1, <2>2 DEF SendUnit, Writing
  <2>4. PICK unit \in Words, rest \in Seq(Words) :
          unit = Head(s.rest) /\ rest = Tail(s.rest) /\ s.rest = Cat(<<unit>>, rest)
    BY <2>3, SetOfTail DEF Cat
  <2>5. Len(s.rest) = 1 <=> rest = <<>>
    <3>1. PICK l \in Seq(Words) : l = <<unit>> /\ Len(l) = 1
      BY OneOf
    <3>2. Len(l \o rest) = Len(l) + Len(rest) /\ Len(rest) \in Nat
      OBVIOUS
    <3>3. Len(s.rest) = 1 + Len(rest)
      BY <2>4, <3>1, <3>2 DEF Cat
    <3> QED BY <3>2, <3>3
  <2>6. PICK state :
          state = [s EXCEPT !.rest = Tail(@), !.on = conn, !.at = IF Len(s.rest) = 1 THEN "done" ELSE "sending"]
    OBVIOUS
  <2>7. conn \in 0..MaxConns
    BY DEF ControlInv, LinkTypes
  <2>8. /\ state \in Writing /\ state.rest = rest /\ state.id = s.id /\ state.on = conn
        /\ state.at = IF rest = <<>> THEN "done" ELSE "sending"
    BY <2>2, <2>4, <2>5, <2>6, <2>7 DEF Writing
  <2>9. /\ Becomes(t, state)
        /\ wire' = Append(wire, [id |-> s.id, is |-> unit.is, opt |-> unit.opt])
        /\ UNCHANGED <<began, writes, raised>>
    BY <2>1, <2>2, <2>4, <2>6 DEF SendUnit, Sends, Becomes
  <2> QED BY <2>1, <2>2, <2>3, <2>4, <2>8, <2>9 DEF SendsOne
<1>7. ASSUME NEW t \in Threads, WriteStep(t)
      PROVE  (Ends(t) /\ sending'[t].at = "failed") \/ TakesHold(t) \/ SendsOne(t)
  BY <1>4, <1>5, <1>6, <1>7 DEF WriteStep
<1> QED BY <1>1, <1>2, <1>3, <1>7 DEF WriterSteps, WriterForms

\* A write that has not ended has units left, and a number and, when it sends, a connection of its own.
SendInv ==
  /\ SendTypes
  /\ \A t \in Threads : Active(t) => sending[t].rest # <<>> /\ 0 < sending[t].id /\ sending[t].id <= writes
  /\ \A t \in Threads : sending[t].at = "done" => sending[t].rest = <<>>
  /\ \A t \in Threads : sending[t].at = "sending" => sending[t].on # 0
  /\ \A t \in Threads : sending[t].at = "sending" /\ kind # "ssh" => <<sending[t].id, sending[t].on>> \in began
  /\ \A t \in Threads :
       t # "conn" => \A i \in 1..Len(sending[t].rest) : sending[t].rest[i].is \in {"data", "resize"}
  /\ sending["conn"].at # "idle" => manager = "reply"
  /\ \A t, u \in Threads : t # u /\ Active(t) /\ Active(u) => sending[t].id # sending[u].id
  /\ \A t, u \in Threads : kind = "socket" /\ sending[t].at = "sending" /\ sending[u].at = "sending" => t = u

\* What the session's thread does to what is written: nothing, for the most part.
Opened ==
  /\ wire' = <<>> /\ greeted' = FALSE /\ made' = made + 1
  /\ UNCHANGED <<began, raised, writes, sending, kind>>
  /\ manager = "open" /\ manager' # "reply"
Greets ==
  /\ manager = "hello" /\ manager' = "answer"
  /\ wire' = Append(wire, [id |-> 0, is |-> "hello", opt |-> "none"])
  /\ UNCHANGED <<began, raised, writes, sending, kind, greeted, made>> /\ kind = "socket"
Apart ==
  /\ UNCHANGED <<began, raised, writes, wire, kind, greeted, made>>
  /\ \/ sending' = sending /\ manager # "reply" /\ manager' # "hello"
     \/ /\ manager = "reply" /\ manager' # "hello" /\ sending["conn"].at \in {"done", "failed"}
        /\ Becomes("conn", Idle)
        /\ kind = "telnet" /\ (sending["conn"].at = "failed" => manager' = "close")

LEMMA Thread ==
  ASSUME ControlInv, OpenStep \/ Reads \/ ReadTelnet \/ Receive \/ Ingest \/ IngestLine \/ Ingested
                     \/ ReadRaises \/ CloseSource \/ Retry
  PROVE  Opened \/ Greets \/ Apart
<1>1. CASE \/ OpenUrl \/ OpenSsh \/ OpenTelnet \/ OpenUart \/ FollowUart \/ Dial
  <2>1. wire' = <<>> /\ greeted' = FALSE /\ kind' = kind /\ manager = "open"
        /\ manager' \in {"read", "claim", "hello"}
    BY <1>1, ItemsOpen
  <2>2. UNCHANGED <<began, raised, writes, sending>> /\ made' = made + 1
    BY <1>1 DEF OpenUrl, OpenSsh, OpenTelnet, Opens, OpenUart, FollowUart, FollowsTo, OpenAt, Dial, Connects,
                ghosts
  <2> QED BY <2>1, <2>2 DEF Opened
<1>2. CASE SayHello
  BY <1>2 DEF SayHello, Goes, Greets, ghosts, ControlInv, PlaceInv
<1>3. CASE Claim \/ OpenAgain \/ FollowInVain \/ OpenRaises \/ ReceiveMore
  BY <1>3 DEF Claim, OpenAgain, FollowInVain, FollowsTo, OpenRaises, Botch, ReceiveMore, Goes, Apart,
              linkVars, ghosts
<1>4. CASE NoAnswerCame \/ TriedTooSoon \/ AnswerIsGarbage \/ Refused \/ Accepted
  BY <1>4 DEF NoAnswerCame, TriedTooSoon, GiveUp, AnswerIsGarbage, Botch, Refused, Accepted, Drops, Leaves,
     Goes, Apart,
              linkVars, ghosts
<1>5. CASE CollectLine \/ CollectNoMore
  BY <1>5 DEF CollectLine, CollectNoMore, Goes, Apart, linkVars, ghosts
<1>6. CASE ReadUart \/ ReadUrl \/ ReadSsh \/ ReadPending \/ ReadTelnet \/ Receive
  BY <1>6 DEF ReadUart, ReadUrl, ReadSsh, Gets, ReadPending, ReadTelnet, Receive, Goes, Apart, linkVars, ghosts
<1>7. CASE Received
  BY <1>7 DEF Received, Goes, Apart, linkVars
<1>8. CASE Replied
  BY <1>8 DEF Replied, Becomes, Apart, linkVars, ControlInv, PlaceInv
<1>9. CASE Ingest \/ IngestLine \/ Ingested \/ ReadRaises \/ CloseSource \/ Retry
  BY <1>9 DEF Ingest, IngestLine, Ingested, ReadRaises, CloseSource, Drops, Leaves, Retry, Goes, Apart,
     linkVars, ghosts
<1> QED BY <1>1, <1>2, <1>3, <1>4, <1>5, <1>6, <1>7, <1>8, <1>9 DEF OpenStep, Reads

LEMMA UnitsAre ==
  ASSUME NEW is \in {"data", "resize"}
  PROVE  /\ Units(is) \in Seq(Words) /\ Units(is) # <<>>
         /\ \A i \in 1..Len(Units(is)) : Units(is)[i].is \in {"data", "resize"} /\ ~OnNaws(Units(is)[i])
<1>1. PICK u : u = [is |-> is, opt |-> "none"]
  OBVIOUS
<1>2. u \in Words /\ u.is \in {"data", "resize"} /\ u.opt = "none"
  BY <1>1 DEF Words
<1>3. ~OnNaws(u)
  BY <1>2 DEF OnNaws
<1>4. Units(is) = <<u, u>>
  BY <1>1 DEF Units
<1>5. <<u, u>> \in Seq(Words) /\ <<u, u>> # <<>> /\ \A i \in 1..Len(<<u, u>>) : <<u, u>>[i] = u
  BY <1>2
<1> QED BY <1>2, <1>3, <1>4, <1>5

\* Another state of one writer, when it keeps what the others must know of it.
LEMMA SendBecomes ==
  ASSUME SendInv, NEW t \in Threads, NEW state \in Writing, Becomes(t, state), kind' = kind,
         wire' \in Seq(Sent), began' \subseteq Nat \X (0..MaxConns), writes' \in Nat, writes <= writes',
         began \subseteq began', raised' \subseteq Nat,
         state.at \in {"checked", "sending"} =>
           /\ state.rest # <<>> /\ 0 < state.id /\ state.id <= writes'
           /\ (Active(t) /\ state.id = sending[t].id) \/ writes < state.id,
         state.at = "done" => state.rest = <<>>,
         state.at = "sending" =>
           /\ state.on # 0
           /\ kind # "ssh" => <<state.id, state.on>> \in began'
           /\ kind = "socket" => \A u \in Threads \ {t} : sending[u].at # "sending",
         t # "conn" => \A i \in 1..Len(state.rest) : state.rest[i].is \in {"data", "resize"},
         sending["conn"].at # "idle" /\ t # "conn" => manager' = "reply",
         t = "conn" /\ state.at # "idle" => manager' = "reply"
  PROVE  SendInv'
<1>1. \A u \in Threads : sending'[u] = IF u = t THEN state ELSE sending[u]
  BY DEF Becomes, SendInv, SendTypes
<1>2. SendTypes'
  BY DEF Becomes, SendInv, SendTypes
<1>3. \A u \in Threads :
        Active(u)' => sending'[u].rest # <<>> /\ 0 < sending'[u].id /\ sending'[u].id <= writes'
  <2> TAKE u \in Threads
  <2> HAVE Active(u)'
  <2>1. CASE u = t
    BY <1>1, <2>1 DEF Active
  <2>2. CASE u # t
    <3>1. Active(u) /\ sending'[u] = sending[u] /\ writes \in Nat /\ sending[u].id \in Nat
      BY <1>1, <2>2 DEF Active, SendInv, SendTypes, Writing
    <3>2. sending[u].rest # <<>> /\ 0 < sending[u].id /\ sending[u].id <= writes
      BY <3>1 DEF SendInv
    <3> QED BY <3>1, <3>2
  <2> QED BY <2>1, <2>2
<1>4. \A u \in Threads : sending'[u].at = "done" => sending'[u].rest = <<>>
  BY <1>1 DEF SendInv
<1>5. \A u \in Threads : sending'[u].at = "sending" => sending'[u].on # 0
  BY <1>1 DEF SendInv
<1>6. \A u \in Threads :
        sending'[u].at = "sending" /\ kind' # "ssh" => <<sending'[u].id, sending'[u].on>> \in began'
  BY <1>1 DEF SendInv
<1>7. \A u \in Threads :
        u # "conn" => \A i \in 1..Len(sending'[u].rest) : sending'[u].rest[i].is \in {"data", "resize"}
  BY <1>1 DEF SendInv
<1>8. sending'["conn"].at # "idle" => manager' = "reply"
  BY <1>1 DEF Threads
<1>9. \A u, v \in Threads : u # v /\ Active(u)' /\ Active(v)' => sending'[u].id # sending'[v].id
  <2>1. ASSUME NEW u \in Threads, u # t, Active(u), state.at \in {"checked", "sending"}
        PROVE  sending[u].id # state.id
    <3>1. CASE Active(t) /\ state.id = sending[t].id
      BY <2>1, <3>1 DEF SendInv
    <3>2. CASE writes < state.id
      <4>1. sending[u].id <= writes /\ sending[u].id \in Nat /\ state.id \in Nat /\ writes \in Nat
        BY <2>1 DEF SendInv, SendTypes, Writing
      <4> QED BY <3>2, <4>1
    <3> QED BY <2>1, <3>1, <3>2
  <2>2. \A u \in Threads : Active(u)' <=> IF u = t THEN state.at \in {"checked", "sending"} ELSE Active(u)
    BY <1>1 DEF Active
  <2>3. \A u, v \in Threads : u # v /\ Active(u) /\ Active(v) => sending[u].id # sending[v].id
    BY DEF SendInv
  <2> QED BY <1>1, <2>1, <2>2, <2>3
<1>10. \A u, v \in Threads :
         kind' = "socket" /\ sending'[u].at = "sending" /\ sending'[v].at = "sending" => u = v
  <2>1. \A u, v \in Threads : kind = "socket" /\ sending[u].at = "sending" /\ sending[v].at = "sending" => u = v
    BY DEF SendInv
  <2> QED BY <1>1, <2>1
<1> QED BY <1>2, <1>3, <1>4, <1>5, <1>6, <1>7, <1>8, <1>9, <1>10 DEF SendInv

LEMMA IdleIs == Idle \in Writing /\ Idle.at = "idle" /\ Idle.rest = <<>>
<1>1. <<>> \in Seq(Words) /\ 0 \in Nat /\ 0 \in 0..MaxConns
  OBVIOUS
<1> QED BY <1>1 DEF Idle, Writing

LEMMA SendEnds ==
  ASSUME SendInv, NEW t \in Threads, Ends(t),
         UNCHANGED <<kind, manager>>
           \/ (t = "conn" /\ sending[t].at \in {"done", "failed"} /\ Becomes(t, Idle) /\ kind' = kind)
  PROVE  SendInv'
<1>1. SendTypes /\ sending[t] \in Writing
  BY DEF SendInv, SendTypes
<1>2. /\ wire' \in Seq(Sent) /\ began' \subseteq Nat \X (0..MaxConns) /\ writes' \in Nat /\ writes <= writes'
      /\ began \subseteq began' /\ raised' \subseteq Nat
      /\ kind' = kind
  BY <1>1 DEF SendTypes, Ends, Writing
<1>3. CASE Becomes(t, Idle)
  <2>1. /\ Idle.at \notin {"checked", "sending", "done"}
        /\ t # "conn" => \A i \in 1..Len(Idle.rest) : Idle.rest[i].is \in {"data", "resize"}
    BY IdleIs
  <2>2. sending["conn"].at # "idle" /\ t # "conn" => manager' = "reply"
    BY DEF SendInv
  <2> QED BY <1>2, <1>3, <2>1, <2>2, IdleIs, SendBecomes
<1>4. ASSUME Active(t), Becomes(t, [sending[t] EXCEPT !.at = "failed"]) PROVE SendInv'
  <2>1. PICK state : state = [sending[t] EXCEPT !.at = "failed"]
    OBVIOUS
  <2>2. state \in Writing /\ state.at = "failed" /\ state.rest = sending[t].rest
    BY <1>1, <2>1 DEF Writing
  <2>3. t # "conn" => \A i \in 1..Len(state.rest) : state.rest[i].is \in {"data", "resize"}
    BY <2>2 DEF SendInv
  <2>4. /\ sending["conn"].at # "idle" /\ t # "conn" => manager' = "reply"
        /\ t = "conn" => manager' = "reply"
    BY <1>4 DEF SendInv, Active
  <2>5. Becomes(t, state)
    BY <1>4, <2>1
  <2> QED BY <1>2, <2>2, <2>3, <2>4, <2>5, SendBecomes
<1> QED BY <1>3, <1>4 DEF Ends

LEMMA SendBegins ==
  ASSUME SendInv, NEW t \in Threads, NEW units \in Seq(Words), units # <<>>, Begun(t, units),
         UNCHANGED <<kind, manager>>,
         IF t = "conn" THEN manager = "reply" ELSE \A i \in 1..Len(units) : units[i].is \in {"data", "resize"}
  PROVE  SendInv'
<1>1. SendTypes /\ writes \in Nat
  BY DEF SendInv, SendTypes
<1>2. /\ wire' \in Seq(Sent) /\ began' \subseteq Nat \X (0..MaxConns) /\ writes' = writes + 1
      /\ began \subseteq began' /\ raised' \subseteq Nat
  BY <1>1 DEF SendTypes, Begun
<1>3. PICK state : state = [at |-> "checked", rest |-> units, id |-> writes + 1, on |-> 0]
  OBVIOUS
<1>4. state \in Writing /\ state.at = "checked" /\ state.rest = units /\ state.id = writes + 1
  <2>1. writes + 1 \in Nat /\ 0 \in 0..MaxConns
    BY <1>1
  <2> QED BY <1>3, <2>1 DEF Writing
<1>5. Becomes(t, state)
  BY <1>3 DEF Begun
<1>6. sending["conn"].at # "idle" /\ t # "conn" => manager' = "reply"
  BY DEF SendInv
<1>7. writes' \in Nat /\ writes <= writes' /\ 0 < state.id /\ state.id <= writes' /\ writes < state.id
  BY <1>1, <1>2, <1>4
<1> QED BY <1>2, <1>4, <1>5, <1>6, <1>7, SendBecomes

LEMMA SendTakes ==
  ASSUME ControlInv, SendInv, NEW t \in Threads, TakesHold(t), UNCHANGED <<kind, manager>>
  PROVE  SendInv'
<1>1. SendTypes /\ writes \in Nat /\ sending[t] \in Writing /\ conn \in 0..MaxConns /\ sending[t].id \in Nat
  BY DEF SendInv, SendTypes, Writing, ControlInv, LinkTypes
<1>2. /\ wire' \in Seq(Sent) /\ began' \subseteq Nat \X (0..MaxConns) /\ writes' = writes
      /\ began \subseteq began' /\ raised' \subseteq Nat
      /\ <<sending[t].id, conn>> \in began' /\ conn # 0
  BY <1>1 DEF SendTypes, TakesHold
<1>3. PICK state : state = [sending[t] EXCEPT !.at = "sending", !.on = conn]
  OBVIOUS
<1>4. state \in Writing /\ state.at = "sending" /\ state.rest = sending[t].rest /\ state.id = sending[t].id
      /\ state.on = conn
  BY <1>1, <1>3 DEF Writing
<1>5. Becomes(t, state) /\ sending[t].at = "checked" /\ Active(t)
  BY <1>3 DEF TakesHold, Active
<1>6. /\ sending["conn"].at # "idle" => manager' = "reply"
      /\ t # "conn" => \A i \in 1..Len(state.rest) : state.rest[i].is \in {"data", "resize"}
      /\ state.rest # <<>> /\ 0 < state.id /\ state.id <= writes
  BY <1>4, <1>5 DEF SendInv
<1>7. kind = "socket" => \A u \in Threads \ {t} : sending[u].at # "sending"
  BY DEF TakesHold, MaySend
<1>8. t = "conn" => sending["conn"].at # "idle"
  BY <1>5
<1> QED BY <1>1, <1>2, <1>4, <1>5, <1>6, <1>7, <1>8, SendBecomes, SMTT(40)

LEMMA SendSends ==
  ASSUME ControlInv, SendInv, NEW t \in Threads, SendsOne(t), UNCHANGED <<kind, manager>>
  PROVE  SendInv'
<1>1. SendTypes /\ writes \in Nat /\ sending[t] \in Writing /\ conn \in 0..MaxConns /\ sending[t].id \in Nat
  BY DEF SendInv, SendTypes, Writing, ControlInv, LinkTypes
<1>2. PICK unit \in Words, rest \in Seq(Words), state \in Writing :
       /\ sending[t].rest = Cat(<<unit>>, rest)
       /\ Becomes(t, state)
       /\ state.at = IF rest = <<>> THEN "done" ELSE "sending"
       /\ state.rest = rest /\ state.id = sending[t].id /\ state.on = conn
       /\ wire' = Append(wire, [id |-> sending[t].id, is |-> unit.is, opt |-> unit.opt])
  BY DEF SendsOne
<1>3. sending[t].at = "sending" /\ Active(t) /\ (sending[t].on = conn \/ (kind = "ssh" /\ conn # 0))
      /\ UNCHANGED <<began, writes, raised>>
  BY DEF SendsOne, Active
<1>4. wire' \in Seq(Sent) /\ began' \subseteq Nat \X (0..MaxConns) /\ raised' \subseteq Nat
  <2>1. [id |-> sending[t].id, is |-> unit.is, opt |-> unit.opt] \in Sent
    BY <1>1 DEF Sent, Words
  <2>2. wire' \in Seq(Sent)
    BY <1>1, <1>2, <2>1, AppendProperties DEF SendTypes
  <2> QED BY <1>1, <1>3, <2>2 DEF SendTypes
<1>5. sending[t].on # 0 /\ (kind # "ssh" => <<sending[t].id, sending[t].on>> \in began)
      /\ 0 < sending[t].id /\ sending[t].id <= writes
  BY <1>3 DEF SendInv
<1>6. state.at = "sending" => rest # <<>> /\ state.on # 0
  <2>1. conn # 0
    BY <1>3, <1>5
  <2> QED BY <1>2, <2>1
<1>7. state.at = "sending" =>
        /\ state.rest # <<>> /\ 0 < state.id /\ state.id <= writes' /\ state.id = sending[t].id
        /\ state.on # 0
        /\ kind # "ssh" => <<state.id, state.on>> \in began'
  BY <1>2, <1>3, <1>5, <1>6
<1>8. kind = "socket" => \A u \in Threads \ {t} : sending[u].at # "sending"
  BY <1>3 DEF SendInv
<1>9. t # "conn" => \A i \in 1..Len(state.rest) : state.rest[i].is \in {"data", "resize"}
  <2> SUFFICES ASSUME t # "conn", NEW i \in 1..Len(rest) PROVE rest[i].is \in {"data", "resize"}
    BY <1>2
  <2>1. PICK l \in Seq(Words) : l = <<unit>> /\ Len(l) = 1
    BY OneOf
  <2>2. /\ Len(l \o rest) = Len(l) + Len(rest) /\ Len(rest) \in Nat
        /\ \A j \in 1..Len(rest) : (l \o rest)[Len(l) + j] = rest[j]
    OBVIOUS
  <2>3. sending[t].rest = l \o rest
    BY <1>2, <2>1 DEF Cat
  <2>4. 1 + i \in 1..Len(sending[t].rest) /\ sending[t].rest[1 + i] = rest[i]
    BY <2>1, <2>2, <2>3
  <2> QED BY <2>4 DEF SendInv
<1>10. state.at \in {"done", "sending"} /\ (state.at = "done" => state.rest = <<>>)
  BY <1>2
<1>11. /\ sending["conn"].at # "idle" => manager' = "reply"
       /\ t = "conn" => sending["conn"].at # "idle"
  BY <1>3 DEF SendInv
<1>12. writes' \in Nat /\ writes <= writes' /\ began \subseteq began' /\ kind' = kind
  BY <1>1, <1>3
<1> QED BY <1>2, <1>3, <1>4, <1>7, <1>8, <1>9, <1>10, <1>11, <1>12, SendBecomes

LEMMA SendKept ==
  ASSUME ControlInv, ItemInv, SendInv, SourceNext
  PROVE  SendInv'
<1>1. ASSUME UNCHANGED <<sending, began, raised, writes, kind>>, manager' = manager \/ manager # "reply",
             wire' \in Seq(Sent)
      PROVE  SendInv'
  BY <1>1 DEF SendInv, SendTypes, Active
<1>2. SendTypes /\ answer.replies \in Seq(Words) /\ "conn" \in Threads
  BY DEF SendInv, ItemInv, ItemTypes, Threads
<1>3. CASE Opened \/ Greets
  <2>1. wire' \in Seq(Sent)
    <3>1. <<>> \in Seq(Sent)
      OBVIOUS
    <3>2. [id |-> 0, is |-> "hello", opt |-> "none"] \in Sent
      BY DEF Sent
    <3>3. Append(wire, [id |-> 0, is |-> "hello", opt |-> "none"]) \in Seq(Sent)
      BY <1>2, <3>2, AppendProperties DEF SendTypes
    <3> QED BY <1>3, <3>1, <3>3 DEF Opened, Greets
  <2> QED BY <1>1, <1>3, <2>1 DEF Opened, Greets
<1>4. CASE Apart
  <2>1. CASE sending' = sending /\ manager # "reply"
    BY <1>1, <1>2, <1>4, <2>1 DEF Apart, SendTypes
  <2>2. CASE sending["conn"].at \in {"done", "failed"} /\ Becomes("conn", Idle)
    BY <1>2, <1>4, <2>2, SendEnds DEF Apart, Ends
  <2> QED BY <1>4, <2>1, <2>2 DEF Apart
<1>5. CASE FarSteps
  BY <1>1, <1>2, <1>5, FarIs DEF SendTypes
<1>6. CASE WriterSteps
  <2>1. WriterForms /\ UNCHANGED <<kind, manager>>
    BY <1>2, <1>6, WritersForm, WritersAre DEF SendInv, Active
  <2>2. ASSUME NEW t \in Threads, Ends(t) \/ TakesHold(t) \/ SendsOne(t) PROVE SendInv'
    BY <2>1, <2>2, SendEnds, SendTakes, SendSends
  <2>3. ASSUME NEW t \in {"ui", "pty"}, NEW is \in {"data", "resize"}, Begun(t, Units(is)) PROVE SendInv'
    BY <2>1, <2>3, SendBegins, UnitsAre DEF Threads
  <2>4. ASSUME manager = "reply", answer.replies # <<>>, Begun("conn", answer.replies) PROVE SendInv'
    BY <1>2, <2>1, <2>4, SendBegins
  <2> QED BY <2>1, <2>2, <2>3, <2>4 DEF WriterForms
<1> QED BY <1>3, <1>4, <1>5, <1>6, Thread DEF SourceNext

-----------------------------------------------------------------------------
(* What is on the wire *)

HelloInv ==
  /\ \A i \in 1..Len(wire) : wire[i].is = "hello" <=> wire[i].id = 0
  /\ \A i, j \in 1..Len(wire) : wire[i].id = 0 /\ wire[j].id = 0 => i = j
  /\ manager = "hello" => ~greeted /\ \A i \in 1..Len(wire) : wire[i].id # 0
  /\ greeted => wire # <<>> /\ wire[1].id = 0

Grows(unit) ==
  /\ Len(wire) \in Nat /\ Len(wire') = Len(wire) + 1
  /\ wire'[Len(wire) + 1] = unit /\ \A i \in 1..Len(wire) : wire'[i] = wire[i]
  /\ \A i \in 1..Len(wire') : i \in 1..Len(wire) \/ i = Len(wire) + 1

LEMMA AppendGrows ==
  ASSUME SendTypes, NEW unit \in Sent, wire' = Append(wire, unit)
  PROVE  Grows(unit)
<1>1. wire \in Seq(Sent)
  BY DEF SendTypes
<1>2. /\ Len(wire) \in Nat /\ Len(wire') = Len(wire) + 1
      /\ wire'[Len(wire) + 1] = unit /\ \A i \in 1..Len(wire) : wire'[i] = wire[i]
  BY <1>1, AppendProperties
<1> QED BY <1>2 DEF Grows

\* A unit sent is one of the writer's.
LEMMA SentIs ==
  ASSUME ControlInv, SendInv, NEW t \in Threads, SendsOne(t)
  PROVE  \E unit \in Words, rest \in Seq(Words), state \in Writing, sent \in Sent :
           /\ sending[t].rest = Cat(<<unit>>, rest)
           /\ sent = [id |-> sending[t].id, is |-> unit.is, opt |-> unit.opt]
           /\ wire' = Append(wire, sent) /\ Grows(sent)
           /\ sent.id = sending[t].id /\ 0 < sent.id /\ sent.id <= writes /\ sent.is # "hello"
           /\ sent.is = unit.is /\ sent.opt = unit.opt
           /\ kind # "ssh" => <<sent.id, made>> \in began
           /\ state.at = (IF rest = <<>> THEN "done" ELSE "sending") /\ state.rest = rest
           /\ state.id = sending[t].id
           /\ \A u \in Threads : sending'[u] = IF u = t THEN state ELSE sending[u]
<1>1. PICK unit \in Words, rest \in Seq(Words), state \in Writing :
       /\ sending[t].rest = Cat(<<unit>>, rest)
       /\ Becomes(t, state)
       /\ state.at = IF rest = <<>> THEN "done" ELSE "sending"
       /\ state.rest = rest /\ state.id = sending[t].id /\ state.on = conn
       /\ wire' = Append(wire, [id |-> sending[t].id, is |-> unit.is, opt |-> unit.opt])
  BY DEF SendsOne
<1>2. sending[t].at = "sending" /\ Active(t) /\ (sending[t].on = conn \/ kind = "ssh")
  BY DEF SendsOne, Active
<1>3. SendTypes /\ sending[t] \in Writing /\ sending[t].id \in Nat
  BY DEF SendInv, SendTypes, Writing
<1>4. PICK sent \in Sent : sent = [id |-> sending[t].id, is |-> unit.is, opt |-> unit.opt]
  BY <1>3 DEF Sent, Words
<1>5. wire' = Append(wire, sent) /\ Grows(sent)
  BY <1>1, <1>3, <1>4, AppendGrows
<1>6. sent.id = sending[t].id /\ 0 < sent.id /\ sent.id <= writes /\ sent.is = unit.is /\ sent.opt = unit.opt
  BY <1>2, <1>4 DEF SendInv
<1>7. sent.is # "hello"
  BY <1>6 DEF Words, Verbs
<1>8. kind # "ssh" => <<sent.id, made>> \in began
  BY <1>2, <1>6 DEF SendInv, ControlInv, LinkTypes
<1>9. \A u \in Threads : sending'[u] = IF u = t THEN state ELSE sending[u]
  BY <1>1, <1>3 DEF Becomes, SendTypes
<1> QED BY <1>1, <1>4, <1>5, <1>6, <1>7, <1>8, <1>9, Zenon

LEMMA HelloKept ==
  ASSUME ControlInv, ItemInv, SendInv, HelloInv, SourceNext
  PROVE  HelloInv'
<1>0. SendTypes
  BY DEF SendInv
<1>1. CASE Opened
  <2>1. 1..Len(wire') = {} /\ ~greeted'
    BY <1>1 DEF Opened
  <2> QED BY <2>1 DEF HelloInv
<1>2. CASE Greets
  <2>1. PICK unit \in Sent : unit = [id |-> 0, is |-> "hello", opt |-> "none"]
    BY DEF Sent
  <2>2. Grows(unit) /\ unit.id = 0 /\ unit.is = "hello"
    BY <1>0, <1>2, <2>1, AppendGrows DEF Greets
  <2>3. ~greeted' /\ manager' # "hello" /\ \A i \in 1..Len(wire) : wire[i].id # 0
    BY <1>2 DEF Greets, HelloInv
  <2> QED BY <2>2, <2>3 DEF HelloInv, Grows
<1>3. CASE Apart
  BY <1>3 DEF Apart, HelloInv
<1>4. CASE FarSteps
  <2>1. UNCHANGED <<wire, manager>>
    BY <1>4, FarIs
  <2>2. CASE greeted' = greeted
    BY <2>1, <2>2 DEF HelloInv
  <2>3. CASE wire # <<>> /\ wire[1].is = "hello"
    <3>1. 1 \in 1..Len(wire)
      BY <1>0, <2>3 DEF SendTypes
    <3> QED BY <2>1, <2>3, <3>1 DEF HelloInv
  <2> QED BY <1>4, <2>2, <2>3, FarSpecs DEF ItemInv, Answering, Broken
<1>5. CASE WriterSteps
  <2>1. WriterForms /\ UNCHANGED <<kind, manager, greeted>>
    BY <1>0, <1>5, WritersForm, WritersAre DEF SendInv, Active
  <2>2. CASE wire' = wire
    BY <2>1, <2>2 DEF HelloInv
  <2>3. ASSUME NEW t \in Threads, SendsOne(t) PROVE HelloInv'
    <3>1. PICK sent \in Sent : Grows(sent) /\ 0 < sent.id /\ sent.is # "hello"
      BY <2>3, SentIs
    <3>2. sent.id # 0
      BY <3>1 DEF Sent
    <3>3. wire # <<>> => 1 \in 1..Len(wire)
      BY <1>0 DEF SendTypes
    <3>4. \A i \in 1..Len(wire') :
            (i \in 1..Len(wire) /\ wire'[i] = wire[i]) \/ (wire'[i].id # 0 /\ wire'[i].is # "hello")
      BY <3>1, <3>2 DEF Grows
    <3>5. wire' # <<>> /\ (wire # <<>> => wire'[1] = wire[1])
      BY <1>0, <3>1, <3>3 DEF Grows, SendTypes
    <3> QED BY <2>1, <3>4, <3>5 DEF HelloInv
  <2> QED BY <2>1, <2>2, <2>3 DEF WriterForms, Ends, TakesHold, Begun
<1> QED BY <1>1, <1>2, <1>3, <1>4, <1>5, Thread DEF SourceNext

Contiguous(s) == \A i, j, k \in 1..Len(s) : i < j /\ j < k /\ s[i].id = s[k].id => s[j].id = s[i].id
EndsWith(s, id) == \A i, j \in 1..Len(s) : i < j /\ s[i].id = id => s[j].id = id

\* After a proxy's hello a write is whole as far as it has gone, and its writer is the last that sent.
Orderly ==
  kind = "socket" /\ wire # <<>> /\ wire[1].id = 0 =>
    /\ Contiguous(wire)
    /\ \A t \in Threads : sending[t].at = "sending" => EndsWith(wire, sending[t].id)

WireInv ==
  /\ \A i \in 1..Len(wire) : wire[i].id <= writes
  /\ \A t \in Threads : sending[t].at = "checked" => \A i \in 1..Len(wire) : wire[i].id # sending[t].id
  /\ kind # "ssh" => \A i \in 1..Len(wire) : wire[i].id # 0 => <<wire[i].id, made>> \in began
  /\ Orderly

LEMMA WireOpens ==
  ASSUME Opened
  PROVE  WireInv'
<1>1. wire' = <<>> /\ 1..Len(wire') = {}
  BY DEF Opened
<1> QED BY <1>1 DEF WireInv, Orderly

LEMMA WireGreets ==
  ASSUME SendInv, HelloInv, WireInv, Greets
  PROVE  WireInv'
<1>1. PICK unit \in Sent : unit = [id |-> 0, is |-> "hello", opt |-> "none"]
  BY DEF Sent
<1>2. Grows(unit) /\ unit.id = 0
  BY <1>1, AppendGrows DEF Greets, SendInv
<1>3. /\ UNCHANGED <<began, writes, sending, kind, made>> /\ \A i \in 1..Len(wire) : wire[i].id # 0
      /\ writes \in Nat /\ sending \in [Threads -> Writing] /\ wire \in Seq(Sent)
  BY DEF Greets, HelloInv, SendInv, SendTypes
<1>4. \A i \in 1..Len(wire') : wire'[i].id <= writes'
  BY <1>2, <1>3 DEF Grows, WireInv
<1>5. \A t \in Threads : sending'[t].at = "checked" => \A i \in 1..Len(wire') : wire'[i].id # sending'[t].id
  <2>1. \A t \in Threads : sending[t].at = "checked" => sending[t].id # 0
    BY <1>3 DEF SendInv, Active, Writing
  <2> QED BY <1>2, <1>3, <2>1 DEF Grows, WireInv
<1>6. kind' # "ssh" => \A i \in 1..Len(wire') : wire'[i].id # 0 => <<wire'[i].id, made'>> \in began'
  BY <1>2, <1>3 DEF Grows, WireInv
<1>7. Orderly'
  <2>1. CASE wire = <<>>
    <3>1. Len(wire) = 0
      BY <2>1
    <3>2. \A i, j \in 1..Len(wire') : ~(i < j)
      BY <1>2, <3>1 DEF Grows
    <3> QED BY <3>2 DEF Orderly, Contiguous, EndsWith
  <2>2. CASE wire # <<>>
    <3>1. 1 \in 1..Len(wire)
      BY <1>3, <2>2
    <3> QED BY <1>2, <1>3, <3>1 DEF Orderly, Grows
  <2> QED BY <2>1, <2>2
<1> QED BY <1>4, <1>5, <1>6, <1>7 DEF WireInv

LEMMA WireSends ==
  ASSUME ControlInv, SendInv, HelloInv, WireInv, NEW t \in Threads, SendsOne(t), UNCHANGED <<kind, made>>
  PROVE  WireInv'
<1>1. PICK sent \in Sent, state \in Writing :
        /\ Grows(sent) /\ sent.id = sending[t].id /\ 0 < sent.id /\ sent.id <= writes
        /\ kind # "ssh" => <<sent.id, made>> \in began
        /\ state.at \in {"done", "sending"} /\ state.id = sending[t].id
        /\ \A u \in Threads : sending'[u] = IF u = t THEN state ELSE sending[u]
  <2>1. PICK unit \in Words, rest \in Seq(Words), state \in Writing, sent \in Sent :
           /\ sending[t].rest = Cat(<<unit>>, rest)
           /\ sent = [id |-> sending[t].id, is |-> unit.is, opt |-> unit.opt]
           /\ wire' = Append(wire, sent) /\ Grows(sent)
           /\ sent.id = sending[t].id /\ 0 < sent.id /\ sent.id <= writes /\ sent.is # "hello"
           /\ sent.is = unit.is /\ sent.opt = unit.opt
           /\ kind # "ssh" => <<sent.id, made>> \in began
           /\ state.at = (IF rest = <<>> THEN "done" ELSE "sending") /\ state.rest = rest
           /\ state.id = sending[t].id
           /\ \A u \in Threads : sending'[u] = IF u = t THEN state ELSE sending[u]
    BY SentIs
  <2> QED BY <2>1
<1>2. UNCHANGED <<began, writes>> /\ sending[t].at = "sending" /\ Active(t) /\ wire \in Seq(Sent)
  BY DEF SendsOne, Active, SendInv, SendTypes
<1>3. \A i \in 1..Len(wire') : wire'[i].id <= writes'
  BY <1>1, <1>2 DEF Grows, WireInv
<1>4. \A u \in Threads : sending'[u].at = "checked" => \A i \in 1..Len(wire') : wire'[i].id # sending'[u].id
  <2> SUFFICES ASSUME NEW u \in Threads, sending'[u].at = "checked", NEW i \in 1..Len(wire')
               PROVE  wire'[i].id # sending'[u].id
    OBVIOUS
  <2>1. u # t /\ sending'[u] = sending[u] /\ Active(u) /\ sending[u].at = "checked"
    BY <1>1 DEF Active
  <2>2. sending[u].id # sending[t].id
    BY <1>2, <2>1 DEF SendInv
  <2> QED BY <1>1, <2>1, <2>2 DEF Grows, WireInv
<1>5. kind' # "ssh" => \A i \in 1..Len(wire') : wire'[i].id # 0 => <<wire'[i].id, made'>> \in began'
  BY <1>1, <1>2 DEF Grows, WireInv
<1>6. Orderly'
  <2> SUFFICES ASSUME kind = "socket", wire' # <<>>, wire'[1].id = 0
               PROVE  Contiguous(wire') /\ \A u \in Threads :
                        sending'[u].at = "sending" => EndsWith(wire', sending'[u].id)
    BY DEF Orderly
  <2>1. wire # <<>> /\ wire[1].id = 0
    <3>1. wire # <<>>
      <4>1. CASE wire = <<>>
        <5>1. wire'[1] = sent
          BY <1>1, <4>1 DEF Grows
        <5> QED BY <1>1, <5>1 DEF Sent
      <4> QED BY <4>1
    <3>2. 1 \in 1..Len(wire)
      BY <1>2, <3>1
    <3> QED BY <1>1, <3>1, <3>2 DEF Grows
  <2>2. Contiguous(wire) /\ EndsWith(wire, sent.id)
    BY <1>1, <1>2, <2>1 DEF WireInv, Orderly
  <2>3. EndsWith(wire', sent.id)
    <3> SUFFICES ASSUME NEW i \in 1..Len(wire'), NEW j \in 1..Len(wire'), i < j, wire'[i].id = sent.id
                 PROVE  wire'[j].id = sent.id
      BY DEF EndsWith
    <3>1. CASE j = Len(wire) + 1
      BY <1>1, <3>1 DEF Grows
    <3>2. CASE j \in 1..Len(wire)
      <4>1. i \in 1..Len(wire)
        BY <1>1, <3>2 DEF Grows
      <4> QED BY <1>1, <2>2, <3>2, <4>1 DEF Grows, EndsWith
    <3> QED BY <1>1, <3>1, <3>2 DEF Grows
  <2>4. Contiguous(wire')
    <3> SUFFICES ASSUME NEW i \in 1..Len(wire'), NEW j \in 1..Len(wire'), NEW k \in 1..Len(wire'), i < j, j < k,
                        wire'[i].id = wire'[k].id
                 PROVE  wire'[j].id = wire'[i].id
      BY DEF Contiguous
    <3>1. CASE k = Len(wire) + 1
      <4>1. wire'[i].id = sent.id
        BY <1>1, <3>1 DEF Grows
      <4> QED BY <2>3, <4>1 DEF EndsWith
    <3>2. CASE k \in 1..Len(wire)
      <4>1. i \in 1..Len(wire) /\ j \in 1..Len(wire)
        BY <1>1, <3>2 DEF Grows
      <4>2. wire'[i] = wire[i] /\ wire'[j] = wire[j] /\ wire'[k] = wire[k]
        BY <1>1, <3>2, <4>1 DEF Grows
      <4> QED BY <2>2, <3>2, <4>1, <4>2 DEF Contiguous
    <3> QED BY <1>1, <3>1, <3>2 DEF Grows
  <2>5. \A u \in Threads : sending'[u].at = "sending" => u = t
    BY <1>1, <1>2 DEF SendInv
  <2> QED BY <1>1, <2>3, <2>4, <2>5
<1> QED BY <1>3, <1>4, <1>5, <1>6 DEF WireInv

\* The writers but for the unit that is sent.
LEMMA WireAside ==
  ASSUME SendInv, WireInv, UNCHANGED <<wire, kind, made>>, writes <= writes', writes' \in Nat,
         began \subseteq began',
         \A u \in Threads : sending'[u].at = "checked" =>
            (sending[u].at = "checked" /\ sending'[u].id = sending[u].id) \/ writes < sending'[u].id,
         \A u \in Threads : sending'[u].at = "sending" =>
            sending[u].at \in {"checked", "sending"} /\ sending'[u].id = sending[u].id
  PROVE  WireInv'
<1>1. SendTypes /\ writes \in Nat /\ \A i \in 1..Len(wire) : wire[i].id \in Nat
  <2>1. SendTypes /\ writes \in Nat /\ wire \in Seq(Sent)
    BY DEF SendInv, SendTypes
  <2>2. \A i \in 1..Len(wire) : wire[i] \in Sent
    BY <2>1
  <2> QED BY <2>1, <2>2 DEF Sent
<1>2. \A i \in 1..Len(wire') : wire'[i].id <= writes'
  BY <1>1 DEF WireInv
<1>3. \A u \in Threads : sending'[u].at = "checked" => \A i \in 1..Len(wire') : wire'[i].id # sending'[u].id
  <2> SUFFICES ASSUME NEW u \in Threads, sending'[u].at = "checked", NEW i \in 1..Len(wire)
               PROVE  wire[i].id # sending'[u].id
    OBVIOUS
  <2>1. CASE sending[u].at = "checked" /\ sending'[u].id = sending[u].id
    BY <2>1 DEF WireInv
  <2>2. CASE writes < sending'[u].id
    <3>1. wire[i].id <= writes
      BY DEF WireInv
    <3> SUFFICES ASSUME wire[i].id = sending'[u].id PROVE FALSE
      OBVIOUS
    <3> QED BY <1>1, <2>2, <3>1
  <2> QED BY <2>1, <2>2
<1>4. kind' # "ssh" => \A i \in 1..Len(wire') : wire'[i].id # 0 => <<wire'[i].id, made'>> \in began'
  BY DEF WireInv
<1>5. Orderly'
  <2> SUFFICES ASSUME kind = "socket", wire # <<>>, wire[1].id = 0
               PROVE  Contiguous(wire) /\ \A u \in Threads :
                        sending'[u].at = "sending" => EndsWith(wire, sending'[u].id)
    BY DEF Orderly
  <2>1. Contiguous(wire) /\ \A u \in Threads : sending[u].at = "sending" => EndsWith(wire, sending[u].id)
    BY DEF WireInv, Orderly
  <2>2. \A u \in Threads : sending[u].at = "checked" => EndsWith(wire, sending[u].id)
    BY DEF WireInv, EndsWith
  <2> QED BY <2>1, <2>2
<1> QED BY <1>2, <1>3, <1>4, <1>5 DEF WireInv

LEMMA WireKept ==
  ASSUME ControlInv, ItemInv, SendInv, HelloInv, WireInv, SourceNext
  PROVE  WireInv'
<1>0. SendTypes /\ writes \in Nat /\ sending \in [Threads -> Writing] /\ "conn" \in Threads
  BY DEF SendInv, SendTypes, Threads
<1>1. CASE Apart
  <2>1. \A u \in Threads : sending'[u] = sending[u] \/ sending'[u].at = "idle"
    BY <1>0, <1>1, IdleIs DEF Apart, Becomes
  <2> QED BY <1>0, <1>1, <2>1, WireAside DEF Apart
<1>2. CASE FarSteps
  BY <1>0, <1>2, FarIs, WireAside
<1>3. CASE WriterSteps
  <2>1. WriterForms /\ UNCHANGED <<kind, made>>
    BY <1>0, <1>3, WritersForm, WritersAre DEF SendInv, Active
  <2>2. ASSUME NEW t \in Threads, SendsOne(t) PROVE WireInv'
    BY <2>1, <2>2, WireSends
  <2>3. ASSUME NEW t \in Threads, Ends(t) PROVE WireInv'
    <3>1. UNCHANGED <<wire, began, writes>> /\ \A u \in Threads :
            sending'[u] = sending[u] \/ sending'[u].at \in {"idle", "failed"}
      BY <1>0, <2>3, IdleIs DEF Ends, Becomes, Writing
    <3> QED BY <1>0, <2>1, <3>1, WireAside
  <2>4. ASSUME NEW t \in Threads, TakesHold(t) PROVE WireInv'
    <3>1. /\ UNCHANGED <<wire, writes>> /\ began \subseteq began'
          /\ \A u \in Threads :
               sending'[u] = sending[u]
                 \/ (sending'[u].at = "sending" /\ sending[u].at = "checked" /\ sending'[u].id = sending[u].id)
      BY <1>0, <2>4 DEF TakesHold, Becomes, Writing
    <3> QED BY <1>0, <2>1, <3>1, WireAside
  <2>5. ASSUME NEW t \in Threads, NEW units, Begun(t, units) PROVE WireInv'
    <3>1. /\ UNCHANGED <<wire, began>> /\ writes' = writes + 1
          /\ \A u \in Threads :
               sending'[u] = sending[u] \/ (sending'[u].at = "checked" /\ sending'[u].id = writes + 1)
      BY <1>0, <2>5 DEF Begun, Becomes
    <3>2. writes <= writes' /\ writes' \in Nat /\ writes < writes + 1
      BY <1>0, <3>1
    <3> QED BY <1>0, <2>1, <3>1, <3>2, WireAside
  <2> QED BY <2>1, <2>2, <2>3, <2>4, <2>5 DEF WriterForms, Threads
<1> QED BY <1>1, <1>2, <1>3, Thread, WireOpens, WireGreets DEF SourceNext

-----------------------------------------------------------------------------
(* What a proxy is sent is whole, or its sendall raised *)

Settled(i) ==
  \/ wire[i].id = 0 \/ Whole(i)
  \/ \E t \in Threads : sending[t].at = "sending" /\ sending[t].id = wire[i].id
  \/ wire[i].id \in raised

\* A message is two units; when one is left to send on the connection that is there, the other is on it.
HalfSent(t) ==
  /\ Len(sending[t].rest) \in {1, 2} /\ sending[t].on <= made
  /\ sending[t].at = "checked" => Len(sending[t].rest) = 2
  /\ Len(sending[t].rest) = 1 /\ sending[t].on = made =>
       \E i \in 1..Len(wire) : wire[i].id = sending[t].id

WholeInv ==
  kind = "socket" =>
    /\ \A t \in Threads : Active(t) => HalfSent(t)
    /\ wire # <<>> /\ wire[1].id = 0 => \A i \in 1..Len(wire) : Settled(i)

LEMMA WholeOpens ==
  ASSUME ControlInv, SendInv, WholeInv, Opened
  PROVE  WholeInv'
<1>1. /\ wire' = <<>> /\ 1..Len(wire') = {} /\ sending' = sending /\ kind' = kind
      /\ made \in Nat /\ made' = made + 1
  BY DEF Opened, ControlInv, LinkTypes
<1>2. ASSUME NEW t \in Threads, kind = "socket", Active(t) PROVE HalfSent(t)'
  <2>1. sending[t].on \in Nat /\ sending[t].on <= made /\ HalfSent(t)
    BY <1>2 DEF SendInv, SendTypes, Writing, WholeInv, HalfSent
  <2>2. sending[t].on <= made' /\ sending[t].on # made'
    BY <1>1, <2>1
  <2> QED BY <1>1, <2>1, <2>2 DEF HalfSent
<1> QED BY <1>1, <1>2 DEF WholeInv, Active

\* More on the wire: a message that was whole is whole.
LEMMA WholeGrows ==
  ASSUME NEW unit, Grows(unit), NEW i \in 1..Len(wire), Whole(i)
  PROVE  Whole(i)'
<1>1. PICK j \in {i - 1, i + 1} \cap (1..Len(wire)) : wire[j].id = wire[i].id
  BY DEF Whole
<1>2. j \in 1..Len(wire') /\ wire'[j] = wire[j] /\ wire'[i] = wire[i]
  BY <1>1 DEF Grows
<1> QED BY <1>1, <1>2 DEF Whole

LEMMA WholeGreets ==
  ASSUME SendInv, HelloInv, WholeInv, Greets
  PROVE  WholeInv'
<1>1. PICK unit \in Sent : unit = [id |-> 0, is |-> "hello", opt |-> "none"]
  BY DEF Sent
<1>2. Grows(unit) /\ unit.id = 0
  BY <1>1, AppendGrows DEF Greets, SendInv
<1>3. /\ UNCHANGED <<sending, kind, made>> /\ wire \in Seq(Sent)
      /\ \A i \in 1..Len(wire) : wire[i].id # 0
  BY DEF Greets, HelloInv, SendInv, SendTypes
<1>4. ASSUME NEW t \in Threads, HalfSent(t) PROVE HalfSent(t)'
  BY <1>2, <1>3, <1>4 DEF HalfSent, Grows
<1>5. ASSUME wire'[1].id = 0, NEW i \in 1..Len(wire') PROVE wire'[i].id = 0
  <2>1. wire = <<>>
    <3>1. wire # <<>> => 1 \in 1..Len(wire)
      BY <1>3
    <3> QED BY <1>2, <1>3, <1>5, <3>1 DEF Grows
  <2> QED BY <1>2, <2>1 DEF Grows
<1> QED BY <1>3, <1>4, <1>5 DEF WholeInv, Settled, Active

\* The writers but for the unit that is sent.
LEMMA WholeAside ==
  ASSUME WholeInv, UNCHANGED <<wire, kind, made>>, raised \subseteq raised',
         kind = "socket" => \A u \in Threads : Active(u)' =>
           \/ Active(u) /\ sending'[u] = sending[u]
           \/ /\ sending'[u].at = "checked" /\ Len(sending'[u].rest) = 2 /\ sending'[u].on <= made
           \/ /\ sending[u].at = "checked" /\ sending'[u].at = "sending"
              /\ sending'[u].rest = sending[u].rest /\ sending'[u].on <= made,
         \A u \in Threads : sending[u].at = "sending" =>
           (sending'[u].at = "sending" /\ sending'[u].id = sending[u].id) \/ sending[u].id \in raised'
  PROVE  WholeInv'
<1>1. ASSUME kind = "socket", NEW u \in Threads, Active(u)' PROVE HalfSent(u)'
  <2>1. CASE Active(u) /\ sending'[u] = sending[u]
    BY <1>1, <2>1 DEF WholeInv, HalfSent
  <2>2. CASE sending'[u].at = "checked" /\ Len(sending'[u].rest) = 2 /\ sending'[u].on <= made
    BY <2>2 DEF HalfSent
  <2>3. CASE /\ sending[u].at = "checked" /\ sending'[u].at = "sending"
             /\ sending'[u].rest = sending[u].rest /\ sending'[u].on <= made
    <3>1. Len(sending[u].rest) = 2
      BY <1>1, <2>3 DEF WholeInv, HalfSent, Active
    <3> QED BY <2>3, <3>1 DEF HalfSent
  <2> QED BY <1>1, <2>1, <2>2, <2>3
<1>2. ASSUME NEW i \in 1..Len(wire), Settled(i) PROVE Settled(i)'
  BY <1>2 DEF Settled, Whole
<1> QED BY <1>1, <1>2 DEF WholeInv

LEMMA WholeSends ==
  ASSUME ControlInv, SendInv, HelloInv, WireInv, WholeInv, NEW t \in Threads, SendsOne(t),
         UNCHANGED <<kind, made>>
  PROVE  WholeInv'
<1> SUFFICES ASSUME kind = "socket" PROVE WholeInv'
  BY DEF WholeInv
<1>1. PICK unit \in Words, rest \in Seq(Words), state \in Writing, sent \in Sent :
           /\ sending[t].rest = Cat(<<unit>>, rest)
           /\ sent = [id |-> sending[t].id, is |-> unit.is, opt |-> unit.opt]
           /\ wire' = Append(wire, sent) /\ Grows(sent)
           /\ sent.id = sending[t].id /\ 0 < sent.id /\ sent.id <= writes /\ sent.is # "hello"
           /\ sent.is = unit.is /\ sent.opt = unit.opt
           /\ kind # "ssh" => <<sent.id, made>> \in began
           /\ state.at = (IF rest = <<>> THEN "done" ELSE "sending") /\ state.rest = rest
           /\ state.id = sending[t].id
           /\ \A u \in Threads : sending'[u] = IF u = t THEN state ELSE sending[u]
  BY SentIs
<1>2. /\ sending[t].at = "sending" /\ Active(t) /\ sending[t].on = conn /\ raised' = raised
      /\ wire \in Seq(Sent) /\ sending'[t].on = conn
  BY DEF SendsOne, Becomes, Active, SendInv, SendTypes
<1>3. sending[t].on = made /\ made \in Nat
  BY <1>2 DEF SendInv, ControlInv, LinkTypes
<1>4. Len(rest) \in Nat /\ Len(sending[t].rest) = Len(rest) + 1
  <2>1. PICK l \in Seq(Words) : l = <<unit>> /\ Len(l) = 1
    BY OneOf
  <2>2. Len(l \o rest) = Len(l) + Len(rest) /\ Len(rest) \in Nat
    OBVIOUS
  <2> QED BY <1>1, <2>1, <2>2 DEF Cat
<1>5. Len(rest) \in {0, 1}
  <2>1. HalfSent(t)
    BY <1>2 DEF WholeInv
  <2>2. Len(sending[t].rest) \in {1, 2}
    BY <2>1 DEF HalfSent
  <2>3. PICK n \in Nat : n = Len(rest)
    BY <1>4
  <2>4. n + 1 \in {1, 2}
    BY <1>4, <2>2, <2>3
  <2>5. n \in {0, 1}
    BY <2>4
  <2> QED BY <2>3, <2>5
<1>6. PICK last : last = Len(wire) + 1
  OBVIOUS
<1>7. /\ Len(wire) \in Nat /\ last \in 1..Len(wire') /\ wire'[last] = sent
      /\ \A i \in 1..Len(wire) : i \in 1..Len(wire') /\ wire'[i] = wire[i]
      /\ \A i \in 1..Len(wire') : i \in 1..Len(wire) \/ i = last
  BY <1>1, <1>6 DEF Grows
<1>8. \A u \in Threads : Active(u)' => HalfSent(u)'
  <2>1. ASSUME Active(t)' PROVE HalfSent(t)'
    <3>1. sending'[t] = state /\ state.at = "sending" /\ rest # <<>>
      BY <1>1, <2>1 DEF Active
    <3>2. Len(rest) = 1
      BY <1>4, <1>5, <3>1
    <3> QED BY <1>1, <1>2, <1>3, <1>7, <3>1, <3>2 DEF HalfSent
  <2>2. ASSUME NEW u \in Threads, u # t, Active(u)' PROVE HalfSent(u)'
    <3>1. sending'[u] = sending[u] /\ HalfSent(u)
      BY <1>1, <2>2 DEF Active, WholeInv
    <3> QED BY <1>7, <3>1 DEF HalfSent
  <2> QED BY <2>1, <2>2
<1>9. ASSUME wire'[1].id = 0, NEW i \in 1..Len(wire') PROVE Settled(i)'
  <2>1. wire # <<>> /\ wire[1].id = 0
    <3>1. sent.id # 0
      BY <1>1 DEF Sent
    <3>2. last # 1
      BY <1>7, <1>9, <3>1
    <3>3. 1 \in 1..Len(wire)
      BY <1>6, <1>7, <3>2
    <3> QED BY <1>7, <1>9, <3>3
  <2>2. EndsWith(wire, sent.id)
    BY <1>1, <1>2, <2>1 DEF WireInv, Orderly
  <2>3. CASE wire'[i].id # sent.id
    <3>1. i \in 1..Len(wire) /\ wire'[i] = wire[i]
      BY <1>7, <2>3
    <3>2. Settled(i)
      BY <2>1, <3>1 DEF WholeInv
    <3>3. CASE Whole(i)
      BY <1>1, <3>1, <3>3, WholeGrows DEF Settled
    <3>4. ASSUME NEW u \in Threads, sending[u].at = "sending", sending[u].id = wire[i].id PROVE Settled(i)'
      <4>1. u # t
        BY <1>1, <2>3, <3>1, <3>4
      <4>2. sending'[u] = sending[u]
        BY <1>1, <4>1
      <4> QED BY <3>1, <3>4, <4>2 DEF Settled
    <3> QED BY <1>2, <3>1, <3>2, <3>3, <3>4 DEF Settled
  <2>4. CASE wire'[i].id = sent.id /\ rest # <<>>
    BY <1>1, <2>4 DEF Settled
  <2>5. CASE wire'[i].id = sent.id /\ rest = <<>>
    <3>1. Len(sending[t].rest) = 1
      BY <1>4, <2>5
    <3>2. PICK k \in 1..Len(wire) : wire[k].id = sent.id
      BY <1>1, <1>2, <1>3, <3>1 DEF WholeInv, HalfSent
    <3>3. Len(wire) \in 1..Len(wire) /\ wire[Len(wire)].id = sent.id
      BY <1>7, <2>2, <3>2 DEF EndsWith
    <3>4. CASE i = last
      <4>1. i - 1 = Len(wire)
        BY <1>6, <1>7, <3>4
      <4>2. i - 1 \in 1..Len(wire') /\ wire'[i - 1].id = sent.id
        BY <1>7, <3>3, <4>1
      <4> QED BY <2>5, <4>2 DEF Settled, Whole
    <3>5. CASE i \in 1..Len(wire)
      <4>1. i + 1 \in 1..Len(wire') /\ wire'[i + 1].id = sent.id
        <5>1. CASE i = Len(wire)
          BY <1>6, <1>7, <5>1
        <5>2. CASE i # Len(wire)
          <6>1. i + 1 \in 1..Len(wire) /\ wire[i].id = sent.id /\ i < i + 1
            BY <1>7, <2>5, <3>5, <5>2
          <6> QED BY <1>7, <2>2, <6>1 DEF EndsWith
        <5> QED BY <5>1, <5>2
      <4> QED BY <2>5, <4>1 DEF Settled, Whole
    <3> QED BY <1>7, <3>4, <3>5
  <2> QED BY <2>3, <2>4, <2>5
<1> QED BY <1>8, <1>9 DEF WholeInv

LEMMA WholeKept ==
  ASSUME ControlInv, ItemInv, SendInv, HelloInv, WireInv, WholeInv, SourceNext
  PROVE  WholeInv'
<1>0. /\ SendTypes /\ writes \in Nat /\ sending \in [Threads -> Writing] /\ "conn" \in Threads
      /\ conn \in Nat /\ made \in Nat /\ conn <= made
  BY DEF SendInv, SendTypes, Threads, ControlInv, LinkTypes
<1>1. CASE Apart
  <2>1. CASE manager = "reply"
    BY <1>1, <2>1 DEF Apart, WholeInv, ControlInv, PlaceInv
  <2>2. CASE manager # "reply"
    <3>1. UNCHANGED <<sending, raised, wire, kind, made>>
      BY <1>1, <2>2 DEF Apart
    <3> QED BY <3>1, WholeAside DEF Active
  <2> QED BY <2>1, <2>2
<1>2. CASE FarSteps
  <2>1. UNCHANGED <<sending, raised, wire, kind, made>>
    BY <1>2, FarIs
  <2> QED BY <2>1, WholeAside DEF Active
<1>3. CASE WriterSteps
  <2>1. WriterForms /\ UNCHANGED <<kind, made>>
    BY <1>0, <1>3, WritersForm, WritersAre DEF SendInv, Active
  <2>2. ASSUME NEW t \in Threads, SendsOne(t) PROVE WholeInv'
    BY <2>1, <2>2, WholeSends
  <2>3. ASSUME NEW t \in Threads, Ends(t) PROVE WholeInv'
    <3>1. /\ wire' = wire /\ raised \subseteq raised'
          /\ \A u \in Threads :
               \/ sending'[u] = sending[u]
               \/ /\ sending'[u].at \in {"idle", "failed"}
                  /\ sending[u].at = "sending" => sending[u].id \in raised'
      BY <1>0, <2>3, IdleIs DEF Ends, Becomes, Writing
    <3> QED BY <2>1, <3>1, WholeAside DEF Active
  <2>4. ASSUME NEW t \in Threads, TakesHold(t) PROVE WholeInv'
    <3>1. /\ UNCHANGED <<wire, raised>>
          /\ \A u \in Threads :
               \/ sending'[u] = sending[u]
               \/ /\ sending[u].at = "checked" /\ sending'[u].at = "sending"
                  /\ sending'[u].rest = sending[u].rest /\ sending'[u].on = conn
      BY <1>0, <2>4 DEF TakesHold, Becomes, Writing
    <3>2. \A u \in Threads : sending[u].at = "sending" => sending'[u] = sending[u]
      BY <3>1
    <3> QED BY <1>0, <2>1, <3>1, <3>2, WholeAside DEF Active
  <2>5. ASSUME NEW t \in {"ui", "pty"}, NEW is \in {"data", "resize"}, Begun(t, Units(is)) PROVE WholeInv'
    <3>1. Len(Units(is)) = 2
      BY DEF Units
    <3>2. /\ UNCHANGED <<wire, raised>>
          /\ \A u \in Threads :
               \/ sending'[u] = sending[u]
               \/ /\ sending[u].at = "idle" /\ sending'[u].at = "checked"
                  /\ sending'[u].rest = Units(is) /\ sending'[u].on = 0
      BY <1>0, <2>5 DEF Begun, Becomes, Threads
    <3>3. \A u \in Threads : sending[u].at = "sending" => sending'[u] = sending[u]
      BY <3>2
    <3>4. \A u \in Threads : sending'[u] = sending[u]
            \/ (sending'[u].at = "checked" /\ Len(sending'[u].rest) = 2 /\ sending'[u].on <= made)
      BY <1>0, <3>1, <3>2
    <3> QED BY <2>1, <3>2, <3>3, <3>4, WholeAside DEF Active
  <2>6. ASSUME manager = "reply" PROVE WholeInv'
    BY <2>1, <2>6 DEF WholeInv, ControlInv, PlaceInv
  <2> QED BY <2>1, <2>2, <2>3, <2>4, <2>5, <2>6 DEF WriterForms
<1> QED BY <1>0, <1>1, <1>2, <1>3, Thread, WholeOpens, WholeGreets DEF SourceNext

-----------------------------------------------------------------------------
(* What was last said of our window size *)

NoNaws(s) == \A i \in 1..Len(s) : ~OnNaws(s[i])

\* The last that is said, when rest is said after s.
SaidAfter(s, rest) == SaysWill(rest) \/ (SaysWill(s) /\ NoNaws(rest))

LEMMA SaidLast ==
  ASSUME NEW s, NEW a, NEW w, Len(s) \in Nat, Len(a) = Len(s) + 1, a[Len(s) + 1] = w,
         \A i \in 1..Len(s) : a[i] = s[i]
  PROVE  /\ NoNaws(a) <=> NoNaws(s) /\ ~OnNaws(w)
         /\ SaysWill(a) <=> IF OnNaws(w) THEN w.is = "WILL" ELSE SaysWill(s)
<1>1. \A i \in 1..Len(a) : i \in 1..Len(s) \/ i = Len(s) + 1
  OBVIOUS
<1>2. Len(s) + 1 \in 1..Len(a) /\ \A i \in 1..Len(s) : i \in 1..Len(a) /\ i # Len(s) + 1
  OBVIOUS
<1>3. NoNaws(a) <=> NoNaws(s) /\ ~OnNaws(w)
  BY <1>1, <1>2 DEF NoNaws
<1>4. CASE OnNaws(w)
  <2>1. ASSUME SaysWill(a) PROVE w.is = "WILL"
    <3>1. PICK i \in 1..Len(a) : OnNaws(a[i]) /\ a[i].is = "WILL" /\ \A j \in (i + 1)..Len(a) : ~OnNaws(a[j])
      BY <2>1 DEF SaysWill
    <3>2. CASE i \in 1..Len(s)
      <4>1. Len(s) + 1 \in (i + 1)..Len(a)
        BY <3>2
      <4> QED BY <1>4, <3>1, <4>1
    <3> QED BY <1>1, <3>1, <3>2
  <2>2. ASSUME w.is = "WILL" PROVE SaysWill(a)
    <3>1. \A j \in ((Len(s) + 1) + 1)..Len(a) : FALSE
      OBVIOUS
    <3> QED BY <1>2, <1>4, <2>2, <3>1 DEF SaysWill
  <2> QED BY <1>3, <1>4, <2>1, <2>2
<1>5. CASE ~OnNaws(w)
  <2>1. ASSUME SaysWill(a) PROVE SaysWill(s)
    <3>1. PICK i \in 1..Len(a) : OnNaws(a[i]) /\ a[i].is = "WILL" /\ \A j \in (i + 1)..Len(a) : ~OnNaws(a[j])
      BY <2>1 DEF SaysWill
    <3>2. i \in 1..Len(s)
      BY <1>1, <1>5, <3>1
    <3>3. \A j \in (i + 1)..Len(s) : j \in (i + 1)..Len(a) /\ j \in 1..Len(s)
      BY <3>2
    <3> QED BY <3>1, <3>2, <3>3 DEF SaysWill
  <2>2. ASSUME SaysWill(s) PROVE SaysWill(a)
    <3>1. PICK i \in 1..Len(s) : OnNaws(s[i]) /\ s[i].is = "WILL" /\ \A j \in (i + 1)..Len(s) : ~OnNaws(s[j])
      BY <2>2 DEF SaysWill
    <3>2. \A j \in (i + 1)..Len(a) : j \in (i + 1)..Len(s) \/ j = Len(s) + 1
      BY <3>1
    <3>3. \A j \in (i + 1)..Len(s) : j \in 1..Len(s)
      BY <3>1
    <3>4. \A j \in (i + 1)..Len(a) : ~OnNaws(a[j])
      BY <1>5, <3>1, <3>2, <3>3
    <3> QED BY <1>2, <3>1, <3>4 DEF SaysWill
  <2> QED BY <1>3, <1>5, <2>1, <2>2
<1> QED BY <1>4, <1>5

LEMMA SaidFirst ==
  ASSUME NEW s, NEW t, NEW h, Len(t) \in Nat, Len(s) = Len(t) + 1, s[1] = h,
         \A i \in 1..Len(t) : s[i + 1] = t[i]
  PROVE  /\ NoNaws(s) <=> NoNaws(t) /\ ~OnNaws(h)
         /\ SaysWill(s) <=> SaysWill(t) \/ (NoNaws(t) /\ OnNaws(h) /\ h.is = "WILL")
<1>1. \A i \in 1..Len(s) : i = 1 \/ (i - 1 \in 1..Len(t) /\ s[i] = t[i - 1])
  <2> TAKE i \in 1..Len(s)
  <2>1. CASE i # 1
    <3>1. i - 1 \in 1..Len(t) /\ (i - 1) + 1 = i
      BY <2>1
    <3> QED BY <3>1
  <2> QED BY <2>1
<1>2. 1 \in 1..Len(s) /\ \A i \in 1..Len(t) : i + 1 \in 1..Len(s)
  OBVIOUS
<1>3. NoNaws(s) <=> NoNaws(t) /\ ~OnNaws(h)
  BY <1>1, <1>2 DEF NoNaws
<1>4. ASSUME SaysWill(s) PROVE SaysWill(t) \/ (NoNaws(t) /\ OnNaws(h) /\ h.is = "WILL")
  <2>1. PICK i \in 1..Len(s) : OnNaws(s[i]) /\ s[i].is = "WILL" /\ \A j \in (i + 1)..Len(s) : ~OnNaws(s[j])
    BY <1>4 DEF SaysWill
  <2>2. CASE i = 1
    <3>1. \A j \in 1..Len(t) : j + 1 \in (i + 1)..Len(s)
      BY <2>2
    <3>2. NoNaws(t)
      BY <2>1, <3>1 DEF NoNaws
    <3> QED BY <2>1, <2>2, <3>2
  <2>3. CASE i # 1
    <3>1. i - 1 \in 1..Len(t) /\ s[i] = t[i - 1]
      BY <1>1, <2>3
    <3>2. \A j \in ((i - 1) + 1)..Len(t) : j + 1 \in (i + 1)..Len(s) /\ j \in 1..Len(t)
      BY <3>1
    <3>3. \A j \in ((i - 1) + 1)..Len(t) : ~OnNaws(t[j])
      BY <2>1, <3>2
    <3> QED BY <2>1, <3>1, <3>3 DEF SaysWill
  <2> QED BY <2>2, <2>3
<1>5. ASSUME SaysWill(t) PROVE SaysWill(s)
  <2>1. PICK i \in 1..Len(t) : OnNaws(t[i]) /\ t[i].is = "WILL" /\ \A j \in (i + 1)..Len(t) : ~OnNaws(t[j])
    BY <1>5 DEF SaysWill
  <2>2. \A j \in ((i + 1) + 1)..Len(s) : ~OnNaws(s[j])
    <3> TAKE j \in ((i + 1) + 1)..Len(s)
    <3>1. j \in 1..Len(s) /\ j # 1 /\ j - 1 \in (i + 1)..Len(t)
      BY <2>1
    <3> QED BY <1>1, <2>1, <3>1
  <2> QED BY <1>2, <2>1, <2>2 DEF SaysWill
<1>6. ASSUME NoNaws(t), OnNaws(h), h.is = "WILL" PROVE SaysWill(s)
  <2>1. \A j \in (1 + 1)..Len(s) : ~OnNaws(s[j])
    <3> TAKE j \in (1 + 1)..Len(s)
    <3>1. j \in 1..Len(s) /\ j # 1
      OBVIOUS
    <3> QED BY <1>1, <1>6, <3>1 DEF NoNaws
  <2> QED BY <1>2, <1>6, <2>1 DEF SaysWill
<1> QED BY <1>3, <1>4, <1>5, <1>6

LEMMA SaidNothing == NoNaws(<<>>) /\ ~SaysWill(<<>>)
<1>1. 1..Len(<<>>) = {}
  OBVIOUS
<1> QED BY <1>1 DEF NoNaws, SaysWill

\* What the telnet thread has still to say.
Unsaid == IF sending["conn"].at = "idle" THEN answer.replies ELSE sending["conn"].rest

NawsInv ==
  kind = "telnet" /\ manager \in {"read", "receive", "reply"} /\ sending["conn"].at # "failed" =>
    ("naws" \in proto.us <=> SaidAfter(wire, Unsaid))

LEMMA NawsAside ==
  ASSUME NawsInv, UNCHANGED kind,
         kind = "telnet" /\ manager' \in {"read", "receive", "reply"} /\ sending'["conn"].at # "failed" =>
           /\ manager \in {"read", "receive", "reply"} /\ sending["conn"].at # "failed"
           /\ UNCHANGED <<wire, proto>> /\ Unsaid' = Unsaid
  PROVE  NawsInv'
BY DEF NawsInv

LEMMA NawsThread ==
  ASSUME ControlInv, ItemInv, SendInv, NawsInv,
         OpenStep \/ Reads \/ ReadTelnet \/ Ingest \/ IngestLine \/ Ingested \/ ReadRaises \/ CloseSource
           \/ Retry
  PROVE  NawsInv'
<1>0. /\ sending["conn"].at # "idle" => manager = "reply"
      /\ sending["conn"].at = "done" => sending["conn"].rest = <<>>
      /\ sending \in [Threads -> Writing] /\ "conn" \in Threads
      /\ manager \notin {"receive", "reply"} => answer = NoAnswer
      /\ ItemTypes
  BY DEF SendInv, SendTypes, ItemInv, ShapeInv, Threads
<1>1. CASE \/ OpenUrl \/ OpenSsh \/ OpenTelnet \/ OpenUart \/ FollowUart \/ Dial
  <2>1. /\ wire' = <<>> /\ kind' = kind /\ answer' = answer /\ manager = "open"
        /\ (kind = "telnet" => proto' = Fresh)
    BY <1>1, ItemsOpen
  <2>2. sending' = sending
    BY <1>1 DEF OpenUrl, OpenSsh, OpenTelnet, Opens, OpenUart, FollowUart, FollowsTo, OpenAt, Dial
  <2>3. Unsaid' = <<>>
    BY <1>0, <2>1, <2>2, NothingIn DEF Unsaid
  <2>4. ~SaidAfter(wire', Unsaid')
    BY <2>1, <2>3, SaidNothing DEF SaidAfter
  <2> QED BY <2>1, <2>4 DEF NawsInv, Fresh
<1>2. CASE Claim \/ OpenAgain \/ FollowInVain \/ SayHello \/ OpenRaises \/ ReceiveMore \/ NoAnswerCame
           \/ TriedTooSoon
           \/ AnswerIsGarbage \/ Refused \/ Accepted \/ CollectLine \/ CollectNoMore \/ ReadPending
           \/ Ingest \/ IngestLine \/ Ingested
  <2>1. kind # "telnet" /\ kind' = kind
    BY <1>2 DEF Claim, OpenAgain, FollowInVain, FollowsTo, SayHello, OpenRaises, Botch, ReceiveMore,
                NoAnswerCame, TriedTooSoon, GiveUp, AnswerIsGarbage,
                Refused, Accepted, CollectLine, CollectNoMore, ReadPending, Ingest, IngestLine, Ingested,
                ControlInv, PlaceInv
  <2> QED BY <2>1 DEF NawsInv
<1>3. CASE ReadUart \/ ReadUrl \/ ReadSsh
  <2>1. kind # "telnet" /\ kind' = kind
    BY <1>0, <1>3, GetsIs
  <2> QED BY <2>1 DEF NawsInv
<1>4. CASE ReadRaises \/ CloseSource \/ Retry
  <2>1. manager' \notin {"read", "receive", "reply"} /\ kind' = kind
    BY <1>4 DEF ReadRaises, CloseSource, Retry
  <2> QED BY <2>1 DEF NawsInv
<1>5. CASE ReadTelnet
  <2>1. manager = "read" /\ UNCHANGED <<kind, proto>> /\ answer'.replies = <<>>
    BY <1>0, <1>5, ReadTelnetIs
  <2>2. UNCHANGED <<sending, wire>>
    BY <1>5 DEF ReadTelnet
  <2>3. Unsaid' = Unsaid
    BY <1>0, <2>1, <2>2, NothingIn DEF Unsaid
  <2> QED BY <1>0, <2>1, <2>2, <2>3, NawsAside
<1>6. CASE Received
  <2>1. manager = "receive" /\ UNCHANGED <<kind, proto, sending, wire>>
        /\ (answer' = answer \/ (answer.replies = <<>> /\ answer' = NoAnswer))
    BY <1>6 DEF Received, linkVars
  <2>2. Unsaid' = Unsaid
    BY <1>0, <2>1, NothingIn DEF Unsaid
  <2> QED BY <1>0, <2>1, <2>2, NawsAside
<1>7. CASE Replied
  <2>1. manager = "reply" /\ UNCHANGED <<kind, proto, wire>> /\ answer' = NoAnswer
        /\ sending' = [sending EXCEPT !["conn"] = Idle]
        /\ \/ sending["conn"].at = "done" /\ manager' = "read"
           \/ manager' = "close"
    BY <1>7 DEF Replied, linkVars
  <2>2. Unsaid' = <<>>
    BY <1>0, <2>1, NothingIn, IdleIs DEF Unsaid
  <2>3. sending["conn"].at = "done" => Unsaid = <<>> /\ sending["conn"].at # "failed"
    BY <1>0 DEF Unsaid
  <2> QED BY <2>1, <2>2, <2>3, NawsAside
<1> QED BY <1>1, <1>2, <1>3, <1>4, <1>5, <1>6, <1>7 DEF OpenStep, Reads

LEMMA NawsReceive ==
  ASSUME ControlInv, ItemInv, SendInv, NawsInv, Receive
  PROVE  NawsInv'
<1>1. /\ kind = "telnet" /\ manager = "receive" /\ UNCHANGED <<kind, manager, sending, wire>>
      /\ \E x \in Items, rest \in Seq(Items) : Taking(x, rest)
  BY ReceiveIs DEF linkVars
<1>2. PICK x \in Items, rest \in Seq(Items) : Taking(x, rest)
  BY <1>1
<1>3. sending["conn"].at = "idle" /\ proto \in Proto /\ answer.replies \in Seq(Words)
  BY <1>1 DEF SendInv, ItemInv, ItemTypes
<1>4. PICK r \in Seq(Words) : r = answer.replies
  BY <1>3
<1>5. Unsaid = r /\ Unsaid' = answer'.replies
  BY <1>1, <1>3, <1>4 DEF Unsaid
<1>6. "naws" \in proto.us <=> SaidAfter(wire, r)
  BY <1>1, <1>3, <1>5 DEF NawsInv
<1>7. "naws" \in proto'.us <=> SaidAfter(wire, answer'.replies)
  <2>1. CASE proto.verb # "none" /\ x.is \in Options
    <3>1. PICK o \in Options : o = x.is
      BY <2>1
    <3>2. proto' = Answered(proto, o).proto /\ answer'.replies = r \o Answered(proto, o).reply
      BY <1>2, <1>4, <2>1, <3>1 DEF Taking, Verbs, Options
    <3>3. CASE Answered(proto, o).reply = <<>>
               /\ ("naws" \in Answered(proto, o).proto.us <=> "naws" \in proto.us)
      <4>1. answer'.replies = r
        BY <3>2, <3>3
      <4> QED BY <1>6, <3>2, <3>3, <4>1
    <3>4. ASSUME NEW w \in Words, Answered(proto, o).reply = <<w>>,
                 IF OnNaws(w) THEN "naws" \in Answered(proto, o).proto.us <=> w.is = "WILL"
                 ELSE "naws" \in Answered(proto, o).proto.us <=> "naws" \in proto.us
          PROVE  "naws" \in proto'.us <=> SaidAfter(wire, answer'.replies)
      <4>1. PICK a \in Seq(Words) : a = Append(r, w)
        BY AppendProperties
      <4>2. Len(r) \in Nat /\ Len(a) = Len(r) + 1 /\ a[Len(r) + 1] = w /\ \A i \in 1..Len(r) : a[i] = r[i]
        BY <4>1, AppendProperties
      <4>3. answer'.replies = a
        BY <3>2, <3>4, <4>1, AppendIsConcat
      <4>4. SaidAfter(wire, a) <=> IF OnNaws(w) THEN w.is = "WILL" ELSE SaidAfter(wire, r)
        BY <4>2, SaidLast DEF SaidAfter
      <4> QED BY <1>6, <3>2, <3>4, <4>3, <4>4
    <3>5. \/ /\ Answered(proto, o).reply = <<>>
             /\ "naws" \in Answered(proto, o).proto.us <=> "naws" \in proto.us
          \/ \E w \in Words :
               /\ Answered(proto, o).reply = <<w>>
               /\ IF OnNaws(w) THEN "naws" \in Answered(proto, o).proto.us <=> w.is = "WILL"
                  ELSE "naws" \in Answered(proto, o).proto.us <=> "naws" \in proto.us
      BY <1>3, AnsweredIs
    <3> QED BY <3>3, <3>4, <3>5
  <2>2. CASE proto.verb = "none" /\ x.is \in Verbs
    <3>1. proto' = [proto EXCEPT !.verb = x.is] /\ answer'.replies = r
      BY <1>2, <1>4, <2>2 DEF Taking, Verbs, Options
    <3>2. proto'.us = proto.us
      BY <1>3, <3>1 DEF Proto
    <3> QED BY <1>6, <3>1, <3>2
  <2>3. CASE proto.verb = "none" /\ x.is = "rx"
    <3>1. proto' = proto /\ answer'.replies = r
      BY <1>2, <1>4, <2>3 DEF Taking, Verbs
    <3> QED BY <1>6, <3>1
  <2> QED BY <1>2, <2>1, <2>2, <2>3 DEF Taking
<1> QED BY <1>1, <1>5, <1>7 DEF NawsInv

LEMMA NawsSends ==
  ASSUME ControlInv, SendInv, NawsInv, NEW t \in Threads, SendsOne(t),
         UNCHANGED <<kind, manager, proto, answer>>
  PROVE  NawsInv'
<1>1. PICK unit \in Words, rest \in Seq(Words), state \in Writing, sent \in Sent :
           /\ sending[t].rest = Cat(<<unit>>, rest)
           /\ sent = [id |-> sending[t].id, is |-> unit.is, opt |-> unit.opt]
           /\ wire' = Append(wire, sent) /\ Grows(sent)
           /\ sent.id = sending[t].id /\ 0 < sent.id /\ sent.id <= writes /\ sent.is # "hello"
           /\ sent.is = unit.is /\ sent.opt = unit.opt
           /\ kind # "ssh" => <<sent.id, made>> \in began
           /\ state.at = (IF rest = <<>> THEN "done" ELSE "sending") /\ state.rest = rest
           /\ state.id = sending[t].id
           /\ \A u \in Threads : sending'[u] = IF u = t THEN state ELSE sending[u]
  BY SentIs
<1>2. OnNaws(sent) <=> OnNaws(unit)
  BY <1>1 DEF OnNaws
<1>3. /\ NoNaws(wire') <=> NoNaws(wire) /\ ~OnNaws(sent)
      /\ SaysWill(wire') <=> IF OnNaws(sent) THEN sent.is = "WILL" ELSE SaysWill(wire)
  <2>1. /\ Len(wire) \in Nat /\ Len(wire') = Len(wire) + 1
        /\ wire'[Len(wire) + 1] = sent /\ \A i \in 1..Len(wire) : wire'[i] = wire[i]
    BY <1>1 DEF Grows
  <2> QED BY <2>1, SaidLast
<1>4. "conn" \in Threads /\ sending[t].at = "sending"
  BY DEF Threads, SendsOne
<1>5. PICK l \in Seq(Words) : l = <<unit>> /\ Len(l) = 1 /\ l[1] = unit
  BY OneOf
<1>6. PICK s : s = sending[t].rest
  OBVIOUS
<1>7. Len(rest) \in Nat /\ Len(s) = Len(rest) + 1 /\ s[1] = unit /\ \A i \in 1..Len(rest) : s[i + 1] = rest[i]
  <2>1. /\ Len(l \o rest) = Len(l) + Len(rest) /\ Len(rest) \in Nat
        /\ \A i \in 1..Len(l) : (l \o rest)[i] = l[i]
        /\ \A i \in 1..Len(rest) : (l \o rest)[Len(l) + i] = rest[i]
    OBVIOUS
  <2>2. s = l \o rest
    BY <1>1, <1>5, <1>6 DEF Cat
  <2>3. \A i \in 1..Len(rest) : 1 + i = i + 1
    BY <2>1
  <2> QED BY <1>5, <2>1, <2>2, <2>3
<1>8. CASE t = "conn"
  <2>1. sending["conn"].at = "sending" /\ sending'["conn"] = state /\ state.at \in {"done", "sending"}
    BY <1>1, <1>4, <1>8
  <2>2. Unsaid = s /\ Unsaid' = rest
    BY <1>1, <1>6, <1>8, <2>1 DEF Unsaid
  <2>3. SaidAfter(wire', rest) <=> SaidAfter(wire, s)
    BY <1>1, <1>2, <1>3, <1>7, SaidFirst DEF SaidAfter
  <2> QED BY <2>1, <2>2, <2>3 DEF NawsInv
<1>9. CASE t # "conn"
  <2>1. sending'["conn"] = sending["conn"] /\ Unsaid' = Unsaid
    BY <1>1, <1>4, <1>9 DEF Unsaid
  <2>2. ~OnNaws(sent)
    <3>1. 1 \in 1..Len(s)
      BY <1>7
    <3>2. unit.is \in {"data", "resize"}
      BY <1>6, <1>7, <1>9, <3>1 DEF SendInv
    <3> QED BY <1>1, <3>2 DEF OnNaws
  <2>3. SaidAfter(wire', Unsaid) <=> SaidAfter(wire, Unsaid)
    BY <1>3, <2>2 DEF SaidAfter
  <2> QED BY <2>1, <2>3 DEF NawsInv
<1> QED BY <1>8, <1>9

LEMMA NawsKept ==
  ASSUME ControlInv, ItemInv, SendInv, NawsInv, SourceNext
  PROVE  NawsInv'
<1>0. SendTypes /\ sending \in [Threads -> Writing] /\ "conn" \in Threads /\ "ui" \in Threads
      /\ "pty" \in Threads
  BY DEF SendInv, SendTypes, Threads
<1>1. CASE FarSteps
  <2>1. UNCHANGED <<kind, manager, wire, sending, answer>>
    BY <1>1, FarIs DEF stores
  <2>2. proto' = proto
    BY <1>1, FarSpecs DEF ItemInv, Adds, Broken
  <2>3. Unsaid' = Unsaid
    BY <2>1 DEF Unsaid
  <2> QED BY <2>1, <2>2, <2>3, NawsAside
<1>2. CASE WriterSteps
  <2>1. WriterForms /\ UNCHANGED <<kind, manager, proto, answer>>
    BY <1>0, <1>2, WritersForm, WritersAre DEF SendInv, Active, stores
  <2>2. ASSUME NEW t \in Threads, SendsOne(t) PROVE NawsInv'
    BY <2>1, <2>2, NawsSends
  <2>3. ASSUME wire' = wire, sending'["conn"] = sending["conn"] PROVE NawsInv'
    BY <2>1, <2>3, NawsAside DEF Unsaid
  <2>4. ASSUME NEW t \in Threads, Ends(t), t = "conn" => sending'[t].at = "failed" PROVE NawsInv'
    <3>1. wire' = wire
      BY <2>4 DEF Ends
    <3>2. CASE t # "conn"
      BY <1>0, <2>3, <2>4, <3>1, <3>2 DEF Ends, Becomes
    <3>3. CASE t = "conn"
      BY <2>1, <2>4, <3>3, NawsAside
    <3> QED BY <3>2, <3>3
  <2>5. ASSUME NEW t \in Threads, TakesHold(t) PROVE NawsInv'
    <3>1. /\ wire' = wire /\ sending'["conn"].rest = sending["conn"].rest
          /\ sending'["conn"].at = "idle" <=> sending["conn"].at = "idle"
          /\ sending["conn"].at = "failed" => sending'["conn"].at = "failed"
      BY <1>0, <2>5 DEF TakesHold, Becomes, Writing
    <3> QED BY <2>1, <3>1, NawsAside DEF Unsaid
  <2>6. ASSUME NEW t \in {"ui", "pty"}, NEW units, Begun(t, units) PROVE NawsInv'
    <3>1. wire' = wire /\ sending'["conn"] = sending["conn"]
      BY <1>0, <2>6 DEF Begun, Becomes
    <3> QED BY <2>3, <3>1
  <2>7. ASSUME Begun("conn", answer.replies) PROVE NawsInv'
    <3>1. wire' = wire /\ sending["conn"].at = "idle" /\ sending'["conn"].at = "checked"
          /\ sending'["conn"].rest = answer.replies
      BY <1>0, <2>7 DEF Begun, Becomes
    <3> QED BY <2>1, <3>1, NawsAside DEF Unsaid
  <2> QED BY <2>1, <2>2, <2>4, <2>5, <2>6, <2>7 DEF WriterForms
<1> QED BY <1>1, <1>2, NawsThread, NawsReceive DEF SourceNext

-----------------------------------------------------------------------------
(* All of it *)

SourcesInv == ControlInv /\ UartInv /\ ItemInv /\ SendInv /\ HelloInv /\ WireInv /\ WholeInv
              /\ NawsInv

LEMMA SourcesStart == ASSUME Init PROVE SourcesInv
<1>0. use \in Uses /\ use.kind \in Kinds /\ use.serial \in BOOLEAN
  BY UsesAssumption DEF Init
<1>1. /\ kind \in Kinds /\ serial \in BOOLEAN
      /\ manager = "open" /\ connected = FALSE
      /\ conn = 0 /\ made = 0 /\ far = "gone" /\ greeted = FALSE /\ inbox = <<>> /\ wire = <<>> /\ spoke = 0
      /\ recvBuf = <<>> /\ pending = <<>> /\ proto = Fresh /\ answer = NoAnswer
      /\ sending = [t \in Threads |-> Idle] /\ writes = 0
      /\ heard = <<>> /\ accepted = {} /\ botched = {} /\ swallowed = {} /\ began = {} /\ raised = {}
  BY <1>0 DEF Init, SourceInit
<1>2. ControlInv
  <2>1. LinkTypes
    BY <1>1 DEF LinkTypes
  <2>2. manager \in Managers /\ manager \notin Reading
    BY <1>1 DEF Managers, Reading
  <2>3. connected \in BOOLEAN /\ ~connected
    BY <1>1, Zenon
  <2> QED BY <1>1, <2>1, <2>2, <2>3 DEF ControlInv, PlaceInv
<1>3. UartInv
  BY <1>1 DEF Init, SourceInit, UartInv, UartTypes, NoIdentity, Paths, Adapters, Places
<1>4. ItemInv
  <2>1. ItemTypes
    <3>1. Fresh \in Proto
      BY DEF Fresh, Proto
    <3>2. answer \in [chunk : Seq(Items), data : Seq(Items), replies : Seq(Words)]
      BY <1>1, NoneTypes, Zenon
    <3>3. inbox \in Seq(Items) /\ recvBuf \in Seq(Items) /\ pending \in Seq(Items) /\ heard \in Seq(Items)
      BY <1>1, NoneTypes, Zenon
    <3>4. swallowed \subseteq Items /\ spoke \in Nat
      BY <1>1
    <3>5. proto \in Proto
      BY <1>1, <3>1
    <3> QED BY <3>2, <3>3, <3>4, <3>5 DEF ItemTypes
  <2>2. ToSet(inbox) = {} /\ ToSet(heard) = {} /\ ToSet(pending) = {} /\ ToSet(answer.data) = {}
    BY <1>1, NothingIn DEF NoAnswer, ToSet
  <2>3. ShapeInv
    BY <1>1, <2>2 DEF ShapeInv
  <2>4. CommandInv
    BY <1>1 DEF CommandInv
  <2> QED BY <2>1, <2>3, <2>4 DEF ItemInv
<1>5. SendInv
  <2>1. <<>> \in Seq(Words) /\ <<>> \in Seq(Sent) /\ 1..Len(<<>>) = {}
    OBVIOUS
  <2>2. /\ \A t \in Threads : sending[t].at = "idle" /\ sending[t].rest = <<>>
        /\ "conn" \in Threads
    BY <1>1 DEF Idle, Threads
  <2>3. Idle \in Writing
    BY <2>1 DEF Idle, Writing
  <2>4. SendTypes
    BY <1>1, <2>1, <2>3 DEF SendTypes
  <2> QED BY <1>1, <2>1, <2>2, <2>4 DEF SendInv, Active
<1>6. 1..Len(wire) = {}
  BY <1>1
<1>7. HelloInv
  BY <1>1, <1>6 DEF HelloInv
<1>8. WireInv
  <2>1. \A t \in Threads : sending[t].at = "idle"
    BY <1>1 DEF Idle
  <2> QED BY <1>1, <1>6, <2>1 DEF WireInv, Orderly
<1>9. NawsInv
  BY <1>1 DEF NawsInv
<1>10. WholeInv
  <2>1. \A t \in Threads : sending[t].at = "idle"
    BY <1>1 DEF Idle
  <2> QED BY <1>1, <1>6, <2>1 DEF WholeInv, Active
<1> QED BY <1>2, <1>3, <1>4, <1>5, <1>7, <1>8, <1>9, <1>10 DEF SourcesInv

LEMMA SourcesKept == ASSUME SourcesInv, [Next]_vars PROVE SourcesInv'
<1>1. CASE SourceNext
  BY <1>1, ControlKept, UartKept, ItemKept, SendKept, HelloKept, WireKept, WholeKept, NawsKept DEF SourcesInv
<1>2. CASE UNCHANGED sourceVars
  <2>1. UNCHANGED <<kind, serial, manager, connected, conn, made, far, greeted, inbox, spoke, wire, recvBuf,
                    pending, proto,
                    answer, sending, writes, heard, accepted, botched, swallowed, began, raised, ports, place,
                    path, identity, moved, claim, guest>>
    BY <1>2 DEF sourceVars, linkVars, stores, ghosts, uartVars
  <2>2. ControlInv'
    BY <2>1 DEF SourcesInv, ControlInv, LinkTypes, PlaceInv
  <2>3. UartInv'
    BY <2>1 DEF SourcesInv, UartInv, UartTypes
  <2>4. ItemInv'
    <3>1. Commands' = Commands
      BY <2>1 DEF Commands
    <3>2. ItemTypes' /\ ShapeInv'
      BY <2>1 DEF SourcesInv, ItemInv, ItemTypes, ShapeInv
    <3>3. CommandInv'
      BY <2>1, <3>1 DEF SourcesInv, ItemInv, CommandInv
    <3> QED BY <3>2, <3>3 DEF ItemInv
  <2>5. SendInv'
    BY <2>1 DEF SourcesInv, SendInv, SendTypes, Active
  <2>6. HelloInv' /\ WireInv'
    BY <2>1 DEF SourcesInv, HelloInv, WireInv, Orderly
  <2>7. NawsInv'
    BY <2>1, NawsAside DEF SourcesInv, Unsaid
  <2>8. WholeInv'
    BY <2>1 DEF SourcesInv, WholeInv, HalfSent, Settled, Whole, Active
  <2> QED BY <2>2, <2>3, <2>4, <2>5, <2>6, <2>7, <2>8 DEF SourcesInv
<1> QED BY <1>1, <1>2, SourceSteps

LEMMA SourcesWhole == ASSUME SourcesInv PROVE WritesStayWhole
<1>1. ASSUME kind = "socket", greeted
      PROVE  Contiguous(wire) /\ \A i \in 1..Len(wire) : Settled(i)
  BY <1>1 DEF SourcesInv, HelloInv, WireInv, Orderly, WholeInv
<1>2. ASSUME kind # "ssh" PROVE \A u \in ToSet(wire) : u.id # 0 => <<u.id, made>> \in began
  <2>1. wire \in Seq(Sent)
    BY DEF SourcesInv, SendInv, SendTypes
  <2>2. \A u \in ToSet(wire) : \E i \in 1..Len(wire) : u = wire[i]
    BY <2>1 DEF ToSet
  <2> QED BY <1>2, <2>2 DEF SourcesInv, WireInv
<1>3. ASSUME kind = "telnet", manager = "read" PROVE ("naws" \in proto.us) = SaysWill(wire)
  <2>1. sending["conn"].at = "idle" /\ answer = NoAnswer
    BY <1>3 DEF SourcesInv, SendInv, ItemInv, ShapeInv
  <2>2. Unsaid = <<>>
    BY <2>1 DEF Unsaid, NoAnswer
  <2>3. "naws" \in proto.us <=> SaidAfter(wire, <<>>)
    BY <1>3, <2>1, <2>2 DEF SourcesInv, NawsInv
  <2>4. NoNaws(<<>>) /\ ~SaysWill(<<>>)
    BY DEF NoNaws, SaysWill
  <2>5. SaidAfter(wire, <<>>) <=> SaysWill(wire)
    BY <2>4 DEF SaidAfter
  <2>6. SaysWill(wire) \in BOOLEAN
    BY DEF SaysWill
  <2> QED BY <2>3, <2>5, <2>6
<1> QED BY <1>1, <1>2, <1>3 DEF WritesStayWhole, Contiguous, Settled

\* However the threads that write, the thread that reads and the other end interleave, and whatever
\* connections come and go: no message to a proxy lies in another, and each is whole but for the one
\* being sent and those whose sendall raised; a write reaches one connection; and what was said of
\* the window size is what is done about it.
THEOREM SourcesWriteWhole == Spec => []WritesStayWhole
<1>1. Init => SourcesInv
  BY SourcesStart
<1>2. SourcesInv /\ [Next]_vars => SourcesInv'
  BY SourcesKept
<1>3. SourcesInv => WritesStayWhole
  BY SourcesWhole
<1> QED BY <1>1, <1>2, <1>3, PTL DEF Spec

-----------------------------------------------------------------------------
(* Types *)

RestTypes ==
  /\ kind \in Kinds /\ replays \in BOOLEAN /\ far \in {"up", "gone"} /\ greeted \in BOOLEAN
  /\ spoke \in 0..MaxSpoken /\ asked \in 0..MaxAsked
  /\ role \in {"none", "full", "readonly"} /\ refusal \in {"none", "answer", "leftover"}
  /\ use \in Uses

LEMMA RestKept ==
  ASSUME RestTypes, [Next]_vars
  PROVE  RestTypes'
<1>1. use' = use
  BY DEF Next, Session, Hear, Writers, UiWrites, Far, Clients, ForwardBegins, ForwardFails, ForwardEnds, vars
<1>2. CASE OpenUrl \/ OpenSsh \/ OpenTelnet \/ OpenUart \/ FollowUart \/ Dial
  <2>1. UNCHANGED <<kind, replays, role, refusal>> /\ Connects
    BY <1>2 DEF OpenUrl, OpenSsh, OpenTelnet, Opens, OpenUart, FollowUart, FollowsTo, OpenAt, Dial, stores,
                ghosts
  <2>2. far' = "up" /\ greeted' = FALSE /\ spoke' = 0 /\ asked' = 0
    BY <2>1 DEF Connects
  <2>3. greeted' \in BOOLEAN
    BY <2>2, Zenon
  <2>4. spoke' \in 0..MaxSpoken /\ asked' \in 0..MaxAsked
    BY <2>2
  <2> QED BY <1>1, <2>1, <2>2, <2>3, <2>4 DEF RestTypes
<1>3. CASE Refused \/ Accepted \/ NoAnswerCame \/ TriedTooSoon
  <2>1. UNCHANGED <<kind, replays, far, greeted, spoke, asked>>
    BY <1>3 DEF Refused, Accepted, NoAnswerCame, TriedTooSoon, GiveUp, Drops, Leaves, linkVars
  <2>2. role' \in {role, "full", "readonly"} /\ refusal' \in {refusal, "answer", "leftover"}
    BY <1>3 DEF Refused, Accepted, NoAnswerCame, TriedTooSoon, GiveUp, ghosts
  <2> QED BY <1>1, <2>1, <2>2 DEF RestTypes
<1>4. CASE Claim \/ OpenAgain \/ FollowInVain \/ SayHello \/ OpenRaises \/ ReceiveMore \/ AnswerIsGarbage
           \/ CollectLine \/ CollectNoMore
  BY <1>1, <1>4
     DEF RestTypes, Claim, OpenAgain, FollowInVain, SayHello, OpenRaises, ReceiveMore, AnswerIsGarbage, Botch,
                    CollectLine,
                    CollectNoMore, linkVars, stores, ghosts
<1>5. CASE Reads \/ ReadTelnet \/ Receive
  BY <1>1, <1>5
     DEF RestTypes, Reads, ReadUart, ReadUrl, ReadSsh, Gets, Received, Replied, ReadPending, ReadTelnet,
       Receive,
                    linkVars, stores, ghosts
<1>6. CASE Ingest \/ IngestLine \/ Ingested \/ ReadRaises \/ CloseSource \/ Retry
  BY <1>1, <1>6
     DEF RestTypes, Ingest, IngestLine, Ingested, ReadRaises, CloseSource, Retry, Drops, Leaves, linkVars,
       stores, ghosts
<1>7. CASE WriterSteps
  <2>1. UNCHANGED <<kind, replays, far, greeted, spoke, asked, role, refusal>>
    BY <1>7 DEF WriterSteps, WriteReturns, BeginReply, BeginResize, BeginWrite, Begins, WriteStep,
       WriteRefused, TakeLink,
                SendSome, SendOnReused, SendUnit, SendRaises, Sends, stores
  <2> QED BY <1>1, <2>1 DEF RestTypes
<1>8. CASE FarSteps
  <2>1. UNCHANGED <<kind, replays, role, refusal>>
    BY <1>8 DEF FarSteps, FarAccepts, FarSpeaks, FarRefuses, FarAsks, Arrives, FarBreaks, Breaks, Unplug,
       PlugIn, GuestOpens,
                GuestReads, stores, ghosts
  <2>2. far' \in {"up", "gone"} /\ greeted' \in BOOLEAN /\ spoke' \in 0..MaxSpoken /\ asked' \in 0..MaxAsked
    <3>1. CASE GuestOpens \/ GuestReads \/ \E a \in Adapters, p \in Paths, s \in Places : PlugIn(a, p, s)
      <4>1. UNCHANGED <<far, greeted, spoke, asked>>
        BY <3>1 DEF GuestOpens, GuestReads, PlugIn, linkVars
      <4> QED BY <4>1 DEF RestTypes
    <3>2. CASE FarAccepts \/ FarSpeaks
      <4>1. /\ UNCHANGED far /\ (greeted' = greeted \/ greeted' = TRUE) /\ asked' = asked
            /\ spoke' = spoke \/ (spoke < MaxSpoken /\ spoke' = spoke + 1)
        BY <3>2 DEF FarAccepts, FarSpeaks
      <4>2. greeted' \in BOOLEAN
        BY <4>1 DEF RestTypes
      <4>3. spoke' \in 0..MaxSpoken
        BY <4>1 DEF RestTypes
      <4> QED BY <4>1, <4>2, <4>3 DEF RestTypes
    <3>3. ASSUME NEW is, FarRefuses(is) PROVE <2>2!:
      BY <3>3 DEF RestTypes, FarRefuses
    <3>4. ASSUME NEW verb, NEW opt, FarAsks(verb, opt) PROVE <2>2!:
      BY <3>4 DEF RestTypes, FarAsks
    <3>5. ASSUME NEW keep, NEW cut, FarBreaks(keep, cut) \/ \E p \in Paths : Unplug(p) PROVE <2>2!:
      BY <3>5 DEF RestTypes, FarBreaks, Unplug, Breaks, linkVars
    <3> QED BY <1>8, <3>1, <3>2, <3>3, <3>4, <3>5 DEF FarSteps
  <2> QED BY <1>1, <2>1, <2>2 DEF RestTypes
<1>9. CASE UNCHANGED sourceVars
  BY <1>1, <1>9 DEF RestTypes, sourceVars, linkVars, stores, ghosts
<1> QED BY <1>2, <1>3, <1>4, <1>5, <1>6, <1>7, <1>8, <1>9, SourceSteps DEF SourceNext, OpenStep

LEMMA SourcesTyped ==
  ASSUME SourcesInv, RestTypes
  PROVE  SourceTypeOK
<1>1. /\ conn \in 0..MaxConns /\ made \in 0..MaxConns /\ conn \in {0, made} /\ connected \in BOOLEAN
      /\ connected => conn # 0
      /\ accepted \subseteq 1..made /\ botched \subseteq 1..made
      /\ manager \in Managers
  BY DEF SourcesInv, ControlInv, LinkTypes, PlaceInv, Reading
<1>2. /\ inbox \in Seq(Items) /\ recvBuf \in Seq(Items) /\ pending \in Seq(Items)
      /\ heard \in Seq(Items) /\ swallowed \subseteq Items
      /\ \A item \in ToSet(inbox) : item.conn = conn
      /\ \A item \in ToSet(heard) \union ToSet(pending) : IsOutput(item)
      /\ answer \in [chunk : Seq(Items), data : Seq(Items), replies : Seq(Words)]
      /\ proto \in Proto
  BY DEF SourcesInv, ItemInv, ItemTypes, ShapeInv
<1>3. wire \in Seq(Sent) /\ began \subseteq Nat \X (0..MaxConns) /\ writes \in Nat /\ raised \subseteq Nat
      /\ sending \in [Threads -> Writing]
  BY DEF SourcesInv, SendInv, SendTypes
<1>4. UartTypes /\ (claim => manager = "read" \/ manager = "close")
  BY DEF SourcesInv, UartInv
<1> QED BY <1>1, <1>2, <1>3, <1>4 DEF SourceTypeOK, RestTypes, Managers, Proto, Writing, UartTypes

\* Every variable of the device's path keeps its type, and no bound is passed.
THEOREM TypeCorrect == Spec => []TypeOK
<1> DEFINE Inv == MirrorsInv /\ SourcesInv /\ RestTypes
<1>1. Init => Inv
  <2> SUFFICES ASSUME Init PROVE Inv
    OBVIOUS
  <2>1. RestTypes
    <3>1. use \in Uses /\ use.kind \in Kinds /\ use.replays \in BOOLEAN
      BY UsesAssumption DEF Init
    <3>2. /\ kind = use.kind /\ replays = use.replays /\ far = "gone" /\ greeted = FALSE /\ spoke = 0
          /\ asked = 0
          /\ role = "none" /\ refusal = "none"
      BY DEF Init, SourceInit
    <3>3. greeted \in BOOLEAN
      BY <3>2, Zenon
    <3>4. spoke \in 0..MaxSpoken /\ asked \in 0..MaxAsked
      BY <3>2
    <3> QED BY <3>1, <3>2, <3>3, <3>4 DEF RestTypes
  <2> QED BY <2>1, MirrorsStart, SourcesStart
<1>2. Inv /\ [Next]_vars => Inv'
  BY MirrorsKept, SourcesKept, RestKept
<1>3. Inv => TypeOK
  BY SourcesTyped DEF MirrorsInv, TypeOK, RestTypes
<1> QED BY <1>1, <1>2, <1>3, PTL DEF Spec

-----------------------------------------------------------------------------
(* The device's outputs in a sequence, and the order they are in *)

Comes(x, y) == x.conn < y.conn \/ (x.conn = y.conn /\ x.n < y.n)
Outs(s) == {x \in ToSet(s) : IsOutput(x)}
Ordered(s) == \A i, j \in 1..Len(s) : i < j /\ IsOutput(s[i]) /\ IsOutput(s[j]) => Comes(s[i], s[j])
Follows(early, late) == \A x \in early, y \in late : Comes(x, y)

LEMMA OutsAre ==
  /\ Outs(<<>>) = {} /\ Ordered(<<>>)
  /\ \A x \in Items : Outs(<<x>>) = (IF IsOutput(x) THEN {x} ELSE {}) /\ Ordered(<<x>>)
<1>1. Outs(<<>>) = {} /\ Ordered(<<>>)
  BY NothingIn DEF Outs, Ordered
<1>2. ASSUME NEW x \in Items PROVE Outs(<<x>>) = (IF IsOutput(x) THEN {x} ELSE {}) /\ Ordered(<<x>>)
  <2>1. ToSet(<<x>>) = {x}
    BY SetOfOne
  <2>2. PICK l \in Seq(Items) : l = <<x>> /\ Len(l) = 1
    BY OneOf
  <2>3. Ordered(l)
    BY <2>2 DEF Ordered
  <2> QED BY <2>1, <2>2, <2>3 DEF Outs
<1> QED BY <1>1, <1>2

LEMMA OutsOfCat ==
  \A s, t \in Seq(Items) :
    /\ Outs(Cat(s, t)) = Outs(s) \union Outs(t)
    /\ Ordered(Cat(s, t)) <=> Ordered(s) /\ Ordered(t) /\ Follows(Outs(s), Outs(t))
<1> TAKE s, t \in Seq(Items)
<1>1. PICK c \in Seq(Items) : c = Cat(s, t)
  BY CatIs
<1>2. /\ Len(s) \in Nat /\ Len(t) \in Nat /\ Len(c) = Len(s) + Len(t)
      /\ \A i \in 1..Len(s) : c[i] = s[i]
      /\ \A i \in 1..Len(t) : c[Len(s) + i] = t[i]
  <2>1. /\ Len(s \o t) = Len(s) + Len(t) /\ Len(s) \in Nat /\ Len(t) \in Nat
        /\ \A i \in 1..Len(s) : (s \o t)[i] = s[i]
        /\ \A i \in 1..Len(t) : (s \o t)[Len(s) + i] = t[i]
    OBVIOUS
  <2> QED BY <1>1, <2>1 DEF Cat
<1>3. Outs(c) = Outs(s) \union Outs(t)
  <2>1. ToSet(c) = ToSet(s) \union ToSet(t)
    BY <1>1, CatSets
  <2> QED BY <2>1 DEF Outs
<1>4. /\ \A x \in Outs(s) : \E i \in 1..Len(s) : x = s[i]
      /\ \A x \in Outs(t) : \E i \in 1..Len(t) : x = t[i]
      /\ \A i \in 1..Len(s) : IsOutput(s[i]) => s[i] \in Outs(s)
      /\ \A i \in 1..Len(t) : IsOutput(t[i]) => t[i] \in Outs(t)
  BY DEF Outs, ToSet
<1>5. ASSUME Ordered(c) PROVE Ordered(s) /\ Ordered(t) /\ Follows(Outs(s), Outs(t))
  <2>1. \A i \in 1..Len(s) : i \in 1..Len(c)
    BY <1>2
  <2>2. \A i \in 1..Len(t) : Len(s) + i \in 1..Len(c)
    BY <1>2
  <2>3. Ordered(s)
    BY <1>2, <1>5, <2>1 DEF Ordered
  <2>4. Ordered(t)
    <3>1. \A i, j \in 1..Len(t) : i < j => Len(s) + i < Len(s) + j
      BY <1>2
    <3> QED BY <1>2, <1>5, <2>2, <3>1 DEF Ordered
  <2>5. \A i \in 1..Len(s), j \in 1..Len(t) : i < Len(s) + j
    BY <1>2
  <2>6. ASSUME NEW i \in 1..Len(s), NEW j \in 1..Len(t), IsOutput(s[i]), IsOutput(t[j]) PROVE Comes(s[i], t[j])
    BY <1>2, <1>5, <2>1, <2>2, <2>5, <2>6 DEF Ordered
  <2>7. ASSUME NEW x \in Outs(s), NEW y \in Outs(t) PROVE Comes(x, y)
    <3>1. IsOutput(x) /\ IsOutput(y)
      BY DEF Outs
    <3> QED BY <1>4, <2>6, <3>1
  <2> QED BY <2>3, <2>4, <2>7 DEF Follows
<1>6. ASSUME Ordered(s), Ordered(t), Follows(Outs(s), Outs(t)) PROVE Ordered(c)
  <2> SUFFICES ASSUME NEW i \in 1..Len(c), NEW j \in 1..Len(c), i < j, IsOutput(c[i]), IsOutput(c[j])
               PROVE  Comes(c[i], c[j])
    BY DEF Ordered
  <2>1. CASE j <= Len(s)
    <3>1. i \in 1..Len(s) /\ j \in 1..Len(s)
      BY <1>2, <2>1
    <3> QED BY <1>2, <1>6, <3>1 DEF Ordered
  <2>2. CASE i <= Len(s) /\ ~(j <= Len(s))
    <3>1. i \in 1..Len(s) /\ j - Len(s) \in 1..Len(t) /\ Len(s) + (j - Len(s)) = j
      BY <1>2, <2>2
    <3>2. c[i] = s[i] /\ c[j] = t[j - Len(s)]
      BY <1>2, <3>1
    <3> QED BY <1>4, <1>6, <3>1, <3>2 DEF Follows
  <2>3. CASE ~(i <= Len(s))
    <3>1. /\ i - Len(s) \in 1..Len(t) /\ Len(s) + (i - Len(s)) = i
          /\ j - Len(s) \in 1..Len(t) /\ Len(s) + (j - Len(s)) = j
          /\ i - Len(s) < j - Len(s)
      BY <1>2, <2>3
    <3>2. c[i] = t[i - Len(s)] /\ c[j] = t[j - Len(s)]
      BY <1>2, <3>1
    <3> QED BY <1>6, <3>1, <3>2 DEF Ordered
  <2> QED BY <2>1, <2>2, <2>3
<1> QED BY <1>1, <1>3, <1>5, <1>6

\* A piece of a line comes last, if at all.
IsPart(x) == x.is = "part"
NoPart(s) == \A x \in ToSet(s) : ~IsPart(x)
LastOnly(s) == \A i \in 1..Len(s) : IsPart(s[i]) => i = Len(s)
Torn(s) == s # <<>> /\ IsPart(s[Len(s)])

LEMMA PartsOf ==
  \A s \in Seq(Items) : /\ NoPart(s) => LastOnly(s) /\ ~Torn(s)
                        /\ s # <<>> => s[1] \in ToSet(s)
<1> TAKE s \in Seq(Items)
<1>1. \A i \in 1..Len(s) : s[i] \in ToSet(s)
  BY DEF ToSet
<1>2. s # <<>> => 1 \in 1..Len(s) /\ Len(s) \in 1..Len(s)
  OBVIOUS
<1> QED BY <1>1, <1>2 DEF NoPart, LastOnly, Torn

LEMMA PartsOfCat ==
  \A s, t \in Seq(Items) :
    /\ LastOnly(Cat(s, t)) => LastOnly(t) /\ (t # <<>> => NoPart(s))
    /\ NoPart(s) /\ LastOnly(t) => LastOnly(Cat(s, t))
    /\ NoPart(Cat(s, t)) <=> NoPart(s) /\ NoPart(t)
    /\ t # <<>> => (Torn(Cat(s, t)) <=> Torn(t))
    /\ s # <<>> => Cat(s, t) # <<>> /\ Cat(s, t)[1] = s[1]
<1> TAKE s, t \in Seq(Items)
<1>1. PICK c \in Seq(Items) : c = Cat(s, t)
  BY CatIs
<1>2. /\ Len(s) \in Nat /\ Len(t) \in Nat /\ Len(c) = Len(s) + Len(t)
      /\ \A i \in 1..Len(s) : c[i] = s[i]
      /\ \A i \in 1..Len(t) : c[Len(s) + i] = t[i]
  <2>1. /\ Len(s \o t) = Len(s) + Len(t) /\ Len(s) \in Nat /\ Len(t) \in Nat
        /\ \A i \in 1..Len(s) : (s \o t)[i] = s[i]
        /\ \A i \in 1..Len(t) : (s \o t)[Len(s) + i] = t[i]
    OBVIOUS
  <2> QED BY <1>1, <2>1 DEF Cat
<1>3. ASSUME LastOnly(c) PROVE LastOnly(t) /\ (t # <<>> => NoPart(s))
  <2>1. \A i \in 1..Len(t) : Len(s) + i \in 1..Len(c) /\ (Len(s) + i = Len(c) => i = Len(t))
    BY <1>2
  <2>2. LastOnly(t)
    BY <1>2, <1>3, <2>1 DEF LastOnly
  <2>3. t # <<>> => \A i \in 1..Len(s) : i \in 1..Len(c) /\ i # Len(c)
    BY <1>2
  <2>4. \A x \in ToSet(s) : \E i \in 1..Len(s) : x = s[i]
    BY DEF ToSet
  <2> QED BY <1>2, <1>3, <2>2, <2>3, <2>4 DEF LastOnly, NoPart
<1>4. ASSUME NoPart(s), LastOnly(t) PROVE LastOnly(c)
  <2> SUFFICES ASSUME NEW i \in 1..Len(c), IsPart(c[i]) PROVE i = Len(c)
    BY DEF LastOnly
  <2>1. ~(i <= Len(s))
    <3>1. ASSUME i <= Len(s) PROVE FALSE
      <4>1. i \in 1..Len(s)
        BY <1>2, <3>1
      <4>2. s[i] \in ToSet(s)
        BY <4>1 DEF ToSet
      <4> QED BY <1>2, <1>4, <4>1, <4>2 DEF NoPart
    <3> QED BY <3>1
  <2>2. i - Len(s) \in 1..Len(t) /\ Len(s) + (i - Len(s)) = i
    BY <1>2, <2>1
  <2>3. PICK k \in 1..Len(t) : Len(s) + k = i
    BY <2>2
  <2>4. c[i] = t[k]
    BY <1>2, <2>3
  <2>5. k = Len(t)
    BY <1>4, <2>4 DEF LastOnly
  <2> QED BY <1>2, <2>3, <2>5
<1>5. NoPart(c) <=> NoPart(s) /\ NoPart(t)
  <2>1. ToSet(c) = ToSet(s) \union ToSet(t)
    BY <1>1, CatSets
  <2> QED BY <2>1 DEF NoPart
<1>6. ASSUME t # <<>> PROVE Torn(c) <=> Torn(t)
  <2>1. Len(t) \in 1..Len(t) /\ Len(c) = Len(s) + Len(t) /\ c # <<>>
    BY <1>2, <1>6
  <2>2. c[Len(c)] = t[Len(t)]
    BY <1>2, <2>1
  <2> QED BY <1>6, <2>1, <2>2 DEF Torn
<1>7. s # <<>> => c # <<>> /\ c[1] = s[1]
  <2>1. s # <<>> => 1 \in 1..Len(s)
    BY <1>2
  <2> QED BY <1>2, <2>1
<1> QED BY <1>1, <1>3, <1>4, <1>5, <1>6, <1>7

\* A part of a line waits in recvBuf for no output of the device: after it comes the answer of a
\* proxy, or nothing.
JoinInv ==
  /\ LastOnly(inbox) /\ (far = "up" => NoPart(inbox))
  /\ conn # 0 /\ Torn(recvBuf) =>
       /\ inbox # <<>> => ~IsOutput(inbox[1])
       /\ inbox = <<>> /\ far = "up" => ~greeted

LEMMA PartsOfNone == LastOnly(<<>>) /\ NoPart(<<>>) /\ ~Torn(<<>>)
BY NothingIn DEF LastOnly, NoPart, Torn

\* What has been taken of a sequence: the rest is no more torn than it was.
LEMMA TornTail ==
  \A s \in Seq(Items) : s # <<>> => Tail(s) \in Seq(Items) /\ (Torn(Tail(s)) => Torn(s))
<1> TAKE s \in Seq(Items)
<1> HAVE s # <<>>
<1>1. PICK x \in Items, rest \in Seq(Items) : x = Head(s) /\ rest = Tail(s) /\ s = <<x>> \o rest
  <2>1. Head(s) \in Items /\ Tail(s) \in Seq(Items) /\ s = <<Head(s)>> \o Tail(s)
    BY SetOfTail
  <2> QED BY <2>1, Zenon
<1>2. PICK l \in Seq(Items) : l = <<x>>
  BY OneOf
<1>3. s = Cat(l, rest)
  BY <1>1, <1>2 DEF Cat
<1>4. rest # <<>> => (Torn(s) <=> Torn(rest))
  BY <1>3, PartsOfCat
<1> QED BY <1>1, <1>4, PartsOfNone

LEMMA JoinTakes ==
  ASSUME ControlInv, ItemTypes, JoinInv, ReceiveMore \/ Ingest
  PROVE  JoinInv'
<1>0. inbox \in Seq(Items) /\ recvBuf \in Seq(Items)
  BY DEF ItemTypes
<1>1. UNCHANGED <<far, greeted, conn>>
  BY TakingIn
<1>2. PICK p, q \in Seq(Items) : p # <<>> /\ inbox = Cat(p, q) /\ inbox' = q /\ recvBuf' = Joined(recvBuf, p)
  BY TakingIn
<1>3. LastOnly(q) /\ (q # <<>> => NoPart(p)) /\ (far = "up" => NoPart(q) /\ NoPart(p))
  BY <1>2, PartsOfCat DEF JoinInv
<1>4. Torn(recvBuf') => ~NoPart(p)
  <2>1. CASE recvBuf' = Cat(recvBuf, p)
    <3>1. Torn(recvBuf') => Torn(p)
      BY <1>0, <1>2, <2>1, PartsOfCat
    <3> QED BY <3>1, PartsOf
  <2>2. CASE Merges(recvBuf, p, recvBuf')
    <3>1. PICK front, rest \in Seq(Items), x, y, z \in Items :
            /\ z.is = (IF y.is = "part" THEN "part" ELSE "garbage")
            /\ p = Cat(<<y>>, rest) /\ recvBuf' = Cat(Cat(front, <<z>>), rest)
      BY <2>2 DEF Merges
    <3>2. PICK l, k \in Seq(Items) :
            l = <<y>> /\ k = <<z>> /\ ToSet(l) = {y} /\ k # <<>> /\ Len(k) = 1 /\ k[1] = z
      BY OneOf, SetOfOne
    <3>3. Cat(front, k) \in Seq(Items)
      BY CatIs
    <3>4. CASE rest # <<>>
      <4>1. Torn(recvBuf') => Torn(rest)
        BY <3>1, <3>2, <3>3, <3>4, PartsOfCat
      <4>2. NoPart(p) => NoPart(rest)
        BY <3>1, <3>2, PartsOfCat
      <4> QED BY <4>1, <4>2, PartsOf
    <3>5. CASE rest = <<>>
      <4>1. recvBuf' = Cat(front, k)
        BY <3>1, <3>2, <3>3, <3>5, CatNone
      <4>2. Torn(recvBuf') => Torn(k)
        BY <3>2, <4>1, PartsOfCat
      <4>3. Torn(k) => IsPart(z)
        BY <3>2 DEF Torn
      <4>4. IsPart(z) => IsPart(y)
        BY <3>1 DEF IsPart
      <4>5. y \in ToSet(p)
        <5>1. p = Cat(l, rest)
          BY <3>1, <3>2
        <5>2. ToSet(p) = ToSet(l) \union ToSet(rest)
          BY <5>1, CatSets
        <5> QED BY <3>2, <5>2
      <4> QED BY <4>2, <4>3, <4>4, <4>5 DEF NoPart
    <3> QED BY <3>4, <3>5
  <2> QED BY <1>0, <1>2, <2>1, <2>2, JoinedIs
<1> QED BY <1>1, <1>2, <1>3, <1>4 DEF JoinInv

LEMMA AnsweringParts ==
  ASSUME NEW items \in Seq(Items), Answering(items)
  PROVE  /\ NoPart(items) /\ items # <<>>
         /\ kind = "socket" /\ ~greeted => ~IsOutput(items[1])
<1>1. ASSUME NEW x, NEW y
      PROVE  /\ <<x>> # <<>> /\ <<x, y>> # <<>>
             /\ <<x>>[1] = x /\ <<x, y>>[1] = x
             /\ ToSet(<<x>>) = {x} /\ ToSet(<<x, y>>) = {x, y}
  <2>1. DOMAIN <<x>> = {1} /\ DOMAIN <<x, y>> = {1, 2}
    OBVIOUS
  <2> QED BY <2>1 DEF ToSet
<1>2. ASSUME NEW is, is \notin {"part", "rx"} PROVE ~IsPart(Item(is)) /\ ~IsOutput(Item(is))
  BY <1>2 DEF Item, IsPart, IsOutput
<1>3. ASSUME NEW n PROVE ~IsPart(Output(n))
  BY DEF Output, IsPart
<1> DEFINE Good == /\ NoPart(items) /\ items # <<>>
                   /\ kind = "socket" /\ ~greeted => ~IsOutput(items[1])
<1>4. ASSUME items = IF replays THEN <<Item("ok"), Item("history"), Item("end")>> ELSE <<Item("ok")>>
      PROVE  Good
  <2>1. PICK x, y, z : x = Item("ok") /\ y = Item("history") /\ z = Item("end")
    OBVIOUS
  <2>2. ~IsPart(x) /\ ~IsOutput(x) /\ ~IsPart(y) /\ ~IsPart(z)
    BY <1>2, <2>1
  <2>3. CASE replays
    <3>1. items = <<x, y, z>>
      BY <1>4, <2>1, <2>3
    <3>2. <<x, y, z>> # <<>> /\ <<x, y, z>>[1] = x /\ ToSet(<<x, y, z>>) = {x, y, z}
      <4>1. DOMAIN <<x, y, z>> = {1, 2, 3}
        OBVIOUS
      <4> QED BY <4>1 DEF ToSet
    <3>3. items # <<>> /\ items[1] = x /\ ToSet(items) = {x, y, z}
      BY <3>1, <3>2, Zenon
    <3> QED BY <2>2, <3>3 DEF NoPart
  <2>4. CASE ~replays
    <3>1. items = <<x>>
      BY <1>4, <2>1, <2>4
    <3>2. items # <<>> /\ items[1] = x /\ ToSet(items) = {x}
      BY <1>1, <3>1
    <3> QED BY <2>2, <3>2 DEF NoPart
  <2> QED BY <2>3, <2>4
<1>5. ASSUME NEW is \in {"no", "full"}, items = <<Item(is)>> PROVE Good
  <2>1. PICK x : x = Item(is)
    OBVIOUS
  <2>2. ~IsPart(x) /\ ~IsOutput(x)
    BY <1>2, <2>1
  <2>3. items # <<>> /\ items[1] = x /\ ToSet(items) = {x}
    BY <1>1, <1>5, <2>1
  <2> QED BY <2>2, <2>3 DEF NoPart
<1>6. ASSUME items = <<Output(spoke + 1)>>, kind = "socket" => greeted PROVE Good
  <2>1. PICK x : x = Output(spoke + 1)
    OBVIOUS
  <2>2. items # <<>> /\ ToSet(items) = {x} /\ ~IsPart(x)
    BY <1>1, <1>3, <1>6, <2>1
  <2> QED BY <1>6, <2>2 DEF NoPart
<1>7. ASSUME NEW verb \in Verbs, NEW opt \in Options, items = <<Item(verb), Item(opt)>>, kind = "telnet"
      PROVE  Good
  <2>1. PICK x, y : x = Item(verb) /\ y = Item(opt)
    OBVIOUS
  <2>2. items # <<>> /\ ToSet(items) = {x, y}
    BY <1>1, <1>7, <2>1
  <2>3. ~IsPart(x) /\ ~IsPart(y)
    BY <1>2, <2>1 DEF Verbs, Options
  <2> QED BY <1>7, <2>2, <2>3 DEF NoPart
<1> HIDE DEF Good
<1>8. Good
  BY <1>4, <1>5, <1>6, <1>7 DEF Answering
<1> QED BY <1>8 DEF Good

LEMMA JoinFar ==
  ASSUME ControlInv, UartInv, ItemInv, JoinInv, FarSteps
  PROVE  JoinInv'
<1>0. inbox \in Seq(Items) /\ recvBuf \in Seq(Items) /\ ItemTypes /\ (kind # "socket" => ~Torn(recvBuf))
  BY PartsOfNone DEF ItemInv, ItemTypes, ShapeInv
<1>1. UNCHANGED <<kind, conn, recvBuf>>
  BY FarIs DEF stores
<1>2. ASSUME NEW items \in Seq(Items), Adds(items), Answering(items) PROVE JoinInv'
  <2>1. /\ inbox' = Cat(inbox, items) /\ far = "up" /\ NoPart(items) /\ items # <<>>
        /\ kind = "socket" /\ ~greeted => ~IsOutput(items[1])
    BY <1>2, AnsweringParts DEF Adds
  <2>2. inbox' \in Seq(Items) /\ NoPart(inbox') /\ LastOnly(inbox')
    <3>1. NoPart(inbox)
      BY <2>1 DEF JoinInv
    <3> QED BY <1>0, <2>1, <3>1, PartsOf, PartsOfCat, CatIs
  <2>3. inbox' # <<>> /\ inbox'[1] = IF inbox = <<>> THEN items[1] ELSE inbox[1]
    <3>1. CASE inbox = <<>>
      BY <2>1, <3>1, CatNone
    <3>2. CASE inbox # <<>>
      BY <1>0, <2>1, <3>2, PartsOfCat
    <3> QED BY <3>1, <3>2
  <2>4. conn # 0 /\ Torn(recvBuf) => ~IsOutput(inbox'[1])
    <3>1. CASE inbox = <<>>
      BY <1>0, <2>1, <2>3, <3>1 DEF JoinInv
    <3>2. CASE inbox # <<>>
      BY <2>3, <3>2 DEF JoinInv
    <3> QED BY <3>1, <3>2
  <2> QED BY <1>1, <2>2, <2>3, <2>4 DEF JoinInv
<1>3. ASSUME NEW items \in Seq(Items), Broken(items) PROVE JoinInv'
  <2>1. /\ far = "up" /\ far' = "gone" /\ conn # 0 /\ NoPart(inbox)
        /\ items = <<>> \/ items = <<Item("part")>>
    BY <1>3 DEF Broken, JoinInv
  <2>2. LastOnly(items) /\ (items # <<>> => ~IsOutput(items[1]))
    <3>1. PICK x : x = Item("part")
      OBVIOUS
    <3>2. ~IsOutput(x)
      BY <3>1 DEF Item, IsOutput
    <3>3. Len(<<x>>) = 1 /\ <<x>>[1] = x
      OBVIOUS
    <3>4. LastOnly(<<x>>)
      BY <3>3 DEF LastOnly
    <3> QED BY <2>1, <3>1, <3>2, <3>3, <3>4, PartsOfNone
  <2>3. LastOnly(inbox') /\ (conn # 0 /\ Torn(recvBuf) /\ inbox' # <<>> => ~IsOutput(inbox'[1]))
    <3>1. CASE inbox' = items
      BY <2>2, <3>1
    <3>2. ASSUME NEW k \in 1..Len(inbox), NEW p \in Seq(Items), NEW q \in Seq(Items), Splits(inbox, k, p, q),
                 inbox' = Cat(p, items)
          PROVE  LastOnly(inbox') /\ (conn # 0 /\ Torn(recvBuf) /\ inbox' # <<>> => ~IsOutput(inbox'[1]))
      <4>1. inbox = Cat(p, q) /\ p # <<>>
        BY <3>2 DEF Splits
      <4>2. NoPart(p) /\ inbox[1] = p[1] /\ inbox # <<>>
        BY <2>1, <4>1, PartsOfCat
      <4>3. LastOnly(inbox') /\ inbox'[1] = p[1]
        BY <2>2, <3>2, <4>1, <4>2, PartsOfCat
      <4> QED BY <4>2, <4>3 DEF JoinInv
    <3> QED BY <1>3, <3>1, <3>2 DEF Broken
  <2> QED BY <1>1, <2>1, <2>3 DEF JoinInv
<1>4. CASE UNCHANGED <<inbox, far, greeted>>
  BY <1>1, <1>4 DEF JoinInv
<1>5. CASE guest /\ inbox # <<>> /\ inbox' = Tail(inbox) /\ UNCHANGED <<far, greeted>>
  <2>1. ~Torn(recvBuf)
    BY <1>0, <1>5 DEF UartInv
  <2>2. PICK x \in Items, rest \in Seq(Items) : inbox = <<x>> \o rest /\ inbox' = rest
    BY <1>0, <1>5, SetOfTail
  <2>3. PICK l \in Seq(Items) : l = <<x>>
    BY OneOf
  <2>4. inbox = Cat(l, rest)
    BY <2>2, <2>3 DEF Cat
  <2>5. LastOnly(rest) /\ (NoPart(inbox) => NoPart(rest))
    BY <2>4, PartsOfCat DEF JoinInv
  <2> QED BY <1>1, <1>5, <2>1, <2>2, <2>5 DEF JoinInv
<1> QED BY <1>0, <1>2, <1>3, <1>4, <1>5, FarSpecs

LEMMA JoinKept ==
  ASSUME ControlInv, UartInv, ItemInv, JoinInv, SourceNext
  PROVE  JoinInv'
<1>0. inbox \in Seq(Items) /\ recvBuf \in Seq(Items) /\ ItemTypes /\ (kind # "socket" => recvBuf = <<>>)
  BY DEF ItemInv, ItemTypes, ShapeInv
<1>1. CASE \/ OpenUrl \/ OpenSsh \/ OpenTelnet \/ OpenUart \/ FollowUart \/ Dial
  BY <1>1, ItemsOpen, PartsOfNone DEF JoinInv
<1>2. CASE Rests
  BY <1>2 DEF JoinInv, Rests, Quiet
<1>3. CASE ReceiveMore \/ Ingest
  BY <1>0, <1>3, JoinTakes
<1>4. CASE NoAnswerCame \/ TriedTooSoon \/ Refused
  BY <1>4, GivenUp, PartsOfNone DEF JoinInv
<1>5. CASE AnswerIsGarbage \/ Accepted \/ CollectLine \/ IngestLine
  <2>1. HasLine /\ recvBuf' = Tail(recvBuf) /\ UNCHANGED <<inbox, far, greeted, conn>>
    BY <1>5, AnswerRead, LineRead DEF Line, HandleLive
  <2>2. Torn(recvBuf') => Torn(recvBuf)
    BY <1>0, <2>1, TornTail DEF HasLine
  <2> QED BY <2>1, <2>2 DEF JoinInv
<1>6. CASE ReadUart \/ ReadUrl \/ ReadSsh \/ ReadTelnet
  <2>1. UNCHANGED <<recvBuf, far>> /\ kind # "socket"
    BY <1>0, <1>6, GetsIs, ReadTelnetIs
  <2>2. PICK p, q \in Seq(Items) : inbox = Cat(p, q) /\ inbox' = q
    BY <1>0, <1>6, GetsIs, ReadTelnetIs
  <2>3. LastOnly(q) /\ (NoPart(inbox) => NoPart(q))
    BY <2>2, PartsOfCat DEF JoinInv
  <2>4. ~Torn(recvBuf')
    BY <1>0, <2>1, PartsOfNone
  <2> QED BY <2>1, <2>2, <2>3, <2>4 DEF JoinInv
<1>7. CASE Receive
  <2>1. UNCHANGED <<inbox, recvBuf, far, greeted, conn>>
    BY <1>7, ReceiveIs DEF linkVars
  <2> QED BY <2>1 DEF JoinInv
<1>8. CASE Received \/ Replied \/ ReadPending
  BY <1>0, <1>8, ReturnsAre DEF JoinInv
<1>9. CASE CloseSource
  BY <1>9, ClosesIs, PartsOfNone DEF JoinInv
<1>10. CASE FarSteps
  BY <1>10, JoinFar
<1> QED BY <1>1, <1>2, <1>3, <1>4, <1>5, <1>6, <1>7, <1>8, <1>9, <1>10, RestsAre DEF SourceNext, OpenStep, Reads

-----------------------------------------------------------------------------
(* Four stretches of a stream, one after the other *)

InLine(a, b, c, d) ==
  /\ Ordered(a) /\ Ordered(b) /\ Ordered(c) /\ Ordered(d)
  /\ Follows(Outs(a), Outs(b)) /\ Follows(Outs(a), Outs(c)) /\ Follows(Outs(a), Outs(d))
  /\ Follows(Outs(b), Outs(c)) /\ Follows(Outs(b), Outs(d)) /\ Follows(Outs(c), Outs(d))

AllOf(a, b, c, d) == Outs(a) \union Outs(b) \union Outs(c) \union Outs(d)

LEMMA FollowsOf ==
  \A A, B, C : /\ Follows(A \union B, C) <=> Follows(A, C) /\ Follows(B, C)
               /\ Follows(C, A \union B) <=> Follows(C, A) /\ Follows(C, B)
               /\ Follows({}, C) /\ Follows(C, {})
BY DEF Follows

\* Fewer outputs are in line too.
LEMMA Thinned ==
  ASSUME NEW a, NEW b, NEW c, NEW d, InLine(a, b, c, d),
         NEW e, NEW f, NEW g, NEW h, Ordered(e), Ordered(f), Ordered(g), Ordered(h),
         Outs(e) \subseteq Outs(a), Outs(f) \subseteq Outs(b), Outs(g) \subseteq Outs(c),
           Outs(h) \subseteq Outs(d)
  PROVE  InLine(e, f, g, h) /\ AllOf(e, f, g, h) \subseteq AllOf(a, b, c, d)
<1>1. \A A, B, C, D : Follows(A, B) /\ C \subseteq A /\ D \subseteq B => Follows(C, D)
  BY DEF Follows
<1>2. /\ Follows(Outs(e), Outs(f)) /\ Follows(Outs(e), Outs(g)) /\ Follows(Outs(e), Outs(h))
      /\ Follows(Outs(f), Outs(g)) /\ Follows(Outs(f), Outs(h)) /\ Follows(Outs(g), Outs(h))
  BY <1>1 DEF InLine
<1> QED BY <1>2 DEF InLine, AllOf

\* What one stretch begins with becomes the end of the one before it.
LEMMA Shifted ==
  ASSUME NEW a \in Seq(Items), NEW b \in Seq(Items), NEW c \in Seq(Items), NEW d \in Seq(Items),
         NEW p \in Seq(Items), NEW q \in Seq(Items)
  PROVE  /\ InLine(a, b, c, Cat(p, q)) => InLine(a, b, Cat(c, p), q)
         /\ InLine(a, b, Cat(p, q), d) => InLine(a, Cat(b, p), q, d)
         /\ InLine(a, b, c, d) => InLine(Cat(a, b), <<>>, c, d)
         /\ InLine(a, <<>>, <<>>, Cat(p, q)) => InLine(Cat(a, p), <<>>, <<>>, q)
<1>1. ASSUME NEW s \in Seq(Items), NEW t \in Seq(Items)
      PROVE  /\ Outs(Cat(s, t)) = Outs(s) \union Outs(t)
             /\ Ordered(Cat(s, t)) <=> Ordered(s) /\ Ordered(t) /\ Follows(Outs(s), Outs(t))
  BY OutsOfCat
<1>2. InLine(a, b, c, Cat(p, q)) => InLine(a, b, Cat(c, p), q)
  <2>1. /\ Outs(Cat(p, q)) = Outs(p) \union Outs(q) /\ Outs(Cat(c, p)) = Outs(c) \union Outs(p)
        /\ Ordered(Cat(p, q)) <=> Ordered(p) /\ Ordered(q) /\ Follows(Outs(p), Outs(q))
        /\ Ordered(Cat(c, p)) <=> Ordered(c) /\ Ordered(p) /\ Follows(Outs(c), Outs(p))
    BY <1>1
  <2>2. ASSUME NEW A, NEW P, NEW Q
        PROVE  /\ Follows(A, P \union Q) <=> Follows(A, P) /\ Follows(A, Q)
               /\ Follows(P \union Q, A) <=> Follows(P, A) /\ Follows(Q, A)
    BY FollowsOf
  <2> QED BY <2>1, <2>2, Zenon DEF InLine
<1>3. InLine(a, b, Cat(p, q), d) => InLine(a, Cat(b, p), q, d)
  BY <1>1, FollowsOf, SMTT(40) DEF InLine
<1>4. InLine(a, b, c, d) => InLine(Cat(a, b), <<>>, c, d)
  <2>1. /\ Outs(Cat(a, b)) = Outs(a) \union Outs(b)
        /\ Ordered(Cat(a, b)) <=> Ordered(a) /\ Ordered(b) /\ Follows(Outs(a), Outs(b))
    BY <1>1
  <2>2. Ordered(<<>>) /\ \A A : Follows(Outs(<<>>), A) /\ Follows(A, Outs(<<>>))
    BY FollowsOf, OutsAre
  <2>3. \A A : Follows(Outs(Cat(a, b)), A) <=> Follows(Outs(a), A) /\ Follows(Outs(b), A)
    <3>1. \A A : Follows(Outs(a) \union Outs(b), A) <=> Follows(Outs(a), A) /\ Follows(Outs(b), A)
      BY FollowsOf
    <3> QED BY <2>1, <3>1, Zenon
  <2> QED BY <2>1, <2>2, <2>3, Zenon DEF InLine
<1>5. InLine(a, <<>>, <<>>, Cat(p, q)) => InLine(Cat(a, p), <<>>, <<>>, q)
  <2>1. /\ Outs(Cat(p, q)) = Outs(p) \union Outs(q) /\ Outs(Cat(a, p)) = Outs(a) \union Outs(p)
        /\ Ordered(Cat(p, q)) <=> Ordered(p) /\ Ordered(q) /\ Follows(Outs(p), Outs(q))
        /\ Ordered(Cat(a, p)) <=> Ordered(a) /\ Ordered(p) /\ Follows(Outs(a), Outs(p))
    BY <1>1
  <2>2. Ordered(<<>>) /\ \A A : Follows(Outs(<<>>), A) /\ Follows(A, Outs(<<>>))
    BY FollowsOf, OutsAre
  <2>3. ASSUME NEW A, NEW P, NEW Q
        PROVE  /\ Follows(A, P \union Q) <=> Follows(A, P) /\ Follows(A, Q)
               /\ Follows(P \union Q, A) <=> Follows(P, A) /\ Follows(Q, A)
    BY FollowsOf
  <2> QED BY <2>1, <2>2, <2>3, Zenon DEF InLine
<1> QED BY <1>2, <1>3, <1>4, <1>5

\* A line that was torn is joined to what is no output, and no output is lost.
LEMMA MergedOuts ==
  ASSUME NEW buf \in Seq(Items), NEW chunk \in Seq(Items), NEW joined, Merges(buf, chunk, joined),
         ~IsOutput(chunk[1]),
         Ordered(Cat(buf, chunk))
  PROVE  joined \in Seq(Items) /\ Ordered(joined) /\ Outs(joined) = Outs(buf) \union Outs(chunk)
<1>1. PICK front, rest \in Seq(Items), x, y, z \in Items :
        /\ x.is = "part" /\ z.is = (IF y.is = "part" THEN "part" ELSE "garbage")
        /\ buf = Cat(front, <<x>>) /\ chunk = Cat(<<y>>, rest)
        /\ joined = Cat(Cat(front, <<z>>), rest)
  BY DEF Merges
<1>2. PICK kx, ky, kz \in Seq(Items) :
        /\ kx = <<x>> /\ ky = <<y>> /\ kz = <<z>> /\ ky # <<>> /\ ky[1] = y
  BY OneOf
<1>3. y = chunk[1]
  BY <1>1, <1>2, PartsOfCat
<1>4. Outs(kx) = {} /\ Outs(ky) = {} /\ Outs(kz) = {} /\ Ordered(kz)
  <2>1. ~IsOutput(x) /\ ~IsOutput(z)
    BY <1>1 DEF IsOutput
  <2> QED BY <1>2, <1>3, <2>1, OutsAre
<1>5. buf = Cat(front, kx) /\ chunk = Cat(ky, rest) /\ joined = Cat(Cat(front, kz), rest)
  BY <1>1, <1>2
<1>6. Outs(buf) = Outs(front) /\ Outs(chunk) = Outs(rest)
  <2>1. Outs(buf) = Outs(front) \union Outs(kx) /\ Outs(chunk) = Outs(ky) \union Outs(rest)
    BY <1>5, OutsOfCat
  <2> QED BY <1>4, <2>1
<1>7. Ordered(front) /\ Ordered(rest) /\ Follows(Outs(front), Outs(rest))
  <2>1. Ordered(buf) /\ Ordered(chunk) /\ Follows(Outs(buf), Outs(chunk))
    BY OutsOfCat
  <2> QED BY <1>5, <1>6, <2>1, OutsOfCat
<1>8. PICK w \in Seq(Items) : w = Cat(front, kz)
  BY CatIs
<1>9. Ordered(w) /\ Outs(w) = Outs(front)
  <2>1. Follows(Outs(front), Outs(kz))
    BY <1>4 DEF Follows
  <2>2. Ordered(w) /\ Outs(w) = Outs(front) \union Outs(kz)
    BY <1>4, <1>7, <1>8, <2>1, OutsOfCat
  <2> QED BY <1>4, <2>2
<1>10. joined = Cat(w, rest) /\ joined \in Seq(Items)
  BY <1>5, <1>8, CatIs
<1> QED BY <1>6, <1>7, <1>9, <1>10, OutsOfCat

-----------------------------------------------------------------------------
(* What has been heard, and what is on its way *)

\* Between the inbox and the session: a telnet chunk and the data in it, or the lines of a proxy.
First   == IF kind = "telnet" THEN answer.data ELSE pending
Second  == IF kind = "telnet" THEN answer.chunk ELSE recvBuf
Lined   == InLine(heard, First, Second, inbox)
Present == AllOf(heard, First, Second, inbox)

Within(x) == 0 < x.n /\ x.conn <= made /\ (x.conn = made => x.n <= spoke)
OrderInv == Lined /\ \A x \in Present : Within(x)

\* Of the connection there is, everything before an output is present too, or was swallowed.
Here(n) == Output(n) \in Present \union swallowed
HoleInv ==
  conn # 0 =>
    /\ \A x \in Present : x.conn = conn => \A n \in 1..(x.n - 1) : Here(n)
    /\ far = "up" => \A n \in 1..spoke : Here(n)

\* What a step does to them.
Moves ==
  /\ Lined' /\ Present' \subseteq Present /\ Present \subseteq Present' \union swallowed'
  /\ swallowed \subseteq swallowed'
  /\ UNCHANGED <<conn, made, spoke>> /\ (far' = "up" => far = "up")
Leaving == Lined' /\ Present' \subseteq Present /\ conn' = 0 /\ UNCHANGED <<made, spoke>>
Beginning == Lined' /\ Present' = Present /\ made' = made + 1 /\ conn' = made' /\ spoke' = 0
Speaking ==
  /\ Lined' /\ conn # 0 /\ far = "up" /\ Present' = Present \union {Output(spoke + 1)} /\ spoke' = spoke + 1
  /\ UNCHANGED <<conn, made, far, swallowed>>
Cutting ==
  /\ Lined' /\ Present' \subseteq Present /\ Follows(Present', Present \ Present')
  /\ far' = "gone" /\ UNCHANGED <<conn, made, spoke, swallowed>>

LEMMA Stretches ==
  ASSUME ControlInv, ItemInv
  PROVE  /\ First \in Seq(Items) /\ Second \in Seq(Items) /\ heard \in Seq(Items) /\ inbox \in Seq(Items)
         /\ \/ kind = "telnet" /\ First = answer.data /\ Second = answer.chunk
            \/ kind # "telnet" /\ First = pending /\ Second = recvBuf
         /\ kind = "telnet" /\ manager \notin {"receive", "reply"} => First = <<>> /\ Second = <<>>
         /\ kind \in {"uart", "url", "ssh"} => First = <<>> /\ Second = <<>>
<1>1. answer.data \in Seq(Items) /\ answer.chunk \in Seq(Items)
  BY DEF ItemInv, ItemTypes
<1>2. manager \notin {"receive", "reply"} => answer.data = <<>> /\ answer.chunk = <<>>
  BY NothingIn DEF ItemInv, ShapeInv
<1> QED BY <1>1, <1>2 DEF First, Second, ItemInv, ItemTypes, ShapeInv

LEMMA ShiftedAll ==
  ASSUME NEW a \in Seq(Items), NEW b \in Seq(Items), NEW c \in Seq(Items), NEW d \in Seq(Items),
         NEW p \in Seq(Items), NEW q \in Seq(Items)
  PROVE  /\ AllOf(a, b, Cat(c, p), q) = AllOf(a, b, c, Cat(p, q))
         /\ AllOf(a, Cat(b, p), q, d) = AllOf(a, b, Cat(p, q), d)
         /\ AllOf(Cat(a, b), <<>>, c, d) = AllOf(a, b, c, d)
         /\ AllOf(Cat(a, p), <<>>, <<>>, q) = AllOf(a, <<>>, <<>>, Cat(p, q))
<1>1. /\ Outs(Cat(p, q)) = Outs(p) \union Outs(q) /\ Outs(Cat(c, p)) = Outs(c) \union Outs(p)
      /\ Outs(Cat(b, p)) = Outs(b) \union Outs(p) /\ Outs(Cat(a, b)) = Outs(a) \union Outs(b)
      /\ Outs(Cat(a, p)) = Outs(a) \union Outs(p) /\ Outs(<<>>) = {}
  BY OutsOfCat, OutsAre
<1> QED BY <1>1 DEF AllOf

\* The stretches stay what they are, or their outputs do.
LEMMA KeepsAll ==
  ASSUME ControlInv, ItemInv, Lined, UNCHANGED <<heard, First, inbox, conn, made, spoke, far, swallowed>>,
         NEW g, Second' = g, Ordered(g), Outs(g) = Outs(Second)
  PROVE  Moves
<1>2. InLine(heard, First, g, inbox)
  BY Thinned DEF Lined, InLine
<1>3. AllOf(heard, First, g, inbox) = AllOf(heard, First, Second, inbox)
  BY DEF AllOf
<1>4. Lined'
  BY <1>2 DEF Lined
<1>5. Present' = Present
  BY <1>3 DEF Present
<1> QED BY <1>4, <1>5 DEF Moves

\* What one stretch begins with goes to the end of the one before it.
LEMMA Shifts ==
  ASSUME ControlInv, ItemInv, Lined, UNCHANGED <<conn, made, spoke, far, swallowed>>, NEW p \in Seq(Items),
         NEW q \in Seq(Items),
         \/ UNCHANGED <<heard, First>> /\ Second' = Cat(Second, p) /\ inbox = Cat(p, q) /\ inbox' = q
         \/ UNCHANGED <<heard, inbox>> /\ First' = Cat(First, p) /\ Second = Cat(p, q) /\ Second' = q
         \/ UNCHANGED <<Second, inbox>> /\ heard' = Cat(heard, First) /\ First' = <<>>
         \/ /\ UNCHANGED <<First, Second>> /\ First = <<>> /\ Second = <<>>
            /\ heard' = Cat(heard, p) /\ inbox = Cat(p, q) /\ inbox' = q
  PROVE  Moves
<1>0. First \in Seq(Items) /\ Second \in Seq(Items) /\ heard \in Seq(Items) /\ inbox \in Seq(Items)
  BY Stretches
<1>1. Lined' /\ Present' = Present
  <2>1. PICK a, b, c, d : a = heard /\ b = First /\ c = Second /\ d = inbox
    OBVIOUS
  <2>2. a \in Seq(Items) /\ b \in Seq(Items) /\ c \in Seq(Items) /\ d \in Seq(Items) /\ InLine(a, b, c, d)
    BY <1>0, <2>1 DEF Lined
  <2>3. CASE UNCHANGED <<heard, First>> /\ Second' = Cat(Second, p) /\ inbox = Cat(p, q) /\ inbox' = q
    <3>1. InLine(a, b, Cat(c, p), q) /\ AllOf(a, b, Cat(c, p), q) = AllOf(a, b, c, d)
      BY <2>1, <2>2, <2>3, Shifted, ShiftedAll, SMTT(40)
    <3> QED BY <2>1, <2>3, <3>1 DEF Lined, Present
  <2>4. CASE UNCHANGED <<heard, inbox>> /\ First' = Cat(First, p) /\ Second = Cat(p, q) /\ Second' = q
    <3>1. InLine(a, Cat(b, p), q, d) /\ AllOf(a, Cat(b, p), q, d) = AllOf(a, b, c, d)
      BY <2>1, <2>2, <2>4, Shifted, ShiftedAll, SMTT(40)
    <3> QED BY <2>1, <2>4, <3>1 DEF Lined, Present
  <2>5. CASE UNCHANGED <<Second, inbox>> /\ heard' = Cat(heard, First) /\ First' = <<>>
    <3>1. InLine(Cat(a, b), <<>>, c, d) /\ AllOf(Cat(a, b), <<>>, c, d) = AllOf(a, b, c, d)
      BY <2>2, Shifted, ShiftedAll, SMTT(40)
    <3> QED BY <2>1, <2>5, <3>1 DEF Lined, Present
  <2>6. CASE /\ UNCHANGED <<First, Second>> /\ First = <<>> /\ Second = <<>>
             /\ heard' = Cat(heard, p) /\ inbox = Cat(p, q) /\ inbox' = q
    <3>1. InLine(Cat(a, p), <<>>, <<>>, q) /\ AllOf(Cat(a, p), <<>>, <<>>, q) = AllOf(a, b, c, d)
      BY <2>1, <2>2, <2>6, Shifted, ShiftedAll
    <3> QED BY <2>1, <2>6, <3>1 DEF Lined, Present
  <2> QED BY <2>3, <2>4, <2>5, <2>6
<1> QED BY <1>1 DEF Moves

LEMMA MovesRead ==
  ASSUME ControlInv, ItemInv, Lined, ReadUart \/ ReadUrl \/ ReadSsh \/ ReadTelnet
  PROVE  Moves
<1>0. ItemTypes
  BY DEF ItemInv
<1>1. CASE ReadUart \/ ReadUrl \/ ReadSsh
  <2>1. PICK p, q \in Seq(Items) : inbox = Cat(p, q) /\ inbox' = q /\ heard' = Cat(heard, p)
    BY <1>0, <1>1, GetsIs
  <2>2. kind \in {"uart", "url", "ssh"}
        /\ UNCHANGED <<pending, recvBuf, swallowed, answer, spoke, kind, conn, made, far>>
    BY <1>0, <1>1, GetsIs
  <2>3. UNCHANGED <<First, Second>> /\ First = <<>> /\ Second = <<>>
    BY <2>2, Stretches DEF First, Second
  <2> QED BY <2>1, <2>2, <2>3, Shifts
<1>2. CASE ReadTelnet
  <2>1. PICK p, q \in Seq(Items) :
          inbox = Cat(p, q) /\ inbox' = q /\ answer' = [chunk |-> p, data |-> <<>>, replies |-> <<>>]
    BY <1>0, <1>2, ReadTelnetIs
  <2>2. /\ kind = "telnet" /\ manager = "read" /\ kind' = kind
        /\ UNCHANGED <<swallowed, heard, spoke, conn, made, far>>
    BY <1>0, <1>2, ReadTelnetIs
  <2>3. First = <<>> /\ Second = <<>>
    BY <2>2, Stretches
  <2>4. First' = <<>> /\ Second' = p
    BY <2>1, <2>2 DEF First, Second
  <2>5. First' = First /\ Second' = Cat(Second, p)
    BY <2>3, <2>4, CatNone
  <2> QED BY <2>1, <2>2, <2>5, Shifts
<1> QED BY <1>1, <1>2

LEMMA MovesReceive ==
  ASSUME ControlInv, ItemInv, Lined, Receive
  PROVE  Moves
<1>0. /\ kind = "telnet" /\ kind' = kind
      /\ UNCHANGED <<heard, inbox, conn, made, spoke, far, swallowed>>
  BY ReceiveIs DEF linkVars, ghosts
<1>1. PICK x \in Items, rest \in Seq(Items) :
        answer.chunk = Cat(<<x>>, rest) /\ answer'.chunk = rest /\ Taking(x, rest)
  BY ReceiveIs
<1>2. PICK k \in Seq(Items) : k = <<x>>
  BY OneOf
<1>3. /\ First = answer.data /\ Second = Cat(k, rest) /\ First' = answer'.data /\ Second' = rest
      /\ First \in Seq(Items)
  BY <1>0, <1>1, <1>2, Stretches DEF First, Second
<1>4. CASE answer'.data = Append(answer.data, x)
  <2>1. Append(First, x) = Cat(First, k)
    <3>1. \A s \in Seq(Items), y \in Items : Append(s, y) = s \o <<y>>
      OBVIOUS
    <3> QED BY <1>2, <1>3, <3>1 DEF Cat
  <2>2. UNCHANGED <<heard, inbox>> /\ First' = Cat(First, k) /\ Second = Cat(k, rest) /\ Second' = rest
    BY <1>0, <1>3, <1>4, <2>1
  <2> QED BY <1>0, <2>2, Shifts
<1>5. CASE answer'.data = answer.data /\ x.is # "rx"
  <2>1. Outs(k) = {}
    BY <1>2, <1>5, OutsAre DEF IsOutput
  <2>2. Outs(Second) = Outs(k) \union Outs(rest) /\ (Ordered(Second) => Ordered(rest))
    BY <1>3, OutsOfCat
  <2>3. Outs(rest) = Outs(Second) /\ Ordered(rest)
    BY <2>1, <2>2 DEF Lined, InLine
  <2> QED BY <1>0, <1>3, <1>5, <2>3, KeepsAll
<1>6. (answer'.data = answer.data /\ x.is # "rx") \/ answer'.data = Append(answer.data, x)
  BY <1>1 DEF Taking, Verbs, Options
<1> QED BY <1>4, <1>5, <1>6

LEMMA MovesReturns ==
  ASSUME ControlInv, ItemInv, Lined, Received \/ Replied \/ ReadPending
  PROVE  Moves
<1>0. ItemTypes /\ UNCHANGED <<inbox, recvBuf, spoke, kind, conn, made, far>>
  BY ReturnsAre DEF ItemInv
<1>1. First \in Seq(Items) /\ Second \in Seq(Items)
  BY Stretches
<1>2. CASE UNCHANGED <<heard, answer, pending, swallowed>>
  <2>1. UNCHANGED <<First, Second>>
    BY <1>0, <1>2 DEF First, Second
  <2>2. Ordered(Second)
    BY DEF Lined, InLine
  <2> QED BY <1>0, <1>2, <2>1, <2>2, KeepsAll
<1>3. CASE /\ manager \in {"receive", "reply"} /\ heard' = Cat(heard, answer.data) /\ answer' = NoAnswer
           /\ UNCHANGED <<pending, swallowed>>
           /\ kind = "telnet" /\ (manager = "receive" => answer.chunk = <<>>)
  <2>1. answer.chunk = <<>>
    BY <1>3 DEF ItemInv, ShapeInv
  <2>2. First = answer.data /\ Second = <<>> /\ First' = <<>> /\ Second' = <<>>
    BY <1>0, <1>3, <2>1, NothingIn DEF First, Second
  <2>3. UNCHANGED <<Second, inbox>> /\ heard' = Cat(heard, First) /\ First' = <<>>
    BY <1>0, <1>3, <2>2
  <2> QED BY <1>0, <1>1, <1>3, <2>3, Shifts
<1>4. CASE kind = "socket" /\ heard' = Cat(heard, pending) /\ pending' = <<>> /\ UNCHANGED <<answer, swallowed>>
  <2>1. UNCHANGED <<Second, inbox>> /\ heard' = Cat(heard, First) /\ First' = <<>>
    BY <1>0, <1>4 DEF First, Second
  <2> QED BY <1>0, <1>1, <1>4, <2>1, Shifts
<1>5. CASE /\ manager = "reply" /\ answer' = NoAnswer /\ UNCHANGED <<heard, pending>> /\ kind = "telnet"
           /\ swallowed' = swallowed \union ToSet(answer.data)
  <2>1. answer.chunk = <<>>
    BY <1>5 DEF ItemInv, ShapeInv
  <2>2. First = answer.data /\ Second = <<>> /\ First' = <<>> /\ Second' = <<>>
    BY <1>0, <1>5, <2>1, NothingIn DEF First, Second
  <2>3. Outs(First) \subseteq swallowed'
    BY <1>5, <2>2 DEF Outs
  <2>4. InLine(heard, <<>>, Second, inbox)
        /\ AllOf(heard, <<>>, Second, inbox) \subseteq AllOf(heard, First, Second, inbox)
    <3>1. Ordered(<<>>) /\ Outs(<<>>) = {}
      BY OutsAre
    <3> QED BY <3>1, Thinned DEF Lined, InLine
  <2>5. AllOf(heard, First, Second, inbox) \subseteq AllOf(heard, <<>>, Second, inbox) \union Outs(First)
    BY DEF AllOf
  <2>6. Lined' /\ Present' = AllOf(heard, <<>>, Second, inbox)
    BY <1>0, <1>5, <2>2, <2>4 DEF Lined, Present
  <2> QED BY <1>0, <1>5, <2>3, <2>4, <2>5, <2>6 DEF Moves, Present
<1> QED BY <1>0, <1>2, <1>3, <1>4, <1>5, ReturnsAre

LEMMA MovesLine ==
  ASSUME ControlInv, ItemInv, Lined, AnswerIsGarbage \/ Accepted \/ CollectLine \/ IngestLine
  PROVE  Moves
<1>0. ItemTypes
  BY DEF ItemInv
<1>1. /\ kind = "socket" /\ HasLine /\ recvBuf' = Tail(recvBuf)
      /\ UNCHANGED <<inbox, heard, swallowed, spoke, kind, conn, made, far>>
  BY AnswerRead, LineRead DEF Line, HandleLive
<1>2. PICK x \in Items, rest \in Seq(Items) :
        x = Head(recvBuf) /\ rest = Tail(recvBuf) /\ recvBuf = <<x>> \o rest
  <2>1. recvBuf # <<>> /\ recvBuf \in Seq(Items)
    BY <1>0, <1>1 DEF HasLine, ItemTypes
  <2>2. Head(recvBuf) \in Items /\ Tail(recvBuf) \in Seq(Items) /\ recvBuf = <<Head(recvBuf)>> \o Tail(recvBuf)
    BY <2>1, SetOfTail
  <2> QED BY <2>2, Zenon
<1>3. PICK k \in Seq(Items) : k = <<x>>
  BY OneOf
<1>4. /\ Second = Cat(k, rest) /\ Second' = rest /\ First = pending /\ First' = pending'
      /\ pending \in Seq(Items)
  BY <1>0, <1>1, <1>2, <1>3 DEF First, Second, Cat, ItemTypes
<1>5. CASE pending' = pending /\ ~IsOutput(x)
  <2>1. Outs(k) = {}
    BY <1>3, <1>5, OutsAre
  <2>2. Outs(Second) = Outs(k) \union Outs(rest) /\ (Ordered(Second) => Ordered(rest))
    BY <1>4, OutsOfCat
  <2>3. Outs(rest) = Outs(Second) /\ Ordered(rest)
    BY <2>1, <2>2 DEF Lined, InLine
  <2> QED BY <1>1, <1>4, <1>5, <2>3, KeepsAll
<1>6. CASE pending' = Append(pending, x)
  <2>1. Append(First, x) = Cat(First, k)
    <3>1. \A s \in Seq(Items), y \in Items : Append(s, y) = s \o <<y>>
      OBVIOUS
    <3> QED BY <1>3, <1>4, <3>1 DEF Cat
  <2>2. UNCHANGED <<heard, inbox>> /\ First' = Cat(First, k) /\ Second = Cat(k, rest) /\ Second' = rest
    BY <1>1, <1>4, <1>6, <2>1
  <2> QED BY <1>1, <2>2, Shifts
<1>7. (pending' = pending /\ ~IsOutput(x)) \/ pending' = Append(pending, x)
  BY <1>2, AnswerRead, LineRead DEF Line, HandleLive
<1> QED BY <1>5, <1>6, <1>7

LEMMA MovesTaking ==
  ASSUME ControlInv, ItemInv, JoinInv, Lined, ReceiveMore \/ Ingest
  PROVE  Moves
<1>0. /\ inbox \in Seq(Items) /\ recvBuf \in Seq(Items) /\ heard \in Seq(Items) /\ First \in Seq(Items)
      /\ ItemTypes /\ conn # 0
  BY Stretches DEF ItemInv, ItemTypes, ControlInv, PlaceInv, ReceiveMore, Ingest
<1>1. kind = "socket" /\ UNCHANGED <<pending, heard, swallowed, answer, spoke, kind, conn, made, far>>
  BY <1>0, TakingIn
<1>2. PICK p, q \in Seq(Items) : p # <<>> /\ inbox = Cat(p, q) /\ inbox' = q /\ recvBuf' = Joined(recvBuf, p)
  BY <1>0, TakingIn
<1>3. Second = recvBuf /\ Second' = recvBuf' /\ First' = First
  BY <1>1 DEF First, Second
<1>4. CASE recvBuf' = Cat(recvBuf, p)
  <2>1. UNCHANGED <<heard, First>> /\ Second' = Cat(Second, p) /\ inbox = Cat(p, q) /\ inbox' = q
    BY <1>1, <1>2, <1>3, <1>4
  <2> QED BY <1>1, <2>1, Shifts
<1>5. CASE Merges(recvBuf, p, recvBuf')
  <2>1. Torn(recvBuf)
    <3>1. PICK front, rest \in Seq(Items), x, y \in Items : x.is = "part" /\ recvBuf = Cat(front, <<x>>)
      BY <1>5 DEF Merges
    <3>2. PICK k \in Seq(Items) : k = <<x>> /\ k # <<>> /\ Len(k) = 1 /\ k[1] = x
      BY OneOf
    <3>3. recvBuf = Cat(front, k)
      BY <3>1, <3>2
    <3>4. Torn(k)
      BY <3>1, <3>2 DEF Torn, IsPart
    <3> QED BY <3>2, <3>3, <3>4, PartsOfCat
  <2>2. p[1] = inbox[1] /\ inbox # <<>>
    BY <1>2, PartsOfCat
  <2>3. ~IsOutput(p[1])
    BY <1>0, <2>1, <2>2 DEF JoinInv
  <2>4. InLine(heard, First, Cat(recvBuf, p), q)
        /\ AllOf(heard, First, Cat(recvBuf, p), q) = AllOf(heard, First, recvBuf, inbox)
    BY <1>0, <1>2, <1>3, Shifted, ShiftedAll, SMTT(40) DEF Lined
  <2>5. PICK joined : joined = recvBuf'
    OBVIOUS
  <2>6. Ordered(joined) /\ Outs(joined) = Outs(recvBuf) \union Outs(p)
    <3>1. Ordered(Cat(recvBuf, p))
      BY <2>4 DEF InLine
    <3> QED BY <1>0, <1>5, <2>3, <2>5, <3>1, MergedOuts
  <2>7. Outs(joined) = Outs(Cat(recvBuf, p))
    BY <1>0, <2>6, OutsOfCat
  <2>8. InLine(heard, First, joined, q)
    BY <2>4, <2>6, <2>7, Thinned DEF InLine
  <2>9. AllOf(heard, First, joined, q) = AllOf(heard, First, recvBuf, inbox)
    BY <2>4, <2>7 DEF AllOf
  <2>10. Lined' /\ Present' = Present
    BY <1>1, <1>2, <1>3, <2>5, <2>8, <2>9 DEF Lined, Present
  <2> QED BY <1>1, <2>10 DEF Moves
<1> QED BY <1>0, <1>2, <1>4, <1>5, JoinedIs

\* The byte that another program reads.
LEMMA MovesAway ==
  ASSUME ControlInv, ItemInv, Lined, inbox # <<>>, inbox' = Tail(inbox),
         swallowed' = swallowed \union {Head(inbox)},
         UNCHANGED <<kind, heard, pending, recvBuf, answer, conn, made, spoke, far>>
  PROVE  Moves
<1>0. inbox \in Seq(Items)
  BY DEF ItemInv, ItemTypes
<1>1. PICK x \in Items, rest \in Seq(Items) : x = Head(inbox) /\ rest = Tail(inbox) /\ inbox = <<x>> \o rest
  <2>1. Head(inbox) \in Items /\ Tail(inbox) \in Seq(Items) /\ inbox = <<Head(inbox)>> \o Tail(inbox)
    BY <1>0, SetOfTail
  <2> QED BY <2>1, Zenon
<1>2. PICK k \in Seq(Items) : k = <<x>>
  BY OneOf
<1>3. inbox = Cat(k, rest)
  BY <1>1, <1>2 DEF Cat
<1>4. Outs(k) \subseteq {x} /\ Outs(inbox) = Outs(k) \union Outs(rest) /\ (Ordered(inbox) => Ordered(rest))
  BY <1>2, <1>3, OutsAre, OutsOfCat
<1>5. UNCHANGED <<First, Second>>
  BY DEF First, Second
<1>6. InLine(heard, First, Second, rest)
      /\ AllOf(heard, First, Second, rest) \subseteq AllOf(heard, First, Second, inbox)
  BY <1>4, Thinned DEF Lined, InLine
<1>7. AllOf(heard, First, Second, inbox) \subseteq AllOf(heard, First, Second, rest) \union {x}
  BY <1>4 DEF AllOf
<1>8. Lined' /\ Present' = AllOf(heard, First, Second, rest)
  BY <1>1, <1>5, <1>6 DEF Lined, Present
<1>9. x \in swallowed'
  BY <1>1
<1> QED BY <1>6, <1>7, <1>8, <1>9 DEF Moves, Present

LEMMA LeavesOff ==
  ASSUME ControlInv, ItemInv, Lined, NoAnswerCame \/ TriedTooSoon \/ Refused \/ CloseSource
  PROVE  Leaving
<1>0. ItemTypes /\ recvBuf \in Seq(Items)
  BY DEF ItemInv, ItemTypes
<1>1. /\ inbox' = <<>> /\ conn' = 0 /\ kind' = kind
      /\ UNCHANGED <<pending, heard, answer, spoke, made>>
      /\ recvBuf' = recvBuf \/ (kind = "socket" /\ HasLine /\ recvBuf' = Tail(recvBuf))
  BY GivenUp, ClosesIs
<1>2. PICK joined : joined = recvBuf'
  OBVIOUS
<1>3. ASSUME kind # "telnet" PROVE Ordered(joined) /\ Outs(joined) \subseteq Outs(Second)
  <2>1. Second = recvBuf
    BY <1>3 DEF Second
  <2>2. CASE recvBuf' = recvBuf
    BY <1>2, <2>1, <2>2 DEF Lined, InLine
  <2>3. CASE HasLine /\ recvBuf' = Tail(recvBuf)
    <3>1. PICK x \in Items, rest \in Seq(Items) : rest = Tail(recvBuf) /\ recvBuf = <<x>> \o rest
      <4>1. Head(recvBuf) \in Items /\ Tail(recvBuf) \in Seq(Items)
            /\ recvBuf = <<Head(recvBuf)>> \o Tail(recvBuf)
        BY <1>0, <2>3, SetOfTail DEF HasLine
      <4> QED BY <4>1, Zenon
    <3>2. PICK k \in Seq(Items) : k = <<x>>
      BY OneOf
    <3>3. recvBuf = Cat(k, rest) /\ joined = rest
      BY <1>2, <2>3, <3>1, <3>2 DEF Cat
    <3>4. Outs(recvBuf) = Outs(k) \union Outs(rest) /\ (Ordered(recvBuf) => Ordered(rest))
      BY <3>3, OutsOfCat
    <3> QED BY <2>1, <3>3, <3>4 DEF Lined, InLine
  <2> QED BY <1>1, <2>2, <2>3
<1>4. PICK g : g = Second' /\ Ordered(g) /\ Outs(g) \subseteq Outs(Second)
  <2>1. CASE kind = "telnet"
    <3>1. Second' = Second
      BY <1>1, <2>1 DEF Second
    <3> QED BY <3>1 DEF Lined, InLine
  <2>2. CASE kind # "telnet"
    <3>1. Second' = joined
      BY <1>1, <1>2, <2>2 DEF Second
    <3> QED BY <1>3, <2>2, <3>1
  <2> QED BY <2>1, <2>2
<1>5. First' = First
  BY <1>1 DEF First
<1>6. Ordered(<<>>) /\ Outs(<<>>) = {}
  BY OutsAre
<1>7. InLine(heard, First, g, <<>>) /\ AllOf(heard, First, g, <<>>) \subseteq AllOf(heard, First, Second, inbox)
  BY <1>4, <1>6, Thinned DEF Lined, InLine
<1> QED BY <1>1, <1>4, <1>5, <1>7 DEF Leaving, Lined, Present

LEMMA BeginsAnew ==
  ASSUME ControlInv, ItemInv, Lined, OpenUrl \/ OpenSsh \/ OpenTelnet \/ OpenUart \/ FollowUart \/ Dial
  PROVE  Beginning
<1>1. inbox' = <<>> /\ spoke' = 0 /\ conn' = made' /\ conn = 0
      /\ UNCHANGED <<recvBuf, pending, heard, answer, kind>>
  BY ItemsOpen
<1>2. made' = made + 1 /\ made \in Nat
  BY DEF OpenUrl, OpenSsh, OpenTelnet, OpenUart, FollowUart, FollowsTo, Dial, Opens, OpenAt, Connects,
         ControlInv,
     LinkTypes
<1>3. inbox = <<>>
  BY <1>1 DEF ItemInv, ShapeInv
<1>4. UNCHANGED <<First, Second, heard, inbox>>
  BY <1>1, <1>3 DEF First, Second
<1>5. Lined' /\ Present' = Present
  BY <1>4 DEF Lined, Present
<1> QED BY <1>1, <1>2, <1>5 DEF Beginning

\* Messages and commands, and what the device says.
LEMMA MoreIn ==
  ASSUME ControlInv, ItemInv, OrderInv, NEW items \in Seq(Items), Adds(items), Answering(items),
         UNCHANGED <<kind, heard, pending, recvBuf, answer, conn, made>>
  PROVE  Moves \/ Speaking
<1>0. inbox \in Seq(Items) /\ Lined
  BY DEF ItemInv, ItemTypes, OrderInv
<1>1. inbox' = Cat(inbox, items) /\ conn # 0 /\ far = "up" /\ swallowed' = swallowed
  BY DEF Adds
<1>2. UNCHANGED <<First, Second>>
  BY DEF First, Second
<1>3. PICK into \in Seq(Items) : into = Cat(inbox, items)
  BY <1>0, CatIs
<1>4. Outs(into) = Outs(inbox) \union Outs(items)
  BY <1>0, <1>3, OutsOfCat
<1>5. ASSUME Outs(items) = {}, Ordered(items), spoke' = spoke PROVE Moves
  <2>1. Follows(Outs(inbox), Outs(items))
    BY <1>5 DEF Follows
  <2>2. Ordered(into)
    BY <1>0, <1>3, <1>5, <2>1, OutsOfCat DEF Lined, InLine
  <2>3. Outs(into) = Outs(inbox)
    BY <1>4, <1>5
  <2>4. InLine(heard, First, Second, into)
        /\ AllOf(heard, First, Second, into) = AllOf(heard, First, Second, inbox)
    BY <1>0, <2>2, <2>3 DEF Lined, InLine, AllOf
  <2>5. Lined' /\ Present' = Present
    BY <1>1, <1>2, <1>3, <2>4 DEF Lined, Present
  <2> QED BY <1>1, <1>5, <2>5 DEF Moves
<1>6. ASSUME items = <<Output(spoke + 1)>>, spoke' = spoke + 1, far' = far PROVE Speaking
  <2>0. conn \in Nat /\ spoke \in Nat /\ conn = made /\ made \in Nat
    BY <1>1 DEF ControlInv, LinkTypes, ItemInv, ItemTypes
  <2>1. PICK y \in Items : y = Output(spoke + 1) /\ y.conn = made /\ y.n = spoke + 1 /\ IsOutput(y)
    <3>1. Output(spoke + 1) \in Items
      BY <2>0, NewTypes
    <3> QED BY <2>0, <3>1 DEF Output, IsOutput
  <2>2. Outs(items) = {y} /\ Ordered(items)
    BY <1>6, <2>1, OutsAre
  <2>3. \A x \in Present : Comes(x, y)
    <3>1. ASSUME NEW x \in Present PROVE Comes(x, y)
      <4>1. Within(x) /\ x \in Items
        <5>1. \A s \in Seq(Items) : Outs(s) \subseteq Items
          <6>1. ASSUME NEW s \in Seq(Items) PROVE ToSet(s) \subseteq Items
            BY DEF ToSet
          <6> QED BY <6>1 DEF Outs
        <5>2. Present \subseteq Items
          BY <5>1, Stretches DEF Present, AllOf
        <5> QED BY <5>2 DEF OrderInv
      <4>2. x.conn \in Nat /\ x.n \in Nat
        BY <4>1 DEF Items
      <4> QED BY <2>0, <2>1, <4>1, <4>2 DEF Within, Comes
    <3> QED BY <3>1
  <2>4. /\ Follows(Outs(heard), {y}) /\ Follows(Outs(First), {y}) /\ Follows(Outs(Second), {y})
        /\ Follows(Outs(inbox), {y})
    BY <2>3 DEF Follows, Present, AllOf
  <2>5. Ordered(into)
    <3>1. Ordered(inbox) /\ Ordered(items) /\ Follows(Outs(inbox), Outs(items))
      BY <1>0, <2>2, <2>4 DEF Lined, InLine
    <3> QED BY <1>0, <1>3, <3>1, OutsOfCat
  <2>6. Outs(into) = Outs(inbox) \union {y}
    BY <1>4, <2>2
  <2>7. /\ Follows(Outs(heard), Outs(into)) /\ Follows(Outs(First), Outs(into))
        /\ Follows(Outs(Second), Outs(into))
    <3>1. \A A : Follows(A, Outs(inbox) \union {y}) <=> Follows(A, Outs(inbox)) /\ Follows(A, {y})
      BY FollowsOf
    <3> QED BY <1>0, <2>4, <2>6, <3>1 DEF Lined, InLine
  <2>8. InLine(heard, First, Second, into)
    BY <1>0, <2>5, <2>7 DEF Lined, InLine
  <2>9. AllOf(heard, First, Second, into) = AllOf(heard, First, Second, inbox) \union {y}
    BY <2>6 DEF AllOf
  <2>10. Lined' /\ Present' = Present \union {y}
    BY <1>1, <1>2, <1>3, <2>8, <2>9 DEF Lined, Present
  <2> QED BY <1>1, <1>6, <2>1, <2>10 DEF Speaking
<1>7. \/ Outs(items) = {} /\ Ordered(items) /\ spoke' = spoke
      \/ items = <<Output(spoke + 1)>> /\ spoke' = spoke + 1 /\ far' = far
  <2>1. ASSUME NEW x, NEW y, NEW z, ~IsOutput(x), ~IsOutput(y), ~IsOutput(z)
        PROVE  /\ Outs(<<x>>) = {} /\ Outs(<<x, y>>) = {} /\ Outs(<<x, y, z>>) = {}
               /\ Ordered(<<x>>) /\ Ordered(<<x, y>>) /\ Ordered(<<x, y, z>>)
    <3>1. /\ DOMAIN <<x>> = {1} /\ DOMAIN <<x, y>> = {1, 2} /\ DOMAIN <<x, y, z>> = {1, 2, 3}
      OBVIOUS
    <3>2. /\ ToSet(<<x>>) = {x} /\ ToSet(<<x, y>>) = {x, y} /\ ToSet(<<x, y, z>>) = {x, y, z}
      BY <3>1 DEF ToSet
    <3>3. Outs(<<x>>) = {} /\ Outs(<<x, y>>) = {} /\ Outs(<<x, y, z>>) = {}
      BY <2>1, <3>2 DEF Outs
    <3>4. Ordered(<<x>>) /\ Ordered(<<x, y>>) /\ Ordered(<<x, y, z>>)
      BY <2>1 DEF Ordered
    <3> QED BY <3>3, <3>4
  <2>2. ASSUME NEW is, is # "rx" PROVE ~IsOutput(Item(is))
    BY <2>2 DEF Item, IsOutput
  <2>3. /\ ~IsOutput(Item("ok")) /\ ~IsOutput(Item("history")) /\ ~IsOutput(Item("end"))
        /\ \A is \in {"no", "full"} \union Verbs \union Options : ~IsOutput(Item(is))
    BY <2>2 DEF Verbs, Options
  <2>4. Outs(<<>>) = {} /\ Ordered(<<>>)
    BY OutsAre
  <2> QED BY <2>1, <2>3 DEF Answering
<1> QED BY <1>5, <1>6, <1>7

LEMMA CutsOff ==
  ASSUME ControlInv, ItemInv, Lined, NEW items \in Seq(Items), Broken(items),
         UNCHANGED <<kind, heard, pending, recvBuf, answer, conn, made>>
  PROVE  Cutting
<1>0. inbox \in Seq(Items)
  BY DEF ItemInv, ItemTypes
<1>1. far' = "gone" /\ UNCHANGED <<spoke, swallowed, First, Second>>
  BY DEF Broken, First, Second
<1>2. Outs(items) = {} /\ Ordered(items)
  <2>1. PICK x : x = Item("part")
    OBVIOUS
  <2>2. ~IsOutput(x) /\ (items = <<>> \/ items = <<x>>)
    BY <2>1 DEF Item, IsOutput, Broken
  <2>3. ToSet(<<x>>) = {x} /\ DOMAIN <<x>> = {1} /\ Len(<<x>>) = 1
    BY SetOfOne
  <2>4. Outs(<<x>>) = {} /\ Ordered(<<x>>)
    BY <2>2, <2>3 DEF Outs, Ordered
  <2> QED BY <2>2, <2>4, OutsAre
<1>3. ASSUME NEW kept \in Seq(Items), NEW gone, inbox' = Cat(kept, items), Ordered(kept),
             Outs(inbox) = Outs(kept) \union gone, Follows(Outs(kept), gone)
      PROVE  Cutting
  <2>1. PICK into \in Seq(Items) : into = Cat(kept, items)
    BY CatIs
  <2>2. Outs(into) = Outs(kept)
    <3>1. Outs(into) = Outs(kept) \union Outs(items)
      BY <2>1, OutsOfCat
    <3> QED BY <1>2, <3>1
  <2>3. Ordered(into)
    <3>1. Follows(Outs(kept), Outs(items))
      BY <1>2 DEF Follows
    <3> QED BY <1>2, <1>3, <2>1, <3>1, OutsOfCat
  <2>4. InLine(heard, First, Second, into)
        /\ AllOf(heard, First, Second, into) \subseteq AllOf(heard, First, Second, inbox)
    BY <1>3, <2>2, <2>3, Thinned DEF Lined, InLine
  <2>5. AllOf(heard, First, Second, inbox) = AllOf(heard, First, Second, into) \union gone
    BY <1>3, <2>2 DEF AllOf
  <2>6. Follows(AllOf(heard, First, Second, into), gone)
    <3>1. gone \subseteq Outs(inbox)
      BY <1>3
    <3>2. Follows(Outs(heard), gone) /\ Follows(Outs(First), gone) /\ Follows(Outs(Second), gone)
          /\ Follows(Outs(into), gone)
      BY <1>3, <2>2, <3>1 DEF Lined, InLine, Follows
    <3> QED BY <3>2 DEF AllOf, Follows
  <2>7. Lined' /\ Present' = AllOf(heard, First, Second, into)
    BY <1>1, <1>3, <2>1, <2>4 DEF Lined, Present
  <2>8. Follows(Present', Present \ Present')
    BY <2>5, <2>6, <2>7 DEF Follows, Present
  <2> QED BY <1>1, <2>4, <2>7, <2>8 DEF Cutting, Present
<1>4. CASE inbox' = items
  <2>1. inbox' = Cat(<<>>, items) /\ <<>> \in Seq(Items)
    BY <1>4, CatNone
  <2>2. Ordered(<<>>) /\ Outs(<<>>) = {} /\ Follows({}, Outs(inbox))
    BY OutsAre, FollowsOf
  <2> QED BY <1>3, <2>1, <2>2
<1>5. ASSUME NEW k \in 1..Len(inbox), NEW p \in Seq(Items), NEW q \in Seq(Items), Splits(inbox, k, p, q),
             inbox' = Cat(p, items)
      PROVE  Cutting
  <2>1. inbox = Cat(p, q) /\ Ordered(inbox)
    BY <1>5 DEF Splits, Lined, InLine
  <2>2. Outs(inbox) = Outs(p) \union Outs(q) /\ Ordered(p) /\ Follows(Outs(p), Outs(q))
    BY <2>1, OutsOfCat
  <2> QED BY <1>3, <1>5, <2>2
<1> QED BY <1>4, <1>5 DEF Broken

LEMMA StreamSteps ==
  ASSUME ControlInv, UartInv, ItemInv, JoinInv, OrderInv, SourceNext
  PROVE  Moves \/ Leaving \/ Beginning \/ Speaking \/ Cutting
<1>0. ItemTypes /\ Lined
  BY DEF ItemInv, OrderInv
<1>1. CASE \/ OpenUrl \/ OpenSsh \/ OpenTelnet \/ OpenUart \/ FollowUart \/ Dial
  BY <1>0, <1>1, BeginsAnew
<1>2. CASE Rests
  <2>1. UNCHANGED <<inbox, recvBuf, pending, heard, swallowed, answer, spoke, kind, conn, made, far>>
    BY <1>2 DEF Rests, Quiet
  <2>2. UNCHANGED <<First, Second>> /\ Ordered(Second)
    BY <1>0, <2>1 DEF First, Second, Lined, InLine
  <2> QED BY <1>0, <2>1, <2>2, KeepsAll
<1>3. CASE ReceiveMore \/ Ingest
  BY <1>0, <1>3, MovesTaking
<1>4. CASE NoAnswerCame \/ TriedTooSoon \/ Refused \/ CloseSource
  BY <1>0, <1>4, LeavesOff
<1>5. CASE AnswerIsGarbage \/ Accepted \/ CollectLine \/ IngestLine
  BY <1>0, <1>5, MovesLine
<1>6. CASE ReadUart \/ ReadUrl \/ ReadSsh \/ ReadTelnet
  BY <1>0, <1>6, MovesRead
<1>7. CASE Receive
  BY <1>0, <1>7, MovesReceive
<1>8. CASE Received \/ Replied \/ ReadPending
  BY <1>0, <1>8, MovesReturns
<1>9. CASE FarSteps
  <2>1. UNCHANGED <<kind, heard, pending, recvBuf, answer, conn, made>>
    BY <1>9, FarIs DEF stores
  <2>2. ASSUME NEW items \in Seq(Items), Adds(items), Answering(items) PROVE Moves \/ Speaking
    BY <2>1, <2>2, MoreIn
  <2>3. ASSUME NEW items \in Seq(Items), Broken(items) PROVE Cutting
    BY <1>0, <2>1, <2>3, CutsOff
  <2>4. CASE UNCHANGED <<inbox, spoke, far, greeted, swallowed, proto>>
    <3>1. UNCHANGED <<First, Second>> /\ Ordered(Second)
      BY <1>0, <2>1 DEF First, Second, Lined, InLine
    <3> QED BY <1>0, <2>1, <2>4, <3>1, KeepsAll
  <2>5. CASE /\ guest /\ inbox # <<>> /\ inbox' = Tail(inbox) /\ swallowed' = swallowed \union {Head(inbox)}
             /\ UNCHANGED <<spoke, far, greeted, proto>>
    BY <1>0, <2>1, <2>5, MovesAway
  <2> QED BY <1>0, <1>9, <2>2, <2>3, <2>4, <2>5, FarSpecs
<1> QED BY <1>1, <1>2, <1>3, <1>4, <1>5, <1>6, <1>7, <1>8, <1>9, RestsAre DEF SourceNext, OpenStep, Reads

LEMMA OrderKept ==
  ASSUME ControlInv, ItemInv, OrderInv, Moves \/ Leaving \/ Beginning \/ Speaking \/ Cutting
  PROVE  OrderInv'
<1>0. conn \in Nat /\ made \in Nat /\ spoke \in Nat /\ (conn # 0 => conn = made)
  BY DEF ControlInv, LinkTypes, ItemInv, ItemTypes
<1>1. \A x \in Present : Within(x) /\ x.conn \in Nat /\ x.n \in Nat
  <2>1. \A s \in Seq(Items) : Outs(s) \subseteq Items
    <3>1. ASSUME NEW s \in Seq(Items) PROVE ToSet(s) \subseteq Items
      BY DEF ToSet
    <3> QED BY <3>1 DEF Outs
  <2>2. Present \subseteq Items
    BY <2>1, Stretches DEF Present, AllOf
  <2> QED BY <2>2 DEF OrderInv, Items
<1>2. Lined'
  BY DEF Moves, Leaving, Beginning, Speaking, Cutting
<1>3. CASE Moves \/ Leaving \/ Cutting
  <2>1. Present' \subseteq Present /\ made' = made /\ spoke' = spoke
    BY <1>3 DEF Moves, Leaving, Cutting
  <2>2. \A x \in Present' : Within(x)'
    BY <1>1, <2>1 DEF Within
  <2> QED BY <1>2, <2>2 DEF OrderInv
<1>4. CASE Beginning
  <2>1. Present' = Present /\ made' = made + 1
    BY <1>4 DEF Beginning
  <2>2. \A x \in Present' : Within(x)'
    BY <1>0, <1>1, <2>1 DEF Within
  <2> QED BY <1>2, <2>2 DEF OrderInv
<1>5. CASE Speaking
  <2>1. /\ Present' = Present \union {Output(spoke + 1)} /\ spoke' = spoke + 1 /\ made' = made /\ conn = made
        /\ Output(spoke + 1).n = spoke + 1 /\ Output(spoke + 1).conn = made
    BY <1>0, <1>5 DEF Speaking, Output
  <2>2. \A x \in Present' : Within(x)'
    BY <1>0, <1>1, <2>1 DEF Within
  <2> QED BY <1>2, <2>2 DEF OrderInv
<1> QED BY <1>3, <1>4, <1>5

LEMMA HoleKept ==
  ASSUME ControlInv, ItemInv, OrderInv, HoleInv, Moves \/ Leaving \/ Beginning \/ Speaking \/ Cutting
  PROVE  HoleInv'
<1>0. conn \in Nat /\ made \in Nat /\ spoke \in Nat /\ (conn # 0 => conn = made)
  BY DEF ControlInv, LinkTypes, ItemInv, ItemTypes
<1>1. \A x \in Present : Within(x) /\ x.conn \in Nat /\ x.n \in Nat
  <2>1. \A s \in Seq(Items) : Outs(s) \subseteq Items
    <3>1. ASSUME NEW s \in Seq(Items) PROVE ToSet(s) \subseteq Items
      BY DEF ToSet
    <3> QED BY <3>1 DEF Outs
  <2>2. Present \subseteq Items
    BY <2>1, Stretches DEF Present, AllOf
  <2> QED BY <2>2 DEF OrderInv, Items
<1>2. ASSUME conn' = conn, NEW n PROVE Output(n)' = Output(n)
  BY <1>2 DEF Output
<1>3. CASE Moves
  <2>1. /\ Present' \subseteq Present /\ Present \subseteq Present' \union swallowed'
        /\ swallowed \subseteq swallowed'
        /\ conn' = conn /\ spoke' = spoke /\ (far' = "up" => far = "up")
    BY <1>3 DEF Moves
  <2>2. \A n : Here(n) => Here(n)'
    BY <1>2, <2>1 DEF Here
  <2> QED BY <2>1, <2>2 DEF HoleInv
<1>4. CASE Leaving
  BY <1>4 DEF Leaving, HoleInv
<1>5. CASE Beginning
  <2>1. Present' = Present /\ conn' = made + 1 /\ spoke' = 0
    BY <1>5 DEF Beginning
  <2>2. \A x \in Present : x.conn # conn'
    BY <1>0, <1>1, <2>1 DEF Within
  <2> QED BY <2>1, <2>2 DEF HoleInv
<1>6. CASE Speaking
  <2>1. PICK m, y : /\ m = spoke + 1 /\ y = Output(m) /\ y.n = spoke + 1
                    /\ Present' = Present \union {y} /\ spoke' = m /\ swallowed' = swallowed
                    /\ conn' = conn /\ conn # 0
    BY <1>6 DEF Speaking, Output
  <2>2. \A n : Here(n) => Output(n) \in Present' \union swallowed'
    BY <2>1 DEF Here
  <2>3. \A n : Here(n) => Here(n)'
    BY <1>2, <2>1, <2>2 DEF Here
  <2>4. Here(m)'
    BY <1>2, <2>1 DEF Here
  <2>5. far = "up"
    BY <1>6 DEF Speaking
  <2>6. \A n \in 1..spoke : Here(n)'
    BY <2>1, <2>3, <2>5 DEF HoleInv
  <2>7. \A n \in 1..(spoke + 1) : Here(n)'
    <3>1. \A n \in 1..(spoke + 1) : n \in 1..spoke \/ n = spoke + 1
      BY <1>0
    <3> QED BY <2>1, <2>4, <2>6, <3>1
  <2>8. ASSUME NEW x \in Present', x.conn = conn' PROVE \A n \in 1..(x.n - 1) : Here(n)'
    <3>1. CASE x = y
      BY <1>0, <2>1, <2>6, <3>1
    <3>2. CASE x \in Present
      BY <2>1, <2>3, <2>8, <3>2 DEF HoleInv
    <3> QED BY <2>1, <3>1, <3>2
  <2> QED BY <2>1, <2>7, <2>8 DEF HoleInv
<1>7. CASE Cutting
  <2>1. /\ Present' \subseteq Present /\ Follows(Present', Present \ Present') /\ far' = "gone"
        /\ conn' = conn /\ swallowed' = swallowed
    BY <1>7 DEF Cutting
  <2>2. ASSUME NEW x \in Present', x.conn = conn', conn' # 0, NEW n \in 1..(x.n - 1) PROVE Here(n)'
    <3>1. x \in Present /\ x.conn = conn /\ x.n \in Nat /\ conn # 0
      BY <1>1, <2>1, <2>2
    <3>2. Here(n)
      BY <2>2, <3>1, Zenon DEF HoleInv
    <3>3. PICK y : y = Output(n) /\ y.conn = conn /\ y.n = n
      <4>1. Output(n).conn = conn /\ Output(n).n = n
        BY DEF Output
      <4> QED BY <4>1
    <3>4. y \notin Present \ Present'
      <4>1. ~Comes(x, y)
        BY <1>0, <2>2, <3>1, <3>3 DEF Comes
      <4> QED BY <2>1, <2>2, <4>1 DEF Follows
    <3>5. y \in Present' \union swallowed'
      BY <2>1, <3>2, <3>3, <3>4 DEF Here
    <3> QED BY <1>2, <2>1, <3>3, <3>5 DEF Here
  <2> QED BY <2>1, <2>2 DEF HoleInv
<1> QED BY <1>3, <1>4, <1>5, <1>6, <1>7

HearingInv == SourcesInv /\ JoinInv /\ OrderInv /\ HoleInv

LEMMA HearingStarts == ASSUME Init PROVE HearingInv
<1>1. /\ conn = 0 /\ inbox = <<>> /\ recvBuf = <<>> /\ pending = <<>> /\ answer = NoAnswer /\ heard = <<>>
  BY DEF Init, SourceInit
<1>2. First = <<>> /\ Second = <<>>
  BY <1>1, NothingIn DEF First, Second
<1>3. JoinInv
  BY <1>1, PartsOfNone DEF JoinInv
<1>4. Ordered(<<>>) /\ Outs(<<>>) = {} /\ Follows({}, {})
  BY OutsAre, FollowsOf
<1>5. Lined /\ Present = {}
  BY <1>1, <1>2, <1>4 DEF Lined, InLine, Present, AllOf
<1> QED BY <1>1, <1>3, <1>5, SourcesStart DEF HearingInv, OrderInv, HoleInv

LEMMA HearingKept == ASSUME HearingInv, [Next]_vars PROVE HearingInv'
<1>1. SourcesInv'
  BY SourcesKept DEF HearingInv
<1>2. CASE SourceNext
  <2>1. Moves \/ Leaving \/ Beginning \/ Speaking \/ Cutting
    BY <1>2, StreamSteps DEF HearingInv, SourcesInv
  <2>2. JoinInv'
    BY <1>2, JoinKept DEF HearingInv, SourcesInv
  <2>3. OrderInv' /\ HoleInv'
    BY <2>1, OrderKept, HoleKept DEF HearingInv, SourcesInv
  <2> QED BY <1>1, <2>2, <2>3 DEF HearingInv
<1>3. CASE UNCHANGED sourceVars
  <2>1. UNCHANGED <<kind, conn, made, far, greeted, inbox, spoke, recvBuf, pending, answer, heard, swallowed>>
    BY <1>3 DEF sourceVars, linkVars, stores, ghosts
  <2>2. JoinInv'
    BY <2>1 DEF HearingInv, JoinInv
  <2>3. UNCHANGED <<Lined, Present>>
    BY <2>1 DEF Lined, Present, First, Second
  <2>4. OrderInv'
    BY <2>1, <2>3 DEF HearingInv, OrderInv, Within
  <2>5. \A n : Here(n)' <=> Here(n)
    BY <2>1, <2>3 DEF Here, Output
  <2>6. HoleInv'
    BY <2>1, <2>3, <2>5 DEF HearingInv, HoleInv
  <2> QED BY <1>1, <2>2, <2>4, <2>6 DEF HearingInv
<1> QED BY <1>2, <1>3, SourceSteps

LEMMA StreamIs ==
  ASSUME ControlInv, ItemInv, Lined
  PROVE  Stream \in Seq(Items) /\ Outs(Stream) = Present /\ Ordered(Stream)
<1>0. /\ First \in Seq(Items) /\ Second \in Seq(Items) /\ heard \in Seq(Items) /\ inbox \in Seq(Items)
      /\ answer.data \in Seq(Items) /\ answer.chunk \in Seq(Items) /\ pending \in Seq(Items)
      /\ recvBuf \in Seq(Items)
  BY Stretches DEF ItemInv, ItemTypes
<1>1. PICK a, b, c, d \in Seq(Items) :
        /\ a = Cat(heard, answer.data) /\ b = Cat(a, answer.chunk) /\ c = Cat(b, pending) /\ d = Cat(c, recvBuf)
        /\ Stream = Cat(d, inbox)
  <2>1. PICK a \in Seq(Items) : a = Cat(heard, answer.data)
    BY <1>0, CatIs
  <2>2. PICK b \in Seq(Items) : b = Cat(a, answer.chunk)
    BY <1>0, CatIs
  <2>3. PICK c \in Seq(Items) : c = Cat(b, pending)
    BY <1>0, CatIs
  <2>4. PICK d \in Seq(Items) : d = Cat(c, recvBuf)
    BY <1>0, CatIs
  <2>5. Stream = Cat(d, inbox)
    BY <2>1, <2>2, <2>3, <2>4 DEF Stream, Cat
  <2> QED BY <2>1, <2>2, <2>3, <2>4, <2>5
<1>2. d = Cat(Cat(heard, First), Second)
  <2>1. CASE kind = "telnet"
    <3>1. First = answer.data /\ Second = answer.chunk /\ pending = <<>> /\ recvBuf = <<>>
      BY <2>1 DEF First, Second, ItemInv, ShapeInv
    <3>2. c = b /\ d = c
      BY <1>1, <3>1, CatNone
    <3> QED BY <1>1, <3>1, <3>2
  <2>2. CASE kind # "telnet"
    <3>1. First = pending /\ Second = recvBuf
      BY <2>2 DEF First, Second
    <3>2. answer.data = <<>> /\ answer.chunk = <<>>
      <4>1. manager \notin {"receive", "reply"}
        BY <2>2 DEF ControlInv, PlaceInv
      <4> QED BY <4>1, NothingIn DEF ItemInv, ShapeInv
    <3>3. a = heard /\ b = a
      BY <1>0, <1>1, <3>2, CatNone
    <3> QED BY <1>1, <3>1, <3>3
  <2> QED BY <2>1, <2>2
<1>3. PICK e \in Seq(Items) : e = Cat(heard, First)
  BY <1>0, CatIs
<1>4. Outs(e) = Outs(heard) \union Outs(First) /\ Ordered(e)
  BY <1>0, <1>3, OutsOfCat DEF Lined, InLine
<1>5. \A A, B, C : Follows(A, C) /\ Follows(B, C) => Follows(A \union B, C)
  BY DEF Follows
<1>6. Follows(Outs(e), Outs(Second)) /\ Follows(Outs(e), Outs(inbox))
  BY <1>4, <1>5 DEF Lined, InLine
<1>7. Outs(d) = Outs(e) \union Outs(Second) /\ Ordered(d)
  BY <1>0, <1>2, <1>3, <1>4, <1>6, OutsOfCat DEF Lined, InLine
<1>8. Follows(Outs(d), Outs(inbox))
  BY <1>5, <1>6, <1>7 DEF Lined, InLine
<1>9. Outs(Stream) = Outs(d) \union Outs(inbox) /\ Ordered(Stream)
  BY <1>0, <1>1, <1>7, <1>8, OutsOfCat DEF Lined, InLine
<1>10. Stream \in Seq(Items)
  BY <1>0, <1>1, CatIs
<1> QED BY <1>4, <1>7, <1>9, <1>10 DEF Present, AllOf

LEMMA HearsItsDevice == ASSUME HearingInv PROVE SessionHearsItsDevice
<1>0. ControlInv /\ UartInv /\ ItemInv /\ Lined /\ OrderInv /\ HoleInv
  BY DEF HearingInv, SourcesInv, OrderInv
<1>1. ASSUME NEW i \in 1..Len(heard), NEW j \in 1..Len(heard), i < j
      PROVE  \/ heard[i].conn < heard[j].conn
             \/ heard[i].conn = heard[j].conn /\ heard[i].n < heard[j].n
  <2>1. heard[i] \in ToSet(heard) /\ heard[j] \in ToSet(heard)
    BY DEF ToSet
  <2>2. IsOutput(heard[i]) /\ IsOutput(heard[j])
    BY <1>0, <2>1 DEF ItemInv, ShapeInv
  <2> QED BY <1>0, <1>1, <2>2 DEF Lined, InLine, Ordered, Comes
<1>2. ASSUME conn # 0, NEW i \in 1..Len(Stream), IsOutput(Stream[i]), Stream[i].conn = conn,
             NEW n \in 1..(Stream[i].n - 1)
      PROVE  (\E j \in 1..(i - 1) : Stream[j] = Output(n)) \/ Output(n) \in swallowed
  <2>1. PICK s \in Seq(Items) : s = Stream /\ Outs(s) = Present /\ Ordered(s)
    BY <1>0, StreamIs
  <2>2. i \in 1..Len(s) /\ s[i] \in Present /\ s[i].conn = conn /\ n \in 1..(s[i].n - 1) /\ IsOutput(s[i])
    BY <1>2, <2>1 DEF Outs, ToSet
  <2>3. Output(n) \in Present \union swallowed
    <3>1. Here(n)
      BY <1>0, <1>2, <2>2, Zenon DEF HoleInv
    <3> QED BY <3>1 DEF Here
  <2>4. ASSUME Output(n) \in Present PROVE \E j \in 1..(i - 1) : s[j] = Output(n)
    <3>1. PICK y : y = Output(n) /\ y.conn = conn /\ y.n = n
      <4>1. Output(n).conn = conn /\ Output(n).n = n
        BY DEF Output
      <4> QED BY <4>1
    <3>2. PICK j \in 1..Len(s) : s[j] = y /\ IsOutput(y)
      BY <2>1, <2>4, <3>1 DEF Outs, ToSet
    <3>3. s[i].n \in Nat /\ conn \in Nat /\ Len(s) \in Nat
      <4>1. s[i] \in Items
        BY <2>2
      <4> QED BY <1>0, <4>1 DEF Items, ControlInv, LinkTypes
    <3>4. ~Comes(s[i], y) /\ s[i] # y
      BY <2>2, <3>1, <3>3 DEF Comes
    <3>5. ~(i < j) /\ i # j
      BY <2>1, <2>2, <3>2, <3>4 DEF Ordered
    <3>6. j \in 1..(i - 1)
      BY <2>2, <3>3, <3>5
    <3> QED BY <3>1, <3>2, <3>6
  <2> QED BY <2>1, <2>3, <2>4
<1>3. kind = "socket" /\ connected => conn \in accepted \union botched
  BY <1>0 DEF ControlInv, PlaceInv
<1>4. serial => moved \in {"none", identity.adapter}
  BY <1>0 DEF UartInv
<1> QED BY <1>1, <1>2, <1>3, <1>4 DEF SessionHearsItsDevice

\* A session hears of one connection after the other, of each in order and without a hole but for
\* what was swallowed; it takes itself for connected to a proxy only if that accepted it or
\* open() had failed there; and a serial number is followed to no other adapter.
THEOREM SessionHears == Spec => []SessionHearsItsDevice
<1>1. Init => HearingInv
  BY HearingStarts
<1>2. HearingInv /\ [Next]_vars => HearingInv'
  BY HearingKept
<1>3. HearingInv => SessionHearsItsDevice
  BY HearsItsDevice
<1> QED BY <1>1, <1>2, <1>3, PTL DEF Spec
=============================================================================
